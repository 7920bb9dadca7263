--------------------------- MODULE StreamProxyProofs ---------------------------
(***************************************************************************)
(* What StreamProxy guarantees for any set of requests, whatever the       *)
(* limits, the windows and the faults of the scenario.                     *)
(***************************************************************************)
EXTENDS StreamProxy, FiniteSetTheorems, WellFoundedInduction, TLAPS

USE StreamAssumption

-----------------------------------------------------------------------------
(* Sequences and cardinalities                                             *)

LEMMA SmallestIndex ==
  ASSUME NEW S \in SUBSET Nat, S # {}
  PROVE  Min(S) \in S /\ \A i \in S : Min(S) <= i
<1> DEFINE Below == {p \in Nat \X Nat : p[1] < p[2]}
<1>0. IsWellFoundedOn(Below, Nat)
  BY NatLessThanWellFounded, Zenon DEF OpToRel
<1>1. PICK x \in S : \A y \in S : ~(<<y, x>> \in Below)
  <2> HIDE DEF Below
  <2> QED BY <1>0, WFMin
<1>2. ASSUME NEW y \in S PROVE x <= y
  <2>1. x \in Nat /\ y \in Nat
    OBVIOUS
  <2>2. y < x => <<y, x>> \in Below
    BY <2>1
  <2> HIDE DEF Below
  <2> QED BY <1>1, <2>1, <2>2
<1> QED BY <1>2 DEF Min

\* What is left of a window is its end, and what went is out of the window.
LEMMA RecentIsSuffix ==
  ASSUME clock \in Nat, NEW times \in Seq(Nat)
  PROVE  /\ Recent(times) \in Seq(Nat)
         /\ Len(Recent(times)) <= Len(times)
         /\ \A i \in 1..Len(Recent(times)) :
              Recent(times)[i] = times[(Len(times) - Len(Recent(times))) + i]
         /\ \A i \in 1..(Len(times) - Len(Recent(times))) : times[i] < clock - Window
<1> DEFINE kept == {i \in DOMAIN times : times[i] >= clock - Window}
<1>1. \A i \in 1..Len(times) : times[i] \in Nat
  OBVIOUS
<1>2. CASE kept = {}
  BY <1>1, <1>2 DEF Recent
<1>3. CASE kept # {}
  <2> DEFINE first == Min(kept)
  <2>1. kept \in SUBSET Nat
    OBVIOUS
  <2>2. first \in kept /\ \A i \in kept : first <= i
    <3> HIDE DEF kept
    <3> QED BY <1>3, <2>1, SmallestIndex
  <2>3. first \in 1..Len(times)
    <3>1. kept \subseteq 1..Len(times)
      OBVIOUS
    <3> HIDE DEF first, kept
    <3> QED BY <2>2, <3>1
  <2>4. Recent(times) = SubSeq(times, first, Len(times))
    BY <1>3 DEF Recent
  <2>5. \A i \in 1..(first - 1) : times[i] < clock - Window
    <3>1. \A i \in 1..Len(times) : i \notin kept => times[i] < clock - Window
      BY <1>1
    <3> HIDE DEF first, kept
    <3> QED BY <2>2, <2>3, <3>1
  <2> HIDE DEF first, kept
  <2>6. /\ SubSeq(times, first, Len(times)) \in Seq(Nat)
        /\ Len(SubSeq(times, first, Len(times))) = Len(times) - first + 1
    BY <2>3
  <2>7. \A i \in 1..(Len(times) - first + 1) :
          SubSeq(times, first, Len(times))[i] = times[first - 1 + i]
    BY <2>3
  <2> QED BY <2>3, <2>4, <2>5, <2>6, <2>7
<1> QED BY <1>2, <1>3

-----------------------------------------------------------------------------
(* What a request holds follows from where it is                           *)

RequestRecord ==
  [pc : Pcs, guard : {"none", "held", "released"}, pinned : BOOLEAN,
   upstream : {"none", "opening", "open", "closed"}, started : BOOLEAN,
   row : {"none", "scheduled", "written", "lost"}]

Coherent(q) ==
  /\ q \in RequestRecord
  /\ q.pc \in {"idle", "quota", "load", "posting"} => q.guard = "none" /\ ~q.started
  /\ q.pinned <=> q.pc \in {"posting", "streaming", "closing"}
  /\ q.guard = "held" => q.pc \in {"opening", "refusing", "handed", "dropped"}
  /\ q.started /\ q.pc = "done" => q.row # "none"

Holds(q) == (IF q.guard = "held" THEN 1 ELSE 0) + (IF q.pinned THEN 1 ELSE 0)

Guarded == {r \in Req : req[r].guard = "held"}
Pinned  == {r \in Req : req[r].pinned}

\* Req may be infinite: only finitely many requests hold a pin.
PinCount ==
  /\ IsFiniteSet(Guarded) /\ IsFiniteSet(Pinned)
  /\ pins = Cardinality(Guarded) + Cardinality(Pinned)

RequestInv ==
  /\ req = [r \in Req |-> req[r]]
  /\ \A r \in Req : Coherent(req[r])
  /\ PinCount

StreamTypeOK ==
  /\ clock \in Nat
  /\ window \in Seq(Nat) /\ allowed \in Seq(Nat)
  /\ alive \in BOOLEAN
  /\ left \in [Fault -> Nat]

LEMMA CountAfter ==
  ASSUME NEW S, NEW T, NEW r, IsFiniteSet(S), \A x : x # r => (x \in S <=> x \in T)
  PROVE  /\ IsFiniteSet(T)
         /\ Cardinality(S) \in Nat /\ Cardinality(T) \in Nat
         /\ Cardinality(T) = (Cardinality(S) - IF r \in S THEN 1 ELSE 0) + IF r \in T THEN 1 ELSE 0
<1>1. IsFiniteSet(S \ {r}) /\ Cardinality(S \ {r}) = Cardinality(S) - IF r \in S THEN 1 ELSE 0
  BY FS_RemoveElement, FS_CardinalityType
<1>2. CASE r \in T
  <2>1. T = (S \ {r}) \cup {r} /\ r \notin S \ {r}
    BY <1>2
  <2>2. IsFiniteSet(T) /\ Cardinality(T) = Cardinality(S \ {r}) + 1
    BY <1>1, <2>1, FS_AddElement
  <2> QED BY <1>1, <1>2, <2>2, FS_CardinalityType
<1>3. CASE r \notin T
  <2>1. T = S \ {r}
    BY <1>3
  <2> QED BY <1>1, <1>3, <2>1, FS_CardinalityType
<1> QED BY <1>2, <1>3

\* The pins of the server count at least those of each request.
LEMMA HoldsCounted ==
  ASSUME RequestInv, NEW r \in Req
  PROVE  /\ pins \in Nat
         /\ Holds(req[r]) \in {0, 1}
         /\ Holds(req[r]) <= pins
<1>1. /\ Cardinality(Guarded) \in Nat /\ Cardinality(Pinned) \in Nat
      /\ pins = Cardinality(Guarded) + Cardinality(Pinned)
  BY FS_CardinalityType DEF RequestInv, PinCount
<1>2. r \in Guarded => Cardinality(Guarded) # 0
  BY FS_EmptySet DEF RequestInv, PinCount
<1>3. r \in Pinned => Cardinality(Pinned) # 0
  BY FS_EmptySet DEF RequestInv, PinCount
<1>4. req[r].guard = "held" => r \in Guarded /\ ~req[r].pinned
  BY DEF RequestInv, Coherent, Guarded
<1>5. req[r].pinned => r \in Pinned
  BY DEF Pinned
<1> QED BY <1>1, <1>2, <1>3, <1>4, <1>5 DEF Holds

\* A request that changes what it holds, and the pins with it.
LEMMA BecomeKeeps ==
  ASSUME RequestInv, NEW r \in Req, NEW q, Become(r, q), Coherent(q),
         pins' = (pins - Holds(req[r])) + Holds(q)
  PROVE  RequestInv'
<1>1. /\ req' = [x \in Req |-> IF x = r THEN q ELSE req[x]]
      /\ req'[r] = q
      /\ \A x \in Req \ {r} : req'[x] = req[x]
  BY DEF RequestInv, Become
<1>2. req' = [x \in Req |-> req'[x]]
  BY <1>1
<1>3. \A x \in Req : Coherent(req'[x])
  BY <1>1 DEF RequestInv
<1>4. \A x : x # r => (x \in Guarded <=> x \in Guarded') /\ (x \in Pinned <=> x \in Pinned')
  BY <1>1 DEF Guarded, Pinned
<1>5. /\ r \in Guarded <=> req[r].guard = "held"
      /\ r \in Guarded' <=> q.guard = "held"
      /\ r \in Pinned <=> req[r].pinned
      /\ r \in Pinned' <=> q.pinned
  BY <1>1 DEF Guarded, Pinned
<1>6. IsFiniteSet(Guarded) /\ IsFiniteSet(Pinned) /\ pins = Cardinality(Guarded) + Cardinality(Pinned)
  BY DEF RequestInv, PinCount
<1>7. /\ IsFiniteSet(Guarded')
      /\ Cardinality(Guarded) \in Nat /\ Cardinality(Guarded') \in Nat
      /\ Cardinality(Guarded') = (Cardinality(Guarded) - IF r \in Guarded THEN 1 ELSE 0)
                                   + IF r \in Guarded' THEN 1 ELSE 0
  BY <1>4, <1>6, CountAfter
<1>8. /\ IsFiniteSet(Pinned')
      /\ Cardinality(Pinned) \in Nat /\ Cardinality(Pinned') \in Nat
      /\ Cardinality(Pinned') = (Cardinality(Pinned) - IF r \in Pinned THEN 1 ELSE 0)
                                   + IF r \in Pinned' THEN 1 ELSE 0
  BY <1>4, <1>6, CountAfter
<1>9. pins' = Cardinality(Guarded') + Cardinality(Pinned')
  BY <1>5, <1>6, <1>7, <1>8 DEF Holds
<1> QED BY <1>2, <1>3, <1>7, <1>8, <1>9 DEF RequestInv, PinCount

-----------------------------------------------------------------------------
(* The rate limit                                                          *)

\* The entries still in the window are the end of those ever allowed; the others
\* are out of the window for good; and Rpm + 1 consecutive ones span more than it.
LimitInv ==
  /\ \A i \in 1..Len(allowed) : allowed[i] <= clock
  /\ \A i, j \in 1..Len(allowed) : i <= j => allowed[i] <= allowed[j]
  /\ Len(window) <= Len(allowed)
  /\ \A i \in 1..Len(window) : window[i] = allowed[(Len(allowed) - Len(window)) + i]
  /\ \A i \in 1..(Len(allowed) - Len(window)) : allowed[i] < clock - Window
  /\ Rpm > 0 => \A i \in 1..Len(allowed) :
                  i + Rpm <= Len(allowed) => allowed[i] + Window < allowed[i + Rpm]

LEMMA LimitInvInit == Init => LimitInv
  BY DEF Init, LimitInv

LEMMA LimitInvStep == StreamTypeOK /\ LimitInv /\ [Next]_vars => LimitInv'
<1> SUFFICES ASSUME StreamTypeOK, LimitInv, [Next]_vars
             PROVE  LimitInv'
  OBVIOUS
<1>0. /\ \A i \in 1..Len(allowed) : allowed[i] \in Nat
      /\ \A i \in 1..Len(window) : window[i] \in Nat
      /\ Len(allowed) \in Nat /\ Len(window) \in Nat /\ clock \in Nat
  <2>1. window \in Seq(Nat) /\ allowed \in Seq(Nat) /\ clock \in Nat
    BY DEF StreamTypeOK
  <2> HIDE StreamAssumption
  <2> QED BY <2>1
<1>1. ASSUME NEW r \in Req, RateCheck(r)
      PROVE  LimitInv'
  <2> DEFINE kept == Recent(window)
  <2>1. /\ kept \in Seq(Nat) /\ Len(kept) \in Nat
        /\ Len(kept) <= Len(window)
        /\ \A i \in 1..Len(kept) : kept[i] = window[(Len(window) - Len(kept)) + i]
        /\ \A i \in 1..(Len(window) - Len(kept)) : window[i] < clock - Window
    BY RecentIsSuffix DEF StreamTypeOK
  <2> HIDE DEF kept
  <2>2. /\ Len(kept) <= Len(allowed)
        /\ \A i \in 1..Len(kept) : kept[i] = allowed[(Len(allowed) - Len(kept)) + i]
    BY <1>0, <2>1 DEF LimitInv
  <2>3. ASSUME NEW i \in 1..(Len(allowed) - Len(kept))
        PROVE  allowed[i] < clock - Window
    <3>1. CASE i <= Len(allowed) - Len(window)
      BY <1>0, <2>1, <3>1 DEF LimitInv
    <3>2. CASE i > Len(allowed) - Len(window)
      <4> DEFINE j == i - (Len(allowed) - Len(window))
      <4>1. j \in 1..(Len(window) - Len(kept)) /\ j \in 1..Len(window)
        BY <1>0, <2>1, <3>2
      <4>2. window[j] = allowed[i]
        BY <1>0, <4>1 DEF LimitInv
      <4> QED BY <2>1, <4>1, <4>2
    <3> QED BY <1>0, <2>1, <3>1, <3>2
  <2>4. CASE Rpm > 0 /\ Len(kept) >= Rpm
    <3>1. window' = kept /\ UNCHANGED <<allowed, clock>>
      BY <1>1, <2>4 DEF RateCheck, kept
    <3> QED BY <1>0, <2>1, <2>2, <2>3, <3>1 DEF LimitInv
  <2>5. CASE ~(Rpm > 0 /\ Len(kept) >= Rpm)
    <3>1. window' = Append(kept, clock) /\ allowed' = Append(allowed, clock) /\ clock' = clock
      BY <1>1, <2>5 DEF RateCheck, kept
    <3>2. /\ Len(allowed') = Len(allowed) + 1
          /\ \A i \in 1..Len(allowed) : allowed'[i] = allowed[i]
          /\ allowed'[Len(allowed) + 1] = clock
      BY <3>1 DEF StreamTypeOK
    <3>3. /\ Len(window') = Len(kept) + 1
          /\ \A i \in 1..Len(kept) : window'[i] = kept[i]
          /\ window'[Len(kept) + 1] = clock
      BY <2>1, <3>1 DEF StreamTypeOK
    <3>4. (/\ \A i \in 1..Len(allowed) : allowed[i] <= clock
           /\ \A i, j \in 1..Len(allowed) : i <= j => allowed[i] <= allowed[j])'
      BY <1>0, <3>1, <3>2 DEF LimitInv
    <3>5. (/\ Len(window) <= Len(allowed)
           /\ \A i \in 1..(Len(allowed) - Len(window)) : allowed[i] < clock - Window)'
      BY <1>0, <2>1, <2>2, <2>3, <3>1, <3>2, <3>3
    <3>6. (\A i \in 1..Len(window) : window[i] = allowed[(Len(allowed) - Len(window)) + i])'
      <4>0. Len(window') = Len(kept) + 1 /\ Len(allowed') - Len(window') = Len(allowed) - Len(kept)
        BY <1>0, <2>1, <3>2, <3>3
      <4> SUFFICES ASSUME NEW i \in 1..(Len(kept) + 1)
                   PROVE  window'[i] = allowed'[(Len(allowed) - Len(kept)) + i]
        BY <4>0
      <4>1. CASE i = Len(kept) + 1
        <5>1. (Len(allowed) - Len(kept)) + i = Len(allowed) + 1
          BY <1>0, <2>1, <4>1
        <5> QED BY <3>2, <3>3, <4>1, <5>1
      <4>2. CASE i \in 1..Len(kept)
        <5> DEFINE j == (Len(allowed) - Len(kept)) + i
        <5>1. j \in 1..Len(allowed)
          BY <1>0, <2>1, <2>2, <4>2
        <5>2. window'[i] = kept[i] /\ kept[i] = allowed[j] /\ allowed'[j] = allowed[j]
          BY <2>2, <3>2, <3>3, <4>2, <5>1
        <5> QED BY <5>2
      <4> QED BY <2>1, <4>1, <4>2
    <3>7. ASSUME Rpm > 0, NEW i \in 1..Len(allowed'), i + Rpm <= Len(allowed')
          PROVE  allowed'[i] + Window < allowed'[i + Rpm]
      <4>0. Rpm \in Nat /\ i \in Nat /\ i \in 1..Len(allowed)
        BY <1>0, <3>2, <3>7
      <4>1. CASE i + Rpm = Len(allowed) + 1
        <5>1. i \in 1..(Len(allowed) - Len(kept))
          BY <1>0, <2>1, <2>5, <3>7, <4>0, <4>1
        <5>2. allowed'[i] = allowed[i] /\ allowed'[i + Rpm] = clock
          BY <3>2, <4>0, <4>1
        <5> DEFINE a == allowed[i]
        <5>3. a \in Nat /\ a < clock - Window
          BY <1>0, <2>3, <4>0, <5>1
        <5>4. a + Window < clock
          <6> HIDE DEF a
          <6> QED BY <1>0, <5>3
        <5> QED BY <5>2, <5>4
      <4>2. CASE i + Rpm <= Len(allowed)
        <5>1. allowed'[i] = allowed[i] /\ allowed'[i + Rpm] = allowed[i + Rpm]
          BY <3>2, <3>7, <4>0, <4>2
        <5>2. allowed[i] + Window < allowed[i + Rpm]
          BY <3>7, <4>0, <4>2 DEF LimitInv
        <5> QED BY <5>1, <5>2
      <4>3. i + Rpm = Len(allowed) + 1 \/ i + Rpm <= Len(allowed)
        <5> DEFINE n == Len(allowed)
        <5>1. n \in Nat /\ i + Rpm <= n + 1
          BY <1>0, <3>2, <3>7
        <5> HIDE DEF n
        <5>2. i + Rpm = n + 1 \/ i + Rpm <= n
          BY <4>0, <5>1
        <5> QED BY <5>2 DEF n
      <4> QED BY <4>1, <4>2, <4>3
    <3> QED BY <3>4, <3>5, <3>6, <3>7 DEF LimitInv
  <2> QED BY <2>4, <2>5
<1>2. CASE Tick
  <2>1. clock' = clock + 1 /\ allowed' = allowed /\ window' = window
    BY <1>2 DEF Tick
  <2>2. \A i \in 1..Len(allowed) : allowed[i] <= clock'
    BY <1>0, <2>1 DEF LimitInv
  <2>3. \A i \in 1..(Len(allowed) - Len(window)) : i \in 1..Len(allowed)
    BY <1>0
  <2>4. \A i \in 1..(Len(allowed) - Len(window)) : allowed[i] < clock' - Window
    BY <1>0, <2>1, <2>3 DEF LimitInv
  <2> QED BY <2>1, <2>2, <2>4 DEF LimitInv
<1>3. CASE CleanupStale
  <2>1. window' = <<>> /\ UNCHANGED <<clock, allowed>> /\ (window # <<>> => Last(window) + Stale < clock)
    BY <1>3 DEF CleanupStale
  <2>2. ASSUME NEW i \in 1..Len(allowed)
        PROVE  allowed[i] < clock - Window
    <3>1. CASE window = <<>>
      BY <1>0, <3>1 DEF LimitInv
    <3>2. CASE window # <<>>
      <4>1. Len(window) \in 1..Len(window) /\ Last(window) = window[Len(window)]
        BY <3>2 DEF StreamTypeOK, Last
      <4>2. window[Len(window)] = allowed[Len(allowed)] /\ Len(allowed) \in 1..Len(allowed)
        BY <1>0, <4>1 DEF LimitInv
      <4>3. allowed[i] <= allowed[Len(allowed)]
        BY <1>0, <4>2 DEF LimitInv
      <4>4. allowed[Len(allowed)] + Stale < clock
        BY <2>1, <3>2, <4>1, <4>2
      <4> QED BY <1>0, <4>2, <4>3, <4>4
    <3> QED BY <3>1, <3>2
  <2>3. Len(window') = 0
    BY <2>1
  <2> QED BY <1>0, <2>1, <2>2, <2>3 DEF LimitInv
<1>4. UNCHANGED <<clock, window, allowed>> => LimitInv'
  BY DEF LimitInv
<1>5. ASSUME NEW r \in Req, RequestStep(r) \/ Dropped(r) \/ TimerFires(r) \/ LogUsage(r) \/ UsageLost(r)
      PROVE  LimitInv'
  <2>1. UNCHANGED <<clock, window, allowed>>
    BY <1>5 DEF RequestStep, QuotaCheck, LoadFails, BeginPost, BeginStream, PostEnds, OpenFails,
                OpenRefused, RefusalRead, OpenSucceeds, Start, StreamEnds, CloseStream, Dropped,
                TimerFires, LogUsage, UsageLost, UnchangedLimits
  <2> QED BY <1>4, <2>1
<1>6. CASE Evict
  BY <1>4, <1>6 DEF Evict, UnchangedLimits
<1>7. CASE Crash
  BY <1>4, <1>7 DEF Crash, UnchangedLimits
<1>8. CASE UNCHANGED vars
  BY <1>4, <1>8 DEF vars
<1> QED BY <1>1, <1>2, <1>3, <1>5, <1>6, <1>7, <1>8 DEF Next

-----------------------------------------------------------------------------
(* Every step of a request                                                 *)

\* An action of one request, and what it changes of what the request holds.
Changes(r) == \E q : Become(r, q) /\ Coherent(q) /\ pins' = (pins - Holds(req[r])) + Holds(q)

LEMMA RequestChanges ==
  ASSUME RequestInv, alive \in BOOLEAN, NEW r \in Req,
         RateCheck(r) \/ RequestStep(r) \/ Dropped(r) \/ TimerFires(r) \/ LogUsage(r) \/ UsageLost(r)
  PROVE  Changes(r)
<1> DEFINE old == req[r]
<1>1. Coherent(old) /\ pins \in Nat /\ Holds(old) \in {0, 1} /\ Holds(old) <= pins
  BY HoldsCounted DEF RequestInv
<1> HIDE DEF old
<1>0. ASSUME NEW q, Become(r, q), Coherent(q), pins' = (pins - Holds(old)) + Holds(q)
      PROVE  Changes(r)
  BY <1>0 DEF Changes, old
<1>2. ASSUME NEW pc \in Pcs, Goto(r, pc), pins' = pins,
             \/ old.pc \in {"idle", "quota", "load"} /\ pc \in {"quota", "load", "done"}
             \/ old.pc = "streaming" /\ pc = "closing"
      PROVE  Changes(r)
  <2> DEFINE q == [old EXCEPT !.pc = pc]
  <2>1. Coherent(q) /\ Holds(q) = Holds(old)
    BY <1>1, <1>2 DEF Coherent, RequestRecord, Pcs, Holds
  <2> QED BY <1>0, <1>1, <1>2, <2>1 DEF Goto, old
<1>3. CASE RateCheck(r)
  BY <1>2, <1>3 DEF RateCheck, old, Pcs
<1>4. CASE QuotaCheck(r)
  BY <1>2, <1>4 DEF QuotaCheck, old, Pcs
<1>5. CASE LoadFails(r)
  BY <1>2, <1>5 DEF LoadFails, old, Pcs
<1>6. CASE StreamEnds(r)
  BY <1>2, <1>6 DEF StreamEnds, old, Pcs
<1>7. CASE BeginPost(r)
  <2> DEFINE q == [old EXCEPT !.pc = "posting", !.pinned = TRUE]
  <2>1. old.pc = "load" /\ Become(r, q) /\ pins' = pins + 1
    BY <1>7 DEF BeginPost, old
  <2>2. /\ q \in RequestRecord /\ q.pc = "posting" /\ q.pinned = TRUE
        /\ q.guard = old.guard /\ q.started = old.started /\ q.row = old.row
    BY <1>1 DEF Coherent, RequestRecord, Pcs
  <2> HIDE DEF q
  <2>3. Coherent(q)
    BY <1>1, <2>1, <2>2 DEF Coherent
  <2>4. Holds(q) = 1 /\ Holds(old) = 0
    BY <1>1, <2>1, <2>2 DEF Coherent, Holds
  <2> QED BY <1>0, <1>1, <2>1, <2>3, <2>4
<1>8. CASE BeginStream(r)
  <2> DEFINE q == [old EXCEPT !.pc = "opening", !.guard = "held", !.upstream = "opening", !.started = TRUE]
  <2>1. old.pc = "load" /\ Become(r, q) /\ pins' = pins + 1
    BY <1>8 DEF BeginStream, old
  <2>2. /\ q \in RequestRecord /\ q.pc = "opening" /\ q.guard = "held" /\ q.started = TRUE
        /\ q.pinned = old.pinned /\ q.row = old.row
    BY <1>1 DEF Coherent, RequestRecord, Pcs
  <2> HIDE DEF q
  <2>3. Coherent(q)
    BY <1>1, <2>1, <2>2 DEF Coherent
  <2>4. Holds(q) = 1 /\ Holds(old) = 0
    BY <1>1, <2>1, <2>2 DEF Coherent, Holds
  <2> QED BY <1>0, <1>1, <2>1, <2>3, <2>4
<1>9. CASE PostEnds(r)
  <2>0. PICK row \in {"none", "scheduled"} :
          Become(r, [old EXCEPT !.pc = "done", !.pinned = FALSE, !.row = row])
    BY <1>9 DEF PostEnds, old
  <2> DEFINE q == [old EXCEPT !.pc = "done", !.pinned = FALSE, !.row = row]
  <2>1. old.pc = "posting" /\ Become(r, q) /\ pins' = LessPins(1)
    BY <1>9, <2>0 DEF PostEnds, old
  <2>2. /\ q \in RequestRecord /\ q.pc = "done" /\ q.pinned = FALSE /\ q.row = row
        /\ q.guard = old.guard /\ q.started = old.started
    BY <1>1 DEF Coherent, RequestRecord, Pcs
  <2> HIDE DEF q
  <2>3. Coherent(q)
    BY <1>1, <2>1, <2>2 DEF Coherent
  <2>4. Holds(q) = 0 /\ Holds(old) = 1
    BY <1>1, <2>1, <2>2 DEF Coherent, Holds
  <2> QED BY <1>0, <1>1, <2>1, <2>3, <2>4 DEF LessPins
<1>10. CASE OpenFails(r) \/ RefusalRead(r)
  <2> DEFINE q == [old EXCEPT !.pc = "done", !.row = "scheduled", !.guard = "released", !.upstream = "closed"]
  <2>1. old.pc \in {"opening", "refusing"} /\ Become(r, q) /\ pins' = LessPins(GuardPins(r))
    BY <1>10 DEF OpenFails, RefusalRead, Logged, old
  <2>2. /\ q \in RequestRecord /\ q.pc = "done" /\ q.guard = "released" /\ q.row = "scheduled"
        /\ q.pinned = old.pinned /\ q.started = old.started
    BY <1>1 DEF Coherent, RequestRecord, Pcs
  <2> HIDE DEF q
  <2>3. Coherent(q)
    BY <1>1, <2>1, <2>2 DEF Coherent
  <2>4. Holds(q) = 0 /\ Holds(old) = GuardPins(r)
    BY <1>1, <2>1, <2>2 DEF Coherent, Holds, GuardPins, old
  <2> QED BY <1>0, <1>1, <2>1, <2>3, <2>4 DEF LessPins
<1>11. CASE OpenRefused(r) \/ OpenSucceeds(r)
  <2>0. PICK pc \in {"refusing", "handed"} : Become(r, [old EXCEPT !.pc = pc, !.upstream = "open"])
    BY <1>11 DEF OpenRefused, OpenSucceeds, old
  <2> DEFINE q == [old EXCEPT !.pc = pc, !.upstream = "open"]
  <2>1. old.pc = "opening" /\ Become(r, q) /\ pins' = pins
    BY <1>11, <2>0 DEF OpenRefused, OpenSucceeds, old
  <2>2. /\ q \in RequestRecord /\ q.pc = pc
        /\ q.guard = old.guard /\ q.pinned = old.pinned /\ q.started = old.started /\ q.row = old.row
    BY <1>1 DEF Coherent, RequestRecord, Pcs
  <2> HIDE DEF q
  <2>3. Coherent(q)
    BY <1>1, <2>1, <2>2 DEF Coherent
  <2>4. Holds(q) = Holds(old)
    BY <1>1, <2>1, <2>2 DEF Holds
  <2> QED BY <1>0, <1>1, <2>1, <2>3, <2>4
<1>12. CASE Start(r)
  <2> DEFINE q == [old EXCEPT !.pc = "streaming", !.pinned = TRUE, !.guard = "released"]
  <2>1. old.pc = "handed" /\ Become(r, q) /\ pins' = (pins + 1) - GuardPins(r)
    BY <1>12 DEF Start, old
  <2>2. /\ q \in RequestRecord /\ q.pc = "streaming" /\ q.guard = "released" /\ q.pinned = TRUE
        /\ q.started = old.started /\ q.row = old.row
    BY <1>1 DEF Coherent, RequestRecord, Pcs
  <2> HIDE DEF q
  <2>3. Coherent(q)
    BY <1>1, <2>1, <2>2 DEF Coherent
  <2>4. Holds(q) = 1 /\ Holds(old) = GuardPins(r)
    BY <1>1, <2>1, <2>2 DEF Coherent, Holds, GuardPins, old
  <2> QED BY <1>0, <1>1, <2>1, <2>3, <2>4
<1>13. CASE CloseStream(r)
  <2> DEFINE q == [old EXCEPT !.pc = "done", !.row = "scheduled", !.pinned = FALSE, !.upstream = "closed"]
  <2>1. old.pc = "closing" /\ Become(r, q) /\ pins' = LessPins(1)
    BY <1>13 DEF CloseStream, Logged, old
  <2>2. /\ q \in RequestRecord /\ q.pc = "done" /\ q.pinned = FALSE /\ q.row = "scheduled"
        /\ q.guard = old.guard /\ q.started = old.started
    BY <1>1 DEF Coherent, RequestRecord, Pcs
  <2> HIDE DEF q
  <2>3. Coherent(q)
    BY <1>1, <2>1, <2>2 DEF Coherent
  <2>4. Holds(q) = 0 /\ Holds(old) = 1
    BY <1>1, <2>1, <2>2 DEF Coherent, Holds
  <2> QED BY <1>0, <1>1, <2>1, <2>3, <2>4 DEF LessPins
<1>14. CASE Dropped(r)
  <2>0. PICK released \in BOOLEAN :
          /\ released => old.guard = "held"
          /\ Become(r, [old EXCEPT !.pc = "dropped",
                                   !.guard = IF released THEN "released" ELSE @,
                                   !.upstream = IF old.pc = "handed" THEN @ ELSE "closed"])
          /\ pins' = LessPins(IF released THEN 1 ELSE 0)
    BY <1>14 DEF Dropped, old
  <2> DEFINE q == [old EXCEPT !.pc = "dropped",
                              !.guard = IF released THEN "released" ELSE @,
                              !.upstream = IF old.pc = "handed" THEN @ ELSE "closed"]
  <2>1. old.pc \in {"opening", "refusing", "handed"} /\ Become(r, q)
    BY <1>14, <2>0 DEF Dropped, old
  <2>2. /\ q \in RequestRecord /\ q.pc = "dropped" /\ (q.guard = IF released THEN "released" ELSE old.guard)
        /\ q.pinned = old.pinned /\ q.started = old.started /\ q.row = old.row
    BY <1>1 DEF Coherent, RequestRecord, Pcs
  <2> HIDE DEF q
  <2>3. Coherent(q)
    BY <1>1, <2>1, <2>2 DEF Coherent
  <2>4. Holds(q) = Holds(old) - (IF released THEN 1 ELSE 0)
    BY <1>1, <2>0, <2>1, <2>2 DEF Coherent, Holds
  <2>5. pins' = (pins - Holds(old)) + Holds(q)
    BY <1>1, <2>0, <2>4 DEF LessPins, Holds
  <2> QED BY <1>0, <2>1, <2>3, <2>5
<1>15. CASE TimerFires(r)
  <2> DEFINE q == [old EXCEPT !.guard = "released", !.upstream = IF @ = "open" THEN "closed" ELSE @]
  <2>1. old.guard = "held" /\ Become(r, q) /\ pins' = LessPins(GuardPins(r))
    BY <1>15 DEF TimerFires, old
  <2>2. /\ q \in RequestRecord /\ q.guard = "released"
        /\ q.pc = old.pc /\ q.pinned = old.pinned /\ q.started = old.started /\ q.row = old.row
    BY <1>1 DEF Coherent, RequestRecord, Pcs
  <2> HIDE DEF q
  <2>3. Coherent(q)
    BY <1>1, <2>1, <2>2 DEF Coherent
  <2>4. Holds(q) = 0 /\ Holds(old) = GuardPins(r)
    BY <1>1, <2>1, <2>2 DEF Coherent, Holds, GuardPins, old
  <2> QED BY <1>0, <1>1, <2>1, <2>3, <2>4 DEF LessPins
<1>16. CASE LogUsage(r) \/ UsageLost(r)
  <2>0. PICK row \in {"written", "lost"} : Become(r, [old EXCEPT !.row = row])
    BY <1>16 DEF LogUsage, UsageLost, old
  <2> DEFINE q == [old EXCEPT !.row = row]
  <2>1. Become(r, q) /\ pins' = pins
    BY <1>16, <2>0 DEF LogUsage, UsageLost
  <2>2. /\ q \in RequestRecord /\ q.row = row
        /\ q.pc = old.pc /\ q.guard = old.guard /\ q.pinned = old.pinned /\ q.started = old.started
    BY <1>1 DEF Coherent, RequestRecord
  <2> HIDE DEF q
  <2>3. Coherent(q)
    BY <1>1, <2>2 DEF Coherent
  <2>4. Holds(q) = Holds(old)
    BY <1>1, <2>2 DEF Holds
  <2> QED BY <1>0, <1>1, <2>1, <2>3, <2>4
<1> QED BY <1>3, <1>4, <1>5, <1>6, <1>7, <1>8, <1>9, <1>10, <1>11, <1>12, <1>13, <1>14, <1>15, <1>16
        DEF RequestStep

-----------------------------------------------------------------------------
(* The inductive invariant                                                 *)

StreamInv == StreamTypeOK /\ RequestInv /\ LimitInv

LEMMA StreamTypeStep == StreamTypeOK /\ [Next]_vars => StreamTypeOK'
<1> SUFFICES ASSUME StreamTypeOK, [Next]_vars
             PROVE  StreamTypeOK'
  OBVIOUS
<1>0. ASSUME NEW f \in Fault, Spend(f)
      PROVE  left' \in [Fault -> Nat]
  BY <1>0 DEF Spend, StreamTypeOK
<1>1. ASSUME NEW r \in Req, RateCheck(r)
      PROVE  StreamTypeOK'
  <2>1. Recent(window) \in Seq(Nat)
    BY RecentIsSuffix DEF StreamTypeOK
  <2>2. window' \in {Recent(window), Append(Recent(window), clock)}
        /\ allowed' \in {allowed, Append(allowed, clock)}
    BY <1>1 DEF RateCheck
  <2>3. Append(Recent(window), clock) \in Seq(Nat) /\ Append(allowed, clock) \in Seq(Nat)
    BY <2>1 DEF StreamTypeOK
  <2>4. window' \in Seq(Nat) /\ allowed' \in Seq(Nat)
    BY <2>1, <2>2, <2>3 DEF StreamTypeOK
  <2> QED BY <1>0, <1>1, <2>4 DEF RateCheck, StreamTypeOK
<1>2. ASSUME NEW r \in Req, RequestStep(r) \/ LogUsage(r)
      PROVE  StreamTypeOK'
  <2>1. UNCHANGED <<clock, window, allowed, left>> /\ alive' \in {alive, TRUE}
    BY <1>2 DEF RequestStep, QuotaCheck, LoadFails, BeginPost, BeginStream, PostEnds, OpenFails,
                OpenRefused, RefusalRead, OpenSucceeds, Start, StreamEnds, CloseStream, LogUsage,
                UnchangedLimits
  <2> QED BY <2>1 DEF StreamTypeOK
<1>3. ASSUME NEW r \in Req, Dropped(r) \/ UsageLost(r)
      PROVE  StreamTypeOK'
  BY <1>0, <1>3 DEF Dropped, UsageLost, UnchangedLimits, StreamTypeOK
<1>4. ASSUME NEW r \in Req, TimerFires(r)
      PROVE  StreamTypeOK'
  <2>1. left' = left \/ (left["slow"] > 0 /\ left' = [left EXCEPT !["slow"] = @ - 1])
    BY <1>4 DEF TimerFires
  <2>2. left' \in [Fault -> Nat]
    BY <1>0, <2>1 DEF Spend, StreamTypeOK
  <2> QED BY <1>4, <2>2 DEF TimerFires, UnchangedLimits, StreamTypeOK
<1>5. CASE Tick
  BY <1>0, <1>5 DEF Tick, StreamTypeOK
<1>6. CASE CleanupStale
  BY <1>6 DEF CleanupStale, StreamTypeOK
<1>7. CASE Evict
  BY <1>7 DEF Evict, UnchangedLimits, StreamTypeOK
<1>8. CASE Crash
  BY <1>0, <1>8 DEF Crash, UnchangedLimits, StreamTypeOK
<1>9. CASE UNCHANGED vars
  BY <1>9 DEF vars, StreamTypeOK
<1> QED BY <1>1, <1>2, <1>3, <1>4, <1>5, <1>6, <1>7, <1>8, <1>9 DEF Next

LEMMA RequestInvStep == RequestInv /\ StreamTypeOK /\ [Next]_vars => RequestInv'
<1> SUFFICES ASSUME RequestInv, StreamTypeOK, [Next]_vars
             PROVE  RequestInv'
  OBVIOUS
<1>1. ASSUME NEW r \in Req,
             RateCheck(r) \/ RequestStep(r) \/ Dropped(r) \/ TimerFires(r) \/ LogUsage(r) \/ UsageLost(r)
      PROVE  RequestInv'
  <2>1. Changes(r)
    BY <1>1, RequestChanges DEF StreamTypeOK
  <2> QED BY <2>1, BecomeKeeps DEF Changes
<1>2. UNCHANGED <<req, pins>> => RequestInv'
  BY DEF RequestInv, PinCount, Guarded, Pinned
<1>3. CASE Tick
  BY <1>2, <1>3 DEF Tick
<1>4. CASE CleanupStale
  BY <1>2, <1>4 DEF CleanupStale
<1>5. CASE Evict
  BY <1>2, <1>5 DEF Evict
<1>6. CASE Crash
  BY <1>2, <1>6 DEF Crash
<1>7. CASE UNCHANGED vars
  BY <1>2, <1>7 DEF vars
<1> QED BY <1>1, <1>3, <1>4, <1>5, <1>6, <1>7 DEF Next

LEMMA StreamInvInit == Init => StreamInv
<1> SUFFICES ASSUME Init PROVE StreamInv
  OBVIOUS
<1>1. Coherent(Idle) /\ Idle.guard = "none" /\ Idle.pinned = FALSE
  BY DEF Coherent, Idle, RequestRecord, Pcs
<1>2. req = [r \in Req |-> Idle]
  BY DEF Init
<1> HIDE DEF Idle
<1>3. Guarded = {} /\ Pinned = {}
  BY <1>1, <1>2 DEF Guarded, Pinned
<1>4. PinCount
  BY <1>3, FS_EmptySet DEF Init, PinCount
<1>5. RequestInv
  BY <1>1, <1>2, <1>4 DEF RequestInv
<1>6. StreamTypeOK
  <2>0. clock = Window /\ window = <<>> /\ allowed = <<>> /\ alive = FALSE
    BY DEF Init
  <2>1. clock \in Nat /\ alive \in BOOLEAN
    BY <2>0
  <2>2. window \in Seq(Nat) /\ allowed \in Seq(Nat)
    BY <2>0
  <2>3. left \in [Fault -> Nat]
    BY DEF Init
  <2> QED BY <2>1, <2>2, <2>3 DEF StreamTypeOK
<1> QED BY <1>5, <1>6, LimitInvInit DEF StreamInv

LEMMA StreamInvariant == Spec => []StreamInv
<1>1. StreamInv /\ [Next]_vars => StreamInv'
  BY StreamTypeStep, RequestInvStep, LimitInvStep DEF StreamInv
<1> QED BY <1>1, StreamInvInit, PTL DEF Spec

-----------------------------------------------------------------------------
(* The properties                                                          *)

\* For any set of requests, any limits and any faults: the pins of the server are
\* those of the guards and of the calls in progress, so none is given back twice
\* and none is kept by a request that has ended (proxy_request, _stream_proxy,
\* _close_unclaimed_stream).
THEOREM PinsAlwaysBalanced == Spec => []PinsBalanced
<1>1. StreamInv => PinsBalanced
  <2> SUFFICES ASSUME StreamInv PROVE PinsBalanced
    OBVIOUS
  <2>1. pins \in Nat
    BY FS_CardinalityType DEF StreamInv, RequestInv, PinCount
  <2>2. ASSUME NEW r \in Req
        PROVE  req[r] \in RequestRecord
    BY DEF StreamInv, RequestInv, Coherent
  <2>3. TypeOK
    BY <2>1, <2>2 DEF StreamInv, StreamTypeOK, TypeOK, RequestRecord
  <2> QED BY <2>3 DEF PinsBalanced, StreamInv, RequestInv, PinCount, Guarded, Pinned
<1> QED BY <1>1, StreamInvariant, PTL

\* A stream that has ended has its usage row, whichever of its ends came first: a
\* failure to open, a refusal, or the shielded finally of the generator.
THEOREM OneRowAlways == Spec => []OneRowPerStream
<1>1. StreamInv => OneRowPerStream
  BY DEF StreamInv, RequestInv, Coherent, OneRowPerStream
<1> QED BY <1>1, StreamInvariant, PTL

\* No eviction and no idle timeout unloads a server under a call or a generator,
\* for any number of them: the pins it reads are at least theirs.
THEOREM NeverUnloadedInUse == Spec => NoUnloadInUse
<1>1. StreamInv /\ [Next]_vars =>
        [\A r \in Req : req[r].pinned /\ req'[r].pinned /\ alive => alive' \/ left'["crash"] < left["crash"]]_vars
  <2> SUFFICES ASSUME StreamInv, Next, NEW r \in Req, req[r].pinned, req'[r].pinned, alive
               PROVE  alive' \/ left'["crash"] < left["crash"]
    OBVIOUS
  <2>1. pins # 0
    <3>1. Holds(req[r]) = 1 /\ pins \in Nat /\ Holds(req[r]) <= pins
      BY HoldsCounted DEF StreamInv, Holds
    <3> QED BY <3>1
  <2>2. ASSUME NEW s \in Req,
               RateCheck(s) \/ RequestStep(s) \/ Dropped(s) \/ TimerFires(s) \/ LogUsage(s) \/ UsageLost(s)
        PROVE  alive'
    BY <2>2 DEF RateCheck, RequestStep, QuotaCheck, LoadFails, BeginPost, BeginStream, PostEnds, OpenFails,
                OpenRefused, RefusalRead, OpenSucceeds, Start, StreamEnds, CloseStream, LogUsage,
                Dropped, TimerFires, UsageLost, UnchangedLimits
  <2>3. CASE Tick \/ CleanupStale
    BY <2>3 DEF Tick, CleanupStale
  <2>4. CASE Evict
    BY <2>1, <2>4 DEF Evict
  <2>5. CASE Crash
    <3>1. left \in [Fault -> Nat] /\ left["crash"] > 0 /\ left' = [left EXCEPT !["crash"] = @ - 1]
      BY <2>5 DEF Crash, Spend, StreamInv, StreamTypeOK
    <3> QED BY <3>1
  <2> QED BY <2>2, <2>3, <2>4, <2>5 DEF Next
<1> QED BY <1>1, StreamInvariant, PTL DEF Spec, NoUnloadInUse

\* The sliding window keeps its promise for any rpm_limit: no 60 seconds hold more
\* than that many allowed requests, though is_allowed and cleanup_stale forget.
THEOREM RateAlwaysRespected == Spec => []RateRespected
<1>1. StreamInv => RateRespected
  <2> SUFFICES ASSUME StreamInv, Rpm > 0, NEW k \in DOMAIN allowed
               PROVE  Cardinality({i \in DOMAIN allowed :
                                     allowed[k] <= allowed[i] /\ allowed[i] <= allowed[k] + Window}) <= Rpm
    BY DEF RateRespected
  <2> DEFINE S == {i \in DOMAIN allowed : allowed[k] <= allowed[i] /\ allowed[i] <= allowed[k] + Window}
  <2>0. /\ allowed \in Seq(Nat) /\ DOMAIN allowed = 1..Len(allowed) /\ Len(allowed) \in Nat
        /\ \A i \in 1..Len(allowed) : allowed[i] \in Nat
    <3>1. allowed \in Seq(Nat)
      BY DEF StreamInv, StreamTypeOK
    <3> HIDE StreamAssumption
    <3> QED BY <3>1
  <2>1. S \in SUBSET Nat /\ S # {} /\ S \subseteq 1..Len(allowed)
    BY <2>0
  <2>2. \A i \in S : allowed[k] <= allowed[i] /\ allowed[i] <= allowed[k] + Window
    OBVIOUS
  <2> HIDE DEF S
  <2> DEFINE first == Min(S)
  <2>3. first \in S /\ \A i \in S : first <= i
    BY <2>1, SmallestIndex
  <2> HIDE DEF first
  <2>4. ASSUME NEW i \in S
        PROVE  i \in first..(first + Rpm - 1)
    <3>1. i \in 1..Len(allowed) /\ first \in 1..Len(allowed) /\ first <= i
      BY <2>1, <2>3
    <3>2. CASE i >= first + Rpm
      <4>1. first + Rpm \in 1..Len(allowed) /\ allowed[first] + Window < allowed[first + Rpm]
        BY <2>0, <3>1, <3>2 DEF StreamInv, LimitInv
      <4>2. allowed[first + Rpm] <= allowed[i]
        BY <3>1, <3>2, <4>1 DEF StreamInv, LimitInv
      <4>3. allowed[k] <= allowed[first] /\ allowed[i] <= allowed[k] + Window
        BY <2>2, <2>3
      <4>4. /\ allowed[k] \in Nat /\ allowed[first] \in Nat /\ allowed[i] \in Nat
            /\ allowed[first + Rpm] \in Nat
        BY <2>0, <3>1, <4>1
      <4>5. Window \in Nat
        OBVIOUS
      <4> HIDE StreamAssumption
      <4> QED BY <4>1, <4>2, <4>3, <4>4, <4>5
    <3> QED BY <2>0, <3>1, <3>2
  <2>5. first \in Nat
    BY <2>1, <2>3
  <2>6. /\ IsFiniteSet(first..(first + Rpm - 1))
        /\ Cardinality(first..(first + Rpm - 1)) = Rpm
    BY <2>5, FS_Interval
  <2>7. Cardinality(S) <= Rpm
    BY <2>4, <2>6, FS_Subset
  <2> QED BY <2>7 DEF S
<1> QED BY <1>1, StreamInvariant, PTL
=============================================================================
