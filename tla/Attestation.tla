----------------------------- MODULE Attestation -----------------------------
(***************************************************************************)
(* src/gateway/integrity.py: a model's files are hashed before it is       *)
(* served, once per identity (device, inode, size, mtime) of the file.     *)
(*                                                                         *)
(* Callers attest a model's GGUF, then its projector.  The first caller    *)
(* that finds neither a cached identity nor a flight starts a worker; the  *)
(* others share its answer.  stat and the hash run in threads, so the file *)
(* may change between any two of them, and a caller may be cancelled       *)
(* without the worker noticing.  An identity is a number: a file that is   *)
(* modified takes a new one, and contents[i] says whether the bytes with   *)
(* identity i are those declared.  All the callers run on one event loop.  *)
(***************************************************************************)
EXTENDS Naturals, Sequences

CONSTANTS
  Callers,     \* concurrent attestations of the same model
  Artifacts,   \* its files, in the order they are attested
  CacheMax,    \* _CACHE_MAX_ENTRIES
  Versions,    \* how many identities the files may take, all together
  Scenario     \* how often a fault may happen: [modify, unreadable, cancel, again]

VARIABLES
  contents,    \* identity -> "declared" or "other"
  present,     \* file -> its present identity
  attested,    \* _attested, oldest first: <<file, identity>>
  flight,      \* _inflight: file -> the worker attesting it
  caller,      \* caller -> what it does, for which file, and what it saw
  left         \* the faults still possible

attestVars == <<contents, present, attested, flight, caller, left>>

Files == {Artifacts[k] : k \in DOMAIN Artifacts}

NoFlight == [at |-> "none", before |-> 0, digest |-> "none"]

Init ==
  /\ contents = [f \in 1..Len(Artifacts) |-> "declared"]
  /\ present = [f \in Files |-> CHOOSE k \in DOMAIN Artifacts : Artifacts[k] = f]
  /\ attested = <<>>
  /\ flight = [f \in Files |-> NoFlight]
  /\ caller = [c \in Callers |-> [at |-> "stat", file |-> 1, seen |-> 0, vouched |-> <<>>]]
  /\ left = Scenario

Spend(what) ==
  /\ left[what] > 0
  /\ left' = [left EXCEPT ![what] = @ - 1]

\* The file caller c attests now.
Of(c) == Artifacts[caller[c].file]

Cached(f) == {attested[k][2] : k \in {j \in DOMAIN attested : attested[j][1] = f}}

-----------------------------------------------------------------------------
\* attest_file returns: on to the next file, or the model may be served.
Accepted(c, i) ==
  [caller EXCEPT ![c].vouched = Append(@, i),
                 ![c].file = @ + 1, ![c].seen = 0,
                 ![c].at = IF caller[c].file = Len(Artifacts) THEN "ok" ELSE "stat"]

\* The caller's own stat, in a thread.
Stat(c) ==
  /\ caller[c].at = "stat"
  /\ caller' = [caller EXCEPT ![c].at = "look", ![c].seen = present[Of(c)]]
  /\ UNCHANGED <<contents, present, attested, flight, left>>

StatFails(c) ==
  /\ caller[c].at = "stat"
  /\ Spend("unreadable")
  /\ caller' = [caller EXCEPT ![c].at = "refused"]
  /\ UNCHANGED <<contents, present, attested, flight>>

\* Back on the loop: the cache, else the flight in progress, else a new one.
Look(c) ==
  /\ caller[c].at = "look"
  /\ IF caller[c].seen \in Cached(Of(c))
       THEN caller' = Accepted(c, caller[c].seen) /\ UNCHANGED flight
       ELSE /\ caller' = [caller EXCEPT ![c].at = "wait"]
            /\ flight' = IF flight[Of(c)].at # "none" THEN flight
                         ELSE [flight EXCEPT ![Of(c)] = [NoFlight EXCEPT !.at = "before"]]
  /\ UNCHANGED <<contents, present, attested, left>>

-----------------------------------------------------------------------------
\* _hash_and_restat, in a thread: stat, hash, stat.
StatBefore(f) ==
  /\ flight[f].at = "before"
  /\ flight' = [flight EXCEPT ![f].at = "hash", ![f].before = present[f]]
  /\ UNCHANGED <<contents, present, attested, caller, left>>

Hash(f) ==
  /\ flight[f].at = "hash"
  /\ flight' = [flight EXCEPT ![f].at = "after", ![f].digest = contents[present[f]]]
  /\ UNCHANGED <<contents, present, attested, caller, left>>

\* Hashed while the file is being replaced, the digest still goes with the
\* identity read first.
StatAfterUnread(f) ==
  /\ flight[f].at = "after"
  /\ flight' = [flight EXCEPT ![f].at = "deliver"]
  /\ UNCHANGED <<contents, present, attested, caller, left>>

StatAfter(f) ==
  /\ flight[f].at = "after"
  /\ flight' = [flight EXCEPT ![f].at = "deliver",
                              ![f].digest = IF present[f] = flight[f].before THEN @ ELSE "mutated"]
  /\ UNCHANGED <<contents, present, attested, caller, left>>

HashFails(f) ==
  /\ flight[f].at \in {"before", "hash", "after"}
  /\ Spend("unreadable")
  /\ flight' = [flight EXCEPT ![f].at = "deliver", ![f].digest = "unreadable"]
  /\ UNCHANGED <<contents, present, attested, caller>>

\* What the table of attested files becomes: one entry per file, and no more
\* than CacheMax of them.
Remember(f, i) ==
  LET Mine(e) == e[1] = f
      kept == IF \E k \in DOMAIN attested : Mine(attested[k])
                THEN [k \in DOMAIN attested |-> IF Mine(attested[k]) THEN <<f, i>> ELSE attested[k]]
                ELSE Append(attested, <<f, i>>)
  IN IF Len(kept) > CacheMax THEN Tail(kept) ELSE kept

\* Back on the loop: the result goes to every caller that still waits, and the
\* flight is over, in one step.
Deliver(f) ==
  LET waiting == {c \in Callers : caller[c].at = "wait" /\ Of(c) = f}
      good == flight[f].digest = "declared"
  IN /\ flight[f].at = "deliver"
     /\ flight' = [flight EXCEPT ![f] = NoFlight]
     /\ attested' = IF good THEN Remember(f, flight[f].before) ELSE attested
     /\ caller' = [c \in Callers |->
                     IF c \notin waiting THEN caller[c]
                     ELSE IF good THEN Accepted(c, flight[f].before)[c]
                     ELSE [caller[c] EXCEPT !.at = "refused"]]
     /\ UNCHANGED <<contents, present, left>>

\* A caller goes away; the shielded worker does not notice.
Cancel(c) ==
  /\ caller[c].at \in {"stat", "look", "wait"}
  /\ Spend("cancel")
  /\ caller' = [caller EXCEPT ![c].at = "gone"]
  /\ UNCHANGED <<contents, present, attested, flight>>

\* Whoever writes the models directory replaces a file.
Modify(f) ==
  /\ Len(contents) < Versions
  /\ Spend("modify")
  /\ \E what \in {"declared", "other"} : contents' = Append(contents, what)
  /\ present' = [present EXCEPT ![f] = Len(contents) + 1]
  /\ UNCHANGED <<attested, flight, caller>>

\* The same model is asked for again.
Again(c) ==
  /\ caller[c].at \in {"ok", "refused"}
  /\ Spend("again")
  /\ caller' = [caller EXCEPT ![c] = [at |-> "stat", file |-> 1, seen |-> 0, vouched |-> <<>>]]
  /\ UNCHANGED <<contents, present, attested, flight>>

Next ==
  \/ \E c \in Callers : Stat(c) \/ StatFails(c) \/ Look(c) \/ Cancel(c) \/ Again(c)
  \/ \E f \in Files :
       StatBefore(f) \/ Hash(f) \/ StatAfter(f) \/ HashFails(f) \/ Deliver(f) \/ Modify(f)

Spec == Init /\ [][Next]_attestVars

-----------------------------------------------------------------------------
AttestationTypeOK ==
  /\ contents \in Seq({"declared", "other"}) /\ Len(contents) <= Versions
  /\ present \in [Files -> DOMAIN contents]
  /\ Len(attested) <= CacheMax
  /\ \A f \in Files : /\ flight[f].at \in {"none", "before", "hash", "after", "deliver"}
                      /\ flight[f].before \in 0..Len(contents)
  /\ \A c \in Callers :
       caller[c].at \in {"stat", "look", "wait", "ok", "refused", "gone"}

\* No file is vouched for by bytes other than the declared ones: neither an
\* entry of the cache, whatever was written while the file was hashed, nor the
\* answer a caller was given, whether it started the flight or joined it; and a
\* caller whose model may be served had every file of it vouched for, in order.
VouchedIsDeclared ==
  /\ \A k \in DOMAIN attested : contents[attested[k][2]] = "declared"
  /\ \A c \in Callers :
       /\ \A k \in DOMAIN caller[c].vouched : contents[caller[c].vouched[k]] = "declared"
       /\ caller[c].at = "ok" => Len(caller[c].vouched) = Len(Artifacts)
       /\ caller[c].at = "wait" => flight[Of(c)].at # "none"

=============================================================================
