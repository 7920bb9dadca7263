------------------------------ MODULE StreamProxy ------------------------------
(***************************************************************************)
(* The data path of a request: the rate limit and the monthly quota of its *)
(* user (rate_limiter.py), then the call to the llama-server that serves   *)
(* its model, with what must be given back whatever happens: the pins that *)
(* forbid eviction, the upstream connection and the usage row (proxy.py).  *)
(*                                                                         *)
(* One user, one model: users share nothing here, and what several models  *)
(* do to each other is the subject of LocalPool.  Every request consumes   *)
(* one unit of the quota.  Bodies, headers and SSE chunks are left out.    *)
(***************************************************************************)
EXTENDS Integers, FiniteSets, Sequences, SequencesExt

CONSTANTS
  Req,
  Rpm,       \* rpm_limit, 0 for none
  Window,    \* 60 seconds
  Stale,     \* 300 seconds
  Quota,     \* monthly_token_limit
  Fault,     \* what happens a bounded number of times
  Scenario   \* the starting points: how often each fault may happen

VARIABLES
  clock,     \* time.monotonic()
  window,    \* _windows[user]: when its last requests were allowed
  allowed,   \* the same, never purged
  req,       \* the requests
  pins,      \* _active_requests of the server
  alive,     \* the server is loaded
  left       \* how often each fault may still happen

vars == <<clock, window, allowed, req, pins, alive, left>>

ASSUME StreamAssumption ==
  /\ Rpm \in Nat /\ Quota \in Nat
  /\ Window \in Nat \ {0} /\ Stale \in Nat /\ Stale >= Window
  /\ {"ask", "tick", "cancel", "slow", "row", "crash"} \subseteq Fault
  /\ Scenario \subseteq [Fault -> Nat]

Idle == [pc |-> "idle", guard |-> "none", pinned |-> FALSE, upstream |-> "none", started |-> FALSE, row |-> "none"]

Pcs == {"idle", "quota", "load", "posting", "opening", "refusing", "handed", "streaming", "closing",
        "dropped", "done"}

TypeOK ==
  /\ clock \in Nat
  /\ window \in Seq(Nat) /\ allowed \in Seq(Nat)
  /\ \A r \in Req :
       /\ req[r].pc \in Pcs
       /\ req[r].guard \in {"none", "held", "released"}
       /\ req[r].upstream \in {"none", "opening", "open", "closed"}
       /\ req[r].row \in {"none", "scheduled", "written", "lost"}
       /\ req[r].pinned \in BOOLEAN /\ req[r].started \in BOOLEAN
  /\ pins \in Nat /\ alive \in BOOLEAN
  /\ left \in [Fault -> Nat]

Init ==
  /\ clock = Window
  /\ window = <<>> /\ allowed = <<>>
  /\ req = [r \in Req |-> Idle]
  /\ pins = 0 /\ alive = FALSE
  /\ left \in Scenario

Spend(f) == left[f] > 0 /\ left' = [left EXCEPT ![f] = @ - 1]

-----------------------------------------------------------------------------
(* The rate limiter                                                        *)

Tick ==
  /\ Spend("tick")
  /\ clock' = clock + 1
  /\ UNCHANGED <<window, allowed, req, pins, alive>>

\* is_allowed: the oldest entries are popped while they are out of the window,
\* then the others are counted.
Recent(times) ==
  LET kept == {i \in DOMAIN times : times[i] >= clock - Window}
  IN  IF kept = {} THEN <<>> ELSE SubSeq(times, Min(kept), Len(times))

\* The request r becomes q.
Become(r, q) == req' = [req EXCEPT ![r] = q]
Goto(r, pc)  == Become(r, [req[r] EXCEPT !.pc = pc])

RateCheck(r) ==
  /\ req[r].pc = "idle"
  /\ Spend("ask")
  /\ IF Rpm > 0 /\ Len(Recent(window)) >= Rpm
     THEN /\ Goto(r, "done")
          /\ window' = Recent(window)
          /\ UNCHANGED allowed
     ELSE /\ Goto(r, "quota")
          /\ window' = Append(Recent(window), clock)
          /\ allowed' = Append(allowed, clock)
  /\ UNCHANGED <<clock, pins, alive>>

\* Mutation of CleanupStale: a user idle for less than the window is purged.
CleanupStaleEarly ==
  /\ window # <<>> => Last(window) < clock
  /\ window' = <<>>
  /\ UNCHANGED <<clock, allowed, req, pins, alive, left>>

\* cleanup_stale: a user idle for five minutes is forgotten.
CleanupStale ==
  /\ window # <<>> => Last(window) + Stale < clock
  /\ window' = <<>>
  /\ UNCHANGED <<clock, allowed, req, pins, alive, left>>

\* tokens_used_last_30_days, which sees the usage rows already written.
Used == Cardinality({r \in Req : req[r].row = "written"})

QuotaCheck(r) ==
  /\ req[r].pc = "quota"
  /\ Goto(r, IF Quota > 0 /\ Used >= Quota THEN "done" ELSE "load")
  /\ UNCHANGED <<clock, window, allowed, pins, alive, left>>

-----------------------------------------------------------------------------
(* Pins                                                                    *)

UnchangedLimits == UNCHANGED <<clock, window, allowed>>

\* unpin never counts below zero.
LessPins(n) == IF pins < n THEN 0 ELSE pins - n

\* Mutation of GuardPins: the guard is given back a second time.
GuardPinsAgain(r) == 1

\* _release_stream_guard gives the guard pin back once.
GuardPins(r) == IF req[r].guard = "held" THEN 1 ELSE 0

\* The usage row is a task of its own.
Logged(r) == [req[r] EXCEPT !.pc = "done", !.row = "scheduled"]

LoadFails(r) ==
  /\ req[r].pc = "load"
  /\ Goto(r, "done")
  /\ UnchangedLimits /\ UNCHANGED <<pins, alive, left>>

\* ensure_model_loaded returned and no await separates it from the pin.
BeginPost(r) ==
  /\ req[r].pc = "load"
  /\ pins' = pins + 1 /\ alive' = TRUE
  /\ Become(r, [req[r] EXCEPT !.pc = "posting", !.pinned = TRUE])
  /\ UnchangedLimits /\ UNCHANGED left

BeginStream(r) ==
  /\ req[r].pc = "load"
  /\ pins' = pins + 1 /\ alive' = TRUE
  /\ Become(r, [req[r] EXCEPT !.pc = "opening", !.guard = "held", !.upstream = "opening", !.started = TRUE])
  /\ UnchangedLimits /\ UNCHANGED left

\* Answered, or not: _non_stream_proxy logs the answers it can read, its caller
\* unpins.
PostEnds(r) ==
  /\ req[r].pc = "posting"
  /\ \E row \in {"none"} \cup (IF alive THEN {"scheduled"} ELSE {}) :
       Become(r, [req[r] EXCEPT !.pc = "done", !.pinned = FALSE, !.row = row])
  /\ pins' = LessPins(1)
  /\ UnchangedLimits /\ UNCHANGED <<alive, left>>

-----------------------------------------------------------------------------
(* The pre-flight of a stream, in proxy_request                            *)

\* Timeout, transport error or anything else: one row, no stream.
OpenFails(r) ==
  /\ req[r].pc = "opening"
  /\ pins' = LessPins(GuardPins(r))
  /\ Become(r, [Logged(r) EXCEPT !.guard = "released", !.upstream = "closed"])
  /\ UnchangedLimits /\ UNCHANGED <<alive, left>>

\* 4xx or 5xx: the body is read, whatever comes of it the stream is discarded.
OpenRefused(r) ==
  /\ req[r].pc = "opening" /\ alive
  /\ Become(r, [req[r] EXCEPT !.pc = "refusing", !.upstream = "open"])
  /\ UnchangedLimits /\ UNCHANGED <<pins, alive, left>>

RefusalRead(r) ==
  /\ req[r].pc = "refusing"
  /\ pins' = LessPins(GuardPins(r))
  /\ Become(r, [Logged(r) EXCEPT !.guard = "released", !.upstream = "closed"])
  /\ UnchangedLimits /\ UNCHANGED <<alive, left>>

OpenSucceeds(r) ==
  /\ req[r].pc = "opening" /\ alive
  /\ Become(r, [req[r] EXCEPT !.pc = "handed", !.upstream = "open"])
  /\ UnchangedLimits /\ UNCHANGED <<pins, alive, left>>

\* The task is cancelled, or Starlette never iterates the response.  While the body
\* of a refusal is read, the finally closes the stream but may not reach the guard.
Dropped(r) ==
  /\ req[r].pc \in {"opening", "refusing", "handed"}
  /\ Spend("cancel")
  /\ \E released \in BOOLEAN :
       /\ released => req[r].pc = "refusing" /\ req[r].guard = "held"
       /\ Become(r, [req[r] EXCEPT !.pc = "dropped",
                                   !.guard = IF released THEN "released" ELSE @,
                                   !.upstream = IF req[r].pc = "handed" THEN @ ELSE "closed"])
       /\ pins' = LessPins(IF released THEN 1 ELSE 0)
  /\ UnchangedLimits /\ UNCHANGED alive

\* Mutation of TimerFires: only the pin is given back.
TimerFiresForPin(r) ==
  /\ req[r].pc = "dropped" /\ req[r].guard = "held"
  /\ pins' = LessPins(GuardPins(r))
  /\ Become(r, [req[r] EXCEPT !.guard = "released"])
  /\ UnchangedLimits /\ UNCHANGED <<alive, left>>

\* _close_unclaimed_stream, 30 s after the pin: a stream that is open is
\* discarded.  The opening of a stream may take longer (the read timeout is
\* 600 s): then the pin alone goes.
TimerFires(r) ==
  /\ req[r].guard = "held"
  /\ req[r].pc = "dropped" \/ (req[r].pc \in {"opening", "refusing", "handed"} /\ left["slow"] > 0)
  /\ left' = IF req[r].pc = "dropped" THEN left ELSE [left EXCEPT !["slow"] = @ - 1]
  /\ pins' = LessPins(GuardPins(r))
  /\ Become(r, [req[r] EXCEPT !.guard = "released", !.upstream = IF @ = "open" THEN "closed" ELSE @])
  /\ UnchangedLimits /\ UNCHANGED alive

-----------------------------------------------------------------------------
(* The generator, _stream_proxy                                            *)

\* Mutation of Start: the guard is given back and no pin replaces it.
StartWithoutPin(r) ==
  /\ req[r].pc = "handed"
  /\ pins' = LessPins(GuardPins(r))
  /\ Become(r, [req[r] EXCEPT !.pc = "streaming", !.pinned = TRUE, !.guard = "released"])
  /\ UnchangedLimits /\ UNCHANGED <<alive, left>>

\* Its pin is taken before the guard is given back.
Start(r) ==
  /\ req[r].pc = "handed"
  /\ pins' = (pins + 1) - GuardPins(r)
  /\ Become(r, [req[r] EXCEPT !.pc = "streaming", !.pinned = TRUE, !.guard = "released"])
  /\ UnchangedLimits /\ UNCHANGED <<alive, left>>

\* The last chunk, an upstream error, a client that leaves, a cancellation.
StreamEnds(r) ==
  /\ req[r].pc = "streaming"
  /\ Goto(r, "closing")
  /\ UnchangedLimits /\ UNCHANGED <<pins, alive, left>>

\* Mutation of CloseStream: without the shield, a cancelled task stops at the
\* first await of its finally.
CloseStreamUnshielded(r) ==
  /\ req[r].pc = "closing"
  /\ Become(r, [req[r] EXCEPT !.pc = "done", !.upstream = "closed"])
  /\ UnchangedLimits /\ UNCHANGED <<pins, alive, left>>

\* The shielded finally.
CloseStream(r) ==
  /\ req[r].pc = "closing"
  /\ pins' = LessPins(1)
  /\ Become(r, [Logged(r) EXCEPT !.pinned = FALSE, !.upstream = "closed"])
  /\ UnchangedLimits /\ UNCHANGED <<alive, left>>

-----------------------------------------------------------------------------
(* The rest of the world                                                   *)

\* log_usage, as a background task: it fails, or is lost when the gateway stops.
LogUsage(r) ==
  /\ req[r].row = "scheduled"
  /\ Become(r, [req[r] EXCEPT !.row = "written"])
  /\ UnchangedLimits /\ UNCHANGED <<pins, alive, left>>

UsageLost(r) ==
  /\ req[r].row = "scheduled"
  /\ Spend("row")
  /\ Become(r, [req[r] EXCEPT !.row = "lost"])
  /\ UnchangedLimits /\ UNCHANGED <<pins, alive>>

\* An unpinned server may be evicted or reach its idle timeout.
Evict ==
  /\ alive /\ pins = 0
  /\ alive' = FALSE
  /\ UnchangedLimits /\ UNCHANGED <<req, pins, left>>

Crash ==
  /\ alive
  /\ Spend("crash")
  /\ alive' = FALSE
  /\ UnchangedLimits /\ UNCHANGED <<req, pins>>

-----------------------------------------------------------------------------

RequestStep(r) ==
  \/ QuotaCheck(r) \/ LoadFails(r) \/ BeginPost(r) \/ BeginStream(r) \/ PostEnds(r)
  \/ OpenFails(r) \/ OpenRefused(r) \/ RefusalRead(r) \/ OpenSucceeds(r)
  \/ Start(r) \/ StreamEnds(r) \/ CloseStream(r)

Next ==
  \/ \E r \in Req :
       RateCheck(r) \/ RequestStep(r) \/ Dropped(r) \/ TimerFires(r) \/ LogUsage(r) \/ UsageLost(r)
  \/ Tick \/ CleanupStale \/ Evict \/ Crash

Spec == Init /\ [][Next]_vars

\* Calls end by their timeout, timers fire, and asyncio runs what is ready.
Fairness ==
  \A r \in Req : WF_vars(RequestStep(r)) /\ WF_vars(TimerFires(r)) /\ WF_vars(LogUsage(r))

LiveSpec == Spec /\ Fairness

-----------------------------------------------------------------------------
(* Properties                                                              *)

\* The pins of the server are those of the requests in progress: no path through
\* errors, timers and cancellations gives one back twice or keeps it.
PinsBalanced ==
  /\ TypeOK
  /\ pins = Cardinality({r \in Req : req[r].guard = "held"}) + Cardinality({r \in Req : req[r].pinned})

\* A server is not unloaded under a running generator or a call it answers.
NoUnloadInUse ==
  [][\A r \in Req : req[r].pinned /\ req'[r].pinned /\ alive => alive' \/ left'["crash"] < left["crash"]]_vars

\* A stream ends with one usage row, unless nobody ever iterated its response.
OneRowPerStream ==
  \A r \in Req : req[r].started /\ req[r].pc = "done" => req[r].row # "none"

\* Whenever it is counted, no window of 60 seconds holds more than rpm_limit
\* allowed requests, whatever the purge of stale users forgets.
RateRespected ==
  Rpm > 0 => \A t \in {allowed[i] : i \in DOMAIN allowed} :
    Cardinality({i \in DOMAIN allowed : t <= allowed[i] /\ allowed[i] <= t + Window}) <= Rpm

\* Every pin and every upstream connection is given back, though the client leaves,
\* the call is cancelled or the response is never iterated.
EverythingGivenBack ==
  \A r \in Req :
    (req[r].guard = "held" \/ req[r].pinned \/ req[r].upstream = "open")
      ~> (~req[r].pinned /\ req[r].guard # "held" /\ req[r].upstream # "open")
=============================================================================
