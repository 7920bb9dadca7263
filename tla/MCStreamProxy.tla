----------------------------- MODULE MCStreamProxy -----------------------------
(***************************************************************************)
(* A few requests of one user, with one kind of trouble at a time.         *)
(***************************************************************************)
EXTENDS StreamProxy

CONSTANTS r1, r2, r3

MCReq == {r1, r2, r3}
MCFault == {"ask", "tick", "cancel", "slow", "row", "crash"}

Only(counts) == [f \in MCFault |-> IF f \in DOMAIN counts THEN counts[f] ELSE 0]

Safety == {
  \* The window slides under three requests.
  Only([ask |-> 3, tick |-> 4]),
  \* Cancelled calls and responses nobody reads.
  Only([ask |-> 2, cancel |-> 2]),
  \* Backends slower than the timer.
  Only([ask |-> 3, slow |-> 1]),
  \* Crashes and lost usage rows.
  Only([ask |-> 2, cancel |-> 1, crash |-> 2, row |-> 1]) }
=============================================================================
