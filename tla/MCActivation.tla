----------------------------- MODULE MCActivation -----------------------------
(***************************************************************************)
(* Activation with a budget for each kind of trouble, the number of runs   *)
(* of the applier and the peak calibration measures (the catalogue's       *)
(* estimate is 1, the net budget 2: peak 2 raises vram_gb, 3 is refused).  *)
(***************************************************************************)
EXTENDS Activation, TLC

Quiet == [runs |-> 2, peak |-> 1, users |-> 1, edit |-> 0,
          loss |-> 0, cancel |-> 0, crash |-> 0, restart |-> 0]

Troubled == {
  [Quiet EXCEPT !.runs = 3, !.crash = 2, !.peak = 2],
  [Quiet EXCEPT !.crash = 1, !.edit = 2],
  [Quiet EXCEPT !.loss = 2],
  [Quiet EXCEPT !.cancel = 1, !.users = 2],
  [Quiet EXCEPT !.restart = 1, !.crash = 1, !.edit = 1],
  [Quiet EXCEPT !.restart = 1, !.loss = 1],
  [Quiet EXCEPT !.peak = 3, !.edit = 2],
  [Quiet EXCEPT !.peak = 2, !.edit = 1]}

Raised == {[Quiet EXCEPT !.runs = 1, !.peak = 2, !.cancel = 1]}
=============================================================================
