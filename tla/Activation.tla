------------------------------ MODULE Activation ------------------------------
(***************************************************************************)
(* Putting a model into service: the applier of bootstrap/applier.py runs  *)
(* write_registry, calibrate_model, enable_model and smoke_test in turn,   *)
(* models.yaml is rewritten by bootstrap/registry_writer.py, and the       *)
(* gateway of admin.py holds the provisional activation in memory under a  *)
(* lease (bootstrap-sync: activate, confirm, rollback).  Two processes and *)
(* one file: the applier may be cancelled or killed, the gateway           *)
(* restarted, a call or its answer lost or late, an administrator may edit *)
(* the registry, the lease may run out at any time.                        *)
(***************************************************************************)
EXTENDS Naturals

CONSTANTS
  None,      \* no entry, no transition, no call
  Estimate,  \* vram_gb of the entry generated from the catalogue
  Budget,    \* the net VRAM budget
  Scenario   \* what may go wrong: see Init

VARIABLES
  disk,      \* models.yaml: [target |-> None or an entry, other |-> a version]
  memory,    \* ModelRegistry._models of the gateway, same shape
  boot,      \* _bootstrap_sync_states[target]: None or a record with a phase
  gate,      \* block_bootstrap_admission: no new request for the target
  loaded,    \* the target has a llama-server in the gateway's pool
  pins,      \* requests of users being served by the target
  drain,     \* the drain awaited under the lock: None, or for the lease or a call
  wire,      \* bootstrap-sync calls sent and not yet handled
  reply,     \* what the applier has been answered: None, "ok" or "refused"
  run,       \* the applier: its place in the plan and its ProofLedger
  patch,     \* an admin PATCH between its unload and its registry.update
  left       \* what may still go wrong, and the peak calibration measures

gateway == <<memory, boot, gate, loaded, pins, drain, patch>>
vars == <<disk, memory, boot, gate, loaded, pins, drain, wire, reply, run, patch, left>>

\* llama_params are a version: 0 is what the plan calibrates and would write.
Entry == [enabled : BOOLEAN, vram : Nat, params : 0 .. 1]
File  == [target : Entry \cup {None}, other : 0 .. 1]
Trouble == [runs : Nat, peak : Nat, users : Nat, edit : Nat,
            loss : Nat, cancel : Nat, crash : Nat, restart : Nat]

\* _BootstrapLiveState, a bootstrap-sync call on its way, the drain awaited.
Transition ==
  [phase : {"active", "rolling_back", "rolled_back", "confirmed"},
   baseline : File, live : Entry, digest : File, terminal : File \cup {None}]
Call  == [action : {"activate", "confirm", "rollback"}, digest : File, vram : Nat, live : BOOLEAN]
Drain == [lease : BOOLEAN, live : BOOLEAN]

ASSUME ActivationAssumption ==
  /\ Estimate \in Nat /\ Scenario \subseteq Trouble
  /\ None \notin Entry \cup File \cup Transition \cup Drain
  /\ None \notin {"ok", "refused", "other", "params", "step", "finally",
                  "calibrate", "confirm", "undo_live"}

Generated == [enabled |-> FALSE, vram |-> Estimate, params |-> 0]
Enabled(file) == file.target # None /\ file.target.enabled
Served == Enabled(memory) /\ ~gate
\* phases in which the other mutations of the registry are refused
InTransition == boot # None /\ boot.phase \in {"active", "rolling_back"}

Phase(p) == boot # None /\ boot.phase = p
SameOthers(a, b) == a.other = b.other

\* _target_vram_gb_from_calibration: calibration may only raise.
TargetVram(entry) == IF left.peak > entry.vram THEN left.peak ELSE entry.vram

\* Mutant: the parameters are not compared.
AnyParams(entry) == entry.params \in 0 .. 1

\* _check_calibration: measured with the parameters the entry will serve.
CheckCalibration(entry) == entry.params = 0

Idle(outcome) ==
  [pc |-> "idle", outcome |-> outcome, next |-> None, draft |-> None, vram |-> 0,
   provisional |-> FALSE, awaiting |-> FALSE, smoked |-> FALSE, attempt |-> None]

\* The applier: where it is, what it is about to rename, and its ProofLedger.
Run ==
  [pc : {"idle", "write", "publish", "calibrate", "enable", "activating", "smoke", "persist",
         "confirm", "confirming", "undo", "undo_live", "undoing", "undone", "exit"},
   outcome : {"none", "ok", "failed", "killed"},
   next : {"calibrate", "confirm", "undo_live", None}, draft : File \cup {None}, vram : Nat,
   provisional : BOOLEAN, awaiting : BOOLEAN, smoked : BOOLEAN,
   attempt : {"step", "finally", None}]

Init ==
  /\ left \in Scenario
  /\ \E file \in {[target |-> None, other |-> 0],
                  [target |-> Generated, other |-> 0],
                  [target |-> [Generated EXCEPT !.enabled = TRUE], other |-> 0]} :
       disk = file /\ memory = file
  /\ boot = None /\ gate = FALSE /\ loaded = FALSE /\ pins = 0 /\ drain = None
  /\ wire = {} /\ reply = None /\ patch = None
  /\ run = Idle("none")

----------------------------------------------------------------------------
(* The applier.  Every rewrite of the file is a read followed, later, by a *)
(* rename: the text read is the draft.                                     *)

At(pc) == run.pc = pc
Goto(pc) == run' = [run EXCEPT !.pc = pc]
\* The step has failed: the remaining ones are not attempted.
Fail == run' = [run EXCEPT !.pc = "exit", !.outcome = "failed"]
Rewrite(entry, next) ==
  run' = [run EXCEPT !.pc = "publish", !.next = next,
                     !.draft = [disk EXCEPT !.target = entry]]

Start ==
  /\ At("idle") /\ left.runs > 0
  /\ run' = [Idle("none") EXCEPT !.pc = "write"]
  /\ left' = [left EXCEPT !.runs = @ - 1]
  /\ UNCHANGED <<disk, gateway, wire, reply>>

\* write_registry: added disabled, found conforming, or refused as diverging.
WriteEntry ==
  /\ At("write")
  /\ \/ disk.target = None /\ Rewrite(Generated, "calibrate")
     \/ /\ disk.target # None
        /\ disk.target.params = Generated.params /\ disk.target.vram >= Estimate
        /\ Goto("calibrate")
     \/ /\ disk.target # None
        /\ ~(disk.target.params = Generated.params /\ disk.target.vram >= Estimate)
        /\ Fail
  /\ UNCHANGED <<disk, gateway, wire, reply, left>>

\* _atomic_write: the rename, whatever the file has become since it was read.
Publish ==
  /\ At("publish")
  /\ disk' = run.draft
  /\ run' = [run EXCEPT !.pc = run.next, !.draft = None, !.next = None]
  /\ UNCHANGED <<gateway, wire, reply, left>>

\* calibrate_model and the capture of its proof.
Calibrate ==
  /\ At("calibrate")
  /\ Goto("enable") \/ Fail
  /\ UNCHANGED <<disk, gateway, wire, reply, left>>

Send(action, digest, vram) ==
  /\ wire' = wire \cup {[action |-> action, digest |-> digest, vram |-> vram, live |-> TRUE]}
  /\ reply' = None

\* enable_model on the calibration alone: the file stays disabled, the ledger
\* is marked before the gateway is asked.
Provision ==
  /\ At("enable")
  /\ \/ /\ \/ disk.target = None
           \/ /\ disk.target # None
              /\ ~CheckCalibration(disk.target) \/ TargetVram(disk.target) > Budget
        /\ Fail
        /\ UNCHANGED <<wire, reply>>
     \/ /\ disk.target # None
        /\ CheckCalibration(disk.target) /\ TargetVram(disk.target) <= Budget
        /\ \/ /\ disk.target.enabled
              /\ run' = [run EXCEPT !.pc = "smoke", !.awaiting = TRUE]
              /\ UNCHANGED <<wire, reply>>
           \/ /\ ~disk.target.enabled
              /\ run' = [run EXCEPT !.pc = "activating", !.provisional = TRUE, !.awaiting = TRUE]
              /\ Send("activate", disk, TargetVram(disk.target))
  /\ UNCHANGED <<disk, gateway, left>>

Compensate(attempt) ==
  run' = [run EXCEPT !.pc = "undo", !.outcome = "failed", !.attempt = attempt]
FailStep == IF run.provisional THEN Compensate("step") ELSE Fail

\* The public recipe needs a model the gateway admits; its success is a proof.
Smoke ==
  /\ At("smoke")
  /\ \/ /\ Served
        /\ loaded' = TRUE
        /\ run' = [run EXCEPT !.pc = "persist", !.smoked = TRUE]
     \/ FailStep /\ UNCHANGED loaded
  /\ UNCHANGED <<disk, memory, boot, gate, pins, drain, wire, reply, patch, left>>

\* enable_model_entry on the complete proof.  Already enabled with enough
\* VRAM, it writes nothing and reports no digest to confirm.
Persist ==
  /\ At("persist")
  /\ \/ /\ disk.target = None
        /\ FailStep
     \/ /\ disk.target # None
        /\ ~CheckCalibration(disk.target) \/ TargetVram(disk.target) > Budget
        /\ FailStep
     \/ /\ disk.target # None
        /\ CheckCalibration(disk.target) /\ TargetVram(disk.target) <= Budget
        /\ IF disk.target.enabled /\ disk.target.vram >= TargetVram(disk.target)
           THEN IF run.provisional THEN Compensate("step") ELSE run' = Idle("ok")
           ELSE Rewrite([disk.target EXCEPT !.enabled = TRUE, !.vram = TargetVram(disk.target)],
                        "confirm")
  /\ UNCHANGED <<disk, gateway, wire, reply, left>>

\* Mutant: the proof on disk is taken as the end of the plan.
AskConfirmOnDisk ==
  /\ At("confirm")
  /\ run' = Idle("ok") /\ UNCHANGED <<wire, reply>>
  /\ UNCHANGED <<disk, gateway, left>>

\* Only what this run opened is confirmed to the gateway.
AskConfirm ==
  /\ At("confirm")
  /\ IF run.provisional
     THEN Goto("confirming") /\ Send("confirm", disk, 0)
     ELSE run' = Idle("ok") /\ UNCHANGED <<wire, reply>>
  /\ UNCHANGED <<disk, gateway, left>>

\* rollback_provisional_model_entry: enabled goes back to false, vram_gb stays.
UndoOnDisk ==
  /\ At("undo")
  /\ \/ /\ disk.target = None
        /\ Goto("undone")
     \/ /\ disk.target # None /\ disk.target.enabled
        /\ Rewrite([disk.target EXCEPT !.enabled = FALSE], "undo_live")
     \/ /\ disk.target # None /\ ~disk.target.enabled
        /\ Goto("undo_live")
  /\ UNCHANGED <<disk, gateway, wire, reply, left>>

UndoLive ==
  /\ At("undo_live")
  /\ Goto("undoing")
  /\ Send("rollback", disk, 0)
  /\ UNCHANGED <<disk, gateway, left>>

\* Mutant: the finally tries again for as long as the marker is there.
UndoneAgain ==
  /\ At("undone")
  /\ run' = [run EXCEPT !.pc = "exit"]
  /\ UNCHANGED <<disk, gateway, wire, reply, left>>

\* The marker is dropped only when both sides are closed.
Undone ==
  /\ At("undone")
  /\ run' = IF run.attempt = "step" THEN [run EXCEPT !.pc = "exit"] ELSE Idle("failed")
  /\ UNCHANGED <<disk, gateway, wire, reply, left>>

\* apply_loaded_plan's finally: one more attempt for what is still provisional.
Exit ==
  /\ At("exit")
  /\ IF run.provisional THEN Compensate("finally") ELSE run' = Idle(run.outcome)
  /\ UNCHANGED <<disk, gateway, wire, reply, left>>

----------------------------------------------------------------------------
(* The applier's side of a call                                            *)

Waiting == run.pc \in {"activating", "confirming", "undoing"}
\* The call the applier awaits has been neither handled nor lost.
Pending == (\E c \in wire : c.live) \/ (drain # None /\ drain.live)

Answered(ok) ==
  \/ /\ At("activating")
     /\ IF ok THEN Goto("smoke") ELSE Compensate("step")
  \/ /\ At("confirming")
     /\ IF ok THEN run' = Idle("ok") ELSE Compensate("step")
  \/ /\ At("undoing")
     /\ run' = [run EXCEPT !.pc = "undone", !.provisional = ~ok /\ run.provisional,
                           !.awaiting = ~ok /\ run.awaiting]

ReceiveReply ==
  /\ Waiting /\ reply # None
  /\ Answered(reply = "ok")
  /\ reply' = None
  /\ UNCHANGED <<disk, gateway, wire, left>>

Abandon(calls) == {[c EXCEPT !.live = FALSE] : c \in calls}

AbandonDrain == drain' = IF drain = None THEN None ELSE [drain EXCEPT !.live = FALSE]

\* Nothing will answer any more.
CallFails ==
  /\ Waiting /\ reply = None /\ ~Pending
  /\ Answered(FALSE)
  /\ UNCHANGED <<disk, gateway, wire, reply, left>>

\* The call is lost on its way, or the client gives up on one that is not.
LoseCall ==
  /\ Waiting /\ Pending /\ left.loss > 0
  /\ left' = [left EXCEPT !.loss = @ - 1]
  /\ Answered(FALSE)
  /\ \/ /\ wire' = Abandon(wire)
        /\ AbandonDrain
     \/ /\ \E c \in wire : c.live
        /\ wire' = {c \in wire : ~c.live}
        /\ UNCHANGED drain
  /\ UNCHANGED <<disk, memory, boot, gate, loaded, pins, reply, patch>>

\* Handled, and the answer is lost.
LoseReply ==
  /\ Waiting /\ reply # None /\ left.loss > 0
  /\ left' = [left EXCEPT !.loss = @ - 1]
  /\ reply' = None
  /\ UNCHANGED <<disk, gateway, wire, run>>

\* CancelledError: an operation on the disk runs to its end first, the recipe
\* compensates at once, everything else is left to the finally.
Cancel ==
  /\ left.cancel > 0
  /\ run.pc \in {"smoke", "activating", "confirm", "confirming", "undoing"}
  /\ run.attempt # "finally"
  /\ left' = [left EXCEPT !.cancel = @ - 1]
  /\ IF run.pc \in {"smoke", "confirm"} THEN FailStep ELSE Fail
  /\ wire' = Abandon(wire)
  /\ AbandonDrain
  /\ reply' = None
  /\ UNCHANGED <<disk, memory, boot, gate, loaded, pins, patch>>

\* Killed: the ledger is lost, the file is what it was.
Crash ==
  /\ left.crash > 0 /\ ~At("idle")
  /\ left' = [left EXCEPT !.crash = @ - 1]
  /\ run' = Idle("killed")
  /\ wire' = Abandon(wire)
  /\ AbandonDrain
  /\ reply' = None
  /\ UNCHANGED <<disk, memory, boot, gate, loaded, pins, patch>>

----------------------------------------------------------------------------
(* The gateway: bootstrap-sync, handled under the lock of the target.      *)

Block(file) == gate' = TRUE /\ memory' = file

\* What ends a handler that does not await: the call is answered.
Answer(c, r) ==
  /\ wire' = wire \ {c}
  /\ reply' = IF c.live THEN r ELSE reply

Refuse(c) ==
  /\ Answer(c, "refused")
  /\ UNCHANGED gateway

\* _read_bootstrap_snapshot: the file must be the one the caller has read.
Current(c) == c.digest = disk /\ disk.target # None

Opens(c) ==
  /\ ~InTransition
  /\ ~disk.target.enabled
  /\ SameOthers(memory, disk)
  /\ memory.target \in {None, disk.target}
  /\ ~loaded
Reopens(c) ==
  /\ Phase("active")
  /\ boot.digest = c.digest /\ boot.live.vram = c.vram
  /\ disk.target = boot.baseline.target
  /\ SameOthers(boot.baseline, disk) /\ SameOthers(boot.baseline, memory)
  /\ memory.target = boot.live

Activate(c) ==
  /\ c.action = "activate"
  /\ \/ ~Current(c) /\ Refuse(c)
     \/ Current(c) /\ ~Opens(c) /\ ~Reopens(c) /\ Refuse(c)
     \/ Current(c) /\ Reopens(c) /\ Answer(c, "ok") /\ UNCHANGED gateway
     \/ /\ Current(c) /\ Opens(c)
        /\ LET live == [disk.target EXCEPT !.enabled = TRUE, !.vram = c.vram] IN
             /\ memory' = [disk EXCEPT !.target = live]
             /\ boot' = [phase |-> "active", baseline |-> disk, live |-> live,
                         digest |-> c.digest, terminal |-> None]
        /\ gate' = FALSE
        /\ Answer(c, "ok")
        /\ UNCHANGED <<loaded, pins, drain, patch>>

Confirms(c) ==
  /\ Phase("active")
  /\ disk.target = boot.live
  /\ SameOthers(boot.baseline, disk) /\ SameOthers(boot.baseline, memory)
  /\ memory.target = boot.live
ConfirmedAlready(c) ==
  /\ Phase("confirmed")
  /\ boot.terminal = c.digest /\ disk.target = boot.live /\ SameOthers(boot.baseline, disk)

Confirm(c) ==
  /\ c.action = "confirm"
  /\ \/ ~Current(c) /\ Refuse(c)
     \/ Current(c) /\ ~Confirms(c) /\ ~ConfirmedAlready(c) /\ Refuse(c)
     \/ Current(c) /\ ConfirmedAlready(c) /\ Answer(c, "ok") /\ UNCHANGED gateway
     \/ /\ Current(c) /\ Confirms(c)
        /\ memory' = disk
        /\ boot' = [boot EXCEPT !.phase = "confirmed", !.terminal = c.digest]
        /\ gate' = FALSE
        /\ Answer(c, "ok")
        /\ UNCHANGED <<loaded, pins, drain, patch>>

\* Mutant: what is confirmed cannot be rolled back.
RollsBackUnlessConfirmed(c) ==
  /\ Phase("active") \/ Phase("rolling_back")
  /\ disk.target = boot.baseline.target /\ ~disk.target.enabled
  /\ SameOthers(boot.baseline, disk) /\ SameOthers(boot.baseline, memory)

RollsBack(c) ==
  /\ Phase("active") \/ Phase("rolling_back") \/ Phase("confirmed")
  /\ disk.target = boot.baseline.target /\ ~disk.target.enabled
  /\ SameOthers(boot.baseline, disk) /\ SameOthers(boot.baseline, memory)

RolledBackAlready(c) ==
  /\ Phase("rolled_back")
  /\ boot.terminal = c.digest /\ disk.target = boot.baseline.target
  /\ SameOthers(boot.baseline, disk)

\* The gate is closed and the disabled entry published before the drain is
\* awaited; the lock is held meanwhile.
Rollback(c) ==
  /\ c.action = "rollback"
  /\ \/ ~Current(c) /\ Refuse(c)
     \/ Current(c) /\ ~RollsBack(c) /\ ~RolledBackAlready(c) /\ Refuse(c)
     \/ Current(c) /\ RolledBackAlready(c) /\ Answer(c, "ok") /\ UNCHANGED gateway
     \/ /\ Current(c) /\ RollsBack(c)
        /\ Block(disk)
        /\ boot' = [boot EXCEPT !.phase = "rolling_back"]
        /\ drain' = [lease |-> FALSE, live |-> c.live]
        /\ wire' = wire \ {c}
        /\ UNCHANGED <<loaded, pins, patch, reply>>

Handle ==
  /\ drain = None
  /\ \E c \in wire : Activate(c) \/ Confirm(c) \/ Rollback(c)
  /\ UNCHANGED <<disk, run, left>>

\* _bootstrap_lease_watchdog: the lease has run out and the lock is free.
LeaseExpires ==
  /\ drain = None
  /\ Phase("active")
  /\ Block(boot.baseline)
  /\ boot' = [boot EXCEPT !.phase = "rolling_back"]
  /\ drain' = [lease |-> TRUE, live |-> FALSE]
  /\ UNCHANGED <<disk, loaded, pins, patch, wire, reply, run, left>>

DrainReply(r) ==
  reply' = IF drain.live THEN r ELSE reply

\* Mutant: the gate is not reopened once the target is unloaded.
DrainEndsGated ==
  /\ drain # None
  /\ drain' = None
  /\ UNCHANGED gate
  /\ \/ pins > 0 /\ DrainReply("refused") /\ UNCHANGED <<boot, loaded>>
     \/ /\ pins = 0 /\ loaded' = FALSE
        /\ boot' = [boot EXCEPT !.phase = "rolled_back", !.terminal = boot.baseline]
        /\ DrainReply("ok")
  /\ UNCHANGED <<disk, memory, pins, patch, wire, run, left>>

\* _unload_for_admin ends: the target is unloaded, or still in use after the
\* drain, and then the gate stays closed until someone asks again.
DrainEnds ==
  /\ drain # None
  /\ drain' = None
  /\ \/ /\ pins > 0
        /\ DrainReply("refused")
        /\ UNCHANGED <<boot, gate, loaded>>
     \/ /\ pins = 0
        /\ loaded' = FALSE
        /\ IF drain.lease \/ disk = memory
           THEN /\ boot' = [boot EXCEPT !.phase = "rolled_back", !.terminal = boot.baseline]
                /\ gate' = FALSE
                /\ DrainReply("ok")
           ELSE DrainReply("refused") /\ UNCHANGED <<boot, gate>>
  /\ UNCHANGED <<disk, memory, pins, patch, wire, run, left>>

GatewayRestart ==
  /\ left.restart > 0
  /\ left' = [left EXCEPT !.restart = @ - 1]
  /\ memory' = disk
  /\ boot' = None /\ gate' = FALSE /\ loaded' = FALSE /\ pins' = 0
  /\ drain' = None /\ patch' = None
  /\ wire' = {}
  /\ UNCHANGED <<disk, reply, run>>

----------------------------------------------------------------------------
(* Users, and an administrator editing the registry                        *)

UserStarts ==
  /\ Served /\ pins = 0 /\ left.users > 0
  /\ left' = [left EXCEPT !.users = @ - 1]
  /\ pins' = 1 /\ loaded' = TRUE
  /\ UNCHANGED <<disk, memory, boot, gate, drain, patch, wire, reply, run>>

UserEnds ==
  /\ pins > 0
  /\ pins' = 0
  /\ UNCHANGED <<disk, memory, boot, gate, loaded, drain, patch, wire, reply, run, left>>

\* PATCH: refused during a transition, then the unload is awaited.
PatchBegins ==
  /\ left.edit > 0 /\ patch = None /\ ~InTransition
  /\ left' = [left EXCEPT !.edit = @ - 1]
  /\ \/ patch' = "other" /\ UNCHANGED loaded
     \/ /\ memory.target # None /\ pins = 0
        /\ patch' = "params" /\ loaded' = FALSE
  /\ UNCHANGED <<disk, memory, boot, gate, pins, drain, wire, reply, run>>

Edited(file) ==
  IF patch = "other" THEN [file EXCEPT !.other = 1 - @] ELSE [file EXCEPT !.target.params = 1 - @]

DiskMatchesPrecedent == memory = disk

\* The transition is checked again, and registry.update refuses to overwrite
\* a file that is no longer the one in memory.
PatchCommits ==
  /\ patch # None
  /\ patch' = None
  /\ IF ~InTransition /\ DiskMatchesPrecedent /\ (patch = "params" => memory.target # None)
     THEN disk' = Edited(disk) /\ memory' = Edited(memory)
     ELSE UNCHANGED <<disk, memory>>
  /\ UNCHANGED <<boot, gate, loaded, pins, drain, wire, reply, run, left>>

----------------------------------------------------------------------------
Applier ==
  Start \/ WriteEntry \/ Publish \/ Calibrate \/ Provision \/ Smoke \/ Persist \/ AskConfirm
    \/ UndoOnDisk \/ UndoLive \/ Undone \/ Exit \/ ReceiveReply \/ CallFails
Mishap  == LoseCall \/ LoseReply \/ Cancel \/ Crash \/ GatewayRestart
Gateway == Handle \/ LeaseExpires \/ DrainEnds
Others  == UserStarts \/ UserEnds \/ PatchBegins \/ PatchCommits
Done    == At("idle") /\ left.runs = 0 /\ UNCHANGED vars

Next == Applier \/ Mishap \/ Gateway \/ Others \/ Done
Spec == Init /\ [][Next]_vars

\* The applier's process runs, the gateway serves its lock in turn, the lease
\* is a timer, a request of a user ends.
LiveSpec ==
  /\ Spec
  /\ WF_vars(Applier)
  /\ WF_vars(Handle) /\ WF_vars(LeaseExpires) /\ WF_vars(DrainEnds)
  /\ WF_vars(UserEnds) /\ WF_vars(PatchCommits)

----------------------------------------------------------------------------
ActivationTypeOK ==
  /\ disk \in File /\ memory \in File /\ left \in Trouble
  /\ boot \in Transition \cup {None}
  /\ gate \in BOOLEAN /\ loaded \in BOOLEAN /\ pins \in 0 .. 1
  /\ drain \in Drain \cup {None}
  /\ patch \in {"other", "params", None}
  /\ wire \subseteq Call /\ reply \in {"ok", "refused", None}
  /\ run \in Run

\* The phase of the transition, the gate and the registry in memory say the
\* same thing whatever call or lease got there first: an open transition
\* serves exactly the calibrated entry, a rollback under way serves nothing,
\* and the gate is never closed with no transition left to reopen it.
PhaseGoverns ==
  /\ ActivationTypeOK
  /\ Phase("active") => memory.target = boot.live /\ ~gate
  /\ Phase("rolling_back") => gate /\ ~Enabled(memory)
  /\ gate => Phase("rolling_back")

\* models.yaml turns to enabled only on a recipe passed in this run, for the
\* parameters that were calibrated, whatever was edited meanwhile.
EnabledOnProof ==
  [][~Enabled(disk) /\ Enabled(disk') => run.smoked /\ disk'.target.params = 0]_vars

\* A plan reported as done has left the model enabled on disk; when this run
\* opened it, the gateway admits exactly what the file says.
DoneMeansServed ==
  [][run.outcome # "ok" /\ run'.outcome = "ok" =>
       Enabled(disk) /\ (run.provisional => Served /\ memory.target = disk.target)]_vars

\* What the gateway serves and models.yaml does not enable is on borrowed
\* time: whoever is killed, cancelled or cut off, it is confirmed or closed.
BorrowedTimeEnds ==
  (boot # None /\ Served /\ ~Enabled(disk)) ~> (boot = None \/ ~Served \/ Enabled(disk))

\* The applier always comes back, with a result or an error.
EveryRunEnds == ~At("idle") ~> At("idle")

\* Whatever ends it, error or cancellation, a run that has failed has closed
\* the model in the gateway, or has left it under a lease
\* (docs/architecture.md, applier.py _capturing_smoke_test).
FailureIsCompensated ==
  At("idle") /\ run.outcome = "failed" /\ ~Enabled(disk) => ~Served \/ Phase("active")
=============================================================================
