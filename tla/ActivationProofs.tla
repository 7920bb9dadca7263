--------------------------- MODULE ActivationProofs ---------------------------
(***************************************************************************)
(* Putting a model into service, proved for every estimate, every budget   *)
(* and every number of kills, cancellations, lost calls, restarts, edits   *)
(* and runs.                                                               *)
(***************************************************************************)
EXTENDS Activation, TLAPS

-----------------------------------------------------------------------------
(* Types                                                                   *)

LEMMA InitTyped == Init => ActivationTypeOK
  <1>1. SUFFICES ASSUME Init PROVE ActivationTypeOK
    OBVIOUS
  <1>2. Generated \in Entry
    BY ActivationAssumption DEF Generated, Entry
  <1> DEFINE raised == [Generated EXCEPT !.enabled = TRUE]
  <1>3. raised \in Entry
    BY <1>2 DEF Entry
  <1>4. /\ [target |-> None, other |-> 0] \in File
        /\ [target |-> Generated, other |-> 0] \in File
        /\ [target |-> raised, other |-> 0] \in File
    <2> HIDE DEF raised
    <2> QED
      BY <1>2, <1>3 DEF File
  <1>5. disk \in File /\ memory \in File
    BY <1>1, <1>4 DEF Init
  <1>6. run \in Run
    <2>1. Idle("none") \in Run
      BY DEF Idle, Run
    <2> QED
      BY <1>1, <2>1 DEF Init
  <1>7. left \in Trouble
    <2>1. left \in Scenario
      BY <1>1 DEF Init
    <2> QED
      BY <2>1, ActivationAssumption
  <1>8. /\ boot = None /\ gate = FALSE /\ loaded = FALSE /\ pins = 0 /\ drain = None
        /\ wire = {} /\ reply = None /\ patch = None
    BY <1>1, Zenon DEF Init
  <1>9. gate \in BOOLEAN /\ loaded \in BOOLEAN /\ wire \subseteq Call
    BY <1>8, Zenon
  <1>10. pins \in 0 .. 1 /\ boot \in Transition \cup {None} /\ drain \in Drain \cup {None}
         /\ patch \in {"other", "params", None} /\ reply \in {"ok", "refused", None}
    BY <1>8
  <1> QED
    BY <1>5, <1>6, <1>7, <1>9, <1>10 DEF ActivationTypeOK

\* The ways the applier's state moves.
LEMMA RunTyped ==
  ASSUME ActivationTypeOK
  PROVE  /\ \A p \in {"idle", "write", "publish", "calibrate", "enable", "activating", "smoke",
                      "persist", "confirm", "confirming", "undo", "undo_live", "undoing",
                      "undone", "exit"} : [run EXCEPT !.pc = p] \in Run
         /\ \A o \in {"none", "ok", "failed", "killed"} : Idle(o) \in Run
         /\ [run EXCEPT !.pc = "exit", !.outcome = "failed"] \in Run
         /\ \A a \in {"step", "finally"} :
              [run EXCEPT !.pc = "undo", !.outcome = "failed", !.attempt = a] \in Run
         /\ \A e \in Entry, n \in {"calibrate", "confirm", "undo_live"} :
              [run EXCEPT !.pc = "publish", !.next = n,
                          !.draft = [disk EXCEPT !.target = e]] \in Run
         /\ run.next # None =>
              [run EXCEPT !.pc = run.next, !.draft = None, !.next = None] \in Run
  <1>1. run \in Run /\ disk \in File
    BY DEF ActivationTypeOK
  <1>2. \A p \in {"idle", "write", "publish", "calibrate", "enable", "activating", "smoke",
                      "persist", "confirm", "confirming", "undo", "undo_live", "undoing",
                      "undone", "exit"} : [run EXCEPT !.pc = p] \in Run
    BY <1>1 DEF Run
  <1>3. \A o \in {"none", "ok", "failed", "killed"} : Idle(o) \in Run
    BY DEF Run, Idle
  <1>4. [run EXCEPT !.pc = "exit", !.outcome = "failed"] \in Run
    BY <1>1 DEF Run
  <1>5. \A a \in {"step", "finally"} :
              [run EXCEPT !.pc = "undo", !.outcome = "failed", !.attempt = a] \in Run
    BY <1>1 DEF Run
  <1>6. \A e \in Entry : [disk EXCEPT !.target = e] \in File
    BY <1>1 DEF File
  <1>7. \A f \in File, n \in {"calibrate", "confirm", "undo_live"} :
              [run EXCEPT !.pc = "publish", !.next = n, !.draft = f] \in Run
    BY <1>1 DEF Run
  <1>8. run.next # None =>
              [run EXCEPT !.pc = run.next, !.draft = None, !.next = None] \in Run
    BY <1>1 DEF Run
  <1> QED
    BY <1>2, <1>3, <1>4, <1>5, <1>6, <1>7, <1>8

LEMMA AnsweredTyped ==
  ASSUME ActivationTypeOK
  PROVE  \A ok \in BOOLEAN : Answered(ok) => run' \in Run
  <1> SUFFICES ASSUME NEW ok \in BOOLEAN, Answered(ok) PROVE run' \in Run
    OBVIOUS
  <1>1. run \in Run
    BY DEF ActivationTypeOK
  <1>2. [run EXCEPT !.pc = "undone", !.provisional = ~ok /\ run.provisional,
                    !.awaiting = ~ok /\ run.awaiting] \in Run
    BY <1>1 DEF Run
  <1>3. Idle("ok") \in Run
    BY DEF Idle, Run
  <1>4. Goto("smoke") \/ Compensate("step") => run' \in Run
    BY RunTyped, Zenon DEF Goto, Compensate
  <1> QED
    BY <1>2, <1>3, <1>4 DEF Answered

\* The applier's own steps.
LEMMA ApplierRunTyped ==
  ASSUME ActivationTypeOK, Applier,
         At("publish") => run.next # None
  PROVE  run' \in Run
  <1>0. run \in Run /\ disk \in File /\ (disk.target # None => disk.target \in Entry)
    BY DEF ActivationTypeOK, File
  <1>1. \A e \in Entry, n \in {"calibrate", "confirm", "undo_live"} :
          Rewrite(e, n) => run' \in Run
    <2> SUFFICES ASSUME NEW e \in Entry, NEW n \in {"calibrate", "confirm", "undo_live"},
                        Rewrite(e, n)
                 PROVE  run' \in Run
      OBVIOUS
    <2>1. [run EXCEPT !.pc = "publish", !.next = n,
                      !.draft = [disk EXCEPT !.target = e]] \in Run
      BY RunTyped, Zenon
    <2> QED
      BY <2>1, Zenon DEF Rewrite
  <1>2. /\ \A p \in {"calibrate", "enable", "smoke", "undo_live", "undone", "confirming",
                      "undoing", "persist"} : Goto(p) => run' \in Run
        /\ Fail => run' \in Run
        /\ \A a \in {"step", "finally"} : Compensate(a) => run' \in Run
    BY RunTyped, Zenon DEF Goto, Fail, Compensate
  <1>o. \A o \in {"none", "ok", "failed", "killed"} : run' = Idle(o) => run' \in Run
    BY RunTyped, Zenon
  <1>3. FailStep => run' \in Run
    BY <1>2 DEF FailStep
  <1>4. CASE Start
    <2>1. Idle("none") \in Run
      BY DEF Idle, Run
    <2>2. [Idle("none") EXCEPT !.pc = "write"] \in Run
      BY <2>1 DEF Run
    <2> QED
      BY <1>4, <2>2 DEF Start
  <1>5. CASE WriteEntry
    <2>1. Generated \in Entry
      BY ActivationAssumption DEF Generated, Entry
    <2> QED
      BY <1>5, <2>1, <1>1, <1>2 DEF WriteEntry
  <1>6. CASE Publish
    BY <1>6, RunTyped, Zenon DEF Publish
  <1>7. CASE Calibrate
    BY <1>7, <1>2 DEF Calibrate
  <1>8. CASE Provision
    <2>1. [run EXCEPT !.pc = "smoke", !.awaiting = TRUE] \in Run
      BY <1>0 DEF Run
    <2>2. [run EXCEPT !.pc = "activating", !.provisional = TRUE, !.awaiting = TRUE] \in Run
      BY <1>0 DEF Run
    <2> QED
      BY <1>8, <1>2, <2>1, <2>2 DEF Provision
  <1>9. CASE Smoke
    <2>1. [run EXCEPT !.pc = "persist", !.smoked = TRUE] \in Run
      BY <1>0 DEF Run
    <2> QED
      BY <1>9, <1>3, <2>1 DEF Smoke
  <1>10. CASE Persist
    <2>1. disk.target # None =>
            [disk.target EXCEPT !.enabled = TRUE, !.vram = TargetVram(disk.target)] \in Entry
      <3>1. disk.target # None => TargetVram(disk.target) \in Nat
        BY <1>0 DEF TargetVram, ActivationTypeOK, Trouble, Entry
      <3> QED
        BY <1>0, <3>1 DEF Entry
    <2>2. Compensate("step") \/ run' = Idle("ok") => run' \in Run
      BY <1>2, <1>o
    <2> QED
      BY <1>10, <1>1, <1>3, <2>1, <2>2 DEF Persist
  <1>11. CASE AskConfirm
    BY <1>11, <1>2, <1>o DEF AskConfirm
  <1>12. CASE UndoOnDisk
    <2>1. disk.target # None => [disk.target EXCEPT !.enabled = FALSE] \in Entry
      BY <1>0 DEF Entry
    <2> QED
      BY <1>12, <1>1, <1>2, <2>1 DEF UndoOnDisk
  <1>13. CASE UndoLive
    BY <1>13, <1>2 DEF UndoLive
  <1>14. CASE Undone
    <2>1. [run EXCEPT !.pc = "exit"] \in Run
      BY <1>0 DEF Run
    <2> QED
      BY <1>14, <1>o, <2>1 DEF Undone
  <1>15. CASE Exit
    <2>1. run.outcome \in {"none", "ok", "failed", "killed"}
      BY <1>0 DEF Run
    <2> QED
      BY <1>15, <1>2, <1>o, <2>1 DEF Exit
  <1>17. CASE ReceiveReply
    BY <1>17, AnsweredTyped DEF ReceiveReply
  <1>18. CASE CallFails
    BY <1>18, AnsweredTyped DEF CallFails
  <1> QED
    BY <1>4, <1>5, <1>6, <1>7, <1>8, <1>9, <1>10, <1>11, <1>12, <1>13, <1>14, <1>15, <1>17,
       <1>18 DEF Applier

\* The calls: one is sent, given up or answered.
LEMMA CallsTyped ==
  ASSUME ActivationTypeOK
  PROVE  /\ Abandon(wire) \subseteq Call
         /\ \A c \in wire : Answer(c, "ok") \/ Answer(c, "refused") =>
              wire' \subseteq Call /\ reply' \in {"ok", "refused", None}
         /\ disk.target # None /\ Send("activate", disk, TargetVram(disk.target)) =>
              wire' \subseteq Call /\ reply' \in {"ok", "refused", None}
         /\ \A a \in {"confirm", "rollback"} : Send(a, disk, 0) =>
              wire' \subseteq Call /\ reply' \in {"ok", "refused", None}
         /\ AbandonDrain => drain' \in Drain \cup {None}
  <1>0. wire \subseteq Call /\ reply \in {"ok", "refused", None} /\ disk \in File
    BY DEF ActivationTypeOK
  <1>1. Abandon(wire) \subseteq Call
    BY <1>0 DEF Abandon, Call
  <1>2. \A c \in wire : Answer(c, "ok") \/ Answer(c, "refused") =>
              wire' \subseteq Call /\ reply' \in {"ok", "refused", None}
    BY <1>0 DEF Answer
  <1>3. \A a \in {"activate", "confirm", "rollback"}, v \in Nat :
          Send(a, disk, v) => wire' \subseteq Call /\ reply' \in {"ok", "refused", None}
    <2> SUFFICES ASSUME NEW a \in {"activate", "confirm", "rollback"}, NEW v \in Nat,
                        Send(a, disk, v)
                 PROVE  wire' \subseteq Call /\ reply' \in {"ok", "refused", None}
      OBVIOUS
    <2> DEFINE c == [action |-> a, digest |-> disk, vram |-> v, live |-> TRUE]
    <2>1. c \in Call
      BY <1>0 DEF Call
    <2>2. wire' = wire \cup {c} /\ reply' = None
      BY Zenon DEF Send
    <2> HIDE DEF c
    <2> QED
      BY <1>0, <2>1, <2>2
  <1>4. disk.target # None => TargetVram(disk.target) \in Nat
    BY <1>0 DEF ActivationTypeOK, TargetVram, File, Entry, Trouble
  <1>5. AbandonDrain => drain' \in Drain \cup {None}
    <2>1. drain \in Drain => [drain EXCEPT !.live = FALSE] \in Drain
      BY DEF Drain
    <2> QED
      BY <2>1, Zenon DEF ActivationTypeOK, AbandonDrain
  <1> QED
    BY <1>1, <1>2, <1>3, <1>4, <1>5

\* The gateway's handlers.
LEMMA HandleTyped ==
  ASSUME ActivationTypeOK, NEW c \in wire, Activate(c) \/ Confirm(c) \/ Rollback(c)
  PROVE  /\ memory' \in File /\ boot' \in Transition \cup {None}
         /\ gate' \in BOOLEAN /\ drain' \in Drain \cup {None}
         /\ wire' \subseteq Call /\ reply' \in {"ok", "refused", None}
         /\ UNCHANGED <<loaded, pins, patch>>
  <1>0. /\ c \in Call /\ disk \in File /\ (disk.target # None => disk.target \in Entry)
        /\ memory \in File /\ boot \in Transition \cup {None} /\ gate \in BOOLEAN
        /\ drain \in Drain \cup {None} /\ wire \subseteq Call
        /\ reply \in {"ok", "refused", None}
    BY DEF ActivationTypeOK, File
  <1>1. Answer(c, "ok") \/ Answer(c, "refused") =>
          wire' \subseteq Call /\ reply' \in {"ok", "refused", None}
    BY CallsTyped
  <1>2. Refuse(c) \/ (Answer(c, "ok") /\ UNCHANGED gateway) => 
          /\ UNCHANGED <<memory, boot, gate, drain, loaded, pins, patch>>
          /\ wire' \subseteq Call /\ reply' \in {"ok", "refused", None}
    BY <1>1 DEF Refuse, gateway
  <1>3. CASE Refuse(c) \/ (Answer(c, "ok") /\ UNCHANGED gateway)
    BY <1>0, <1>2, <1>3
  <1>4. CASE Activate(c) /\ Opens(c) /\ Current(c) /\ Answer(c, "ok")
              /\ UNCHANGED <<loaded, pins, drain, patch>> /\ gate' = FALSE
    <2> DEFINE live == [disk.target EXCEPT !.enabled = TRUE, !.vram = c.vram]
               file == [disk EXCEPT !.target = live]
               state == [phase |-> "active", baseline |-> disk, live |-> live,
                         digest |-> c.digest, terminal |-> None]
    <2>1. live \in Entry
      BY <1>0, <1>4 DEF Current, Entry, Call
    <2>2. (Refuse(c) \/ (Answer(c, "ok") /\ UNCHANGED gateway)) \/
          (memory' = file /\ boot' = state)
      BY <1>4, Zenon DEF Activate
    <2> HIDE DEF live
    <2>3. file \in File
      BY <1>0, <2>1 DEF File
    <2>4. state \in Transition
      BY <1>0, <2>1 DEF Transition, Call
    <2> HIDE DEF file, state
    <2> QED
      BY <1>0, <1>1, <1>3, <1>4, <2>2, <2>3, <2>4
  <1>5. CASE Confirm(c) /\ Confirms(c) /\ Answer(c, "ok") /\ memory' = disk /\ gate' = FALSE
              /\ boot' = [boot EXCEPT !.phase = "confirmed", !.terminal = c.digest]
              /\ UNCHANGED <<loaded, pins, drain, patch>>
    <2>1. boot \in Transition
      BY <1>0, <1>5 DEF Confirms, Phase
    <2>2. [boot EXCEPT !.phase = "confirmed", !.terminal = c.digest] \in Transition
      BY <1>0, <2>1 DEF Transition, Call
    <2> QED
      BY <1>0, <1>1, <1>5, <2>2
  <1>6. CASE Rollback(c) /\ RollsBack(c) /\ Block(disk) /\ wire' = wire \ {c}
              /\ boot' = [boot EXCEPT !.phase = "rolling_back"]
              /\ drain' = [lease |-> FALSE, live |-> c.live]
              /\ UNCHANGED <<loaded, pins, patch, reply>>
    <2>1. boot \in Transition
      BY <1>0, <1>6 DEF RollsBack, Phase
    <2>2. [boot EXCEPT !.phase = "rolling_back"] \in Transition
      BY <1>0, <2>1 DEF Transition
    <2>3. [lease |-> FALSE, live |-> c.live] \in Drain
      BY <1>0 DEF Drain, Call
    <2> QED
      BY <1>0, <1>6, <2>2, <2>3 DEF Block
  <1> QED
    BY <1>3, <1>4, <1>5, <1>6, Zenon DEF Activate, Confirm, Rollback

LEMMA NextTyped ==
  ASSUME ActivationTypeOK, [Next]_vars,
         At("publish") => run.next # None /\ run.draft # None,
         drain # None => boot # None
  PROVE  ActivationTypeOK'
  <1>0. /\ disk \in File /\ memory \in File /\ left \in Trouble
        /\ boot \in Transition \cup {None} /\ drain \in Drain \cup {None}
        /\ patch \in {"other", "params", None}
        /\ wire \subseteq Call /\ reply \in {"ok", "refused", None} /\ run \in Run
    BY DEF ActivationTypeOK
  <1>1. gate \in BOOLEAN /\ loaded \in BOOLEAN /\ pins \in 0 .. 1
    BY DEF ActivationTypeOK
  <1>2. CASE Applier
    <2>1. run' \in Run
      BY <1>2, ApplierRunTyped
    <2>2. UNCHANGED <<memory, boot, gate, pins, drain, patch>>
      BY <1>2 DEF Applier, Start, WriteEntry, Publish, Calibrate, Provision, Smoke, Persist,
         AskConfirm, UndoOnDisk, UndoLive, Undone, Exit, ReceiveReply, CallFails, gateway
    <2>3. disk' \in File
      <3>1. CASE Publish
        BY <1>0, <3>1 DEF Publish, Run
      <3>2. CASE ~Publish
        BY <1>0, <1>2, <3>2 DEF Applier, Start, WriteEntry, Calibrate, Provision, Smoke, Persist,
         AskConfirm, UndoOnDisk, UndoLive, Undone, Exit, ReceiveReply, CallFails
      <3> QED
        BY <3>1, <3>2
    <2>4. left' \in Trouble
      <3>1. CASE Start
        BY <1>0, <3>1 DEF Start, Trouble
      <3>2. CASE ~Start
        BY <1>0, <1>2, <3>2 DEF Applier, WriteEntry, Publish, Calibrate, Provision, Smoke, Persist,
         AskConfirm, UndoOnDisk, UndoLive, Undone, Exit, ReceiveReply, CallFails
      <3> QED
        BY <3>1, <3>2
    <2>5. wire' \subseteq Call /\ reply' \in {"ok", "refused", None}
      <3>1. CASE Provision
        BY <1>0, <3>1, CallsTyped DEF Provision
      <3>2. CASE AskConfirm \/ UndoLive
        BY <1>0, <3>2, CallsTyped DEF AskConfirm, UndoLive
      <3>3. CASE ReceiveReply
        BY <1>0, <3>3 DEF ReceiveReply
      <3>4. CASE ~Provision /\ ~AskConfirm /\ ~UndoLive /\ ~ReceiveReply
        BY <1>0, <1>2, <3>4 DEF Applier, Start, WriteEntry, Publish, Calibrate, Smoke, Persist,
         UndoOnDisk, Undone, Exit, CallFails
      <3> QED
        BY <3>1, <3>2, <3>3, <3>4
    <2>6. loaded' \in BOOLEAN
      <3>1. CASE Smoke
        BY <1>1, <3>1 DEF Smoke
      <3>2. CASE ~Smoke
        BY <1>1, <1>2, <3>2 DEF Applier, Start, WriteEntry, Publish, Calibrate, Provision, Persist,
         AskConfirm, UndoOnDisk, UndoLive, Undone, Exit, ReceiveReply, CallFails, gateway
      <3> QED
        BY <3>1, <3>2
    <2> QED
      BY <1>0, <1>1, <2>1, <2>2, <2>3, <2>4, <2>5, <2>6 DEF ActivationTypeOK
  <1>3. CASE Mishap
    <2>1. left' \in Trouble
      <3>1. CASE LoseCall
        BY <1>0, <3>1 DEF LoseCall, Trouble
      <3>2. CASE LoseReply
        BY <1>0, <3>2 DEF LoseReply, Trouble
      <3>3. CASE Cancel
        BY <1>0, <3>3 DEF Cancel, Trouble
      <3>4. CASE Crash
        BY <1>0, <3>4 DEF Crash, Trouble
      <3>5. CASE GatewayRestart
        BY <1>0, <3>5 DEF GatewayRestart, Trouble
      <3> QED
        BY <1>3, <3>1, <3>2, <3>3, <3>4, <3>5 DEF Mishap
    <2>2. run' \in Run
      <3>1. \A o \in {"ok", "failed", "killed"} : run' = Idle(o) => run' \in Run
        BY RunTyped, Zenon
      <3>2. Fail \/ FailStep \/ run' = run => run' \in Run
        BY <1>0, RunTyped, Zenon DEF Fail, FailStep, Compensate
      <3> QED
        BY <1>3, <3>1, <3>2, AnsweredTyped
           DEF Mishap, LoseCall, LoseReply, Cancel, Crash, GatewayRestart
    <2>3. wire' \subseteq Call
      BY <1>0, <1>3, CallsTyped DEF Mishap, LoseCall, LoseReply, Cancel, Crash, GatewayRestart
    <2>4. drain' \in Drain \cup {None}
      BY <1>0, <1>3, CallsTyped
         DEF Mishap, LoseCall, LoseReply, Cancel, Crash, GatewayRestart, gateway
    <2>5. reply' \in {"ok", "refused", None}
      BY <1>0, <1>3 DEF Mishap, LoseCall, LoseReply, Cancel, Crash, GatewayRestart
    <2>6. CASE GatewayRestart
      <3>1. /\ disk' \in File /\ memory' \in File /\ boot' \in Transition \cup {None}
            /\ patch' \in {"other", "params", None}
        BY <1>0, <2>6 DEF GatewayRestart
      <3>2. gate' \in BOOLEAN /\ loaded' \in BOOLEAN
        BY <2>6, Zenon DEF GatewayRestart
      <3>3. pins' \in 0 .. 1
        BY <2>6 DEF GatewayRestart
      <3> QED
        BY <2>1, <2>2, <2>3, <2>4, <2>5, <3>1, <3>2, <3>3 DEF ActivationTypeOK
    <2>7. CASE ~GatewayRestart
      <3>1. UNCHANGED <<disk, memory, boot, gate, loaded, pins, patch>>
        BY <1>3, <2>7 DEF Mishap, LoseCall, LoseReply, Cancel, Crash, gateway
      <3> QED
        BY <1>0, <1>1, <2>1, <2>2, <2>3, <2>4, <2>5, <3>1 DEF ActivationTypeOK
    <2> QED
      BY <2>6, <2>7
  <1>4. CASE Handle
    BY <1>0, <1>1, <1>4, HandleTyped DEF Handle, ActivationTypeOK
  <1>5. CASE LeaseExpires
    <2>1. boot \in Transition
      BY <1>0, <1>5 DEF LeaseExpires, Phase
    <2>2. [boot EXCEPT !.phase = "rolling_back"] \in Transition /\ boot.baseline \in File
      BY <2>1 DEF Transition
    <2>3. [lease |-> TRUE, live |-> FALSE] \in Drain
      BY DEF Drain
    <2>4. /\ memory' \in File /\ boot' \in Transition /\ drain' \in Drain /\ gate' = TRUE
          /\ UNCHANGED <<disk, loaded, pins, patch, wire, reply, run, left>>
      BY <1>5, <2>2, <2>3, Zenon DEF LeaseExpires, Block
    <2> QED
      BY <1>0, <1>1, <2>4 DEF ActivationTypeOK
  <1>6. CASE DrainEnds
    <2>1. drain # None /\ drain' = None /\ UNCHANGED <<disk, memory, pins, patch, wire, run, left>>
      BY <1>6 DEF DrainEnds
    <2>2. reply' \in {"ok", "refused", None}
      BY <1>0, <1>6 DEF DrainEnds, DrainReply
    <2>3. loaded' \in BOOLEAN /\ gate' \in BOOLEAN
      BY <1>1, <1>6 DEF DrainEnds
    <2>4. boot' \in Transition \cup {None}
      <3>1. boot \in Transition
        BY <1>0, <1>6 DEF DrainEnds
      <3>2. [boot EXCEPT !.phase = "rolled_back", !.terminal = boot.baseline] \in Transition
        BY <3>1 DEF Transition
      <3> QED
        BY <1>0, <1>6, <3>2 DEF DrainEnds
    <2> QED
      BY <1>0, <1>1, <2>1, <2>2, <2>3, <2>4 DEF ActivationTypeOK
  <1>7. CASE UserStarts \/ UserEnds
    <2>1. left' \in Trouble
      BY <1>0, <1>7 DEF UserStarts, UserEnds, Trouble
    <2>2. /\ pins' \in 0 .. 1
          /\ UNCHANGED <<disk, memory, boot, gate, drain, patch, wire, reply, run>>
      BY <1>1, <1>7 DEF UserStarts, UserEnds
    <2>3. loaded' \in BOOLEAN
      BY <1>1, <1>7, Zenon DEF UserStarts, UserEnds
    <2> QED
      BY <1>0, <1>1, <2>1, <2>2, <2>3 DEF ActivationTypeOK
  <1>8. CASE PatchBegins
    <2>1. left' \in Trouble
      BY <1>0, <1>8 DEF PatchBegins, Trouble
    <2>2. /\ patch' \in {"other", "params", None} /\ loaded' \in BOOLEAN
          /\ UNCHANGED <<disk, memory, boot, gate, pins, drain, wire, reply, run>>
      BY <1>1, <1>8 DEF PatchBegins
    <2> QED
      BY <1>0, <1>1, <2>1, <2>2 DEF ActivationTypeOK
  <1>9. CASE PatchCommits
    <2>1. patch # None /\ patch' = None
          /\ UNCHANGED <<boot, gate, loaded, pins, drain, wire, reply, run, left>>
      BY <1>9 DEF PatchCommits
    <2>2. \/ /\ disk' = Edited(disk) /\ memory' = Edited(memory) /\ memory = disk
             /\ patch = "params" => memory.target # None
          \/ UNCHANGED <<disk, memory>>
      BY <1>9 DEF PatchCommits, DiskMatchesPrecedent
    <2>3. patch = "other" => Edited(disk) \in File
      <3>1. [disk EXCEPT !.other = 1 - @] \in File
        BY <1>0 DEF File
      <3> QED
        BY <3>1, Zenon DEF Edited
    <2>4. patch = "params" /\ disk.target # None => Edited(disk) \in File
      <3>1. ASSUME disk.target # None PROVE [disk EXCEPT !.target.params = 1 - @] \in File
        BY <1>0, <3>1 DEF File, Entry
      <3> QED
        BY <3>1, ActivationAssumption, Zenon DEF Edited
    <2>5. disk' \in File /\ memory' \in File
      BY <1>0, <2>1, <2>2, <2>3, <2>4
    <2> QED
      BY <1>0, <1>1, <2>1, <2>5 DEF ActivationTypeOK
  <1>10. CASE UNCHANGED vars
    BY <1>0, <1>1, <1>10 DEF vars, gateway, ActivationTypeOK
  <1> QED
    BY <1>2, <1>3, <1>4, <1>5, <1>6, <1>7, <1>8, <1>9, <1>10 DEF Next, Gateway, Others, Done

-----------------------------------------------------------------------------
(* What one call, one expiry and one drain do to the transition            *)

Leaves(c) ==
  /\ UNCHANGED gateway
  /\ \/ Answer(c, "refused")
     \/ /\ Answer(c, "ok") /\ Current(c)
        /\ \/ c.action = "activate" /\ Reopens(c)
           \/ c.action = "confirm" /\ ConfirmedAlready(c)
           \/ c.action = "rollback" /\ RolledBackAlready(c)
Begins(c) ==
  /\ c.action = "activate" /\ Current(c) /\ Opens(c) /\ Answer(c, "ok")
  /\ boot' # None /\ boot'.phase = "active" /\ boot'.baseline = disk
  /\ boot'.live = memory'.target /\ memory'.target # None /\ memory'.target.enabled
  /\ gate' = FALSE /\ UNCHANGED <<loaded, pins, drain, patch>>
Ends(c) ==
  /\ c.action = "confirm" /\ Current(c) /\ Confirms(c) /\ Answer(c, "ok")
  /\ boot' # None /\ boot'.phase = "confirmed" /\ boot'.baseline = boot.baseline
  /\ boot'.live = boot.live /\ memory' = disk
  /\ gate' = FALSE /\ UNCHANGED <<loaded, pins, drain, patch>>
Reverts(c) ==
  /\ c.action = "rollback" /\ Current(c) /\ RollsBack(c) /\ wire' = wire \ {c}
  /\ boot' # None /\ boot'.phase = "rolling_back" /\ boot'.baseline = boot.baseline
  /\ boot'.live = boot.live /\ memory' = disk
  /\ gate' = TRUE /\ drain' # None /\ drain'.lease = FALSE /\ drain'.live = c.live
  /\ UNCHANGED <<loaded, pins, patch, reply>>

LEMMA HandleMoves ==
  ASSUME ActivationTypeOK, NEW c \in wire, Activate(c) \/ Confirm(c) \/ Rollback(c)
  PROVE  Leaves(c) \/ Begins(c) \/ Ends(c) \/ Reverts(c)
  <1>0. /\ c \in Call /\ disk \in File /\ (disk.target # None => disk.target \in Entry)
        /\ boot \in Transition \cup {None}
    BY DEF ActivationTypeOK, File
  <1>1. CASE Activate(c)
    <2> DEFINE live == [disk.target EXCEPT !.enabled = TRUE, !.vram = c.vram]
               file == [disk EXCEPT !.target = live]
               state == [phase |-> "active", baseline |-> disk, live |-> live,
                         digest |-> c.digest, terminal |-> None]
    <2>1. \/ Leaves(c)
          \/ /\ c.action = "activate" /\ Current(c) /\ Opens(c) /\ Answer(c, "ok")
             /\ memory' = file /\ boot' = state /\ gate' = FALSE
             /\ UNCHANGED <<loaded, pins, drain, patch>>
      BY <1>1, Zenon DEF Activate, Leaves, Refuse
    <2>2. Current(c) => live \in Entry /\ live.enabled
      BY <1>0 DEF Current, Entry, Call
    <2> HIDE DEF live
    <2>3. Current(c) => file.target = live /\ live # None
      BY <1>0, <2>2, ActivationAssumption DEF File
    <2>4. Current(c) => state \in Transition
      BY <1>0, <2>2 DEF Transition, Call
    <2>5. state.phase = "active" /\ state.baseline = disk /\ state.live = live
      OBVIOUS
    <2>6. Current(c) => state # None
      BY <2>4, ActivationAssumption
    <2> HIDE DEF state, file
    <2> QED
      BY <2>1, <2>2, <2>3, <2>5, <2>6 DEF Begins
  <1>2. CASE Confirm(c)
    <2> DEFINE state == [boot EXCEPT !.phase = "confirmed", !.terminal = c.digest]
    <2>1. \/ Leaves(c)
          \/ /\ c.action = "confirm" /\ Current(c) /\ Confirms(c) /\ Answer(c, "ok")
             /\ memory' = disk /\ boot' = state /\ gate' = FALSE
             /\ UNCHANGED <<loaded, pins, drain, patch>>
      BY <1>2, Zenon DEF Confirm, Leaves, Refuse
    <2>2. Confirms(c) => /\ state \in Transition /\ state.phase = "confirmed"
                         /\ state.baseline = boot.baseline /\ state.live = boot.live
      <3>1. Confirms(c) => boot \in Transition
        BY <1>0 DEF Confirms, Phase
      <3> QED
        BY <1>0, <3>1 DEF Transition, Call
    <2>3. Confirms(c) => state # None
      BY <2>2, ActivationAssumption
    <2> HIDE DEF state
    <2> QED
      BY <2>1, <2>2, <2>3 DEF Ends
  <1>3. CASE Rollback(c)
    <2> DEFINE state == [boot EXCEPT !.phase = "rolling_back"]
               awaited == [lease |-> FALSE, live |-> c.live]
    <2>1. \/ Leaves(c)
          \/ /\ c.action = "rollback" /\ Current(c) /\ RollsBack(c) /\ wire' = wire \ {c}
             /\ memory' = disk /\ boot' = state /\ gate' = TRUE /\ drain' = awaited
             /\ UNCHANGED <<loaded, pins, patch, reply>>
      BY <1>3, Zenon DEF Rollback, Leaves, Refuse, Block
    <2>2. RollsBack(c) => /\ state \in Transition /\ state.phase = "rolling_back"
                          /\ state.baseline = boot.baseline /\ state.live = boot.live
      <3>1. RollsBack(c) => boot \in Transition
        BY <1>0 DEF RollsBack, Phase
      <3> QED
        BY <1>0, <3>1 DEF Transition
    <2>3. RollsBack(c) => state # None
      BY <2>2, ActivationAssumption
    <2>4. awaited \in Drain /\ awaited.lease = FALSE /\ awaited.live = c.live
      BY <1>0 DEF Drain, Call
    <2>5. awaited # None
      BY <2>4, ActivationAssumption
    <2> HIDE DEF state, awaited
    <2> QED
      BY <2>1, <2>2, <2>3, <2>4, <2>5 DEF Reverts
  <1> QED
    BY <1>1, <1>2, <1>3

LEMMA LeaseMoves ==
  ASSUME ActivationTypeOK, LeaseExpires
  PROVE  /\ drain = None /\ Phase("active") /\ memory' = boot.baseline /\ gate' = TRUE
         /\ boot' # None /\ boot'.phase = "rolling_back" /\ boot'.baseline = boot.baseline
         /\ boot'.live = boot.live
         /\ drain' # None /\ drain'.lease = TRUE /\ drain'.live = FALSE
         /\ UNCHANGED <<disk, loaded, pins, patch, wire, reply, run, left>>
  <1> DEFINE state == [boot EXCEPT !.phase = "rolling_back"]
             awaited == [lease |-> TRUE, live |-> FALSE]
  <1>1. boot \in Transition
    BY DEF ActivationTypeOK, LeaseExpires, Phase
  <1>2. /\ state \in Transition /\ state.phase = "rolling_back"
        /\ state.baseline = boot.baseline /\ state.live = boot.live
    BY <1>1 DEF Transition
  <1>3. awaited \in Drain /\ awaited.lease = TRUE /\ awaited.live = FALSE
    BY DEF Drain
  <1>4. state # None /\ awaited # None
    BY <1>2, <1>3, ActivationAssumption
  <1>5. /\ drain = None /\ Phase("active") /\ memory' = boot.baseline /\ gate' = TRUE
        /\ boot' = state /\ drain' = awaited
        /\ UNCHANGED <<disk, loaded, pins, patch, wire, reply, run, left>>
    BY Zenon DEF LeaseExpires, Block
  <1> HIDE DEF state, awaited
  <1> QED
    BY <1>2, <1>3, <1>4, <1>5

LEMMA DrainMoves ==
  ASSUME ActivationTypeOK, DrainEnds, Phase("rolling_back")
  PROVE  /\ drain # None /\ drain' = None
         /\ UNCHANGED <<disk, memory, pins, patch, wire, run, left>>
         /\ \/ DrainReply("refused") /\ UNCHANGED <<boot, gate>>
            \/ /\ drain.lease \/ disk = memory
               /\ DrainReply("ok") /\ gate' = FALSE /\ loaded' = FALSE
               /\ boot' # None /\ boot'.phase = "rolled_back"
               /\ boot'.baseline = boot.baseline /\ boot'.live = boot.live
  <1> DEFINE state == [boot EXCEPT !.phase = "rolled_back", !.terminal = boot.baseline]
  <1>1. boot \in Transition
    BY DEF ActivationTypeOK, Phase
  <1>2. /\ state \in Transition /\ state.phase = "rolled_back"
        /\ state.baseline = boot.baseline /\ state.live = boot.live
    BY <1>1 DEF Transition
  <1>3. state # None
    BY <1>2, ActivationAssumption
  <1>4. \/ DrainReply("refused") /\ UNCHANGED <<boot, gate>>
        \/ /\ drain.lease \/ disk = memory
           /\ DrainReply("ok") /\ gate' = FALSE /\ loaded' = FALSE /\ boot' = state
    BY Zenon DEF DrainEnds
  <1>5. drain # None /\ drain' = None /\ UNCHANGED <<disk, memory, pins, patch, wire, run, left>>
    BY Zenon DEF DrainEnds
  <1> HIDE DEF state
  <1> QED
    BY <1>2, <1>3, <1>4, <1>5

-----------------------------------------------------------------------------
(* The transition, the gate and the registry in memory                     *)

\* An open transition serves its entry, a rollback serves nothing, the drain
\* that holds the lock belongs to a rollback, and what a rollback would put
\* back is a disabled entry.
TransitionInv ==
  /\ Phase("active") => memory.target = boot.live /\ gate = FALSE
  /\ Phase("rolling_back") => gate = TRUE /\ ~Enabled(memory)
  /\ gate = TRUE => Phase("rolling_back")
  /\ drain # None => Phase("rolling_back")
  /\ boot # None => /\ boot.baseline.target # None /\ ~boot.baseline.target.enabled
                    /\ boot.live # None /\ boot.live.enabled

LEMMA InitTransition == Init => TransitionInv
  <1> SUFFICES ASSUME Init PROVE TransitionInv
    OBVIOUS
  <1>1. boot = None /\ gate = FALSE /\ drain = None
    BY Zenon DEF Init
  <1> QED
    BY <1>1 DEF TransitionInv, Phase

LEMMA NextTransition ==
  ASSUME ActivationTypeOK, TransitionInv, [Next]_vars
  PROVE  TransitionInv'
  <1>1. CASE UNCHANGED <<memory, boot, gate>> /\ drain' = None
    BY <1>1 DEF TransitionInv, Phase, Enabled
  <1>2. CASE UNCHANGED <<memory, boot, gate>> /\ (drain' = None <=> drain = None)
    BY <1>2 DEF TransitionInv, Phase, Enabled
  <1>3. CASE Applier
    <2>1. UNCHANGED <<memory, boot, gate, drain>>
      BY <1>3 DEF Applier, Start, WriteEntry, Publish, Calibrate, Provision, Smoke, Persist,
         AskConfirm, UndoOnDisk, UndoLive, Undone, Exit, ReceiveReply, CallFails, gateway
    <2> QED
      BY <1>2, <2>1
  <1>4. CASE GatewayRestart
    <2>1. boot' = None /\ gate' = FALSE /\ drain' = None
      BY <1>4 DEF GatewayRestart
    <2> QED
      BY <2>1 DEF TransitionInv, Phase
  <1>5. CASE LoseCall \/ LoseReply \/ Cancel \/ Crash
    <2>1. AbandonDrain => (drain' = None <=> drain = None)
      <3>1. drain # None => [drain EXCEPT !.live = FALSE] # None
        <4>1. drain # None => [drain EXCEPT !.live = FALSE] \in Drain
          BY DEF ActivationTypeOK, Drain
        <4> QED
          BY <4>1, ActivationAssumption
      <3> QED
        BY <3>1, Zenon DEF AbandonDrain
    <2>2. UNCHANGED <<memory, boot, gate>>
      BY <1>5 DEF LoseCall, LoseReply, Cancel, Crash, gateway
    <2>3. AbandonDrain \/ drain' = drain
      BY <1>5, Zenon DEF LoseCall, LoseReply, Cancel, Crash, gateway
    <2> QED
      BY <1>2, <2>1, <2>2, <2>3
  <1>6. CASE Handle
    <2>1. PICK c \in wire : Activate(c) \/ Confirm(c) \/ Rollback(c)
      BY <1>6 DEF Handle
    <2>2. CASE Leaves(c)
      BY <1>2, <2>2 DEF Leaves, gateway
    <2>3. CASE Begins(c)
      <3>1. drain = None
        BY <1>6 DEF Handle
      <3>2. disk.target # None /\ ~disk.target.enabled
        BY <2>3 DEF Begins, Opens, Current
      <3> QED
        BY <2>3, <3>1, <3>2 DEF Begins, TransitionInv, Phase
    <2>4. CASE Ends(c)
      <3>1. drain = None
        BY <1>6 DEF Handle
      <3>2. boot # None
        BY <2>4 DEF Ends, Confirms, Phase
      <3> QED
        BY <2>4, <3>1, <3>2 DEF Ends, TransitionInv, Phase
    <2>5. CASE Reverts(c)
      <3>1. ~disk.target.enabled /\ boot # None
        BY <2>5 DEF Reverts, RollsBack, Phase
      <3> QED
        BY <2>5, <3>1 DEF Reverts, TransitionInv, Phase, Enabled
    <2> QED
      BY <2>1, <2>2, <2>3, <2>4, <2>5, HandleMoves
  <1>7. CASE LeaseExpires
    <2>1. boot # None
      BY <1>7, LeaseMoves DEF Phase
    <2> QED
      BY <1>7, <2>1, LeaseMoves DEF TransitionInv, Phase, Enabled
  <1>8. CASE DrainEnds
    <2>1. Phase("rolling_back") /\ boot # None
      BY <1>8 DEF DrainEnds, TransitionInv, Phase
    <2>2. CASE UNCHANGED <<boot, gate>>
      BY <1>1, <1>8, <2>1, <2>2, DrainMoves
    <2>3. CASE ~UNCHANGED <<boot, gate>>
      BY <1>8, <2>1, <2>3, DrainMoves DEF TransitionInv, Phase
    <2> QED
      BY <2>2, <2>3
  <1>9. CASE UserStarts \/ UserEnds \/ PatchBegins
    BY <1>2, <1>9 DEF UserStarts, UserEnds, PatchBegins
  <1>10. CASE PatchCommits
    <2>1. UNCHANGED <<boot, gate, drain>> /\ (InTransition => memory' = memory)
      BY <1>10 DEF PatchCommits
    <2> QED
      BY <2>1 DEF TransitionInv, InTransition, Phase, Enabled
  <1>11. CASE UNCHANGED vars
    BY <1>2, <1>11 DEF vars, gateway
  <1> QED
    BY <1>3, <1>4, <1>5, <1>6, <1>7, <1>8, <1>9, <1>10, <1>11
       DEF Next, Mishap, Gateway, Others, Done

-----------------------------------------------------------------------------
(* The call the applier awaits                                             *)

Asks(c) ==
  \/ c.action = "activate" /\ At("activating")
  \/ c.action = "confirm" /\ At("confirming")
  \/ c.action = "rollback" /\ At("undoing")

\* At most one call or drain will answer the applier, it has not yet, and it
\* is the one the applier has sent.
CallsInv ==
  /\ \A c, d \in wire : c.live /\ d.live => c = d
  /\ \A c \in wire : c.live => reply = None /\ Asks(c)
  /\ drain # None /\ drain.live =>
       reply = None /\ At("undoing") /\ ~drain.lease /\ \A c \in wire : ~c.live

NoneLive == (\A c \in wire : ~c.live) /\ (drain # None => ~drain.live)

LEMMA QuietCalls == (NoneLive => CallsInv) /\ (NoneLive' => CallsInv')
  BY DEF NoneLive, CallsInv

LEMMA InitCalls == Init => CallsInv
  <1>1. Init => wire = {} /\ drain = None
    BY Zenon DEF Init
  <1> QED
    BY <1>1, QuietCalls DEF NoneLive

\* The applier waits, or nobody owes it an answer.
LEMMA QuietUnlessWaiting ==
  ASSUME CallsInv, reply # None \/ ~Waiting
  PROVE  NoneLive
  BY DEF CallsInv, NoneLive, Asks, Waiting, At

LEMMA AbandonedQuiet ==
  ASSUME ActivationTypeOK
  PROVE  /\ wire' = Abandon(wire) => \A c \in wire' : ~c.live
         /\ AbandonDrain => (drain' # None => ~drain'.live)
  <1>1. ASSUME wire' = Abandon(wire) PROVE \A c \in wire' : ~c.live
    BY <1>1 DEF ActivationTypeOK, Abandon, Call
  <1>2. ASSUME AbandonDrain, drain' # None PROVE ~drain'.live
    <2>1. drain # None => drain \in Drain /\ [drain EXCEPT !.live = FALSE].live = FALSE
      BY DEF ActivationTypeOK, Drain
    <2>2. drain # None /\ drain' = [drain EXCEPT !.live = FALSE]
      BY <1>2, Zenon DEF AbandonDrain
    <2> QED
      BY <2>1, <2>2
  <1> QED
    BY <1>1, <1>2

LEMMA SentCalls ==
  ASSUME ActivationTypeOK, NoneLive, UNCHANGED drain, NEW a, NEW v, Send(a, disk, v),
         \/ a = "activate" /\ At("activating")'
         \/ a = "confirm" /\ At("confirming")'
         \/ a = "rollback" /\ At("undoing")'
  PROVE  CallsInv'
  <1> DEFINE c == [action |-> a, digest |-> disk, vram |-> v, live |-> TRUE]
  <1>1. wire' = wire \cup {c} /\ reply' = None
    BY Zenon DEF Send
  <1>2. c.action = a
    OBVIOUS
  <1> HIDE DEF c
  <1>3. \A d \in wire' : d.live => d = c
    BY <1>1 DEF NoneLive
  <1> QED
    BY <1>1, <1>2, <1>3 DEF CallsInv, NoneLive, Asks

LEMMA NextCalls ==
  ASSUME ActivationTypeOK, TransitionInv, CallsInv, [Next]_vars
  PROVE  CallsInv'
  <1>1. CASE NoneLive /\ UNCHANGED <<wire, drain>>
    BY <1>1, QuietCalls DEF NoneLive
  <1>2. CASE UNCHANGED <<wire, drain, reply, run>>
    BY <1>2 DEF CallsInv, Asks, At
  <1>3. CASE Start \/ WriteEntry \/ Publish \/ Calibrate \/ Smoke \/ Persist \/ UndoOnDisk \/ Undone
               \/ Exit
    <2>1. ~Waiting
      BY <1>3 DEF Start, WriteEntry, Publish, Calibrate, Smoke, Persist, UndoOnDisk, Undone, Exit,
         At, Waiting
    <2>2. UNCHANGED <<wire, drain>>
      BY <1>3 DEF Start, WriteEntry, Publish, Calibrate, Smoke, Persist, UndoOnDisk, Undone, Exit,
         gateway
    <2> QED
      BY <1>1, <2>1, <2>2, QuietUnlessWaiting
  <1>4. CASE Provision
    <2>1. NoneLive
      BY <1>4, QuietUnlessWaiting DEF Provision, Waiting, At
    <2>2. UNCHANGED drain
      BY <1>4 DEF Provision, gateway
    <2>3. CASE UNCHANGED wire
      BY <1>1, <2>1, <2>2, <2>3
    <2>4. CASE /\ run' = [run EXCEPT !.pc = "activating", !.provisional = TRUE, !.awaiting = TRUE]
               /\ Send("activate", disk, TargetVram(disk.target))
      <3>1. At("activating")'
        BY <2>4 DEF ActivationTypeOK, Run, At
      <3> QED
        BY <2>1, <2>2, <2>4, <3>1, SentCalls
    <2> QED
      BY <1>4, <2>3, <2>4, Zenon DEF Provision
  <1>5. CASE AskConfirm
    <2>1. NoneLive
      BY <1>5, QuietUnlessWaiting DEF AskConfirm, Waiting, At
    <2>2. UNCHANGED drain
      BY <1>5 DEF AskConfirm, gateway
    <2>3. CASE UNCHANGED wire
      BY <1>1, <2>1, <2>2, <2>3
    <2>4. CASE Goto("confirming") /\ Send("confirm", disk, 0)
      <3>1. At("confirming")'
        BY <2>4 DEF ActivationTypeOK, Run, At, Goto
      <3> QED
        BY <2>1, <2>2, <2>4, <3>1, SentCalls
    <2> QED
      BY <1>5, <2>3, <2>4, Zenon DEF AskConfirm
  <1>6. CASE UndoLive
    <2>1. NoneLive
      BY <1>6, QuietUnlessWaiting DEF UndoLive, Waiting, At
    <2>2. UNCHANGED drain
      BY <1>6 DEF UndoLive, gateway
    <2>3. Goto("undoing") /\ Send("rollback", disk, 0)
      BY <1>6, Zenon DEF UndoLive
    <2>4. At("undoing")'
      BY <2>3 DEF ActivationTypeOK, Run, At, Goto
    <2> QED
      BY <2>1, <2>2, <2>3, <2>4, SentCalls
  <1>7. CASE ReceiveReply \/ LoseReply
    <2>1. reply # None
      BY <1>7 DEF ReceiveReply, LoseReply
    <2>2. UNCHANGED <<wire, drain>>
      BY <1>7 DEF ReceiveReply, LoseReply, gateway
    <2> QED
      BY <1>1, <2>1, <2>2, QuietUnlessWaiting
  <1>8. CASE CallFails
    <2>1. NoneLive
      BY <1>8 DEF CallFails, Pending, NoneLive
    <2>2. UNCHANGED <<wire, drain>>
      BY <1>8 DEF CallFails, gateway
    <2> QED
      BY <1>1, <2>1, <2>2
  <1>9. CASE LoseCall
    <2>1. CASE wire' = Abandon(wire) /\ AbandonDrain
      BY <2>1, AbandonedQuiet, QuietCalls DEF NoneLive
    <2>2. CASE (\E c \in wire : c.live) /\ wire' = {c \in wire : ~c.live} /\ UNCHANGED drain
      BY <2>2, QuietCalls DEF NoneLive, CallsInv
    <2> QED
      BY <1>9, <2>1, <2>2, Zenon DEF LoseCall
  <1>10. CASE Cancel \/ Crash
    <2>1. wire' = Abandon(wire) /\ AbandonDrain
      BY <1>10, Zenon DEF Cancel, Crash
    <2> QED
      BY <2>1, AbandonedQuiet, QuietCalls DEF NoneLive
  <1>11. CASE GatewayRestart
    <2>1. wire' = {} /\ drain' = None
      BY <1>11 DEF GatewayRestart
    <2> QED
      BY <2>1, QuietCalls DEF NoneLive
  <1>12. CASE Handle
    <2>1. PICK c \in wire : Activate(c) \/ Confirm(c) \/ Rollback(c)
      BY <1>12 DEF Handle
    <2>2. drain = None /\ UNCHANGED run
      BY <1>12 DEF Handle
    <2>3. CASE UNCHANGED drain /\ (Answer(c, "ok") \/ Answer(c, "refused"))
      BY <2>2, <2>3 DEF CallsInv, Answer, Asks, At
    <2>4. CASE Reverts(c)
      BY <2>2, <2>4 DEF CallsInv, Reverts, Asks, At
    <2> QED
      BY <2>1, <2>3, <2>4, HandleMoves DEF Leaves, Begins, Ends, gateway
  <1>13. CASE LeaseExpires
    BY <1>13, LeaseMoves DEF CallsInv, Asks, At
  <1>14. CASE DrainEnds
    <2>1. Phase("rolling_back")
      BY <1>14 DEF DrainEnds, TransitionInv
    <2> QED
      BY <1>14, <2>1, DrainMoves DEF CallsInv, Asks, At, DrainReply
  <1>15. CASE Others \/ UNCHANGED vars
    BY <1>2, <1>15 DEF Others, UserStarts, UserEnds, PatchBegins, PatchCommits, vars, gateway
  <1> QED
    BY <1>3, <1>4, <1>5, <1>6, <1>7, <1>8, <1>9, <1>10, <1>11, <1>12, <1>13, <1>14, <1>15
       DEF Next, Applier, Mishap, Gateway, Done

-----------------------------------------------------------------------------
(* The place of the applier in its plan and the file                       *)

\* What the applier is about to rename to models.yaml, to confirm it.
Enabling == At("publish") /\ run.next = "confirm"

\* An enabled draft rests on a recipe passed in this run; the file is enabled
\* when the gateway is asked to confirm it, and not before if this run opened
\* the model provisionally.
PlanInv ==
  /\ At("publish") => run.draft # None /\ run.next # None
  /\ Enabling => Enabled(run.draft) /\ run.smoked /\ run.draft.target.params = 0
  /\ At("publish") /\ Enabled(run.draft) => Enabling
  /\ At("persist") => run.smoked
  /\ At("write") \/ At("calibrate") \/ At("enable") \/ (At("publish") /\ run.next = "calibrate")
       => ~run.provisional
  /\ At("activating") \/ At("confirming") => run.provisional
  /\ At("confirm") \/ At("confirming") => Enabled(disk)
  /\ run.provisional /\ (At("activating") \/ At("smoke") \/ At("persist") \/ Enabling)
       => ~Enabled(disk)

\* How the parts of the applier's state move.
LEMMA RunMoves ==
  ASSUME ActivationTypeOK
  PROVE  /\ \A e \in Entry, n \in {"calibrate", "confirm", "undo_live"} :
              Rewrite(e, n) => /\ run'.pc = "publish" /\ run'.next = n /\ run'.draft # None
                               /\ run'.draft.target = e /\ run'.provisional = run.provisional
                               /\ run'.smoked = run.smoked /\ run'.outcome = run.outcome
         /\ \A p : Goto(p) => /\ run'.pc = p /\ run'.provisional = run.provisional
                              /\ run'.smoked = run.smoked /\ run'.outcome = run.outcome
         /\ Fail => run'.pc = "exit" /\ run'.outcome = "failed"
         /\ \A a : Compensate(a) => run'.pc = "undo" /\ run'.outcome = "failed"
         /\ \A o : run' = Idle(o) => run'.pc = "idle" /\ run'.outcome = o
  <1>0. run \in Run /\ disk \in File
    BY DEF ActivationTypeOK
  <1>1. ASSUME NEW e \in Entry, NEW n \in {"calibrate", "confirm", "undo_live"}, Rewrite(e, n)
        PROVE  /\ run'.pc = "publish" /\ run'.next = n /\ run'.draft # None
               /\ run'.draft.target = e /\ run'.provisional = run.provisional
               /\ run'.smoked = run.smoked /\ run'.outcome = run.outcome
    <2> DEFINE draft == [disk EXCEPT !.target = e]
    <2>1. draft \in File /\ draft.target = e /\ draft # None
      <3>1. draft \in File /\ draft.target = e
        BY <1>0 DEF File
      <3> QED
        BY <3>1, ActivationAssumption
    <2>2. run' = [run EXCEPT !.pc = "publish", !.next = n, !.draft = draft]
      BY <1>1, Zenon DEF Rewrite
    <2> HIDE DEF draft
    <2> QED
      BY <1>0, <2>1, <2>2 DEF Run
  <1>2. ASSUME NEW p, Goto(p)
        PROVE  /\ run'.pc = p /\ run'.provisional = run.provisional
               /\ run'.smoked = run.smoked /\ run'.outcome = run.outcome
    BY <1>0, <1>2 DEF Goto, Run
  <1>3. Fail => run'.pc = "exit" /\ run'.outcome = "failed"
    BY <1>0 DEF Fail, Run
  <1>4. ASSUME NEW a, Compensate(a) PROVE run'.pc = "undo" /\ run'.outcome = "failed"
    BY <1>0, <1>4 DEF Compensate, Run
  <1>5. ASSUME NEW o, run' = Idle(o) PROVE run'.pc = "idle" /\ run'.outcome = o
    BY <1>5 DEF Idle
  <1> QED
    BY <1>1, <1>2, <1>3, <1>4, <1>5

\* Away from the steps that rewrite the file or talk of it, nothing is owed.
Elsewhere == run.pc \in {"idle", "undo", "undo_live", "undoing", "undone", "exit"}

LEMMA ElsewherePlan == (Elsewhere => PlanInv) /\ (Elsewhere' => PlanInv')
  BY DEF Elsewhere, PlanInv, Enabling, At

LEMMA InitPlan == Init => PlanInv
  <1>1. Init => run = Idle("none")
    BY Zenon DEF Init
  <1> QED
    BY <1>1, ElsewherePlan DEF Elsewhere, Idle

LEMMA GoesElsewhere ==
  ASSUME ActivationTypeOK
  PROVE  /\ Fail \/ FailStep \/ run' \in {Idle("ok"), Idle("failed"), Idle("killed")} => Elsewhere'
         /\ \A p \in {"undo", "undo_live", "undoing", "undone", "exit"} : Goto(p) => Elsewhere'
         /\ \A a : Compensate(a) => Elsewhere'
  BY RunMoves DEF Elsewhere, FailStep

\* A call's answer: only the activation, when accepted, goes on.
LEMMA AnsweredMoves ==
  ASSUME ActivationTypeOK, NEW ok \in BOOLEAN, Answered(ok)
  PROVE  \/ Elsewhere'
         \/ ok /\ At("activating") /\ run'.pc = "smoke" /\ run'.provisional = run.provisional
  <1>1. At("undoing") /\ run' = [run EXCEPT !.pc = "undone",
                                  !.provisional = ~ok /\ run.provisional,
                                  !.awaiting = ~ok /\ run.awaiting] => Elsewhere'
    BY DEF ActivationTypeOK, Run, Elsewhere
  <1> QED
    BY <1>1, GoesElsewhere, RunMoves DEF Answered

\* An administrator's edit touches neither what is enabled nor what is not.
LEMMA CommitKeepsEnabled ==
  ASSUME ActivationTypeOK, PatchCommits
  PROVE  /\ Enabled(disk') <=> Enabled(disk)
         /\ Enabled(memory') <=> Enabled(memory)
         /\ memory.target = disk.target => memory'.target = disk'.target
  <1>0. /\ disk \in File /\ patch \in {"other", "params", None}
        /\ (disk.target # None => disk.target \in Entry)
    BY DEF ActivationTypeOK, File
  <1>1. \/ /\ disk' = Edited(disk) /\ memory' = Edited(disk) /\ memory = disk /\ patch # None
           /\ patch = "params" => disk.target # None
        \/ UNCHANGED <<disk, memory>>
    BY DEF PatchCommits, DiskMatchesPrecedent
  <1>2. ASSUME patch = "other" PROVE Edited(disk).target = disk.target
    <2>1. [disk EXCEPT !.other = 1 - @].target = disk.target
      BY <1>0 DEF File
    <2> QED
      BY <1>2, <2>1, Zenon DEF Edited
  <1>3. ASSUME patch = "params", disk.target # None
        PROVE  Edited(disk).target # None /\ Edited(disk).target.enabled = disk.target.enabled
    <2> DEFINE file == [disk EXCEPT !.target.params = 1 - @]
    <2>1. file.target \in Entry /\ file.target.enabled = disk.target.enabled
      BY <1>0, <1>3 DEF File, Entry
    <2>2. Edited(disk) = file
      BY <1>3, ActivationAssumption, Zenon DEF Edited
    <2> HIDE DEF file
    <2> QED
      BY <2>1, <2>2, ActivationAssumption
  <1> QED
    BY <1>0, <1>1, <1>2, <1>3 DEF Enabled

LEMMA NextPlan ==
  ASSUME ActivationTypeOK, PlanInv, [Next]_vars
  PROVE  PlanInv'
  <1>0. run \in Run /\ disk \in File /\ (disk.target # None => disk.target \in Entry)
    BY DEF ActivationTypeOK, File
  <1>1. CASE Elsewhere'
    BY <1>1, ElsewherePlan
  <1>2. CASE UNCHANGED run /\ (Enabled(disk') <=> Enabled(disk))
    BY <1>2 DEF PlanInv, Enabling, At
  <1>3. CASE Start
    <2>1. run' = [Idle("none") EXCEPT !.pc = "write"]
      BY <1>3, Zenon DEF Start
    <2>2. Idle("none") \in Run /\ Idle("none").provisional = FALSE
      BY DEF Idle, Run
    <2>3. run'.pc = "write" /\ run'.provisional = FALSE
      BY <2>1, <2>2 DEF Run
    <2> QED
      BY <2>3 DEF PlanInv, Enabling, At
  <1>4. CASE WriteEntry
    <2>1. ~run.provisional
      BY <1>4 DEF WriteEntry, PlanInv
    <2>2. CASE Rewrite(Generated, "calibrate")
      <3>1. Generated \in Entry /\ ~Generated.enabled
        BY ActivationAssumption DEF Generated, Entry
      <3>2. /\ run'.pc = "publish" /\ run'.next = "calibrate" /\ run'.draft # None
            /\ run'.draft.target = Generated /\ run'.provisional = run.provisional
        BY <2>2, <3>1, RunMoves
      <3>3. ~Enabled(run'.draft)
        BY <3>1, <3>2 DEF Enabled
      <3> QED
        BY <2>1, <3>2, <3>3, ActivationAssumption DEF PlanInv, Enabling, At
    <2>3. CASE Goto("calibrate")
      BY <2>1, <2>3, RunMoves DEF PlanInv, Enabling, At
    <2> QED
      BY <1>1, <1>4, <2>2, <2>3, GoesElsewhere DEF WriteEntry
  <1>5. CASE Publish
    <2>1. run' = [run EXCEPT !.pc = run.next, !.draft = None, !.next = None]
      BY <1>5 DEF Publish
    <2>2. /\ run'.pc = run.next /\ run'.provisional = run.provisional
          /\ run.next \in {"calibrate", "confirm", "undo_live"} /\ disk' = run.draft
      BY <1>0, <1>5, <2>1 DEF Publish, Run, PlanInv
    <2> QED
      BY <1>5, <2>2 DEF Publish, PlanInv, Enabling, At
  <1>6. CASE Calibrate
    <2>1. ~run.provisional
      BY <1>6 DEF Calibrate, PlanInv
    <2>2. CASE Goto("enable")
      BY <2>1, <2>2, RunMoves DEF PlanInv, Enabling, At
    <2> QED
      BY <1>1, <1>6, <2>2, GoesElsewhere DEF Calibrate
  <1>7. CASE Provision
    <2>1. ~run.provisional
      BY <1>7 DEF Provision, PlanInv
    <2>2. CASE run' = [run EXCEPT !.pc = "smoke", !.awaiting = TRUE]
      <3>1. run'.pc = "smoke" /\ run'.provisional = run.provisional
        BY <1>0, <2>2 DEF Run
      <3> QED
        BY <2>1, <3>1 DEF PlanInv, Enabling, At
    <2>3. CASE /\ run' = [run EXCEPT !.pc = "activating", !.provisional = TRUE, !.awaiting = TRUE]
               /\ ~disk.target.enabled /\ UNCHANGED disk
      <3>1. run'.pc = "activating" /\ run'.provisional = TRUE
        BY <1>0, <2>3 DEF Run
      <3> QED
        BY <2>3, <3>1 DEF PlanInv, Enabling, At, Enabled
    <2> QED
      BY <1>1, <1>7, <2>2, <2>3, GoesElsewhere, Zenon DEF Provision
  <1>8. CASE Smoke
    <2>1. CASE run' = [run EXCEPT !.pc = "persist", !.smoked = TRUE]
      <3>1. run'.pc = "persist" /\ run'.provisional = run.provisional /\ run'.smoked = TRUE
        BY <1>0, <2>1 DEF Run
      <3> QED
        BY <1>8, <3>1 DEF Smoke, PlanInv, Enabling, At
    <2> QED
      BY <1>1, <1>8, <2>1, GoesElsewhere, Zenon DEF Smoke
  <1>9. CASE Persist
    <2> DEFINE entry == [disk.target EXCEPT !.enabled = TRUE, !.vram = TargetVram(disk.target)]
    <2>1. CASE /\ Rewrite(entry, "confirm")
               /\ disk.target # None /\ CheckCalibration(disk.target) /\ UNCHANGED disk
      <3>1. TargetVram(disk.target) \in Nat
        BY <1>0, <2>1 DEF TargetVram, ActivationTypeOK, Trouble, Entry
      <3>2. entry \in Entry /\ entry.enabled /\ entry.params = disk.target.params
        BY <1>0, <2>1, <3>1 DEF Entry
      <3> HIDE DEF entry
      <3>3. /\ run'.pc = "publish" /\ run'.next = "confirm" /\ run'.draft # None
            /\ run'.draft.target = entry /\ run'.provisional = run.provisional
            /\ run'.smoked = run.smoked
        BY <2>1, <3>2, RunMoves
      <3>4. At("persist")
        BY <1>9 DEF Persist
      <3>5. Enabled(run'.draft) /\ run'.draft.target.params = 0
        BY <2>1, <3>2, <3>3, ActivationAssumption DEF Enabled, CheckCalibration
      <3>6. run'.smoked /\ (run'.provisional => ~Enabled(disk'))
        BY <2>1, <3>3, <3>4 DEF PlanInv
      <3> QED
        BY <3>3, <3>5, <3>6, ActivationAssumption DEF PlanInv, Enabling, At
    <2>2. \/ FailStep \/ Compensate("step") \/ run' = Idle("ok")
          \/ /\ Rewrite(entry, "confirm")
             /\ disk.target # None /\ CheckCalibration(disk.target) /\ UNCHANGED disk
      BY <1>9, Zenon DEF Persist
    <2> HIDE DEF entry
    <2> QED
      BY <1>1, <2>1, <2>2, GoesElsewhere
  <1>10. CASE AskConfirm
    <2>1. CASE run.provisional /\ Goto("confirming")
      <3>1. run'.pc = "confirming" /\ run'.provisional = run.provisional
        BY <2>1, RunMoves
      <3> QED
        BY <1>10, <2>1, <3>1 DEF AskConfirm, PlanInv, Enabling, At
    <2> QED
      BY <1>1, <1>10, <2>1, GoesElsewhere DEF AskConfirm
  <1>11. CASE UndoOnDisk
    <2> DEFINE entry == [disk.target EXCEPT !.enabled = FALSE]
    <2>1. CASE Rewrite(entry, "undo_live") /\ disk.target # None
      <3>1. entry \in Entry /\ ~entry.enabled
        BY <1>0, <2>1 DEF Entry
      <3> HIDE DEF entry
      <3>2. /\ run'.pc = "publish" /\ run'.next = "undo_live" /\ run'.draft # None
            /\ run'.draft.target = entry
        BY <2>1, <3>1, RunMoves
      <3>3. ~Enabled(run'.draft)
        BY <3>1, <3>2 DEF Enabled
      <3> QED
        BY <3>2, <3>3, ActivationAssumption DEF PlanInv, Enabling, At
    <2>2. \/ Goto("undone") \/ Goto("undo_live")
          \/ Rewrite(entry, "undo_live") /\ disk.target # None
      BY <1>11, Zenon DEF UndoOnDisk
    <2> HIDE DEF entry
    <2> QED
      BY <1>1, <2>1, <2>2, GoesElsewhere
  <1>12. CASE UndoLive
    BY <1>1, <1>12, GoesElsewhere DEF UndoLive
  <1>13. CASE Undone
    <2>1. run' = [run EXCEPT !.pc = "exit"] => Elsewhere'
      BY <1>0 DEF Run, Elsewhere
    <2> QED
      BY <1>1, <1>13, <2>1, GoesElsewhere DEF Undone
  <1>14. CASE Exit
    <2>1. run' = Idle(run.outcome) => Elsewhere'
      BY DEF Idle, Elsewhere
    <2> QED
      BY <1>1, <1>14, <2>1, GoesElsewhere DEF Exit
  <1>15. CASE UNCHANGED disk /\ \E ok \in BOOLEAN : Answered(ok)
    <2>1. PICK ok \in BOOLEAN : Answered(ok)
      BY <1>15
    <2>2. \/ Elsewhere'
          \/ ok /\ At("activating") /\ run'.pc = "smoke" /\ run'.provisional = run.provisional
      BY <2>1, AnsweredMoves
    <2> QED
      BY <1>1, <1>15, <2>2 DEF PlanInv, Enabling, At
  <1>16. CASE ReceiveReply \/ CallFails \/ LoseCall
    BY <1>15, <1>16 DEF ReceiveReply, CallFails, LoseCall
  <1>17. CASE Cancel \/ Crash
    BY <1>1, <1>17, GoesElsewhere DEF Cancel, Crash
  <1>18. CASE LoseReply \/ GatewayRestart \/ Gateway \/ UserStarts \/ UserEnds \/ PatchBegins
    <2>1. UNCHANGED <<run, disk>>
      BY <1>18 DEF LoseReply, GatewayRestart, Gateway, Handle, LeaseExpires, DrainEnds,
         UserStarts, UserEnds, PatchBegins
    <2> QED
      BY <1>2, <2>1
  <1>19. CASE PatchCommits
    <2>1. UNCHANGED run
      BY <1>19 DEF PatchCommits
    <2> QED
      BY <1>2, <1>19, <2>1, CommitKeepsEnabled
  <1>20. CASE UNCHANGED vars
    BY <1>2, <1>20 DEF vars
  <1> QED
    BY <1>3, <1>4, <1>5, <1>6, <1>7, <1>8, <1>9, <1>10, <1>11, <1>12, <1>13, <1>14, <1>16, <1>17,
       <1>18, <1>19, <1>20 DEF Next, Applier, Mishap, Others, Done

-----------------------------------------------------------------------------
(* A confirmation and the registry in memory                               *)

\* A run that has opened the model finds no confirmation but its own; once
\* confirmed, the gateway holds what the file says, and says yes to nothing
\* else.
ConfirmInv ==
  /\ run.provisional /\ (At("smoke") \/ At("persist") \/ Enabling) => ~Phase("confirmed")
  /\ At("activating") /\ reply = "ok" => ~Phase("confirmed")
  /\ run.provisional /\ (At("confirm") \/ At("confirming")) /\ Phase("confirmed") =>
       memory.target = disk.target
  /\ At("confirming") /\ reply = "ok" =>
       memory.target = disk.target /\ gate = FALSE /\ ~InTransition

LEMMA ElsewhereConfirm == (Elsewhere => ConfirmInv) /\ (Elsewhere' => ConfirmInv')
  BY DEF Elsewhere, ConfirmInv, Enabling, At

LEMMA InitConfirm == Init => ConfirmInv
  <1>1. Init => run = Idle("none")
    BY Zenon DEF Init
  <1> QED
    BY <1>1, ElsewhereConfirm DEF Elsewhere, Idle

\* The steps of the applier.
LEMMA ApplierConfirm ==
  ASSUME ActivationTypeOK, CallsInv, PlanInv, ConfirmInv, Applier
  PROVE  ConfirmInv'
  <1>0. run \in Run /\ disk \in File /\ (disk.target # None => disk.target \in Entry)
    BY DEF ActivationTypeOK, File
  <1>1. CASE Elsewhere'
    BY <1>1, ElsewhereConfirm
  <1>2. UNCHANGED <<memory, boot, gate>>
    BY DEF Applier, Start, WriteEntry, Publish, Calibrate, Provision, Smoke, Persist,
       AskConfirm, UndoOnDisk, UndoLive, Undone, Exit, ReceiveReply, CallFails, gateway
  <1>3. CASE run'.pc \in {"write", "calibrate", "enable"}
    BY <1>3 DEF ConfirmInv, Enabling, At
  <1>4. CASE run'.pc = "publish" /\ run'.next # "confirm"
    BY <1>4 DEF ConfirmInv, Enabling, At
  <1>5. CASE Start
    <2>1. run' = [Idle("none") EXCEPT !.pc = "write"]
      BY <1>5, Zenon DEF Start
    <2>2. Idle("none") \in Run
      BY DEF Idle, Run
    <2> QED
      BY <1>3, <2>1, <2>2 DEF Run
  <1>6. CASE WriteEntry
    <2>1. Generated \in Entry
      BY ActivationAssumption DEF Generated, Entry
    <2> QED
      BY <1>1, <1>3, <1>4, <1>6, <2>1, RunMoves, GoesElsewhere DEF WriteEntry
  <1>7. CASE Publish
    <2>1. run' = [run EXCEPT !.pc = run.next, !.draft = None, !.next = None]
      BY <1>7 DEF Publish
    <2>2. /\ run'.pc = run.next /\ run'.provisional = run.provisional
          /\ run.next \in {"calibrate", "confirm", "undo_live"} /\ UNCHANGED reply
      BY <1>0, <1>7, <2>1 DEF Publish, Run, PlanInv
    <2> QED
      BY <1>2, <1>7, <2>2 DEF Publish, ConfirmInv, Enabling, At, Phase
  <1>8. CASE Calibrate
    BY <1>1, <1>3, <1>8, RunMoves, GoesElsewhere DEF Calibrate
  <1>9. CASE Provision
    <2>1. ~run.provisional
      BY <1>9 DEF Provision, PlanInv
    <2>2. CASE run' = [run EXCEPT !.pc = "smoke", !.awaiting = TRUE]
      <3>1. run'.pc = "smoke" /\ run'.provisional = run.provisional
        BY <1>0, <2>2 DEF Run
      <3> QED
        BY <2>1, <3>1 DEF ConfirmInv, Enabling, At
    <2>3. CASE /\ run' = [run EXCEPT !.pc = "activating", !.provisional = TRUE, !.awaiting = TRUE]
               /\ reply' = None
      <3>1. run'.pc = "activating"
        BY <1>0, <2>3 DEF Run
      <3> QED
        BY <2>3, <3>1, ActivationAssumption DEF ConfirmInv, Enabling, At
    <2> QED
      BY <1>1, <1>9, <2>2, <2>3, GoesElsewhere, Zenon DEF Provision, Send
  <1>10. CASE Smoke
    <2>1. CASE run' = [run EXCEPT !.pc = "persist", !.smoked = TRUE]
      <3>1. run'.pc = "persist" /\ run'.provisional = run.provisional
        BY <1>0, <2>1 DEF Run
      <3> QED
        BY <1>2, <1>10, <3>1 DEF Smoke, ConfirmInv, Enabling, At, Phase
    <2> QED
      BY <1>1, <1>10, <2>1, GoesElsewhere, Zenon DEF Smoke
  <1>11. CASE Persist
    <2> DEFINE entry == [disk.target EXCEPT !.enabled = TRUE, !.vram = TargetVram(disk.target)]
    <2>1. CASE Rewrite(entry, "confirm") /\ disk.target # None
      <3>1. TargetVram(disk.target) \in Nat
        BY <1>0, <2>1 DEF TargetVram, ActivationTypeOK, Trouble, Entry
      <3>2. entry \in Entry
        BY <1>0, <2>1, <3>1 DEF Entry
      <3> HIDE DEF entry
      <3>3. run'.pc = "publish" /\ run'.provisional = run.provisional
        BY <2>1, <3>2, RunMoves
      <3>4. At("persist")
        BY <1>11 DEF Persist
      <3> QED
        BY <1>2, <3>3, <3>4 DEF ConfirmInv, Enabling, At, Phase
    <2>2. \/ FailStep \/ Compensate("step") \/ run' = Idle("ok")
          \/ Rewrite(entry, "confirm") /\ disk.target # None
      BY <1>11, Zenon DEF Persist
    <2> HIDE DEF entry
    <2> QED
      BY <1>1, <2>1, <2>2, GoesElsewhere
  <1>12. CASE AskConfirm
    <2>1. CASE run.provisional /\ Goto("confirming") /\ reply' = None /\ UNCHANGED disk
      <3>1. run'.pc = "confirming" /\ run'.provisional = run.provisional
        BY <2>1, RunMoves
      <3>2. At("confirm")
        BY <1>12 DEF AskConfirm
      <3> QED
        BY <1>2, <2>1, <3>1, <3>2, ActivationAssumption DEF ConfirmInv, Enabling, At, Phase
    <2>2. \/ run.provisional /\ Goto("confirming") /\ reply' = None /\ UNCHANGED disk
          \/ run' = Idle("ok")
      BY <1>12, Zenon DEF AskConfirm, Send
    <2> QED
      BY <1>1, <2>1, <2>2, GoesElsewhere
  <1>13. CASE UndoOnDisk
    <2> DEFINE entry == [disk.target EXCEPT !.enabled = FALSE]
    <2>1. CASE Rewrite(entry, "undo_live") /\ disk.target # None
      <3>1. entry \in Entry
        BY <1>0, <2>1 DEF Entry
      <3> HIDE DEF entry
      <3> QED
        BY <1>4, <2>1, <3>1, RunMoves
    <2>2. \/ Goto("undone") \/ Goto("undo_live")
          \/ Rewrite(entry, "undo_live") /\ disk.target # None
      BY <1>13, Zenon DEF UndoOnDisk
    <2> HIDE DEF entry
    <2> QED
      BY <1>1, <2>1, <2>2, GoesElsewhere
  <1>14. CASE UndoLive
    BY <1>1, <1>14, GoesElsewhere DEF UndoLive
  <1>15. CASE Undone
    <2>1. run' = [run EXCEPT !.pc = "exit"] => Elsewhere'
      BY <1>0 DEF Run, Elsewhere
    <2> QED
      BY <1>1, <1>15, <2>1, GoesElsewhere DEF Undone
  <1>16. CASE Exit
    <2>1. run' = Idle(run.outcome) => Elsewhere'
      BY DEF Idle, Elsewhere
    <2> QED
      BY <1>1, <1>16, <2>1, GoesElsewhere DEF Exit
  <1>17. CASE ReceiveReply
    <2>1. \/ Elsewhere'
          \/ /\ reply = "ok" /\ At("activating") /\ run'.pc = "smoke"
             /\ run'.provisional = run.provisional
      BY <1>17, AnsweredMoves DEF ReceiveReply
    <2> QED
      BY <1>1, <1>2, <2>1 DEF ConfirmInv, Enabling, At, Phase
  <1>18. CASE CallFails
    BY <1>1, <1>18, AnsweredMoves DEF CallFails
  <1> QED
    BY <1>5, <1>6, <1>7, <1>8, <1>9, <1>10, <1>11, <1>12, <1>13, <1>14, <1>15, <1>16, <1>17, <1>18
       DEF Applier

\* The steps of the gateway.
LEMMA GatewayConfirm ==
  ASSUME ActivationTypeOK, TransitionInv, CallsInv, PlanInv, ConfirmInv, Gateway
  PROVE  ConfirmInv'
  <1>1. UNCHANGED <<disk, run>>
    BY DEF Gateway, Handle, LeaseExpires, DrainEnds
  <1>2. CASE Handle
    <2>1. PICK c \in wire : Activate(c) \/ Confirm(c) \/ Rollback(c)
      BY <1>2 DEF Handle
    <2>2. Answer(c, "refused") => (reply' = "ok" => reply = "ok") 
      BY DEF Answer
    <2>3. Answer(c, "ok") /\ reply' = "ok" /\ reply # "ok" => c.live /\ Asks(c)
      BY DEF Answer, CallsInv
    <2>4. Current(c) /\ (Opens(c) \/ RollsBack(c) \/ (boot # None /\ disk.target = boot.baseline.target))
            => ~Enabled(disk)
      BY DEF Current, Opens, RollsBack, Enabled, TransitionInv
    <2>5. CASE Leaves(c)
      <3>1. UNCHANGED <<memory, boot, gate>>
        BY <2>5 DEF Leaves, gateway
      <3>2. CASE ~(reply' = "ok" /\ reply # "ok")
        BY <1>1, <3>1, <3>2 DEF ConfirmInv, Enabling, At, Phase, InTransition
      <3>3. CASE reply' = "ok" /\ reply # "ok"
        <4>1. c.live /\ Asks(c) /\ Current(c)
              /\ \/ c.action = "activate" /\ Reopens(c)
                 \/ c.action = "confirm" /\ ConfirmedAlready(c)
                 \/ c.action = "rollback" /\ RolledBackAlready(c)
          BY <2>2, <2>3, <2>5, <3>3 DEF Leaves
        <4>2. CASE c.action = "activate" /\ Reopens(c)
          BY <1>1, <3>1, <4>1, <4>2 DEF ConfirmInv, Enabling, At, Phase, InTransition, Reopens, Asks
        <4>3. CASE c.action = "confirm" /\ ConfirmedAlready(c)
          BY <1>1, <3>1, <4>1, <4>3
             DEF ConfirmInv, Enabling, At, Phase, InTransition, ConfirmedAlready, Asks, PlanInv,
                 TransitionInv, ActivationTypeOK
        <4>4. CASE c.action = "rollback"
          BY <1>1, <3>1, <4>1, <4>4 DEF ConfirmInv, Enabling, At, Phase, Asks
        <4> QED
          BY <4>1, <4>2, <4>3, <4>4
      <3> QED
        BY <3>2, <3>3
    <2>6. CASE Begins(c)
      <3>1. ~Enabled(disk)
        BY <2>4, <2>6 DEF Begins
      <3> QED
        BY <1>1, <2>6, <3>1 DEF Begins, ConfirmInv, Enabling, At, Phase, InTransition, PlanInv
    <2>7. CASE Ends(c)
      <3>1. Enabled(disk) /\ memory' = disk /\ boot'.phase = "confirmed"
        BY <2>7 DEF Ends, Confirms, Current, Enabled, TransitionInv, Phase
      <3> QED
        BY <1>1, <2>7, <3>1 DEF Ends, ConfirmInv, Enabling, At, Phase, InTransition, PlanInv
    <2>8. CASE Reverts(c)
      <3>1. ~Enabled(disk)
        BY <2>4, <2>8 DEF Reverts
      <3> QED
        BY <1>1, <2>8, <3>1 DEF Reverts, ConfirmInv, Enabling, At, Phase, InTransition, PlanInv
    <2> QED
      BY <2>1, <2>5, <2>6, <2>7, <2>8, HandleMoves
  <1>3. CASE LeaseExpires
    BY <1>1, <1>3, LeaseMoves DEF ConfirmInv, Enabling, At, Phase, InTransition
  <1>4. CASE DrainEnds
    <2>1. Phase("rolling_back") /\ InTransition
      BY <1>4 DEF DrainEnds, TransitionInv, InTransition, Phase
    <2>2. boot'.phase \in {"rolling_back", "rolled_back"}
      BY <1>4, <2>1, DrainMoves DEF Phase
    <2>3. ~(At("confirming") /\ reply' = "ok")
      <3>1. SUFFICES ASSUME At("confirming"), reply' = "ok" PROVE FALSE
        OBVIOUS
      <3>2. reply # "ok"
        BY <2>1, <3>1 DEF ConfirmInv
      <3>3. drain.live /\ At("undoing")
        BY <1>4, <2>1, <3>1, <3>2, DrainMoves DEF DrainReply, CallsInv
      <3> QED
        BY <3>1, <3>3 DEF At
    <2> QED
      BY <1>1, <2>2, <2>3 DEF ConfirmInv, Enabling, At, Phase
  <1> QED
    BY <1>2, <1>3, <1>4 DEF Gateway

LEMMA NextConfirm ==
  ASSUME ActivationTypeOK, TransitionInv, CallsInv, PlanInv, ConfirmInv, [Next]_vars
  PROVE  ConfirmInv'
  <1>1. CASE Elsewhere'
    BY <1>1, ElsewhereConfirm
  <1>2. CASE /\ UNCHANGED <<run, disk, memory, boot, gate>>
             /\ reply' = reply \/ reply' = None
    BY <1>2, ActivationAssumption DEF ConfirmInv, Enabling, At, Phase, InTransition
  <1>3. CASE LoseCall
    <2>1. \/ Elsewhere'
          \/ FALSE /\ At("activating")
      BY <1>3, AnsweredMoves DEF LoseCall
    <2> QED
      BY <1>1, <2>1
  <1>4. CASE LoseReply
    BY <1>2, <1>4 DEF LoseReply, gateway
  <1>5. CASE Cancel \/ Crash
    BY <1>1, <1>5, GoesElsewhere DEF Cancel, Crash
  <1>6. CASE GatewayRestart
    BY <1>6 DEF GatewayRestart, ConfirmInv, Enabling, At, Phase, InTransition
  <1>7. CASE UserStarts \/ UserEnds \/ PatchBegins
    BY <1>2, <1>7 DEF UserStarts, UserEnds, PatchBegins
  <1>8. CASE PatchCommits
    <2>1. UNCHANGED <<run, boot, gate, reply>>
      BY <1>8 DEF PatchCommits
    <2> QED
      BY <1>8, <2>1, CommitKeepsEnabled DEF ConfirmInv, Enabling, At, Phase, InTransition
  <1>9. CASE UNCHANGED vars
    BY <1>2, <1>9 DEF vars, gateway
  <1> QED
    BY <1>3, <1>4, <1>5, <1>6, <1>7, <1>8, <1>9, ApplierConfirm, GatewayConfirm
       DEF Next, Mishap, Others, Done

-----------------------------------------------------------------------------
(* The theorems                                                            *)

ActivationInv == ActivationTypeOK /\ TransitionInv /\ CallsInv /\ PlanInv /\ ConfirmInv

LEMMA ActivationInvariant == Spec => []ActivationInv
  <1>1. Init => ActivationInv
    BY InitTyped, InitTransition, InitCalls, InitPlan, InitConfirm DEF ActivationInv
  <1>2. ActivationInv /\ [Next]_vars => ActivationInv'
    <2>1. SUFFICES ASSUME ActivationInv, [Next]_vars PROVE ActivationInv'
      OBVIOUS
    <2>2. /\ At("publish") => run.next # None /\ run.draft # None
          /\ drain # None => boot # None
      BY <2>1 DEF ActivationInv, PlanInv, TransitionInv, Phase
    <2>3. ActivationTypeOK'
      BY <2>1, <2>2, NextTyped DEF ActivationInv
    <2> QED
      BY <2>1, <2>3, NextTransition, NextCalls, NextPlan, NextConfirm DEF ActivationInv
  <1> QED
    BY <1>1, <1>2, PTL DEF Spec

\* An open transition serves exactly the calibrated entry, a rollback under way
\* serves nothing, and the gate is closed only by a rollback that is not over:
\* whatever call, lease, restart or edit comes first (admin.py, bootstrap_sync
\* and _bootstrap_lease_watchdog).
THEOREM TransitionAlwaysGoverns == Spec => []PhaseGoverns
  <1>1. ActivationInv => PhaseGoverns
    BY DEF ActivationInv, TransitionInv, ActivationTypeOK, PhaseGoverns
  <1> QED
    BY <1>1, ActivationInvariant, PTL

\* models.yaml turns to enabled only when the applier renames a draft that
\* rests on a recipe passed in this run (registry_writer.py, enable_model_entry).
THEOREM FileEnabledOnProof == Spec => EnabledOnProof
  <1>1. ASSUME ActivationInv, [Next]_vars, ~Enabled(disk), Enabled(disk')
        PROVE  run.smoked /\ disk'.target.params = 0
    <2>1. CASE Publish
      BY <1>1, <2>1 DEF Publish, ActivationInv, PlanInv, Enabling
    <2>2. CASE PatchCommits
      BY <1>1, <2>2, CommitKeepsEnabled DEF ActivationInv
    <2>3. CASE ~Publish /\ ~PatchCommits
      <3>1. UNCHANGED disk
        BY <1>1, <2>3 DEF Next, Applier, Start, WriteEntry, Calibrate, Provision, Smoke, Persist,
           AskConfirm, UndoOnDisk, UndoLive, Undone, Exit, ReceiveReply, CallFails, Mishap,
           LoseCall, LoseReply, Cancel, Crash, GatewayRestart, Gateway, Handle, LeaseExpires,
           DrainEnds, Others, UserStarts, UserEnds, PatchBegins, Done, vars
      <3> QED
        BY <1>1, <3>1
    <2> QED
      BY <2>1, <2>2, <2>3
  <1>2. ActivationInv /\ [Next]_vars =>
          [~Enabled(disk) /\ Enabled(disk') => run.smoked /\ disk'.target.params = 0]_vars
    BY <1>1
  <1> QED
    BY <1>2, ActivationInvariant, PTL DEF Spec, EnabledOnProof

\* Where a plan can come to its end.
LEMMA DoneMoves ==
  ASSUME ActivationInv, [Next]_vars, run.outcome # "ok", run'.outcome = "ok"
  PROVE  \/ Enabled(disk) /\ ~run.provisional
         \/ At("confirming") /\ reply = "ok"
  <1>0. ActivationTypeOK /\ run \in Run /\ disk \in File
        /\ (disk.target # None => disk.target \in Entry)
    BY DEF ActivationInv, ActivationTypeOK, File
  <1>1. \A p : ~Goto(p)
    BY <1>0, RunMoves
  <1>2. ~Fail /\ ~FailStep /\ \A a : ~Compensate(a)
    BY <1>0, RunMoves DEF FailStep
  <1>3. \A e \in Entry, n \in {"calibrate", "confirm", "undo_live"} : ~Rewrite(e, n)
    BY <1>0, RunMoves
  <1>4. run' # Idle("failed") /\ run' # Idle("killed") /\ run' # Idle(run.outcome)
    BY <1>0 DEF Idle
  <1>5. \A ok \in BOOLEAN : Answered(ok) => ok /\ At("confirming")
    <2> SUFFICES ASSUME NEW ok \in BOOLEAN, Answered(ok) PROVE ok /\ At("confirming")
      OBVIOUS
    <2>1. run' # [run EXCEPT !.pc = "undone", !.provisional = ~ok /\ run.provisional,
                             !.awaiting = ~ok /\ run.awaiting]
      BY <1>0 DEF Run
    <2> QED
      BY <1>1, <1>2, <2>1 DEF Answered
  <1>6. UNCHANGED run => FALSE
    OBVIOUS
  <1>7. ~Start
    <2>1. Idle("none") \in Run /\ Idle("none").outcome = "none"
      BY DEF Idle, Run
    <2>2. run' = [Idle("none") EXCEPT !.pc = "write"] => run'.outcome = "none"
      BY <2>1 DEF Run
    <2> QED
      BY <2>2, Zenon DEF Start
  <1>8. ~WriteEntry
    <2>1. Generated \in Entry
      BY ActivationAssumption DEF Generated, Entry
    <2> QED
      BY <1>1, <1>2, <1>3, <2>1 DEF WriteEntry
  <1>9. ~Publish
    <2>1. run' = [run EXCEPT !.pc = run.next, !.draft = None, !.next = None] =>
            run'.outcome = run.outcome
      BY <1>0 DEF Run
    <2> QED
      BY <2>1, Zenon DEF Publish
  <1>10. ~Calibrate
    BY <1>1, <1>2 DEF Calibrate
  <1>11. ~Provision
    <2>1. run' = [run EXCEPT !.pc = "smoke", !.awaiting = TRUE] => run'.outcome = run.outcome
      BY <1>0 DEF Run
    <2>2. run' = [run EXCEPT !.pc = "activating", !.provisional = TRUE, !.awaiting = TRUE] =>
            run'.outcome = run.outcome
      BY <1>0 DEF Run
    <2> QED
      BY <1>2, <2>1, <2>2, Zenon DEF Provision
  <1>12. ~Smoke
    <2>1. run' = [run EXCEPT !.pc = "persist", !.smoked = TRUE] => run'.outcome = run.outcome
      BY <1>0 DEF Run
    <2> QED
      BY <1>2, <2>1, Zenon DEF Smoke
  <1>13. Persist => Enabled(disk) /\ ~run.provisional
    <2> DEFINE entry == [disk.target EXCEPT !.enabled = TRUE, !.vram = TargetVram(disk.target)]
    <2>1. disk.target # None => ~Rewrite(entry, "confirm")
      <3>1. disk.target # None => TargetVram(disk.target) \in Nat
        BY <1>0 DEF TargetVram, ActivationTypeOK, Trouble, Entry
      <3>2. disk.target # None => entry \in Entry
        BY <1>0, <3>1 DEF Entry
      <3> HIDE DEF entry
      <3> QED
        BY <1>3, <3>2
    <2>2. Persist => \/ FailStep \/ Compensate("step")
                     \/ disk.target # None /\ Rewrite(entry, "confirm")
                     \/ disk.target # None /\ disk.target.enabled /\ ~run.provisional
      BY Zenon DEF Persist
    <2> HIDE DEF entry
    <2> QED
      BY <1>2, <2>1, <2>2 DEF Enabled
  <1>14. AskConfirm => Enabled(disk) /\ ~run.provisional
    BY <1>1, Zenon DEF AskConfirm, ActivationInv, PlanInv
  <1>15. ~UndoOnDisk
    <2> DEFINE entry == [disk.target EXCEPT !.enabled = FALSE]
    <2>1. disk.target # None => ~Rewrite(entry, "undo_live")
      <3>1. disk.target # None => entry \in Entry
        BY <1>0 DEF Entry
      <3> HIDE DEF entry
      <3> QED
        BY <1>3, <3>1
    <2>2. UndoOnDisk => \/ Goto("undone") \/ Goto("undo_live")
                        \/ disk.target # None /\ Rewrite(entry, "undo_live")
      BY Zenon DEF UndoOnDisk
    <2> HIDE DEF entry
    <2> QED
      BY <1>1, <2>1, <2>2
  <1>16. ~UndoLive
    BY <1>1 DEF UndoLive
  <1>17. ~Undone
    <2>1. run' = [run EXCEPT !.pc = "exit"] => run'.outcome = run.outcome
      BY <1>0 DEF Run
    <2> QED
      BY <1>4, <2>1, Zenon DEF Undone
  <1>18. ~Exit
    BY <1>2, <1>4, Zenon DEF Exit
  <1>19. ReceiveReply => At("confirming") /\ reply = "ok"
    BY <1>5 DEF ReceiveReply
  <1>20. ~CallFails /\ ~LoseCall
    BY <1>5 DEF CallFails, LoseCall
  <1>21. ~Cancel /\ ~Crash
    BY <1>2, <1>4 DEF Cancel, Crash
  <1>22. ~LoseReply /\ ~GatewayRestart /\ ~Gateway /\ ~Others /\ ~UNCHANGED vars
    BY <1>6 DEF LoseReply, GatewayRestart, Gateway, Handle, LeaseExpires, DrainEnds, Others,
       UserStarts, UserEnds, PatchBegins, PatchCommits, vars
  <1> QED
    BY <1>7, <1>8, <1>9, <1>10, <1>11, <1>12, <1>13, <1>14, <1>15, <1>16, <1>17, <1>18, <1>19,
       <1>20, <1>21, <1>22 DEF Next, Applier, Mishap, Done

\* A plan reported as done has left the model enabled on disk, and the gateway
\* admitting what the file says when this run has opened it (applier.py,
\* _capturing_smoke_test and apply_loaded_plan).
THEOREM DoneIsServed == Spec => DoneMeansServed
  <1>1. ASSUME ActivationInv, [Next]_vars, run.outcome # "ok", run'.outcome = "ok"
        PROVE  Enabled(disk) /\ (run.provisional => Served /\ memory.target = disk.target)
    <2>1. CASE Enabled(disk) /\ ~run.provisional
      BY <2>1
    <2>2. CASE At("confirming") /\ reply = "ok"
      <3>1. Enabled(disk) /\ memory.target = disk.target /\ gate = FALSE
        BY <1>1, <2>2 DEF ActivationInv, PlanInv, ConfirmInv
      <3> QED
        BY <3>1 DEF Served, Enabled
    <2> QED
      BY <1>1, <2>1, <2>2, DoneMoves
  <1>2. ActivationInv /\ [Next]_vars =>
          [run.outcome # "ok" /\ run'.outcome = "ok" =>
             Enabled(disk) /\ (run.provisional => Served /\ memory.target = disk.target)]_vars
    BY <1>1
  <1> QED
    BY <1>2, ActivationInvariant, PTL DEF Spec, DoneMeansServed
===============================================================================
