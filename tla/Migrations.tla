----------------------------- MODULE Migrations -----------------------------
(***************************************************************************)
(* The schema migrations of gateway/database.py: a process that starts     *)
(* (the service, or a command of the CLI) reads user_version, copies the   *)
(* database aside, applies what is pending one transaction at a time and   *)
(* prunes the copies.  Several processes may start at once, run different  *)
(* versions of the code, or be killed anywhere.                            *)
(***************************************************************************)
EXTENDS Naturals, Sequences

CONSTANTS Processes,  \* the processes that may start
          Target,     \* Target[p]: the last migration the code of p knows
          Keep,       \* settings.migration_backups_to_keep
          Kills       \* how many times a process may be killed

VARIABLES db,       \* the file: version, the column of migration 2, whether it holds data
          found,    \* the database as the first process found it
          applied,  \* applied[v]: how many times migration v changed the schema
          backups,  \* the pre-migration copies, oldest first: label and content
          lock,     \* who holds the write lock of BEGIN IMMEDIATE, or "nobody"
          pc, current, pending,   \* of each process
          kills

vars == <<db, found, applied, backups, lock, pc, current, pending, kills>>

Nobody == "nobody"

Last == 2   \* MIGRATIONS[-1].version

Init ==
  /\ db \in {[version |-> 0, column |-> FALSE, data |-> TRUE],
             [version |-> 0, column |-> FALSE, data |-> FALSE],
             [version |-> 1, column |-> FALSE, data |-> TRUE]}
  /\ found = db
  /\ applied = [v \in 1..Last |-> 0] /\ backups = <<>> /\ lock = Nobody
  /\ pc = [p \in Processes |-> "off"]
  /\ current = [p \in Processes |-> 0] /\ pending = [p \in Processes |-> 1]
  /\ kills = 0

Goto(p, at) == pc' = [pc EXCEPT ![p] = at]

Started == {p \in Processes : pc[p] = "started"}

\* _migrate reads user_version: nothing pending, too recent, or work to do.
ReadVersion(p) ==
  /\ pc[p] = "off"
  /\ current' = [current EXCEPT ![p] = db.version]
  /\ pending' = [pending EXCEPT ![p] = db.version + 1]
  /\ Goto(p, IF db.version > Target[p] THEN "refused"
             ELSE IF db.version = Target[p] THEN "started"
             ELSE IF db.data THEN "backup" ELSE "migrate")
  /\ UNCHANGED <<db, applied, backups, lock, kills>>

\* _backup_database copies the database as it is now, under the version read
\* before; the label and the content may differ.
Backup(p) ==
  /\ pc[p] = "backup" /\ lock = Nobody
  /\ backups' = Append(backups, [label |-> current[p], content |-> db.version])
  /\ Goto(p, "migrate")
  /\ UNCHANGED <<db, applied, lock, current, pending, kills>>

\* _apply_migration: BEGIN IMMEDIATE
Begin(p) ==
  /\ pc[p] = "migrate" /\ lock = Nobody /\ lock' = p
  /\ Goto(p, "locked")
  /\ UNCHANGED <<db, applied, backups, current, pending, kills>>

\* After a migration: the next one, or the end of the loop.
Continue(p) ==
  /\ lock' = Nobody
  /\ pending' = [pending EXCEPT ![p] = @ + 1]
  /\ Goto(p, IF pending[p] < Target[p] THEN "migrate" ELSE "prune")

\* The baseline creates every table that is missing, column included; migration
\* 2 adds the column to the databases that precede it.
Migrated(v) ==
  [db EXCEPT !.version = v,
             !.column = IF v = 2 THEN TRUE ELSE db.column \/ ~db.data,
             !.data = TRUE]

ApplyUnchecked(p) ==
  /\ pc[p] = "locked"
  /\ db' = Migrated(pending[p])
  /\ applied' = [applied EXCEPT ![pending[p]] = @ + 1]
  /\ Continue(p)
  /\ UNCHANGED <<backups, current, kills>>

\* Under the lock the version is read again: another process may have been first.
Apply(p) ==
  /\ pc[p] = "locked"
  /\ IF db.version >= pending[p] THEN UNCHANGED <<db, applied>>
     ELSE /\ db' = Migrated(pending[p])
          /\ applied' = [applied EXCEPT ![pending[p]] = @ + 1]
  /\ Continue(p)
  /\ UNCHANGED <<backups, current, kills>>

NewestLess(copies) ==
  IF Len(copies) <= 1 THEN copies ELSE SubSeq(copies, Len(copies), Len(copies))

\* The Keep most recent copies stay, at least one.
Newest(copies) ==
  LET keep == IF Keep > 1 THEN Keep ELSE 1
  IN  IF Len(copies) <= keep THEN copies
      ELSE SubSeq(copies, Len(copies) - keep + 1, Len(copies))

PurgeBackups(p) ==
  /\ pc[p] = "prune" /\ backups' = Newest(backups) /\ Goto(p, "started")
  /\ UNCHANGED <<db, applied, lock, current, pending, kills>>

\* run_retention_pass of a running service.
Retention ==
  /\ Started # {} /\ backups' = Newest(backups)
  /\ UNCHANGED <<db, applied, lock, pc, current, pending, kills>>

\* The process dies: an open transaction is rolled back.  It may start again.
Kill(p) ==
  /\ kills < Kills /\ kills' = kills + 1
  /\ Goto(p, "off")
  /\ lock' = IF lock = p THEN Nobody ELSE lock
  /\ UNCHANGED <<db, applied, backups, current, pending>>

Migrate(p) == ReadVersion(p) \/ Backup(p) \/ Begin(p) \/ Apply(p) \/ PurgeBackups(p)

Next ==
  /\ Retention \/ \E p \in Processes : Migrate(p) \/ Kill(p)
  /\ UNCHANGED found

Spec == Init /\ [][Next]_vars

MigrationsTypeOK ==
  /\ db \in [version : 0..Last, column : BOOLEAN, data : BOOLEAN]
  /\ lock \in Processes \cup {Nobody}
  /\ pc \in [Processes -> {"off", "refused", "backup", "migrate", "locked", "prune", "started"}]
  /\ \A i \in DOMAIN backups : backups[i] \in [label : 0..Last, content : 0..Last]

\* No migration changes the schema twice, whoever starts at the same time.
AppliedOnce == \A v \in 1..Last : applied[v] <= 1

\* What docs/architecture.md builds the rollback on: while the database has been
\* changed, a copy of what it was before the first change is still there.
RollbackPossible ==
  (found.data /\ db.version > found.version /\ kills = 0) =>
    \E i \in DOMAIN backups : backups[i].content = found.version
=============================================================================
