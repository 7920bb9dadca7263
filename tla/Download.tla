------------------------------ MODULE Download ------------------------------
(***************************************************************************)
(* The download step of a bootstrap plan (gateway/bootstrap/downloader.py): *)
(* the indivisible set of files of a catalogue entry is fetched file by    *)
(* file into <name>.part, hashed while it is written, resumed after an     *)
(* interruption when the .part.json beside it proves where the bytes come  *)
(* from, renamed once the digest is the catalogue's, and recorded in a     *)
(* provenance manifest.  Several appliers may run at once: the code has no *)
(* lock between them.                                                      *)
(*                                                                         *)
(* A file is Size blocks; Target(r) is its content at revision r.  A name  *)
(* refers to an inode: a handle stays on it when the name moves.           *)
(***************************************************************************)
EXTENDS Naturals, Sequences, FiniteSets

CONSTANTS Processes,  \* the appliers
          Files,      \* how many files the set holds
          Size,       \* CatalogFile.size_bytes, in blocks
          Scenario    \* how much goes wrong in a behaviour, by kind

VARIABLES catalog,    \* the revision the catalogue pins
          accepted,   \* the revision whose licence is recorded as accepted, or 0
          final,      \* final[f]: inode under the definitive name, 0 when there is none
          part,       \* part[f]: inode of <name>.part
          data,       \* data[i]: content of an inode
          sidecar,    \* sidecar[f]: the revision .part.json names, 0 when none or unreadable
          manifest,   \* the revision of the provenance manifest
          proc,       \* each applier: where it is, and its local variables
          left

vars == <<catalog, accepted, final, part, data, sidecar, manifest, proc, left>>

Revisions == {1, 2}

Target(r) == [i \in 1..Size |-> 10 * r + i]

Junk == 0   \* a block that no revision holds

Inodes == 1..(2 * Files + Cardinality(Processes))

Idle == [pc |-> "off", rev |-> 0, file |-> 1, satisfied |-> {}, offset |-> 0,
         hash |-> <<>>, inode |-> 0, append |-> FALSE, status |-> "none"]

Init ==
  /\ catalog = 1 /\ accepted \in {0, 1}
  /\ final = [f \in 1..Files |-> 0] /\ part = [f \in 1..Files |-> 0]
  /\ data = [i \in Inodes |-> <<>>]
  /\ sidecar = [f \in 1..Files |-> 0] /\ manifest = 0
  /\ proc = [p \in Processes |-> Idle] /\ left = Scenario

Spend(what) == left[what] > 0 /\ left' = [left EXCEPT ![what] = @ - 1]

Step(p, changes) == proc' = [proc EXCEPT ![p] = changes]

End(p, status) == [proc[p] EXCEPT !.pc = "ended", !.status = status, !.inode = 0, !.hash = <<>>]

Goto(p, at) == [proc[p] EXCEPT !.pc = at]

Busy(p) == proc[p].pc \notin {"off", "ended"}

FreeInode ==
  CHOOSE i \in Inodes : /\ \A f \in 1..Files : i # final[f] /\ i # part[f]
                        /\ \A p \in Processes : i # proc[p].inode

UnchangedDisk == UNCHANGED <<final, part, data, sidecar, manifest>>

UnchangedPolicy == UNCHANGED <<catalog, accepted>>

-----------------------------------------------------------------------------
(* _execute_download: licence, inspection, disk.                            *)

Start(p) ==
  /\ ~Busy(p) /\ Spend("runs")
  /\ Step(p, [Idle EXCEPT !.pc = "licence", !.rev = catalog])
  /\ UnchangedDisk /\ UnchangedPolicy

\* An acceptance names the licences of the revision it was given for; another
\* revision may have the same ones.
LicenseGate(p) ==
  /\ proc[p].pc = "licence"
  /\ \/ accepted # 0 /\ Step(p, Goto(p, "inspect"))
     \/ accepted # proc[p].rev /\ Step(p, End(p, "failed"))
  /\ UNCHANGED left /\ UnchangedDisk /\ UnchangedPolicy

\* inspect_fileset: present, right size, right digest.
Satisfied(rev) == {f \in 1..Files : final[f] # 0 /\ data[final[f]] = Target(rev)}

Conflicting(rev) == {f \in 1..Files : final[f] # 0} \ Satisfied(rev)

\* A file that holds its definitive name with another content stops the step;
\* so does a disk that cannot take what is missing plus the margin.
Inspect(p) ==
  /\ proc[p].pc = "inspect"
  /\ LET rev == proc[p].rev
         complete == Satisfied(rev) = 1..Files
     IN  \/ /\ Conflicting(rev) # {} /\ Step(p, End(p, "failed")) /\ UNCHANGED left
         \/ /\ Conflicting(rev) = {}
            /\ Step(p, [proc[p] EXCEPT
                  !.satisfied = Satisfied(rev),
                  !.pc = IF ~complete THEN "file" ELSE IF manifest = rev THEN "verify" ELSE "manifest"])
            /\ UNCHANGED left
         \/ /\ Conflicting(rev) = {} /\ ~complete
            /\ Spend("disk") /\ Step(p, End(p, "failed"))
  /\ UnchangedDisk /\ UnchangedPolicy

-----------------------------------------------------------------------------
(* _download_one                                                            *)

\* The files already in place are passed over; after the last, the manifest.
NextFile(p) ==
  /\ proc[p].pc = "file"
  /\ LET f == proc[p].file
     IN  Step(p, IF f > Files THEN Goto(p, "manifest")
                 ELSE IF f \in proc[p].satisfied THEN [proc[p] EXCEPT !.file = f + 1]
                 ELSE Goto(p, "partial"))
  /\ UNCHANGED left /\ UnchangedDisk /\ UnchangedPolicy

\* _discard_partial
Discard(f) == part' = [part EXCEPT ![f] = 0] /\ sidecar' = [sidecar EXCEPT ![f] = 0]

Resumable(f, rev) == part[f] # 0 /\ sidecar[f] = rev /\ Len(data[part[f]]) < Size

\* A partial whose origin is proved is hashed again and resumed; any other is
\* thrown away.
Partial(p) ==
  /\ proc[p].pc = "partial"
  /\ LET f == proc[p].file
     IN  IF Resumable(f, proc[p].rev)
         THEN /\ Step(p, [proc[p] EXCEPT !.pc = "sidecar", !.offset = Len(data[part[f]]),
                                         !.hash = data[part[f]]])
              /\ UNCHANGED <<part, sidecar>>
         ELSE /\ Step(p, [proc[p] EXCEPT !.pc = "sidecar", !.offset = 0, !.hash = <<>>])
              /\ Discard(f)
  /\ UNCHANGED <<final, data, manifest, left>> /\ UnchangedPolicy

WriteSidecar(p) ==
  /\ proc[p].pc = "sidecar" /\ Step(p, Goto(p, "request"))
  /\ sidecar' = [sidecar EXCEPT ![proc[p].file] = proc[p].rev]
  /\ UNCHANGED <<final, part, data, manifest, left>> /\ UnchangedPolicy

\* open(part, "ab") keeps what is there, open(part, "wb") empties it.
OpenPart(p, append) ==
  LET f == proc[p].file
      i == IF part[f] # 0 THEN part[f] ELSE FreeInode
  IN  /\ part' = [part EXCEPT ![f] = i]
      /\ data' = [data EXCEPT ![i] = IF append THEN @ ELSE <<>>]
      /\ Step(p, [proc[p] EXCEPT !.pc = "receive", !.inode = i, !.append = append,
                    !.offset = IF append THEN @ ELSE 0, !.hash = IF append THEN @ ELSE <<>>])

RequestKeepingMode(p) ==
  /\ proc[p].pc = "request"
  /\ \/ proc[p].offset = 0 /\ OpenPart(p, FALSE) /\ UNCHANGED <<sidecar, left>>
     \/ proc[p].offset \in 1..Size - 1 /\ OpenPart(p, TRUE) /\ UNCHANGED <<sidecar, left>>
     \/ /\ proc[p].offset \in 1..Size - 1 /\ Spend("norange")
        /\ Step(p, [proc[p] EXCEPT !.pc = "receive", !.inode = part[proc[p].file],
                      !.append = TRUE, !.offset = 0, !.hash = <<>>])
        /\ UNCHANGED <<part, data, sidecar>>
     \/ Spend("error") /\ Step(p, End(p, "failed")) /\ UNCHANGED <<part, data, sidecar>>
  /\ UNCHANGED <<final, manifest>> /\ UnchangedPolicy

\* A 200 that answers a request to resume starts again from nothing; a 206 must
\* continue exactly where the partial ends.
Request(p) ==
  /\ proc[p].pc = "request"
  /\ \/ proc[p].offset = 0 /\ OpenPart(p, FALSE) /\ UNCHANGED <<sidecar, left>>
     \/ proc[p].offset \in 1..Size - 1 /\ OpenPart(p, TRUE) /\ UNCHANGED <<sidecar, left>>
     \/ proc[p].offset \in 1..Size - 1 /\ Spend("norange") /\ OpenPart(p, FALSE) /\ UNCHANGED sidecar
     \/ /\ proc[p].offset # 0 /\ Spend("badrange")
        /\ Discard(proc[p].file) /\ Step(p, End(p, "failed")) /\ UNCHANGED data
     \/ /\ IF proc[p].offset >= Size THEN UNCHANGED left ELSE Spend("error")
        /\ Step(p, End(p, "failed")) /\ UNCHANGED <<part, data, sidecar>>
  /\ UNCHANGED <<final, manifest>> /\ UnchangedPolicy

\* A block written through a handle: at its end, or at the writer's own place.
Written(p, block) ==
  LET old == data[proc[p].inode]
      at == Len(proc[p].hash) + 1
  IN  IF proc[p].append \/ at > Len(old) THEN Append(old, block) ELSE [old EXCEPT ![at] = block]

\* A block arrives, intact or not, and is written and hashed alike.
Receive(p) ==
  /\ proc[p].pc = "receive" /\ Len(proc[p].hash) < Size
  /\ \E block \in {10 * proc[p].rev + Len(proc[p].hash) + 1, Junk} :
       /\ IF block = Junk THEN Spend("corrupt") ELSE UNCHANGED left
       /\ data' = [data EXCEPT ![proc[p].inode] = Written(p, block)]
       /\ Step(p, [proc[p] EXCEPT !.hash = Append(@, block)])
  /\ UNCHANGED <<final, part, sidecar, manifest>> /\ UnchangedPolicy

\* The stream ends, early, on time or with a block too many.
StreamEnds(p) ==
  /\ proc[p].pc = "receive"
  /\ \/ Len(proc[p].hash) = Size /\ Step(p, Goto(p, "check")) /\ UNCHANGED <<data, left>>
     \/ Len(proc[p].hash) < Size /\ Spend("cut") /\ Step(p, Goto(p, "check")) /\ UNCHANGED data
     \/ /\ Len(proc[p].hash) = Size /\ Spend("extra")
        /\ data' = [data EXCEPT ![proc[p].inode] = Written(p, Junk)]
        /\ Step(p, [proc[p] EXCEPT !.hash = Append(@, Junk), !.pc = "check"])
  /\ UNCHANGED <<final, part, sidecar, manifest>> /\ UnchangedPolicy

CheckGoesOn(p) ==
  /\ proc[p].pc = "check"
  /\ LET next == [proc[p] EXCEPT !.pc = "file", !.file = @ + 1]
     IN  IF Len(proc[p].hash) # Size
         THEN Step(p, next) /\ UNCHANGED <<part, sidecar>>
         ELSE IF proc[p].hash # Target(proc[p].rev)
         THEN Step(p, next) /\ Discard(proc[p].file)
         ELSE Step(p, [proc[p] EXCEPT !.pc = "rename"]) /\ UNCHANGED <<part, sidecar>>
  /\ UNCHANGED <<final, data, manifest, left>> /\ UnchangedPolicy

\* A wrong length fails and keeps the partial; a wrong digest destroys it.
Check(p) ==
  /\ proc[p].pc = "check"
  /\ LET f == proc[p].file
     IN  IF Len(proc[p].hash) # Size
         THEN Step(p, End(p, "failed")) /\ UNCHANGED <<part, sidecar>>
         ELSE IF proc[p].hash # Target(proc[p].rev)
         THEN Step(p, End(p, "failed")) /\ Discard(f)
         ELSE Step(p, [proc[p] EXCEPT !.pc = "rename"]) /\ UNCHANGED <<part, sidecar>>
  /\ UNCHANGED <<final, data, manifest, left>> /\ UnchangedPolicy

\* os.replace(part, final), atomic; it fails when the partial has gone.
Rename(p) ==
  /\ proc[p].pc = "rename"
  /\ LET f == proc[p].file
     IN  IF part[f] = 0 THEN Step(p, End(p, "failed")) /\ UNCHANGED <<final, part>>
         ELSE /\ final' = [final EXCEPT ![f] = part[f]] /\ part' = [part EXCEPT ![f] = 0]
              /\ Step(p, [proc[p] EXCEPT !.pc = "unlink", !.inode = 0])
  /\ UNCHANGED <<data, sidecar, manifest, left>> /\ UnchangedPolicy

UnlinkSidecar(p) ==
  /\ proc[p].pc = "unlink"
  /\ Step(p, [proc[p] EXCEPT !.pc = "file", !.file = @ + 1, !.hash = <<>>, !.offset = 0])
  /\ sidecar' = [sidecar EXCEPT ![proc[p].file] = 0]
  /\ UNCHANGED <<final, part, data, manifest, left>> /\ UnchangedPolicy

\* _write_json: the manifest replaces the former one at once.
WriteManifest(p) ==
  /\ proc[p].pc = "manifest" /\ manifest' = proc[p].rev /\ Step(p, Goto(p, "verify"))
  /\ UNCHANGED <<final, part, data, sidecar, left>> /\ UnchangedPolicy

\* The verify_artifact step of the plan hashes everything again.
Verify(p) ==
  /\ proc[p].pc = "verify"
  /\ Step(p, End(p, IF Satisfied(proc[p].rev) = 1..Files /\ manifest = proc[p].rev
                    THEN "verified" ELSE "failed"))
  /\ UNCHANGED left /\ UnchangedDisk /\ UnchangedPolicy

-----------------------------------------------------------------------------
(* The world                                                                *)

\* The applier dies.  What it buffered may be lost, and a sidecar it was
\* writing may be left empty.
Kill(p) ==
  /\ Busy(p) /\ Spend("kill") /\ Step(p, Idle)
  /\ LET i == proc[p].inode
     IN  IF proc[p].pc = "receive" /\ data[i] # <<>>
         THEN data' \in {data, [data EXCEPT ![i] = SubSeq(@, 1, Len(@) - 1)]}
         ELSE UNCHANGED data
  /\ IF proc[p].pc = "sidecar"
     THEN sidecar' \in {sidecar, [sidecar EXCEPT ![proc[p].file] = 0]}
     ELSE UNCHANGED sidecar
  /\ UNCHANGED <<final, part, manifest>> /\ UnchangedPolicy

\* The accept_license step, with the acceptance the operator gives.
AcceptLicense ==
  /\ accepted # catalog /\ accepted' = catalog
  /\ UNCHANGED <<catalog, proc, left>> /\ UnchangedDisk

\* The catalogue of the next apply pins another revision.
CatalogMoves ==
  /\ catalog = 1 /\ Spend("revision") /\ catalog' = 2
  /\ UNCHANGED <<accepted, proc>> /\ UnchangedDisk

\* The operator moves a file that conflicts with the catalogue out of the way.
OperatorMoves ==
  /\ \A p \in Processes : ~Busy(p)
  /\ \E f \in Conflicting(catalog) : final' = [final EXCEPT ![f] = 0]
  /\ UNCHANGED <<part, data, sidecar, manifest, proc, left>> /\ UnchangedPolicy

Work(p) ==
  \/ LicenseGate(p) \/ Inspect(p) \/ NextFile(p) \/ Partial(p) \/ WriteSidecar(p)
  \/ Request(p) \/ Receive(p) \/ StreamEnds(p) \/ Check(p) \/ Rename(p)
  \/ UnlinkSidecar(p) \/ WriteManifest(p) \/ Verify(p)

Next ==
  \/ \E p \in Processes : Start(p) \/ Work(p) \/ Kill(p)
  \/ AcceptLicense \/ CatalogMoves \/ OperatorMoves

Spec == Init /\ [][Next]_vars

-----------------------------------------------------------------------------
DownloadTypeOK ==
  /\ catalog \in Revisions /\ accepted \in {0} \cup Revisions
  /\ \A f \in 1..Files : final[f] \in {0} \cup Inodes /\ part[f] \in {0} \cup Inodes
  /\ \A f \in 1..Files : sidecar[f] \in {0} \cup Revisions
  /\ manifest \in {0} \cup Revisions
  /\ \A i \in Inodes : Len(data[i]) <= 2 * Size + 1

\* The central invariant of downloader.py: at no moment does a file hold its
\* definitive name with a content that is not the catalogue's.
FinalIsVerified ==
  \A f \in 1..Files : final[f] # 0 => \E r \in Revisions : data[final[f]] = Target(r)

\* A download step that succeeds, with or without downloading, leaves the whole
\* set at the revision of its plan and a manifest that says so, whatever was
\* left by the interrupted, refused or corrupted attempts before it.
DoneMeansComplete ==
  \A p \in Processes : proc[p].pc = "verify" =>
    Satisfied(proc[p].rev) = 1..Files /\ manifest = proc[p].rev

=============================================================================
