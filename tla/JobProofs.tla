------------------------------ MODULE JobProofs ------------------------------
(***************************************************************************)
(* Theorems about the jobs of Jobs, for every value of the constants and   *)
(* any number of faults.  Each job has its own invariant; Alone says that  *)
(* a behaviour of Jobs is one of its job.                                  *)
(***************************************************************************)
EXTENDS Jobs, FiniteSetTheorems, SequenceTheorems, WellFoundedInduction, TLAPS

\* The job is chosen once, and its steps are its own.
LEMMA Alone ==
  /\ Init => /\ job = "migration" => Migration!Init
             /\ job = "download" => Fetching!Init
             /\ job = "install" => Installing!Init
             /\ job = "attestation" => Attesting!Init
             /\ job = "calibration" => Measuring!Init
             /\ job = "recipe" => Recipe!Init
             /\ job = "plan" => Applying!Init
             /\ job = "planner" => Planning!Init
  /\ [Next]_vars => /\ job' = job
                    /\ job = "migration" => [Migration!Next]_Migration!vars
                    /\ job = "download" => [Fetching!Next]_Fetching!vars
                    /\ job = "install" => [Installing!Next]_Installing!vars
                    /\ job = "attestation" => [Attesting!Next]_Attesting!attestVars
                    /\ job = "calibration" => [Measuring!Next]_Measuring!vars
                    /\ job = "recipe" => [Recipe!Next]_Recipe!vars
                    /\ job = "plan" => [Applying!Next]_Applying!planVars
                    /\ job = "planner" => [Planning!Next]_Planning!plannerVars
  <1>1. Init => /\ job = "migration" => Migration!Init
                /\ job = "download" => Fetching!Init
                /\ job = "install" => Installing!Init
                /\ job = "attestation" => Attesting!Init
                /\ job = "calibration" => Measuring!Init
                /\ job = "recipe" => Recipe!Init
                /\ job = "plan" => Applying!Init
                /\ job = "planner" => Planning!Init
    BY DEF Init
  <1>2. Next => /\ job' = job
                /\ job = "migration" => Migration!Next
                /\ job = "download" => Fetching!Next
                /\ job = "install" => Installing!Next
                /\ job = "attestation" => Attesting!Next
                /\ job = "calibration" => Measuring!Next
                /\ job = "recipe" => Recipe!Next
                /\ job = "plan" => Applying!Next
                /\ job = "planner" => Planning!Next
    BY DEF Next
  <1>3. UNCHANGED vars => UNCHANGED <<job, pc, left, outcome, current, filesOnly, bootstrapOnly>>
    BY DEF vars
  <1>4. UNCHANGED filesOnly =>
          UNCHANGED <<migrationOnly, downloadOnly, installOnly, attestationOnly>>
    BY DEF filesOnly
  <1>5. UNCHANGED bootstrapOnly =>
          UNCHANGED <<mode, loaded, calibrationOnly, recipeOnly, planOnly, plannerOnly>>
    BY DEF bootstrapOnly
  <1>6. UNCHANGED vars => UNCHANGED <<Migration!vars, Fetching!vars>>
    BY <1>3, <1>4 DEF migrationOnly, downloadOnly, Migration!vars, Fetching!vars
  <1>7. UNCHANGED vars => UNCHANGED <<Installing!vars, Attesting!attestVars>>
    BY <1>3, <1>4 DEF installOnly, attestationOnly, Installing!vars, Attesting!attestVars
  <1>8. UNCHANGED vars => UNCHANGED <<Measuring!vars, Recipe!vars>>
    BY <1>3, <1>5 DEF calibrationOnly, recipeOnly, Measuring!vars, Recipe!vars
  <1>9. UNCHANGED vars => UNCHANGED <<Applying!planVars, Planning!plannerVars>>
    BY <1>3, <1>5 DEF planOnly, plannerOnly, Applying!planVars, Planning!plannerVars
  <1> QED
    BY <1>1, <1>2, <1>3, <1>6, <1>7, <1>8, <1>9

-----------------------------------------------------------------------------
(* The runtime: RuntimeInstall                                             *)

Release == [exists : BOOLEAN, build : Nat, altered : BOOLEAN, attested : Nat]

\* What may be published: a manifest for the build it is, unless altered since.
Sound(n) ==
  LET r == releases[n]
  IN  /\ n \in 1..MaxReleases /\ r.exists
      /\ r.altered \/ (r.attested = r.build /\ r.build > Installing!Shallow /\ r.build >= MinBuild)

Started == {"satisfied", "fetch", "digest", "extract", "promote", "probe", "manifest", "switch"}

InstallTypes ==
  /\ Installing!InstallTypeOK
  /\ pc \in Started \cup {"off", "ended"}
  /\ releases \in [1..MaxReleases -> Release]
  /\ incoming \in [state : {"none", "pinned", "other"}, build : Nat, binaries : 0..2]

\* The link, and what it was, are sound; a step in progress has not moved the link,
\* and the release it lays out is neither of them.
InstallInv ==
  /\ InstallTypes
  /\ current # 0 => Sound(current)
  /\ previous # 0 => Sound(previous)
  /\ outcome = "failed" \/ pc \in Started => current = previous
  /\ pc \in {"satisfied", "fetch", "digest", "extract", "promote"} => here = 0
  /\ pc \in {"probe", "manifest", "switch"} =>
       here \in 1..MaxReleases /\ here # current /\ releases[here].exists
  /\ pc \in {"manifest", "switch"} => Installing!Accepts(releases[here].build)
  /\ pc = "switch" => releases[here].attested = pinned

LEMMA InstallInit ==
  ASSUME Installing!Init
  PROVE  InstallInv
  BY InstallAssumption DEF Installing!Init, InstallInv, InstallTypes, Installing!InstallTypeOK, Started,
     Release, Installing!Nothing, Installing!NoIncoming, Installing!Unreadable

\* Giving up before the switch: what is laid out goes, the link stays.
LEMMA InstallFail ==
  ASSUME InstallInv, pc \in Started, Installing!Fail,
         UNCHANGED <<pinned, previous, current>>
  PROVE  InstallInv'
  <1>1. /\ pc' = "ended" /\ outcome' = "failed" /\ incoming' = Installing!NoIncoming /\ here' = 0
        /\ UNCHANGED <<pinned, previous, current>>
    BY DEF Installing!Fail
  <1>2. releases' \in [1..MaxReleases -> Release]
    BY DEF Installing!Fail, InstallInv, InstallTypes, Release, Installing!Nothing, Installing!Unreadable
  <1>3. \A n \in 1..MaxReleases : n # here \/ here = 0 => releases'[n] = releases[n]
    BY DEF Installing!Fail, InstallInv, InstallTypes
  <1>4. here # current \/ here = 0
    BY DEF InstallInv, Started
  <1>5. current = previous
    BY DEF InstallInv
  <1>6. current # 0 => Sound(current)'
    BY <1>1, <1>3, <1>4 DEF InstallInv, Sound
  <1>7. InstallTypes'
    BY <1>1, <1>2, InstallAssumption DEF InstallInv, InstallTypes, Installing!InstallTypeOK,
       Installing!NoIncoming, Installing!Unreadable
  <1> QED
    BY <1>1, <1>5, <1>6, <1>7 DEF InstallInv, Started, Sound

LEMMA InstallStep ==
  ASSUME InstallInv, [Installing!Next]_Installing!vars
  PROVE  InstallInv'
  <1> USE InstallAssumption
  <1>1. CASE Installing!Start
    BY <1>1 DEF Installing!Start, InstallInv, InstallTypes, Installing!InstallTypeOK, Started, Sound,
       Installing!NoIncoming, Installing!Unreadable, Installing!Accepts
  <1>2. CASE Installing!AlreadySatisfied
    BY <1>2 DEF Installing!AlreadySatisfied, Installing!UnchangedStep, InstallInv, InstallTypes,
       Installing!InstallTypeOK, Started, Sound
  <1>3. CASE Installing!Fetch
    <2>1. /\ pc = "fetch" /\ pc' = "digest"
          /\ UNCHANGED <<releases, here, outcome, pinned, previous, current>>
      BY <1>3 DEF Installing!Fetch, Installing!UnchangedStep
    <2>2. incoming' \in [state : {"none", "pinned", "other"}, build : Nat, binaries : 0..2]
      BY <1>3 DEF Installing!Fetch, InstallInv, InstallTypes, Installing!InstallTypeOK,
         Installing!Unreadable, Installing!Shallow
    <2> QED
      BY <2>1, <2>2 DEF InstallInv, InstallTypes, Installing!InstallTypeOK, Started, Sound
  <1>4. CASE Installing!ShaArchive
    <2>1. CASE incoming.state = "pinned"
      BY <1>4, <2>1 DEF Installing!ShaArchive, Installing!UnchangedStep, InstallInv, InstallTypes,
         Installing!InstallTypeOK, Started, Sound
    <2>2. CASE incoming.state # "pinned"
      BY <1>4, <2>2, InstallFail DEF Installing!ShaArchive, Installing!UnchangedStep, Started
    <2> QED
      BY <2>1, <2>2
  <1>5. CASE Installing!Extract
    <2>1. CASE pc' = "promote"
      BY <1>5, <2>1 DEF Installing!Extract, Installing!Fail, Installing!UnchangedStep, InstallInv, InstallTypes,
         Installing!InstallTypeOK, Started, Sound
    <2>2. CASE pc' # "promote"
      BY <1>5, <2>2, InstallFail DEF Installing!Extract, Installing!UnchangedStep, Started
    <2> QED
      BY <2>1, <2>2
  <1>6. CASE Installing!Promote
    <2>1. PICK n \in Installing!Free :
            /\ here' = n
            /\ releases' = [releases EXCEPT ![n] = [exists |-> TRUE, build |-> incoming.build,
                                                    altered |-> FALSE, attested |-> 0]]
      BY <1>6 DEF Installing!Promote
    <2>2. /\ pc = "promote" /\ pc' = "probe" /\ incoming' = Installing!NoIncoming
          /\ UNCHANGED <<outcome, pinned, previous, current>>
      BY <1>6 DEF Installing!Promote, Installing!UnchangedStep
    <2>3. n \in 1..MaxReleases /\ ~releases[n].exists
      BY DEF Installing!Free
    <2>4. /\ releases' \in [1..MaxReleases -> Release] /\ releases'[n].exists
          /\ \A k \in 1..MaxReleases : k # n => releases'[k] = releases[k]
      BY <2>1, <2>3 DEF InstallInv, InstallTypes, Release
    <2>5. n # current /\ n # previous
      BY <2>3 DEF InstallInv, Sound
    <2>6. (current # 0 => Sound(current)') /\ (previous # 0 => Sound(previous)')
      BY <2>2, <2>4, <2>5 DEF InstallInv, Sound
    <2>7. InstallTypes'
      BY <2>1, <2>2, <2>3, <2>4 DEF InstallInv, InstallTypes, Installing!InstallTypeOK, Started,
         Installing!NoIncoming, Installing!Unreadable
    <2> QED
      BY <2>1, <2>2, <2>3, <2>4, <2>5, <2>6, <2>7 DEF InstallInv, Started, Sound
  <1>7. CASE Installing!Probe
    <2>1. CASE Installing!Accepts(releases[here].build)
      BY <1>7, <2>1 DEF Installing!Probe, Installing!UnchangedStep, InstallInv, InstallTypes,
         Installing!InstallTypeOK, Started, Sound, Installing!Accepts
    <2>2. CASE ~Installing!Accepts(releases[here].build)
      BY <1>7, <2>2, InstallFail DEF Installing!Probe, Installing!UnchangedStep, Started
    <2> QED
      BY <2>1, <2>2
  <1>8. CASE Installing!WriteManifest
    <2>1. CASE /\ pc' = "switch" /\ releases' = [releases EXCEPT ![here].attested = pinned]
               /\ UNCHANGED <<outcome, incoming, here, left>>
      <3>1. pc = "manifest" /\ UNCHANGED <<pinned, previous, current>>
        BY <1>8 DEF Installing!WriteManifest, Installing!UnchangedStep
      <3>2. here \in 1..MaxReleases /\ here # current /\ current = previous
        BY <3>1 DEF InstallInv, Started
      <3>3. /\ releases' \in [1..MaxReleases -> Release]
            /\ releases'[here].attested = pinned /\ releases'[here].exists = releases[here].exists
            /\ releases'[here].build = releases[here].build
            /\ \A k \in 1..MaxReleases : k # here => releases'[k] = releases[k]
        BY <2>1, <3>2 DEF InstallInv, InstallTypes, Installing!InstallTypeOK, Release
      <3>4. (current # 0 => Sound(current)') /\ (previous # 0 => Sound(previous)')
        BY <3>1, <3>2, <3>3 DEF InstallInv, Sound
      <3> QED
        BY <2>1, <3>1, <3>2, <3>3, <3>4 DEF InstallInv, InstallTypes, Installing!InstallTypeOK, Started,
           Installing!Accepts, Sound
    <2>2. CASE Installing!Fail
      BY <1>8, <2>2, InstallFail DEF Installing!WriteManifest, Installing!UnchangedStep, Started
    <2> QED
      BY <1>8, <2>1, <2>2 DEF Installing!WriteManifest
  <1>9. CASE Installing!Switch
    <2>1. CASE current' = here /\ pc' = "ended" /\ outcome' = "done"
               /\ UNCHANGED <<releases, incoming, here, left>>
      <3>1. Sound(here) /\ UNCHANGED <<pinned, previous>>
        BY <1>9 DEF Installing!Switch, InstallInv, Installing!Accepts, Sound
      <3> QED
        BY <1>9, <2>1, <3>1
        DEF Installing!Switch, InstallInv, InstallTypes, Installing!InstallTypeOK, Started, Sound
    <2>2. CASE Installing!Fail
      <3>1. pc \in Started /\ UNCHANGED <<pinned, previous>>
        BY <1>9 DEF Installing!Switch, Started
      <3>2. UNCHANGED current
        BY <1>9, <2>2 DEF Installing!Switch, Installing!Fail
      <3> QED
        BY <2>2, <3>1, <3>2, InstallFail
    <2> QED
      BY <1>9, <2>1, <2>2 DEF Installing!Switch
  <1>10. CASE Installing!Kill
    BY <1>10 DEF Installing!Kill, Installing!UnchangedStep, InstallInv, InstallTypes, Installing!InstallTypeOK,
       Started, Sound
  <1>11. CASE Installing!Alter
    <2>1. PICK b \in Builds \cup {Installing!Unreadable} :
            releases' = [releases EXCEPT ![current].altered = TRUE, ![current].build = b]
      BY <1>11 DEF Installing!Alter
    <2>2. current \in 1..MaxReleases /\ UNCHANGED <<pinned, current, previous, incoming, here, pc, outcome>>
      BY <1>11 DEF Installing!Alter, InstallInv, InstallTypes, Installing!InstallTypeOK
    <2>3. /\ releases' \in [1..MaxReleases -> Release]
          /\ releases'[current].altered /\ releases'[current].exists = releases[current].exists
          /\ \A k \in 1..MaxReleases : k # current => releases'[k] = releases[k]
      <3> DEFINE R == [releases[current] EXCEPT !.altered = TRUE, !.build = b]
      <3>1. releases \in [1..MaxReleases -> Release] /\ b \in Nat
        BY DEF InstallInv, InstallTypes, Installing!Unreadable
      <3>2. R \in Release /\ R.altered /\ R.exists = releases[current].exists
        BY <2>2, <3>1 DEF Release
      <3>3. releases' = [releases EXCEPT ![current] = R]
        BY <2>1, <2>2, <3>1 DEF Release
      <3> HIDE DEF R
      <3> QED
        BY <2>2, <3>1, <3>2, <3>3
    <2>4. Sound(current)' /\ (previous # 0 => Sound(previous)')
      BY <2>2, <2>3 DEF InstallInv, Sound
    <2> QED
      BY <2>2, <2>3, <2>4 DEF InstallInv, InstallTypes, Installing!InstallTypeOK, Started, Installing!Accepts
  <1>12. CASE Installing!RollBack
    BY <1>12 DEF Installing!RollBack, InstallInv, InstallTypes, Installing!InstallTypeOK, Started, Sound
  <1>13. CASE UNCHANGED Installing!vars
    BY <1>13 DEF Installing!vars, InstallInv, InstallTypes, Installing!InstallTypeOK, Started, Sound,
       Installing!Accepts
  <1> QED
    BY <1>1, <1>2, <1>3, <1>4, <1>5, <1>6, <1>7, <1>8, <1>9, <1>10, <1>11, <1>12, <1>13 DEF Installing!Next

\* runtime_installer.py: whatever an archive holds, wherever the applier fails or
\* is killed, what the gateway would start is attested and above the floor, a failed
\* step changes nothing, and the release a step replaces is still there.
THEOREM RuntimeAlwaysSound == Spec => []RuntimeIsSound
  <1> DEFINE Inv == job = "install" => InstallInv
  <1>1. Init => Inv
    BY Alone, InstallInit
  <1>2. Inv /\ [Next]_vars => Inv'
    BY Alone, InstallStep
  <1>3. Inv => RuntimeIsSound
    BY DEF InstallInv, InstallTypes, Sound, RuntimeIsSound, Installing!PublishedIsAttested,
       Installing!RollbackStaysPossible
  <1> QED
    BY <1>1, <1>2, <1>3, PTL DEF Spec

-----------------------------------------------------------------------------
(* The hashes of model files: Attestation                                  *)

Identities == 1..Len(contents)
Declared(i) == i \in Identities /\ contents[i] = "declared"

CallerRecord ==
  [at : {"stat", "look", "wait", "ok", "refused", "gone"}, file : Nat, seen : Nat, vouched : Seq(Nat)]

FlightRecord ==
  [at : {"none", "before", "hash", "after", "deliver"}, before : Nat,
   digest : {"none", "declared", "other", "mutated", "unreadable"}]

\* Identities are never taken again: if a file still has, or has again, the identity
\* read before its hash, it had it during the hash.
FlightInv(f) ==
  /\ flight[f].before \in 0..Len(contents)
  /\ flight[f].at \in {"hash", "after"} => flight[f].before \in 1..present[f]
  /\ flight[f].at = "after" /\ flight[f].before = present[f] =>
       flight[f].digest = contents[flight[f].before]
  /\ flight[f].at = "deliver" /\ flight[f].digest = "declared" => Declared(flight[f].before)

\* A caller has one answer for each file it has passed.
CallerInv(c) ==
  /\ \A k \in DOMAIN caller[c].vouched : Declared(caller[c].vouched[k])
  /\ caller[c].at \in {"stat", "look", "wait"} =>
       caller[c].file \in 1..Len(Artifacts) /\ Len(caller[c].vouched) = caller[c].file - 1
  /\ caller[c].at = "ok" => Len(caller[c].vouched) = Len(Artifacts)
  /\ caller[c].at = "wait" => flight[Artifacts[caller[c].file]].at # "none"

CacheInv ==
  /\ attested \in Seq(Attesting!Files \X Nat) /\ Len(attested) <= CacheMax
  /\ \A k \in DOMAIN attested : Declared(attested[k][2])

FilesInv ==
  /\ contents \in Seq({"declared", "other"}) /\ Len(contents) <= Versions
  /\ present \in [Attesting!Files -> Identities]

AttestationInv ==
  /\ FilesInv /\ CacheInv
  /\ flight \in [Attesting!Files -> FlightRecord] /\ \A f \in Attesting!Files : FlightInv(f)
  /\ caller \in [Callers -> CallerRecord] /\ \A c \in Callers : CallerInv(c)

LEMMA AttestationInit ==
  ASSUME Attesting!Init
  PROVE  AttestationInv
  <1> USE AttestationAssumption
  <1>1. /\ contents = [f \in 1..Len(Artifacts) |-> "declared"]
        /\ contents \in Seq({"declared", "other"}) /\ Len(contents) = Len(Artifacts)
        /\ Len(Artifacts) \in Nat \ {0} /\ Identities = 1..Len(Artifacts)
    BY DEF Attesting!Init, Identities
  <1>2. ASSUME NEW f \in Attesting!Files PROVE present[f] \in Identities
    BY <1>1 DEF Attesting!Init, Attesting!Files
  <1>3. FilesInv
    BY <1>1, <1>2 DEF FilesInv, Attesting!Init
  <1>4. CacheInv
    BY DEF CacheInv, Attesting!Init
  <1>5. flight \in [Attesting!Files -> FlightRecord] /\ \A f \in Attesting!Files : FlightInv(f)
    BY <1>1 DEF Attesting!Init, Attesting!NoFlight, FlightRecord, FlightInv
  <1>6. caller \in [Callers -> CallerRecord] /\ \A c \in Callers : CallerInv(c)
    BY <1>1 DEF Attesting!Init, CallerRecord, CallerInv
  <1> QED
    BY <1>3, <1>4, <1>5, <1>6 DEF AttestationInv

\* The file a caller is at is one of the model's.
LEMMA AttestedFile ==
  ASSUME AttestationInv, NEW c \in Callers, caller[c].at \in {"stat", "look", "wait"}
  PROVE  Attesting!Of(c) = Artifacts[caller[c].file] /\ Attesting!Of(c) \in Attesting!Files
  BY AttestationAssumption DEF AttestationInv, CallerInv, Attesting!Of, Attesting!Files

\* A caller gets a declared identity for the file it is at.
LEMMA AcceptedCaller ==
  ASSUME AttestationInv, NEW c \in Callers, caller[c].at \in {"stat", "look", "wait"},
         NEW i, Declared(i), UNCHANGED contents, caller'[c] = Attesting!Accepted(c, i)[c]
  PROVE  caller'[c] \in CallerRecord /\ CallerInv(c)'
  <1> DEFINE p == caller[c]
             next == IF p.file = Len(Artifacts) THEN "ok" ELSE "stat"
             q == [at |-> next, file |-> p.file + 1, seen |-> 0, vouched |-> Append(p.vouched, i)]
  <1>1. p \in CallerRecord /\ p.file \in 1..Len(Artifacts) /\ Len(p.vouched) = p.file - 1 /\ i \in Nat
        /\ Len(Artifacts) \in Nat /\ \A k \in DOMAIN p.vouched : Declared(p.vouched[k])
    BY AttestationAssumption DEF AttestationInv, CallerInv, Declared, Identities, FilesInv
  <1>2. caller'[c] = [[[[p EXCEPT !.vouched = Append(@, i)] EXCEPT !.file = @ + 1] EXCEPT !.seen = 0]
                        EXCEPT !.at = next]
    BY DEF Attesting!Accepted, AttestationInv
  <1>3. caller'[c] = q
    BY <1>1, <1>2 DEF CallerRecord
  <1>4. /\ q.vouched \in Seq(Nat) /\ Len(q.vouched) = p.file
        /\ \A k \in DOMAIN q.vouched : Declared(q.vouched[k])
    BY <1>1 DEF CallerRecord
  <1>5. q \in CallerRecord
    BY <1>1, <1>4 DEF CallerRecord
  <1>6. /\ q.at \in {"ok", "stat"} /\ (q.at = "ok" => p.file = Len(Artifacts))
        /\ (q.at = "stat" => p.file # Len(Artifacts)) /\ q.file = p.file + 1
    OBVIOUS
  <1> HIDE DEF p, q
  <1>7. \A k \in DOMAIN caller'[c].vouched : Declared(caller'[c].vouched[k])
    BY <1>3, <1>4
  <1>8. \A j : Declared(j) => Declared(j)'
    BY DEF Declared, Identities
  <1> QED
    BY <1>1, <1>3, <1>4, <1>5, <1>6, <1>7, <1>8 DEF CallerInv

\* A step that changes neither the files nor the cache, one caller at most, and keeps
\* every flight alive.
LEMMA CallerStep ==
  ASSUME AttestationInv, UNCHANGED <<contents, present, attested>>, NEW c \in Callers,
         flight' \in [Attesting!Files -> FlightRecord], \A f \in Attesting!Files : FlightInv(f)',
         \A f : flight[f].at # "none" => flight'[f].at # "none",
         caller' \in [Callers -> CallerRecord], CallerInv(c)',
         \A d \in Callers \ {c} : caller'[d] = caller[d]
  PROVE  AttestationInv'
  <1>1. \A j : Declared(j)' = Declared(j)
    BY DEF Declared, Identities
  <1>2. FilesInv' /\ CacheInv'
    BY <1>1 DEF AttestationInv, FilesInv, CacheInv, Identities
  <1>3. ASSUME NEW d \in Callers PROVE CallerInv(d)'
    BY <1>1, <1>3 DEF AttestationInv, CallerInv
  <1> QED
    BY <1>2, <1>3 DEF AttestationInv

\* A step of the worker of one file, before it delivers.
LEMMA WorkerStep ==
  ASSUME AttestationInv, UNCHANGED <<contents, present, attested, caller>>, NEW f \in Attesting!Files,
         flight[f].at # "none", NEW w \in FlightRecord, w.at # "none",
         flight' = [flight EXCEPT ![f] = w], FlightInv(f)'
  PROVE  AttestationInv'
  <1>1. \A j : Declared(j)' = Declared(j)
    BY DEF Declared, Identities
  <1>2. FilesInv' /\ CacheInv'
    BY <1>1 DEF AttestationInv, FilesInv, CacheInv, Identities
  <1>3. /\ flight' \in [Attesting!Files -> FlightRecord]
        /\ flight'[f] = w /\ \A g \in Attesting!Files \ {f} : flight'[g] = flight[g]
    BY DEF AttestationInv
  <1>4. ASSUME NEW g \in Attesting!Files PROVE FlightInv(g)'
    BY <1>1, <1>3 DEF AttestationInv, FlightInv
  <1>5. \A g : flight[g].at # "none" => flight'[g].at # "none"
    BY DEF AttestationInv
  <1>6. ASSUME NEW d \in Callers PROVE CallerInv(d)'
    BY <1>1, <1>5 DEF AttestationInv, CallerInv
  <1> QED
    BY <1>2, <1>3, <1>4, <1>6 DEF AttestationInv

\* The table keeps within its size, and what it remembers is declared.
LEMMA RememberedIsDeclared ==
  ASSUME AttestationInv, NEW f \in Attesting!Files, NEW i, Declared(i)
  PROVE  /\ Attesting!Remember(f, i) \in Seq(Attesting!Files \X Nat)
         /\ Len(Attesting!Remember(f, i)) <= CacheMax
         /\ \A k \in DOMAIN Attesting!Remember(f, i) : Declared(Attesting!Remember(f, i)[k][2])
  <1> DEFINE Entry == Attesting!Files \X Nat
             Mine(e) == e[1] = f
             kept == IF \E k \in DOMAIN attested : Mine(attested[k])
                       THEN [k \in DOMAIN attested |-> IF Mine(attested[k]) THEN <<f, i>> ELSE attested[k]]
                       ELSE Append(attested, <<f, i>>)
  <1>1. /\ attested \in Seq(Entry) /\ Len(attested) <= CacheMax /\ Len(attested) \in Nat /\ CacheMax \in Nat
        /\ \A k \in DOMAIN attested : Declared(attested[k][2])
        /\ <<f, i>> \in Entry /\ <<f, i>>[2] = i
    BY AttestationAssumption DEF AttestationInv, CacheInv, Declared, Identities, FilesInv
  <1>2. /\ kept \in Seq(Entry) /\ Len(kept) \in 0..(CacheMax + 1)
        /\ \A k \in DOMAIN kept : Declared(kept[k][2])
    <2> HIDE DEF Entry
    <2>1. CASE \E k \in DOMAIN attested : Mine(attested[k])
      <3>1. kept = [k \in DOMAIN attested |-> IF Mine(attested[k]) THEN <<f, i>> ELSE attested[k]]
        BY <2>1
      <3> HIDE DEF kept, Mine
      <3>2. kept = [k \in 1..Len(attested) |-> IF Mine(attested[k]) THEN <<f, i>> ELSE attested[k]]
        BY <1>1, <3>1
      <3>3. \A k \in 1..Len(attested) : kept[k] \in Entry /\ Declared(kept[k][2])
        BY <1>1, <3>2
      <3>4. kept \in Seq(Entry) /\ Len(kept) = Len(attested)
        BY <1>1, <3>2, <3>3
      <3> QED
        BY <1>1, <3>3, <3>4
    <2>2. CASE ~\E k \in DOMAIN attested : Mine(attested[k])
      <3>1. kept = Append(attested, <<f, i>>)
        BY <2>2
      <3> HIDE DEF kept, Mine
      <3>2. kept \in Seq(Entry) /\ Len(kept) = Len(attested) + 1 /\ DOMAIN kept = 1..Len(kept)
        BY <1>1, <3>1
      <3>3. ASSUME NEW k \in DOMAIN kept PROVE Declared(kept[k][2])
        <4>1. CASE k = Len(attested) + 1
          BY <1>1, <3>1, <4>1
        <4>2. CASE k # Len(attested) + 1
          <5>1. k \in DOMAIN attested /\ kept[k] = attested[k]
            BY <1>1, <3>1, <3>2, <4>2
          <5> QED
            BY <1>1, <5>1
        <4> QED
          BY <4>1, <4>2
      <3> QED
        BY <1>1, <3>2, <3>3
    <2> QED
      BY <2>1, <2>2
  <1>3. Attesting!Remember(f, i) = IF Len(kept) > CacheMax THEN Tail(kept) ELSE kept
    BY DEF Attesting!Remember
  <1> HIDE DEF kept, Entry
  <1>4. CASE Len(kept) > CacheMax
    <2>1. /\ Tail(kept) \in Seq(Entry) /\ Len(Tail(kept)) = Len(kept) - 1
          /\ DOMAIN Tail(kept) = 1..(Len(kept) - 1)
          /\ \A k \in 1..(Len(kept) - 1) : Tail(kept)[k] = kept[k + 1] /\ k + 1 \in DOMAIN kept
      BY <1>1, <1>2, <1>4
    <2>2. Tail(kept) \in Seq(Entry) /\ Len(Tail(kept)) <= CacheMax
      BY <1>1, <1>2, <1>4, <2>1
    <2>3. \A k \in DOMAIN Tail(kept) : Declared(Tail(kept)[k][2])
      BY <1>2, <2>1
    <2> QED
      BY <1>3, <1>4, <2>2, <2>3 DEF Entry
  <1> QED
    BY <1>1, <1>2, <1>3, <1>4 DEF Entry

\* What the worker delivers: to the table, and to all who still wait.
LEMMA DeliverKeeps ==
  ASSUME AttestationInv, NEW f \in Attesting!Files, Attesting!Deliver(f)
  PROVE  AttestationInv'
  <1> DEFINE waiting == {c \in Callers : caller[c].at = "wait" /\ Attesting!Of(c) = f}
             good == flight[f].digest = "declared"
             i == flight[f].before
  <1>1. /\ flight[f].at = "deliver" /\ flight' = [flight EXCEPT ![f] = Attesting!NoFlight]
        /\ attested' = IF good THEN Attesting!Remember(f, i) ELSE attested
        /\ caller' = [c \in Callers |->
                        IF c \notin waiting THEN caller[c]
                        ELSE IF good THEN Attesting!Accepted(c, i)[c]
                        ELSE [caller[c] EXCEPT !.at = "refused"]]
        /\ UNCHANGED <<contents, present, left>>
    BY DEF Attesting!Deliver
  <1>2. good => Declared(i)
    BY <1>1 DEF AttestationInv, FlightInv
  <1>3. \A j : Declared(j)' = Declared(j)
    BY <1>1 DEF Declared, Identities
  <1>4. FilesInv'
    BY <1>1 DEF AttestationInv, FilesInv, Identities
  <1>5. CacheInv'
    <2>1. CASE good
      BY <1>1, <1>2, <1>3, <2>1, RememberedIsDeclared DEF CacheInv
    <2>2. CASE ~good
      BY <1>1, <1>3, <2>2 DEF AttestationInv, CacheInv
    <2> QED
      BY <2>1, <2>2
  <1>6. flight' \in [Attesting!Files -> FlightRecord] /\ \A g \in Attesting!Files : FlightInv(g)'
    BY <1>1, <1>3 DEF AttestationInv, FlightInv, FlightRecord, Attesting!NoFlight, FilesInv
  <1>7. ASSUME NEW c \in Callers PROVE caller'[c] \in CallerRecord /\ CallerInv(c)'
    <2>1. CASE c \notin waiting
      <3>1. caller'[c] = caller[c]
        BY <1>1, <2>1
      <3>2. caller[c].at = "wait" => Artifacts[caller[c].file] \in Attesting!Files \ {f}
        BY <2>1, AttestedFile
      <3>3. caller[c].at = "wait" => flight'[Artifacts[caller[c].file]].at # "none"
        BY <1>1, <3>2 DEF AttestationInv, CallerInv
      <3> QED
        BY <1>3, <3>1, <3>3 DEF AttestationInv, CallerInv
    <2>2. CASE c \in waiting /\ good
      <3>1. caller'[c] = Attesting!Accepted(c, i)[c]
        BY <1>1, <2>2
      <3> HIDE DEF i
      <3> QED
        BY <1>1, <1>2, <2>2, <3>1, AcceptedCaller
    <2>3. CASE c \in waiting /\ ~good
      <3> DEFINE q == [caller[c] EXCEPT !.at = "refused"]
      <3>1. caller'[c] = q
        BY <1>1, <2>3
      <3>2. q \in CallerRecord /\ q.at = "refused" /\ q.vouched = caller[c].vouched
        BY DEF AttestationInv, CallerRecord
      <3> HIDE DEF q
      <3>3. \A k \in DOMAIN caller'[c].vouched : Declared(caller'[c].vouched[k])
        BY <3>1, <3>2 DEF AttestationInv, CallerInv
      <3> QED
        BY <1>3, <3>1, <3>2, <3>3 DEF CallerInv
    <2> QED
      BY <2>1, <2>2, <2>3
  <1>8. caller' \in [Callers -> CallerRecord]
    BY <1>1, <1>7
  <1> QED
    BY <1>4, <1>5, <1>6, <1>7, <1>8 DEF AttestationInv

\* A replaced file takes an identity nothing has referred to.
LEMMA ModifyKeeps ==
  ASSUME AttestationInv, NEW f \in Attesting!Files, Attesting!Modify(f)
  PROVE  AttestationInv'
  <1>1. PICK what \in {"declared", "other"} : contents' = Append(contents, what)
    BY DEF Attesting!Modify
  <1>2. /\ Len(contents) < Versions /\ present' = [present EXCEPT ![f] = Len(contents) + 1]
        /\ UNCHANGED <<attested, flight, caller>>
    BY DEF Attesting!Modify
  <1>3. /\ contents' \in Seq({"declared", "other"}) /\ Len(contents') = Len(contents) + 1
        /\ Len(contents) \in Nat /\ Identities' = 1..(Len(contents) + 1)
        /\ \A j \in Identities : contents'[j] = contents[j] /\ j \in Identities'
    BY <1>1 DEF AttestationInv, FilesInv, Identities
  <1>4. \A j : Declared(j) => Declared(j)'
    BY <1>3 DEF Declared
  <1>5. FilesInv'
    BY <1>2, <1>3, AttestationAssumption DEF AttestationInv, FilesInv, Identities
  <1>6. CacheInv'
    BY <1>2, <1>4 DEF AttestationInv, CacheInv
  <1>7. ASSUME NEW g \in Attesting!Files PROVE FlightInv(g)'
    <2>1. /\ flight[g].before \in 0..(Len(contents) + 1)
          /\ flight[g].at = "deliver" /\ flight[g].digest = "declared" => Declared(flight[g].before)'
      BY <1>2, <1>3, <1>4 DEF AttestationInv, FlightInv
    <2>2. CASE g = f
      <3>1. present'[g] = Len(contents) + 1 /\ present[g] \in 1..Len(contents)
        BY <1>2, <2>2 DEF AttestationInv, FilesInv, Identities
      <3> QED
        BY <1>2, <1>3, <2>1, <3>1 DEF AttestationInv, FlightInv
    <2>3. CASE g # f
      <3>1. present'[g] = present[g] /\ present[g] \in Identities
        BY <1>2, <2>3 DEF AttestationInv, FilesInv
      <3>2. flight[g].at = "after" /\ flight[g].before = present[g] => contents'[flight[g].before] = contents[flight[g].before]
        BY <1>3, <3>1
      <3> QED
        BY <1>2, <1>3, <2>1, <3>1, <3>2 DEF AttestationInv, FlightInv
    <2> QED
      BY <2>2, <2>3
  <1>8. ASSUME NEW c \in Callers PROVE CallerInv(c)'
    BY <1>2, <1>4 DEF AttestationInv, CallerInv
  <1> QED
    BY <1>2, <1>5, <1>6, <1>7, <1>8 DEF AttestationInv

LEMMA AttestationStep ==
  ASSUME AttestationInv, [Attesting!Next]_Attesting!attestVars
  PROVE  AttestationInv'
  <1>0. /\ caller \in [Callers -> CallerRecord] /\ flight \in [Attesting!Files -> FlightRecord]
        /\ present \in [Attesting!Files -> Nat]
    BY DEF AttestationInv, FilesInv, Identities
  <1>a. ASSUME UNCHANGED <<contents, present, attested, flight>>
        PROVE  /\ flight' \in [Attesting!Files -> FlightRecord] /\ \A f \in Attesting!Files : FlightInv(f)'
               /\ \A f : flight[f].at # "none" => flight'[f].at # "none"
               /\ \A j : Declared(j)' = Declared(j)
    BY <1>a DEF AttestationInv, FlightInv, Declared, Identities
  <1>1. ASSUME NEW c \in Callers, Attesting!Stat(c) PROVE AttestationInv'
    <2>1. /\ caller[c].at = "stat" /\ UNCHANGED <<contents, present, attested, flight>>
          /\ caller' = [caller EXCEPT ![c].at = "look", ![c].seen = present[Attesting!Of(c)]]
      BY <1>1 DEF Attesting!Stat
    <2> DEFINE q == [caller[c] EXCEPT !.at = "look", !.seen = present[Attesting!Of(c)]]
    <2>2. present[Attesting!Of(c)] \in Nat
      BY <1>0, <2>1, AttestedFile
    <2>3. /\ q \in CallerRecord /\ q.at = "look" /\ q.file = caller[c].file /\ q.vouched = caller[c].vouched
      BY <1>0, <2>2 DEF CallerRecord
    <2>4. caller' = [caller EXCEPT ![c] = q]
      BY <1>0, <2>1
    <2> HIDE DEF q
    <2>5. CallerInv(c)'
      BY <1>0, <1>a, <2>1, <2>3, <2>4 DEF AttestationInv, CallerInv
    <2> QED
      BY <1>0, <1>a, <2>1, <2>3, <2>4, <2>5, CallerStep
  <1>2. ASSUME NEW c \in Callers, Attesting!StatFails(c) \/ Attesting!Cancel(c) PROVE AttestationInv'
    <2>1. PICK next \in {"refused", "gone"} : caller' = [caller EXCEPT ![c].at = next]
      BY <1>2 DEF Attesting!StatFails, Attesting!Cancel
    <2>2. UNCHANGED <<contents, present, attested, flight>>
      BY <1>2 DEF Attesting!StatFails, Attesting!Cancel
    <2>3. caller' \in [Callers -> CallerRecord] /\ CallerInv(c)'
      BY <1>0, <1>a, <2>1, <2>2 DEF AttestationInv, CallerInv, CallerRecord
    <2> QED
      BY <1>0, <1>a, <2>1, <2>2, <2>3, CallerStep
  <1>3. ASSUME NEW c \in Callers, Attesting!Again(c) PROVE AttestationInv'
    <2> DEFINE q == [at |-> "stat", file |-> 1, seen |-> 0, vouched |-> <<>>]
    <2>1. caller' = [caller EXCEPT ![c] = q] /\ UNCHANGED <<contents, present, attested, flight>>
      BY <1>3 DEF Attesting!Again
    <2>2. q \in CallerRecord /\ 1 \in 1..Len(Artifacts)
      BY AttestationAssumption DEF CallerRecord
    <2>3. CallerInv(c)'
      BY <1>0, <2>1, <2>2 DEF CallerInv
    <2> QED
      BY <1>0, <1>a, <2>1, <2>2, <2>3, CallerStep
  <1>4. ASSUME NEW c \in Callers, Attesting!Look(c) PROVE AttestationInv'
    <2>1. caller[c].at = "look" /\ UNCHANGED <<contents, present, attested, left>>
      BY <1>4 DEF Attesting!Look
    <2>2. CASE caller[c].seen \in Attesting!Cached(Attesting!Of(c))
      <3>1. caller' = Attesting!Accepted(c, caller[c].seen) /\ UNCHANGED flight
        BY <1>4, <2>2 DEF Attesting!Look
      <3>2. Declared(caller[c].seen)
        BY <2>2 DEF Attesting!Cached, AttestationInv, CacheInv
      <3>3. caller'[c] \in CallerRecord /\ CallerInv(c)'
        BY <2>1, <3>1, <3>2, AcceptedCaller
      <3>4. \A d \in Callers \ {c} : caller'[d] = caller[d]
        BY <1>0, <3>1 DEF Attesting!Accepted
      <3>5. caller' \in [Callers -> CallerRecord]
        <4>1. DOMAIN caller' = Callers /\ caller' = [d \in DOMAIN caller' |-> caller'[d]]
          BY <1>0, <3>1 DEF Attesting!Accepted
        <4> QED
          BY <1>0, <3>3, <3>4, <4>1
      <3> QED
        BY <1>0, <1>a, <2>1, <3>1, <3>3, <3>4, <3>5, CallerStep
    <2>3. CASE caller[c].seen \notin Attesting!Cached(Attesting!Of(c))
      <3> DEFINE f == Attesting!Of(c)
      <3>1. /\ caller' = [caller EXCEPT ![c].at = "wait"]
            /\ flight' = IF flight[f].at # "none" THEN flight
                         ELSE [flight EXCEPT ![f] = [Attesting!NoFlight EXCEPT !.at = "before"]]
        BY <1>4, <2>3 DEF Attesting!Look
      <3>2. f \in Attesting!Files /\ f = Artifacts[caller[c].file]
        BY <2>1, AttestedFile
      <3>3. /\ flight' \in [Attesting!Files -> FlightRecord] /\ flight'[f].at # "none"
            /\ \A g : flight[g].at # "none" => flight'[g].at # "none"
        BY <1>0, <3>1, <3>2 DEF FlightRecord, Attesting!NoFlight
      <3>4. ASSUME NEW g \in Attesting!Files PROVE FlightInv(g)'
        <4>1. /\ FlightInv(g) /\ UNCHANGED <<contents, present>>
              /\ \A j : Declared(j)' <=> Declared(j)
          BY <2>1 DEF AttestationInv, Declared, Identities
        <4>2. \/ flight'[g] = flight[g]
              \/ flight'[g].at = "before" /\ flight'[g].before = 0
          BY <1>0, <3>1, <3>2 DEF Attesting!NoFlight
        <4> QED
          BY <4>1, <4>2 DEF FlightInv, FilesInv, AttestationInv
      <3>5. caller' \in [Callers -> CallerRecord] /\ CallerInv(c)'
        <4>1. caller[c] \in CallerRecord /\ caller'[c] = [caller[c] EXCEPT !.at = "wait"]
          BY <1>0, <3>1
        <4>2. /\ caller'[c] \in CallerRecord /\ caller'[c].at = "wait"
              /\ caller'[c].file = caller[c].file /\ caller'[c].vouched = caller[c].vouched
          BY <4>1 DEF CallerRecord
        <4>3. caller' \in [Callers -> CallerRecord]
          BY <1>0, <3>1, <4>2
        <4>4. \A j : Declared(j)' <=> Declared(j)
          BY <2>1 DEF Declared, Identities
        <4>5. CallerInv(c)
          BY DEF AttestationInv
        <4> QED
          BY <2>1, <3>2, <3>3, <4>2, <4>3, <4>4, <4>5 DEF CallerInv
      <3> QED
        BY <1>0, <2>1, <3>1, <3>3, <3>4, <3>5, CallerStep
    <2> QED
      BY <2>2, <2>3
  <1>5. ASSUME NEW f \in Attesting!Files,
               \/ Attesting!StatBefore(f) \/ Attesting!Hash(f) \/ Attesting!StatAfter(f) \/ Attesting!HashFails(f)
        PROVE  AttestationInv'
    <2> DEFINE w == flight[f]
    <2>1. w \in FlightRecord /\ UNCHANGED <<contents, present, attested, caller>> /\ w.at # "none"
          /\ present[f] \in Identities
      BY <1>0, <1>5 DEF Attesting!StatBefore, Attesting!Hash, Attesting!StatAfter, Attesting!HashFails,
         AttestationInv, FilesInv
    <2>2. CASE Attesting!StatBefore(f)
      <3> DEFINE n == [w EXCEPT !.at = "hash", !.before = present[f]]
      <3>1. n \in FlightRecord /\ n.at = "hash" /\ n.before = present[f]
        BY <1>0, <2>1 DEF FlightRecord
      <3>2. flight' = [flight EXCEPT ![f] = n]
        BY <1>0, <2>2 DEF Attesting!StatBefore
      <3> HIDE DEF n, w
      <3>3. FlightInv(f)'
        BY <1>0, <2>1, <3>1, <3>2 DEF FlightInv, Identities, FilesInv, AttestationInv
      <3> QED
        BY <2>1, <3>1, <3>2, <3>3, WorkerStep DEF w
    <2>3. CASE Attesting!Hash(f)
      <3> DEFINE n == [w EXCEPT !.at = "after", !.digest = contents[present[f]]]
      <3>1. n \in FlightRecord /\ n.at = "after" /\ n.before = w.before /\ n.digest = contents[present[f]]
        <4>1. contents[present[f]] \in {"declared", "other"}
          BY <2>1 DEF Identities, AttestationInv, FilesInv
        <4> QED
          BY <2>1, <4>1 DEF FlightRecord
      <3>2. flight' = [flight EXCEPT ![f] = n] /\ w.at = "hash"
        BY <1>0, <2>3 DEF Attesting!Hash
      <3>3. w.before \in 1..present[f] /\ w.before \in 0..Len(contents)
        BY <3>2 DEF AttestationInv, FlightInv
      <3> HIDE DEF n, w
      <3>4. FlightInv(f)'
        BY <1>0, <2>1, <3>1, <3>2, <3>3 DEF FlightInv
      <3> QED
        BY <2>1, <3>1, <3>2, <3>4, WorkerStep DEF w
    <2>4. CASE Attesting!StatAfter(f)
      <3> DEFINE n == [w EXCEPT !.at = "deliver", !.digest = IF present[f] = w.before THEN w.digest ELSE "mutated"]
      <3>1. /\ n \in FlightRecord /\ n.at = "deliver" /\ n.before = w.before
            /\ n.digest = "declared" => present[f] = w.before /\ w.digest = "declared"
        BY <2>1 DEF FlightRecord
      <3>2. flight' = [flight EXCEPT ![f] = n] /\ w.at = "after"
        BY <1>0, <2>4 DEF Attesting!StatAfter, FlightRecord
      <3>3. /\ w.before \in 0..Len(contents)
            /\ n.digest = "declared" => Declared(w.before)
        BY <2>1, <3>1, <3>2 DEF AttestationInv, FlightInv, Declared
      <3> HIDE DEF n, w
      <3>4. \A j : Declared(j) => Declared(j)'
        BY <2>1 DEF Declared, Identities
      <3>5. FlightInv(f)'
        BY <1>0, <2>1, <3>1, <3>2, <3>3, <3>4 DEF FlightInv
      <3> QED
        BY <2>1, <3>1, <3>2, <3>5, WorkerStep DEF w
    <2>5. CASE Attesting!HashFails(f)
      <3> DEFINE n == [w EXCEPT !.at = "deliver", !.digest = "unreadable"]
      <3>1. n \in FlightRecord /\ n.at = "deliver" /\ n.before = w.before /\ n.digest = "unreadable"
        BY <2>1 DEF FlightRecord
      <3>2. flight' = [flight EXCEPT ![f] = n] /\ w.before \in 0..Len(contents)
        BY <1>0, <2>5 DEF Attesting!HashFails, AttestationInv, FlightInv
      <3> HIDE DEF n, w
      <3>3. FlightInv(f)'
        BY <1>0, <2>1, <3>1, <3>2 DEF FlightInv
      <3> QED
        BY <2>1, <3>1, <3>2, <3>3, WorkerStep DEF w
    <2> QED
      BY <1>5, <2>2, <2>3, <2>4, <2>5
  <1>6. CASE UNCHANGED Attesting!attestVars
    BY <1>6 DEF Attesting!attestVars, AttestationInv, FilesInv, CacheInv, FlightInv, CallerInv, Declared, Identities
  <1> QED
    BY <1>1, <1>2, <1>3, <1>4, <1>5, <1>6, DeliverKeeps, ModifyKeeps DEF Attesting!Next

\* integrity.py: whatever is written to the models directory while files are hashed,
\* however callers share a flight or are cancelled, what vouches for a file, in the
\* table or in an answer, is a hash of the declared bytes, and who may be served has
\* one for every file.
THEOREM VouchedAlwaysDeclared == Spec => []VouchedIsDeclared
  <1> DEFINE Inv == job = "attestation" => AttestationInv
  <1>1. Init => Inv
    BY Alone, AttestationInit
  <1>2. Inv /\ [Next]_vars => Inv'
    BY Alone, AttestationStep
  <1>3. AttestationInv => Attesting!AttestationTypeOK
    BY DEF AttestationInv, FilesInv, CacheInv, FlightInv, FlightRecord, CallerRecord, Identities,
       Attesting!AttestationTypeOK
  <1>4. AttestationInv => Attesting!VouchedIsDeclared
    <2> SUFFICES ASSUME AttestationInv PROVE Attesting!VouchedIsDeclared
      OBVIOUS
    <2>1. ASSUME NEW c \in Callers, caller[c].at = "wait" PROVE flight[Attesting!Of(c)].at # "none"
      BY <2>1 DEF AttestationInv, CallerInv, Attesting!Of
    <2> QED
      BY <2>1 DEF AttestationInv, CacheInv, CallerInv, Declared, Attesting!VouchedIsDeclared
  <1>5. Inv => VouchedIsDeclared
    BY <1>3, <1>4 DEF VouchedIsDeclared
  <1> QED
    BY <1>1, <1>2, <1>5, PTL DEF Spec

-----------------------------------------------------------------------------
(* The schema: Migrations                                                  *)

Kept == IF Keep > 1 THEN Keep ELSE 1

\* No more processes start than copies are kept: beyond that the copies that late
\* starters make push out the first.
FewProcesses == IsFiniteSet(Processes) /\ Cardinality(Processes) <= Kept

Database == [version : 0..Migration!Last, column : BOOLEAN, data : BOOLEAN]
Copy     == [label : 0..Migration!Last, content : 0..Migration!Last]

MigrationTypes ==
  /\ db \in Database /\ found \in Database
  /\ lock \in Processes \cup {Migration!Nobody}
  /\ pc \in [Processes -> {"off", "refused", "backup", "migrate", "locked", "prune", "started"}]
  /\ current \in [Processes -> 0..Migration!Last] /\ pending \in [Processes -> Nat]
  /\ backups \in Seq(Copy) /\ kills \in Nat
  /\ applied \in [1..Migration!Last -> Nat]

\* The version records what was applied, and only the holder of the lock applies.
SchemaInv ==
  /\ \A p \in Processes : pc[p] = "locked" => lock = p
  /\ \A p \in Processes : pc[p] \in {"backup", "migrate", "locked"} => pending[p] \in 1..Known[p]
  /\ \A v \in 1..Migration!Last : applied[v] <= 1 /\ (applied[v] = 1 => v <= db.version)

\* The processes that may have left a copy.
Saved == {p \in Processes : pc[p] \in {"migrate", "locked", "prune", "started"}}

HasCopy == \E i \in DOMAIN backups : backups[i].content = found.version

\* As long as nobody was killed, each process left one copy at most, so that none had
\* to go; and nobody comes to change data before a copy of what was found exists.
Orderly == found.data /\ kills = 0 /\ FewProcesses

CopyInv ==
  Orderly =>
    /\ db.data /\ db.version >= found.version
    /\ Len(backups) <= Cardinality(Saved)
    /\ (db.version > found.version \/ \E p \in Processes : pc[p] \in {"migrate", "locked"}) => HasCopy

MigrationInv == MigrationTypes /\ SchemaInv /\ CopyInv

LEMMA MigrationInit ==
  ASSUME Migration!Init
  PROVE  MigrationInv
  <1>0. db \in Database
    <2>1. \/ db = [version |-> 0, column |-> FALSE, data |-> TRUE]
          \/ db = [version |-> 0, column |-> FALSE, data |-> FALSE]
          \/ db = [version |-> 1, column |-> FALSE, data |-> TRUE]
      BY Zenon DEF Migration!Init
    <2>2. /\ [version |-> 0, column |-> FALSE, data |-> TRUE] \in Database
          /\ [version |-> 0, column |-> FALSE, data |-> FALSE] \in Database
          /\ [version |-> 1, column |-> FALSE, data |-> TRUE] \in Database
      BY DEF Database, Migration!Last
    <2> QED
      BY <2>1, <2>2, Zenon
  <1>1. /\ found = db /\ backups = <<>> /\ kills = 0 /\ lock = Migration!Nobody
        /\ applied = [v \in 1..Migration!Last |-> 0] /\ pc = [p \in Processes |-> "off"]
        /\ current = [p \in Processes |-> 0] /\ pending = [p \in Processes |-> 1]
    BY DEF Migration!Init
  <1>2. MigrationTypes
    BY <1>0, <1>1 DEF MigrationTypes, Migration!Last
  <1>3. SchemaInv
    BY <1>1 DEF SchemaInv
  <1>4. Saved = {}
    BY <1>1 DEF Saved
  <1>5. Len(backups) <= Cardinality(Saved)
    BY <1>1, <1>4, FS_EmptySet
  <1>6. CopyInv
    BY <1>0, <1>1, <1>5 DEF CopyInv, Orderly, Database, Migration!Last
  <1> QED
    BY <1>2, <1>3, <1>6 DEF MigrationInv

LEMMA SavedCount ==
  ASSUME FewProcesses
  PROVE  /\ IsFiniteSet(Saved) /\ Cardinality(Saved) \in Nat /\ Cardinality(Saved) <= Kept
         /\ Saved \subseteq Saved' => Cardinality(Saved) <= Cardinality(Saved')
         /\ \A p \in Saved' : Saved \subseteq Saved' /\ p \notin Saved =>
              Cardinality(Saved) + 1 <= Cardinality(Saved')
  <1>1. Saved \subseteq Processes /\ Saved' \subseteq Processes
    BY DEF Saved
  <1>2. IsFiniteSet(Saved) /\ IsFiniteSet(Saved') /\ Cardinality(Saved) <= Cardinality(Processes)
    BY <1>1, FS_Subset, MigrationAssumption DEF FewProcesses
  <1>3. /\ Cardinality(Saved) \in Nat /\ Cardinality(Saved') \in Nat /\ Cardinality(Processes) \in Nat
        /\ Kept \in Nat
    BY <1>2, FS_CardinalityType, MigrationAssumption DEF FewProcesses, Kept
  <1>4. Saved \subseteq Saved' => Cardinality(Saved) <= Cardinality(Saved')
    BY <1>2, FS_Subset
  <1>5. ASSUME NEW p \in Saved', Saved \subseteq Saved', p \notin Saved
        PROVE  Cardinality(Saved) + 1 <= Cardinality(Saved')
    <2>1. Cardinality(Saved \cup {p}) = Cardinality(Saved) + 1
      BY <1>2, <1>5, FS_AddElement
    <2>2. Saved \cup {p} \subseteq Saved'
      BY <1>5
    <2> QED
      BY <1>2, <2>1, <2>2, FS_Subset
  <1> QED
    BY <1>2, <1>3, <1>4, <1>5, MigrationAssumption DEF FewProcesses

\* While each copy has a process of its own, there is nothing to prune.
LEMMA NothingToPrune ==
  ASSUME MigrationInv, Orderly
  PROVE  Migration!Newest(backups) = backups
  <1>1. Len(backups) <= Kept /\ Len(backups) \in Nat
    BY SavedCount, MigrationAssumption DEF MigrationInv, MigrationTypes, CopyInv, Orderly, Kept
  <1> QED
    BY <1>1 DEF Migration!Newest, Kept

LEMMA NewestIsCopies ==
  ASSUME MigrationInv
  PROVE  Migration!Newest(backups) \in Seq(Copy)
  BY MigrationAssumption DEF MigrationInv, MigrationTypes, Migration!Newest

\* How the step of one process bears on the copies.
LEMMA CopiesKept ==
  ASSUME MigrationInv, MigrationTypes', found' = found,
         kills' = 0 => kills = 0,
         Orderly /\ Orderly' =>
           /\ db'.data /\ db'.version >= db.version
           /\ Saved \subseteq Saved'
           /\ \/ backups' = backups
              \/ \E p \in Saved' : /\ p \notin Saved /\ backups' = Append(backups, [label |-> current[p], content |-> db.version])
           /\ HasCopy' \/ HasCopy \/ (db'.version = found.version /\ ~\E p \in Processes : pc'[p] \in {"migrate", "locked"})
  PROVE  CopyInv'
  <1> SUFFICES ASSUME Orderly, Orderly'
               PROVE  /\ db'.data /\ db'.version >= found.version
                      /\ Len(backups') <= Cardinality(Saved')
                      /\ (db'.version > found.version \/ \E p \in Processes : pc'[p] \in {"migrate", "locked"})
                            => HasCopy'
    BY DEF CopyInv, Orderly
  <1>1. /\ db.version \in Nat /\ db'.version \in Nat /\ found.version \in Nat
        /\ backups \in Seq(Copy) /\ backups' \in Seq(Copy)
    BY DEF MigrationInv, MigrationTypes, Database, Migration!Last
  <1>2. db.data /\ db.version >= found.version /\ Len(backups) <= Cardinality(Saved)
    BY DEF MigrationInv, CopyInv
  <1>3. db'.version >= found.version
    BY <1>1, <1>2
  <1>4. Len(backups') <= Cardinality(Saved') /\ (HasCopy => HasCopy')
    <2>1. CASE backups' = backups
      <3>1. Cardinality(Saved) <= Cardinality(Saved') /\ Cardinality(Saved) \in Nat /\ Cardinality(Saved') \in Nat
        <4>1. Saved' \subseteq Processes
          BY DEF Saved
        <4> QED
          BY SavedCount, <4>1, FS_Subset, FS_CardinalityType DEF Orderly, FewProcesses
      <3> QED
        BY <1>1, <1>2, <2>1, <3>1 DEF HasCopy
    <2>2. CASE backups' # backups
      <3>1. PICK p \in Saved' : /\ p \notin Saved
                                /\ backups' = Append(backups, [label |-> current[p], content |-> db.version])
        BY <2>2
      <3>2. Cardinality(Saved) + 1 <= Cardinality(Saved') /\ Cardinality(Saved) \in Nat /\ Cardinality(Saved') \in Nat
        <4>1. Saved' \subseteq Processes
          BY DEF Saved
        <4> QED
          BY <3>1, SavedCount, <4>1, FS_Subset, FS_CardinalityType DEF Orderly, FewProcesses
      <3>3. Len(backups') = Len(backups) + 1 /\ \A i \in DOMAIN backups : i \in DOMAIN backups' /\ backups'[i] = backups[i]
        BY <1>1, <3>1
      <3> QED
        BY <1>1, <1>2, <3>2, <3>3 DEF HasCopy
    <2> QED
      BY <2>1, <2>2
  <1>5. HasCopy' \/ (db'.version = found.version /\ ~\E p \in Processes : pc'[p] \in {"migrate", "locked"})
    BY <1>4
  <1> QED
    BY <1>1, <1>3, <1>4, <1>5

LEMMA MigrationStep ==
  ASSUME MigrationInv, [Migration!Next]_Migration!vars
  PROVE  MigrationInv'
  <1>0. /\ db \in Database /\ db.version \in 0..2 /\ found \in Database /\ Migration!Last = 2
        /\ pc \in [Processes -> {"off", "refused", "backup", "migrate", "locked", "prune", "started"}]
        /\ pending \in [Processes -> Nat] /\ current \in [Processes -> 0..2]
        /\ Known \in [Processes -> 0..2] /\ backups \in Seq(Copy) /\ kills \in Nat
    BY MigrationAssumption DEF MigrationInv, MigrationTypes, Database, Migration!Last
  <1>1. ASSUME NEW p \in Processes, Migration!ReadVersion(p), found' = found PROVE MigrationInv'
    <2>1. /\ pc[p] = "off" /\ UNCHANGED <<db, applied, backups, lock, kills>>
          /\ current' = [current EXCEPT ![p] = db.version] /\ pending' = [pending EXCEPT ![p] = db.version + 1]
      BY <1>1 DEF Migration!ReadVersion
    <2> DEFINE next == IF db.version > Known[p] THEN "refused"
                     ELSE IF db.version = Known[p] THEN "started"
                     ELSE IF db.data THEN "backup" ELSE "migrate"
    <2>2. /\ pc' = [pc EXCEPT ![p] = next]
          /\ next \in {"refused", "started", "backup", "migrate"}
          /\ next \in {"backup", "migrate"} => db.version < Known[p]
          /\ next = "migrate" => ~db.data
      <3>1. pc' = [pc EXCEPT ![p] = next]
        BY <1>1, Zenon DEF Migration!ReadVersion, Migration!Goto
      <3>2. db.version \in 0..2 /\ Known[p] \in 0..2
        BY <1>0
      <3> QED
        BY <3>1, <3>2
    <2> HIDE DEF next
    <2>3. MigrationTypes'
      BY <1>0, <1>1, <2>1, <2>2 DEF MigrationInv, MigrationTypes
    <2>4. SchemaInv'
      <3>1. ASSUME NEW q \in Processes
            PROVE  /\ pc'[q] = "locked" => lock' = q
                   /\ pc'[q] \in {"backup", "migrate", "locked"} => pending'[q] \in 1..Known[q]
        <4>1. CASE q = p
          <5>1. pc'[p] = next /\ pending'[p] = db.version + 1 /\ Known[p] \in 0..2
            BY <1>0, <2>1, <2>2
          <5> QED
            BY <1>0, <2>2, <4>1, <5>1
        <4>2. CASE q # p
          <5>1. pc'[q] = pc[q] /\ pending'[q] = pending[q] /\ lock' = lock
            BY <1>0, <2>1, <2>2, <4>2
          <5> QED
            BY <5>1 DEF MigrationInv, SchemaInv
        <4> QED
          BY <4>1, <4>2
      <3> QED
        BY <2>1, <3>1 DEF MigrationInv, SchemaInv
    <2>5. Orderly => Saved \subseteq Saved' /\ next # "migrate"
      BY <1>0, <2>1, <2>2 DEF Saved, MigrationInv, CopyInv
    <2>6. CopyInv'
      <3>1. /\ db' = db /\ backups' = backups /\ kills' = kills /\ db.version \in Nat
            /\ Orderly => db.data
        BY <1>0, <2>1 DEF MigrationInv, CopyInv
      <3>2. Orderly =>
              HasCopy \/ (db.version = found.version /\ ~\E q \in Processes : pc'[q] \in {"migrate", "locked"})
        <4> SUFFICES ASSUME Orderly, ~HasCopy
                     PROVE  db.version = found.version /\ ~\E q \in Processes : pc'[q] \in {"migrate", "locked"}
          OBVIOUS
        <4>1. db.version = found.version /\ ~\E q \in Processes : pc[q] \in {"migrate", "locked"}
          BY <1>0 DEF MigrationInv, CopyInv, Database
        <4> QED
          BY <1>0, <2>2, <2>5, <4>1
      <3> QED
        BY <1>1, <2>3, <2>5, <3>1, <3>2, CopiesKept
    <2> QED
      BY <2>3, <2>4, <2>6 DEF MigrationInv
  <1>2. ASSUME NEW p \in Processes, Migration!Backup(p), found' = found PROVE MigrationInv'
    <2> DEFINE copy == [label |-> current[p], content |-> db.version]
    <2>1. /\ pc[p] = "backup" /\ UNCHANGED <<db, applied, lock, current, pending, kills>>
          /\ backups' = Append(backups, copy) /\ pc' = [pc EXCEPT ![p] = "migrate"]
      BY <1>2 DEF Migration!Backup, Migration!Goto
    <2>2. copy \in Copy
      BY <1>0 DEF Copy
    <2>3. MigrationTypes'
      BY <1>0, <1>2, <2>1, <2>2 DEF MigrationInv, MigrationTypes
    <2>4. SchemaInv'
      BY <1>0, <2>1 DEF MigrationInv, SchemaInv
    <2>5. Saved \subseteq Saved' /\ p \in Saved' /\ p \notin Saved
      BY <1>0, <2>1 DEF Saved
    <2>6. HasCopy' \/ HasCopy \/ ~Orderly
      <3>1. SUFFICES ASSUME Orderly, ~HasCopy PROVE HasCopy'
        OBVIOUS
      <3>2. db.version = found.version
        BY <1>0, <3>1 DEF MigrationInv, CopyInv, Database
      <3>3. Len(backups) + 1 \in DOMAIN backups' /\ backups'[Len(backups) + 1] = copy
        BY <1>0, <2>1, <2>2
      <3> QED
        BY <1>2, <3>2, <3>3 DEF HasCopy
    <2>7. CopyInv'
      BY <1>0, <1>2, <2>1, <2>3, <2>5, <2>6, CopiesKept DEF MigrationInv, CopyInv
    <2> QED
      BY <2>3, <2>4, <2>7 DEF MigrationInv
  <1>3. ASSUME NEW p \in Processes, Migration!Begin(p), found' = found PROVE MigrationInv'
    <2>1. /\ pc[p] = "migrate" /\ UNCHANGED <<db, applied, backups, current, pending, kills>>
          /\ lock = Migration!Nobody /\ lock' = p /\ pc' = [pc EXCEPT ![p] = "locked"]
      BY <1>3 DEF Migration!Begin, Migration!Goto
    <2>2. MigrationTypes'
      BY <1>0, <1>3, <2>1 DEF MigrationInv, MigrationTypes
    <2>3. SchemaInv'
      BY <1>0, <2>1, MigrationAssumption DEF MigrationInv, SchemaInv
    <2>4. Saved \subseteq Saved'
      BY <1>0, <2>1 DEF Saved
    <2>5. CopyInv'
      BY <1>0, <1>3, <2>1, <2>2, <2>4, CopiesKept DEF MigrationInv, CopyInv
    <2> QED
      BY <2>2, <2>3, <2>5 DEF MigrationInv
  <1>4. ASSUME NEW p \in Processes, Migration!Apply(p), found' = found PROVE MigrationInv'
    <2> DEFINE v == pending[p]
    <2>1. /\ pc[p] = "locked" /\ UNCHANGED <<backups, current, kills>> /\ lock' = Migration!Nobody
          /\ pending' = [pending EXCEPT ![p] = v + 1]
      BY <1>0, <1>4 DEF Migration!Apply, Migration!Continue
    <2> DEFINE next == IF v < Known[p] THEN "migrate" ELSE "prune"
    <2>2. /\ pc' = [pc EXCEPT ![p] = next]
          /\ next \in {"migrate", "prune"} /\ (next = "migrate" => v < Known[p])
      BY <1>4, Zenon DEF Migration!Apply, Migration!Continue, Migration!Goto
    <2> HIDE DEF next
    <2>3. v \in 1..Known[p] /\ v \in 1..2 /\ lock = p
      <3>1. v \in 1..Known[p] /\ lock = p
        BY <2>1 DEF MigrationInv, SchemaInv
      <3>2. Known[p] \in 0..2
        BY <1>0
      <3> QED
        BY <3>1, <3>2
    <2>4. \/ db.version >= v /\ UNCHANGED <<db, applied>>
          \/ /\ db.version < v /\ applied' = [applied EXCEPT ![v] = @ + 1]
             /\ db' \in Database /\ db'.version = v /\ db'.data
      <3>1. CASE db.version >= v
        BY <1>4, <3>1 DEF Migration!Apply
      <3>2. CASE ~(db.version >= v)
        <4> HIDE DEF v
        <4>1. db' = Migration!Migrated(v) /\ applied' = [applied EXCEPT ![v] = @ + 1]
          BY <1>4, <3>2 DEF Migration!Apply, v
        <4> DEFINE column == IF v = 2 THEN TRUE ELSE db.column \/ ~db.data
        <4>2. db' = [[[db EXCEPT !.version = v] EXCEPT !.column = column] EXCEPT !.data = TRUE]
          BY <4>1, Zenon DEF Migration!Migrated
        <4>3. column \in BOOLEAN
          BY Zenon
        <4> HIDE DEF column
        <4>4. DOMAIN db = {"version", "column", "data"}
          BY <1>0 DEF Database
        <4>5. DOMAIN db' = {"version", "column", "data"} /\ db'.version = v /\ db'.column = column /\ db'.data = TRUE
          BY <4>2, <4>4
        <4>6. db' = [version |-> v, column |-> column, data |-> TRUE]
          <5>1. db' = [i \in DOMAIN db' |-> db'[i]]
            BY <4>2
          <5> QED
            BY <4>5, <5>1
        <4>7. v \in 0..2
          BY <2>3
        <4>8. db' \in Database /\ db'.version = v /\ db'.data
          BY <1>0, <4>3, <4>5, <4>6, <4>7 DEF Database
        <4> QED
          BY <1>0, <2>3, <3>2, <4>1, <4>8
      <3> QED
        BY <3>1, <3>2
    <2>5. MigrationTypes'
      BY <1>0, <1>4, <2>1, <2>2, <2>3, <2>4 DEF MigrationInv, MigrationTypes
    <2>6. SchemaInv'
      <3>1. \A q \in Processes : pc'[q] = "locked" => q # p /\ pc[q] = "locked"
        BY <1>0, <2>2
      <3>2. \A q \in Processes : pc'[q] # "locked"
        BY <1>0, <2>3, <3>1 DEF MigrationInv, SchemaInv
      <3>3. \A q \in Processes : pc'[q] \in {"backup", "migrate", "locked"} => pending'[q] \in 1..Known[q]
        BY <1>0, <2>1, <2>2, <2>3 DEF MigrationInv, SchemaInv
      <3>4. \A u \in 1..2 : applied'[u] <= 1 /\ (applied'[u] = 1 => u <= db'.version)
        BY <1>0, <2>3, <2>4 DEF MigrationInv, SchemaInv, MigrationTypes
      <3> QED
        BY <1>0, <3>2, <3>3, <3>4 DEF SchemaInv
    <2>7. Saved \subseteq Saved'
      BY <1>0, <2>1, <2>2 DEF Saved
    <2>8. Orderly => db'.data /\ db'.version >= db.version /\ HasCopy'
      BY <1>0, <1>4, <2>1, <2>3, <2>4 DEF MigrationInv, CopyInv, HasCopy
    <2>9. CopyInv'
      BY <1>0, <1>4, <2>1, <2>5, <2>7, <2>8, CopiesKept
    <2> QED
      BY <2>5, <2>6, <2>9 DEF MigrationInv
  <1>5. ASSUME backups' = Migration!Newest(backups), found' = found,
               UNCHANGED <<db, applied, lock, current, pending, kills>>,
               \/ UNCHANGED pc
               \/ \E p \in Processes : pc[p] = "prune" /\ pc' = [pc EXCEPT ![p] = "started"]
        PROVE  MigrationInv'
    <2>1. MigrationTypes'
      BY <1>0, <1>5, NewestIsCopies DEF MigrationInv, MigrationTypes
    <2>2. SchemaInv'
      BY <1>0, <1>5 DEF MigrationInv, SchemaInv
    <2>3. Saved \subseteq Saved'
      BY <1>0, <1>5 DEF Saved
    <2>4. Orderly => backups' = backups
      BY <1>5, NothingToPrune
    <2>5. \A p \in Processes : pc'[p] \in {"migrate", "locked"} => pc[p] \in {"migrate", "locked"}
      BY <1>0, <1>5
    <2>6. CopyInv'
      <3>1. /\ db' = db /\ kills' = kills /\ db.version \in Nat
            /\ Orderly => db.data
        BY <1>0, <1>5 DEF MigrationInv, CopyInv
      <3>2. Orderly =>
              HasCopy \/ (db.version = found.version /\ ~\E q \in Processes : pc'[q] \in {"migrate", "locked"})
        <4> SUFFICES ASSUME Orderly, ~HasCopy
                     PROVE  db.version = found.version /\ ~\E q \in Processes : pc'[q] \in {"migrate", "locked"}
          OBVIOUS
        <4>1. db.version = found.version /\ ~\E q \in Processes : pc[q] \in {"migrate", "locked"}
          BY <1>0 DEF MigrationInv, CopyInv, Database
        <4> QED
          BY <2>5, <4>1
      <3> QED
        BY <1>5, <2>1, <2>3, <2>4, <3>1, <3>2, CopiesKept
    <2> QED
      BY <2>1, <2>2, <2>6 DEF MigrationInv
  <1>6. ASSUME NEW p \in Processes, Migration!Kill(p), found' = found PROVE MigrationInv'
    <2>1. /\ kills' = kills + 1 /\ pc' = [pc EXCEPT ![p] = "off"]
          /\ lock' = IF lock = p THEN Migration!Nobody ELSE lock
          /\ UNCHANGED <<db, applied, backups, current, pending>>
      BY <1>6 DEF Migration!Kill, Migration!Goto
    <2>2. MigrationTypes'
      BY <1>0, <1>6, <2>1 DEF MigrationInv, MigrationTypes
    <2>3. SchemaInv'
      BY <1>0, <2>1 DEF MigrationInv, SchemaInv
    <2>4. CopyInv'
      BY <1>0, <2>1 DEF CopyInv, Orderly
    <2> QED
      BY <2>2, <2>3, <2>4 DEF MigrationInv
  <1>7. CASE UNCHANGED Migration!vars
    BY <1>7 DEF Migration!vars, MigrationInv, MigrationTypes, SchemaInv, CopyInv, HasCopy, Saved, Orderly
  <1>8. ASSUME Migration!Retention, found' = found PROVE MigrationInv'
    BY <1>5, <1>8 DEF Migration!Retention
  <1>9. ASSUME NEW p \in Processes, Migration!PurgeBackups(p), found' = found PROVE MigrationInv'
    BY <1>5, <1>9 DEF Migration!PurgeBackups, Migration!Goto
  <1> QED
    BY <1>1, <1>2, <1>3, <1>4, <1>6, <1>7, <1>8, <1>9 DEF Migration!Next, Migration!Migrate

LEMMA MigrationInvariant == Spec => [](job = "migration" => MigrationInv)
  <1> DEFINE Inv == job = "migration" => MigrationInv
  <1>1. Init => Inv
    BY Alone, MigrationInit
  <1>2. Inv /\ [Next]_vars => Inv'
    BY Alone, MigrationStep
  <1> QED
    BY <1>1, <1>2, PTL DEF Spec

\* _migrate: however many processes start together, whatever version of the code they
\* run and wherever they are killed, no migration changes the schema twice.
THEOREM MigrationsAppliedOnce ==
  Spec => [](job = "migration" => Migration!MigrationsTypeOK /\ Migration!AppliedOnce)
  <1>1. MigrationInv => Migration!MigrationsTypeOK
    <2>1. MigrationInv => \A i \in DOMAIN backups : backups[i] \in Copy
      BY DEF MigrationInv, MigrationTypes
    <2> QED
      BY <2>1 DEF MigrationInv, MigrationTypes, Migration!MigrationsTypeOK, Database, Copy
  <1>2. MigrationInv => Migration!AppliedOnce
    BY DEF MigrationInv, SchemaInv, Migration!AppliedOnce
  <1> QED
    BY <1>1, <1>2, MigrationInvariant, PTL

\* _backup_database, purge_pre_migration_backups: if moreover no more processes start
\* than copies are kept, then, while none was killed, a copy of the database from
\* before its first change is there.
THEOREM MigrationsAlwaysSafe ==
  ASSUME FewProcesses
  PROVE  Spec => []MigrationsSafe
  <1>1. MigrationInv => Migration!RollbackPossible
    BY DEF MigrationInv, CopyInv, Orderly, HasCopy, Migration!RollbackPossible
  <1>2. (job = "migration" => Migration!MigrationsTypeOK /\ Migration!AppliedOnce)
        /\ (job = "migration" => MigrationInv) => MigrationsSafe
    BY <1>1 DEF MigrationsSafe
  <1> QED
    BY <1>2, MigrationInvariant, MigrationsAppliedOnce, PTL

-----------------------------------------------------------------------------
(* The first token: FirstToken over Accounts                               *)

RecipeState == [created : BOOLEAN, prefix : BOOLEAN, keyOk : BOOLEAN, userOk : BOOLEAN]

Unasked == {"warm", "ready", "liveness", "structural", "resolve", "create"}
Stages == Unasked \cup {"created", "keying", "load", "generate", "usage"}

Requested(op) == \E req \in requests : req.op = op

\* The creation may be under way, or done, while the recipe does not answer for it:
\* its answer is awaited, or was when the recipe was cancelled.
Disarmed ==
  ~state.created /\ (pc = "created" \/ (reason = "cancelled" /\ pc \notin Stages))

RecipeTypes ==
  /\ Recipe!FirstTokenTypeOK
  /\ pc \in Stages \cup {"cleanup", "revoking", "erasing", "report", "ended"}
  /\ state \in RecipeState
  /\ left \in [DOMAIN RecipeTrouble -> Nat] /\ left["patch"] <= RecipeTrouble["patch"]

\* The recipe asks for each thing once, and an answer is the end of its request.
AskedOnce ==
  /\ \A req, other \in requests : req.op = other.op /\ req.op # "patch" => req = other
  /\ \A req \in requests : req.op # "patch" => answers[req.op] = 0
  /\ pc \in Unasked \cup {"created"} => ~state.created
  /\ pc \in {"keying", "revoking", "erasing"} => state.created
  /\ ~state.created => \A op \in Recipe!Operations \ {"patch", "create"} : ~Requested(op)
  /\ ~state.created /\ ~Disarmed => ~Requested("create")
  /\ pc = "created" => ~Requested("key")
  /\ pc \in Stages \cup {"cleanup"} => ~Requested("revoke")
  /\ pc \in Stages \cup {"cleanup", "revoking"} => ~Requested("erase")

\* What the recipe knows of its stages, when it believes in them.
Progress ==
  /\ pc \in Stages \ {"usage"} => usageRow = "none"
  /\ pc \in Unasked \cup {"created", "keying"} => ~state.prefix
  /\ pc \in {"load", "generate", "usage"} => state.prefix
  /\ state.prefix => state.created /\ ~Requested("key")
  /\ reason = "ok" /\ pc \in {"cleanup", "revoking", "erasing", "report"} =>
       usageRow = "written" /\ state.prefix
  /\ state.userOk => pc \in {"report", "ended"} /\ (user.erased \/ ~state.created)
  /\ outcome.cleaned => state.userOk /\ pc = "ended" /\ reason # "cancelled"
  /\ outcome.traffic \/ outcome.served => outcome.cleaned /\ usageRow = "written" /\ state.prefix

\* The account is created once; once erased it only comes back by the operator's
\* hand, and its key only if the recipe gave up before it was inserted.
AccountInv ==
  /\ ~state.created /\ ~Disarmed => ~user.exists
  /\ Requested("create") => ~user.exists
  /\ user.erased \/ user.active => user.exists
  /\ \A req \in requests : req.at = "read" => user.exists
  /\ pc \in Stages \cup {"cleanup", "revoking"} => ~user.erased
  /\ answers["erase"] = 200 => user.erased
  /\ state.prefix /\ user.erased => ~key.active
  /\ left["patch"] = RecipeTrouble["patch"] =>
       ~Requested("patch") /\ ~(user.erased /\ user.active)

RecipeInv == RecipeTypes /\ AskedOnce /\ Progress /\ AccountInv

LEMMA RecipeStart ==
  ASSUME Recipe!Init
  PROVE  RecipeInv
  <1>1. Recipe!AccountsTypeOK
    BY DEF Recipe!Init, Recipe!AccountsInit, Recipe!AccountsTypeOK, Recipe!NoUser, Recipe!NoKey,
       Recipe!Operations
  <1>2. Recipe!FirstTokenTypeOK
    BY <1>1 DEF Recipe!Init, Recipe!FirstTokenTypeOK, Recipe!NoOutcome
  <1>3. state \in RecipeState /\ pc \in Stages
    BY DEF Recipe!Init, RecipeState, Stages, Unasked
  <1>4. left \in [DOMAIN RecipeTrouble -> Nat] /\ left["patch"] <= RecipeTrouble["patch"]
    <2>1. left = RecipeTrouble
      BY DEF Recipe!Init
    <2>2. RecipeTrouble \in [DOMAIN RecipeTrouble -> Nat] /\ RecipeTrouble["patch"] \in Nat
      BY RecipeAssumption
    <2> QED
      BY <2>1, <2>2
  <1>5. RecipeTypes
    BY <1>2, <1>3, <1>4 DEF RecipeTypes
  <1>6. AskedOnce /\ Progress /\ AccountInv
    BY DEF Recipe!Init, Recipe!AccountsInit, Recipe!NoUser, Recipe!NoKey, Recipe!NoOutcome,
       Recipe!Operations, AskedOnce, Progress, AccountInv, Requested, Unasked, Stages
  <1> QED
    BY <1>5, <1>6 DEF RecipeInv

\* What is left of the scenario only goes down.
LEMMA RecipeSpend ==
  ASSUME RecipeTypes, NEW what \in DOMAIN RecipeTrouble, Recipe!Spend(what)
  PROVE  /\ left' \in [DOMAIN RecipeTrouble -> Nat] /\ left'["patch"] <= left["patch"]
         /\ what = "patch" => left'["patch"] < left["patch"]
  <1> DEFINE kinds == DOMAIN RecipeTrouble
  <1>1. left \in [kinds -> Nat] /\ left[what] > 0 /\ left' = [left EXCEPT ![what] = @ - 1]
    BY DEF RecipeTypes, Recipe!Spend
  <1>2. what \in kinds /\ "patch" \in kinds
    BY RecipeAssumption
  <1> HIDE DEF kinds
  <1>3. left[what] \in Nat /\ left[what] - 1 \in Nat
    BY <1>1, <1>2
  <1>4. /\ left' \in [kinds -> Nat] /\ left'[what] = left[what] - 1
        /\ \A k \in kinds \ {what} : left'[k] = left[k]
    BY <1>1, <1>2, <1>3
  <1> QED
    BY <1>1, <1>2, <1>3, <1>4 DEF kinds

\* A step of the recipe that asks for nothing and hears nothing.
LEMMA RecipeQuiet ==
  ASSUME RecipeInv, UNCHANGED Recipe!accountVars, UNCHANGED <<mode, state>>,
         outcome' \in {outcome, [Recipe!NoOutcome EXCEPT !.returned = TRUE]},
         left' \in [DOMAIN RecipeTrouble -> Nat], left'["patch"] = left["patch"],
         loaded' \in BOOLEAN, usageRow' \in {"none", "pending", "written"},
         usageRow = "written" => usageRow' = "written",
         usageRow' = usageRow \/ pc' \notin Stages \ {"usage"},
         \/ pc' = pc /\ reason' = reason
         \/ pc \in Stages \ {"usage"} /\ pc' \in Stages /\ reason' = reason
            /\ (pc' \in Unasked <=> pc \in Unasked)
            /\ pc' \notin {"created", "keying"}
            /\ (pc' \in {"load", "generate", "usage"} => pc \in {"load", "generate", "usage"})
         \/ pc \in Stages /\ pc' = "cleanup" /\ reason' # "ok"
            /\ (pc = "created" => reason' = "cancelled")
         \/ pc = "usage" /\ pc' = "cleanup" /\ usageRow' = "written" /\ reason' = reason
         \/ pc \notin {"report", "ended"} /\ pc' = "ended" /\ reason' # "ok"
            /\ (reason' = "cancelled" \/ pc \in Unasked)
  PROVE  RecipeInv'
  <1>1. UNCHANGED <<user, key, requests, answers>>
    BY DEF Recipe!accountVars
  <1>0. /\ outcome' \in [returned : BOOLEAN, served : BOOLEAN, cleaned : BOOLEAN, traffic : BOOLEAN]
        /\ outcome' = outcome \/ ~(outcome'.cleaned \/ outcome'.served \/ outcome'.traffic)
    BY DEF RecipeInv, RecipeTypes, Recipe!FirstTokenTypeOK, Recipe!NoOutcome
  <1>2. RecipeTypes'
    BY <1>0, <1>1 DEF RecipeInv, RecipeTypes, Recipe!FirstTokenTypeOK, Recipe!AccountsTypeOK, Stages, Unasked
  <1>3. AskedOnce'
    BY <1>1 DEF RecipeInv, AskedOnce, Disarmed, Requested, Stages, Unasked, Recipe!Operations
  <1>4. Progress'
    BY <1>0, <1>1 DEF RecipeInv, Progress, Requested, Stages, Unasked
  <1>5. AccountInv'
    BY <1>1 DEF RecipeInv, AccountInv, Disarmed, Requested, Stages, Unasked
  <1> QED
    BY <1>2, <1>3, <1>4, <1>5 DEF RecipeInv

\* The steps of the recipe that ask for nothing: probes, loads, the stream, the row.
LEMMA RecipeProbes ==
  ASSUME RecipeInv,
         \/ Recipe!WarmLoad \/ Recipe!AwaitServing \/ Recipe!Liveness \/ Recipe!Structural
         \/ Recipe!ResolveModel \/ Recipe!Load \/ Recipe!Generate \/ Recipe!AwaitUsage
         \/ Recipe!WriteUsage \/ Recipe!Evict
  PROVE  RecipeInv'
  <1>a. /\ DOMAIN RecipeTrouble = {"load", "probe", "stream", "lost", "cancel", "evict", "patch"}
    BY RecipeAssumption
  <1>b. RecipeTypes /\ Progress
    BY DEF RecipeInv
  <1>c. ASSUME NEW what \in DOMAIN RecipeTrouble, what # "patch", Recipe!Spend(what)
        PROVE  left' \in [DOMAIN RecipeTrouble -> Nat] /\ left'["patch"] = left["patch"]
    BY <1>a, <1>b, <1>c, RecipeSpend DEF RecipeTypes, Recipe!Spend
  <1>d. left \in [DOMAIN RecipeTrouble -> Nat] /\ loaded \in BOOLEAN
        /\ usageRow \in {"none", "pending", "written"}
    BY <1>b DEF RecipeTypes, Recipe!FirstTokenTypeOK
  <1>1. CASE Recipe!WarmLoad
    BY <1>1, <1>a, <1>c, <1>d, RecipeQuiet DEF Recipe!WarmLoad, Recipe!GiveUp, Recipe!Fail, Stages, Unasked
  <1>2. CASE Recipe!AwaitServing
    BY <1>2, <1>a, <1>c, <1>d, RecipeQuiet DEF Recipe!AwaitServing, Recipe!GiveUp, Recipe!Fail, Stages, Unasked
  <1>3. CASE Recipe!Liveness
    BY <1>3, <1>a, <1>c, <1>d, RecipeQuiet DEF Recipe!Liveness, Recipe!Probe, Recipe!Fail, Stages, Unasked
  <1>4. CASE Recipe!Structural
    BY <1>4, <1>a, <1>c, <1>d, RecipeQuiet DEF Recipe!Structural, Recipe!Probe, Recipe!Fail, Stages, Unasked
  <1>5. CASE Recipe!ResolveModel
    BY <1>5, <1>a, <1>c, <1>d, RecipeQuiet DEF Recipe!ResolveModel, Recipe!Probe, Recipe!Fail, Stages, Unasked
  <1>6. CASE Recipe!Load
    BY <1>6, <1>a, <1>c, <1>d, RecipeQuiet DEF Recipe!Load, Recipe!Fail, Stages, Unasked
  <1>7. CASE Recipe!Generate
    BY <1>7, <1>a, <1>b, <1>c, <1>d, RecipeQuiet DEF Recipe!Generate, Recipe!Fail, Progress, Stages, Unasked
  <1>8. CASE Recipe!AwaitUsage
    BY <1>8, <1>a, <1>c, <1>d, RecipeQuiet DEF Recipe!AwaitUsage, Recipe!Fail, Stages, Unasked
  <1>9. CASE Recipe!WriteUsage
    BY <1>9, <1>a, <1>b, <1>c, <1>d, RecipeQuiet DEF Recipe!WriteUsage, Recipe!recipeVars, Progress, Stages, Unasked
  <1>10. CASE Recipe!Evict
    BY <1>10, <1>a, <1>c, <1>d, RecipeQuiet DEF Recipe!Evict, Recipe!recipeVars, Stages, Unasked
  <1> QED
    BY <1>1, <1>2, <1>3, <1>4, <1>5, <1>6, <1>7, <1>8, <1>9, <1>10

\* A second interrupt, or one in the finally, ends the recipe where it is.
LEMMA RecipeCancelled ==
  ASSUME RecipeInv, Recipe!Cancel
  PROVE  RecipeInv'
  <1>1. left' \in [DOMAIN RecipeTrouble -> Nat] /\ left'["patch"] = left["patch"]
    BY RecipeSpend, RecipeAssumption DEF Recipe!Cancel, RecipeInv, RecipeTypes, Recipe!Spend
  <1>2. loaded \in BOOLEAN /\ usageRow \in {"none", "pending", "written"}
    BY DEF RecipeInv, RecipeTypes, Recipe!FirstTokenTypeOK
  <1>3. /\ UNCHANGED Recipe!accountVars /\ UNCHANGED <<mode, state, loaded, usageRow, outcome>>
        /\ reason' = "cancelled"
        /\ \/ pc \in Stages /\ pc' = "cleanup"
           \/ pc \notin {"report", "ended"} /\ pc' = "ended"
    BY DEF Recipe!Cancel, Recipe!Fail, RecipeInv, RecipeTypes, Stages, Unasked
  <1> QED
    BY <1>1, <1>2, <1>3, RecipeQuiet DEF Stages

\* A request that is not there yet is asked for; patches may be many.
LEMMA AskOne ==
  ASSUME RecipeInv, NEW op \in Recipe!Operations, Recipe!Ask(op),
         op = "patch" \/ ~Requested(op)
  PROVE  /\ requests' \subseteq [op : Recipe!Operations, at : {"sent", "read"}]
         /\ answers' \in [Recipe!Operations -> {0, 200, 201, 404, 409}]
         /\ \A req, other \in requests' : req.op = other.op /\ req.op # "patch" => req = other
         /\ \A req \in requests' : req.op # "patch" => answers'[req.op] = 0
         /\ \A req \in requests' : req.at = "read" => req \in requests
         /\ \A o \in Recipe!Operations : Requested(o)' <=> Requested(o) \/ o = op
         /\ answers'["erase"] = 200 => answers["erase"] = 200
  <1>1. /\ requests \subseteq [op : Recipe!Operations, at : {"sent", "read"}]
        /\ answers \in [Recipe!Operations -> {0, 200, 201, 404, 409}]
    BY DEF RecipeInv, RecipeTypes, Recipe!FirstTokenTypeOK, Recipe!AccountsTypeOK
  <1>2. /\ requests' = requests \cup {[op |-> op, at |-> "sent"]}
        /\ answers' = [answers EXCEPT ![op] = 0]
    BY DEF Recipe!Ask
  <1>3. \A req \in requests : req.op = op => op = "patch"
    BY DEF Requested
  <1>4. /\ requests' \subseteq [op : Recipe!Operations, at : {"sent", "read"}]
        /\ answers' \in [Recipe!Operations -> {0, 200, 201, 404, 409}]
    BY <1>1, <1>2
  <1>5. \A req, other \in requests' : req.op = other.op /\ req.op # "patch" => req = other
    BY <1>2, <1>3 DEF RecipeInv, AskedOnce, Disarmed
  <1>6. \A req \in requests' : req.op # "patch" => answers'[req.op] = 0
    BY <1>1, <1>2 DEF RecipeInv, AskedOnce, Disarmed
  <1>7. \A o \in Recipe!Operations : Requested(o)' <=> Requested(o) \/ o = op
    <2> DEFINE new == [op |-> op, at |-> "sent"]
    <2>1. new \in requests' /\ new.op = op
      BY <1>2
    <2>2. \A req \in requests' : req \in requests \/ req.op = op
      BY <1>2
    <2>3. requests \subseteq requests'
      BY <1>2
    <2> HIDE DEF new
    <2> QED
      BY <2>1, <2>2, <2>3 DEF Requested
  <1>8. answers'["erase"] = 200 => answers["erase"] = 200
    BY <1>1, <1>2 DEF Recipe!Operations
  <1>9. \A req \in requests' : req.at = "read" => req \in requests
    BY <1>2
  <1> QED
    BY <1>4, <1>5, <1>6, <1>7, <1>8, <1>9

\* The operator edits an account: not what CleanedMeansGone speaks of any more.
LEMMA RecipePatched ==
  ASSUME RecipeInv, Recipe!OperatorPatches
  PROVE  RecipeInv'
  <1>1. /\ left' \in [DOMAIN RecipeTrouble -> Nat] /\ left'["patch"] < RecipeTrouble["patch"]
    BY RecipeSpend, RecipeAssumption DEF Recipe!OperatorPatches, RecipeInv, RecipeTypes
  <1>2. /\ Recipe!Ask("patch") /\ "patch" \in Recipe!Operations
        /\ UNCHANGED <<user, key, loaded, usageRow, pc, mode, reason, state, outcome>>
    BY DEF Recipe!OperatorPatches, Recipe!recipeVars, Recipe!Operations
  <1>3. RecipeTypes'
    BY <1>1, <1>2, AskOne, RecipeAssumption DEF RecipeInv, RecipeTypes, Recipe!FirstTokenTypeOK, Recipe!AccountsTypeOK
  <1>4. AskedOnce'
    BY <1>2, AskOne DEF RecipeInv, AskedOnce, Disarmed, Recipe!Operations
  <1>5. Progress'
    BY <1>2, AskOne DEF RecipeInv, Progress, Recipe!Operations
  <1>6. AccountInv'
    BY <1>1, <1>2, AskOne, RecipeAssumption DEF RecipeInv, AccountInv, Disarmed, Recipe!Operations
  <1> QED
    BY <1>3, <1>4, <1>5, <1>6 DEF RecipeInv

\* The answer the recipe reads, or that it stopped waiting.
LEMMA RecipeAnswered ==
  ASSUME RecipeInv, NEW op \in Recipe!Operations,
         \/ answers[op] # 0 /\ UNCHANGED left
         \/ answers[op] = 0 /\ Recipe!Spend("lost")
  PROVE  left' \in [DOMAIN RecipeTrouble -> Nat] /\ left'["patch"] = left["patch"]
  BY RecipeSpend, RecipeAssumption DEF RecipeInv, RecipeTypes, Recipe!Spend

\* The steps that ask, and those that hear an answer.
LEMMA RecipeAsks ==
  ASSUME RecipeInv,
         Recipe!PostUser \/ Recipe!UserPosted \/ Recipe!KeyPosted \/ Recipe!Cleanup \/ Recipe!Revoked
         \/ Recipe!Erased \/ Recipe!Report
  PROVE  RecipeInv'
  <1>a. RecipeTypes /\ AskedOnce /\ Progress /\ AccountInv
    BY DEF RecipeInv
  <1>b. left \in [DOMAIN RecipeTrouble -> Nat] /\ {"create", "key", "revoke", "erase"} \subseteq Recipe!Operations
    BY <1>a DEF RecipeTypes, Recipe!Operations
  <1>1. CASE Recipe!PostUser
    <2>1. /\ pc = "create" /\ pc' = "created" /\ Recipe!Ask("create") /\ ~Requested("create")
          /\ ~state.created /\ UNCHANGED state
          /\ UNCHANGED <<mode, reason, loaded, usageRow, outcome, left, user, key>>
      BY <1>1, <1>a, <1>b DEF Recipe!PostUser, AskedOnce, Disarmed, Unasked, Stages, Recipe!Operations
    <2>2. ~state.prefix /\ ~state.userOk /\ ~user.exists
      BY <2>1, <1>a DEF Progress, AccountInv, Disarmed, Stages, Unasked
    <2>3. RecipeTypes'
      BY <2>1, <2>2, <1>a, <1>b, AskOne DEF RecipeTypes, Recipe!FirstTokenTypeOK, Recipe!AccountsTypeOK, Stages
    <2>4. AskedOnce'
      BY <2>1, <2>2, <1>a, <1>b, AskOne DEF AskedOnce, Disarmed, Stages, Unasked, Recipe!Operations
    <2>5. Progress'
      BY <2>1, <2>2, <1>a DEF Progress, Stages, Unasked
    <2>6. AccountInv'
      BY <2>1, <2>2, <1>a, <1>b, AskOne DEF AccountInv, Disarmed, Stages, Unasked, Recipe!Operations
    <2> QED
      BY <2>3, <2>4, <2>5, <2>6 DEF RecipeInv
  <1>2. CASE Recipe!UserPosted
    <2>1. /\ pc = "created" /\ UNCHANGED <<mode, loaded, usageRow, outcome, user, key>>
          /\ state' = [state EXCEPT !.created = TRUE]
          /\ \/ answers["create"] # 0 /\ UNCHANGED left
             \/ answers["create"] = 0 /\ Recipe!Spend("lost")
          /\ \/ pc' = "keying" /\ Recipe!Ask("key") /\ UNCHANGED reason
             \/ pc' = "cleanup" /\ reason' = "identity_create_failed" /\ UNCHANGED <<requests, answers>>
      BY <1>2 DEF Recipe!UserPosted, Recipe!Answered, Recipe!Fail
    <2>2. left' \in [DOMAIN RecipeTrouble -> Nat] /\ left'["patch"] = left["patch"]
      BY <2>1, <1>b, RecipeAnswered
    <2>3. /\ state' \in RecipeState /\ state'.created /\ state'.prefix = state.prefix
          /\ state'.userOk = state.userOk /\ ~state.created /\ ~state.prefix /\ ~state.userOk
          /\ ~Requested("key") /\ ~user.erased /\ usageRow = "none"
      BY <2>1, <1>a DEF RecipeTypes, RecipeState, AskedOnce, Disarmed, Progress, AccountInv, Stages, Unasked
    <2>4. CASE pc' = "keying"
      <3>1. Recipe!Ask("key") /\ UNCHANGED reason
        BY <2>1, <2>4
      <3>2. RecipeTypes'
        BY <2>1, <2>2, <2>3, <2>4, <3>1, <1>a, <1>b, AskOne
        DEF RecipeTypes, Recipe!FirstTokenTypeOK, Recipe!AccountsTypeOK, Stages
      <3>3. AskedOnce'
        BY <2>1, <2>3, <2>4, <3>1, <1>a, <1>b, AskOne
        DEF AskedOnce, Disarmed, Stages, Unasked, Recipe!Operations
      <3>4. Progress'
        BY <2>1, <2>3, <2>4, <3>1, <1>a, <1>b, AskOne DEF Progress, Stages, Unasked
      <3>5. AccountInv'
        BY <2>1, <2>2, <2>3, <2>4, <3>1, <1>a, <1>b, AskOne
        DEF AccountInv, Disarmed, Stages, Unasked, Recipe!Operations
      <3> QED
        BY <3>2, <3>3, <3>4, <3>5 DEF RecipeInv
    <2>5. CASE pc' # "keying"
      <3>1. pc' = "cleanup" /\ reason' = "identity_create_failed" /\ UNCHANGED <<requests, answers>>
        BY <2>1, <2>5
      <3>2. RecipeTypes'
        BY <2>1, <2>2, <2>3, <3>1, <1>a DEF RecipeTypes, Recipe!FirstTokenTypeOK, Recipe!AccountsTypeOK, Stages
      <3>3. AskedOnce'
        BY <2>1, <2>3, <3>1, <1>a DEF AskedOnce, Disarmed, Stages, Unasked, Requested
      <3>4. Progress'
        BY <2>1, <2>3, <3>1, <1>a DEF Progress, Stages, Unasked
      <3>5. AccountInv'
        BY <2>1, <2>2, <2>3, <3>1, <1>a DEF AccountInv, Disarmed, Stages, Unasked, Requested
      <3> QED
        BY <3>2, <3>3, <3>4, <3>5 DEF RecipeInv
    <2> QED
      BY <2>4, <2>5
  <1>3. CASE Recipe!KeyPosted
    <2>1. /\ pc = "keying" /\ UNCHANGED <<mode, loaded, usageRow, outcome, user, key, requests, answers>>
          /\ \/ answers["key"] # 0 /\ UNCHANGED left
             \/ answers["key"] = 0 /\ Recipe!Spend("lost")
          /\ \/ /\ pc' = "load" /\ UNCHANGED reason /\ answers["key"] = 201
                /\ state' = [state EXCEPT !.prefix = TRUE]
             \/ pc' = "cleanup" /\ reason' = "identity_key_failed" /\ UNCHANGED state
      BY <1>3 DEF Recipe!KeyPosted, Recipe!Answered, Recipe!Fail, Recipe!accountVars
    <2>2. left' \in [DOMAIN RecipeTrouble -> Nat] /\ left'["patch"] = left["patch"]
      BY <2>1, <1>b, RecipeAnswered
    <2>3. ASSUME answers["key"] = 201 PROVE ~Requested("key")
      BY <2>3, <1>a DEF AskedOnce, Disarmed, Requested
    <2>4. CASE pc' = "load"
      <3>1. /\ state' \in RecipeState /\ state'.created /\ state'.prefix /\ state'.userOk = state.userOk
            /\ ~Requested("key") /\ state.created /\ ~user.erased /\ ~state.userOk
        <4>1. state' = [state EXCEPT !.prefix = TRUE] /\ answers["key"] = 201
          BY <2>1, <2>4
        <4>2. state.created /\ ~user.erased /\ ~state.userOk /\ state \in RecipeState
          BY <2>1, <1>a DEF RecipeTypes, AskedOnce, Disarmed, AccountInv, Progress, Stages, Unasked
        <4> QED
          BY <4>1, <4>2, <2>3 DEF RecipeState
      <3>2. RecipeTypes'
        BY <2>1, <2>2, <2>4, <3>1, <1>a DEF RecipeTypes, Recipe!FirstTokenTypeOK, Recipe!AccountsTypeOK, Stages
      <3>3. AskedOnce'
        BY <2>1, <2>4, <3>1, <1>a DEF AskedOnce, Disarmed, Stages, Unasked, Requested
      <3>4. Progress'
        BY <2>1, <2>4, <3>1, <1>a DEF Progress, Stages, Unasked, Requested
      <3>5. AccountInv'
        BY <2>1, <2>2, <2>4, <3>1, <1>a DEF AccountInv, Disarmed, Stages, Unasked, Requested
      <3> QED
        BY <3>2, <3>3, <3>4, <3>5 DEF RecipeInv
    <2>5. CASE pc' # "load"
      <3>1. UNCHANGED Recipe!accountVars /\ loaded \in BOOLEAN /\ usageRow \in {"none", "pending", "written"}
        BY <2>1, <2>5, <1>a DEF Recipe!accountVars, RecipeTypes, Recipe!FirstTokenTypeOK
      <3> QED
        BY <2>1, <2>2, <2>5, <3>1, RecipeQuiet DEF Stages
    <2> QED
      BY <2>4, <2>5
  <1>4. CASE Recipe!Cleanup
    <2>1. /\ pc = "cleanup" /\ UNCHANGED <<mode, reason, loaded, usageRow, outcome, left, user, key>>
          /\ \/ /\ ~state.created /\ pc' = "report" /\ state' = [state EXCEPT !.userOk = TRUE]
                /\ UNCHANGED <<requests, answers>>
             \/ pc' = "revoking" /\ Recipe!Ask("revoke") /\ state.created /\ UNCHANGED state
             \/ pc' = "erasing" /\ Recipe!Ask("erase") /\ state.created /\ UNCHANGED state
      BY <1>4 DEF Recipe!Cleanup
    <2>2. ~Requested("revoke") /\ ~Requested("erase") /\ ~user.erased
      BY <2>1, <1>a DEF AskedOnce, Disarmed, AccountInv
    <2>3. CASE pc' = "report"
      <3>1. /\ state' \in RecipeState /\ state'.created = state.created /\ state'.prefix = state.prefix
            /\ state'.userOk /\ ~state.created /\ UNCHANGED <<requests, answers>>
        BY <2>1, <2>3, <1>a DEF RecipeTypes, RecipeState
      <3>2. RecipeTypes'
        BY <2>1, <2>3, <3>1, <1>a DEF RecipeTypes, Recipe!FirstTokenTypeOK, Recipe!AccountsTypeOK, Stages
      <3>3. AskedOnce'
        BY <2>1, <2>3, <3>1, <1>a DEF AskedOnce, Disarmed, Stages, Unasked, Requested
      <3>4. Progress'
        BY <2>1, <2>3, <3>1, <1>a DEF Progress, Stages, Unasked, Requested
      <3>5. AccountInv'
        BY <2>1, <2>3, <3>1, <1>a DEF AccountInv, Disarmed, Stages, Unasked, Requested
      <3> QED
        BY <3>2, <3>3, <3>4, <3>5 DEF RecipeInv
    <2>4. ASSUME NEW op \in {"revoke", "erase"}, Recipe!Ask(op), UNCHANGED state, state.created,
                 pc' \in {"revoking", "erasing"}, op = "erase" => pc' = "erasing"
          PROVE  RecipeInv'
      <3>1. ~Requested(op) /\ op \in Recipe!Operations
        BY <2>2, <1>b
      <3>2. RecipeTypes'
        BY <2>1, <2>4, <3>1, <1>a, <1>b, AskOne
        DEF RecipeTypes, Recipe!FirstTokenTypeOK, Recipe!AccountsTypeOK, Stages
      <3>3. AskedOnce'
        BY <2>1, <2>4, <3>1, <1>a, <1>b, AskOne DEF AskedOnce, Disarmed, Stages, Unasked, Recipe!Operations
      <3>4. Progress'
        BY <2>1, <2>4, <3>1, <1>a, <1>b, AskOne DEF Progress, Stages, Unasked
      <3>5. AccountInv'
        BY <2>1, <2>4, <3>1, <1>a, <1>b, AskOne DEF AccountInv, Disarmed, Stages, Unasked, Recipe!Operations
      <3> QED
        BY <3>2, <3>3, <3>4, <3>5 DEF RecipeInv
    <2> QED
      BY <2>1, <2>3, <2>4
  <1>5. CASE Recipe!Revoked
    <2>1. /\ pc = "revoking" /\ UNCHANGED <<mode, reason, loaded, usageRow, outcome, user, key>>
          /\ pc' = "erasing" /\ Recipe!Ask("erase")
          /\ \/ answers["revoke"] # 0 /\ UNCHANGED left
             \/ answers["revoke"] = 0 /\ Recipe!Spend("lost")
          /\ \/ state' = [state EXCEPT !.keyOk = answers["revoke"] \in {200, 404}]
             \/ state' = [state EXCEPT !.keyOk = 0 \in {200, 404}]
      BY <1>5 DEF Recipe!Revoked, Recipe!Answered
    <2>2. left' \in [DOMAIN RecipeTrouble -> Nat] /\ left'["patch"] = left["patch"]
      BY <2>1, <1>b, RecipeAnswered
    <2>3. /\ state' \in RecipeState /\ state'.created = state.created /\ state'.prefix = state.prefix
          /\ state'.userOk = state.userOk
      <3>1. ASSUME NEW ok \in BOOLEAN, state' = [state EXCEPT !.keyOk = ok]
            PROVE  /\ state' \in RecipeState /\ state'.created = state.created
                   /\ state'.prefix = state.prefix /\ state'.userOk = state.userOk
        BY <3>1, <1>a DEF RecipeTypes, RecipeState
      <3> DEFINE revoked == answers["revoke"] \in {200, 404}
                 lost == 0 \in {200, 404}
      <3>2. revoked \in BOOLEAN /\ lost \in BOOLEAN
        OBVIOUS
      <3>3. state' = [state EXCEPT !.keyOk = revoked] \/ state' = [state EXCEPT !.keyOk = lost]
        BY <2>1
      <3> HIDE DEF revoked, lost
      <3> QED
        BY <3>1, <3>2, <3>3
    <2>4. ~Requested("erase")
      BY <2>1, <1>a DEF AskedOnce, Disarmed
    <2>5. RecipeTypes'
      BY <2>1, <2>2, <2>3, <2>4, <1>a, <1>b, AskOne
      DEF RecipeTypes, Recipe!FirstTokenTypeOK, Recipe!AccountsTypeOK, Stages
    <2>6. AskedOnce'
      <3>1. state.created
        BY <2>1, <1>a DEF AskedOnce, Disarmed
      <3> QED
        BY <2>1, <2>3, <2>4, <3>1, <1>a, <1>b, AskOne DEF AskedOnce, Disarmed, Stages, Unasked, Recipe!Operations
    <2>7. Progress'
      BY <2>1, <2>3, <2>4, <1>a, <1>b, AskOne DEF Progress, Stages, Unasked
    <2>8. AccountInv'
      BY <2>1, <2>2, <2>3, <2>4, <1>a, <1>b, AskOne DEF AccountInv, Disarmed, Stages, Unasked, Recipe!Operations
    <2> QED
      BY <2>5, <2>6, <2>7, <2>8 DEF RecipeInv
  <1>6. CASE Recipe!Erased
    <2>1. /\ pc = "erasing" /\ UNCHANGED <<mode, reason, loaded, usageRow, outcome, user, key, requests, answers>>
          /\ pc' = "report"
          /\ \/ answers["erase"] # 0 /\ UNCHANGED left
             \/ answers["erase"] = 0 /\ Recipe!Spend("lost")
          /\ \E ok \in BOOLEAN : state' = [state EXCEPT !.userOk = ok] /\ (ok => answers["erase"] = 200)
      BY <1>6 DEF Recipe!Erased, Recipe!Answered, Recipe!accountVars
    <2>2. left' \in [DOMAIN RecipeTrouble -> Nat] /\ left'["patch"] = left["patch"]
      BY <2>1, <1>b, RecipeAnswered
    <2>3. /\ state' \in RecipeState /\ state'.created = state.created /\ state'.prefix = state.prefix
          /\ state'.userOk => user.erased
      BY <2>1, <1>a DEF RecipeTypes, RecipeState, AccountInv, Disarmed
    <2>4. RecipeTypes'
      BY <2>1, <2>2, <2>3, <1>a DEF RecipeTypes, Recipe!FirstTokenTypeOK, Recipe!AccountsTypeOK, Stages
    <2>5. AskedOnce'
      BY <2>1, <2>3, <1>a DEF AskedOnce, Disarmed, Stages, Unasked, Requested
    <2>6. Progress'
      BY <2>1, <2>3, <1>a DEF Progress, Stages, Unasked, Requested
    <2>7. AccountInv'
      BY <2>1, <2>2, <2>3, <1>a DEF AccountInv, Disarmed, Stages, Unasked, Requested
    <2> QED
      BY <2>4, <2>5, <2>6, <2>7 DEF RecipeInv
  <1>7. CASE Recipe!Report
    <2>1. /\ pc = "report" /\ pc' = "ended" /\ UNCHANGED <<mode, state, loaded, usageRow, left>>
          /\ UNCHANGED <<user, key, requests, answers>>
          /\ outcome' \in [returned : BOOLEAN, served : BOOLEAN, cleaned : BOOLEAN, traffic : BOOLEAN]
          /\ ~outcome.cleaned /\ (reason = "cancelled" => reason' = "cancelled")
          /\ outcome'.cleaned => state.userOk /\ reason' # "cancelled"
          /\ outcome'.served \/ outcome'.traffic => reason = "ok" /\ outcome'.cleaned
      <3> DEFINE served == reason = "ok" /\ Recipe!Cleaned
                 report == [returned |-> TRUE, served |-> served, cleaned |-> Recipe!Cleaned,
                            traffic |-> mode = "warmup" /\ served]
      <3>1. /\ pc = "report" /\ pc' = "ended" /\ UNCHANGED <<mode, state, loaded, usageRow, left>>
            /\ UNCHANGED <<user, key, requests, answers>>
            /\ \/ reason = "cancelled" /\ UNCHANGED <<outcome, reason>>
               \/ reason # "cancelled" /\ outcome' = report /\ reason' # "cancelled"
        BY <1>7 DEF Recipe!Report, Recipe!Returned, Recipe!accountVars
      <3>2. ~outcome.cleaned /\ ~outcome.served /\ ~outcome.traffic
        BY <3>1, <1>a DEF Progress
      <3>3. outcome \in [returned : BOOLEAN, served : BOOLEAN, cleaned : BOOLEAN, traffic : BOOLEAN]
        BY <1>a DEF RecipeTypes, Recipe!FirstTokenTypeOK
      <3>4. Recipe!Cleaned \in BOOLEAN /\ (Recipe!Cleaned => state.userOk)
        BY DEF Recipe!Cleaned
      <3>5. /\ report \in [returned : BOOLEAN, served : BOOLEAN, cleaned : BOOLEAN, traffic : BOOLEAN]
            /\ report.cleaned => state.userOk
            /\ report.served \/ report.traffic => reason = "ok" /\ report.cleaned
        BY <3>4, Zenon
      <3> HIDE DEF report
      <3> QED
        BY <3>1, <3>2, <3>3, <3>5, Zenon
    <2>2. RecipeTypes'
      BY <2>1, <1>a DEF RecipeTypes, Recipe!FirstTokenTypeOK, Recipe!AccountsTypeOK, Stages
    <2>3. AskedOnce'
      BY <2>1, <1>a DEF AskedOnce, Disarmed, Stages, Unasked, Requested
    <2>4. Progress'
      BY <2>1, <1>a DEF Progress, Stages, Unasked, Requested
    <2>5. AccountInv'
      BY <2>1, <1>a DEF AccountInv, Disarmed, Stages, Unasked, Requested
    <2> QED
      BY <2>2, <2>3, <2>4, <2>5 DEF RecipeInv
  <1> QED
    BY <1>1, <1>2, <1>3, <1>4, <1>5, <1>6, <1>7

\* The handlers of the gateway, whoever still waits for them.
LEMMA ReplyOne ==
  ASSUME RecipeInv, NEW req \in requests, NEW status \in {200, 201, 404, 409}, Recipe!Reply(req, status)
  PROVE  /\ requests' \subseteq requests
         /\ answers' \in [Recipe!Operations -> {0, 200, 201, 404, 409}]
         /\ \A other \in requests' : other.op # "patch" => answers'[other.op] = 0
         /\ req.op # "patch" => ~Requested(req.op)'
         /\ \A op : Requested(op)' => Requested(op)
         /\ answers'["erase"] = 200 => answers["erase"] = 200 \/ (req.op = "erase" /\ status = 200)
  <1>1. /\ requests \subseteq [op : Recipe!Operations, at : {"sent", "read"}]
        /\ answers \in [Recipe!Operations -> {0, 200, 201, 404, 409}]
    BY DEF RecipeInv, RecipeTypes, Recipe!FirstTokenTypeOK, Recipe!AccountsTypeOK
  <1>2. requests' = requests \ {req} /\ answers' = [answers EXCEPT ![req.op] = status]
    BY DEF Recipe!Reply
  <1>3. \A other \in requests' : other.op = req.op => req.op = "patch"
    BY <1>2 DEF RecipeInv, AskedOnce, Disarmed
  <1>4. req.op \in Recipe!Operations
    BY <1>1
  <1>5. answers' \in [Recipe!Operations -> {0, 200, 201, 404, 409}]
    BY <1>1, <1>2, <1>4
  <1>6. \A other \in requests' : other.op # "patch" => answers'[other.op] = 0
    BY <1>1, <1>2, <1>3, <1>4 DEF RecipeInv, AskedOnce, Disarmed
  <1>7. req.op # "patch" => ~Requested(req.op)'
    BY <1>3 DEF Requested
  <1>8. \A op : Requested(op)' => Requested(op)
    BY <1>2 DEF Requested
  <1>9. answers'["erase"] = 200 => answers["erase"] = 200 \/ (req.op = "erase" /\ status = 200)
    BY <1>1, <1>2, <1>4 DEF Recipe!Operations
  <1> QED
    BY <1>2, <1>5, <1>6, <1>7, <1>8, <1>9

LEMMA RecipeServed ==
  ASSUME RecipeInv, Recipe!Serve
  PROVE  RecipeInv'
  <1>a. RecipeTypes /\ AskedOnce /\ Progress /\ AccountInv
    BY DEF RecipeInv
  <1>b. UNCHANGED <<loaded, usageRow, left, pc, mode, reason, state, outcome>>
    BY DEF Recipe!Serve, Recipe!recipeVars
  <1>c. PICK req \in requests :
          \/ Recipe!CreateUser(req) \/ Recipe!ReadUser(req) \/ Recipe!InsertKey(req)
          \/ Recipe!RevokeKey(req) \/ Recipe!Anonymize(req) \/ Recipe!UpdateUser(req)
    BY DEF Recipe!Serve, Recipe!Handle
  <1>d. /\ requests \subseteq [op : Recipe!Operations, at : {"sent", "read"}]
        /\ user \in [exists : BOOLEAN, active : BOOLEAN, erased : BOOLEAN, pii : BOOLEAN]
        /\ key \in [exists : BOOLEAN, active : BOOLEAN, named : BOOLEAN]
    BY <1>a DEF RecipeTypes, Recipe!FirstTokenTypeOK, Recipe!AccountsTypeOK
  <1>e. ASSUME NEW status \in {200, 201, 404, 409}, Recipe!Reply(req, status),
               user' \in [exists : BOOLEAN, active : BOOLEAN, erased : BOOLEAN, pii : BOOLEAN],
               key' \in [exists : BOOLEAN, active : BOOLEAN, named : BOOLEAN],
               user.erased => user'.erased
        PROVE  RecipeTypes' /\ AskedOnce' /\ Progress'
    <2>1. RecipeTypes'
      BY <1>a, <1>b, <1>d, <1>e, ReplyOne DEF RecipeTypes, Recipe!FirstTokenTypeOK, Recipe!AccountsTypeOK
    <2>2. AskedOnce'
      BY <1>a, <1>b, <1>e, ReplyOne DEF AskedOnce, Disarmed
    <2>3. Progress'
      BY <1>a, <1>b, <1>e, ReplyOne DEF Progress
    <2> QED
      BY <2>1, <2>2, <2>3
  <1>f. Requested(req.op) /\ req.op \in Recipe!Operations
    BY <1>d DEF Requested
  <1>1. CASE Recipe!CreateUser(req)
    <2>1. CASE Recipe!Found
      <3>1. Recipe!Reply(req, 409) /\ UNCHANGED <<user, key>>
        BY <1>1, <2>1 DEF Recipe!CreateUser
      <3>2. AccountInv'
        BY <3>1, <1>a, <1>b, ReplyOne DEF AccountInv, Disarmed
      <3> QED
        BY <3>1, <3>2, <1>d, <1>e DEF RecipeInv
    <2>2. CASE ~Recipe!Found
      <3>1. /\ Recipe!Reply(req, 201) /\ UNCHANGED key /\ req.op = "create"
            /\ user' = [exists |-> TRUE, active |-> TRUE, erased |-> FALSE, pii |-> TRUE]
        BY <1>1, <2>2 DEF Recipe!CreateUser
      <3>2. ~user.exists /\ ~user.erased /\ (state.created \/ Disarmed) /\ ~Requested("create")'
        BY <3>1, <1>a, <1>f, ReplyOne DEF AccountInv, Disarmed, AskedOnce, Recipe!Operations
      <3>3. AccountInv'
        BY <3>1, <3>2, <1>a, <1>b, ReplyOne DEF AccountInv, Disarmed
      <3> QED
        BY <3>1, <3>2, <3>3, <1>d, <1>e DEF RecipeInv
    <2> QED
      BY <2>1, <2>2
  <1>2. CASE Recipe!ReadUser(req)
    <2>1. CASE Recipe!Found
      <3> DEFINE reading == [req EXCEPT !.at = "read"]
      <3>1. /\ requests' = (requests \ {req}) \cup {reading} /\ UNCHANGED <<answers, user, key>>
            /\ user.exists
        BY <1>2, <2>1 DEF Recipe!ReadUser, Recipe!Found
      <3>2. reading \in [op : Recipe!Operations, at : {"sent", "read"}] /\ reading.op = req.op
        BY <1>d
      <3>3. \A other \in requests' : \/ other \in requests \ {req}
                                      \/ other = reading
        BY <3>1
      <3> HIDE DEF reading
      <3>4. \A op : Requested(op)' => Requested(op)
        BY <3>2, <3>3 DEF Requested
      <3>5. RecipeTypes'
        BY <3>1, <3>2, <3>3, <1>a, <1>b, <1>d
        DEF RecipeTypes, Recipe!FirstTokenTypeOK, Recipe!AccountsTypeOK
      <3>6. AskedOnce'
        <4>1. \A one, other \in requests' : one.op = other.op /\ one.op # "patch" => one = other
          BY <3>2, <3>3, <1>a DEF AskedOnce, Disarmed
        <4>2. \A other \in requests' : other.op # "patch" => answers'[other.op] = 0
          BY <3>1, <3>2, <3>3, <1>a DEF AskedOnce, Disarmed
        <4> QED
          BY <4>1, <4>2, <3>4, <1>a, <1>b DEF AskedOnce, Disarmed
      <3>7. Progress'
        BY <3>1, <3>4, <1>a, <1>b DEF Progress
      <3>8. AccountInv'
        BY <3>1, <3>4, <1>a, <1>b DEF AccountInv, Disarmed
      <3> QED
        BY <3>5, <3>6, <3>7, <3>8 DEF RecipeInv
    <2>2. CASE ~Recipe!Found
      <3>1. Recipe!Reply(req, 404) /\ UNCHANGED <<user, key>>
        BY <1>2, <2>2 DEF Recipe!ReadUser
      <3>2. AccountInv'
        BY <3>1, <1>a, <1>b, ReplyOne DEF AccountInv, Disarmed
      <3> QED
        BY <3>1, <3>2, <1>d, <1>e DEF RecipeInv
    <2> QED
      BY <2>1, <2>2
  <1>3. CASE Recipe!InsertKey(req)
    <2>1. /\ Recipe!Reply(req, 201) /\ UNCHANGED user /\ req.op = "key"
          /\ key' = [exists |-> TRUE, active |-> TRUE, named |-> TRUE]
      BY <1>3 DEF Recipe!InsertKey
    <2>2. ~state.prefix
      BY <2>1, <1>a, <1>f DEF Progress
    <2>3. AccountInv'
      BY <2>1, <2>2, <1>a, <1>b, ReplyOne DEF AccountInv, Disarmed
    <2> QED
      BY <2>1, <2>3, <1>d, <1>e DEF RecipeInv
  <1>4. CASE Recipe!RevokeKey(req)
    <2>1. /\ UNCHANGED user /\ req.op = "revoke" /\ key' = [key EXCEPT !.active = FALSE]
          /\ \E status \in {200, 404} : Recipe!Reply(req, status)
      BY <1>4 DEF Recipe!RevokeKey
    <2>2. key' \in [exists : BOOLEAN, active : BOOLEAN, named : BOOLEAN] /\ ~key'.active
      BY <2>1, <1>d
    <2>3. AccountInv'
      BY <2>1, <2>2, <1>a, <1>b, ReplyOne DEF AccountInv, Disarmed
    <2> QED
      BY <2>1, <2>2, <2>3, <1>d, <1>e DEF RecipeInv
  <1>5. CASE Recipe!Anonymize(req)
    <2>1. /\ Recipe!Reply(req, 200) /\ req.op = "erase" /\ req.at = "read"
          /\ user' = [user EXCEPT !.active = user.active /\ user.erased, !.erased = TRUE,
                                  !.pii = user.pii /\ user.erased]
          /\ key' = [key EXCEPT !.active = FALSE, !.named = FALSE]
      BY <1>5 DEF Recipe!Anonymize
    <2>2. /\ key' \in [exists : BOOLEAN, active : BOOLEAN, named : BOOLEAN] /\ ~key'.active
      BY <2>1, <1>d
    <2>3. /\ user' \in [exists : BOOLEAN, active : BOOLEAN, erased : BOOLEAN, pii : BOOLEAN]
          /\ user'.exists = user.exists /\ user'.erased
          /\ user'.active => user.active /\ user.erased
      BY <2>1, <1>d
    <2>4. user.exists /\ pc \notin Stages \cup {"cleanup", "revoking"} /\ state.created
      BY <2>1, <1>a, <1>f DEF AccountInv, Disarmed, AskedOnce, Recipe!Operations
    <2>5. AccountInv'
      BY <2>1, <2>2, <2>3, <2>4, <1>a, <1>b, ReplyOne DEF AccountInv, Disarmed
    <2> QED
      BY <2>1, <2>2, <2>3, <2>5, <1>e DEF RecipeInv
  <1>6. CASE Recipe!UpdateUser(req)
    <2>1. /\ Recipe!Reply(req, 200) /\ req.op = "patch" /\ req.at = "read" /\ UNCHANGED key
          /\ user' \in {[user EXCEPT !.pii = TRUE], [user EXCEPT !.active = TRUE]}
      BY <1>6 DEF Recipe!UpdateUser
    <2>2. /\ user' \in [exists : BOOLEAN, active : BOOLEAN, erased : BOOLEAN, pii : BOOLEAN]
          /\ user'.exists = user.exists /\ user'.erased = user.erased
      BY <2>1, <1>d
    <2>3. user.exists /\ left["patch"] # RecipeTrouble["patch"]
      BY <2>1, <1>a, <1>f DEF AccountInv, Disarmed
    <2>4. AccountInv'
      BY <2>1, <2>2, <2>3, <1>a, <1>b, ReplyOne DEF AccountInv, Disarmed
    <2> QED
      BY <2>1, <2>2, <2>4, <1>d, <1>e DEF RecipeInv
  <1> QED
    BY <1>c, <1>1, <1>2, <1>3, <1>4, <1>5, <1>6

LEMMA RecipeStep ==
  ASSUME RecipeInv, [Recipe!Next]_Recipe!vars
  PROVE  RecipeInv'
  <1>1. CASE Recipe!Next
    BY <1>1, RecipeProbes, RecipeAsks, RecipeServed, RecipeCancelled, RecipePatched
    DEF Recipe!Next, Recipe!Recipe
  <1>2. CASE UNCHANGED Recipe!vars
    BY <1>2, RecipeQuiet DEF Recipe!vars, Recipe!accountVars, RecipeInv, RecipeTypes, Recipe!FirstTokenTypeOK
  <1> QED
    BY <1>1, <1>2

\* first_token.py and warmup.py over the admin routes: whatever times out, is cancelled
\* or is executed late, a recipe that reports its identity removed, or that was cancelled
\* and removed the one it answered for, leaves none that can connect, unless the operator
\* edits that account; and the traffic opens only once the generation was billed and the
\* identity that produced it is gone.  Of a user whose creation was still awaited when
\* the recipe was cancelled nothing is claimed: it may stay.
THEOREM CleanedAlwaysGone == Spec => []CleanedMeansGone
  <1> DEFINE Inv == job = "recipe" => RecipeInv
  <1>1. Init => Inv
    BY Alone, RecipeStart
  <1>2. Inv /\ [Next]_vars => Inv'
    BY Alone, RecipeStep
  <1>3. ASSUME Inv PROVE CleanedMeansGone
    <2> SUFFICES ASSUME job = "recipe"
                 PROVE  /\ Recipe!FirstTokenTypeOK /\ Recipe!CleanedMeansGone
                        /\ Recipe!NoTrafficWithResidue
      BY DEF CleanedMeansGone
    <2>1. RecipeTypes /\ AskedOnce /\ Progress /\ AccountInv
      BY <1>3 DEF RecipeInv
    <2>2. Recipe!FirstTokenTypeOK
      BY <2>1 DEF RecipeTypes
    <2>3. Recipe!CleanedMeansGone
      BY <2>1 DEF Progress, AccountInv, Disarmed, Recipe!CleanedMeansGone, Recipe!Cleaned,
                  Recipe!KeyOpens, Stages, Unasked
    <2>4. Recipe!NoTrafficWithResidue
      BY <2>1 DEF Progress, AccountInv, Disarmed, Recipe!NoTrafficWithResidue, Recipe!KeyOpens
    <2> QED
      BY <2>2, <2>3, <2>4
  <1> QED
    BY <1>1, <1>2, <1>3, PTL DEF Spec

-----------------------------------------------------------------------------
(* The measure of a model: Calibration                                     *)

ServerState == [alive : BOOLEAN, runtime : Nat, needs : Nat, run : Nat]
ReportFile == [exists : BOOLEAN, readable : BOOLEAN, runtime : Nat, built : Nat, peak : Nat]
Peak == [seen : BOOLEAN, pass : Nat, report : Nat, built : Nat]
MeasurePlaces ==
  {"off", "validate", "reuse", "rest", "load", "fork", "loading", "loadJoin", "prompting",
   "promptJoin", "unload", "passed", "write", "fill", "ended"}
RunResult ==
  [status : {"none", "done", "already_satisfied", "failed", "cancelled", "killed"}, proposed : Nat,
   built : Nat, stray : BOOLEAN, at : MeasurePlaces \cup {"none"}]

Names ==
  /\ pc \in MeasurePlaces
  /\ sampler \in {"off", "vram", "ram", "sleeping"}
  /\ operation \in {"none", "ok", "failed", "cancelled"}
  /\ failing \in {"none", "failed", "cancelled"}

Places ==
  Names /\ phase \in {1, 2} /\ rounds \in 0..(MaxSamples + 1) /\ stopping \in BOOLEAN /\ held \in BOOLEAN

Measures ==
  /\ identity \in [runtime : Nat, params : Nat] /\ installed \in Runtimes
  /\ pc # "off" => identity.runtime \in Runtimes /\ identity.params \in Params
  /\ peak \in Peak
  /\ reports \in [Params -> ReportFile] /\ result \in RunResult

ServerTypes == server \in ServerState /\ (server.alive => server.runtime \in Runtimes)

MeasureLeft ==
  left \in [DOMAIN MeasureTrouble -> Nat] /\ left["reading"] <= MeasureTrouble["reading"]

\* The count of the samples, which goes on from the load to the prompt.
SamplerInv ==
  /\ pc \in {"load", "fork", "loading", "loadJoin"} =>
       rounds <= MaxSamples /\ (sampler # "off" => rounds < MaxSamples)
  /\ pc \in {"prompting", "promptJoin"} =>
       /\ sampler \in {"vram", "ram"} => rounds <= MaxSamples
       /\ sampler = "sleeping" => rounds < MaxSamples
  /\ pc \notin {"load", "fork", "loading", "loadJoin", "prompting", "promptJoin"} => sampler = "off"

\* The executor believes in a server, which then is there.
Serving ==
  pc \in {"loading", "prompting", "promptJoin"} \/ (pc = "loadJoin" /\ operation = "ok")

PhaseName == IF phase = 1 THEN "reduced" ELSE "target"
Needed(runtime, name) == Need[runtime][identity.params][name]

\* The server of a pass, and the one the run would leave behind.
ServerInv ==
  /\ Serving => server.alive /\ server.needs = Needed(server.runtime, PhaseName)
  /\ pc \in {"loadJoin", "promptJoin"} => operation # "none"
  /\ server.alive => server.run >= left["runs"]
  /\ server.alive /\ server.run = left["runs"] =>
       \/ Serving \/ pc = "unload" \/ result.stray
       \/ pc = "ended" /\ result.status = "killed"
       \/ pc = "ended" /\ result.status = "cancelled" /\ result.at \in {"loadJoin", "unload"}

AllRead == left["reading"] = MeasureTrouble["reading"]

\* When every reading answered: from the samples of the last pass to the report.
CoverInv ==
  /\ pc # "ended" => result.status = "none"
  /\ pc \in {"write", "fill"} => phase = 2
  /\ AllRead /\ pc \in {"prompting", "promptJoin"} => sampler = "vram" \/ peak.pass >= server.needs
  /\ AllRead /\ pc \in {"unload", "passed"} /\ failing = "none" =>
       peak.pass >= Needed(peak.built, PhaseName)
  /\ AllRead /\ pc \in {"write", "fill"} => peak.report >= Needed(peak.built, "target")
  /\ AllRead => \A p \in Params : reports[p].readable =>
       reports[p].peak >= Need[reports[p].built][p]["target"]
  /\ AllRead /\ result.status \in {"done", "already_satisfied"} =>
       result.proposed >= Needed(result.built, "target") + Margin

\* The build that is measured, against the one that was asked for its version, from
\* the fork of its server to the report and to whoever reuses it.
Labelled(build, label) == build \in Runtimes /\ (~mislabelled => build = label)

BuildInv ==
  /\ mislabelled \in BOOLEAN
  /\ Serving => peak.built = server.runtime /\ Labelled(server.runtime, probed)
  /\ pc \in {"prompting", "promptJoin"} => probed = identity.runtime
  /\ pc \in {"unload", "passed"} /\ failing = "none" => Labelled(peak.built, identity.runtime)
  /\ pc \in {"write", "fill"} => Labelled(peak.built, identity.runtime)
  /\ \A p \in Params : reports[p].readable => Labelled(reports[p].built, reports[p].runtime)
  /\ result.status \in {"done", "already_satisfied"} => Labelled(result.built, identity.runtime)

MeasureInv ==
  Places /\ Measures /\ ServerTypes /\ MeasureLeft /\ SamplerInv /\ ServerInv /\ CoverInv /\ BuildInv

LEMMA MeasureConstants ==
  /\ MaxSamples \in Nat /\ MaxSamples > 0 /\ Margin \in Nat
  /\ Runtimes \subseteq Nat /\ Params \subseteq Nat
  /\ \A r \in Runtimes, p \in Params : Need[r][p]["reduced"] \in Nat /\ Need[r][p]["target"] \in Nat
  /\ DOMAIN MeasureTrouble =
       {"runs", "reading", "load", "prompt", "unload", "write", "cancel", "crash", "upgrade"}
  BY MeasureAssumption DEF MeasureAssumption

LEMMA ServerOff == Measuring!Off \in ServerState /\ ~Measuring!Off.alive
  BY DEF Measuring!Off, ServerState

LEMMA MeasureStart ==
  ASSUME Measuring!Init
  PROVE  MeasureInv
  <1>1. Places
    <2>1. MaxSamples \in Nat
      BY MeasureConstants
    <2>2. /\ pc = "off" /\ phase = 1 /\ sampler = "off" /\ stopping = TRUE /\ rounds = 0 /\ held = FALSE
          /\ operation = "none" /\ failing = "none"
      BY DEF Measuring!Init
    <2>3. rounds \in 0..(MaxSamples + 1) /\ phase \in {1, 2}
      BY <2>1, <2>2
    <2>4. stopping \in BOOLEAN /\ held \in BOOLEAN
      BY <2>2
    <2>5. Names
      BY <2>2 DEF Names, MeasurePlaces
    <2> QED
      BY <2>3, <2>4, <2>5 DEF Places
  <1>2. left \in [DOMAIN MeasureTrouble -> Nat] /\ left["reading"] \in Nat /\ left["runs"] \in Nat
        /\ left = MeasureTrouble
    BY MeasureAssumption DEF Measuring!Init
  <1>3. Measures
    <2>1. Measuring!NoResult \in RunResult
      BY DEF RunResult, Measuring!NoResult
    <2>2. reports \in [Params -> ReportFile]
      BY DEF Measuring!Init, ReportFile, Measuring!NoReport
    <2> QED
      BY <2>1, <2>2 DEF Measuring!Init, Measures, Peak, Measuring!NoPeak
  <1>4. ServerTypes /\ MeasureLeft
    BY <1>2, ServerOff DEF Measuring!Init, ServerTypes, MeasureLeft
  <1>5. SamplerInv /\ ServerInv /\ CoverInv
    BY <1>2, ServerOff DEF Measuring!Init, Measuring!NoReport, Measuring!NoResult, SamplerInv, ServerInv,
       CoverInv, Serving
  <1>6. BuildInv
    BY DEF Measuring!Init, Measuring!NoReport, Measuring!NoResult, BuildInv, Serving
  <1> QED
    BY <1>1, <1>3, <1>4, <1>5, <1>6 DEF MeasureInv

\* What End leaves in result.
LEMMA RunEnds ==
  ASSUME result \in RunResult, NEW m \in Nat, NEW b \in Nat,
         NEW s \in {"none", "done", "already_satisfied", "failed", "cancelled", "killed"},
         result' = [result EXCEPT !.status = s, !.proposed = m, !.built = b]
  PROVE  /\ result' \in RunResult /\ result'.status = s /\ result'.proposed = m /\ result'.built = b
         /\ result'.stray = result.stray /\ result'.at = result.at
  BY DEF RunResult

\* What is left of the scenario only goes down.
LEMMA MeasureSpend ==
  ASSUME MeasureLeft, NEW what \in DOMAIN MeasureTrouble, Measuring!Spend(what)
  PROVE  /\ MeasureLeft' /\ left["runs"] \in Nat /\ left'["runs"] \in Nat
         /\ what = "runs" => left'["runs"] < left["runs"]
         /\ what # "runs" => left'["runs"] = left["runs"]
         /\ AllRead' => AllRead /\ what # "reading"
  <1> DEFINE kinds == DOMAIN MeasureTrouble
  <1>1. left \in [kinds -> Nat] /\ left[what] > 0 /\ left' = [left EXCEPT ![what] = @ - 1]
    BY DEF MeasureLeft, Measuring!Spend
  <1>2. {"runs", "reading", what} \subseteq kinds /\ MeasureTrouble \in [kinds -> Nat]
        /\ left["reading"] <= MeasureTrouble["reading"]
    BY MeasureAssumption DEF MeasureLeft
  <1> HIDE DEF kinds
  <1>3. left[what] \in Nat /\ left[what] - 1 \in Nat
    BY <1>1, <1>2
  <1>4. /\ left' \in [kinds -> Nat] /\ left'[what] = left[what] - 1
        /\ \A k \in kinds \ {what} : left'[k] = left[k]
    BY <1>1, <1>2, <1>3
  <1>5. left["reading"] \in Nat /\ left["runs"] \in Nat /\ MeasureTrouble["reading"] \in Nat
    BY <1>1, <1>2
  <1> QED
    BY <1>1, <1>2, <1>3, <1>4, <1>5 DEF kinds, AllRead, MeasureLeft

\* The sampling task.
LEMMA MeasureSamples ==
  ASSUME MeasureInv, Measuring!ReadVram \/ Measuring!ReadRam \/ Measuring!Wake
  PROVE  MeasureInv'
  <1>a. Places /\ Measures /\ ServerTypes /\ MeasureLeft /\ SamplerInv /\ ServerInv /\ CoverInv
        /\ BuildInv
    BY DEF MeasureInv
  <1>b. left["runs"] \in Nat /\ MaxSamples \in Nat /\ MaxSamples > 0
    BY <1>a, MeasureConstants DEF MeasureLeft
  <1> USE DEF Measuring!UnchangedPass, Measuring!UnchangedWorld, Measuring!End, Measuring!Fail,
              Measuring!UnchangedBuild, Measuring!StartSampling, Measuring!OperationEnds, MeasurePlaces
  <1>1. CASE Measuring!ReadVram
    <2>a. Measuring!MemoryNow \in Nat /\ peak.pass \in Nat
      BY <1>a DEF Measuring!MemoryNow, ServerTypes, ServerState, Measures, Peak
    <2>b. PICK m \in Nat : /\ m >= peak.pass /\ m >= Measuring!MemoryNow
                           /\ m = Measuring!Larger(peak.pass, Measuring!MemoryNow)
      BY <2>a DEF Measuring!Larger
    <2>c. \/ peak' = [peak EXCEPT !.seen = TRUE, !.pass = m] /\ UNCHANGED left
          \/ ~AllRead' /\ UNCHANGED peak
      BY <1>1, <2>b, <1>a, MeasureConstants, MeasureSpend DEF Measuring!ReadVram
    <2>1. MeasureLeft' /\ left'["runs"] = left["runs"] /\ left'["runs"] \in Nat /\ (AllRead' => AllRead)
      BY <1>1, <1>a, <1>b, MeasureConstants, MeasureSpend DEF Measuring!ReadVram, MeasureLeft, AllRead
    <2>2. Places'
      <3>1. Names'
        BY <1>1, <1>a DEF Measuring!ReadVram, Measuring!Larger, Measuring!MemoryNow, Places, Names
      <3>2. (rounds \in 0..(MaxSamples + 1) /\ phase \in {1,
         2} /\ stopping \in BOOLEAN /\ held \in BOOLEAN)'
        BY <1>1, <1>a, <1>b DEF Measuring!ReadVram, Measuring!Larger, Measuring!MemoryNow, Places, Names,
           SamplerInv
      <3> QED
        BY <3>1, <3>2 DEF Places
    <2>3. Measures'
      BY <1>1, <1>a, <2>c DEF Measuring!ReadVram, Measures, Peak
    <2>4. ServerTypes'
      BY <1>1, <1>a, ServerOff DEF Measuring!ReadVram, Measuring!Larger, Measuring!MemoryNow, Places,
         Names, Measures, ServerTypes, ServerState
    <2>5. SamplerInv'
      BY <1>1, <1>a, <1>b DEF Measuring!ReadVram, Measuring!Larger, Measuring!MemoryNow, Places, Names,
         SamplerInv
    <2>6. ServerInv'
      BY <1>1, <1>a, <1>b, <2>1, ServerOff DEF Measuring!ReadVram, Measuring!Larger, Measuring!MemoryNow,
         ServerInv, Serving, Needed, PhaseName, Places, Names, Measures, ServerTypes, ServerState, RunResult
    <2>7. CoverInv'
      <3>1. /\ UNCHANGED <<pc, phase, failing, server, identity, reports, result>> /\ sampler' = "ram"
            /\ peak'.pass >= peak.pass /\ peak'.report = peak.report /\ peak'.built = peak.built
            /\ AllRead' /\ server.alive => peak'.pass >= server.needs
        <4>1. CASE peak' = [peak EXCEPT !.seen = TRUE, !.pass = m]
          <5>1. peak'.pass = m /\ peak'.report = peak.report /\ peak'.built = peak.built
            BY <4>1, <1>a DEF Measures, Peak
          <5>2. server.alive => m >= server.needs
            BY <2>b DEF Measuring!MemoryNow
          <5> QED
            BY <1>1, <5>1, <5>2, <2>b DEF Measuring!ReadVram
        <4>2. CASE ~AllRead' /\ UNCHANGED peak
          BY <1>1, <4>2, <2>a DEF Measuring!ReadVram
        <4> QED
          BY <2>c, <4>1, <4>2
      <3>2. pc \in {"prompting", "promptJoin"} => server.alive
        BY <1>a DEF ServerInv, Serving
      <3>3. pc \in {"unload", "passed"} => FALSE
        BY <1>1, <1>a DEF SamplerInv, Measuring!ReadVram
      <3> QED
        BY <1>a, <2>1, <3>1, <3>2, <3>3 DEF CoverInv, Needed, PhaseName
    <2>8. BuildInv'
      <3>1. peak'.built = peak.built
        BY <2>c, <1>a DEF Measures, Peak
      <3>2. UNCHANGED <<pc, phase, operation, failing, server, identity, reports, result, probed, mislabelled>>
        BY <1>1 DEF Measuring!ReadVram
      <3> QED
        BY <3>1, <3>2, <1>a DEF BuildInv, Labelled, Serving
    <2> QED
      BY <2>1, <2>2, <2>3, <2>4, <2>5, <2>6, <2>7, <2>8 DEF MeasureInv
  <1>2. CASE Measuring!ReadRam
    <2>1. MeasureLeft' /\ left'["runs"] = left["runs"] /\ left'["runs"] \in Nat /\ (AllRead' => AllRead)
      BY <1>2, <1>a, <1>b DEF Measuring!ReadRam, MeasureLeft, AllRead
    <2>2. Places'
      <3>1. Names'
        BY <1>2, <1>a DEF Measuring!ReadRam, Places, Names
      <3>2. (rounds \in 0..(MaxSamples + 1) /\ phase \in {1,
         2} /\ stopping \in BOOLEAN /\ held \in BOOLEAN)'
        BY <1>2, <1>a, <1>b DEF Measuring!ReadRam, Places, Names, SamplerInv
      <3> QED
        BY <3>1, <3>2 DEF Places
    <2>3. Measures'
      BY <1>2, <1>a DEF Measuring!ReadRam, Places, Names, Measures, ReportFile, RunResult
    <2>4. ServerTypes'
      BY <1>2, <1>a, ServerOff DEF Measuring!ReadRam, Places, Names, Measures, ServerTypes, ServerState
    <2>5. SamplerInv'
      BY <1>2, <1>a, <1>b DEF Measuring!ReadRam, Places, Names, SamplerInv
    <2>6. ServerInv'
      BY <1>2, <1>a, <1>b, <2>1, ServerOff DEF Measuring!ReadRam, ServerInv, Serving, Needed, PhaseName,
         Places, Names, Measures, ServerTypes, ServerState, RunResult
    <2>7. CoverInv'
      BY <1>2, <1>a, <1>b, <2>1, MeasureConstants DEF Measuring!ReadRam, CoverInv, SamplerInv, ServerInv,
         Serving, Needed, PhaseName, Places, Names, Measures, ServerTypes, ServerState, RunResult
    <2>8. BuildInv'
      BY <1>2, <1>a DEF Measuring!ReadRam, BuildInv, Labelled, Serving, ServerInv, Measures
    <2> QED
      BY <2>1, <2>2, <2>3, <2>4, <2>5, <2>6, <2>7, <2>8 DEF MeasureInv
  <1>3. CASE Measuring!Wake
    <2>1. MeasureLeft' /\ left'["runs"] = left["runs"] /\ left'["runs"] \in Nat /\ (AllRead' => AllRead)
      BY <1>3, <1>a, <1>b DEF Measuring!Wake, MeasureLeft, AllRead
    <2>2. Places'
      <3>1. Names'
        BY <1>3, <1>a DEF Measuring!Wake, Places, Names
      <3>2. (rounds \in 0..(MaxSamples + 1) /\ phase \in {1,
         2} /\ stopping \in BOOLEAN /\ held \in BOOLEAN)'
        BY <1>3, <1>a, <1>b DEF Measuring!Wake, Places, Names, SamplerInv
      <3> QED
        BY <3>1, <3>2 DEF Places
    <2>3. Measures'
      BY <1>3, <1>a DEF Measuring!Wake, Places, Names, Measures, ReportFile, RunResult
    <2>4. ServerTypes'
      BY <1>3, <1>a, ServerOff DEF Measuring!Wake, Places, Names, Measures, ServerTypes, ServerState
    <2>5. SamplerInv'
      BY <1>3, <1>a, <1>b DEF Measuring!Wake, Places, Names, SamplerInv
    <2>6. ServerInv'
      BY <1>3, <1>a, <1>b, <2>1, ServerOff DEF Measuring!Wake, ServerInv, Serving, Needed, PhaseName,
         Places, Names, Measures, ServerTypes, ServerState, RunResult
    <2>7. CoverInv'
      BY <1>3, <1>a, <1>b, <2>1, MeasureConstants DEF Measuring!Wake, CoverInv, SamplerInv, ServerInv,
         Serving, Needed, PhaseName, Places, Names, Measures, ServerTypes, ServerState, RunResult
    <2>8. BuildInv'
      BY <1>3, <1>a DEF Measuring!Wake, BuildInv, Labelled, Serving, ServerInv, Measures
    <2> QED
      BY <2>1, <2>2, <2>3, <2>4, <2>5, <2>6, <2>7, <2>8 DEF MeasureInv
  <1> QED
    BY <1>1, <1>2, <1>3

\* Up to the first pass, and what happens around the executor.
LEMMA MeasureBegins ==
  ASSUME MeasureInv, Measuring!Start \/ Measuring!ValidateEnvironment \/ Measuring!Reuse
     \/ Measuring!Rest \/ Measuring!Crash \/ Measuring!Upgrade \/ Measuring!OperatorStops
  PROVE  MeasureInv'
  <1>a. Places /\ Measures /\ ServerTypes /\ MeasureLeft /\ SamplerInv /\ ServerInv /\ CoverInv
        /\ BuildInv
    BY DEF MeasureInv
  <1>b. left["runs"] \in Nat /\ MaxSamples \in Nat /\ MaxSamples > 0
    BY <1>a, MeasureConstants DEF MeasureLeft
  <1> USE DEF Measuring!UnchangedPass, Measuring!UnchangedWorld, Measuring!End, Measuring!Fail,
              Measuring!UnchangedBuild, Measuring!StartSampling, Measuring!OperationEnds, MeasurePlaces
  <1>1. CASE Measuring!Start
    <2>1. MeasureLeft' /\ left'["runs"] < left["runs"] /\ left'["runs"] \in Nat /\ (AllRead' => AllRead)
      BY <1>1, <1>a, <1>b, MeasureConstants, MeasureSpend DEF Measuring!Start, MeasureLeft, AllRead
    <2>2. Places'
      <3>1. Names'
        BY <1>1, <1>a DEF Measuring!Start, Measuring!NoPeak, Places, Names
      <3>2. (rounds \in 0..(MaxSamples + 1) /\ phase \in {1,
         2} /\ stopping \in BOOLEAN /\ held \in BOOLEAN)'
        BY <1>1, <1>a, <1>b DEF Measuring!Start, Measuring!NoPeak, Places, Names, SamplerInv
      <3> QED
        BY <3>1, <3>2 DEF Places
    <2>3. Measures'
      <3>1. PICK r \in Runtimes, p \in Params : identity' = [runtime |-> r, params |-> p]
        BY <1>1 DEF Measuring!Start
      <3>2. /\ identity' \in [runtime : Nat, params : Nat]
            /\ identity'.runtime \in Runtimes /\ identity'.params \in Params
        BY <3>1, MeasureConstants
      <3>3. peak' \in Peak
        BY <1>1 DEF Measuring!Start, Measuring!NoPeak, Peak
      <3>4. result' \in RunResult
        BY <1>1 DEF Measuring!Start, Measuring!NoResult, RunResult
      <3> QED
        BY <1>1, <1>a, <3>2, <3>3, <3>4 DEF Measuring!Start, Measures
    <2>4. ServerTypes'
      BY <1>1, <1>a, ServerOff DEF Measuring!Start, Measuring!NoPeak, Places, Names, Measures, ServerTypes,
         ServerState
    <2>5. SamplerInv'
      BY <1>1, <1>a, <1>b DEF Measuring!Start, Measuring!NoPeak, Places, Names, SamplerInv
    <2>6. ServerInv'
      BY <1>1, <1>a, <1>b, <2>1, ServerOff DEF Measuring!Start, Measuring!NoPeak, Measuring!NoResult, ServerInv, Serving,
         Needed, PhaseName, Places, Names, Measures, ServerTypes, ServerState, RunResult
    <2>7. CoverInv'
      BY <1>1, <1>a, <1>b, <2>1, MeasureConstants DEF Measuring!Start, Measuring!NoPeak, Measuring!NoResult, CoverInv,
         SamplerInv, ServerInv, Serving, Needed, PhaseName, Places, Names, Measures, ServerTypes,
         ServerState, RunResult
    <2>8. BuildInv'
      BY <1>1, <1>a DEF Measuring!Start, Measuring!NoResult, BuildInv, Labelled, Serving, ServerInv, Measures
    <2> QED
      BY <2>1, <2>2, <2>3, <2>4, <2>5, <2>6, <2>7, <2>8 DEF MeasureInv
  <1>2. CASE Measuring!ValidateEnvironment
    <2>1. MeasureLeft' /\ left'["runs"] = left["runs"] /\ left'["runs"] \in Nat /\ (AllRead' => AllRead)
      BY <1>2, <1>a, <1>b DEF Measuring!ValidateEnvironment, MeasureLeft, AllRead
    <2>2. Places'
      <3>1. Names'
        BY <1>2, <1>a DEF Measuring!ValidateEnvironment, Places, Names
      <3>2. (rounds \in 0..(MaxSamples + 1) /\ phase \in {1,
         2} /\ stopping \in BOOLEAN /\ held \in BOOLEAN)'
        BY <1>2, <1>a, <1>b DEF Measuring!ValidateEnvironment, Places, Names, SamplerInv
      <3> QED
        BY <3>1, <3>2 DEF Places
    <2>3. Measures'
      <3>1. result' \in RunResult
        BY <1>2, <1>a, RunEnds DEF Measuring!ValidateEnvironment, Measures
      <3> QED
        BY <1>2, <1>a, <3>1 DEF Measuring!ValidateEnvironment, Measures, Places, Names
    <2>4. ServerTypes'
      BY <1>2, <1>a, ServerOff DEF Measuring!ValidateEnvironment, Places, Names, Measures, ServerTypes,
         ServerState
    <2>5. SamplerInv'
      BY <1>2, <1>a, <1>b DEF Measuring!ValidateEnvironment, Places, Names, SamplerInv
    <2>6. ServerInv'
      BY <1>2, <1>a, <1>b, <2>1, ServerOff DEF Measuring!ValidateEnvironment, ServerInv, Serving, Needed,
         PhaseName, Places, Names, Measures, ServerTypes, ServerState, RunResult
    <2>7. CoverInv'
      BY <1>2, <1>a, <1>b, <2>1, MeasureConstants DEF Measuring!ValidateEnvironment, CoverInv, SamplerInv,
         ServerInv, Serving, Needed, PhaseName, Places, Names, Measures, ServerTypes, ServerState, RunResult
    <2>8. BuildInv'
      <3>1. /\ \/ UNCHANGED result
               \/ result' = [result EXCEPT !.status = "failed", !.proposed = 0, !.built = 0]
            /\ UNCHANGED <<identity, phase, failing, operation, peak, server, reports, probed, mislabelled>>
            /\ pc' \in {"reuse", "load", "ended"}
        BY <1>2 DEF Measuring!ValidateEnvironment
      <3>2. result \in RunResult
        BY <1>a DEF Measures
      <3>3. UNCHANGED result \/ result'.status = "failed"
        <4> HIDE DEF MeasurePlaces
        <4> QED
          BY <3>1, <3>2 DEF RunResult
      <3> HIDE DEF MeasurePlaces
      <3> QED
        BY <3>1, <3>3, <1>a DEF BuildInv, Labelled, Serving
    <2> QED
      BY <2>1, <2>2, <2>3, <2>4, <2>5, <2>6, <2>7, <2>8 DEF MeasureInv
  <1>3. CASE Measuring!Reuse
    <2>a. \/ UNCHANGED result /\ pc' = "rest"
          \/ \E p \in Params : /\ reports[p].readable /\ reports[p].runtime = identity.runtime
                               /\ p = identity.params /\ pc' = "ended"
                               /\ result' = [result EXCEPT !.status = "already_satisfied",
                                               !.proposed = reports[p].peak + Margin,
                                               !.built = reports[p].built]
      BY <1>3 DEF Measuring!Reuse, Measuring!Reusable, Measuring!EvaluateReuse, Measuring!Proposed
    <2>b. \A p \in Params : reports[p].peak + Margin \in Nat /\ reports[p].built \in Nat
      <3>1. Margin \in Nat /\ reports \in [Params -> ReportFile]
        BY <1>a, MeasureConstants DEF Measures
      <3>2. \A file \in ReportFile : file.peak \in Nat /\ file.built \in Nat
        BY DEF ReportFile
      <3> QED
        BY <3>1, <3>2
    <2>c. UNCHANGED <<phase, sampler, stopping, rounds, peak, operation, failing, identity, held, server,
                      installed, reports, left, probed, mislabelled>> /\ pc = "reuse"
      BY <1>3 DEF Measuring!Reuse
    <2>d. \/ UNCHANGED result /\ pc' = "rest"
          \/ /\ pc' = "ended" /\ result' \in RunResult /\ result'.status = "already_satisfied"
             /\ reports[identity.params].readable /\ reports[identity.params].runtime = identity.runtime
             /\ result'.proposed = reports[identity.params].peak + Margin
             /\ result'.built = reports[identity.params].built /\ identity.params \in Params
             /\ result'.stray = result.stray
      <3>1. CASE pc' = "ended" /\ ~(UNCHANGED result /\ pc' = "rest")
        <4> DEFINE report == reports[identity.params]
        <4>1. /\ report.readable /\ report.runtime = identity.runtime /\ identity.params \in Params
              /\ result' = [result EXCEPT !.status = "already_satisfied",
                             !.proposed = report.peak + Margin, !.built = report.built]
          BY <3>1, <2>a
        <4>2. report.peak + Margin \in Nat /\ report.built \in Nat
          BY <4>1, <2>b
        <4> HIDE DEF report
        <4>3. /\ result' \in RunResult /\ result'.status = "already_satisfied"
              /\ result'.proposed = report.peak + Margin /\ result'.built = report.built
              /\ result'.stray = result.stray
          BY <4>1, <4>2, <1>a, RunEnds DEF Measures
        <4> QED
          BY <3>1, <4>1, <4>3 DEF report
      <3> QED
        BY <2>a, <3>1
    <2>1. MeasureLeft' /\ left'["runs"] = left["runs"] /\ left'["runs"] \in Nat /\ (AllRead' => AllRead)
      BY <1>3, <1>a, <1>b DEF Measuring!Reuse, MeasureLeft, AllRead
    <2>2. Places'
      <3>1. Names'
        BY <1>3, <1>a DEF Measuring!Reuse, Measuring!Reusable, Measuring!EvaluateReuse, Measuring!Proposed,
           Places, Names
      <3>2. (rounds \in 0..(MaxSamples + 1) /\ phase \in {1,
         2} /\ stopping \in BOOLEAN /\ held \in BOOLEAN)'
        BY <1>3, <1>a, <1>b DEF Measuring!Reuse, Measuring!Reusable, Measuring!EvaluateReuse,
           Measuring!Proposed, Places, Names, SamplerInv
      <3> QED
        BY <3>1, <3>2 DEF Places
    <2>3. Measures'
      BY <2>c, <2>d, <1>a DEF Measures
    <2>4. ServerTypes'
      BY <1>3, <1>a, ServerOff DEF Measuring!Reuse, Measuring!Reusable, Measuring!EvaluateReuse,
         Measuring!Proposed, Places, Names, Measures, ServerTypes, ServerState
    <2>5. SamplerInv'
      BY <1>3, <1>a, <1>b DEF Measuring!Reuse, Measuring!Reusable, Measuring!EvaluateReuse,
         Measuring!Proposed, Places, Names, SamplerInv
    <2>6. ServerInv'
      BY <1>3, <1>a, <1>b, <2>1, ServerOff DEF Measuring!Reuse, Measuring!Reusable,
         Measuring!EvaluateReuse, Measuring!Proposed, ServerInv, Serving, Needed, PhaseName, Places, Names,
         Measures, ServerTypes, ServerState, RunResult
    <2>7. CoverInv'
      <3>1. identity.params \in Params /\ Margin \in Nat
        BY <2>c, <1>a, MeasureConstants DEF Measures
      <3>2. AllRead' /\ result'.status = "already_satisfied" /\ pc' = "ended" =>
              result'.proposed >= Needed(result'.built, "target") + Margin
        <4>1. SUFFICES ASSUME AllRead, result'.status = "already_satisfied", pc' = "ended"
                       PROVE  result'.proposed >= Needed(result'.built, "target") + Margin
          BY <2>1
        <4>2. /\ reports[identity.params].readable /\ result'.built = reports[identity.params].built
              /\ reports[identity.params].built \in Runtimes
              /\ result'.proposed = reports[identity.params].peak + Margin
          BY <2>d, <4>1, <1>a DEF BuildInv, Labelled, CoverInv
        <4>3. reports[identity.params].peak >= Need[result'.built][identity.params]["target"]
          BY <1>a, <4>1, <4>2, <3>1 DEF CoverInv
        <4>4. reports[identity.params].peak \in Nat /\ Need[result'.built][identity.params]["target"] \in Nat
          BY <1>a, <2>c, <3>1, <4>2, MeasureConstants DEF Measures, ReportFile
        <4> QED
          BY <4>2, <4>3, <4>4, <3>1 DEF Needed
      <3> QED
        BY <2>1, <2>c, <2>d, <3>2, <1>a DEF CoverInv, Needed, PhaseName
    <2>8. BuildInv'
      BY <2>c, <2>d, <1>a DEF BuildInv, CoverInv, Labelled, Serving
    <2> QED
      BY <2>1, <2>2, <2>3, <2>4, <2>5, <2>6, <2>7, <2>8 DEF MeasureInv
  <1>4. CASE Measuring!Rest
    <2>1. MeasureLeft' /\ left'["runs"] = left["runs"] /\ left'["runs"] \in Nat /\ (AllRead' => AllRead)
      BY <1>4, <1>a, <1>b, MeasureConstants, MeasureSpend DEF Measuring!Rest, MeasureLeft, AllRead
    <2>2. Places'
      <3>1. Names'
        BY <1>4, <1>a DEF Measuring!Rest, Places, Names
      <3>2. /\ UNCHANGED <<phase, held>>
            /\ (rounds' = 0 /\ stopping' = FALSE) \/ UNCHANGED <<rounds, stopping>>
        BY <1>4 DEF Measuring!Rest
      <3>3. rounds' \in 0..(MaxSamples + 1)
        BY <3>2, <1>a, <1>b DEF Places
      <3>4. stopping' \in BOOLEAN
        BY <3>2, <1>a DEF Places
      <3> QED
        BY <3>1, <3>2, <3>3, <3>4, <1>a DEF Places
    <2>3. Measures'
      <3>1. result' \in RunResult
        BY <1>4, <1>a, RunEnds DEF Measuring!Rest, Measures
      <3> QED
        BY <1>4, <1>a, <3>1 DEF Measuring!Rest, Measures, Places, Names
    <2>4. ServerTypes'
      BY <1>4, <1>a, ServerOff DEF Measuring!Rest, Places, Names, Measures, ServerTypes, ServerState
    <2>5. SamplerInv'
      BY <1>4, <1>a, <1>b DEF Measuring!Rest, Places, Names, SamplerInv
    <2>6. ServerInv'
      BY <1>4, <1>a, <1>b, <2>1, ServerOff DEF Measuring!Rest, ServerInv, Serving, Needed, PhaseName,
         Places, Names, Measures, ServerTypes, ServerState, RunResult
    <2>7. CoverInv'
      BY <1>4, <1>a, <1>b, <2>1, MeasureConstants DEF Measuring!Rest, CoverInv, SamplerInv, ServerInv,
         Serving, Needed, PhaseName, Places, Names, Measures, ServerTypes, ServerState, RunResult
    <2>8. BuildInv'
      <3>1. /\ \/ UNCHANGED result
               \/ result' = [result EXCEPT !.status = "failed", !.proposed = 0, !.built = 0]
            /\ UNCHANGED <<identity, phase, failing, operation, peak, server, reports, probed, mislabelled>>
            /\ pc' \in {"reuse", "load", "ended"}
        BY <1>4 DEF Measuring!Rest
      <3>2. result \in RunResult
        BY <1>a DEF Measures
      <3>3. UNCHANGED result \/ result'.status = "failed"
        <4> HIDE DEF MeasurePlaces
        <4> QED
          BY <3>1, <3>2 DEF RunResult
      <3> HIDE DEF MeasurePlaces
      <3> QED
        BY <3>1, <3>3, <1>a DEF BuildInv, Labelled, Serving
    <2> QED
      BY <2>1, <2>2, <2>3, <2>4, <2>5, <2>6, <2>7, <2>8 DEF MeasureInv
  <1>5. CASE Measuring!Crash
    <2>1. MeasureLeft' /\ left'["runs"] = left["runs"] /\ left'["runs"] \in Nat /\ (AllRead' => AllRead)
      BY <1>5, <1>a, <1>b, MeasureConstants, MeasureSpend DEF Measuring!Crash, MeasureLeft, AllRead
    <2>2. Places'
      <3>1. Names'
        BY <1>5, <1>a DEF Measuring!Crash, Places, Names
      <3>2. (rounds \in 0..(MaxSamples + 1) /\ phase \in {1,
         2} /\ stopping \in BOOLEAN /\ held \in BOOLEAN)'
        BY <1>5, <1>a, <1>b DEF Measuring!Crash, Places, Names, SamplerInv
      <3> QED
        BY <3>1, <3>2 DEF Places
    <2>3. Measures'
      <3>1. result' \in RunResult
        BY <1>5, <1>a, RunEnds DEF Measuring!Crash, Measures
      <3> QED
        BY <1>5, <1>a, <3>1 DEF Measuring!Crash, Measures, Places, Names
    <2>4. ServerTypes'
      BY <1>5, <1>a, ServerOff DEF Measuring!Crash, Places, Names, Measures, ServerTypes, ServerState
    <2>5. SamplerInv'
      BY <1>5, <1>a, <1>b DEF Measuring!Crash, Places, Names, SamplerInv
    <2>6. ServerInv'
      BY <1>5, <1>a, <1>b, <2>1, ServerOff DEF Measuring!Crash, ServerInv, Serving, Needed, PhaseName,
         Places, Names, Measures, ServerTypes, ServerState, RunResult
    <2>7. CoverInv'
      BY <1>5, <1>a, <1>b, <2>1, MeasureConstants DEF Measuring!Crash, CoverInv, SamplerInv, ServerInv,
         Serving, Needed, PhaseName, Places, Names, Measures, ServerTypes, ServerState, RunResult
    <2>8. BuildInv'
      BY <1>5, <1>a DEF Measuring!Crash, BuildInv, Labelled, Serving, ServerInv, Measures
    <2> QED
      BY <2>1, <2>2, <2>3, <2>4, <2>5, <2>6, <2>7, <2>8 DEF MeasureInv
  <1>6. CASE Measuring!Upgrade
    <2>1. MeasureLeft' /\ left'["runs"] = left["runs"] /\ left'["runs"] \in Nat /\ (AllRead' => AllRead)
      BY <1>6, <1>a, <1>b, MeasureConstants, MeasureSpend DEF Measuring!Upgrade, MeasureLeft, AllRead
    <2>2. Places'
      <3>1. Names'
        BY <1>6, <1>a DEF Measuring!Upgrade, Places, Names
      <3>2. (rounds \in 0..(MaxSamples + 1) /\ phase \in {1,
         2} /\ stopping \in BOOLEAN /\ held \in BOOLEAN)'
        BY <1>6, <1>a, <1>b DEF Measuring!Upgrade, Places, Names, SamplerInv
      <3> QED
        BY <3>1, <3>2 DEF Places
    <2>3. Measures'
      BY <1>6, <1>a DEF Measuring!Upgrade, Places, Names, Measures, ReportFile, RunResult
    <2>4. ServerTypes'
      BY <1>6, <1>a, ServerOff DEF Measuring!Upgrade, Places, Names, Measures, ServerTypes, ServerState
    <2>5. SamplerInv'
      BY <1>6, <1>a, <1>b DEF Measuring!Upgrade, Places, Names, SamplerInv
    <2>6. ServerInv'
      BY <1>6, <1>a, <1>b, <2>1, ServerOff DEF Measuring!Upgrade, ServerInv, Serving, Needed, PhaseName,
         Places, Names, Measures, ServerTypes, ServerState, RunResult
    <2>7. CoverInv'
      BY <1>6, <1>a, <1>b, <2>1, MeasureConstants DEF Measuring!Upgrade, CoverInv, SamplerInv, ServerInv,
         Serving, Needed, PhaseName, Places, Names, Measures, ServerTypes, ServerState, RunResult
    <2>8. BuildInv'
      BY <1>6, <1>a DEF Measuring!Upgrade, BuildInv, Labelled, Serving, ServerInv, Measures
    <2> QED
      BY <2>1, <2>2, <2>3, <2>4, <2>5, <2>6, <2>7, <2>8 DEF MeasureInv
  <1>7. CASE Measuring!OperatorStops
    <2>1. MeasureLeft' /\ left'["runs"] = left["runs"] /\ left'["runs"] \in Nat /\ (AllRead' => AllRead)
      BY <1>7, <1>a, <1>b DEF Measuring!OperatorStops, MeasureLeft, AllRead
    <2>2. Places'
      <3>1. Names'
        BY <1>7, <1>a DEF Measuring!OperatorStops, Places, Names
      <3>2. (rounds \in 0..(MaxSamples + 1) /\ phase \in {1,
         2} /\ stopping \in BOOLEAN /\ held \in BOOLEAN)'
        BY <1>7, <1>a, <1>b DEF Measuring!OperatorStops, Places, Names, SamplerInv
      <3> QED
        BY <3>1, <3>2 DEF Places
    <2>3. Measures'
      BY <1>7, <1>a DEF Measuring!OperatorStops, Places, Names, Measures, ReportFile, RunResult
    <2>4. ServerTypes'
      BY <1>7, <1>a, ServerOff DEF Measuring!OperatorStops, Places, Names, Measures, ServerTypes,
         ServerState
    <2>5. SamplerInv'
      BY <1>7, <1>a, <1>b DEF Measuring!OperatorStops, Places, Names, SamplerInv
    <2>6. ServerInv'
      BY <1>7, <1>a, <1>b, <2>1, ServerOff DEF Measuring!OperatorStops, ServerInv, Serving, Needed,
         PhaseName, Places, Names, Measures, ServerTypes, ServerState, RunResult
    <2>7. CoverInv'
      BY <1>7, <1>a, <1>b, <2>1, MeasureConstants DEF Measuring!OperatorStops, CoverInv, SamplerInv,
         ServerInv, Serving, Needed, PhaseName, Places, Names, Measures, ServerTypes, ServerState, RunResult
    <2>8. BuildInv'
      BY <1>7, <1>a DEF Measuring!OperatorStops, BuildInv, Labelled, Serving, ServerInv, Measures
    <2> QED
      BY <2>1, <2>2, <2>3, <2>4, <2>5, <2>6, <2>7, <2>8 DEF MeasureInv
  <1> QED
    BY <1>1, <1>2, <1>3, <1>4, <1>5, <1>6, <1>7

\* A pass: load, prompt, unload.
LEMMA MeasurePasses ==
  ASSUME MeasureInv, Measuring!Probe \/ Measuring!Fork \/ Measuring!LoadEnds \/ Measuring!Loaded
     \/ Measuring!PromptEnds \/ Measuring!Prompted \/ Measuring!Unload \/ Measuring!Cancel
  PROVE  MeasureInv'
  <1>a. Places /\ Measures /\ ServerTypes /\ MeasureLeft /\ SamplerInv /\ ServerInv /\ CoverInv
        /\ BuildInv
    BY DEF MeasureInv
  <1>b. left["runs"] \in Nat /\ MaxSamples \in Nat /\ MaxSamples > 0
    BY <1>a, MeasureConstants DEF MeasureLeft
  <1> USE DEF Measuring!UnchangedPass, Measuring!UnchangedWorld, Measuring!End, Measuring!Fail,
              Measuring!UnchangedBuild, Measuring!StartSampling, Measuring!OperationEnds, MeasurePlaces
  <1>1. CASE Measuring!Fork
    <2>a. Measuring!Phases[phase] = PhaseName /\ Needed(installed, PhaseName) \in Nat
      <3>1. phase \in {1, 2} /\ installed \in Runtimes /\ identity.params \in Params
        BY <1>1, <1>a DEF Measuring!Fork, Places, Measures
      <3>2. Measuring!Phases[1] = "reduced" /\ Measuring!Phases[2] = "target"
        BY DEF Measuring!Phases
      <3> QED
        BY <3>1, <3>2, MeasureConstants DEF Needed, PhaseName
    <2>b. \/ /\ UNCHANGED <<held, server, peak, mislabelled>> /\ operation' = "failed" /\ stopping' = TRUE
             /\ pc' = "loadJoin" /\ server.alive
          \/ /\ held' = TRUE /\ pc' = "loading" /\ UNCHANGED <<operation, stopping>>
             /\ server' = [alive |-> TRUE, runtime |-> installed, run |-> left["runs"],
                           needs |-> Needed(installed, PhaseName)]
             /\ peak' = [peak EXCEPT !.built = installed]
             /\ mislabelled' = (mislabelled \/ installed # probed)
      BY <1>1, <2>a DEF Measuring!Fork, Needed
    <2>c. UNCHANGED <<identity, phase, sampler, rounds, failing, probed, installed, reports, result, left>>
          /\ pc = "fork"
      BY <1>1 DEF Measuring!Fork
    <2>d. installed \in Runtimes /\ installed \in Nat
      BY <1>a, MeasureConstants DEF Measures
    <2>1. MeasureLeft' /\ left'["runs"] = left["runs"] /\ left'["runs"] \in Nat /\ (AllRead' => AllRead)
      BY <1>1, <1>a, <1>b DEF Measuring!Fork, MeasureLeft, AllRead
    <2>2. Places'
      <3>1. Names'
        BY <1>1, <1>a DEF Measuring!Fork, Places, Names
      <3>2. (rounds \in 0..(MaxSamples + 1) /\ phase \in {1,
         2} /\ stopping \in BOOLEAN /\ held \in BOOLEAN)'
        BY <1>1, <1>a, <1>b DEF Measuring!Fork, Places, Names, SamplerInv
      <3> QED
        BY <3>1, <3>2 DEF Places
    <2>3. Measures'
      <3>1. peak' \in Peak
        BY <2>b, <2>d, <1>a DEF Measures, Peak
      <3> QED
        BY <2>b, <2>c, <3>1, <1>a DEF Measures
    <2>4. ServerTypes'
      <3>1. CASE UNCHANGED server
        BY <3>1, <1>a DEF ServerTypes
      <3>2. CASE server' = [alive |-> TRUE, runtime |-> installed, run |-> left["runs"],
                           needs |-> Needed(installed, PhaseName)]
        BY <3>2, <2>a, <2>d, <1>b DEF ServerTypes, ServerState
      <3> QED
        BY <2>b, <3>1, <3>2
    <2>5. SamplerInv'
      BY <1>1, <1>a, <1>b DEF Measuring!Fork, Places, Names, SamplerInv
    <2>6. ServerInv'
      <3>1. CASE UNCHANGED <<held, server>> /\ operation' = "failed" /\ pc' = "loadJoin"
        BY <3>1, <2>c, <1>a DEF ServerInv, Serving, Needed, PhaseName
      <3>2. CASE /\ held' = TRUE /\ pc' = "loading" /\ UNCHANGED <<operation, stopping>>
                 /\ server' = [alive |-> TRUE, runtime |-> installed, run |-> left["runs"],
                           needs |-> Needed(installed, PhaseName)]
        <4>1. /\ server'.alive = TRUE /\ server'.runtime = installed /\ server'.run = left["runs"]
              /\ server'.needs = Needed(installed, PhaseName)
          BY <3>2
        <4> QED
          BY <3>2, <4>1, <2>c, <1>b DEF ServerInv, Serving, Needed, PhaseName
      <3> QED
        BY <2>b, <3>1, <3>2
    <2>7. CoverInv'
      BY <2>b, <2>c, <1>a DEF CoverInv, Needed, PhaseName, AllRead
    <2>8. BuildInv'
      <3>1. CASE UNCHANGED <<held, server, peak, mislabelled>> /\ operation' = "failed" /\ pc' = "loadJoin"
        BY <3>1, <2>c, <1>a DEF BuildInv, Labelled, Serving
      <3>2. CASE /\ pc' = "loading" /\ peak' = [peak EXCEPT !.built = installed]
                 /\ mislabelled' = (mislabelled \/ installed # probed)
                 /\ server' = [alive |-> TRUE, runtime |-> installed, run |-> left["runs"],
                               needs |-> Needed(installed, PhaseName)]
        <4>1. peak'.built = installed /\ server'.runtime = installed
          BY <3>2, <1>a DEF Measures, Peak
        <4>2. mislabelled' \in BOOLEAN /\ (~mislabelled' => ~mislabelled /\ installed = probed)
          BY <3>2
        <4> QED
          BY <3>2, <4>1, <4>2, <2>c, <2>d, <1>a DEF BuildInv, CoverInv, Labelled, Serving
      <3> QED
        BY <2>b, <3>1, <3>2
    <2> QED
      BY <2>1, <2>2, <2>3, <2>4, <2>5, <2>6, <2>7, <2>8 DEF MeasureInv
  <1>2. CASE Measuring!LoadEnds
    <2>1. MeasureLeft' /\ left'["runs"] = left["runs"] /\ left'["runs"] \in Nat /\ (AllRead' => AllRead)
      BY <1>2, <1>a, <1>b, MeasureConstants, MeasureSpend DEF Measuring!LoadEnds, MeasureLeft, AllRead
    <2>2. Places'
      <3>1. Names'
        BY <1>2, <1>a DEF Measuring!LoadEnds, Places, Names
      <3>2. (rounds \in 0..(MaxSamples + 1) /\ phase \in {1,
         2} /\ stopping \in BOOLEAN /\ held \in BOOLEAN)'
        BY <1>2, <1>a, <1>b DEF Measuring!LoadEnds, Places, Names, SamplerInv
      <3> QED
        BY <3>1, <3>2 DEF Places
    <2>3. Measures'
      BY <1>2, <1>a DEF Measuring!LoadEnds, Places, Names, Measures, ReportFile, RunResult
    <2>4. ServerTypes'
      BY <1>2, <1>a, ServerOff DEF Measuring!LoadEnds, Places, Names, Measures, ServerTypes, ServerState
    <2>5. SamplerInv'
      BY <1>2, <1>a, <1>b DEF Measuring!LoadEnds, Places, Names, SamplerInv
    <2>6. ServerInv'
      BY <1>2, <1>a, <1>b, <2>1, ServerOff DEF Measuring!LoadEnds, ServerInv, Serving, Needed, PhaseName,
         Places, Names, Measures, ServerTypes, ServerState, RunResult
    <2>7. CoverInv'
      BY <1>2, <1>a, <1>b, <2>1, MeasureConstants DEF Measuring!LoadEnds, CoverInv, SamplerInv, ServerInv,
         Serving, Needed, PhaseName, Places, Names, Measures, ServerTypes, ServerState, RunResult
    <2>8. BuildInv'
      BY <1>2, <1>a DEF Measuring!LoadEnds, BuildInv, Labelled, Serving, ServerInv, Measures
    <2> QED
      BY <2>1, <2>2, <2>3, <2>4, <2>5, <2>6, <2>7, <2>8 DEF MeasureInv
  <1>3. CASE Measuring!Loaded
    <2>1. MeasureLeft' /\ left'["runs"] = left["runs"] /\ left'["runs"] \in Nat /\ (AllRead' => AllRead)
      BY <1>3, <1>a, <1>b DEF Measuring!Loaded, MeasureLeft, AllRead
    <2>2. Places'
      <3>1. Names'
        BY <1>3, <1>a DEF Measuring!Loaded, Places, Names
      <3>2. (rounds \in 0..(MaxSamples + 1) /\ phase \in {1,
         2} /\ stopping \in BOOLEAN /\ held \in BOOLEAN)'
        BY <1>3, <1>a, <1>b DEF Measuring!Loaded, Places, Names, SamplerInv
      <3> QED
        BY <3>1, <3>2 DEF Places
    <2>3. Measures'
      BY <1>3, <1>a DEF Measuring!Loaded, Places, Names, Measures, ReportFile, RunResult
    <2>4. ServerTypes'
      BY <1>3, <1>a, ServerOff DEF Measuring!Loaded, Places, Names, Measures, ServerTypes, ServerState
    <2>5. SamplerInv'
      BY <1>3, <1>a, <1>b DEF Measuring!Loaded, Places, Names, SamplerInv
    <2>6. ServerInv'
      BY <1>3, <1>a, <1>b, <2>1, ServerOff DEF Measuring!Loaded, ServerInv, Serving, Needed, PhaseName,
         Places, Names, Measures, ServerTypes, ServerState, RunResult
    <2>7. CoverInv'
      BY <1>3, <1>a, <1>b, <2>1, MeasureConstants DEF Measuring!Loaded, CoverInv, SamplerInv, ServerInv,
         Serving, Needed, PhaseName, Places, Names, Measures, ServerTypes, ServerState, RunResult
    <2>8. BuildInv'
      BY <1>3, <1>a DEF Measuring!Loaded, BuildInv, Labelled, Serving, ServerInv, Measures
    <2> QED
      BY <2>1, <2>2, <2>3, <2>4, <2>5, <2>6, <2>7, <2>8 DEF MeasureInv
  <1>4. CASE Measuring!PromptEnds
    <2>1. MeasureLeft' /\ left'["runs"] = left["runs"] /\ left'["runs"] \in Nat /\ (AllRead' => AllRead)
      BY <1>4, <1>a, <1>b, MeasureConstants, MeasureSpend DEF Measuring!PromptEnds, MeasureLeft, AllRead
    <2>2. Places'
      <3>1. Names'
        BY <1>4, <1>a DEF Measuring!PromptEnds, Places, Names
      <3>2. (rounds \in 0..(MaxSamples + 1) /\ phase \in {1,
         2} /\ stopping \in BOOLEAN /\ held \in BOOLEAN)'
        BY <1>4, <1>a, <1>b DEF Measuring!PromptEnds, Places, Names, SamplerInv
      <3> QED
        BY <3>1, <3>2 DEF Places
    <2>3. Measures'
      BY <1>4, <1>a DEF Measuring!PromptEnds, Places, Names, Measures, ReportFile, RunResult
    <2>4. ServerTypes'
      BY <1>4, <1>a, ServerOff DEF Measuring!PromptEnds, Places, Names, Measures, ServerTypes, ServerState
    <2>5. SamplerInv'
      BY <1>4, <1>a, <1>b DEF Measuring!PromptEnds, Places, Names, SamplerInv
    <2>6. ServerInv'
      BY <1>4, <1>a, <1>b, <2>1, ServerOff DEF Measuring!PromptEnds, ServerInv, Serving, Needed, PhaseName,
         Places, Names, Measures, ServerTypes, ServerState, RunResult
    <2>7. CoverInv'
      BY <1>4, <1>a, <1>b, <2>1, MeasureConstants DEF Measuring!PromptEnds, CoverInv, SamplerInv,
         ServerInv, Serving, Needed, PhaseName, Places, Names, Measures, ServerTypes, ServerState, RunResult
    <2>8. BuildInv'
      BY <1>4, <1>a DEF Measuring!PromptEnds, BuildInv, Labelled, Serving, ServerInv, Measures
    <2> QED
      BY <2>1, <2>2, <2>3, <2>4, <2>5, <2>6, <2>7, <2>8 DEF MeasureInv
  <1>5. CASE Measuring!Prompted
    <2>1. MeasureLeft' /\ left'["runs"] = left["runs"] /\ left'["runs"] \in Nat /\ (AllRead' => AllRead)
      BY <1>5, <1>a, <1>b DEF Measuring!Prompted, MeasureLeft, AllRead
    <2>2. Places'
      <3>1. Names'
        BY <1>5, <1>a DEF Measuring!Prompted, Places, Names
      <3>2. (rounds \in 0..(MaxSamples + 1) /\ phase \in {1,
         2} /\ stopping \in BOOLEAN /\ held \in BOOLEAN)'
        BY <1>5, <1>a, <1>b DEF Measuring!Prompted, Places, Names, SamplerInv
      <3> QED
        BY <3>1, <3>2 DEF Places
    <2>3. Measures'
      BY <1>5, <1>a DEF Measuring!Prompted, Places, Names, Measures, ReportFile, RunResult
    <2>4. ServerTypes'
      BY <1>5, <1>a, ServerOff DEF Measuring!Prompted, Places, Names, Measures, ServerTypes, ServerState
    <2>5. SamplerInv'
      BY <1>5, <1>a, <1>b DEF Measuring!Prompted, Places, Names, SamplerInv
    <2>6. ServerInv'
      BY <1>5, <1>a, <1>b, <2>1, ServerOff DEF Measuring!Prompted, ServerInv, Serving, Needed, PhaseName,
         Places, Names, Measures, ServerTypes, ServerState, RunResult
    <2>7. CoverInv'
      BY <1>5, <1>a, <1>b, <2>1, MeasureConstants DEF Measuring!Prompted, CoverInv, BuildInv, SamplerInv, ServerInv,
         Serving, Needed, PhaseName, Places, Names, Measures, ServerTypes, ServerState, RunResult
    <2>8. BuildInv'
      BY <1>5, <1>a DEF Measuring!Prompted, BuildInv, Labelled, Serving, ServerInv, Measures
    <2> QED
      BY <2>1, <2>2, <2>3, <2>4, <2>5, <2>6, <2>7, <2>8 DEF MeasureInv
  <1>6. CASE Measuring!Unload
    <2>1. MeasureLeft' /\ left'["runs"] = left["runs"] /\ left'["runs"] \in Nat /\ (AllRead' => AllRead)
      BY <1>6, <1>a, <1>b, MeasureConstants, MeasureSpend DEF Measuring!Unload, MeasureLeft, AllRead
    <2>2. Places'
      <3>1. Names'
        BY <1>6, <1>a DEF Measuring!Unload, Places, Names
      <3>2. (rounds \in 0..(MaxSamples + 1) /\ phase \in {1,
         2} /\ stopping \in BOOLEAN /\ held \in BOOLEAN)'
        BY <1>6, <1>a, <1>b DEF Measuring!Unload, Places, Names, SamplerInv
      <3> QED
        BY <3>1, <3>2 DEF Places
    <2>3. Measures'
      BY <1>6, <1>a DEF Measuring!Unload, Places, Names, Measures, ReportFile, RunResult
    <2>4. ServerTypes'
      BY <1>6, <1>a, ServerOff DEF Measuring!Unload, Places, Names, Measures, ServerTypes, ServerState
    <2>5. SamplerInv'
      BY <1>6, <1>a, <1>b DEF Measuring!Unload, Places, Names, SamplerInv
    <2>6. ServerInv'
      BY <1>6, <1>a, <1>b, <2>1, ServerOff DEF Measuring!Unload, ServerInv, Serving, Needed, PhaseName,
         Places, Names, Measures, ServerTypes, ServerState, RunResult
    <2>7. CoverInv'
      BY <1>6, <1>a, <1>b, <2>1, MeasureConstants DEF Measuring!Unload, CoverInv, SamplerInv, ServerInv,
         Serving, Needed, PhaseName, Places, Names, Measures, ServerTypes, ServerState, RunResult
    <2>8. BuildInv'
      <3>1. result'.status = result.status /\ result'.built = result.built
        BY <1>6, <1>a DEF Measuring!Unload, Measures, RunResult
      <3> QED
        BY <3>1, <1>6, <1>a DEF Measuring!Unload, BuildInv, Labelled, Serving
    <2> QED
      BY <2>1, <2>2, <2>3, <2>4, <2>5, <2>6, <2>7, <2>8 DEF MeasureInv
  <1>7. CASE Measuring!Cancel
    <2>a. /\ result' \in RunResult /\ result'.at = pc /\ result'.stray = result.stray
          /\ result'.proposed = result.proposed /\ result'.built = result.built
          /\ result'.status = IF pc' = "ended" THEN "cancelled" ELSE result.status
      <3>1. result \in RunResult /\ pc \in MeasurePlaces
        BY <1>a DEF Measures, Places, Names
      <3>2. result' = [result EXCEPT !.at = pc, !.status = IF pc' = "ended" THEN "cancelled" ELSE @]
        BY <1>7 DEF Measuring!Cancel
      <3> HIDE DEF MeasurePlaces
      <3> QED
        BY <3>1, <3>2 DEF RunResult
    <2>1. MeasureLeft' /\ left'["runs"] = left["runs"] /\ left'["runs"] \in Nat /\ (AllRead' => AllRead)
      BY <1>7, <1>a, <1>b, MeasureConstants, MeasureSpend DEF Measuring!Cancel, MeasureLeft, AllRead
    <2>2. Places'
      <3>1. Names'
        BY <1>7, <1>a DEF Measuring!Cancel, Places, Names
      <3>2. (rounds \in 0..(MaxSamples + 1) /\ phase \in {1,
         2} /\ stopping \in BOOLEAN /\ held \in BOOLEAN)'
        BY <1>7, <1>a, <1>b DEF Measuring!Cancel, Places, Names, SamplerInv
      <3> QED
        BY <3>1, <3>2 DEF Places
    <2>3. Measures'
      <3>1. result' \in RunResult
        BY <2>a
      <3> QED
        BY <1>7, <1>a, <3>1 DEF Measuring!Cancel, Measures, Places, Names
    <2>4. ServerTypes'
      BY <1>7, <1>a, ServerOff DEF Measuring!Cancel, Places, Names, Measures, ServerTypes, ServerState
    <2>5. SamplerInv'
      BY <1>7, <1>a, <1>b DEF Measuring!Cancel, Places, Names, SamplerInv
    <2>6. ServerInv'
      BY <1>7, <1>a, <1>b, <2>1, <2>a, ServerOff DEF Measuring!Cancel, ServerInv, Serving, Needed, PhaseName,
         Places, Names, Measures, ServerTypes, ServerState, RunResult
    <2>7. CoverInv'
      BY <1>7, <1>a, <1>b, <2>1, <2>a, MeasureConstants DEF Measuring!Cancel, CoverInv, SamplerInv, ServerInv,
         Serving, Needed, PhaseName, Places, Names, Measures, ServerTypes, ServerState, RunResult
    <2>8. BuildInv'
      BY <1>7, <1>a, <2>a DEF Measuring!Cancel, CoverInv, BuildInv, Labelled, Serving, ServerInv, Measures
    <2> QED
      BY <2>1, <2>2, <2>3, <2>4, <2>5, <2>6, <2>7, <2>8 DEF MeasureInv
  <1>8. CASE Measuring!Probe
    <2>1. MeasureLeft' /\ left'["runs"] = left["runs"] /\ left'["runs"] \in Nat /\ (AllRead' => AllRead)
      BY <1>8, <1>a, <1>b, MeasureConstants, MeasureSpend DEF Measuring!Probe, MeasureLeft, AllRead
    <2>2. Places'
      <3>1. Names'
        BY <1>8, <1>a DEF Measuring!Probe, Places, Names
      <3>2. (rounds \in 0..(MaxSamples + 1) /\ phase \in {1,
         2} /\ stopping \in BOOLEAN /\ held \in BOOLEAN)'
        BY <1>8, <1>a, <1>b DEF Measuring!Probe, Places, Names, SamplerInv
      <3> QED
        BY <3>1, <3>2 DEF Places
    <2>3. Measures'
      BY <1>8, <1>a DEF Measuring!Probe, Places, Names, Measures, ReportFile, RunResult
    <2>4. ServerTypes'
      BY <1>8, <1>a, ServerOff DEF Measuring!Probe, Places, Names, Measures, ServerTypes, ServerState
    <2>5. SamplerInv'
      BY <1>8, <1>a, <1>b DEF Measuring!Probe, Places, Names, SamplerInv
    <2>6. ServerInv'
      BY <1>8, <1>a, <1>b, <2>1, ServerOff DEF Measuring!Probe, ServerInv, Serving, Needed, PhaseName,
         Places, Names, Measures, ServerTypes, ServerState, RunResult
    <2>7. CoverInv'
      BY <1>8, <1>a, <1>b, <2>1, MeasureConstants DEF Measuring!Probe, CoverInv, SamplerInv, ServerInv,
         Serving, Needed, PhaseName, Places, Names, Measures, ServerTypes, ServerState, RunResult
    <2>8. BuildInv'
      BY <1>8, <1>a DEF Measuring!Probe, BuildInv, Labelled, Serving, ServerInv, Measures
    <2> QED
      BY <2>1, <2>2, <2>3, <2>4, <2>5, <2>6, <2>7, <2>8 DEF MeasureInv
  <1> QED
    BY <1>1, <1>2, <1>3, <1>4, <1>5, <1>6, <1>7, <1>8

\* The end of a pass, and the report.
LEMMA MeasureReports ==
  ASSUME MeasureInv, Measuring!PassEnds \/ Measuring!OpenReport \/ Measuring!FillReport
  PROVE  MeasureInv'
  <1>a. Places /\ Measures /\ ServerTypes /\ MeasureLeft /\ SamplerInv /\ ServerInv /\ CoverInv
        /\ BuildInv
    BY DEF MeasureInv
  <1>b. left["runs"] \in Nat /\ MaxSamples \in Nat /\ MaxSamples > 0
    BY <1>a, MeasureConstants DEF MeasureLeft
  <1> USE DEF Measuring!UnchangedPass, Measuring!UnchangedWorld, Measuring!End, Measuring!Fail,
              Measuring!UnchangedBuild, Measuring!StartSampling, Measuring!OperationEnds, MeasurePlaces
  <1>1. CASE Measuring!PassEnds
    <2>a. Len(Measuring!Phases) = 2 /\ 1 + 1 = 2
      BY DEF Measuring!Phases
    <2>b. PICK m \in Nat : m >= peak.report /\ m >= peak.pass /\ m = Measuring!Larger(peak.report,
       peak.pass)
      BY <1>a DEF Measuring!Larger, Measures, Peak
    <2>c. UNCHANGED <<identity, operation, failing, held, server, installed, reports,
                      left, probed, mislabelled>> /\ pc = "passed"
      BY <1>1 DEF Measuring!PassEnds
    <2>d. \/ /\ \/ failing # "none" /\ result' = [result EXCEPT !.status = failing, !.proposed = 0, !.built = 0]
                \/ result' = [result EXCEPT !.status = "failed", !.proposed = 0, !.built = 0]
             /\ pc' = "ended" /\ UNCHANGED <<phase, sampler, stopping, rounds, peak>>
          \/ /\ failing = "none" /\ phase = 1 /\ phase' = 2 /\ pc' = "load" /\ sampler' = "vram"
             /\ stopping' = FALSE /\ rounds' = 0 /\ peak' = [peak EXCEPT !.seen = FALSE, !.pass = 0, !.report = m]
             /\ UNCHANGED result
          \/ /\ failing = "none" /\ phase = 2 /\ peak' = [peak EXCEPT !.report = m] /\ pc' = "write"
             /\ UNCHANGED <<phase, sampler, stopping, rounds, result>>
      BY <1>1, <1>a, <2>a, <2>b DEF Measuring!PassEnds, Places
    <2>e. \/ /\ pc' = "ended" /\ result' \in RunResult /\ result'.status \in {"failed", "cancelled"}
             /\ result'.stray = result.stray /\ result'.at = result.at
             /\ UNCHANGED <<phase, sampler, stopping, rounds, peak>>
          \/ /\ failing = "none" /\ phase = 1 /\ phase' = 2 /\ pc' = "load" /\ sampler' = "vram"
             /\ stopping' = FALSE /\ rounds' = 0 /\ peak' = [peak EXCEPT !.seen = FALSE, !.pass = 0, !.report = m]
             /\ UNCHANGED result
          \/ /\ failing = "none" /\ phase = 2 /\ peak' = [peak EXCEPT !.report = m] /\ pc' = "write"
             /\ UNCHANGED <<phase, sampler, stopping, rounds, result>>
      <3>1. \A s \in {"failed", "cancelled"} : result' = [result EXCEPT !.status = s, !.proposed = 0, !.built = 0] =>
              /\ result' \in RunResult /\ result'.status = s
              /\ result'.stray = result.stray /\ result'.at = result.at
        BY <1>a, RunEnds DEF Measures
      <3>2. failing \in {"none", "failed", "cancelled"}
        BY <1>a DEF Places, Names
      <3> QED
        BY <2>d, <3>1, <3>2
    <2>f. peak' \in Peak
      <3>1. peak \in Peak
        BY <1>a DEF Measures
      <3>2. /\ [peak EXCEPT !.seen = FALSE, !.pass = 0, !.report = m] \in Peak
            /\ [peak EXCEPT !.report = m] \in Peak
        BY <3>1, <2>b DEF Peak
      <3> QED
        BY <2>e, <3>1, <3>2
    <2>1. MeasureLeft' /\ left'["runs"] = left["runs"] /\ left'["runs"] \in Nat /\ (AllRead' => AllRead)
      BY <1>1, <1>a, <1>b DEF Measuring!PassEnds, MeasureLeft, AllRead
    <2>2. Places'
      <3>1. Names'
        BY <2>c, <2>e, <1>a DEF Places, Names
      <3>2. rounds' \in 0..(MaxSamples + 1) /\ phase' \in {1, 2}
        BY <2>e, <1>a, <1>b DEF Places
      <3>3. stopping' \in BOOLEAN
        BY <2>e, <1>a DEF Places
      <3> QED
        BY <2>c, <3>1, <3>2, <3>3, <1>a DEF Places
    <2>3. Measures'
      BY <2>c, <2>e, <2>f, <1>a DEF Measures
    <2>4. ServerTypes'
      BY <1>1, <1>a, ServerOff DEF Measuring!PassEnds, Measuring!Larger, Measuring!Phases, Places, Names,
         Measures, ServerTypes, ServerState
    <2>5. SamplerInv'
      BY <1>1, <1>a, <1>b DEF Measuring!PassEnds, Measuring!Larger, Measuring!Phases, Places, Names,
         SamplerInv
    <2>6. ServerInv'
      BY <2>c, <2>e, <2>1, <1>a DEF ServerInv, Serving, Needed, PhaseName, Places, Names
    <2>7. CoverInv'
      <3>1. CASE pc' = "ended"
        BY <3>1, <2>c, <2>e, <2>1, <1>a DEF CoverInv, Needed, PhaseName
      <3>2. CASE pc' = "load"
        BY <3>2, <2>c, <2>e, <2>1, <1>a DEF CoverInv, Needed, PhaseName
      <3>3. CASE pc' = "write"
        <4>1. AllRead => m >= Needed(peak.built, "target")
          <5>1. peak.built \in Runtimes /\ identity.params \in Params
            BY <3>3, <2>c, <2>e, <1>a DEF BuildInv, Labelled, Measures
          <5> QED
            BY <5>1, <3>3, <2>b, <2>c, <2>e, <1>a, MeasureConstants
            DEF CoverInv, PhaseName, Needed, Measures, Peak
        <4>2. peak'.report = m /\ peak'.built = peak.built
          BY <3>3, <2>e, <1>a DEF Measures, Peak
        <4> QED
          BY <3>3, <4>1, <4>2, <2>c, <2>e, <2>1, <1>a DEF CoverInv, Needed, PhaseName
      <3> QED
        BY <2>e, <3>1, <3>2, <3>3
    <2>8. BuildInv'
      <3>1. pc' # "ended" => peak'.built = peak.built
        BY <2>e, <1>a DEF Measures, Peak
      <3> QED
        BY <3>1, <2>c, <2>e, <1>a DEF BuildInv, CoverInv, Labelled, Serving
    <2> QED
      BY <2>1, <2>2, <2>3, <2>4, <2>5, <2>6, <2>7, <2>8 DEF MeasureInv
  <1>2. CASE Measuring!OpenReport
    <2>1. MeasureLeft' /\ left'["runs"] = left["runs"] /\ left'["runs"] \in Nat /\ (AllRead' => AllRead)
      BY <1>2, <1>a, <1>b DEF Measuring!OpenReport, MeasureLeft, AllRead
    <2>2. Places'
      <3>1. Names'
        BY <1>2, <1>a DEF Measuring!OpenReport, Places, Names
      <3>2. (rounds \in 0..(MaxSamples + 1) /\ phase \in {1,
         2} /\ stopping \in BOOLEAN /\ held \in BOOLEAN)'
        BY <1>2, <1>a, <1>b DEF Measuring!OpenReport, Places, Names, SamplerInv
      <3> QED
        BY <3>1, <3>2 DEF Places
    <2>3. Measures'
      <3>1. [Measuring!NoReport EXCEPT !.exists = TRUE] \in ReportFile
        BY DEF Measuring!NoReport, ReportFile
      <3> QED
        BY <1>2, <1>a, <3>1 DEF Measuring!OpenReport, Measures
    <2>4. ServerTypes'
      BY <1>2, <1>a, ServerOff DEF Measuring!OpenReport, Places, Names, Measures, ServerTypes, ServerState
    <2>5. SamplerInv'
      BY <1>2, <1>a, <1>b DEF Measuring!OpenReport, Places, Names, SamplerInv
    <2>6. ServerInv'
      BY <1>2, <1>a, <1>b, <2>1, ServerOff DEF Measuring!OpenReport, ServerInv, Serving, Needed, PhaseName,
         Places, Names, Measures, ServerTypes, ServerState, RunResult
    <2>7. CoverInv'
      BY <1>2, <1>a, <1>b, <2>1, MeasureConstants DEF Measuring!OpenReport, Measuring!NoReport, CoverInv, SamplerInv,
         ServerInv, Serving, Needed, PhaseName, Places, Names, Measures, ServerTypes, ServerState, RunResult
    <2>8. BuildInv'
      BY <1>2, <1>a DEF Measuring!OpenReport, Measuring!NoReport, BuildInv, Labelled, Serving, ServerInv, Measures
    <2> QED
      BY <2>1, <2>2, <2>3, <2>4, <2>5, <2>6, <2>7, <2>8 DEF MeasureInv
  <1>3. CASE Measuring!FillReport
    <2>z. peak.report \in Nat /\ peak.report + Margin \in Nat /\ identity.runtime \in Nat
          /\ identity.runtime \in Runtimes /\ identity.params \in Params
          /\ peak.built \in Nat /\ Labelled(peak.built, identity.runtime)
      BY <1>3, <1>a, MeasureConstants DEF Measuring!FillReport, Measures, Peak, BuildInv
    <2> DEFINE file == [exists |-> TRUE, readable |-> TRUE, runtime |-> identity.runtime,
                         built |-> peak.built, peak |-> peak.report]
    <2>a. file \in ReportFile /\ file.runtime = identity.runtime /\ file.peak = peak.report
          /\ file.built = peak.built
      BY <2>z DEF ReportFile
    <2>b. UNCHANGED <<identity, held, server, installed, phase, sampler, stopping, rounds, peak, operation,
                      failing, probed, mislabelled>> /\ pc = "fill" /\ pc' = "ended"
      BY <1>3 DEF Measuring!FillReport
    <2>c. \/ /\ reports' = [reports EXCEPT ![identity.params] = file] /\ UNCHANGED left
             /\ result' = [result EXCEPT !.status = "done", !.proposed = peak.report + Margin,
                                        !.built = peak.built]
          \/ /\ result' = [result EXCEPT !.status = "failed", !.proposed = 0, !.built = 0] /\ UNCHANGED reports
      BY <1>3 DEF Measuring!FillReport, Measuring!Proposed
    <2> HIDE DEF file
    <2>d. \/ /\ reports' = [reports EXCEPT ![identity.params] = file]
             /\ result' \in RunResult /\ result'.status = "done" /\ result'.proposed = peak.report + Margin
             /\ result'.built = peak.built /\ result'.stray = result.stray /\ result'.at = result.at
          \/ /\ result' \in RunResult /\ result'.status = "failed" /\ UNCHANGED reports
             /\ result'.stray = result.stray /\ result'.at = result.at
      BY <2>c, <2>z, <1>a, RunEnds DEF Measures
    <2>e. reports' \in [Params -> ReportFile]
      BY <2>d, <2>a, <2>z, <1>a DEF Measures
    <2>1. MeasureLeft' /\ left'["runs"] = left["runs"] /\ left'["runs"] \in Nat /\ (AllRead' => AllRead)
      BY <1>3, <1>a, <1>b, MeasureConstants, MeasureSpend DEF Measuring!FillReport, MeasureLeft, AllRead
    <2>2. Places'
      <3>1. Names'
        BY <1>3, <1>a DEF Measuring!FillReport, Measuring!Proposed, Places, Names
      <3>2. (rounds \in 0..(MaxSamples + 1) /\ phase \in {1,
         2} /\ stopping \in BOOLEAN /\ held \in BOOLEAN)'
        BY <1>3, <1>a, <1>b DEF Measuring!FillReport, Measuring!Proposed, Places, Names, SamplerInv
      <3> QED
        BY <3>1, <3>2 DEF Places
    <2>3. Measures'
      BY <2>b, <2>d, <2>e, <1>a DEF Measures
    <2>4. ServerTypes'
      BY <1>3, <1>a, ServerOff DEF Measuring!FillReport, Measuring!Proposed, Places, Names, Measures,
         ServerTypes, ServerState
    <2>5. SamplerInv'
      BY <1>3, <1>a, <1>b DEF Measuring!FillReport, Measuring!Proposed, Places, Names, SamplerInv
    <2>6. ServerInv'
      BY <2>b, <2>d, <2>1, <1>a DEF ServerInv, Serving, Needed, PhaseName
    <2>7. CoverInv'
      <3>1. AllRead => peak.report >= Need[peak.built][identity.params]["target"]
                       /\ Need[peak.built][identity.params]["target"] \in Nat
        BY <2>b, <2>z, <1>a, MeasureConstants DEF CoverInv, Needed, Labelled
      <3>2. AllRead => \A p \in Params : reports'[p].readable =>
              reports'[p].peak >= Need[reports'[p].built][p]["target"]
        <4>1. \A p \in Params : reports'[p] = reports[p] \/ (p = identity.params /\ reports'[p] = file)
          BY <2>d, <1>a DEF Measures
        <4> QED
          BY <4>1, <3>1, <2>a, <2>z, <1>a DEF CoverInv
      <3>3. AllRead /\ result'.status \in {"done", "already_satisfied"} =>
              result'.proposed >= Needed(result'.built, "target") + Margin
        BY <2>d, <2>z, <3>1, MeasureConstants DEF Needed
      <3> QED
        BY <2>1, <2>b, <3>2, <3>3 DEF CoverInv, Needed, PhaseName
    <2>8. BuildInv'
      <3>1. \A p \in Params : reports'[p] = reports[p] \/ reports'[p] = file
        BY <2>d, <1>a DEF Measures
      <3> QED
        BY <3>1, <2>a, <2>b, <2>d, <2>z, <1>a DEF BuildInv, Labelled, Serving
    <2> QED
      BY <2>1, <2>2, <2>3, <2>4, <2>5, <2>6, <2>7, <2>8 DEF MeasureInv
  <1> QED
    BY <1>1, <1>2, <1>3

LEMMA MeasureStep ==
  ASSUME MeasureInv, [Measuring!Next]_(Measuring!vars)
  PROVE  MeasureInv'
  <1>1. CASE Measuring!Sampling
    BY <1>1, MeasureSamples DEF Measuring!Sampling
  <1>2. CASE Measuring!Executor
    BY <1>2, MeasureBegins, MeasurePasses, MeasureReports DEF Measuring!Executor
  <1>3. CASE Measuring!Start \/ Measuring!Crash \/ Measuring!Upgrade \/ Measuring!OperatorStops
    BY <1>3, MeasureBegins
  <1>4. CASE Measuring!Cancel
    BY <1>4, MeasurePasses
  <1>5. CASE UNCHANGED Measuring!vars
    <2>1. UNCHANGED <<pc, identity, phase, sampler, stopping, rounds, peak, operation, failing, held,
       server, probed, mislabelled, installed, reports, result, left>>
      BY <1>5 DEF Measuring!vars
    <2>2. (UNCHANGED <<AllRead, PhaseName>>) /\ Serving' = Serving
      BY <2>1 DEF AllRead, PhaseName, Serving
    <2>3. Places' /\ Measures' /\ ServerTypes' /\ MeasureLeft' /\ SamplerInv'
      BY <2>1 DEF MeasureInv, Places, Names, Measures, ServerTypes, MeasureLeft, SamplerInv
    <2>4. ServerInv' /\ CoverInv'
      BY <2>1, <2>2 DEF MeasureInv, ServerInv, CoverInv, Needed
    <2>5. BuildInv'
      BY <2>1, <2>2 DEF MeasureInv, BuildInv, Labelled
    <2> QED
      BY <2>3, <2>4, <2>5 DEF MeasureInv
  <1> QED
    BY <1>1, <1>2, <1>3, <1>4, <1>5 DEF Measuring!Next

LEMMA MeasureSafety ==
  ASSUME MeasureInv
  PROVE  Measuring!CalibrationTypeOK /\ Measuring!ProposalCoversService /\ Measuring!MeasuredServerStopped
  <1>1. Measuring!CalibrationTypeOK
    <2>1. 1..Len(Measuring!Phases) = {1, 2}
      BY DEF Measuring!Phases
    <2>2. result.status \in {"none", "done", "already_satisfied", "failed", "cancelled", "killed"}
      BY DEF MeasureInv, Measures, RunResult
    <2> QED
      BY <2>1, <2>2 DEF MeasureInv, Places, Names, MeasurePlaces, BuildInv, Measuring!CalibrationTypeOK
  <1>2. Measuring!ProposalCoversService
    BY DEF MeasureInv, CoverInv, BuildInv, Labelled, AllRead, Needed, Measuring!ProposalCoversService
  <1>3. Measuring!MeasuredServerStopped
    BY DEF MeasureInv, ServerInv, Serving, Measuring!MeasuredServerStopped
  <1> QED
    BY <1>1, <1>2, <1>3

\* calibration.py over production.py: however sampling, loading, prompting, runtime
\* changes, earlier reports and cut-off writes interleave, the memory a run proposes
\* covers what the server of the measured build and these parameters holds, and that
\* build is the run's own unless one was forked after another had been asked for its
\* version; and the server it loaded does not outlive it unless the run says so, was
\* killed, or was cancelled between the end of the load and that of the sampling task
\* or while it waited for the server to stop.
THEOREM CalibrationAlwaysSafe == Spec => []CalibrationSafe
  <1> DEFINE Inv == job = "calibration" => MeasureInv
  <1>1. Init => Inv
    BY Alone, MeasureStart
  <1>2. Inv /\ [Next]_vars => Inv'
    BY Alone, MeasureStep
  <1>3. Inv => CalibrationSafe
    BY MeasureSafety DEF CalibrationSafe
  <1> QED
    BY <1>1, <1>2, <1>3, PTL DEF Spec

-----------------------------------------------------------------------------
(* One applier at its downloads: Download                                  *)

FileSet == 1..FileCount
Disk == Fetching!Inodes

WorkPlaces == {"off", "licence", "inspect", "file", "partial", "sidecar", "request", "receive", "check",
               "rename", "unlink", "manifest", "verify", "ended"}
Worker ==
  [pc : WorkPlaces, rev : {0, 1, 2}, file : 1..(FileCount + 1), satisfied : SUBSET FileSet, offset : Nat,
   hash : Seq(Nat), inode : Nat, append : BOOLEAN, status : {"none", "failed", "verified"}]

\* File f has its definitive name and the content of revision r.
InPlace(f, r) == final[f] # 0 /\ data[final[f]] = Fetching!Target(r)

DiskTypes ==
  /\ catalog \in {1, 2} /\ accepted \in {0, 1, 2} /\ manifest \in {0, 1, 2}
  /\ final \in [FileSet -> {0} \cup Disk] /\ part \in [FileSet -> {0} \cup Disk]
  /\ sidecar \in [FileSet -> {0, 1, 2}] /\ data \in [Disk -> Seq(Nat)]

\* No handle on a partial reaches a file that has its definitive name.
Apart ==
  /\ \A f \in FileSet, g \in FileSet : final[f] # 0 => final[f] # part[g]
  /\ \A f \in FileSet, g \in FileSet : part[f] # 0 /\ f # g => part[f] # part[g]

Genuine == \A f \in FileSet : final[f] # 0 => \E r \in {1, 2} : data[final[f]] = Fetching!Target(r)
Bounded == \A i \in Disk : Len(data[i]) <= Size + 1
DiskInv == DiskTypes /\ Apart /\ Genuine /\ Bounded

\* What an applier believes, and the disk it believes it of.
WorkInv(w) ==
  /\ w.pc \notin {"off", "ended"} => w.rev \in {1, 2}
  /\ w.pc \in {"partial", "sidecar", "request", "receive", "check", "rename", "unlink"} => w.file \in FileSet
  /\ IF w.pc \in {"receive", "check", "rename"}
     THEN w.inode \in Disk /\ part[w.file] = w.inode /\ data[w.inode] = w.hash
     ELSE w.inode = 0
  /\ w.pc \in {"licence", "inspect"} => w.file = 1
  /\ w.pc = "rename" => w.hash = Fetching!Target(w.rev)
  /\ w.pc \in {"sidecar", "request"} /\ w.offset # 0 =>
       part[w.file] # 0 /\ data[part[w.file]] = w.hash
  /\ w.pc \in {"file", "partial", "sidecar", "request", "receive", "check", "rename", "unlink"} =>
       \A f \in FileSet : f \in w.satisfied \/ f < w.file => InPlace(f, w.rev)
  /\ w.pc = "unlink" => InPlace(w.file, w.rev)
  /\ w.pc \in {"manifest", "verify"} => \A f \in FileSet : InPlace(f, w.rev)
  /\ w.pc = "verify" => manifest = w.rev

DownloadInv ==
  DiskInv /\ proc \in [Appliers -> Worker] /\ \A p \in Appliers : WorkInv(proc[p])

LEMMA DownloadConstants ==
  FileCount \in Nat /\ Size \in Nat /\ 0 \notin Disk /\ Disk \subseteq Nat
  BY DownloadAssumption DEF DownloadAssumption, Disk, Fetching!Inodes

LEMMA TargetContent ==
  \A r \in {1, 2} : Fetching!Target(r) \in Seq(Nat) /\ Len(Fetching!Target(r)) = Size
  <1> TAKE r \in {1, 2}
  <1>1. Size \in Nat /\ \A i \in 1..Size : 10 * r + i \in Nat
    BY DownloadConstants
  <1> QED
    BY <1>1 DEF Fetching!Target

LEMMA Satisfaction ==
  ASSUME NEW r
  PROVE  Fetching!Satisfied(r) = {f \in FileSet : InPlace(f, r)}
  BY DEF Fetching!Satisfied, InPlace, FileSet

LEMMA WorkerMoves ==
  ASSUME NEW p, Appliers = {p}, proc \in [Appliers -> Worker], NEW w \in Worker, Fetching!Step(p, w)
  PROVE  proc' \in [Appliers -> Worker] /\ proc'[p] = w
  BY DEF Fetching!Step

LEMMA WorkerGoes ==
  ASSUME NEW p, proc[p] \in Worker, NEW next \in WorkPlaces, Fetching!Step(p, Fetching!Goto(p, next))
  PROVE  \E w \in Worker :
           /\ Fetching!Step(p, w) /\ w.pc = next
           /\ w.rev = proc[p].rev /\ w.file = proc[p].file /\ w.satisfied = proc[p].satisfied
           /\ w.offset = proc[p].offset /\ w.hash = proc[p].hash /\ w.inode = proc[p].inode
  <1> DEFINE w == [proc[p] EXCEPT !.pc = next]
  <1>1. /\ w \in Worker /\ w.pc = next
        /\ w.rev = proc[p].rev /\ w.file = proc[p].file /\ w.satisfied = proc[p].satisfied
        /\ w.offset = proc[p].offset /\ w.hash = proc[p].hash /\ w.inode = proc[p].inode
    BY DEF Worker
  <1>2. Fetching!Step(p, w)
    BY DEF Fetching!Goto
  <1> QED
    BY <1>1, <1>2

LEMMA WorkerEnds ==
  ASSUME NEW p, proc[p] \in Worker, NEW s \in {"none", "failed", "verified"}
  PROVE  /\ Fetching!End(p, s) \in Worker /\ Fetching!End(p, s).pc = "ended" /\ Fetching!End(p, s).inode = 0
  <1>1. << >> \in Seq(Nat) /\ "ended" \in WorkPlaces /\ 0 \in Nat
    BY DEF WorkPlaces
  <1> QED
    BY <1>1 DEF Worker, Fetching!End

LEMMA WorkerIdle ==
  Fetching!Idle \in Worker /\ Fetching!Idle.pc = "off" /\ Fetching!Idle.inode = 0 /\ Fetching!Idle.file = 1
  <1>1. 1 \in 1..(FileCount + 1) /\ << >> \in Seq(Nat) /\ "off" \in WorkPlaces /\ 0 \in Nat
    BY DownloadConstants DEF WorkPlaces
  <1> QED
    BY <1>1 DEF Worker, Fetching!Idle

\* An applier that is not at work is in order, whatever the disk holds.
LEMMA AtRest ==
  ASSUME NEW w, w.pc \in {"off", "ended"}, w.inode = 0
  PROVE  WorkInv(w)
  BY DEF WorkInv

LEMMA DownloadStart ==
  ASSUME Fetching!Init
  PROVE  DownloadInv
  <1>1. FileCount \in Nat /\ Size \in Nat /\ 0 \notin Disk
    BY DownloadConstants
  <1>2. DiskTypes
    <2>1. << >> \in Seq(Nat)
      OBVIOUS
    <2> QED
      BY <2>1 DEF Fetching!Init, DiskTypes, FileSet, Disk
  <1>3. Apart /\ Genuine
    BY DEF Fetching!Init, Apart, Genuine, FileSet
  <1>4. Bounded
    <2>1. Len(<< >>) = 0
      OBVIOUS
    <2> QED
      BY <1>1, <2>1 DEF Fetching!Init, Bounded, Disk
  <1>5. proc \in [Appliers -> Worker] /\ \A p \in Appliers : WorkInv(proc[p])
    BY WorkerIdle, AtRest DEF Fetching!Init
  <1> QED
    BY <1>2, <1>3, <1>4, <1>5 DEF DownloadInv, DiskInv

\* The definitive names and all contents stay: partials may only be discarded.
LEMMA DiskKept ==
  ASSUME DiskInv, UNCHANGED <<final, data>>,
         part' \in [FileSet -> {0} \cup Disk], \A f \in FileSet : part'[f] \in {0, part[f]},
         sidecar' \in [FileSet -> {0, 1, 2}],
         catalog' \in {1, 2}, accepted' \in {0, 1, 2}, manifest' \in {0, 1, 2}
  PROVE  DiskInv' /\ \A f, r : InPlace(f, r)' = InPlace(f, r)
  <1>1. DiskTypes' /\ Genuine' /\ Bounded'
    BY DEF DiskInv, DiskTypes, Genuine, Bounded
  <1>2. Apart'
    BY DEF DiskInv, Apart
  <1> QED
    BY <1>1, <1>2 DEF DiskInv, InPlace

\* A content is written to an inode without a definitive name.
LEMMA DiskWritten ==
  ASSUME DiskInv, NEW i \in Disk, \A f \in FileSet : final[f] # i,
         NEW c \in Seq(Nat), Len(c) <= Size + 1,
         data' = [data EXCEPT ![i] = c],
         UNCHANGED <<final, catalog, accepted, manifest, sidecar>>,
         part' \in [FileSet -> {0} \cup Disk], Apart'
  PROVE  /\ DiskInv' /\ data'[i] = c
         /\ \A f \in FileSet, r \in {1, 2} : InPlace(f, r) => InPlace(f, r)'
  <1>1. data \in [Disk -> Seq(Nat)] /\ final \in [FileSet -> {0} \cup Disk]
    BY DEF DiskInv, DiskTypes
  <1>2. data' \in [Disk -> Seq(Nat)] /\ data'[i] = c /\ \A j \in Disk : j # i => data'[j] = data[j]
    BY <1>1
  <1>3. \A f \in FileSet : final'[f] = final[f] /\ (final[f] # 0 => data'[final[f]] = data[final[f]])
    BY <1>1, <1>2
  <1>4. DiskTypes'
    BY <1>2 DEF DiskInv, DiskTypes
  <1>5. Genuine'
    BY <1>3 DEF DiskInv, Genuine
  <1>6. Bounded'
    BY <1>2 DEF DiskInv, Bounded
  <1> QED
    BY <1>2, <1>3, <1>4, <1>5, <1>6 DEF DiskInv, InPlace

\* There is room for one more partial.
LEMMA InodeLeft ==
  ASSUME NEW p, Appliers = {p}, DiskInv, proc[p].inode = 0, NEW f \in FileSet, part[f] = 0
  PROVE  /\ Fetching!FreeInode \in Disk
         /\ \A g \in FileSet : Fetching!FreeInode # final[g] /\ Fetching!FreeInode # part[g]
  <1> DEFINE named == {final[g] : g \in FileSet}
             partial == {part[g] : g \in FileSet}
  <1>1. FileCount \in Nat /\ Cardinality(Appliers) = 1
    BY DownloadConstants, FS_Singleton
  <1>2. Disk = 1..(2 * FileCount + 1) /\ IsFiniteSet(Disk) /\ Cardinality(Disk) = 2 * FileCount + 1
    <2>1. Disk = 1..(2 * FileCount + 1)
      <3>1. Disk = 1..(2 * FileCount + Fetching!Cardinality(Appliers))
        BY DEF Disk, Fetching!Inodes
      <3>2. Fetching!Cardinality(Appliers) = Cardinality(Appliers)
        BY DEF Fetching!Cardinality, Cardinality
      <3> QED
        BY <1>1, <3>1, <3>2
    <2>2. PICK n \in Nat : n = 2 * FileCount + 1 /\ n >= 1
      BY <1>1
    <2>3. IsFiniteSet(1..n) /\ Cardinality(1..n) = n
      BY <2>2, FS_Interval
    <2>4. Disk = 1..n
      BY <2>1, <2>2
    <2> QED
      BY <2>1, <2>2, <2>3, <2>4, Zenon
  <1>3. IsFiniteSet(FileSet) /\ Cardinality(FileSet) = FileCount
    BY <1>1, FS_Interval DEF FileSet
  <1>4. IsFiniteSet(named) /\ Cardinality(named) <= FileCount
    <2>1. final \in Surjection(FileSet, named)
      BY DEF DiskInv, DiskTypes, Surjection
    <2> QED
      BY <1>3, <2>1, FS_Surjection
  <1>5. IsFiniteSet(partial) /\ Cardinality(partial) <= FileCount
    <2>1. part \in Surjection(FileSet, partial)
      BY DEF DiskInv, DiskTypes, Surjection
    <2> QED
      BY <1>3, <2>1, FS_Surjection
  <1>6. IsFiniteSet(named \cup partial) /\ Cardinality(named \cup partial) <= 2 * FileCount
    <2>1. /\ IsFiniteSet(named \cup partial) /\ Cardinality(named \cap partial) \in Nat
          /\ Cardinality(named \cup partial) =
               Cardinality(named) + Cardinality(partial) - Cardinality(named \cap partial)
      BY <1>4, <1>5, FS_Union, FS_Intersection, FS_CardinalityType
    <2>2. Cardinality(named) \in Nat /\ Cardinality(partial) \in Nat
      BY <1>4, <1>5, FS_CardinalityType
    <2> QED
      BY <2>1, <2>2, <1>1, <1>4, <1>5
  <1>7. ~(Disk \subseteq named \cup partial)
    <2>1. SUFFICES ASSUME Disk \subseteq named \cup partial PROVE FALSE
      OBVIOUS
    <2>2. Cardinality(Disk) <= Cardinality(named \cup partial)
      BY <1>6, <2>1, FS_Subset
    <2>3. Cardinality(named \cup partial) \in Nat
      BY <1>6, FS_CardinalityType
    <2> QED
      BY <1>1, <1>2, <1>6, <2>2, <2>3
  <1>8. PICK i \in Disk : i \notin named /\ i \notin partial
    BY <1>7
  <1>9. /\ \A g \in 1..FileCount : i # final[g] /\ i # part[g]
        /\ \A q \in Appliers : i # proc[q].inode
    BY <1>8, DownloadConstants DEF FileSet
  <1>10. /\ Fetching!FreeInode \in Fetching!Inodes
         /\ \A g \in 1..FileCount : Fetching!FreeInode # final[g] /\ Fetching!FreeInode # part[g]
    BY <1>8, <1>9 DEF Fetching!FreeInode, Disk
  <1> QED
    BY <1>10 DEF FileSet, Disk

\* A step of the applier: the disk, and the applier as the step leaves it.
LEMMA Onward ==
  ASSUME NEW p, Appliers = {p}, DownloadInv, DiskInv', NEW w \in Worker, Fetching!Step(p, w), WorkInv(w)'
  PROVE  DownloadInv'
  <1>1. proc' \in [Appliers -> Worker] /\ proc'[p] = w
    BY WorkerMoves DEF DownloadInv
  <1>2. WorkInv(proc[p])'
    BY <1>1 DEF WorkInv
  <1> QED
    BY <1>1, <1>2 DEF DownloadInv

\* A step that leaves the definitive names and the contents alone.
Quiet ==
  /\ UNCHANGED <<final, data>>
  /\ part' \in [FileSet -> {0} \cup Disk] /\ \A f \in FileSet : part'[f] \in {0, part[f]}
  /\ sidecar' \in [FileSet -> {0, 1, 2}] /\ manifest' \in {0, 1, 2}
  /\ UNCHANGED <<catalog, accepted>>

LEMMA QuietKeeps ==
  ASSUME DiskInv, Quiet
  PROVE  DiskInv' /\ \A f, r : InPlace(f, r)' = InPlace(f, r)
  <1>1. catalog' \in {1, 2} /\ accepted' \in {0, 1, 2}
    BY DEF DiskInv, DiskTypes, Quiet
  <1> QED
    BY <1>1, DiskKept DEF Quiet

LEMMA UnchangedIsQuiet ==
  ASSUME DiskInv, Fetching!UnchangedPolicy, UNCHANGED <<final, part, data>>,
         sidecar' \in [FileSet -> {0, 1, 2}], manifest' \in {0, 1, 2}
  PROVE  Quiet
  BY DEF DiskInv, DiskTypes, Quiet, Fetching!UnchangedPolicy

LEMMA DiscardIsQuiet ==
  ASSUME DiskInv, Fetching!UnchangedPolicy, UNCHANGED <<final, data, manifest>>, NEW f \in FileSet,
         Fetching!Discard(f)
  PROVE  Quiet
  <1>1. part \in [FileSet -> {0} \cup Disk] /\ sidecar \in [FileSet -> {0, 1, 2}] /\ manifest \in {0, 1, 2}
    BY DEF DiskInv, DiskTypes
  <1>2. part' = [part EXCEPT ![f] = 0] /\ sidecar' = [sidecar EXCEPT ![f] = 0]
    BY DEF Fetching!Discard
  <1> QED
    BY <1>1, <1>2 DEF Quiet, Fetching!UnchangedPolicy

\* A step after which the applier is at rest.
LEMMA RestsAfter ==
  ASSUME NEW p, Appliers = {p}, DownloadInv, DiskInv', NEW w \in Worker, Fetching!Step(p, w),
         w.pc \in {"off", "ended"}, w.inode = 0
  PROVE  DownloadInv'
  <1>1. WorkInv(w)'
    BY DEF WorkInv
  <1> QED
    BY <1>1, Onward

\* A run, up to the files that are missing.
LEMMA RunBegins ==
  ASSUME NEW p, Appliers = {p}, DownloadInv,
         \/ Fetching!Start(p) \/ Fetching!LicenseGate(p) \/ Fetching!Inspect(p) \/ Fetching!NextFile(p)
  PROVE  DownloadInv'
  <1> USE DEF Fetching!UnchangedDisk
  <1>a. DiskInv /\ DiskTypes /\ proc[p] \in Worker /\ WorkInv(proc[p])
    BY DEF DownloadInv, DiskInv
  <1>b. UNCHANGED <<final, part, data, sidecar, manifest>> /\ Fetching!UnchangedPolicy
    BY DEF Fetching!Start, Fetching!LicenseGate, Fetching!Inspect, Fetching!NextFile
  <1>c. DiskInv' /\ \A f, r : InPlace(f, r)' = InPlace(f, r)
    BY <1>a, <1>b, UnchangedIsQuiet, QuietKeeps DEF DiskTypes
  <1>d. ASSUME NEW s \in {"none", "failed", "verified"}, Fetching!Step(p, Fetching!End(p, s))
        PROVE  DownloadInv'
    BY <1>a, <1>c, <1>d, WorkerEnds, RestsAfter
  <1>1. CASE Fetching!Start(p)
    <2>1. catalog \in {1, 2} /\ "licence" \in WorkPlaces
      BY <1>a DEF DiskTypes, WorkPlaces
    <2>2. PICK w \in Worker : Fetching!Step(p, w) /\ w.pc = "licence" /\ w.rev = catalog /\ w.inode = 0 /\ w.file = 1
      <3> DEFINE w == [Fetching!Idle EXCEPT !.pc = "licence", !.rev = catalog]
      <3>1. w \in Worker /\ w.pc = "licence" /\ w.rev = catalog /\ w.inode = 0 /\ w.file = 1
        BY <2>1, WorkerIdle DEF Worker
      <3>2. Fetching!Step(p, w)
        BY <1>1 DEF Fetching!Start
      <3> QED
        BY <3>1, <3>2
    <2>3. WorkInv(w)'
      BY <2>1, <2>2 DEF WorkInv
    <2> QED
      BY <1>c, <2>2, <2>3, Onward
  <1>2. CASE Fetching!LicenseGate(p)
    <2>1. CASE Fetching!Step(p, Fetching!End(p, "failed"))
      BY <1>d, <2>1
    <2>2. CASE Fetching!Step(p, Fetching!Goto(p, "inspect"))
      <3>1. PICK w \in Worker : Fetching!Step(p, w) /\ w.pc = "inspect" /\ w.rev = proc[p].rev
                                /\ w.inode = proc[p].inode /\ w.file = proc[p].file
        <4>1. "inspect" \in WorkPlaces
          BY DEF WorkPlaces
        <4> QED
          BY <1>a, <2>2, <4>1, WorkerGoes
      <3>2. WorkInv(w)'
        BY <1>2, <1>a, <3>1 DEF WorkInv, Fetching!LicenseGate
      <3> QED
        BY <1>c, <3>1, <3>2, Onward
    <2> QED
      BY <1>2, <2>1, <2>2 DEF Fetching!LicenseGate
  <1>3. CASE Fetching!Inspect(p)
    <2>1. CASE Fetching!Step(p, Fetching!End(p, "failed"))
      BY <1>d, <2>1
    <2>2. CASE /\ Fetching!Conflicting(proc[p].rev) = {}
               /\ Fetching!Step(p, [proc[p] EXCEPT
                    !.satisfied = Fetching!Satisfied(proc[p].rev),
                    !.pc = IF ~(Fetching!Satisfied(proc[p].rev) = 1..FileCount) THEN "file"
                           ELSE IF manifest = proc[p].rev THEN "verify" ELSE "manifest"])
      <3> DEFINE sound == {f \in FileSet : InPlace(f, proc[p].rev)}
      <3>1. PICK next \in {"file", "verify", "manifest"} :
              /\ Fetching!Step(p, [proc[p] EXCEPT !.satisfied = sound, !.pc = next])
              /\ next # "file" => sound = FileSet
              /\ next = "verify" => manifest = proc[p].rev
        BY <2>2, Satisfaction DEF FileSet
      <3>2. PICK w \in Worker : /\ Fetching!Step(p, w) /\ w.pc = next /\ w.satisfied = sound
                                /\ w.rev = proc[p].rev /\ w.inode = proc[p].inode /\ w.file = proc[p].file
        <4> DEFINE w == [proc[p] EXCEPT !.satisfied = sound, !.pc = next]
        <4>1. next \in WorkPlaces /\ sound \in SUBSET FileSet
          BY DEF WorkPlaces
        <4> HIDE DEF sound
        <4>2. w \in Worker /\ w.pc = next /\ w.satisfied = sound
              /\ w.rev = proc[p].rev /\ w.inode = proc[p].inode /\ w.file = proc[p].file
          BY <1>a, <4>1 DEF Worker
        <4> QED
          BY <3>1, <4>2
      <3>3. WorkInv(w)'
        <4>1. proc[p].pc = "inspect" /\ proc[p].inode = 0 /\ proc[p].rev \in {1, 2} /\ proc[p].file = 1
          BY <1>3, <1>a DEF WorkInv, Fetching!Inspect
        <4>2. \A f \in FileSet : f \in w.satisfied => InPlace(f, w.rev)'
          BY <1>c, <3>2
        <4>3. \A f \in FileSet : ~(f < w.file)
          BY <3>2, <4>1, DownloadConstants DEF FileSet
        <4>4. w.pc # "file" => \A f \in FileSet : InPlace(f, w.rev)'
          BY <1>c, <3>1, <3>2
        <4>5. w.pc = "verify" => manifest' = w.rev
          BY <1>b, <3>1, <3>2
        <4>6. w.pc \in {"file", "verify", "manifest"} /\ w.inode = 0 /\ w.rev \in {1, 2}
          BY <3>2, <4>1
        <4> QED
          BY <4>2, <4>3, <4>4, <4>5, <4>6 DEF WorkInv
      <3> QED
        BY <1>c, <3>2, <3>3, Onward
    <2> QED
      BY <1>3, <2>1, <2>2 DEF Fetching!Inspect
  <1>4. CASE Fetching!NextFile(p)
    <2>1. /\ proc[p].pc = "file" /\ proc[p].file \in 1..(FileCount + 1) /\ proc[p].rev \in {1, 2}
          /\ proc[p].inode = 0
          /\ \A f \in FileSet : f \in proc[p].satisfied \/ f < proc[p].file => InPlace(f, proc[p].rev)
      BY <1>4, <1>a DEF Fetching!NextFile, WorkInv, Worker
    <2>2. CASE proc[p].file > FileCount
      <3>1. PICK w \in Worker : Fetching!Step(p, w) /\ w.pc = "manifest" /\ w.rev = proc[p].rev
                                /\ w.inode = proc[p].inode
        <4>1. "manifest" \in WorkPlaces /\ Fetching!Step(p, Fetching!Goto(p, "manifest"))
          BY <1>4, <2>2 DEF WorkPlaces, Fetching!NextFile
        <4> QED
          BY <1>a, <4>1, WorkerGoes
      <3>2. \A f \in FileSet : InPlace(f, w.rev)'
        BY <1>c, <2>1, <2>2, <3>1, DownloadConstants DEF FileSet
      <3>3. WorkInv(w)'
        BY <2>1, <3>1, <3>2 DEF WorkInv
      <3> QED
        BY <1>c, <3>1, <3>3, Onward
    <2>3. CASE ~(proc[p].file > FileCount) /\ proc[p].file \in proc[p].satisfied
      <3>1. PICK w \in Worker : /\ Fetching!Step(p, w) /\ w.pc = "file" /\ w.rev = proc[p].rev
                                /\ w.inode = proc[p].inode /\ w.satisfied = proc[p].satisfied
                                /\ w.file = proc[p].file + 1
        <4> DEFINE w == [proc[p] EXCEPT !.file = proc[p].file + 1]
        <4>1. proc[p].file + 1 \in 1..(FileCount + 1)
          BY <2>1, <2>3, DownloadConstants
        <4>2. w \in Worker /\ w.pc = proc[p].pc /\ w.rev = proc[p].rev
              /\ w.inode = proc[p].inode /\ w.satisfied = proc[p].satisfied /\ w.file = proc[p].file + 1
          BY <1>a, <4>1 DEF Worker
        <4>3. Fetching!Step(p, w)
          BY <1>4, <2>3 DEF Fetching!NextFile
        <4> QED
          BY <2>1, <4>2, <4>3
      <3>2. \A f \in FileSet : f \in w.satisfied \/ f < w.file => InPlace(f, w.rev)'
        BY <1>c, <2>1, <2>3, <3>1, DownloadConstants DEF FileSet
      <3>3. WorkInv(w)'
        BY <2>1, <3>1, <3>2 DEF WorkInv
      <3> QED
        BY <1>c, <3>1, <3>3, Onward
    <2>4. CASE ~(proc[p].file > FileCount) /\ proc[p].file \notin proc[p].satisfied
      <3>1. PICK w \in Worker : /\ Fetching!Step(p, w) /\ w.pc = "partial" /\ w.rev = proc[p].rev
                                /\ w.inode = proc[p].inode /\ w.satisfied = proc[p].satisfied
                                /\ w.file = proc[p].file
        <4>1. "partial" \in WorkPlaces /\ Fetching!Step(p, Fetching!Goto(p, "partial"))
          BY <1>4, <2>4 DEF WorkPlaces, Fetching!NextFile
        <4> QED
          BY <1>a, <4>1, WorkerGoes
      <3>2. \A f \in FileSet : f \in w.satisfied \/ f < w.file => InPlace(f, w.rev)'
        BY <1>c, <2>1, <3>1
      <3>3. w.file \in FileSet
        BY <2>1, <2>4, <3>1, DownloadConstants DEF FileSet
      <3>4. WorkInv(w)'
        BY <2>1, <3>1, <3>2, <3>3 DEF WorkInv
      <3> QED
        BY <1>c, <3>1, <3>4, Onward
    <2> QED
      BY <2>2, <2>3, <2>4
  <1> QED
    BY <1>1, <1>2, <1>3, <1>4

\* One file: what is kept of its partial, and the end of a run.
LEMMA RunPrepares ==
  ASSUME NEW p, Appliers = {p}, DownloadInv, Fetching!Partial(p) \/ Fetching!WriteSidecar(p)
  PROVE  DownloadInv'
  <1>a. DiskInv /\ DiskTypes /\ proc[p] \in Worker /\ WorkInv(proc[p])
    BY DEF DownloadInv, DiskInv
  <1>b. /\ proc[p].pc \in {"partial", "sidecar"} /\ proc[p].file \in FileSet /\ proc[p].rev \in {1, 2}
        /\ proc[p].inode = 0
        /\ \A f \in FileSet : f \in proc[p].satisfied \/ f < proc[p].file => InPlace(f, proc[p].rev)
    BY <1>a DEF WorkInv, Fetching!Partial, Fetching!WriteSidecar
  <1>1. CASE Fetching!Partial(p)
    <2> DEFINE f == proc[p].file
    <2>1. CASE Fetching!Resumable(f, proc[p].rev)
      <3>1. /\ UNCHANGED <<final, part, data, sidecar, manifest>> /\ Fetching!UnchangedPolicy
            /\ Fetching!Step(p, [proc[p] EXCEPT !.pc = "sidecar", !.offset = Len(data[part[f]]),
                                                !.hash = data[part[f]]])
            /\ part[f] # 0
        BY <1>1, <2>1 DEF Fetching!Partial, Fetching!Resumable
      <3>2. DiskInv' /\ \A g, r : InPlace(g, r)' = InPlace(g, r)
        BY <1>a, <3>1, UnchangedIsQuiet, QuietKeeps DEF DiskTypes
      <3>3. data[part[f]] \in Seq(Nat)
        BY <1>a, <1>b, <3>1 DEF DiskTypes
      <3>4. PICK w \in Worker : /\ Fetching!Step(p, w) /\ w.pc = "sidecar" /\ w.rev = proc[p].rev
                                /\ w.file = f /\ w.satisfied = proc[p].satisfied
                                /\ w.hash = data[part[f]] /\ w.inode = proc[p].inode
        <4> DEFINE w == [proc[p] EXCEPT !.pc = "sidecar", !.offset = Len(data[part[f]]),
                                        !.hash = data[part[f]]]
        <4>1. Len(data[part[f]]) \in Nat /\ "sidecar" \in WorkPlaces
          BY <3>3 DEF WorkPlaces
        <4>2. w \in Worker /\ w.pc = "sidecar" /\ w.rev = proc[p].rev
              /\ w.file = f /\ w.satisfied = proc[p].satisfied
              /\ w.hash = data[part[f]] /\ w.inode = proc[p].inode
          BY <1>a, <3>3, <4>1 DEF Worker
        <4> QED
          BY <3>1, <4>2
      <3>5. WorkInv(w)'
        BY <1>b, <3>1, <3>2, <3>4 DEF WorkInv
      <3> QED
        BY <3>2, <3>4, <3>5, Onward
    <2>2. CASE ~Fetching!Resumable(f, proc[p].rev)
      <3>1. /\ UNCHANGED <<final, data, manifest>> /\ Fetching!UnchangedPolicy /\ Fetching!Discard(f)
            /\ Fetching!Step(p, [proc[p] EXCEPT !.pc = "sidecar", !.offset = 0, !.hash = <<>>])
        BY <1>1, <2>2 DEF Fetching!Partial
      <3>2. DiskInv' /\ \A g, r : InPlace(g, r)' = InPlace(g, r)
        BY <1>a, <1>b, <3>1, DiscardIsQuiet, QuietKeeps
      <3>3. PICK w \in Worker : /\ Fetching!Step(p, w) /\ w.pc = "sidecar" /\ w.rev = proc[p].rev
                                /\ w.file = f /\ w.satisfied = proc[p].satisfied /\ w.offset = 0
                                /\ w.inode = proc[p].inode
        <4> DEFINE w == [proc[p] EXCEPT !.pc = "sidecar", !.offset = 0, !.hash = <<>>]
        <4>1. << >> \in Seq(Nat) /\ "sidecar" \in WorkPlaces
          BY DEF WorkPlaces
        <4>2. w \in Worker /\ w.pc = "sidecar" /\ w.rev = proc[p].rev
              /\ w.file = f /\ w.satisfied = proc[p].satisfied /\ w.offset = 0 /\ w.inode = proc[p].inode
          BY <1>a, <4>1 DEF Worker
        <4> QED
          BY <3>1, <4>2
      <3>4. WorkInv(w)'
        BY <1>b, <3>2, <3>3 DEF WorkInv
      <3> QED
        BY <3>2, <3>3, <3>4, Onward
    <2> QED
      BY <2>1, <2>2
  <1>2. CASE Fetching!WriteSidecar(p)
    <2>1. /\ UNCHANGED <<final, part, data, manifest>> /\ Fetching!UnchangedPolicy
          /\ Fetching!Step(p, Fetching!Goto(p, "request")) /\ proc[p].pc = "sidecar"
          /\ sidecar' = [sidecar EXCEPT ![proc[p].file] = proc[p].rev]
      BY <1>2 DEF Fetching!WriteSidecar
    <2>2. sidecar' \in [FileSet -> {0, 1, 2}]
      BY <1>a, <1>b, <2>1 DEF DiskTypes
    <2>3. DiskInv' /\ \A g, r : InPlace(g, r)' = InPlace(g, r)
      BY <1>a, <2>1, <2>2, UnchangedIsQuiet, QuietKeeps DEF DiskTypes
    <2>4. PICK w \in Worker : /\ Fetching!Step(p, w) /\ w.pc = "request" /\ w.rev = proc[p].rev
                              /\ w.file = proc[p].file /\ w.satisfied = proc[p].satisfied
                              /\ w.offset = proc[p].offset /\ w.hash = proc[p].hash
                              /\ w.inode = proc[p].inode
      <3>1. "request" \in WorkPlaces
        BY DEF WorkPlaces
      <3> QED
        BY <1>a, <2>1, <3>1, WorkerGoes
    <2>5. proc[p].offset # 0 => part[proc[p].file] # 0 /\ data[part[proc[p].file]] = proc[p].hash
      BY <1>a, <2>1 DEF WorkInv
    <2>6. WorkInv(w)'
      BY <1>b, <2>1, <2>3, <2>4, <2>5 DEF WorkInv
    <2> QED
      BY <2>3, <2>4, <2>6, Onward
  <1> QED
    BY <1>1, <1>2

LEMMA RunRecords ==
  ASSUME NEW p, Appliers = {p}, DownloadInv,
         Fetching!UnlinkSidecar(p) \/ Fetching!WriteManifest(p) \/ Fetching!Verify(p)
  PROVE  DownloadInv'
  <1> USE DEF Fetching!UnchangedDisk
  <1>a. DiskInv /\ DiskTypes /\ proc[p] \in Worker /\ WorkInv(proc[p])
    BY DEF DownloadInv, DiskInv
  <1>1. CASE Fetching!UnlinkSidecar(p)
    <2>1. /\ proc[p].pc = "unlink" /\ proc[p].file \in FileSet /\ proc[p].rev \in {1, 2}
          /\ proc[p].inode = 0 /\ InPlace(proc[p].file, proc[p].rev)
          /\ \A f \in FileSet : f \in proc[p].satisfied \/ f < proc[p].file => InPlace(f, proc[p].rev)
      BY <1>1, <1>a DEF WorkInv, Fetching!UnlinkSidecar
    <2>2. /\ UNCHANGED <<final, part, data, manifest>> /\ Fetching!UnchangedPolicy
          /\ Fetching!Step(p, [proc[p] EXCEPT !.pc = "file", !.file = @ + 1, !.hash = <<>>, !.offset = 0])
          /\ sidecar' = [sidecar EXCEPT ![proc[p].file] = 0]
      BY <1>1 DEF Fetching!UnlinkSidecar
    <2>3. sidecar' \in [FileSet -> {0, 1, 2}]
      BY <1>a, <2>2 DEF DiskTypes
    <2>4. DiskInv' /\ \A g, r : InPlace(g, r)' = InPlace(g, r)
      BY <1>a, <2>2, <2>3, UnchangedIsQuiet, QuietKeeps DEF DiskTypes
    <2>5. PICK w \in Worker : /\ Fetching!Step(p, w) /\ w.pc = "file" /\ w.rev = proc[p].rev
                              /\ w.file = proc[p].file + 1 /\ w.satisfied = proc[p].satisfied
                              /\ w.inode = proc[p].inode
      <3> DEFINE w == [proc[p] EXCEPT !.pc = "file", !.file = proc[p].file + 1, !.hash = <<>>, !.offset = 0]
      <3>1. /\ << >> \in Seq(Nat) /\ "file" \in WorkPlaces /\ 0 \in Nat
            /\ proc[p].file + 1 \in 1..(FileCount + 1)
        BY <2>1, DownloadConstants DEF WorkPlaces, FileSet
      <3>2. w \in Worker /\ w.pc = "file" /\ w.rev = proc[p].rev
            /\ w.file = proc[p].file + 1 /\ w.satisfied = proc[p].satisfied /\ w.inode = proc[p].inode
        BY <1>a, <3>1 DEF Worker
      <3> QED
        BY <2>2, <3>2
    <2>6. \A f \in FileSet : f \in w.satisfied \/ f < w.file => InPlace(f, w.rev)'
      BY <2>1, <2>4, <2>5, DownloadConstants DEF FileSet
    <2>7. WorkInv(w)'
      BY <2>1, <2>5, <2>6 DEF WorkInv
    <2> QED
      BY <2>4, <2>5, <2>7, Onward
  <1>2. CASE Fetching!WriteManifest(p)
    <2>1. /\ proc[p].pc = "manifest" /\ proc[p].rev \in {1, 2} /\ proc[p].inode = 0
          /\ \A f \in FileSet : InPlace(f, proc[p].rev)
      BY <1>2, <1>a DEF WorkInv, Fetching!WriteManifest
    <2>2. /\ UNCHANGED <<final, part, data, sidecar>> /\ Fetching!UnchangedPolicy
          /\ Fetching!Step(p, Fetching!Goto(p, "verify")) /\ manifest' = proc[p].rev
      BY <1>2 DEF Fetching!WriteManifest
    <2>3. DiskInv' /\ \A g, r : InPlace(g, r)' = InPlace(g, r)
      <3>1. manifest' \in {0, 1, 2} /\ sidecar' \in [FileSet -> {0, 1, 2}]
        BY <1>a, <2>1, <2>2 DEF DiskTypes
      <3> QED
        BY <1>a, <2>2, <3>1, UnchangedIsQuiet, QuietKeeps
    <2>4. PICK w \in Worker : /\ Fetching!Step(p, w) /\ w.pc = "verify" /\ w.rev = proc[p].rev
                              /\ w.inode = proc[p].inode
      <3>1. "verify" \in WorkPlaces
        BY DEF WorkPlaces
      <3> QED
        BY <1>a, <2>2, <3>1, WorkerGoes
    <2>5. WorkInv(w)'
      BY <2>1, <2>2, <2>3, <2>4 DEF WorkInv
    <2> QED
      BY <2>3, <2>4, <2>5, Onward
  <1>3. CASE Fetching!Verify(p)
    <2>1. UNCHANGED <<final, part, data, sidecar, manifest>> /\ Fetching!UnchangedPolicy
      BY <1>3 DEF Fetching!Verify
    <2>2. DiskInv'
      BY <1>a, <2>1, UnchangedIsQuiet, QuietKeeps DEF DiskTypes
    <2>3. PICK s \in {"none", "failed", "verified"} : Fetching!Step(p, Fetching!End(p, s))
      BY <1>3 DEF Fetching!Verify
    <2> QED
      BY <1>a, <2>2, <2>3, WorkerEnds, RestsAfter
  <1> QED
    BY <1>1, <1>2, <1>3

\* The handle on a partial is opened on a content that is the hash so far.
LEMMA PartOpened ==
  ASSUME NEW p, Appliers = {p}, DownloadInv, proc[p].pc = "request", NEW append \in BOOLEAN,
         Fetching!OpenPart(p, append), append => proc[p].offset # 0,
         UNCHANGED <<final, manifest, sidecar>>, Fetching!UnchangedPolicy
  PROVE  DownloadInv'
  <1>a. DiskInv /\ DiskTypes /\ proc[p] \in Worker /\ WorkInv(proc[p])
    BY DEF DownloadInv, DiskInv
  <1>b. /\ proc[p].file \in FileSet /\ proc[p].rev \in {1, 2} /\ proc[p].inode = 0
        /\ \A f \in FileSet : f \in proc[p].satisfied \/ f < proc[p].file => InPlace(f, proc[p].rev)
        /\ append => part[proc[p].file] # 0 /\ data[part[proc[p].file]] = proc[p].hash
    BY <1>a DEF WorkInv
  <1> DEFINE f == proc[p].file
             i == IF part[f] # 0 THEN part[f] ELSE Fetching!FreeInode
             hash == IF append THEN proc[p].hash ELSE << >>
             offset == IF append THEN proc[p].offset ELSE 0
  <1>1. /\ part' = [part EXCEPT ![f] = i] /\ data' = [data EXCEPT ![i] = IF append THEN data[i] ELSE << >>]
        /\ Fetching!Step(p, [proc[p] EXCEPT !.pc = "receive", !.inode = i, !.append = append,
                                            !.offset = offset, !.hash = hash])
    BY DEF Fetching!OpenPart
  <1>2. i \in Disk /\ \A g \in FileSet : final[g] # i /\ (g # f => part[g] # i)
    <2>1. CASE part[f] # 0
      BY <1>a, <1>b, <2>1 DEF DiskTypes, DiskInv, Apart
    <2>2. CASE part[f] = 0
      BY <1>a, <1>b, <2>2, InodeLeft
    <2> QED
      BY <2>1, <2>2
  <1>3. hash \in Seq(Nat) /\ Len(hash) <= Size + 1 /\ offset \in Nat /\ (append => data[i] = hash)
    <2>1. proc[p].hash \in Seq(Nat) /\ proc[p].offset \in Nat /\ << >> \in Seq(Nat) /\ Len(<< >>) = 0
      BY <1>a DEF Worker
    <2>2. append => part[f] \in Disk /\ i = part[f]
      BY <1>a, <1>b DEF DiskTypes
    <2>3. append => data[i] = proc[p].hash /\ Len(proc[p].hash) <= Size + 1
      BY <1>a, <1>b, <2>2 DEF DiskInv, Bounded
    <2> QED
      BY <2>1, <2>3, DownloadConstants
  <1>4. data' = [data EXCEPT ![i] = hash]
    BY <1>1, <1>3
  <1> HIDE DEF f, i, hash, offset
  <1>5. part' \in [FileSet -> {0} \cup Disk] /\ part'[f] = i
    BY <1>1, <1>2, <1>a, <1>b DEF DiskTypes, f
  <1>6. Apart'
    <2>1. \A g \in FileSet : g # f => part'[g] = part[g]
      BY <1>1, <1>a DEF DiskTypes
    <2> QED
      BY <2>1, <1>2, <1>5, <1>a DEF DiskInv, Apart
  <1>7. /\ DiskInv' /\ data'[i] = hash
        /\ \A g \in FileSet, r \in {1, 2} : InPlace(g, r) => InPlace(g, r)'
    BY <1>a, <1>2, <1>3, <1>4, <1>5, <1>6, DiskWritten DEF Fetching!UnchangedPolicy
  <1>8. PICK w \in Worker : /\ Fetching!Step(p, w) /\ w.pc = "receive" /\ w.rev = proc[p].rev
                            /\ w.file = f /\ w.satisfied = proc[p].satisfied /\ w.inode = i /\ w.hash = hash
    <2> DEFINE w == [proc[p] EXCEPT !.pc = "receive", !.inode = i, !.append = append,
                                    !.offset = offset, !.hash = hash]
    <2>1. i \in Nat /\ "receive" \in WorkPlaces
      BY <1>2, DownloadConstants DEF WorkPlaces
    <2>2. w \in Worker /\ w.pc = "receive" /\ w.rev = proc[p].rev
          /\ w.file = proc[p].file /\ w.satisfied = proc[p].satisfied /\ w.inode = i /\ w.hash = hash
      BY <1>a, <1>3, <2>1 DEF Worker
    <2> QED
      BY <1>1, <2>2 DEF f
  <1>9. WorkInv(w)'
    BY <1>b, <1>2, <1>5, <1>7, <1>8 DEF WorkInv, f
  <1> QED
    BY <1>7, <1>8, <1>9, Onward

LEMMA RunRequests ==
  ASSUME NEW p, Appliers = {p}, DownloadInv, Fetching!Request(p)
  PROVE  DownloadInv'
  <1>a. DiskInv /\ DiskTypes /\ proc[p] \in Worker /\ WorkInv(proc[p])
    BY DEF DownloadInv, DiskInv
  <1>b. UNCHANGED <<final, manifest>> /\ Fetching!UnchangedPolicy /\ proc[p].pc = "request"
        /\ proc[p].file \in FileSet
    BY <1>a DEF WorkInv, Fetching!Request
  <1>1. CASE Fetching!OpenPart(p, FALSE) /\ UNCHANGED sidecar
    BY <1>b, <1>1, PartOpened
  <1>2. CASE proc[p].offset \in 1..(Size - 1) /\ Fetching!OpenPart(p, TRUE) /\ UNCHANGED sidecar
    <2>1. proc[p].offset # 0
      BY <1>2, DownloadConstants
    <2> QED
      BY <1>b, <1>2, <2>1, PartOpened
  <1>3. CASE /\ Fetching!Discard(proc[p].file) /\ Fetching!Step(p, Fetching!End(p, "failed"))
             /\ UNCHANGED data
    <2>1. DiskInv'
      BY <1>a, <1>b, <1>3, DiscardIsQuiet, QuietKeeps
    <2> QED
      BY <1>a, <1>3, <2>1, WorkerEnds, RestsAfter
  <1>4. CASE Fetching!Step(p, Fetching!End(p, "failed")) /\ UNCHANGED <<part, data, sidecar>>
    <2>1. DiskInv'
      BY <1>a, <1>b, <1>4, UnchangedIsQuiet, QuietKeeps DEF DiskTypes
    <2> QED
      BY <1>a, <1>4, <2>1, WorkerEnds, RestsAfter
  <1> QED
    BY <1>1, <1>2, <1>3, <1>4 DEF Fetching!Request

\* A block more at the end of the partial, hashed alike.
LEMMA BlockWritten ==
  ASSUME NEW p, Appliers = {p}, DownloadInv, proc[p].pc = "receive", NEW block \in Nat,
         NEW next \in {"receive", "check"}, Len(proc[p].hash) <= Size,
         data' = [data EXCEPT ![proc[p].inode] = Fetching!Written(p, block)],
         Fetching!Step(p, [proc[p] EXCEPT !.hash = Append(proc[p].hash, block), !.pc = next]),
         UNCHANGED <<final, part, sidecar, manifest>>, Fetching!UnchangedPolicy
  PROVE  DownloadInv'
  <1>a. DiskInv /\ DiskTypes /\ proc[p] \in Worker /\ WorkInv(proc[p])
    BY DEF DownloadInv, DiskInv
  <1>b. /\ proc[p].file \in FileSet /\ proc[p].rev \in {1, 2}
        /\ proc[p].inode \in Disk /\ part[proc[p].file] = proc[p].inode /\ data[proc[p].inode] = proc[p].hash
        /\ \A f \in FileSet : f \in proc[p].satisfied \/ f < proc[p].file => InPlace(f, proc[p].rev)
    BY <1>a DEF WorkInv
  <1> DEFINE hash == Append(proc[p].hash, block)
             i == proc[p].inode
  <1>1. proc[p].hash \in Seq(Nat) /\ hash \in Seq(Nat) /\ Len(hash) = Len(proc[p].hash) + 1
        /\ Len(proc[p].hash) \in Nat
    BY <1>a DEF Worker
  <1>2. Fetching!Written(p, block) = hash
    BY <1>b, <1>1 DEF Fetching!Written
  <1>3. data' = [data EXCEPT ![i] = hash] /\ i \in Disk
        /\ Fetching!Step(p, [proc[p] EXCEPT !.hash = hash, !.pc = next])
    BY <1>2, <1>b
  <1>4. Len(hash) <= Size + 1
    BY <1>1, DownloadConstants
  <1>5. \A g \in FileSet : final[g] # i
    BY <1>a, <1>b, DownloadConstants DEF DiskInv, Apart
  <1>6. part' \in [FileSet -> {0} \cup Disk] /\ Apart'
    BY <1>a DEF DiskTypes, DiskInv, Apart
  <1> HIDE DEF hash, i
  <1>7. /\ DiskInv' /\ data'[i] = hash
        /\ \A g \in FileSet, r \in {1, 2} : InPlace(g, r) => InPlace(g, r)'
    BY <1>a, <1>1, <1>3, <1>4, <1>5, <1>6, DiskWritten DEF Fetching!UnchangedPolicy
  <1>8. PICK w \in Worker : /\ Fetching!Step(p, w) /\ w.pc = next /\ w.rev = proc[p].rev
                            /\ w.file = proc[p].file /\ w.satisfied = proc[p].satisfied /\ w.inode = i
                            /\ w.hash = hash
    <2> DEFINE w == [proc[p] EXCEPT !.hash = hash, !.pc = next]
    <2>1. next \in WorkPlaces
      BY DEF WorkPlaces
    <2>2. w \in Worker /\ w.pc = next /\ w.rev = proc[p].rev
          /\ w.file = proc[p].file /\ w.satisfied = proc[p].satisfied /\ w.inode = proc[p].inode
          /\ w.hash = hash
      BY <1>a, <1>1, <2>1 DEF Worker
    <2> QED
      BY <1>3, <2>2 DEF i
  <1>9. WorkInv(w)'
    BY <1>b, <1>3, <1>7, <1>8 DEF WorkInv, i
  <1> QED
    BY <1>7, <1>8, <1>9, Onward

LEMMA RunReceives ==
  ASSUME NEW p, Appliers = {p}, DownloadInv, Fetching!Receive(p) \/ Fetching!StreamEnds(p)
  PROVE  DownloadInv'
  <1>a. DiskInv /\ DiskTypes /\ proc[p] \in Worker /\ WorkInv(proc[p])
    BY DEF DownloadInv, DiskInv
  <1>b. /\ proc[p].pc = "receive" /\ UNCHANGED <<final, part, sidecar, manifest>>
        /\ Fetching!UnchangedPolicy /\ proc[p].rev \in {1, 2}
        /\ proc[p].hash \in Seq(Nat) /\ Len(proc[p].hash) \in Nat /\ Size \in Nat
    BY <1>a, DownloadConstants DEF Fetching!Receive, Fetching!StreamEnds, WorkInv, Worker
  <1>1. CASE Fetching!Receive(p)
    <2>1. PICK block \in {10 * proc[p].rev + Len(proc[p].hash) + 1, Fetching!Junk} :
            /\ data' = [data EXCEPT ![proc[p].inode] = Fetching!Written(p, block)]
            /\ Fetching!Step(p, [proc[p] EXCEPT !.hash = Append(@, block)])
      BY <1>1 DEF Fetching!Receive
    <2>2. block \in Nat
      BY <1>b, <2>1 DEF Fetching!Junk
    <2>3. [proc[p] EXCEPT !.hash = Append(@, block)]
            = [proc[p] EXCEPT !.hash = Append(proc[p].hash, block), !.pc = "receive"]
      BY <1>a, <1>b DEF Worker
    <2>4. Len(proc[p].hash) <= Size
      BY <1>1, <1>b DEF Fetching!Receive
    <2> QED
      BY <1>b, <2>1, <2>2, <2>3, <2>4, BlockWritten
  <1>2. CASE Fetching!Step(p, Fetching!Goto(p, "check")) /\ UNCHANGED data
    <2>1. DiskInv' /\ \A g, r : InPlace(g, r)' = InPlace(g, r)
      BY <1>a, <1>b, <1>2, UnchangedIsQuiet, QuietKeeps DEF DiskTypes
    <2>2. PICK w \in Worker : /\ Fetching!Step(p, w) /\ w.pc = "check" /\ w.rev = proc[p].rev
                              /\ w.file = proc[p].file /\ w.satisfied = proc[p].satisfied
                              /\ w.hash = proc[p].hash /\ w.inode = proc[p].inode
      <3>1. "check" \in WorkPlaces
        BY DEF WorkPlaces
      <3> QED
        BY <1>a, <1>2, <3>1, WorkerGoes
    <2>3. WorkInv(w)'
      BY <1>a, <1>b, <1>2, <2>1, <2>2 DEF WorkInv
    <2> QED
      BY <2>1, <2>2, <2>3, Onward
  <1>3. CASE /\ Len(proc[p].hash) = Size
             /\ data' = [data EXCEPT ![proc[p].inode] = Fetching!Written(p, Fetching!Junk)]
             /\ Fetching!Step(p, [proc[p] EXCEPT !.hash = Append(@, Fetching!Junk), !.pc = "check"])
    <2>1. PICK block \in Nat : block = Fetching!Junk
      BY DEF Fetching!Junk
    <2>2. /\ Len(proc[p].hash) <= Size
          /\ data' = [data EXCEPT ![proc[p].inode] = Fetching!Written(p, block)]
          /\ Fetching!Step(p, [proc[p] EXCEPT !.hash = Append(proc[p].hash, block), !.pc = "check"])
      BY <1>b, <1>3, <2>1
    <2> QED
      BY <1>b, <2>2, BlockWritten
  <1> QED
    BY <1>1, <1>2, <1>3 DEF Fetching!StreamEnds

\* The verdict, and the definitive name.
LEMMA RunPublishes ==
  ASSUME NEW p, Appliers = {p}, DownloadInv, Fetching!Check(p) \/ Fetching!Rename(p)
  PROVE  DownloadInv'
  <1>a. DiskInv /\ DiskTypes /\ proc[p] \in Worker /\ WorkInv(proc[p])
    BY DEF DownloadInv, DiskInv
  <1>b. /\ proc[p].pc \in {"check", "rename"} /\ proc[p].file \in FileSet /\ proc[p].rev \in {1, 2}
        /\ proc[p].inode \in Disk /\ part[proc[p].file] = proc[p].inode /\ data[proc[p].inode] = proc[p].hash
        /\ \A f \in FileSet : f \in proc[p].satisfied \/ f < proc[p].file => InPlace(f, proc[p].rev)
    BY <1>a DEF WorkInv, Fetching!Check, Fetching!Rename
  <1>1. CASE Fetching!Check(p)
    <2>0. UNCHANGED <<final, data, manifest>> /\ Fetching!UnchangedPolicy
      BY <1>1 DEF Fetching!Check
    <2>1. CASE Fetching!Step(p, Fetching!End(p, "failed")) /\ UNCHANGED <<part, sidecar>>
      <3>1. DiskInv'
        BY <1>a, <2>0, <2>1, UnchangedIsQuiet, QuietKeeps DEF DiskTypes
      <3> QED
        BY <1>a, <2>1, <3>1, WorkerEnds, RestsAfter
    <2>2. CASE Fetching!Step(p, Fetching!End(p, "failed")) /\ Fetching!Discard(proc[p].file)
      <3>1. DiskInv'
        BY <1>a, <1>b, <2>0, <2>2, DiscardIsQuiet, QuietKeeps
      <3> QED
        BY <1>a, <2>2, <3>1, WorkerEnds, RestsAfter
    <2>3. CASE /\ Fetching!Step(p, [proc[p] EXCEPT !.pc = "rename"]) /\ UNCHANGED <<part, sidecar>>
               /\ proc[p].hash = Fetching!Target(proc[p].rev)
      <3>1. DiskInv' /\ \A g, r : InPlace(g, r)' = InPlace(g, r)
        BY <1>a, <2>0, <2>3, UnchangedIsQuiet, QuietKeeps DEF DiskTypes
      <3>2. PICK w \in Worker : /\ Fetching!Step(p, w) /\ w.pc = "rename" /\ w.rev = proc[p].rev
                                /\ w.file = proc[p].file /\ w.satisfied = proc[p].satisfied
                                /\ w.hash = proc[p].hash /\ w.inode = proc[p].inode
        <4>1. "rename" \in WorkPlaces
          BY DEF WorkPlaces
        <4> QED
          BY <1>a, <2>3, <4>1, WorkerGoes DEF Fetching!Goto
      <3>3. WorkInv(w)'
        BY <1>b, <2>0, <2>3, <3>1, <3>2 DEF WorkInv
      <3> QED
        BY <3>1, <3>2, <3>3, Onward
    <2> QED
      BY <1>1, <2>1, <2>2, <2>3 DEF Fetching!Check
  <1>2. CASE Fetching!Rename(p)
    <2> DEFINE f == proc[p].file
               i == proc[p].inode
    <2>1. /\ proc[p].pc = "rename" /\ part[f] = i /\ i # 0 /\ i \in Disk /\ f \in FileSet
          /\ data[i] = Fetching!Target(proc[p].rev)
      BY <1>2, <1>a, <1>b, DownloadConstants DEF WorkInv, Fetching!Rename
    <2>2. /\ final' = [final EXCEPT ![f] = i] /\ part' = [part EXCEPT ![f] = 0]
          /\ Fetching!Step(p, [proc[p] EXCEPT !.pc = "unlink", !.inode = 0])
          /\ UNCHANGED <<data, sidecar, manifest>> /\ Fetching!UnchangedPolicy
      BY <1>2, <2>1 DEF Fetching!Rename
    <2>3. PICK w \in Worker : /\ Fetching!Step(p, w) /\ w.pc = "unlink" /\ w.rev = proc[p].rev
                              /\ w.file = f /\ w.satisfied = proc[p].satisfied /\ w.inode = 0
      <3> DEFINE w == [proc[p] EXCEPT !.pc = "unlink", !.inode = 0]
      <3>1. "unlink" \in WorkPlaces /\ 0 \in Nat
        BY DEF WorkPlaces
      <3>2. w \in Worker /\ w.pc = "unlink" /\ w.rev = proc[p].rev
            /\ w.file = f /\ w.satisfied = proc[p].satisfied /\ w.inode = 0
        BY <1>a, <3>1 DEF Worker
      <3> QED
        BY <2>2, <3>2
    <2> HIDE DEF f, i
    <2>4. /\ final' \in [FileSet -> {0} \cup Disk] /\ final'[f] = i
          /\ part' \in [FileSet -> {0} \cup Disk] /\ part'[f] = 0
          /\ \A g \in FileSet : g # f => final'[g] = final[g] /\ part'[g] = part[g]
      BY <1>a, <2>1, <2>2 DEF DiskTypes
    <2>5. Apart'
      BY <1>a, <2>1, <2>4 DEF DiskInv, Apart
    <2>6. Genuine' /\ Bounded'
      BY <1>a, <1>b, <2>1, <2>2, <2>4 DEF DiskInv, Genuine, Bounded
    <2>7. DiskInv'
      BY <1>a, <2>2, <2>4, <2>5, <2>6 DEF DiskInv, DiskTypes, Fetching!UnchangedPolicy
    <2>8. \A g \in FileSet : g = f \/ InPlace(g, w.rev) => InPlace(g, w.rev)'
      <3> SUFFICES ASSUME NEW g \in FileSet, g = f \/ InPlace(g, w.rev)
                   PROVE  final'[g] # 0 /\ data'[final'[g]] = Fetching!Target(w.rev)
        BY DEF InPlace
      <3>1. CASE g = f
        BY <2>1, <2>2, <2>3, <2>4, <3>1
      <3>2. CASE g # f /\ InPlace(g, w.rev)
        BY <2>2, <2>4, <3>2 DEF InPlace
      <3> QED
        BY <3>1, <3>2
    <2>9. WorkInv(w)'
      BY <1>b, <2>1, <2>3, <2>4, <2>8 DEF WorkInv, f
    <2> QED
      BY <2>3, <2>7, <2>9, Onward
  <1> QED
    BY <1>1, <1>2

\* Without its last element.
LEMMA Shortened ==
  ASSUME NEW s \in Seq(Nat), s # << >>
  PROVE  SubSeq(s, 1, Len(s) - 1) \in Seq(Nat) /\ Len(SubSeq(s, 1, Len(s) - 1)) <= Len(s)
  <1> DEFINE n == Len(s) - 1
  <1>1. Len(s) \in Nat /\ Len(s) > 0
    BY EmptySeq
  <1>2. n \in Nat /\ n <= Len(s) /\ n \in Int /\ 1 \in Int
    BY <1>1
  <1>3. \A i \in 1..n : s[i] \in Nat
    <2>1. \A i \in 1..n : i \in 1..Len(s)
      BY <1>1
    <2> QED
      BY <2>1, LenProperties
  <1> HIDE DEF n
  <1>4. SubSeq(s, 1, n) \in Seq(Nat) /\ Len(SubSeq(s, 1, n)) = IF 1 <= n THEN n - 1 + 1 ELSE 0
    BY <1>2, <1>3, SubSeqProperties
  <1>5. Len(SubSeq(s, 1, n)) <= Len(s)
    BY <1>1, <1>2, <1>4
  <1> QED
    BY <1>4, <1>5 DEF n

LEMMA RunKilled ==
  ASSUME NEW p, Appliers = {p}, DownloadInv, Fetching!Kill(p)
  PROVE  DownloadInv'
  <1>a. DiskInv /\ DiskTypes /\ proc[p] \in Worker /\ WorkInv(proc[p])
    BY DEF DownloadInv, DiskInv
  <1>b. UNCHANGED <<final, part, manifest>> /\ Fetching!UnchangedPolicy
        /\ Fetching!Step(p, Fetching!Idle)
    BY DEF Fetching!Kill
  <1>1. DiskInv'
    <2>1. CASE UNCHANGED data
      <3>1. sidecar' \in [FileSet -> {0, 1, 2}]
        BY <1>a DEF Fetching!Kill, DiskTypes
      <3> QED
        BY <1>a, <1>b, <2>1, <3>1, UnchangedIsQuiet, QuietKeeps DEF DiskTypes
    <2>2. CASE /\ proc[p].pc = "receive" /\ data[proc[p].inode] # << >> /\ UNCHANGED sidecar
               /\ data' = [data EXCEPT ![proc[p].inode] =
                             SubSeq(data[proc[p].inode], 1, Len(data[proc[p].inode]) - 1)]
      <3> DEFINE i == proc[p].inode
                 old == data[i]
                 cut == SubSeq(old, 1, Len(old) - 1)
      <3>1. i \in Disk /\ proc[p].file \in FileSet /\ part[proc[p].file] = i
        BY <1>a, <2>2 DEF WorkInv
      <3>2. \A g \in FileSet : final[g] # i
        BY <1>a, <3>1, DownloadConstants DEF DiskInv, Apart
      <3>3. old \in Seq(Nat) /\ Len(old) <= Size + 1
        BY <1>a, <3>1 DEF DiskTypes, DiskInv, Bounded
      <3>4. cut \in Seq(Nat) /\ Len(cut) <= Size + 1
        <4>1. old # << >>
          BY <2>2
        <4> HIDE DEF old
        <4>2. cut \in Seq(Nat) /\ Len(cut) <= Len(old)
          BY <3>3, <4>1, Shortened
        <4> HIDE DEF cut
        <4>3. Len(cut) \in Nat /\ Len(old) \in Nat
          BY <3>3, <4>2
        <4> QED
          BY <3>3, <4>2, <4>3, DownloadConstants
      <3>5. part' \in [FileSet -> {0} \cup Disk] /\ Apart'
        BY <1>a, <1>b DEF DiskTypes, DiskInv, Apart
      <3>6. data' = [data EXCEPT ![i] = cut]
        BY <2>2
      <3> HIDE DEF i, old, cut
      <3> QED
        BY <1>a, <1>b, <2>2, <3>1, <3>2, <3>4, <3>5, <3>6, DiskWritten DEF Fetching!UnchangedPolicy
    <2> QED
      BY <2>1, <2>2 DEF Fetching!Kill
  <1> QED
    BY <1>b, <1>1, WorkerIdle, RestsAfter

\* The operator and the catalogue.
LEMMA WorldTurns ==
  ASSUME NEW p, Appliers = {p}, DownloadInv,
         Fetching!AcceptLicense \/ Fetching!CatalogMoves \/ Fetching!OperatorMoves
  PROVE  DownloadInv'
  <1>a. DiskInv /\ DiskTypes /\ Apart /\ Genuine /\ Bounded /\ proc[p] \in Worker /\ WorkInv(proc[p])
    BY DEF DownloadInv, DiskInv
  <1>b. UNCHANGED <<part, data, sidecar, manifest, proc>>
    BY DEF Fetching!AcceptLicense, Fetching!CatalogMoves, Fetching!OperatorMoves, Fetching!UnchangedDisk
  <1>1. CASE Fetching!AcceptLicense \/ Fetching!CatalogMoves
    <2>1. UNCHANGED final /\ catalog' \in {1, 2} /\ accepted' \in {0, 1, 2}
      BY <1>1, <1>a DEF Fetching!AcceptLicense, Fetching!CatalogMoves, Fetching!UnchangedDisk, DiskTypes
    <2>2. DiskInv'
      BY <1>a, <1>b, <2>1 DEF DiskInv, DiskTypes, Apart, Genuine, Bounded
    <2>3. WorkInv(proc[p])'
      BY <1>a, <1>b, <2>1 DEF WorkInv, InPlace
    <2> QED
      BY <1>b, <2>2, <2>3 DEF DownloadInv
  <1>2. CASE Fetching!OperatorMoves
    <2>1. PICK f \in FileSet : final' = [final EXCEPT ![f] = 0]
      BY <1>2 DEF Fetching!OperatorMoves, Fetching!Conflicting, FileSet
    <2>2. /\ final' \in [FileSet -> {0} \cup Disk] /\ final'[f] = 0
          /\ \A g \in FileSet : g # f => final'[g] = final[g]
      BY <1>a, <2>1 DEF DiskTypes
    <2>3. DiskInv'
      <3>1. DiskTypes' /\ Bounded'
        BY <1>2, <1>a, <1>b, <2>2 DEF DiskTypes, Bounded, Fetching!OperatorMoves, Fetching!UnchangedPolicy
      <3>2. Apart' /\ Genuine'
        BY <1>a, <1>b, <2>2 DEF Apart, Genuine
      <3> QED
        BY <3>1, <3>2 DEF DiskInv
    <2>4. proc[p].pc \in {"off", "ended"} /\ proc[p].inode = 0
      BY <1>2, <1>a DEF Fetching!OperatorMoves, Fetching!Busy, WorkInv
    <2>5. WorkInv(proc[p])'
      BY <1>b, <2>4 DEF WorkInv
    <2> QED
      BY <1>b, <2>3, <2>5 DEF DownloadInv
  <1> QED
    BY <1>1, <1>2

LEMMA DownloadStep ==
  ASSUME NEW p, Appliers = {p}, DownloadInv, [Fetching!Next]_(Fetching!vars)
  PROVE  DownloadInv'
  <1>1. CASE Fetching!Work(p)
    BY <1>1, RunBegins, RunPrepares, RunRequests, RunReceives, RunPublishes, RunRecords DEF Fetching!Work
  <1>2. CASE Fetching!Start(p)
    BY <1>2, RunBegins
  <1>3. CASE Fetching!Kill(p)
    BY <1>3, RunKilled
  <1>4. CASE Fetching!AcceptLicense \/ Fetching!CatalogMoves \/ Fetching!OperatorMoves
    BY <1>4, WorldTurns
  <1>5. CASE UNCHANGED Fetching!vars
    <2>1. UNCHANGED <<catalog, accepted, final, part, data, sidecar, manifest, proc>>
      BY <1>5 DEF Fetching!vars
    <2>2. DiskInv'
      BY <2>1 DEF DownloadInv, DiskInv, DiskTypes, Apart, Genuine, Bounded
    <2>3. WorkInv(proc[p])'
      BY <2>1 DEF DownloadInv, WorkInv, InPlace
    <2> QED
      BY <2>1, <2>2, <2>3 DEF DownloadInv
  <1> QED
    BY <1>1, <1>2, <1>3, <1>4, <1>5 DEF Fetching!Next

LEMMA DownloadSafety ==
  ASSUME DownloadInv
  PROVE  Fetching!DownloadTypeOK /\ Fetching!FinalIsVerified /\ Fetching!DoneMeansComplete
  <1>a. DiskTypes /\ Genuine /\ Bounded /\ \A p \in Appliers : WorkInv(proc[p])
    BY DEF DownloadInv, DiskInv
  <1>1. Fetching!DownloadTypeOK
    <2>1. \A i \in Disk : Len(data[i]) <= 2 * Size + 1
      <3> TAKE i \in Disk
      <3>1. Len(data[i]) \in Nat /\ Len(data[i]) <= Size + 1
        BY <1>a DEF DiskTypes, Bounded
      <3> QED
        BY <3>1, DownloadConstants
    <2> QED
      BY <1>a, <2>1 DEF Fetching!DownloadTypeOK, Fetching!Revisions, DiskTypes, FileSet, Disk
  <1>2. Fetching!FinalIsVerified
    BY <1>a DEF Fetching!FinalIsVerified, Fetching!Revisions, Genuine, FileSet
  <1>3. Fetching!DoneMeansComplete
    <2> SUFFICES ASSUME NEW p \in Appliers, proc[p].pc = "verify"
                 PROVE  Fetching!Satisfied(proc[p].rev) = 1..FileCount /\ manifest = proc[p].rev
      BY DEF Fetching!DoneMeansComplete
    <2>1. manifest = proc[p].rev /\ \A f \in FileSet : InPlace(f, proc[p].rev)
      BY <1>a DEF WorkInv
    <2> QED
      BY <2>1, Satisfaction DEF FileSet
  <1> QED
    BY <1>1, <1>2, <1>3

\* Several appliers have no lock between them.
OneApplier == \E p : Appliers = {p}

\* downloader.py, with a single applier at work: however downloads are cut, resumed,
\* corrupted, killed and started again, and whatever the catalogue moves to, a
\* definitive name only ever holds what a revision of the catalogue pins, and a step that
\* reaches its verification has the whole set of its revision and the manifest saying so.
THEOREM DownloadAlwaysSafe ==
  ASSUME OneApplier
  PROVE  Spec => []DownloadSafe
  <1> PICK p : Appliers = {p}
    BY DEF OneApplier
  <1> DEFINE Inv == job = "download" => DownloadInv
  <1>1. Init => Inv
    BY Alone, DownloadStart
  <1>2. Inv /\ [Next]_vars => Inv'
    BY Alone, DownloadStep
  <1>3. Inv => DownloadSafe
    BY DownloadSafety DEF DownloadSafe
  <1> QED
    BY <1>1, <1>2, <1>3, PTL DEF Spec

-----------------------------------------------------------------------------
(* A plan and its report: PlanRun                                          *)

RunPlaces == {"load", "run", "report", "archived", "believed", "refused", "interrupted"}
Accepting == {"run", "report", "archived", "believed", "interrupted"}

\* What may stand in the results of the plan: for a step of it, with a status.
StepResults ==
  {Applying!ForStep(loaded.steps[k], s) : k \in DOMAIN loaded.steps, s \in Applying!StepStatuses}

RunTypes ==
  /\ pc \in RunPlaces /\ mode \in {"dry-run", "apply"} /\ plan \in Plans
  /\ results \in Seq(StepResults) /\ (pc = "load" => results = << >> /\ host = {})
  /\ pc \in Accepting => loaded \in Plans /\ Applying!Accepted(loaded)
  /\ results # << >> => loaded \in Plans /\ Applying!Accepted(loaded)
  /\ pc \in {"run", "interrupted"} => Len(results) <= Len(loaded.steps)
  /\ pc \in {"report", "archived", "believed"} => Len(results) = Len(loaded.steps)

\* The results are those of the steps, in their order, and the host follows them.
ResultsInv ==
  /\ \A k \in DOMAIN results : /\ results[k].status \in Applying!StepStatuses /\ results[k].order = k
                               /\ results[k] = Applying!ForStep(loaded.steps[k], results[k].status)
  /\ host \subseteq DOMAIN results
  /\ \A k \in DOMAIN results : results[k].status \in {"done", "already_satisfied"} => k \in host
  /\ \A k \in host, j \in DOMAIN results : results[j].status = "failed" => k <= j
  /\ mode = "dry-run" => \A k \in host : results[k].status \in {"already_satisfied", "failed"}

\* Nobody recomputes the fingerprint of the journal: what is believed is about it.
DocumentInv ==
  /\ pc \in {"archived", "believed"} =>
       "executionFingerprint" \in DOMAIN document /\ document.executionFingerprint = Applying!Journal
  /\ pc = "believed" => Applying!Valid(document)

PlanRunInv == RunTypes /\ ResultsInv /\ DocumentInv

LEMMA PlanList ==
  ASSUME NEW p \in Plans
  PROVE  Len(p.steps) \in Nat /\ DOMAIN p.steps = 1..Len(p.steps)
  <1>1. p.steps \in Seq({p.steps[k] : k \in DOMAIN p.steps})
    BY PlanAssumption DEF PlanAssumption
  <1> DEFINE S == {p.steps[k] : k \in DOMAIN p.steps}
             steps == p.steps
  <1> HIDE DEF S, steps
  <1>2. steps \in Seq(S)
    BY <1>1 DEF S, steps
  <1>3. Len(steps) \in Nat /\ DOMAIN steps = 1..Len(steps)
    BY <1>2
  <1> QED
    BY <1>3 DEF steps

LEMMA PlanRunStart ==
  ASSUME Applying!Init
  PROVE  PlanRunInv
  <1>1. RunTypes
    <2>1. << >> \in Seq(StepResults)
      OBVIOUS
    <2> QED
      BY <2>1 DEF Applying!Init, RunTypes, RunPlaces, Accepting
  <1>2. ResultsInv /\ DocumentInv
    BY DEF Applying!Init, ResultsInv, DocumentInv
  <1> QED
    BY <1>1, <1>2 DEF PlanRunInv

\* One more result, and what the host may have undergone with it.
LEMMA ResultAdded ==
  ASSUME PlanRunInv, pc = "run", Len(results) < Len(loaded.steps), NEW s \in Applying!StepStatuses,
         results' = Append(results, Applying!ForStep(loaded.steps[Len(results) + 1], s)),
         UNCHANGED <<plan, loaded, mode, pc>>,
         host' \in {host, host \cup {Len(results) + 1}},
         s \in {"done", "already_satisfied"} => Len(results) + 1 \in host',
         host' # host => ~Applying!Failed(results),
         host' # host /\ mode = "dry-run" => s \in {"already_satisfied", "failed"}
  PROVE  PlanRunInv'
  <1> DEFINE n == Len(results) + 1
             entry == Applying!ForStep(loaded.steps[n], s)
  <1>a. RunTypes /\ ResultsInv
    BY DEF PlanRunInv
  <1>1. /\ loaded \in Plans /\ Applying!Accepted(loaded) /\ results \in Seq(StepResults)
        /\ Len(results) \in Nat /\ DOMAIN results = 1..Len(results)
    BY <1>a DEF RunTypes, Accepting
  <1>2. DOMAIN loaded.steps = 1..Len(loaded.steps) /\ Len(loaded.steps) \in Nat
    BY <1>1, PlanList
  <1>3. n \in DOMAIN loaded.steps /\ loaded.steps[n].order = n /\ n \in Nat
    BY <1>1, <1>2 DEF Applying!Accepted, Applying!StepsInOrder
  <1>4. /\ entry \in StepResults /\ entry.status = s /\ entry.order = n
        /\ entry = Applying!ForStep(loaded.steps[n], entry.status)
    BY <1>3 DEF StepResults, Applying!ForStep
  <1>5. StepResults' = StepResults
    BY DEF StepResults
  <1> HIDE DEF entry
  <1>6. /\ results' \in Seq(StepResults) /\ Len(results') = n /\ DOMAIN results' = 1..n
        /\ results'[n] = entry /\ \A k \in DOMAIN results : results'[k] = results[k]
    BY <1>1, <1>4 DEF entry
  <1>7. RunTypes'
    <2>1. Len(results') <= Len(loaded.steps)
      BY <1>1, <1>2, <1>6
    <2> QED
      BY <1>a, <1>1, <1>5, <1>6, <2>1 DEF RunTypes, Accepting
  <1>8. host' \subseteq 1..n /\ \A k \in host' : k \in host \/ (k = n /\ host' # host)
    BY <1>a, <1>1 DEF ResultsInv
  <1>9. \A k \in DOMAIN results' : k \in DOMAIN results \/ k = n
    BY <1>1, <1>6
  <1>10. ResultsInv'
    <2>1. \A k \in DOMAIN results' :
            /\ results'[k].status \in Applying!StepStatuses /\ results'[k].order = k
            /\ results'[k] = Applying!ForStep(loaded.steps[k], results'[k].status)
      BY <1>a, <1>4, <1>6, <1>9 DEF ResultsInv
    <2>2. \A k \in DOMAIN results' : results'[k].status \in {"done", "already_satisfied"} => k \in host'
      BY <1>a, <1>4, <1>6, <1>9 DEF ResultsInv
    <2>3. ASSUME NEW k \in host', NEW j \in DOMAIN results', results'[j].status = "failed" PROVE k <= j
      <3>1. CASE j = n
        BY <1>1, <1>8, <3>1
      <3>2. CASE j \in DOMAIN results
        <4>1. results[j].status = "failed"
          BY <1>6, <2>3, <3>2
        <4>2. Applying!Failed(results)
          BY <3>2, <4>1 DEF Applying!Failed
        <4>3. k \in host
          BY <1>8, <4>2
        <4> QED
          BY <1>a, <3>2, <4>1, <4>3 DEF ResultsInv
      <3> QED
        BY <1>9, <3>1, <3>2
    <2>4. ASSUME mode = "dry-run", NEW k \in host'
          PROVE  results'[k].status \in {"already_satisfied", "failed"}
      <3>1. CASE k \in host
        BY <1>a, <1>6, <2>4, <3>1 DEF ResultsInv
      <3>2. CASE k = n /\ host' # host
        BY <1>4, <1>6, <2>4, <3>2
      <3> QED
        BY <1>8, <3>1, <3>2
    <2> QED
      BY <1>6, <1>8, <2>1, <2>2, <2>3, <2>4 DEF ResultsInv
  <1>11. DocumentInv'
    BY DEF DocumentInv
  <1> QED
    BY <1>7, <1>10, <1>11 DEF PlanRunInv

\* execute_plan: a result per step, for that step.
LEMMA PlanExecutes ==
  ASSUME PlanRunInv, Applying!Execute \/ Applying!Unsupported \/ Applying!NotAttempted
  PROVE  PlanRunInv'
  <1> DEFINE n == Len(results) + 1
             step == loaded.steps[n]
  <1>a. /\ pc = "run" /\ Len(results) < Len(loaded.steps) /\ UNCHANGED <<plan, loaded, mode, pc>>
    BY DEF Applying!Execute, Applying!Unsupported, Applying!NotAttempted
  <1>b. step.order = n /\ n \in Nat /\ n > 0
    <2>1. loaded \in Plans /\ Applying!Accepted(loaded) /\ Len(results) \in Nat
      BY <1>a DEF PlanRunInv, RunTypes, Accepting
    <2>2. n \in DOMAIN loaded.steps
      BY <1>a, <2>1, PlanList
    <2> QED
      BY <2>1, <2>2 DEF Applying!Accepted, Applying!StepsInOrder
  <1>1. CASE Applying!Unsupported
    <2>1. results' = Append(results, Applying!ForStep(step, "failed")) /\ UNCHANGED host
      BY <1>1 DEF Applying!Unsupported
    <2>2. "failed" \in Applying!StepStatuses
      BY DEF Applying!StepStatuses
    <2> QED
      BY <1>a, <2>1, <2>2, ResultAdded
  <1>2. CASE Applying!NotAttempted
    <2>1. results' = Append(results, Applying!ForStep(step, "not_attempted")) /\ UNCHANGED host
      BY <1>2 DEF Applying!NotAttempted
    <2>2. "not_attempted" \in Applying!StepStatuses
      BY DEF Applying!StepStatuses
    <2> QED
      BY <1>a, <2>1, <2>2, ResultAdded
  <1>3. CASE Applying!Execute
    <2> DEFINE others == {loaded.steps[k] : k \in DOMAIN loaded.steps} \ {step}
    <2>1. PICK given \in {Applying!NotAResult} \cup {Applying!ForStep(o, "done") : o \in others}
                          \cup {Applying!ForStep(step, status) : status \in Applying!StepStatuses} :
            /\ results' = Append(results, Applying!GuardResult(given, step))
            /\ host' \in Applying!HostsAfter(given, step)
      BY <1>3 DEF Applying!Execute
    <2>2. ~Applying!Failed(results)
      BY <1>3 DEF Applying!Execute
    <2>3. host' \in {host, host \cup {n}}
      BY <1>b, <2>1 DEF Applying!HostsAfter
    <2>4. CASE Applying!GuardResult(given, step) = Applying!ForStep(step, "failed")
      <3>1. "failed" \in Applying!StepStatuses
        BY DEF Applying!StepStatuses
      <3>2. results' = Append(results, Applying!ForStep(loaded.steps[Len(results) + 1], "failed"))
        BY <2>1, <2>4
      <3> QED
        BY <1>a, <2>2, <2>3, <3>1, <3>2, ResultAdded
    <2>5. CASE Applying!GuardResult(given, step) # Applying!ForStep(step, "failed")
      <3>1. /\ given = Applying!ForStep(step, given.status)
            /\ ~(mode = "dry-run" /\ given.status = "done")
            /\ ~(mode = "apply" /\ given.status = "would_apply")
            /\ Applying!GuardResult(given, step) = given
        BY <2>5 DEF Applying!GuardResult
      <3>2. Applying!NotAResult # Applying!ForStep(step, "none") /\ Applying!NotAResult.status = "none"
        BY <1>b DEF Applying!NotAResult, Applying!ForStep
      <3>3. PICK s \in Applying!StepStatuses : given.status = s
        <4>1. CASE given = Applying!NotAResult
          BY <3>1, <3>2, <4>1
        <4>2. CASE given \in {Applying!ForStep(o, "done") : o \in others}
          BY <4>2 DEF Applying!ForStep, Applying!StepStatuses
        <4>3. CASE given \in {Applying!ForStep(step, status) : status \in Applying!StepStatuses}
          BY <4>3 DEF Applying!ForStep
        <4> QED
          BY <2>1, <4>1, <4>2, <4>3
      <3>4. given = Applying!ForStep(step, s)
        BY <3>1, <3>3
      <3>5. \A t, u : Applying!ForStep(step, t) = Applying!ForStep(step, u) => t = u
        BY DEF Applying!ForStep
      <3>6. s \in {"done", "already_satisfied"} => host' = host \cup {n}
        BY <1>b, <2>1, <3>4 DEF Applying!HostsAfter
      <3>7. s \in {"would_apply", "skipped", "not_attempted"} => host' = host
        <4>1. s \in {"would_apply", "skipped", "not_attempted"} =>
                /\ given \notin {Applying!ForStep(step, "done"), Applying!ForStep(step, "already_satisfied")}
                /\ given \in {Applying!ForStep(step, t) : t \in {"would_apply", "skipped", "not_attempted"}}
          BY <3>4, <3>5
        <4> QED
          BY <2>1, <4>1 DEF Applying!HostsAfter
      <3>8. host' # host /\ mode = "dry-run" => s \in {"already_satisfied", "failed"}
        BY <3>1, <3>3, <3>7 DEF Applying!StepStatuses
      <3>9. results' = Append(results, Applying!ForStep(loaded.steps[Len(results) + 1], s))
        BY <2>1, <3>1, <3>4
      <3>10. s \in {"done", "already_satisfied"} => Len(results) + 1 \in host'
        BY <3>6
      <3> QED
        BY <1>a, <2>2, <2>3, <3>8, <3>9, <3>10, ResultAdded
    <2> QED
      BY <2>4, <2>5
  <1> QED
    BY <1>1, <1>2, <1>3

\* The plan is read, the run ends, and the report is made, altered, read back.
LEMMA PlanReports ==
  ASSUME PlanRunInv,
         \/ Applying!LoadPlan \/ Applying!Interrupt \/ Applying!Finish \/ Applying!BuildReport
         \/ Applying!Regenerate \/ Applying!Alter \/ Applying!ReadBack
  PROVE  PlanRunInv'
  <1>a. RunTypes /\ ResultsInv /\ DocumentInv
    BY DEF PlanRunInv
  <1>b. UNCHANGED <<results, host, mode>>
    BY DEF Applying!LoadPlan, Applying!Interrupt, Applying!Finish, Applying!BuildReport,
           Applying!Regenerate, Applying!Alter, Applying!ReadBack
  <1>1. CASE Applying!LoadPlan
    <2>1. results = << >> /\ host = {} /\ results' = << >>
      BY <1>1, <1>a, <1>b DEF Applying!LoadPlan, RunTypes
    <2>2. plan \in Plans /\ Len(plan.steps) \in Nat
      BY <1>a, PlanList DEF RunTypes
    <2>3. /\ (pc' = "run" /\ loaded' = plan /\ Applying!Accepted(plan)) \/ pc' = "refused"
          /\ plan' = plan
      BY <1>1 DEF Applying!LoadPlan
    <2>4. << >> \in Seq(StepResults') /\ Len(<< >>) = 0
      OBVIOUS
    <2>5. RunTypes'
      BY <1>a, <1>b, <2>1, <2>2, <2>3, <2>4 DEF RunTypes, RunPlaces, Accepting
    <2>6. ResultsInv' /\ DocumentInv'
      BY <1>b, <2>1, <2>3 DEF ResultsInv, DocumentInv
    <2> QED
      BY <2>5, <2>6 DEF PlanRunInv
  <1>2. CASE ~Applying!LoadPlan
    <2>1. UNCHANGED loaded /\ StepResults' = StepResults /\ Applying!Journal' = Applying!Journal
      <3>1. UNCHANGED loaded
        BY <1>2 DEF Applying!Interrupt, Applying!Finish, Applying!BuildReport,
             Applying!Regenerate, Applying!Alter, Applying!ReadBack
      <3> QED
        BY <3>1, <1>b DEF StepResults, Applying!Journal
    <2>2. ResultsInv'
      BY <1>a, <1>b, <2>1 DEF ResultsInv
    <2>3. /\ \/ pc' = pc
             \/ pc = "run" /\ pc' = "interrupted"
             \/ pc = "run" /\ pc' = "report" /\ Len(results) = Len(loaded.steps)
             \/ pc = "report" /\ pc' \in {"archived", "refused"}
             \/ pc = "archived" /\ pc' \in {"believed", "refused"}
          /\ plan' \in Plans
      BY <1>2, <1>a DEF Applying!Interrupt, Applying!Finish, Applying!BuildReport,
           Applying!Regenerate, Applying!Alter, Applying!ReadBack, RunTypes
    <2>4. RunTypes'
      <3>1. results' \in Seq(StepResults')
        BY <1>a, <1>b, <2>1 DEF RunTypes
      <3>2. pc \in Accepting => loaded \in Plans /\ Applying!Accepted(loaded)
        BY <1>a DEF RunTypes
      <3> QED
        BY <1>a, <1>b, <2>1, <2>3, <3>1, <3>2 DEF RunTypes, RunPlaces, Accepting
    <2>5. DocumentInv'
      <3>1. CASE Applying!BuildReport
        <4>1. pc' = "archived" => document' = Applying!Report(plan, Applying!Journal)
          BY <3>1 DEF Applying!BuildReport
        <4>2. pc' # "believed"
          BY <3>1 DEF Applying!BuildReport
        <4> QED
          BY <2>1, <4>1, <4>2 DEF DocumentInv, Applying!Report
      <3>2. CASE Applying!Alter
        <4>1. DOMAIN document' = DOMAIN document
              /\ ("executionFingerprint" \in DOMAIN document =>
                    document'.executionFingerprint = document.executionFingerprint)
          BY <3>2 DEF Applying!Alter
        <4>2. pc' = "archived" /\ pc = "archived"
          BY <3>2 DEF Applying!Alter
        <4> QED
          BY <1>a, <2>1, <4>1, <4>2 DEF DocumentInv
      <3>3. CASE Applying!ReadBack
        <4>1. pc' = "believed" => Applying!Valid(document)
          BY <3>3 DEF Applying!ReadBack
        <4>2. pc = "archived" /\ UNCHANGED document
          BY <3>3 DEF Applying!ReadBack
        <4>3. Applying!Valid(document)' = Applying!Valid(document)
          BY <4>2 DEF Applying!Valid, Applying!ValidJournal, Applying!Report, Applying!Accepted,
                      Applying!StepsInOrder, Applying!Consistent, Applying!EvaluateConditions,
                      Applying!InstallVerdict, Applying!Verdict, Applying!EvaluateCondition,
                      Applying!ProvingSteps, Applying!Domain, Applying!Conditions, Applying!Condition
        <4> QED
          BY <1>a, <2>1, <4>1, <4>2, <4>3 DEF DocumentInv
      <3>4. CASE Applying!Interrupt \/ Applying!Finish \/ Applying!Regenerate
        BY <3>4 DEF DocumentInv, Applying!Interrupt, Applying!Finish, Applying!Regenerate
      <3> QED
        BY <1>2, <3>1, <3>2, <3>3, <3>4
    <2> QED
      BY <2>2, <2>4, <2>5 DEF PlanRunInv
  <1> QED
    BY <1>1, <1>2

LEMMA PlanRunStep ==
  ASSUME PlanRunInv, [Applying!Next]_(Applying!planVars)
  PROVE  PlanRunInv'
  <1>1. CASE Applying!Next
    BY <1>1, PlanExecutes, PlanReports DEF Applying!Next
  <1>2. CASE UNCHANGED Applying!planVars
    <2>1. UNCHANGED <<plan, loaded, mode, pc, results, host, document>>
      BY <1>2 DEF Applying!planVars
    <2>2. StepResults' = StepResults /\ Applying!Journal' = Applying!Journal
      BY <2>1 DEF StepResults, Applying!Journal
    <2>3. Applying!Valid(document)' = Applying!Valid(document)
      BY <2>1 DEF Applying!Valid, Applying!ValidJournal, Applying!Report, Applying!Accepted,
                  Applying!StepsInOrder, Applying!Consistent, Applying!EvaluateConditions,
                  Applying!InstallVerdict, Applying!Verdict, Applying!EvaluateCondition,
                  Applying!ProvingSteps, Applying!Domain, Applying!Conditions, Applying!Condition
    <2>4. RunTypes' /\ ResultsInv'
      BY <2>1, <2>2 DEF PlanRunInv, RunTypes, ResultsInv
    <2>5. DocumentInv'
      BY <2>1, <2>2, <2>3 DEF PlanRunInv, DocumentInv
    <2> QED
      BY <2>4, <2>5 DEF PlanRunInv
  <1> QED
    BY <1>1, <1>2

\* A report that is believed is the one that the run would make again.
LEMMA Believed ==
  ASSUME PlanRunInv, pc = "believed"
  PROVE  document.plan = loaded /\ document.verdict = Applying!InstallVerdict(results, mode = "apply")
  <1>1. Applying!Valid(document) /\ document.executionFingerprint = Applying!Journal
    BY DEF PlanRunInv, DocumentInv
  <1>2. document.execution = Applying!Journal
    <2>1. document.executionFingerprint = document.execution
      BY <1>1 DEF Applying!Valid, Applying!Report
    <2> QED
      BY <1>1, <2>1
  <1>3. document.plan = document.execution.plan
        /\ document.verdict = Applying!InstallVerdict(document.execution.results, document.execution.mode = "apply")
    BY <1>1 DEF Applying!Valid, Applying!Report
  <1>4. Applying!Journal.plan = loaded /\ Applying!Journal.results = results /\ Applying!Journal.mode = mode
    BY DEF Applying!Journal
  <1> QED
    BY <1>2, <1>3, <1>4

\* What it takes for an installation to be complete.
LEMMA CompleteMeans ==
  ASSUME NEW rs, NEW mutating \in BOOLEAN, Applying!InstallVerdict(rs, mutating) = "complete"
  PROVE  /\ mutating
         /\ \A k \in DOMAIN rs : rs[k].status \notin {"failed", "not_attempted", "would_apply", "skipped"}
         /\ \A code \in DOMAIN Applying!Conditions :
              Applying!ProvingSteps(Applying!Conditions[code], rs) # {}
  <1>1. /\ Applying!Verdict(rs) # "failed" /\ Applying!Verdict(rs) = "ok" /\ mutating
        /\ \A code \in DOMAIN Applying!Conditions :
             Applying!EvaluateConditions(rs, mutating)[code] = "satisfied"
    BY DEF Applying!InstallVerdict
  <1>2. \A k \in DOMAIN rs : rs[k].status \notin {"failed", "not_attempted", "would_apply", "skipped"}
    BY <1>1 DEF Applying!Verdict
  <1>3. ASSUME NEW code \in DOMAIN Applying!Conditions
        PROVE  Applying!ProvingSteps(Applying!Conditions[code], rs) # {}
    <2>1. Applying!EvaluateCondition(Applying!Conditions[code], rs, mutating) = "satisfied"
      BY <1>1 DEF Applying!EvaluateConditions
    <2> QED
      BY <2>1 DEF Applying!EvaluateCondition
  <1> QED
    BY <1>1, <1>2, <1>3

LEMMA PlanRunSafety ==
  ASSUME PlanRunInv
  PROVE  Applying!PlanRunTypeOK /\ Applying!CompleteIsProven /\ Applying!NothingUnseen
  <1>a. RunTypes /\ ResultsInv
    BY DEF PlanRunInv
  <1>1. Applying!PlanRunTypeOK
    BY <1>a DEF Applying!PlanRunTypeOK, RunTypes, RunPlaces, ResultsInv
  <1>2. Applying!NothingUnseen
    BY <1>a DEF Applying!NothingUnseen, ResultsInv
  <1>3. ASSUME pc = "believed", document.verdict = "complete"
        PROVE  /\ mode = "apply" /\ document.plan = loaded /\ ~loaded.failing
               /\ host = DOMAIN loaded.steps
               /\ \A action \in {"install_runtime", "accept_license", "calibrate_model", "warmup_model",
                                 "smoke_test"} :
                    \E k \in host : loaded.steps[k].action = action
               /\ \E k \in host : \/ loaded.steps[k].action = "download_model"
                                  \/ /\ loaded.steps[k].action = "verify_artifact"
                                     /\ \E j \in host : /\ loaded.steps[j].action # "install_runtime"
                                                        /\ loaded.steps[j].target = loaded.steps[k].target
    <2>1. document.plan = loaded /\ Applying!InstallVerdict(results, mode = "apply") = "complete"
      BY <1>3, Believed
    <2>2. /\ mode = "apply"
          /\ \A k \in DOMAIN results :
               results[k].status \notin {"failed", "not_attempted", "would_apply", "skipped"}
          /\ \A code \in DOMAIN Applying!Conditions :
               Applying!ProvingSteps(Applying!Conditions[code], results) # {}
      <3>1. (mode = "apply") \in BOOLEAN
        OBVIOUS
      <3> QED
        BY <2>1, <3>1, CompleteMeans
    <2>3. loaded \in Plans /\ Applying!Accepted(loaded) /\ Len(results) = Len(loaded.steps)
          /\ results \in Seq(StepResults)
      BY <1>3, <1>a DEF RunTypes, Accepting
    <2>4. DOMAIN results = DOMAIN loaded.steps
      <3>1. DOMAIN loaded.steps = 1..Len(loaded.steps)
        BY <2>3, PlanList
      <3>2. DOMAIN results = 1..Len(results)
        BY <2>3
      <3> QED
        BY <2>3, <3>1, <3>2
    <2>5. host = DOMAIN results
      <3>1. \A k \in DOMAIN results : results[k].status \in {"done", "already_satisfied"}
        BY <1>a, <2>2 DEF ResultsInv, Applying!StepStatuses
      <3> QED
        BY <1>a, <3>1 DEF ResultsInv
    <2>6. ~loaded.failing
      BY <2>3 DEF Applying!Accepted, Applying!Consistent
    <2>7. \A k \in host : /\ results[k].action = loaded.steps[k].action
                          /\ results[k].target = loaded.steps[k].target
      BY <1>a, <2>5 DEF ResultsInv, Applying!ForStep
    <2>8. \A code \in DOMAIN Applying!Conditions : \E k \in host :
            \/ results[k].action \in Applying!Conditions[code].actions
            \/ /\ results[k].action \in Applying!Conditions[code].shared
               /\ \E j \in host : /\ results[j].action \in Applying!Conditions[code].anchors
                                  /\ results[j].target = results[k].target
      BY <2>2, <2>5 DEF Applying!ProvingSteps, Applying!Domain
    <2>9. /\ {"runtime_installed", "model_downloaded", "license_accepted", "calibrated", "warmed_up",
              "e2e_call"} \subseteq DOMAIN Applying!Conditions
          /\ Applying!Conditions["runtime_installed"].actions = {"install_runtime"}
          /\ Applying!Conditions["runtime_installed"].anchors = {"install_runtime"}
          /\ Applying!Conditions["model_downloaded"].actions = {"download_model"}
          /\ Applying!Conditions["model_downloaded"].shared = {"verify_artifact"}
          /\ Applying!Conditions["model_downloaded"].anchors =
               {"calibrate_model", "enable_model", "warmup_model", "smoke_test"}
          /\ Applying!Conditions["license_accepted"].actions = {"accept_license"}
          /\ Applying!Conditions["license_accepted"].shared = {}
          /\ Applying!Conditions["calibrated"].actions = {"calibrate_model"}
          /\ Applying!Conditions["calibrated"].shared = {}
          /\ Applying!Conditions["warmed_up"].actions = {"warmup_model"}
          /\ Applying!Conditions["warmed_up"].shared = {}
          /\ Applying!Conditions["e2e_call"].actions = {"smoke_test"}
          /\ Applying!Conditions["e2e_call"].shared = {}
      BY DEF Applying!Conditions, Applying!Condition
    <2>10. \E k \in host : results[k].action = "install_runtime"
      BY <2>8, <2>9
    <2>11. \E k \in host : results[k].action = "accept_license"
      BY <2>8, <2>9
    <2>12. \E k \in host : results[k].action = "calibrate_model"
      BY <2>8, <2>9
    <2>13. \E k \in host : results[k].action = "warmup_model"
      BY <2>8, <2>9
    <2>14. \E k \in host : results[k].action = "smoke_test"
      BY <2>8, <2>9
    <2>15. \E k \in host : \/ results[k].action = "download_model"
                           \/ /\ results[k].action = "verify_artifact"
                              /\ \E j \in host : /\ results[j].action # "install_runtime"
                                                 /\ results[j].target = results[k].target
      BY <2>8, <2>9
    <2>16. \A action \in {"install_runtime", "accept_license", "calibrate_model", "warmup_model",
                          "smoke_test"} :
             \E k \in host : loaded.steps[k].action = action
      BY <2>7, <2>10, <2>11, <2>12, <2>13, <2>14
    <2>17. \E k \in host : \/ loaded.steps[k].action = "download_model"
                           \/ /\ loaded.steps[k].action = "verify_artifact"
                              /\ \E j \in host : /\ loaded.steps[j].action # "install_runtime"
                                                 /\ loaded.steps[j].target = loaded.steps[k].target
      BY <2>7, <2>15
    <2> QED
      BY <2>1, <2>2, <2>4, <2>5, <2>6, <2>16, <2>17
  <1> QED
    BY <1>1, <1>2, <1>3 DEF Applying!CompleteIsProven

\* execution.py and install_report.py: whatever the executors return, whichever of them is
\* missing or raises, and whoever regenerates the plan or touches the archived report, a
\* report that is believed and says "complete" belongs to a plan that was applied, every
\* step of which is on the host, with a step of its own behind each condition; and no
\* effect on the host escapes the results.
THEOREM PlanAlwaysHonest == Spec => []PlanIsHonest
  <1> DEFINE Inv == job = "plan" => PlanRunInv
  <1>1. Init => Inv
    BY Alone, PlanRunStart
  <1>2. Inv /\ [Next]_vars => Inv'
    BY Alone, PlanRunStep
  <1>3. Inv => PlanIsHonest
    BY PlanRunSafety DEF PlanIsHonest
  <1> QED
    BY <1>1, <1>2, <1>3, PTL DEF Spec

-----------------------------------------------------------------------------
(* Deciding what to install: Planner                                       *)

ModelActions == {"download_model", "verify_artifact", "write_registry", "calibrate_model",
                 "enable_model", "smoke_test", "warmup_model"}

\* The steps about models: none of them touches the runtime.
AboutModels ==
  {[action |-> "accept_license", target |-> "license"]}
    \cup [action : ModelActions, target : Planning!Ids]

AboutRuntime == {[action |-> "install_runtime", target |-> "llama-server"]}

\* A backend that was chosen for this host.
ForThisHost(backend) == backend \in Planning!Range(Planning!BackendCandidates(machine))

\* The next plan would keep the runtime in place.
WouldKeep ==
  /\ binary # Planning!NoBinary
  /\ Planning!JudgeExistingBinary(binary, provenance, policy.floor, Planning!CollectHardware(machine))
       = "reuse"

PlannerTypes ==
  /\ pc \in {"idle", "planned", "applied"} /\ quiet \in BOOLEAN
  /\ machine \in Planning!Machine /\ policy \in Policies
  /\ vouched \subseteq Planning!Ids
  /\ proposal.steps \in Seq(AboutRuntime \cup AboutModels)
  /\ at \in 0..Len(proposal.steps)
  /\ pc # "planned" => proposal = Planning!Nothing

RuntimeManifest ==
  [build : Nat, commit : Nat, backend : Planning!GpuBackends \cup {"cpu", "none"}, sum : Nat]

\* A manifest whose hash is that of the bytes in place speaks of that binary.
ManifestInv ==
  /\ binary.bytes \in Nat /\ provenance \in RuntimeManifest
  /\ provenance # Planning!NoManifest =>
       /\ binary.bytes > 0 /\ provenance.sum # 1
       /\ provenance.sum = binary.bytes => provenance.backend = binary.backend

\* The runtime is installed by the first step of a plan, or by none.
StepsInv ==
  /\ \A k \in DOMAIN proposal.steps : proposal.steps[k].action = "install_runtime" => k = 1
  /\ pc = "planned" /\ ~proposal.failing =>
       /\ proposal.resolution.resolved
       /\ IF proposal.resolution.reuse
          THEN \A k \in DOMAIN proposal.steps : proposal.steps[k].action # "install_runtime"
          ELSE proposal.steps # << >> /\ proposal.steps[1].action = "install_runtime"
  /\ proposal.failing => proposal.steps = << >>

\* What a plan decided of the runtime still holds of the host.
DecisionInv ==
  LET r == proposal.resolution
  IN  pc = "planned" =>
        /\ r.reuse \in BOOLEAN /\ (r.reuse => r.resolved)
        /\ r.resolved /\ ~r.reuse => ForThisHost(r.variant.backend)
        /\ r.variant.backend = "cpu" /\ Planning!OnGpuHost => policy.cpu /\ r.degraded
        /\ r.reuse \/ (~proposal.failing /\ at > 0) => WouldKeep

\* After a plan was applied in full, until something changes.
QuietInv ==
  /\ quiet => WouldKeep
  /\ quiet /\ pc = "planned" => proposal.resolution.reuse
  /\ pc = "applied" => quiet

PlannerInv == PlannerTypes /\ ManifestInv /\ StepsInv /\ DecisionInv /\ QuietInv

(* Numbers and sequences, by a smallest counterexample.                    *)

LEMMA SmallestOf ==
  ASSUME NEW S \in SUBSET Nat, S # {}
  PROVE  \E m \in S : \A i \in S : m <= i
  <1> DEFINE Below == {p \in Nat \X Nat : p[1] < p[2]}
  <1>1. IsWellFoundedOn(Below, Nat)
    BY NatLessThanWellFounded, Zenon DEF OpToRel
  <1>2. PICK m \in S : \A i \in S : <<i, m>> \notin Below
    <2> HIDE DEF Below
    <2> QED
      BY <1>1, WFMin
  <1>3. ASSUME NEW i \in S PROVE m <= i
    <2>1. m \in Nat /\ i \in Nat
      OBVIOUS
    <2>2. i < m => <<i, m>> \in Below
      BY <2>1
    <2> HIDE DEF Below
    <2> QED
      BY <1>2, <2>1, <2>2
  <1> QED
    BY <1>3

\* A predicate on numbers, given as the set of those where it fails.
LEMMA Counting ==
  ASSUME NEW n \in Nat, NEW S \in SUBSET Nat, 0 \in S,
         \A k \in Nat : k < n /\ k \in S => k + 1 \in S
  PROVE  n \in S
  <1> SUFFICES ASSUME n \notin S PROVE FALSE
    OBVIOUS
  <1> DEFINE F == {k \in 0..n : k \notin S}
  <1>1. F \in SUBSET Nat /\ n \in F
    OBVIOUS
  <1>2. PICK m \in F : \A i \in F : m <= i
    <2> HIDE DEF F
    <2> QED
      BY <1>1, SmallestOf
  <1>3. m \in 1..n /\ m - 1 \in Nat
    BY <1>2
  <1>4. m - 1 \in S
    BY <1>2, <1>3
  <1>5. (m - 1) + 1 \in S
    BY <1>3, <1>4
  <1> QED
    BY <1>2, <1>3, <1>5

\* What a chain of sequences is flattened to.
LEMMA FlattenedSteps ==
  ASSUME NEW S, NEW f \in Seq(Seq(S))
  PROVE  Planning!FlattenSeq(f) \in Seq(S)
  <1> DEFINE n == Len(f)
             Def(g) == [i \in 1..n |-> IF i = 1 THEN f[i] ELSE g[i - 1] \o f[i]]
  <1>1. CASE n = 0
    <2>1. f = << >>
      BY <1>1
    <2> QED
      BY <1>1, <2>1 DEF Planning!FlattenSeq
  <1>2. CASE n # 0
    <2>1. n \in Nat /\ n >= 1 /\ \A i \in 1..n : f[i] \in Seq(S)
      BY <1>2
    <2> DEFINE Value(g, i) == IF i = 1 THEN f[i] ELSE g[i - 1] \o f[i]
               Chain(g, k) == g \in [1..k -> Seq(S)] /\ \A i \in 1..k : g[i] = Value(g, i)
               T == {k \in Nat : k <= n => \E g : Chain(g, k)}
    <2>2. 0 \in T
      <3>1. Chain([i \in 1..0 |-> << >>], 0)
        OBVIOUS
      <3> HIDE DEF Chain
      <3> QED
        BY <3>1
    <2>3. ASSUME NEW k \in Nat, k < n, k \in T PROVE k + 1 \in T
      <3>1. PICK g : Chain(g, k)
        <4> HIDE DEF Chain
        <4> QED
          BY <2>3, <2>1
      <3> DEFINE last == IF k = 0 THEN f[1] ELSE g[k] \o f[k + 1]
                 h == [i \in 1..(k + 1) |-> IF i = k + 1 THEN last ELSE g[i]]
      <3>2. last \in Seq(S)
        <4>1. CASE k = 0
          BY <2>1, <4>1
        <4>2. CASE k # 0
          <5>1. g[k] \in Seq(S) /\ f[k + 1] \in Seq(S)
            BY <2>1, <2>3, <3>1, <4>2
          <5> QED
            BY <4>2, <5>1
        <4> QED
          BY <4>1, <4>2
      <3>3. h \in [1..(k + 1) -> Seq(S)]
        <4> HIDE DEF last
        <4> QED
          BY <3>1, <3>2
      <3>4. ASSUME NEW i \in 1..(k + 1) PROVE h[i] = Value(h, i)
        <4>1. CASE i = k + 1
          <5>1. h[i] = last
            BY <4>1
          <5>2. k # 0 => h[k] = g[k]
            BY <2>3
          <5> HIDE DEF h
          <5> QED
            BY <4>1, <5>1, <5>2, <2>3
        <4>2. CASE i # k + 1
          <5>1. i \in 1..k /\ h[i] = g[i] /\ (i # 1 => h[i - 1] = g[i - 1])
            BY <4>2, <2>3
          <5>2. g[i] = Value(g, i)
            BY <3>1, <5>1
          <5> HIDE DEF h
          <5> QED
            BY <5>1, <5>2
        <4> QED
          BY <4>1, <4>2
      <3>5. Chain(h, k + 1)
        <4> HIDE DEF h, Value
        <4> QED
          BY <3>3, <3>4
      <3> HIDE DEF Chain, h
      <3> QED
        BY <3>5, <2>3
    <2>4. n \in T
      <3>1. \A k \in Nat : k < n /\ k \in T => k + 1 \in T
        BY <2>3
      <3>2. T \in SUBSET Nat
        OBVIOUS
      <3> HIDE DEF T
      <3> QED
        BY <2>1, <2>2, <3>1, <3>2, Counting
    <2>5. PICK g : Chain(g, n)
      <3> HIDE DEF Chain
      <3> QED
        BY <2>1, <2>4
    <2>6. g = Def(g)
      BY <2>5
    <2> DEFINE flat == CHOOSE h : h = Def(h)
    <2>7. flat = Def(flat)
      <3> HIDE DEF Def
      <3> QED
        BY <2>6
    <2>8. Planning!FlattenSeq(f) = flat[n]
      BY <1>2, Zenon DEF Planning!FlattenSeq
    <2> HIDE DEF flat
    <2>9. \A i \in 1..n : flat[i] = Value(flat, i)
      BY <2>7
    <2> DEFINE U == {k \in Nat : k \in 1..n => flat[k] \in Seq(S)}
    <2>10. 0 \in U
      OBVIOUS
    <2>11. ASSUME NEW k \in Nat, k < n, k \in U PROVE k + 1 \in U
      <3>1. k + 1 \in 1..n /\ f[k + 1] \in Seq(S)
        BY <2>1, <2>11
      <3>2. flat[k + 1] = Value(flat, k + 1)
        BY <2>9, <3>1
      <3>3. CASE k = 0
        BY <3>1, <3>2, <3>3
      <3>4. CASE k # 0
        <4>1. flat[k] \in Seq(S)
          BY <2>1, <2>11, <3>4
        <4>2. k + 1 # 1 /\ (k + 1) - 1 = k
          BY <2>11, <3>4
        <4>3. flat[k + 1] = flat[k] \o f[k + 1]
          BY <3>2, <4>2
        <4>4. flat[k + 1] \in Seq(S)
          BY <3>1, <4>1, <4>3
        <4> QED
          BY <2>11, <4>4
      <3> QED
        BY <3>3, <3>4
    <2>12. n \in U
      <3>1. \A k \in Nat : k < n /\ k \in U => k + 1 \in U
        BY <2>11
      <3>2. U \in SUBSET Nat
        OBVIOUS
      <3> HIDE DEF U
      <3> QED
        BY <2>1, <2>10, <3>1, <3>2, Counting
    <2> QED
      BY <2>1, <2>8, <2>12
  <1> QED
    BY <1>1, <1>2

\* Finitely many things with two numbers each can be put in their order.
LEMMA SortedSequence ==
  ASSUME NEW S, IsFiniteSet(S), NEW rank \in [S -> Nat], NEW size \in [S -> Nat]
  PROVE  \E s \in Planning!SetToSeqs(S) : \A j, k \in DOMAIN s :
           j < k => ~(rank[s[k]] < rank[s[j]]
                       \/ (rank[s[k]] = rank[s[j]] /\ size[s[k]] < size[s[j]]))
  <1> DEFINE Before(e, f) == rank[e] < rank[f] \/ (rank[e] = rank[f] /\ size[e] < size[f])
             Order(T, n, s) ==
               /\ s \in [1..n -> T]
               /\ \A j, k \in 1..n : j # k => s[j] # s[k]
               /\ \A j, k \in 1..n : j < k => ~Before(s[k], s[j])
             N == {n \in Nat : \A T \in SUBSET S :
                                 IsFiniteSet(T) /\ Cardinality(T) = n => \E s : Order(T, n, s)}
  <1>1. 0 \in N
    <2>1. ASSUME NEW T \in SUBSET S PROVE Order(T, 0, [i \in 1..0 |-> << >>])
      OBVIOUS
    <2> HIDE DEF Order
    <2> QED
      BY <2>1
  <1>2. ASSUME NEW n \in Nat, n \in N PROVE n + 1 \in N
    <2>1. ASSUME NEW T \in SUBSET S, IsFiniteSet(T), Cardinality(T) = n + 1
          PROVE  \E s : Order(T, n + 1, s)
      <3>1. T # {}
        BY <2>1, FS_EmptySet
      <3>2. PICK least \in T : \A e \in T : ~Before(e, least)
        <4> DEFINE R == {rank[e] : e \in T}
        <4>1. R \in SUBSET Nat /\ R # {}
          BY <3>1
        <4>2. PICK r \in R : \A i \in R : r <= i
          <5> HIDE DEF R
          <5> QED
            BY <4>1, SmallestOf
        <4> DEFINE Z == {size[e] : e \in {d \in T : rank[d] = r}}
        <4>3. Z \in SUBSET Nat /\ Z # {}
          BY <4>2
        <4>4. PICK z \in Z : \A i \in Z : z <= i
          <5> HIDE DEF Z
          <5> QED
            BY <4>3, SmallestOf
        <4>5. PICK e \in T : rank[e] = r /\ size[e] = z
          BY <4>4
        <4>6. \A d \in T : rank[d] \in Nat /\ size[d] \in Nat /\ r <= rank[d]
                            /\ (rank[d] = r => z <= size[d])
          BY <4>2, <4>4
        <4>7. r \in Nat /\ z \in Nat
          BY <4>5
        <4> HIDE DEF R, Z
        <4> QED
          BY <4>5, <4>6, <4>7
      <3>3. IsFiniteSet(T \ {least}) /\ Cardinality(T \ {least}) = n
        <4>1. IsFiniteSet(T \ {least}) /\ Cardinality(T \ {least}) = (n + 1) - 1
          BY <2>1, <3>2, FS_RemoveElement
        <4> QED
          BY <1>2, <4>1
      <3>4. PICK t : Order(T \ {least}, n, t)
        <4> HIDE DEF Order
        <4> QED
          BY <1>2, <3>3
      <3> DEFINE s == [i \in 1..(n + 1) |-> IF i = 1 THEN least ELSE t[i - 1]]
      <3>5. \A i \in 1..(n + 1) : i # 1 => i - 1 \in 1..n /\ s[i] = t[i - 1] /\ s[i] \in T \ {least}
        BY <1>2, <3>4
      <3>6. s[1] = least /\ DOMAIN s = 1..(n + 1)
        BY <1>2
      <3>7. s \in [1..(n + 1) -> T]
        BY <3>2, <3>5
      <3> HIDE DEF s, Before
      <3>8. ASSUME NEW j \in 1..(n + 1), NEW k \in 1..(n + 1), j # k PROVE s[j] # s[k]
        <4>1. CASE j = 1 \/ k = 1
          BY <3>5, <3>6, <3>8, <4>1
        <4>2. CASE j # 1 /\ k # 1
          <5>1. j - 1 # k - 1
            BY <3>8
          <5> QED
            BY <3>4, <3>5, <4>2, <5>1
        <4> QED
          BY <4>1, <4>2
      <3>9. ASSUME NEW j \in 1..(n + 1), NEW k \in 1..(n + 1), j < k PROVE ~Before(s[k], s[j])
        <4>1. k # 1 /\ s[k] \in T
          BY <3>5, <3>9
        <4>2. CASE j = 1
          BY <3>2, <3>6, <4>1, <4>2
        <4>3. CASE j # 1
          <5>1. j - 1 < k - 1
            BY <3>9
          <5> QED
            BY <3>4, <3>5, <4>1, <4>3, <5>1
        <4> QED
          BY <4>2, <4>3
      <3>10. Order(T, n + 1, s)
        BY <3>7, <3>8, <3>9
      <3> QED
        BY <3>10
    <2> HIDE DEF Order
    <2> QED
      BY <1>2, <2>1
  <1>3. Cardinality(S) \in Nat
    BY FS_CardinalityType
  <1>4. Cardinality(S) \in N
    <2>1. \A n \in Nat : n < Cardinality(S) /\ n \in N => n + 1 \in N
      BY <1>2
    <2>2. N \in SUBSET Nat
      OBVIOUS
    <2> HIDE DEF N
    <2> QED
      BY <1>1, <1>3, <2>1, <2>2, Counting
  <1>5. PICK s : Order(S, Cardinality(S), s)
    <2> HIDE DEF Order
    <2> QED
      BY <1>4
  <1>6. Planning!Cardinality(S) = Cardinality(S)
    BY DEF Planning!Cardinality, Cardinality
  <1>7. s \in Planning!SetToSeqs(S)
    BY <1>5, <1>6 DEF Planning!SetToSeqs
  <1> QED
    BY <1>5, <1>7

(* The host and the runtime chosen for it.                                 *)

LEMMA PositionIn ==
  ASSUME NEW s, NEW x \in Planning!Range(s)
  PROVE  Planning!Position(x, s) \in DOMAIN s /\ s[Planning!Position(x, s)] = x
  <1>1. \E k : k \in DOMAIN s /\ s[k] = x
    BY DEF Planning!Range
  <1> QED
    BY <1>1 DEF Planning!Position

LEMMA CandidateList ==
  ASSUME NEW h
  PROVE  /\ Planning!BackendCandidates(h) \in Seq({"cuda12", "cuda13", "vulkan", "cpu"})
         /\ Planning!Range(Planning!BackendCandidates(h)) \subseteq {"cuda12", "cuda13", "vulkan", "cpu"}
  <1> DEFINE B == {"cuda12", "cuda13", "vulkan", "cpu"}
  <1>1. \A v : Planning!CudaBackends(v) \in Seq(B)
    <2> SUFFICES ASSUME NEW v PROVE Planning!CudaBackends(v) \in Seq(B)
      OBVIOUS
    <2>1. << >> \in Seq(B) /\ <<"cuda13", "cuda12">> \in Seq(B) /\ <<"cuda12">> \in Seq(B)
      OBVIOUS
    <2> HIDE DEF B
    <2> QED
      BY <2>1, Zenon DEF Planning!CudaBackends
  <1>2. \A a, b, c \in Seq(B) : (a \o b) \o c \in Seq(B)
    OBVIOUS
  <1>3. << >> \in Seq(B) /\ <<"vulkan">> \in Seq(B) /\ <<"cpu">> \in Seq(B)
    OBVIOUS
  <1>4. Planning!BackendCandidates(h) \in Seq(B)
    <2> HIDE DEF B
    <2> QED
      BY <1>1, <1>2, <1>3 DEF Planning!BackendCandidates
  <1>5. \A s \in Seq(B) : Planning!Range(s) \subseteq B
    <2> HIDE DEF B
    <2> QED
      BY DEF Planning!Range
  <1> QED
    BY <1>4, <1>5

\* The two that read the list of candidates of the profile and nothing else.
LEMMA ProfileOf ==
  ASSUME NEW h
  PROVE  LET profile == Planning!CollectHardware(h)
         IN  /\ profile.candidates = Planning!BackendCandidates(h)
             /\ Planning!GpuTargets(profile) \subseteq Planning!Range(Planning!BackendCandidates(h))
             /\ Planning!GpuTargets(profile) \subseteq Planning!GpuBackends
             /\ "cpu" \notin Planning!GpuTargets(profile)
  <1>1. Planning!CollectHardware(h).candidates = Planning!BackendCandidates(h)
    BY DEF Planning!CollectHardware
  <1>2. "cpu" \notin Planning!GpuBackends
    BY DEF Planning!GpuBackends
  <1> QED
    BY <1>1, <1>2, Zenon DEF Planning!GpuTargets

\* The first variant in the order of the sources and of the candidates exists.
LEMMA FirstMatchIsEligible ==
  ASSUME NEW p \in Policies, NEW candidates \in Seq({"cuda12", "cuda13", "vulkan", "cpu"}),
         NEW backends \in SUBSET Planning!Range(candidates)
  PROVE  \/ Planning!FirstMatch(backends, candidates, p) = Planning!NoVariant
         \/ Planning!FirstMatch(backends, candidates, p).backend \in backends
  <1> DEFINE matches == {v \in p.variants : v.backend \in backends /\ Planning!Eligible(v, p)}
             s(v) == Planning!Position(v.source, Planning!SourceOrder)
             b(v) == Planning!Position(v.backend, candidates)
             Before(v, w) == s(v) < s(w) \/ (s(v) = s(w) /\ b(v) <= b(w))
  <1>1. ASSUME NEW v \in matches PROVE s(v) \in Nat /\ b(v) \in Nat
    <2>1. v.source \in Planning!Range(Planning!SourceOrder) /\ v.backend \in Planning!Range(candidates)
      BY <1>1, PlannerAssumption DEF PlannerAssumption, Planning!ResolverPolicy, Planning!ArtifactVariant
    <2>2. DOMAIN Planning!SourceOrder = 1..4 /\ DOMAIN candidates = 1..Len(candidates)
          /\ Len(candidates) \in Nat
      BY DEF Planning!SourceOrder
    <2>3. s(v) \in DOMAIN Planning!SourceOrder /\ b(v) \in DOMAIN candidates
      BY <2>1, PositionIn
    <2> QED
      BY <2>2, <2>3
  <1>2. CASE matches = {}
    BY <1>2 DEF Planning!FirstMatch
  <1>3. CASE matches # {}
    <2> DEFINE R == {s(v) : v \in matches}
    <2>1. R \in SUBSET Nat /\ R # {}
      BY <1>1, <1>3
    <2>2. PICK r \in R : \A i \in R : r <= i
      <3> HIDE DEF R
      <3> QED
        BY <2>1, SmallestOf
    <2> DEFINE Z == {b(v) : v \in {w \in matches : s(w) = r}}
    <2>3. Z \in SUBSET Nat /\ Z # {}
      BY <1>1, <2>2
    <2>4. PICK z \in Z : \A i \in Z : z <= i
      <3> HIDE DEF Z
      <3> QED
        BY <2>3, SmallestOf
    <2>5. PICK v \in matches : s(v) = r /\ b(v) = z
      BY <2>4
    <2>6. \A w \in matches : r <= s(w) /\ (s(w) = r => z <= b(w))
      BY <2>2, <2>4
    <2>7. \A w \in matches : Before(v, w)
      <3>1. r \in Nat /\ z \in Nat /\ \A w \in matches : s(w) \in Nat /\ b(w) \in Nat
        BY <1>1, <2>5
      <3> HIDE DEF matches, s, b, R, Z
      <3> QED
        BY <2>5, <2>6, <3>1
    <2> DEFINE first == CHOOSE u \in matches : \A w \in matches : Before(u, w)
    <2>8. first \in matches
      <3> HIDE DEF matches, Before
      <3> QED
        BY <2>7
    <2>9. Planning!FirstMatch(backends, candidates, p) = first
      BY <1>3, Zenon DEF Planning!FirstMatch
    <2> HIDE DEF first
    <2> QED
      BY <2>8, <2>9
  <1> QED
    BY <1>2, <1>3

\* The variant chosen for a host can run there; a CPU one, where there is a GPU,
\* was consented to.
LEMMA SelectionIsForTheHost ==
  ASSUME NEW h, NEW p \in Policies
  PROVE  LET profile == Planning!CollectHardware(h)
             chosen == Planning!SelectVariant(profile, p)
         IN  /\ chosen.variant # Planning!NoVariant =>
                  chosen.variant.backend \in Planning!Range(Planning!BackendCandidates(h))
             /\ chosen.variant.backend = "cpu" /\ Planning!GpuTargets(profile) # {} =>
                  p.cpu /\ chosen.degraded
  <1> DEFINE profile == Planning!CollectHardware(h)
             targets == Planning!GpuTargets(profile)
             order == Planning!BackendCandidates(h)
             cpu == {"cpu"} \cap Planning!Range(order)
             onGpu == Planning!FirstMatch(targets, order, p)
             onCpu == Planning!FirstMatch(cpu, order, p)
             chosen == Planning!SelectVariant(profile, p)
  <1>1. /\ profile.candidates = order /\ order \in Seq({"cuda12", "cuda13", "vulkan", "cpu"})
        /\ targets \subseteq Planning!Range(order) /\ "cpu" \notin targets
    BY ProfileOf, CandidateList
  <1>2. onGpu = Planning!NoVariant \/ onGpu.backend \in targets
    BY <1>1, FirstMatchIsEligible
  <1>3. onCpu = Planning!NoVariant \/ onCpu.backend \in cpu
    BY <1>1, FirstMatchIsEligible
  <1>4. Planning!NoVariant.backend = "none"
    BY DEF Planning!NoVariant
  <1>5. chosen = IF onGpu # Planning!NoVariant THEN [variant |-> onGpu, degraded |-> FALSE]
                 ELSE IF targets = {} THEN [variant |-> onCpu, degraded |-> FALSE]
                 ELSE IF p.cpu THEN [variant |-> onCpu, degraded |-> onCpu # Planning!NoVariant]
                 ELSE [variant |-> Planning!NoVariant, degraded |-> FALSE]
    BY <1>1, Zenon DEF Planning!SelectVariant
  <1> HIDE DEF profile, targets, order, onGpu, onCpu, chosen
  <1>6. chosen.variant \in {onGpu, onCpu, Planning!NoVariant}
    BY <1>5
  <1>7. chosen.variant # Planning!NoVariant => chosen.variant.backend \in Planning!Range(order)
    BY <1>1, <1>2, <1>3, <1>6
  <1>8. ASSUME chosen.variant.backend = "cpu", targets # {}
        PROVE  p.cpu /\ chosen.degraded
    <2>1. onGpu = Planning!NoVariant
      BY <1>1, <1>2, <1>4, <1>5, <1>8
    <2>2. p.cpu
      BY <1>4, <1>5, <1>8, <2>1
    <2>3. chosen = [variant |-> onCpu, degraded |-> onCpu # Planning!NoVariant]
      BY <1>5, <1>8, <2>1, <2>2
    <2>4. onCpu # Planning!NoVariant
      BY <1>4, <1>8, <2>3
    <2>5. chosen.degraded = (onCpu # Planning!NoVariant)
      BY <2>3, Zenon
    <2> QED
      BY <2>2, <2>4, <2>5, Zenon
  <1> QED
    BY <1>7, <1>8, Zenon DEF profile, targets, order, chosen

(* The steps of a plan.                                                    *)

LEMMA StepsOfAModel ==
  ASSUME NEW entry \in Catalog, NEW w, NEW v
  PROVE  Planning!ModelSteps(entry, w, v) \in Seq(AboutModels)
  <1> DEFINE id == entry.id
             six == <<"verify_artifact", "write_registry", "calibrate_model", "enable_model",
                      "smoke_test", "warmup_model">>
             license == IF entry.consent THEN <<[action |-> "accept_license", target |-> "license"]>>
                        ELSE << >>
             fetch == IF Planning!Attested(id, w, v) THEN << >>
                      ELSE <<[action |-> "download_model", target |-> id]>>
             rest == Planning!Anchored(six, id)
  <1>1. id \in Planning!Ids
    BY DEF Planning!Ids
  <1>2. license \in Seq(AboutModels)
    <2>1. [action |-> "accept_license", target |-> "license"] \in AboutModels
      BY DEF AboutModels
    <2> QED
      BY <2>1
  <1>3. fetch \in Seq(AboutModels)
    <2>1. [action |-> "download_model", target |-> id] \in AboutModels
      BY <1>1 DEF AboutModels, ModelActions
    <2> QED
      BY <2>1
  <1>4. rest \in Seq(AboutModels)
    <2>1. rest = [k \in 1..6 |-> [action |-> six[k], target |-> id]]
      BY DEF Planning!Anchored
    <2>2. \A k \in 1..6 : six[k] \in ModelActions
      BY DEF ModelActions
    <2>3. \A k \in 1..6 : [action |-> six[k], target |-> id] \in AboutModels
      BY <1>1, <2>2 DEF AboutModels
    <2> HIDE DEF six
    <2> QED
      BY <2>1, <2>3
  <1>5. Planning!ModelSteps(entry, w, v) = license \o fetch \o rest
    BY DEF Planning!ModelSteps
  <1> HIDE DEF license, fetch, rest
  <1> QED
    BY <1>2, <1>3, <1>4, <1>5

LEMMA ChosenModels ==
  ASSUME NEW selected, NEW profile, NEW advice \in Seq({Advised[k] : k \in DOMAIN Advised})
  PROVE  Planning!SelectModels(selected, profile, advice) \in Seq(Catalog)
  <1> DEFINE fitting == {e \in Catalog : e.id \in selected /\ Planning!Plannable(e) /\ Planning!Fits(e, profile)}
             Rank(e) == IF e.id \in Planning!Range(advice) THEN Planning!Position(e.id, advice)
                        ELSE Len(advice) + 1
             rank == [e \in fitting |-> Rank(e)]
             size == [e \in fitting |-> e.vram]
             Before(e, f) == Rank(e) < Rank(f) \/ (Rank(e) = Rank(f) /\ e.vram < f.vram)
             Sorted(s) == \A j, k \in DOMAIN s : j < k => ~Before(s[k], s[j])
             ordered == Planning!OrderByAdvice(fitting, advice)
  <1>1. IsFiniteSet(fitting) /\ fitting \subseteq Catalog
    BY PlannerAssumption, FS_Subset DEF PlannerAssumption
  <1>2. Len(advice) \in Nat /\ DOMAIN advice = 1..Len(advice)
    OBVIOUS
  <1>3. \A e \in fitting : Rank(e) \in Nat
    <2> SUFFICES ASSUME NEW e \in fitting PROVE Rank(e) \in Nat
      OBVIOUS
    <2>1. e.id \in Planning!Range(advice) => Planning!Position(e.id, advice) \in Nat
      BY <1>2, PositionIn
    <2> QED
      BY <1>2, <2>1
  <1>4. \A e \in fitting : e.vram \in Nat
    BY <1>1, PlannerAssumption DEF PlannerAssumption, Planning!CatalogEntry
  <1>5. rank \in [fitting -> Nat] /\ size \in [fitting -> Nat]
    BY <1>3, <1>4
  <1>6. PICK s \in Planning!SetToSeqs(fitting) : \A j, k \in DOMAIN s :
           j < k => ~(rank[s[k]] < rank[s[j]]
                       \/ (rank[s[k]] = rank[s[j]] /\ size[s[k]] < size[s[j]]))
    <2> HIDE DEF fitting, rank, size
    <2>1. IsFiniteSet(fitting)
      BY <1>1
    <2>2. ASSUME NEW a \in [fitting -> Nat], NEW b \in [fitting -> Nat]
          PROVE  \E s \in Planning!SetToSeqs(fitting) : \A j, k \in DOMAIN s :
                   j < k => ~(a[s[k]] < a[s[j]] \/ (a[s[k]] = a[s[j]] /\ b[s[k]] < b[s[j]]))
      BY <2>1, SortedSequence
    <2> QED
      BY <1>5, <2>2
  <1>7. Cardinality(fitting) \in Nat /\ Planning!Cardinality(fitting) = Cardinality(fitting)
    BY <1>1, FS_CardinalityType DEF Planning!Cardinality, Cardinality
  <1>8. \A t \in Planning!SetToSeqs(fitting) : t \in [1..Cardinality(fitting) -> fitting]
    <2> HIDE DEF fitting
    <2> QED
      BY <1>7 DEF Planning!SetToSeqs
  <1>9. Sorted(s)
    <2>1. \A k \in DOMAIN s : s[k] \in fitting
      <3> HIDE DEF fitting
      <3> QED
        BY <1>6, <1>8
    <2>2. \A e \in fitting : rank[e] = Rank(e) /\ size[e] = e.vram
      OBVIOUS
    <2> HIDE DEF fitting, rank, size, Rank
    <2> QED
      BY <1>6, <2>1, <2>2
  <1>10. ordered = CHOOSE t \in Planning!SetToSeqs(fitting) : Sorted(t)
    <2> HIDE DEF fitting
    <2> QED
      BY Zenon DEF Planning!OrderByAdvice
  <1>11. ordered \in Planning!SetToSeqs(fitting)
    <2> HIDE DEF fitting, Sorted, ordered
    <2> QED
      BY <1>6, <1>9, <1>10
  <1>12. ordered \in Seq(Catalog) /\ Len(ordered) \in Nat
    <2> HIDE DEF fitting, ordered
    <2>1. ordered \in [1..Cardinality(fitting) -> Catalog]
      BY <1>1, <1>8, <1>11
    <2> QED
      BY <1>7, <2>1
  <1>13. Planning!SelectModels(selected, profile, advice) = Planning!Prefix(ordered, MaxModels)
    BY DEF Planning!SelectModels
  <1> DEFINE m == IF Len(ordered) < MaxModels THEN Len(ordered) ELSE MaxModels
  <1>14. m \in Nat /\ m <= Len(ordered)
    BY <1>12, PlannerAssumption DEF PlannerAssumption
  <1>15. Planning!Prefix(ordered, MaxModels) = SubSeq(ordered, 1, m)
    BY DEF Planning!Prefix
  <1> HIDE DEF ordered, m
  <1> QED
    BY <1>12, <1>13, <1>14, <1>15

LEMMA StepsOfAPlan ==
  ASSUME NEW r, NEW retained \in Seq(Catalog), NEW w, NEW v
  PROVE  LET steps == Planning!AssembleSteps(r, retained, w, v)
         IN  /\ steps \in Seq(AboutRuntime \cup AboutModels)
             /\ \A k \in DOMAIN steps : steps[k].action = "install_runtime" => k = 1
             /\ IF r.resolved /\ ~r.reuse
                THEN steps # << >> /\ steps[1].action = "install_runtime"
                ELSE \A k \in DOMAIN steps : steps[k].action # "install_runtime"
  <1> DEFINE each == [k \in DOMAIN retained |-> Planning!ModelSteps(retained[k], w, v)]
             rest == Planning!FlattenSeq(each)
             first == Planning!InstallSteps(r)
             steps == Planning!AssembleSteps(r, retained, w, v)
  <1>1. each \in Seq(Seq(AboutModels))
    <2>1. DOMAIN retained = 1..Len(retained) /\ Len(retained) \in Nat
          /\ \A k \in DOMAIN retained : retained[k] \in Catalog
      OBVIOUS
    <2>2. \A k \in DOMAIN retained : Planning!ModelSteps(retained[k], w, v) \in Seq(AboutModels)
      BY <2>1, StepsOfAModel
    <2> QED
      BY <2>1, <2>2
  <1>2. rest \in Seq(AboutModels)
    BY <1>1, FlattenedSteps
  <1>3. steps = first \o rest
    BY DEF Planning!AssembleSteps
  <1>4. \A k \in DOMAIN rest : rest[k] \in AboutModels
    <2> HIDE DEF rest
    <2> QED
      BY <1>2
  <1>5. \A e \in AboutModels : e.action # "install_runtime"
    BY DEF AboutModels, ModelActions
  <1>6. CASE r.resolved /\ ~r.reuse
    <2> DEFINE install == [action |-> "install_runtime", target |-> "llama-server"]
    <2>1. first = <<install>> /\ install \in AboutRuntime
      BY <1>6 DEF Planning!InstallSteps, AboutRuntime
    <2> HIDE DEF rest, first, steps, install
    <2>2. steps \in Seq(AboutRuntime \cup AboutModels)
      BY <1>2, <1>3, <2>1
    <2>3. Len(steps) = 1 + Len(rest) /\ steps[1] = install
      BY <1>2, <1>3, <2>1
    <2>4. \A k \in 2..Len(steps) : steps[k] \in AboutModels
      <3> SUFFICES ASSUME NEW k \in 2..Len(steps) PROVE steps[k] \in AboutModels
        OBVIOUS
      <3>1. k - 1 \in DOMAIN rest /\ steps[k] = rest[k - 1]
        BY <1>2, <1>3, <2>1, <2>3
      <3> QED
        BY <1>4, <3>1
    <2>5. install.action = "install_runtime"
      BY DEF install
    <2>6. DOMAIN steps = 1..Len(steps) /\ Len(steps) >= 1
      BY <1>2, <2>2, <2>3
    <2>7. \A k \in DOMAIN steps : steps[k].action = "install_runtime" => k = 1
      BY <1>5, <2>4, <2>6
    <2>8. steps # << >>
      BY <2>6
    <2> QED
      BY <1>6, <2>2, <2>3, <2>5, <2>7, <2>8 DEF steps
  <1>7. CASE ~(r.resolved /\ ~r.reuse)
    <2>1. first = << >>
      BY <1>7 DEF Planning!InstallSteps
    <2> HIDE DEF rest, first, steps
    <2>2. steps = rest
      BY <1>2, <1>3, <2>1
    <2>3. steps \in Seq(AboutRuntime \cup AboutModels)
      BY <1>2, <2>2
    <2>4. \A k \in DOMAIN steps : steps[k].action # "install_runtime"
      BY <1>4, <1>5, <2>2
    <2> QED
      BY <1>7, <2>3, <2>4 DEF steps
  <1> QED
    BY <1>6, <1>7

(* Every action keeps the invariant.                                       *)

LEMMA PlannerStart ==
  ASSUME Planning!Init
  PROVE  PlannerInv
  <1>1. machine \in Planning!Machine /\ policy \in Policies
    BY PlannerAssumption DEF PlannerAssumption, Planning!Init
  <1>2. proposal = Planning!Nothing /\ at = 0 /\ pc = "idle" /\ quiet = FALSE /\ vouched = {}
        /\ binary = Planning!NoBinary /\ provenance = Planning!NoManifest
    BY DEF Planning!Init
  <1>3. Planning!Nothing.steps = << >> /\ Planning!Nothing.failing = TRUE
    BY DEF Planning!Nothing
  <1>4. Planning!NoManifest \in RuntimeManifest /\ Planning!NoBinary.bytes = 0
    BY DEF Planning!NoManifest, Planning!NoBinary, RuntimeManifest
  <1>5. PlannerTypes
    <2>1. << >> \in Seq(AboutRuntime \cup AboutModels) /\ Len(<< >>) = 0
      OBVIOUS
    <2>2. proposal.steps = << >>
      BY <1>2, <1>3
    <2>3. proposal.steps \in Seq(AboutRuntime \cup AboutModels) /\ at \in 0..Len(proposal.steps)
      BY <1>2, <2>1, <2>2
    <2> QED
      BY <1>1, <1>2, <2>3 DEF PlannerTypes
  <1>6. ManifestInv
    BY <1>2, <1>4 DEF ManifestInv
  <1>7. StepsInv
    BY <1>2, <1>3 DEF StepsInv
  <1>8. DecisionInv /\ QuietInv
    BY <1>2 DEF DecisionInv, QuietInv
  <1> QED
    BY <1>5, <1>6, <1>7, <1>8 DEF PlannerInv

\* What is decided of a runtime, and what it means for the host.
LEMMA RuntimeDecision ==
  ASSUME PlannerInv
  PROVE  LET r == Planning!ResolveRuntime(binary, provenance, policy, Planning!CollectHardware(machine))
         IN  /\ r.reuse \in BOOLEAN /\ r.resolved \in BOOLEAN
             /\ r.reuse => r.resolved
             /\ r.reuse <=> WouldKeep
             /\ r.resolved /\ ~r.reuse => ForThisHost(r.variant.backend)
             /\ r.variant.backend = "cpu" /\ Planning!OnGpuHost => policy.cpu /\ r.degraded
  <1> DEFINE profile == Planning!CollectHardware(machine)
             judged == Planning!JudgeExistingBinary(binary, provenance, policy.floor, profile)
             verdict == IF binary = Planning!NoBinary THEN "replace" ELSE judged
             chosen == Planning!SelectVariant(profile, policy)
             r == Planning!ResolveRuntime(binary, provenance, policy, profile)
  <1>1. policy \in Policies
    BY DEF PlannerInv, PlannerTypes
  <1>2. /\ chosen.variant # Planning!NoVariant => ForThisHost(chosen.variant.backend)
        /\ chosen.variant.backend = "cpu" /\ Planning!OnGpuHost => policy.cpu /\ chosen.degraded
    BY <1>1, SelectionIsForTheHost, Zenon DEF ForThisHost, Planning!OnGpuHost
  <1>3. r = IF verdict = "fatal"
              THEN [resolved |-> FALSE, reuse |-> FALSE, degraded |-> FALSE, variant |-> Planning!NoVariant]
            ELSE IF verdict = "reuse"
              THEN [resolved |-> TRUE, reuse |-> TRUE, degraded |-> FALSE, variant |-> Planning!NoVariant]
            ELSE [resolved |-> chosen.variant # Planning!NoVariant, reuse |-> FALSE,
                  degraded |-> chosen.degraded, variant |-> chosen.variant]
    BY Zenon DEF Planning!ResolveRuntime, Planning!Resolution
  <1>4. WouldKeep <=> verdict = "reuse"
    BY DEF WouldKeep
  <1>5. Planning!NoVariant.backend = "none"
    BY DEF Planning!NoVariant
  <1> HIDE DEF verdict, chosen, r
  <1>6. CASE verdict = "fatal"
    <2>1. r.resolved = FALSE /\ r.reuse = FALSE /\ r.variant = Planning!NoVariant
      BY <1>3, <1>6
    <2> QED
      BY <1>4, <1>5, <1>6, <2>1 DEF r, profile
  <1>7. CASE verdict = "reuse"
    <2>1. r.resolved = TRUE /\ r.reuse = TRUE /\ r.variant = Planning!NoVariant
      BY <1>3, <1>7
    <2> QED
      BY <1>4, <1>5, <1>7, <2>1 DEF r, profile
  <1>8. CASE verdict # "fatal" /\ verdict # "reuse"
    <2>1. r = [resolved |-> chosen.variant # Planning!NoVariant, reuse |-> FALSE,
               degraded |-> chosen.degraded, variant |-> chosen.variant]
      BY <1>3, <1>8
    <2>2. r.resolved = (chosen.variant # Planning!NoVariant) /\ r.reuse = FALSE
          /\ r.degraded = chosen.degraded /\ r.variant = chosen.variant
      BY <2>1, Zenon
    <2>3. r.resolved \in BOOLEAN
      BY <2>2, Zenon
    <2>4. r.resolved => ForThisHost(r.variant.backend)
      BY <1>2, <2>2, Zenon
    <2>5. r.variant.backend = "cpu" /\ Planning!OnGpuHost => policy.cpu /\ r.degraded
      BY <1>2, <2>2, Zenon
    <2>6. r.reuse \in BOOLEAN /\ ~r.reuse /\ ~WouldKeep
      BY <1>4, <1>8, <2>2
    <2> QED
      BY <2>3, <2>4, <2>5, <2>6, Zenon DEF r, profile
  <1> QED
    BY <1>6, <1>7, <1>8

LEMMA KeepBuildPlan ==
  ASSUME PlannerInv, Planning!BuildPlan
  PROVE  PlannerInv'
  <1>1. PICK tool \in {"absent", "tampered", "answers"},
             selected \in {{e.id : e \in {f \in Catalog : Planning!Plannable(f)}}, Planning!Ids} :
          proposal' = Planning!PlanFor(machine, binary, provenance, weights, vouched, policy, tool, selected)
    BY DEF Planning!BuildPlan
  <1>2. pc = "idle" /\ at' = 0 /\ pc' = "planned"
        /\ UNCHANGED <<machine, binary, provenance, weights, vouched, policy, quiet>>
    BY DEF Planning!BuildPlan
  <1> DEFINE profile == Planning!CollectHardware(machine)
             r == Planning!ResolveRuntime(binary, provenance, policy, profile)
             advice == Planning!RunLLMfit(tool)
             retained == Planning!SelectModels(selected, profile, advice.candidates)
             steps == Planning!AssembleSteps(r, retained, weights, vouched)
             fails == \/ profile.failing
                      \/ ~r.resolved
                      \/ advice.failing
                      \/ \E e \in Catalog : e.id \in selected /\ ~Planning!Plannable(e)
                      \/ retained = << >>
                      \/ \E k \in DOMAIN retained : weights[retained[k].id] = "divergent"
  <1>3. proposal' = [resolution |-> r, retained |-> retained, failing |-> fails,
                     steps |-> IF fails THEN << >> ELSE steps]
    BY <1>1, Zenon DEF Planning!PlanFor
  <1>4. advice.candidates \in Seq({Advised[k] : k \in DOMAIN Advised})
    <2>1. advice.candidates = IF tool = "answers" THEN Advised ELSE << >>
      BY DEF Planning!RunLLMfit
    <2>2. Advised \in Seq({Advised[k] : k \in DOMAIN Advised})
      BY PlannerAssumption DEF PlannerAssumption
    <2> QED
      BY <2>1, <2>2
  <1>5. retained \in Seq(Catalog)
    BY <1>4, ChosenModels
  <1>6. /\ steps \in Seq(AboutRuntime \cup AboutModels)
        /\ \A k \in DOMAIN steps : steps[k].action = "install_runtime" => k = 1
        /\ IF r.resolved /\ ~r.reuse
           THEN steps # << >> /\ steps[1].action = "install_runtime"
           ELSE \A k \in DOMAIN steps : steps[k].action # "install_runtime"
    <2> HIDE DEF r, retained
    <2> QED
      BY <1>5, StepsOfAPlan
  <1>7. /\ r.reuse \in BOOLEAN /\ r.resolved \in BOOLEAN
        /\ r.reuse => r.resolved
        /\ r.reuse <=> WouldKeep
        /\ r.resolved /\ ~r.reuse => ForThisHost(r.variant.backend)
        /\ r.variant.backend = "cpu" /\ Planning!OnGpuHost => policy.cpu /\ r.degraded
    BY RuntimeDecision
  <1>8. proposal'.resolution = r /\ proposal'.steps = (IF fails THEN << >> ELSE steps)
    BY <1>3, Zenon
  <1>9. proposal'.failing = fails
    BY <1>3, Zenon
  <1>10. ~proposal'.failing => ~fails /\ r.resolved
    BY <1>9, Zenon
  <1>11. /\ proposal'.steps \in {<< >>, steps}
         /\ proposal'.failing => proposal'.steps = << >>
         /\ ~proposal'.failing => proposal'.steps = steps /\ r.resolved
    BY <1>8, <1>9, <1>10, Zenon
  <1>12. /\ (WouldKeep <=> WouldKeep') /\ (Planning!OnGpuHost <=> Planning!OnGpuHost')
         /\ (ForThisHost(r.variant.backend) <=> ForThisHost(r.variant.backend)')
    BY <1>2 DEF WouldKeep, Planning!OnGpuHost, ForThisHost
  <1> HIDE DEF r, steps, fails
  <1>13. << >> \in Seq(AboutRuntime \cup AboutModels) /\ Len(<< >>) = 0
    OBVIOUS
  <1>14. proposal'.steps \in Seq(AboutRuntime \cup AboutModels)
    BY <1>6, <1>11, <1>13
  <1>15. PlannerTypes'
    <2>1. at' \in 0..Len(proposal'.steps)
      BY <1>2, <1>14
    <2> QED
      BY <1>2, <1>14, <2>1 DEF PlannerInv, PlannerTypes
  <1>16. ManifestInv'
    BY <1>2 DEF PlannerInv, ManifestInv
  <1>17. StepsInv'
    <2>1. \A k \in DOMAIN proposal'.steps : proposal'.steps[k].action = "install_runtime" => k = 1
      BY <1>6, <1>11
    <2> QED
      BY <1>6, <1>8, <1>11, <2>1 DEF StepsInv
  <1>18. DecisionInv'
    <2>1. \A b : ForThisHost(b) <=> ForThisHost(b)'
      BY <1>2 DEF ForThisHost
    <2> QED
      BY <1>2, <1>7, <1>8, <1>12, <2>1 DEF DecisionInv
  <1>19. QuietInv'
    BY <1>2, <1>7, <1>8, <1>12 DEF PlannerInv, QuietInv
  <1> QED
    BY <1>15, <1>16, <1>17, <1>18, <1>19 DEF PlannerInv

\* The judgement on the runtime reads neither the disk nor the memory of the host.
LEMMA DiskDoesNotDecide ==
  ASSUME NEW h \in Planning!Machine, NEW d \in Int
  PROVE  LET g == [h EXCEPT !.disk = d]
         IN  /\ g \in Planning!Machine
             /\ Planning!BackendCandidates(g) = Planning!BackendCandidates(h)
             /\ Planning!GpuTargets(Planning!CollectHardware(g))
                  = Planning!GpuTargets(Planning!CollectHardware(h))
             /\ Planning!CollectHardware(g).candidates = Planning!CollectHardware(h).candidates
  <1> DEFINE g == [h EXCEPT !.disk = d]
  <1>1. /\ g \in Planning!Machine /\ g.probe = h.probe /\ g.gpus = h.gpus
        /\ g.declared = h.declared /\ g.shown = h.shown
    BY DEF Planning!Machine
  <1> HIDE DEF g
  <1>2. Planning!VisibleGpus(g) = Planning!VisibleGpus(h)
    BY <1>1 DEF Planning!VisibleGpus
  <1>3. Planning!BackendCandidates(g) = Planning!BackendCandidates(h)
    BY <1>1, <1>2, Zenon DEF Planning!BackendCandidates
  <1>4. Planning!ProbedGpus(g) = Planning!ProbedGpus(h)
    BY <1>1 DEF Planning!ProbedGpus
  <1>5. /\ Planning!CollectHardware(g).candidates = Planning!BackendCandidates(g)
        /\ Planning!CollectHardware(h).candidates = Planning!BackendCandidates(h)
    BY ProfileOf
  <1>6. Planning!CollectHardware(g).gpus = Planning!CollectHardware(h).gpus
    <2>1. /\ Planning!CollectHardware(g).gpus = Planning!Cardinality(Planning!ProbedGpus(g))
          /\ Planning!CollectHardware(h).gpus = Planning!Cardinality(Planning!ProbedGpus(h))
      BY DEF Planning!CollectHardware
    <2> QED
      BY <1>4, <2>1
  <1>7. Planning!GpuTargets(Planning!CollectHardware(g)) = Planning!GpuTargets(Planning!CollectHardware(h))
    BY <1>3, <1>5, <1>6, Zenon DEF Planning!GpuTargets
  <1> QED
    BY <1>1, <1>3, <1>5, <1>7 DEF g

\* A step of a plan or a change of plan that leaves the runtime and the cards alone.
LEMMA SameRuntime ==
  ASSUME PlannerInv, UNCHANGED <<binary, provenance, policy>>,
         Planning!BackendCandidates(machine) = Planning!BackendCandidates(machine)',
         Planning!GpuTargets(Planning!CollectHardware(machine))
           = Planning!GpuTargets(Planning!CollectHardware(machine))'
  PROVE  /\ WouldKeep <=> WouldKeep'
         /\ Planning!OnGpuHost <=> Planning!OnGpuHost'
         /\ \A b : ForThisHost(b) <=> ForThisHost(b)'
         /\ ManifestInv'
  <1>1. /\ Planning!CollectHardware(machine).candidates = Planning!BackendCandidates(machine)
        /\ Planning!CollectHardware(machine').candidates = Planning!BackendCandidates(machine')
    BY ProfileOf
  <1>2. Planning!CollectHardware(machine)' = Planning!CollectHardware(machine')
        /\ Planning!BackendCandidates(machine)' = Planning!BackendCandidates(machine')
    OBVIOUS
  <1> DEFINE h == Planning!CollectHardware(machine)
             g == Planning!CollectHardware(machine')
  <1>3. h.candidates = g.candidates /\ Planning!GpuTargets(h) = Planning!GpuTargets(g)
    BY <1>1, <1>2
  <1>4. Planning!JudgeManifest(binary, provenance, h) <=> Planning!JudgeManifest(binary, provenance, g)
    BY <1>3 DEF Planning!JudgeManifest
  <1>5. Planning!JudgeExistingBinary(binary, provenance, policy.floor, h)
          = Planning!JudgeExistingBinary(binary, provenance, policy.floor, g)
    <2> HIDE DEF h, g
    <2> QED
      BY <1>4 DEF Planning!JudgeExistingBinary
  <1>6. WouldKeep <=> WouldKeep'
    BY <1>5 DEF WouldKeep
  <1>7. Planning!OnGpuHost <=> Planning!OnGpuHost'
    BY <1>3 DEF Planning!OnGpuHost
  <1>8. \A b : ForThisHost(b) <=> ForThisHost(b)'
    BY DEF ForThisHost
  <1>9. ManifestInv'
    BY DEF PlannerInv, ManifestInv
  <1> QED
    BY <1>6, <1>7, <1>8, <1>9

\* A binary that is kept was checked, and so was the manifest beside it.
LEMMA WouldKeepMeans ==
  ASSUME PlannerInv, WouldKeep
  PROVE  /\ binary.build >= policy.floor /\ binary.build > Planning!ShallowCloneMaxBuild
         /\ IF provenance = Planning!NoManifest THEN ~Planning!OnGpuHost
            ELSE binary.backend = provenance.backend /\ ForThisHost(binary.backend)
  <1> DEFINE profile == Planning!CollectHardware(machine)
  <1>1. profile.candidates = Planning!BackendCandidates(machine)
    BY ProfileOf
  <1>2. /\ binary.build >= policy.floor /\ binary.build > Planning!ShallowCloneMaxBuild
        /\ Planning!JudgeManifest(binary, provenance, profile)
    <2> HIDE DEF profile
    <2> QED
      BY DEF WouldKeep, profile, Planning!JudgeExistingBinary
  <1>3. IF provenance = Planning!NoManifest THEN Planning!GpuTargets(profile) = {}
        ELSE provenance.backend \in Planning!Range(profile.candidates) /\ provenance.sum = binary.bytes
    <2> HIDE DEF profile
    <2> QED
      BY <1>2 DEF Planning!JudgeManifest
  <1> QED
    BY <1>1, <1>2, <1>3 DEF Planning!OnGpuHost, ForThisHost, PlannerInv, ManifestInv

\* The step that is done now.
LEMMA StepAhead ==
  ASSUME PlannerInv, Planning!Ahead
  PROVE  /\ pc = "planned" /\ ~proposal.failing /\ at + 1 \in DOMAIN proposal.steps
         /\ at + 1 \in 0..Len(proposal.steps)
         /\ proposal.steps[at + 1] \in AboutRuntime \cup AboutModels
  <1>1. at \in 0..Len(proposal.steps) /\ proposal.steps \in Seq(AboutRuntime \cup AboutModels)
        /\ at < Len(proposal.steps) /\ pc = "planned" /\ ~proposal.failing
    BY DEF PlannerInv, PlannerTypes, Planning!Ahead
  <1> DEFINE s == proposal.steps
  <1> HIDE DEF s
  <1>2. s \in Seq(AboutRuntime \cup AboutModels) /\ at \in 0..Len(s) /\ at < Len(s)
    BY <1>1 DEF s
  <1>3. at + 1 \in 1..Len(s) /\ DOMAIN s = 1..Len(s) /\ Len(s) \in Nat
    BY <1>2
  <1>4. s[at + 1] \in AboutRuntime \cup AboutModels
    BY <1>2, <1>3
  <1> QED
    BY <1>1, <1>3, <1>4 DEF s

\* One more step of the plan is done, and it is not the installation of a runtime.
LEMMA KeepStep ==
  ASSUME PlannerInv, Planning!Ahead, proposal.steps[at + 1].action # "install_runtime",
         at' = at + 1, UNCHANGED <<binary, provenance, policy, proposal, pc, quiet>>,
         machine' \in Planning!Machine, vouched' \subseteq Planning!Ids,
         Planning!BackendCandidates(machine) = Planning!BackendCandidates(machine)',
         Planning!GpuTargets(Planning!CollectHardware(machine))
           = Planning!GpuTargets(Planning!CollectHardware(machine))'
  PROVE  PlannerInv'
  <1>1. /\ WouldKeep <=> WouldKeep'
        /\ Planning!OnGpuHost <=> Planning!OnGpuHost'
        /\ \A b : ForThisHost(b) <=> ForThisHost(b)'
        /\ ManifestInv'
    BY SameRuntime
  <1>2. /\ pc = "planned" /\ ~proposal.failing /\ at + 1 \in 0..Len(proposal.steps)
    BY StepAhead
  <1>3. PlannerTypes'
    BY <1>2 DEF PlannerInv, PlannerTypes
  <1>4. StepsInv'
    BY DEF PlannerInv, StepsInv
  <1>5. proposal.resolution.reuse \/ at # 0
    BY <1>2 DEF PlannerInv, StepsInv
  <1>6. WouldKeep
    <2>1. CASE proposal.resolution.reuse
      BY <1>2, <2>1 DEF PlannerInv, DecisionInv
    <2>2. CASE at # 0
      <3>1. at > 0
        BY <2>2 DEF PlannerInv, PlannerTypes
      <3> QED
        BY <1>2, <3>1 DEF PlannerInv, DecisionInv
    <2> QED
      BY <1>5, <2>1, <2>2
  <1>7. DecisionInv'
    BY <1>1, <1>2, <1>6 DEF PlannerInv, DecisionInv
  <1>8. QuietInv'
    BY <1>1, <1>6 DEF PlannerInv, QuietInv
  <1> QED
    BY <1>1, <1>3, <1>4, <1>7, <1>8 DEF PlannerInv

LEMMA KeepOtherStep ==
  ASSUME PlannerInv, Planning!OtherStep
  PROVE  PlannerInv'
  <1>1. /\ Planning!Ahead /\ proposal.steps[at + 1].action # "install_runtime" /\ at' = at + 1
        /\ UNCHANGED <<machine, binary, provenance, vouched, policy, proposal, pc, quiet>>
    BY DEF Planning!OtherStep
  <1>2. machine' \in Planning!Machine /\ vouched' \subseteq Planning!Ids
    BY <1>1 DEF PlannerInv, PlannerTypes
  <1>3. /\ Planning!BackendCandidates(machine) = Planning!BackendCandidates(machine)'
        /\ Planning!GpuTargets(Planning!CollectHardware(machine))
             = Planning!GpuTargets(Planning!CollectHardware(machine))'
    BY <1>1
  <1> QED
    BY <1>1, <1>2, <1>3, KeepStep

LEMMA KeepDownloadModel ==
  ASSUME PlannerInv, Planning!DownloadModel
  PROVE  PlannerInv'
  <1> DEFINE id == proposal.steps[at + 1].target
  <1>1. /\ Planning!Ahead /\ proposal.steps[at + 1].action = "download_model" /\ at' = at + 1
        /\ vouched' = vouched \cup {id}
        /\ machine' = IF weights[id] = "complete" THEN machine
                      ELSE [machine EXCEPT !.disk = @ - Planning!Entry(id).disk]
        /\ UNCHANGED <<binary, provenance, policy, proposal, pc, quiet>>
    BY DEF Planning!DownloadModel
  <1>2. id \in Planning!Ids
    <2>1. proposal.steps[at + 1] \in AboutRuntime \cup AboutModels
      BY <1>1, StepAhead
    <2> QED
      BY <1>1, <2>1 DEF AboutRuntime, AboutModels
  <1>3. Planning!Entry(id) \in Catalog
    BY <1>2 DEF Planning!Ids, Planning!Entry
  <1>4. machine \in Planning!Machine /\ vouched \subseteq Planning!Ids
    BY DEF PlannerInv, PlannerTypes
  <1>5. machine.disk - Planning!Entry(id).disk \in Int
    BY <1>3, <1>4, PlannerAssumption DEF PlannerAssumption, Planning!Machine, Planning!CatalogEntry
  <1>6. /\ machine' \in Planning!Machine
        /\ Planning!BackendCandidates(machine) = Planning!BackendCandidates(machine')
        /\ Planning!GpuTargets(Planning!CollectHardware(machine))
             = Planning!GpuTargets(Planning!CollectHardware(machine'))
    <2>1. CASE machine' = machine
      BY <1>4, <2>1
    <2>2. CASE machine' # machine
      <3>1. machine' = [machine EXCEPT !.disk = machine.disk - Planning!Entry(id).disk]
        BY <1>1, <2>2
      <3> QED
        BY <1>4, <1>5, <3>1, DiskDoesNotDecide
    <2> QED
      BY <2>1, <2>2
  <1>7. vouched' \subseteq Planning!Ids
    BY <1>1, <1>2, <1>4
  <1>8. /\ Planning!BackendCandidates(machine) = Planning!BackendCandidates(machine)'
        /\ Planning!GpuTargets(Planning!CollectHardware(machine))
             = Planning!GpuTargets(Planning!CollectHardware(machine))'
    BY <1>6
  <1>9. proposal.steps[at + 1].action # "install_runtime"
    BY <1>1
  <1> QED
    BY <1>1, <1>6, <1>7, <1>8, <1>9, KeepStep

\* Not one of the first two builds of llama.cpp, which a shallow clone claims to be.
PinnedIsARelease == \A p \in Policies : p.pinned > Planning!ShallowCloneMaxBuild

\* The manifest is written for the bytes that are put in place.
LEMMA KeepInstallRuntime ==
  ASSUME PlannerInv, PinnedIsARelease, Planning!InstallRuntime
  PROVE  PlannerInv'
  <1> DEFINE variant == proposal.resolution.variant
             profile == Planning!CollectHardware(machine)
             bytes == Planning!BytesOf(variant, policy)
  <1>1. /\ Planning!Ahead /\ proposal.steps[at + 1].action = "install_runtime" /\ at' = at + 1
        /\ UNCHANGED <<machine, vouched, policy, proposal, pc, quiet>>
    BY DEF Planning!InstallRuntime
  <1>2. binary' = [build |-> policy.pinned, commit |-> policy.pinned, backend |-> variant.backend,
                   bytes |-> bytes]
    BY DEF Planning!InstallRuntime
  <1>3. provenance' = [build |-> policy.pinned, commit |-> policy.pinned,
                       backend |-> variant.backend, sum |-> bytes]
    BY DEF Planning!InstallRuntime, Planning!ManifestOf
  <1>4. /\ pc = "planned" /\ ~proposal.failing /\ at + 1 \in DOMAIN proposal.steps
        /\ at + 1 \in 0..Len(proposal.steps)
    BY <1>1, StepAhead
  <1>5. proposal.resolution.resolved /\ ~proposal.resolution.reuse
    BY <1>1, <1>4 DEF PlannerInv, StepsInv
  <1>6. variant.backend \in Planning!Range(Planning!BackendCandidates(machine))
    BY <1>4, <1>5 DEF PlannerInv, DecisionInv, ForThisHost
  <1>7. variant.backend \in {"cuda12", "cuda13", "vulkan", "cpu"}
    BY <1>6, CandidateList
  <1>8. policy.pinned \in Nat /\ policy.pinned > 1 /\ policy.floor \in Nat /\ policy.floor <= policy.pinned
    <2>1. policy \in Policies
      BY DEF PlannerInv, PlannerTypes
    <2> QED
      BY <2>1, PlannerAssumption DEF PlannerAssumption, PinnedIsARelease, Planning!ResolverPolicy,
           Planning!ShallowCloneMaxBuild
  <1>9. bytes \in Nat /\ bytes > 1
    <2> DEFINE four == <<"cuda13", "cuda12", "vulkan", "cpu">>
               position == Planning!Position(variant.backend, four)
    <2>1. DOMAIN four = 1..4 /\ four[1] = "cuda13" /\ four[2] = "cuda12" /\ four[3] = "vulkan"
          /\ four[4] = "cpu"
      OBVIOUS
    <2>2. variant.backend \in Planning!Range(four)
      <3> HIDE DEF four, variant
      <3> QED
        BY <1>7, <2>1 DEF Planning!Range
    <2>3. position \in 1..4
      <3>1. position \in DOMAIN four
        <4> HIDE DEF four, variant
        <4> QED
          BY <2>2, PositionIn
      <3> QED
        BY <2>1, <3>1
    <2>4. bytes = 100 * policy.pinned + position
      BY DEF Planning!BytesOf
    <2> HIDE DEF bytes, position
    <2> QED
      BY <1>8, <2>3, <2>4
  <1> HIDE DEF variant, bytes
  <1>10. /\ binary'.build = policy.pinned /\ binary'.commit = policy.pinned
         /\ binary'.backend = variant.backend /\ binary'.bytes = bytes
         /\ provenance'.build = policy.pinned /\ provenance'.commit = policy.pinned
         /\ provenance'.backend = variant.backend /\ provenance'.sum = bytes
    BY <1>2, <1>3
  <1>11. binary' # Planning!NoBinary /\ provenance' # Planning!NoManifest
    <2>1. Planning!NoBinary.build = 0 /\ Planning!NoManifest.build = 0
      BY DEF Planning!NoBinary, Planning!NoManifest
    <2> QED
      BY <1>8, <1>10, <2>1
  <1>12. WouldKeep'
    <2>1. profile.candidates = Planning!BackendCandidates(machine)
      BY ProfileOf
    <2>2. Planning!JudgeManifest(binary', provenance', profile)
      <3> HIDE DEF profile
      <3> QED
        BY <1>6, <1>10, <1>11, <2>1 DEF Planning!JudgeManifest
    <2>3. Planning!JudgeExistingBinary(binary', provenance', policy.floor, profile) = "reuse"
      <3> HIDE DEF profile
      <3> QED
        BY <1>8, <1>10, <2>2 DEF Planning!JudgeExistingBinary, Planning!ShallowCloneMaxBuild
    <2> QED
      BY <1>1, <1>11, <2>3 DEF WouldKeep
  <1>13. ManifestInv'
    <2>1. provenance' \in RuntimeManifest
      BY <1>3, <1>7, <1>8, <1>9 DEF RuntimeManifest, Planning!GpuBackends
    <2> QED
      BY <1>9, <1>10, <2>1 DEF ManifestInv
  <1>14. PlannerTypes'
    BY <1>1, <1>4 DEF PlannerInv, PlannerTypes
  <1>15. StepsInv'
    BY <1>1 DEF PlannerInv, StepsInv
  <1>16. DecisionInv'
    <2>1. \A b : ForThisHost(b) <=> ForThisHost(b)'
      BY <1>1 DEF ForThisHost
    <2>2. Planning!OnGpuHost <=> Planning!OnGpuHost'
      BY <1>1 DEF Planning!OnGpuHost
    <2> QED
      BY <1>1, <1>12, <2>1, <2>2 DEF PlannerInv, DecisionInv
  <1>17. QuietInv'
    BY <1>1, <1>12 DEF PlannerInv, QuietInv
  <1> QED
    BY <1>13, <1>14, <1>15, <1>16, <1>17 DEF PlannerInv

\* The plan is put away.
LEMMA NoProposal ==
  ASSUME PlannerInv, proposal' = Planning!Nothing, at' = 0, pc' \in {"idle", "applied"},
         quiet' \in BOOLEAN, quiet' => WouldKeep, pc' = "applied" => quiet',
         UNCHANGED <<machine, binary, provenance, vouched, policy>>
  PROVE  PlannerInv'
  <1>1. proposal'.steps = << >> /\ proposal'.failing = TRUE
    BY DEF Planning!Nothing
  <1>2. PlannerTypes'
    <2>1. << >> \in Seq(AboutRuntime \cup AboutModels) /\ Len(<< >>) = 0
      OBVIOUS
    <2>2. proposal'.steps \in Seq(AboutRuntime \cup AboutModels) /\ at' \in 0..Len(proposal'.steps)
      BY <1>1, <2>1
    <2> QED
      BY <2>2 DEF PlannerInv, PlannerTypes
  <1>3. ManifestInv'
    BY DEF PlannerInv, ManifestInv
  <1>4. StepsInv'
    BY <1>1 DEF StepsInv
  <1>5. DecisionInv'
    BY DEF DecisionInv
  <1>6. QuietInv'
    <2>1. WouldKeep <=> WouldKeep'
      BY DEF WouldKeep
    <2> QED
      BY <2>1 DEF QuietInv
  <1> QED
    BY <1>2, <1>3, <1>4, <1>5, <1>6 DEF PlannerInv

LEMMA KeepDone ==
  ASSUME PlannerInv, Planning!Done
  PROVE  PlannerInv'
  <1>1. pc = "planned" /\ ~proposal.failing /\ at = Len(proposal.steps)
        /\ pc' = "applied" /\ quiet' = TRUE /\ proposal' = Planning!Nothing /\ at' = 0
        /\ UNCHANGED <<machine, binary, provenance, vouched, policy>>
    BY DEF Planning!Done
  <1>2. CASE proposal.resolution.reuse
    <2>1. WouldKeep
      BY <1>1, <1>2 DEF PlannerInv, DecisionInv
    <2> QED
      BY <1>1, <2>1, NoProposal
  <1>3. CASE ~proposal.resolution.reuse
    <2> DEFINE s == proposal.steps
    <2>1. s # << >> /\ s \in Seq(AboutRuntime \cup AboutModels)
      BY <1>1, <1>3 DEF PlannerInv, StepsInv, PlannerTypes
    <2>2. Len(s) > 0
      <3> HIDE DEF s
      <3> QED
        BY <2>1
    <2>3. WouldKeep
      BY <1>1, <2>2 DEF PlannerInv, DecisionInv
    <2> QED
      BY <1>1, <2>3, NoProposal
  <1> QED
    BY <1>2, <1>3

LEMMA KeepAgain ==
  ASSUME PlannerInv, Planning!Again
  PROVE  PlannerInv'
  <1>1. pc' = "idle" /\ proposal' = Planning!Nothing /\ at' = 0 /\ (quiet' = quiet \/ quiet' = FALSE)
        /\ UNCHANGED <<machine, binary, provenance, vouched, policy>>
    BY DEF Planning!Again
  <1>2. quiet \in BOOLEAN /\ (quiet => WouldKeep)
    BY DEF PlannerInv, PlannerTypes, QuietInv
  <1>3. quiet' \in BOOLEAN
    BY <1>1, <1>2, Zenon
  <1>4. quiet' => WouldKeep
    BY <1>1, <1>2, Zenon
  <1> QED
    BY <1>1, <1>3, <1>4, NoProposal

\* The world changes between two plans.
LEMMA KeepChange ==
  ASSUME PlannerInv, Planning!Change, machine' \in Planning!Machine, policy' \in Policies,
         vouched' \subseteq Planning!Ids, ManifestInv'
  PROVE  PlannerInv'
  <1>1. pc = "idle" /\ quiet' = FALSE /\ UNCHANGED <<proposal, at, pc>>
    BY DEF Planning!Change
  <1>2. PlannerTypes' /\ StepsInv'
    BY <1>1 DEF PlannerInv, PlannerTypes, StepsInv
  <1>3. DecisionInv' /\ QuietInv'
    BY <1>1 DEF DecisionInv, QuietInv
  <1> QED
    BY <1>2, <1>3 DEF PlannerInv

LEMMA KeepOthers ==
  ASSUME PlannerInv,
         \/ Planning!OtherHardware \/ Planning!OtherBinary \/ Planning!OtherManifest
         \/ Planning!OtherFiles \/ Planning!OtherPolicy
  PROVE  PlannerInv'
  <1>1. machine \in Planning!Machine /\ policy \in Policies /\ vouched \subseteq Planning!Ids /\ ManifestInv
    BY DEF PlannerInv, PlannerTypes
  <1>2. CASE Planning!OtherHardware
    <2>1. PICK h \in Hosts : machine' = [h EXCEPT !.disk = machine.disk]
      BY <1>2 DEF Planning!OtherHardware
    <2>2. Planning!Change /\ UNCHANGED <<binary, provenance, vouched, policy>>
      BY <1>2 DEF Planning!OtherHardware
    <2>3. machine' \in Planning!Machine
      BY <1>1, <2>1, PlannerAssumption DEF PlannerAssumption, Planning!Machine
    <2>4. ManifestInv'
      BY <1>1, <2>2 DEF ManifestInv
    <2> QED
      BY <1>1, <2>2, <2>3, <2>4, KeepChange
  <1>3. CASE Planning!OtherBinary
    <2>1. Planning!Change /\ binary'.bytes = 1 /\ UNCHANGED <<machine, provenance, vouched, policy>>
      BY <1>3 DEF Planning!OtherBinary
    <2>2. ManifestInv'
      BY <1>1, <2>1 DEF ManifestInv
    <2> QED
      BY <1>1, <2>1, <2>2, KeepChange
  <1>4. CASE Planning!OtherManifest
    <2>1. /\ Planning!Change /\ UNCHANGED <<machine, binary, vouched, policy>>
          /\ provenance # Planning!NoManifest
          /\ provenance' \in {Planning!NoManifest, [provenance EXCEPT !.sum = 0]}
      BY <1>4 DEF Planning!OtherManifest
    <2>2. CASE provenance' = Planning!NoManifest
      <3>1. ManifestInv'
        BY <1>1, <2>1, <2>2 DEF ManifestInv, RuntimeManifest, Planning!NoManifest
      <3> QED
        BY <1>1, <2>1, <3>1, KeepChange
    <2>3. CASE provenance' = [provenance EXCEPT !.sum = 0]
      <3>1. provenance' \in RuntimeManifest /\ provenance'.sum = 0
        BY <1>1, <2>3 DEF ManifestInv, RuntimeManifest
      <3>2. ManifestInv'
        BY <1>1, <2>1, <3>1 DEF ManifestInv
      <3> QED
        BY <1>1, <2>1, <3>2, KeepChange
    <2> QED
      BY <2>1, <2>2, <2>3
  <1>5. CASE Planning!OtherFiles
    <2>1. Planning!Change /\ UNCHANGED <<machine, binary, provenance, vouched, policy>>
      BY <1>5 DEF Planning!OtherFiles
    <2>2. ManifestInv'
      BY <1>1, <2>1 DEF ManifestInv
    <2> QED
      BY <1>1, <2>1, <2>2, KeepChange
  <1>6. CASE Planning!OtherPolicy
    <2>1. Planning!Change /\ policy' \in Policies /\ UNCHANGED <<machine, binary, provenance, vouched>>
      BY <1>6 DEF Planning!OtherPolicy
    <2>2. ManifestInv'
      BY <1>1, <2>1 DEF ManifestInv
    <2> QED
      BY <1>1, <2>1, <2>2, KeepChange
  <1> QED
    BY <1>2, <1>3, <1>4, <1>5, <1>6

LEMMA PlannerStep ==
  ASSUME PlannerInv, PinnedIsARelease, [Planning!Next]_Planning!plannerVars
  PROVE  PlannerInv'
  <1>1. CASE UNCHANGED Planning!plannerVars
    <2>1. UNCHANGED <<machine, binary, provenance, vouched, policy, proposal, at, pc, quiet>>
      BY <1>1 DEF Planning!plannerVars
    <2> QED
      BY <2>1 DEF PlannerInv, PlannerTypes, ManifestInv, StepsInv, DecisionInv, QuietInv, WouldKeep, ForThisHost,
           Planning!OnGpuHost
  <1>2. CASE Planning!BuildPlan
    BY <1>2, KeepBuildPlan
  <1>3. CASE Planning!InstallRuntime
    BY <1>3, KeepInstallRuntime
  <1>4. CASE Planning!DownloadModel
    BY <1>4, KeepDownloadModel
  <1>5. CASE Planning!OtherStep
    BY <1>5, KeepOtherStep
  <1>6. CASE Planning!Done
    BY <1>6, KeepDone
  <1>7. CASE Planning!Again
    BY <1>7, KeepAgain
  <1>8. CASE \/ Planning!OtherHardware \/ Planning!OtherBinary \/ Planning!OtherManifest
             \/ Planning!OtherFiles \/ Planning!OtherPolicy
    BY <1>8, KeepOthers
  <1> QED
    BY <1>1, <1>2, <1>3, <1>4, <1>5, <1>6, <1>7, <1>8 DEF Planning!Next

LEMMA PlannerSafety ==
  ASSUME PlannerInv
  PROVE  Planning!PlannerTypeOK /\ Planning!RuntimeIsSafe /\ Planning!RuntimeConverges
  <1>1. Planning!PlannerTypeOK
    BY DEF PlannerInv, PlannerTypes, Planning!PlannerTypeOK
  <1>2. pc = "applied" \/ (pc = "planned" /\ proposal.resolution.reuse) => WouldKeep
    BY DEF PlannerInv, DecisionInv, QuietInv
  <1>3. (pc = "planned" /\ proposal.resolution.variant.backend = "cpu" /\ Planning!OnGpuHost) =>
          policy.cpu /\ proposal.resolution.degraded
    BY DEF PlannerInv, DecisionInv
  <1>4. Planning!RuntimeIsSafe
    BY <1>2, <1>3, WouldKeepMeans, Zenon DEF Planning!RuntimeIsSafe, ForThisHost
  <1>5. Planning!RuntimeConverges
    BY DEF PlannerInv, QuietInv, StepsInv, Planning!RuntimeConverges
  <1> QED
    BY <1>1, <1>4, <1>5

\* runtime_resolver.py and planner.py: whatever is done to the host, the binary, its
\* manifest, the files and the policy between two plans, a runtime that is kept, or that a
\* plan applied in full leaves behind, is above the policy's floor and can start on this
\* host; a CPU build where there is a GPU was consented to; and planning again when
\* nothing changed installs nothing.
THEOREM RuntimeAlwaysChosenWell ==
  ASSUME PinnedIsARelease
  PROVE  Spec => []RuntimeIsChosenWell
  <1> DEFINE Inv == job = "planner" => PlannerInv
  <1>1. Init => Inv
    BY Alone, PlannerStart
  <1>2. Inv /\ [Next]_vars => Inv'
    BY PinnedIsARelease, Alone, PlannerStep
  <1>3. Inv => RuntimeIsChosenWell
    BY PlannerSafety DEF RuntimeIsChosenWell
  <1> QED
    BY <1>1, <1>2, <1>3, PTL DEF Spec

=============================================================================
