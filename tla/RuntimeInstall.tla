--------------------------- MODULE RuntimeInstall ---------------------------
(***************************************************************************)
(* The install_runtime step of a bootstrap plan                            *)
(* (gateway/bootstrap/runtime_installer.py): fetch the pinned archive into *)
(* an incubation directory, check its digest, extract it, promote the      *)
(* directory to a release, ask the binary for its build, write the         *)
(* provenance manifest beside it and only then move the "current" link.    *)
(* The gateway starts llama-server through that link at any moment.        *)
(*                                                                         *)
(* A build is a number; a pinned artifact delivers its own build, or, when *)
(* the supply chain is wrong, something else.                              *)
(***************************************************************************)
EXTENDS Naturals

CONSTANTS Builds,      \* the builds a plan may pin, none of them below Shallow
          MinBuild,    \* LLAMA_SERVER_MIN_BUILD
          MaxReleases, \* how many release directories a behaviour may hold
          Scenario     \* how much goes wrong in a behaviour, by kind

VARIABLES pinned,    \* the build of the plan in progress
          releases,  \* releases[n]: what the n-th release directory holds
          current,   \* the release the link points to, 0 when there is none
          previous,  \* the release it pointed to when the step started
          incoming,  \* what the incubation directory holds
          here,      \* the release the step has promoted, 0 before
          pc, outcome, left

vars == <<pinned, releases, current, previous, incoming, here, pc, outcome, left>>

Shallow == 1      \* SHALLOW_CLONE_MAX_BUILD

Unreadable == 0   \* the binary does not say its build

Nothing == [exists |-> FALSE, build |-> Unreadable, altered |-> FALSE, attested |-> 0]

NoIncoming == [state |-> "none", build |-> Unreadable, binaries |-> 0]

\* A host without a runtime; the runs of the behaviour install several.
Init ==
  /\ pinned \in Builds
  /\ releases = [n \in 1..MaxReleases |-> Nothing]
  /\ current = 0 /\ previous = 0 /\ incoming = NoIncoming /\ here = 0
  /\ pc = "off" /\ outcome = "none" /\ left = Scenario

Spend(what) == left[what] > 0 /\ left' = [left EXCEPT ![what] = @ - 1]

Free == {n \in 1..MaxReleases : ~releases[n].exists}

UnchangedStep == UNCHANGED <<pinned, previous, current>>

\* _echec after _nettoyer: the incubation and an unpublished release go away.
Fail ==
  /\ pc' = "ended" /\ outcome' = "failed" /\ incoming' = NoIncoming /\ here' = 0
  /\ releases' = IF here = 0 THEN releases ELSE [releases EXCEPT ![here] = Nothing]

-----------------------------------------------------------------------------
\* A plan that names this build is applied; refusal_reasons and _step_matches
\* stop one whose decision does not hold.
Start ==
  /\ pc \in {"off", "ended"} /\ Spend("runs") /\ pinned' \in Builds
  /\ incoming' = NoIncoming /\ here' = 0 /\ previous' = current
  /\ \/ pc' = "satisfied" /\ outcome' = "none"
     \/ pc' = "ended" /\ outcome' = "failed"
  /\ UNCHANGED <<releases, current>>

\* _deja_satisfait: a manifest for this build, the digest it records and the
\* build the binary answers.
Satisfied ==
  /\ current # 0
  /\ LET r == releases[current]
     IN  r.attested = pinned /\ ~r.altered /\ r.build = pinned

AlreadySatisfied ==
  /\ pc = "satisfied"
  /\ IF Satisfied THEN pc' = "ended" /\ outcome' = "already_satisfied"
     ELSE Free # {} /\ pc' = "fetch" /\ UNCHANGED outcome
  /\ UNCHANGED <<releases, incoming, here, left>> /\ UnchangedStep

\* The archive is received whole, or cut, or another one; what the pinned digest
\* lets through may still hold an unexpected binary, or none, or several.
Fetch ==
  /\ pc = "fetch"
  /\ \/ /\ pc' = "digest" /\ UNCHANGED left
        /\ incoming' = [state |-> "pinned", build |-> pinned, binaries |-> 1]
     \/ /\ pc' = "digest" /\ Spend("transport")
        /\ incoming' = [state |-> "other", build |-> pinned, binaries |-> 1]
     \/ /\ pc' = "digest" /\ Spend("supply") /\ \E b \in Builds \cup {Unreadable, Shallow}, n \in 0..2 :
             incoming' = [state |-> "pinned", build |-> b, binaries |-> n]
  /\ UNCHANGED <<releases, here, outcome>> /\ UnchangedStep

ShaArchive ==
  /\ pc = "digest"
  /\ IF incoming.state = "pinned" THEN pc' = "extract" /\ UNCHANGED <<outcome, incoming, releases, here>>
     ELSE Fail
  /\ UNCHANGED left /\ UnchangedStep

\* extract_archive and _localiser_binaire: exactly one executable of that name.
Extract ==
  /\ pc = "extract"
  /\ \/ incoming.binaries = 1 /\ pc' = "promote" /\ UNCHANGED <<outcome, incoming, releases, here, left>>
     \/ incoming.binaries # 1 /\ Fail /\ UNCHANGED left
     \/ Spend("extract") /\ Fail
  /\ UnchangedStep

Promote ==
  /\ pc = "promote" /\ pc' = "probe"
  /\ \E n \in Free :
       /\ \A m \in Free : n <= m
       /\ here' = n
       /\ releases' = [releases EXCEPT ![n] = [exists |-> TRUE, build |-> incoming.build,
                                               altered |-> FALSE, attested |-> 0]]
  /\ incoming' = NoIncoming /\ UNCHANGED <<outcome, left>> /\ UnchangedStep

AcceptsUnreadable(build) ==
  build = Unreadable \/ (build > Shallow /\ build = pinned /\ build >= MinBuild)

\* _verdict_version, on the binary where it will stay.
Accepts(build) == build > Shallow /\ build = pinned /\ build >= MinBuild

Probe ==
  /\ pc = "probe"
  /\ IF Accepts(releases[here].build)
     THEN pc' = "manifest" /\ UNCHANGED <<outcome, releases, incoming, here>>
     ELSE Fail
  /\ UNCHANGED left /\ UnchangedStep

WriteManifest ==
  /\ pc = "manifest"
  /\ \/ /\ pc' = "switch" /\ releases' = [releases EXCEPT ![here].attested = pinned]
        /\ UNCHANGED <<outcome, incoming, here, left>>
     \/ Spend("write") /\ Fail
  /\ UnchangedStep

SwitchAndPrune ==
  /\ pc = "switch" /\ current' = here /\ pc' = "ended" /\ outcome' = "done"
  /\ releases' = IF current = 0 THEN releases ELSE [releases EXCEPT ![current] = Nothing]
  /\ UNCHANGED <<pinned, previous, incoming, here, left>>

\* _basculer: a new link beside the old one, then a rename over it.
Switch ==
  /\ pc = "switch"
  /\ \/ /\ current' = here /\ pc' = "ended" /\ outcome' = "done"
        /\ UNCHANGED <<releases, incoming, here, left>>
     \/ Spend("write") /\ Fail /\ UNCHANGED current
  /\ UNCHANGED <<pinned, previous>>

\* The applier dies: what it had laid out stays, without a link to it.
Kill ==
  /\ pc \notin {"off", "ended"} /\ Spend("kill")
  /\ pc' = "off" /\ outcome' = "none"
  /\ UNCHANGED <<releases, incoming, here>> /\ UnchangedStep

\* Someone replaces the published binary, or repairs the link to the release
\* that was published before the last switch.
Alter ==
  /\ current # 0 /\ Spend("alter")
  /\ \E b \in Builds \cup {Unreadable} :
       releases' = [releases EXCEPT ![current].altered = TRUE, ![current].build = b]
  /\ UNCHANGED <<pinned, current, previous, incoming, here, pc, outcome>>

RollBack ==
  /\ pc = "ended" /\ outcome = "done" /\ previous # 0 /\ current # previous
  /\ Spend("rollback") /\ current' = previous
  /\ UNCHANGED <<pinned, previous, releases, incoming, here, pc, outcome>>

Next ==
  \/ Start \/ AlreadySatisfied \/ Fetch \/ ShaArchive \/ Extract \/ Promote \/ Probe
  \/ WriteManifest \/ Switch \/ Kill \/ Alter \/ RollBack

Spec == Init /\ [][Next]_vars

-----------------------------------------------------------------------------
InstallTypeOK ==
  /\ pinned \in Builds /\ current \in 0..MaxReleases /\ previous \in 0..MaxReleases
  /\ here \in 0..MaxReleases
  /\ outcome \in {"none", "failed", "already_satisfied", "done"}

\* Whatever the archive held and wherever the applier failed or died, what the
\* gateway would start has a manifest for the build it is, at or above the
\* floor, unless somebody changed the binary afterwards.
PublishedIsAttested ==
  current # 0 =>
    LET r == releases[current]
    IN  r.exists /\ (r.altered \/ (r.attested = r.build /\ r.build > Shallow /\ r.build >= MinBuild))

\* A failed step leaves what the gateway starts as it was, and a successful one
\* leaves the release it replaces in place: the link can go back to it.
RollbackStaysPossible ==
  /\ outcome = "failed" => current = previous
  /\ previous # 0 => releases[previous].exists

=============================================================================
