------------------------- MODULE ServerManagerProofs -------------------------
(***************************************************************************)
(* The invariants of ServerManager, for any number of managers.            *)
(***************************************************************************)
EXTENDS ServerManager, TLAPS

\* Every step keeps the types: no action writes an unknown state, stage or error.
LEMMA SMTypeStep == SMTypeOK /\ [SMNext]_smVars => SMTypeOK'
<1> SUFFICES ASSUME SMTypeOK, [SMNext]_smVars
             PROVE  SMTypeOK'
  OBVIOUS
<1> USE DEF SMTypeOK, ModelState, LoadStage, LoadError
<1>1. ASSUME NEW i \in Instance, SMStep(i)
      PROVE  SMTypeOK'
  <2>1. CASE BeginLoad(i)    BY <2>1 DEF BeginLoad
  <2>2. CASE StartProcess(i) BY <2>2 DEF StartProcess
  <2>3. CASE BecomeReady(i)  BY <2>3 DEF BecomeReady
  <2>4. ASSUME NEW error \in LoadError, LoadRaises(i, error)
        PROVE  SMTypeOK'
    BY <2>4 DEF LoadRaises
  <2>5. CASE LoadFailed(i)   BY <2>5 DEF LoadFailed
  <2>6. CASE BeginUnload(i)  BY <2>6 DEF BeginUnload
  <2>7. CASE FinishUnload(i) BY <2>7 DEF FinishUnload
  <2>8. CASE ProcessExits(i) BY <2>8 DEF ProcessExits
  <2>9. CASE MarkCrashed(i)  BY <2>9 DEF MarkCrashed
  <2> QED BY <1>1, <2>1, <2>2, <2>3, <2>4, <2>5, <2>6, <2>7, <2>8, <2>9 DEF SMStep
<1>2. CASE UNCHANGED smVars
  BY <1>2 DEF smVars
<1> QED BY <1>1, <1>2 DEF SMNext

\* The types hold in every reachable state.
THEOREM SMTypeCorrect == SMSafety => []SMTypeOK
<1>1. SMInit => SMTypeOK
  BY DEF SMInit, SMTypeOK, ModelState, LoadStage, LoadError
<1> QED BY <1>1, SMTypeStep, PTL DEF SMSafety

\* The inductive invariant: ProcessOwned needs to know that only a LOADING
\* manager can be given a process, and LoadTaskMatchesState that an UNLOADED
\* one that fails its load was LOADING.
SMInv ==
  /\ SMTypeOK
  /\ ProcessOwned
  /\ LoadTaskMatchesState
  /\ \A i \in Instance : loadTask[i] = "starting" => process[i] = "none"
  /\ \A i \in Instance : loadTask[i] = "probing" => process[i] # "none"

LEMMA SMInvInit == SMInit => SMInv
  BY DEF SMInit, SMInv, SMTypeOK, ProcessOwned, LoadTaskMatchesState,
         ModelState, LoadStage, LoadError

\* Every step of a manager keeps the invariant of every manager.
LEMMA SMInvStep == SMInv /\ [SMNext]_smVars => SMInv'
<1> SUFFICES ASSUME SMInv, [SMNext]_smVars
             PROVE  SMInv'
  OBVIOUS
<1>0. SMTypeOK'
  BY SMTypeStep DEF SMInv
<1> USE <1>0 DEF SMInv, SMTypeOK, ProcessOwned, LoadTaskMatchesState,
                 ModelState, LoadStage, LoadError
<1>1. ASSUME NEW i \in Instance, SMStep(i)
      PROVE  SMInv'
  <2>1. CASE BeginLoad(i)    BY <2>1 DEF BeginLoad
  <2>2. CASE StartProcess(i) BY <2>2 DEF StartProcess
  <2>3. CASE BecomeReady(i)  BY <2>3 DEF BecomeReady
  <2>4. ASSUME NEW error \in LoadError, LoadRaises(i, error)
        PROVE  SMInv'
    BY <2>4 DEF LoadRaises
  <2>5. CASE LoadFailed(i)   BY <2>5 DEF LoadFailed
  <2>6. CASE BeginUnload(i)  BY <2>6 DEF BeginUnload, Unloadable
  <2>7. CASE FinishUnload(i) BY <2>7 DEF FinishUnload
  <2>8. CASE ProcessExits(i) BY <2>8 DEF ProcessExits
  <2>9. CASE MarkCrashed(i)  BY <2>9 DEF MarkCrashed
  <2> QED BY <1>1, <2>1, <2>2, <2>3, <2>4, <2>5, <2>6, <2>7, <2>8, <2>9 DEF SMStep
<1>2. CASE UNCHANGED smVars
  BY <1>2 DEF smVars
<1> QED BY <1>1, <1>2 DEF SMNext

LEMMA SMInvariant == SMSafety => []SMInv
  BY SMInvInit, SMInvStep, PTL DEF SMSafety

\* Nothing of an UNLOADED manager runs, and no READY manager is a phantom.
THEOREM ProcessAlwaysOwned == SMSafety => []ProcessOwned
  BY SMInvariant, PTL DEF SMInv

\* A load task runs exactly while the manager is LOADING.
THEOREM LoadTaskAlwaysMatches == SMSafety => []LoadTaskMatchesState
  BY SMInvariant, PTL DEF SMInv
=============================================================================
