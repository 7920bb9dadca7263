----------------------------- MODULE FirstToken -----------------------------
(***************************************************************************)
(* The recipe of the first token (gateway/bootstrap/first_token.py) and    *)
(* the warm-up that uses it as its generation probe (warmup.py): they      *)
(* create a throw-away identity through the admin routes, load the model,  *)
(* read a stream to its end, look for the usage row and remove the         *)
(* identity.  A request that is not answered in time counts as failed      *)
(* while the gateway may still execute it.                                 *)
(***************************************************************************)
EXTENDS Accounts

CONSTANT Trouble   \* how much goes wrong in a behaviour, by kind

VARIABLES pc,        \* where the recipe is
          mode,      \* "smoke": the step on its own; "warmup": as the probe
          reason,    \* the cause so far
          state,     \* _RecipeState: identity_created, key_prefix, cleaned
          loaded,    \* the model is loaded in the gateway
          usageRow,  \* the usage_log row of the generation
          outcome,   \* what was returned: served, cleaned, traffic_authorized
          left

vars == <<user, key, requests, answers, pc, mode, reason, state, loaded, usageRow,
          outcome, left>>

recipeVars == <<pc, mode, reason, state, outcome>>

NoOutcome == [returned |-> FALSE, served |-> FALSE, cleaned |-> FALSE, traffic |-> FALSE]

Init ==
  /\ AccountsInit
  /\ mode \in {"smoke", "warmup"}
  /\ pc = IF mode = "warmup" THEN "warm" ELSE "liveness"
  /\ reason = "ok" /\ loaded = FALSE /\ usageRow = "none"
  /\ state = [created |-> FALSE, prefix |-> FALSE, keyOk |-> TRUE, userOk |-> FALSE]
  /\ outcome = NoOutcome /\ left = Trouble

Spend(what) == left[what] > 0 /\ left' = [left EXCEPT ![what] = @ - 1]

Fail(why, next) == reason' = why /\ pc' = next

-----------------------------------------------------------------------------
(* run_warmup: load, wait for /ready, probe.                                *)

\* The traffic stays closed unless everything below succeeds.
GiveUp(why) ==
  /\ Fail(why, "ended") /\ outcome' = [NoOutcome EXCEPT !.returned = TRUE]

WarmLoad ==
  /\ pc = "warm"
  /\ \/ loaded' = TRUE /\ pc' = "ready" /\ UNCHANGED <<reason, outcome, left>>
     \/ Spend("load") /\ GiveUp("model_load_failed") /\ loaded' \in BOOLEAN
  /\ UNCHANGED <<mode, state, usageRow>> /\ UNCHANGED accountVars

\* _await_serving: the model must be among models_ready before the deadline.
AwaitServing ==
  /\ pc = "ready"
  /\ \/ loaded /\ pc' = "liveness" /\ UNCHANGED <<reason, outcome, left>>
     \/ ~loaded /\ GiveUp("warmup_timeout") /\ UNCHANGED left
     \/ Spend("probe") /\ GiveUp("ready_unreachable")
  /\ UNCHANGED <<mode, state, loaded, usageRow>> /\ UNCHANGED accountVars

-----------------------------------------------------------------------------
(* _run_stages                                                              *)

\* /health, /ready and the choice of the model: reads, each may end the recipe.
Probe(at, next, why) ==
  /\ pc = at
  /\ \/ pc' = next /\ UNCHANGED <<reason, left>>
     \/ Spend("probe") /\ Fail(why, "cleanup")
  /\ UNCHANGED <<mode, state, loaded, usageRow, outcome>> /\ UNCHANGED accountVars

Liveness == Probe("liveness", "structural", "liveness_failed")

Structural == Probe("structural", "resolve", "structural_readiness_failed")

ResolveModel == Probe("resolve", "create", "model_unresolved")

PostUser ==
  /\ pc = "create" /\ Ask("create") /\ pc' = "created"
  /\ UNCHANGED <<mode, reason, state, loaded, usageRow, outcome, left, user, key>>

\* The client of _call: the status of the answer, or 0 when it stops waiting.
Answered(op, at, Then(_)) ==
  /\ pc = at
  /\ \/ answers[op] # 0 /\ Then(answers[op]) /\ UNCHANGED left
     \/ answers[op] = 0 /\ Spend("lost") /\ Then(0)
  /\ UNCHANGED <<mode, loaded, usageRow, outcome>>

\* The recipe holds itself responsible for the user as soon as the call is over,
\* whatever it answered, and not before.
UserPosted ==
  /\ state' = [state EXCEPT !.created = TRUE]
  /\ Answered("create", "created", LAMBDA status :
       IF status = 201 THEN pc' = "keying" /\ Ask("key") /\ UNCHANGED reason
       ELSE Fail("identity_create_failed", "cleanup") /\ UNCHANGED <<requests, answers>>)
  /\ UNCHANGED <<user, key>>

KeyPosted ==
  /\ Answered("key", "keying", LAMBDA status :
       IF status = 201 THEN /\ pc' = "load" /\ state' = [state EXCEPT !.prefix = TRUE]
                            /\ UNCHANGED reason
       ELSE Fail("identity_key_failed", "cleanup") /\ UNCHANGED state)
  /\ UNCHANGED accountVars

Load ==
  /\ pc = "load"
  /\ \/ loaded' = TRUE /\ pc' = "generate" /\ UNCHANGED <<reason, left>>
     \/ Spend("load") /\ Fail("model_load_failed", "cleanup") /\ loaded' \in BOOLEAN
  /\ UNCHANGED <<mode, state, usageRow, outcome>> /\ UNCHANGED accountVars

\* A stream is served when it held content, [DONE], usage and the right model
\* name; the gateway writes its usage row in the background.  A model unloaded
\* meanwhile is loaded again by the request.
Generate ==
  /\ pc = "generate"
  /\ \/ /\ KeyOpens /\ loaded' = TRUE /\ usageRow' = "pending" /\ pc' = "usage"
        /\ UNCHANGED <<reason, left>>
     \/ /\ ~KeyOpens /\ Fail("http_status", "cleanup") /\ UNCHANGED <<loaded, usageRow, left>>
     \/ /\ Spend("stream") /\ Fail("stream", "cleanup")
        /\ usageRow' \in {"none", "pending"} /\ UNCHANGED loaded
  /\ UNCHANGED <<mode, state, outcome>> /\ UNCHANGED accountVars

WriteUsage ==
  /\ usageRow = "pending" /\ usageRow' = "written"
  /\ UNCHANGED <<loaded, left>> /\ UNCHANGED accountVars /\ UNCHANGED recipeVars

\* _await_usage_log polls until the row is there or its delay has run out.
AwaitUsage ==
  /\ pc = "usage"
  /\ \/ usageRow = "written" /\ pc' = "cleanup" /\ UNCHANGED <<reason, left>>
     \/ usageRow # "written" /\ Spend("lost") /\ Fail("usage_log_missing", "cleanup")
  /\ UNCHANGED <<mode, state, loaded, usageRow, outcome>> /\ UNCHANGED accountVars

-----------------------------------------------------------------------------
(* _cleanup_identity: the finally of the recipe.                            *)

\* With no user to answer for, there is nothing to remove, and all is clean.
Cleanup ==
  /\ pc = "cleanup"
  /\ IF ~state.created
     THEN pc' = "report" /\ state' = [state EXCEPT !.userOk = TRUE] /\ UNCHANGED <<requests, answers>>
     ELSE /\ UNCHANGED state
          /\ IF state.prefix THEN pc' = "revoking" /\ Ask("revoke")
             ELSE pc' = "erasing" /\ Ask("erase")
  /\ UNCHANGED <<mode, reason, loaded, usageRow, outcome, left, user, key>>

\* A key that is already gone is as good as revoked.
Revoked ==
  /\ Answered("revoke", "revoking", LAMBDA status :
       /\ state' = [state EXCEPT !.keyOk = status \in {200, 404}]
       /\ pc' = "erasing" /\ Ask("erase") /\ UNCHANGED reason)
  /\ UNCHANGED <<user, key>>

Erased404 ==
  /\ Answered("erase", "erasing", LAMBDA status :
       /\ state' = [state EXCEPT !.userOk = status \in {200, 404}]
       /\ pc' = "report" /\ UNCHANGED reason)
  /\ UNCHANGED accountVars

\* A user that is not found is not known to be gone: it may yet be created.
Erased ==
  /\ Answered("erase", "erasing", LAMBDA status :
       /\ state' = [state EXCEPT !.userOk = status = 200]
       /\ pc' = "report" /\ UNCHANGED reason)
  /\ UNCHANGED accountVars

\* A recipe that was cancelled returns nothing: CancelledError goes on its way.
Returned(result, cause) ==
  /\ pc = "report" /\ pc' = "ended"
  /\ IF reason = "cancelled" THEN UNCHANGED <<outcome, reason>>
     ELSE outcome' = result /\ reason' = cause
  /\ UNCHANGED <<mode, state, loaded, usageRow, left>> /\ UNCHANGED accountVars

Cleaned == state.keyOk /\ state.userOk

ReportServedAnyway ==
  Returned([returned |-> TRUE, served |-> reason = "ok", cleaned |-> Cleaned,
            traffic |-> mode = "warmup" /\ reason = "ok"],
           reason)

\* The report, and the verdict of the warm-up: an identity left behind is a
\* failure of the recipe even when the token was served.
Report ==
  LET served == reason = "ok" /\ Cleaned
  IN  Returned([returned |-> TRUE, served |-> served, cleaned |-> Cleaned,
                traffic |-> mode = "warmup" /\ served],
               IF reason = "ok" /\ ~Cleaned THEN "identity_residual" ELSE reason)

-----------------------------------------------------------------------------
\* An interrupt: the stages stop, the finally still runs; a second one, in the
\* finally, ends it where it is.  While the creation of the user is awaited the
\* recipe does not answer for it yet: the finally then leaves it alone, created
\* or still to be.
Cancel ==
  /\ pc \notin {"report", "ended"} /\ Spend("cancel")
  /\ IF pc \in {"warm", "ready", "cleanup", "revoking", "erasing"} THEN Fail("cancelled", "ended")
     ELSE Fail("cancelled", "cleanup")
  /\ UNCHANGED <<mode, state, loaded, usageRow, outcome>> /\ UNCHANGED accountVars

\* Traffic of others: the model may be evicted, the operator may edit accounts.
Evict ==
  /\ loaded /\ Spend("evict") /\ loaded' = FALSE
  /\ UNCHANGED usageRow /\ UNCHANGED accountVars /\ UNCHANGED recipeVars

OperatorPatches ==
  /\ Spend("patch") /\ Ask("patch")
  /\ UNCHANGED <<user, key, loaded, usageRow>> /\ UNCHANGED recipeVars

Serve == Handle /\ UNCHANGED <<loaded, usageRow, left>> /\ UNCHANGED recipeVars

Recipe ==
  \/ WarmLoad \/ AwaitServing \/ Liveness \/ Structural \/ ResolveModel \/ PostUser
  \/ UserPosted \/ KeyPosted \/ Load \/ Generate \/ AwaitUsage \/ Cleanup \/ Revoked
  \/ Erased \/ Report

Next == Recipe \/ Serve \/ WriteUsage \/ Cancel \/ Evict \/ OperatorPatches

Spec == Init /\ [][Next]_vars

FirstTokenTypeOK ==
  /\ AccountsTypeOK
  /\ mode \in {"smoke", "warmup"} /\ loaded \in BOOLEAN
  /\ usageRow \in {"none", "pending", "written"}
  /\ outcome \in [returned : BOOLEAN, served : BOOLEAN, cleaned : BOOLEAN, traffic : BOOLEAN]

\* A recipe that reports its identity removed, or was cancelled and in its clean-up
\* removed the identity it answered for, leaves none that can connect, now or
\* later, not even when a request it had given up on is executed afterwards,
\* unless somebody else edits that account.
CleanedMeansGone ==
  (/\ (outcome.returned /\ outcome.cleaned) \/ (state.created /\ Cleaned)
   /\ left["patch"] = Trouble["patch"]) =>
    ~user.active /\ ~KeyOpens

\* The traffic opens, and the recipe counts as passed, only once the generation
\* was billed and the identity that produced it is gone.
NoTrafficWithResidue ==
  outcome.traffic \/ outcome.served => usageRow = "written" /\ user.erased /\ ~KeyOpens

=============================================================================
