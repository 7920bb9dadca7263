----------------------------- MODULE Calibration -----------------------------
(***************************************************************************)
(* The calibration step of a bootstrap plan: the executor of               *)
(* gateway/bootstrap/calibration.py over the real probes of                *)
(* gateway/bootstrap/production.py.  It reuses a report measured on the    *)
(* same runtime and parameters, or starts a llama-server of its own, twice *)
(* (reduced then target context), samples the memory of the GPU in a       *)
(* concurrent task while the server loads and answers a prompt, stops the  *)
(* server and writes the maximum it saw to a report file.                  *)
(*                                                                         *)
(* A runtime is a number; Need says what memory a runtime holds for a      *)
(* parameter set and phase, in units.  Hardware is fixed.                  *)
(***************************************************************************)
EXTENDS Naturals, Sequences

CONSTANTS Runtimes,    \* the builds of llama-server that may be installed
          Params,      \* the parameter sets a plan may ask for
          Need,        \* Need[runtime][params][phase]: memory of a loaded server
          MaxSamples,  \* CalibrationOptions.max_samples
          Margin,      \* safety margin, in units of memory
          Scenario     \* how many runs and how much trouble a behaviour holds

VARIABLES pc,          \* where the executor is
          identity,    \* CalibrationIdentity of the current run: runtime, params
          phase,       \* the pass in progress, 1 reduced, 2 target
          sampler,     \* what the sampling task is doing
          stopping,    \* PeakSampler._arret
          rounds,      \* PeakSampler._rounds
          peak,        \* the peaks: of the pass in progress, of the report; and
                       \* (history) the build that served the pass
          operation,   \* how the sampled operation ended
          failing,     \* the exception on its way out of the pass, or "none"
          held,        \* LlamaServerCalibrationProbes._process is set
          probed,      \* the build that --version named, LoadOutcome.runtime_version
          server,      \* the llama-server process on the calibration port
          installed,   \* the build behind the llama-server path
          reports,     \* the report files, by the parameters in their name
          result,      \* what the executor returned, with the memory it proposes
          mislabelled, \* history: a server was forked from another build than the probed one
          left         \* what is left of Scenario

vars == <<pc, identity, phase, sampler, stopping, rounds, peak, operation, failing,
          held, probed, server, installed, reports, result, mislabelled, left>>

Phases == <<"reduced", "target">>

Off == [alive |-> FALSE, runtime |-> 0, needs |-> 0, run |-> 0]

\* built (history): the build that served the measure; the file only has the label.
NoReport == [exists |-> FALSE, readable |-> FALSE, runtime |-> 0, built |-> 0, peak |-> 0]

\* proposed_vram_gb: the measured peak and the margin, never rounded down.
Proposed(measured) == measured + Margin

MemoryNow == IF server.alive THEN server.needs ELSE 0

Larger(a, b) == IF a >= b THEN a ELSE b

NoPeak == [seen |-> FALSE, pass |-> 0, report |-> 0, built |-> 0]

\* stray: the server process outlived the executor because unloading failed.
\* at: what the executor was awaiting when it was last cancelled.
\* built (history): the build that served the measure behind the proposal.
NoResult == [status |-> "none", proposed |-> 0, built |-> 0, stray |-> FALSE, at |-> "none"]

Init ==
  /\ pc = "off" /\ identity = [runtime |-> 0, params |-> 0] /\ phase = 1
  /\ sampler = "off" /\ stopping = TRUE /\ rounds = 0 /\ peak = NoPeak
  /\ operation = "none" /\ failing = "none" /\ held = FALSE /\ server = Off
  /\ probed = 0 /\ mislabelled = FALSE
  /\ installed \in Runtimes
  /\ reports = [p \in Params |-> NoReport]
  /\ result = NoResult
  /\ left = Scenario

Spend(what) == left[what] > 0 /\ left' = [left EXCEPT ![what] = @ - 1]

End(status, proposed, built) ==
  /\ pc' = "ended"
  /\ result' = [result EXCEPT !.status = status, !.proposed = proposed, !.built = built]

Fail(status) == End(status, 0, 0)

UnchangedPass == UNCHANGED <<phase, sampler, stopping, rounds, peak, operation, failing>>

UnchangedBuild == UNCHANGED <<probed, mislabelled>>

UnchangedWorld == UNCHANGED <<identity, held, server, installed, reports, left>> /\ UnchangedBuild

-----------------------------------------------------------------------------
(* make_executor: identity, environment, reuse.                             *)

\* A plan asks for the calibration of the runtime it resolved.
Start ==
  /\ pc \in {"off", "ended"} /\ Spend("runs")
  /\ \E r \in Runtimes, p \in Params : identity' = [runtime |-> r, params |-> p]
  /\ pc' = "validate" /\ phase' = 1 /\ peak' = NoPeak
  /\ failing' = "none" /\ operation' = "none" /\ held' = FALSE
  /\ probed' = 0 /\ result' = NoResult
  /\ UNCHANGED <<sampler, stopping, rounds, server, installed, reports, mislabelled>>

ValidateEnvironment ==
  /\ pc = "validate"
  /\ IF installed = identity.runtime THEN pc' = "reuse" /\ UNCHANGED result ELSE Fail("failed")
  /\ UnchangedPass /\ UnchangedWorld

EvaluateReuseAnyRuntime(r, p) == r.readable /\ p = identity.params

EvaluateReuse(r, p) == r.readable /\ r.runtime = identity.runtime /\ p = identity.params

Reusable == {p \in Params : reports[p].exists /\ EvaluateReuse(reports[p], p)}

Reuse ==
  /\ pc = "reuse"
  /\ IF Reusable = {} THEN pc' = "rest" /\ UNCHANGED result
     ELSE \E p \in Reusable : End("already_satisfied", Proposed(reports[p].peak), reports[p].built)
  /\ UnchangedPass /\ UnchangedWorld

-----------------------------------------------------------------------------
(* PeakSampler: a task that reads VRAM, then RAM, then looks at the stop    *)
(* flag, its budget and its count, and sleeps.                              *)

StartSampling(count) == sampler' = "vram" /\ stopping' = FALSE /\ rounds' = count

ReadVram ==
  /\ sampler = "vram" /\ sampler' = "ram"
  /\ \/ /\ peak' = [peak EXCEPT !.seen = TRUE, !.pass = Larger(@, MemoryNow)]
        /\ UNCHANGED left
     \/ Spend("reading") /\ UNCHANGED peak
  /\ UNCHANGED <<pc, identity, phase, stopping, rounds, operation, failing, held,
                 server, installed, reports, result>> /\ UnchangedBuild

\* The stop flag is only looked at once a round is complete.
ReadRam ==
  /\ sampler = "ram"
  /\ rounds' = rounds + 1
  /\ sampler' = IF stopping \/ rounds' >= MaxSamples THEN "off" ELSE "sleeping"
  /\ UNCHANGED <<pc, identity, phase, stopping, peak, operation, failing, held,
                 server, installed, reports, result, left>> /\ UnchangedBuild

Wake ==
  /\ sampler = "sleeping" /\ sampler' = "vram"
  /\ UNCHANGED <<pc, identity, phase, stopping, rounds, peak, operation, failing,
                 held, server, installed, reports, result, left>> /\ UnchangedBuild

\* PeakSampler.during, its finally: ask the task to stop, then wait for it.
OperationEnds(how, join) ==
  /\ operation' = how /\ stopping' = TRUE /\ pc' = join

-----------------------------------------------------------------------------
(* One pass: load, prompt, unload.                                          *)

\* _relever_repos, then the first pass.
Rest ==
  /\ pc = "rest"
  /\ \/ /\ pc' = "load" /\ StartSampling(0) /\ UNCHANGED <<result, left>>
     \/ /\ Spend("reading") /\ Fail("failed")
        /\ UNCHANGED <<sampler, stopping, rounds>>
  /\ UNCHANGED <<identity, phase, peak, operation, failing, held, server,
                 installed, reports>> /\ UnchangedBuild

\* load_model asks the binary for its version; the answer labels the measure.
Probe ==
  /\ pc = "load"
  /\ \/ ~held /\ probed' = installed /\ pc' = "fork" /\ UNCHANGED <<operation, stopping, left>>
     \/ /\ OperationEnds("failed", "loadJoin") /\ UNCHANGED probed
        /\ IF held THEN UNCHANGED left ELSE Spend("load")
  /\ UNCHANGED <<identity, phase, sampler, rounds, peak, failing, held, server,
                 installed, reports, result, mislabelled>>

\* The build that is there by now is started, whichever was probed; a port
\* still taken refuses, whoever holds it.
Fork ==
  /\ pc = "fork"
  /\ IF server.alive
     THEN OperationEnds("failed", "loadJoin") /\ UNCHANGED <<held, server, peak, mislabelled>>
     ELSE /\ held' = TRUE /\ pc' = "loading"
          /\ server' = [alive |-> TRUE, runtime |-> installed, run |-> left["runs"],
                        needs |-> Need[installed][identity.params][Phases[phase]]]
          /\ peak' = [peak EXCEPT !.built = installed]
          /\ mislabelled' = (mislabelled \/ installed # probed)
          /\ UNCHANGED <<operation, stopping>>
  /\ UNCHANGED <<identity, phase, sampler, rounds, failing, probed, installed,
                 reports, result, left>>

\* /health and /v1/models answer, or the server dies or times out and is stopped.
LoadEnds ==
  /\ pc = "loading"
  /\ \/ OperationEnds("ok", "loadJoin") /\ UNCHANGED <<held, server, left>>
     \/ OperationEnds("failed", "loadJoin") /\ Spend("load") /\ held' = FALSE /\ server' = Off
  /\ UNCHANGED <<identity, phase, sampler, rounds, peak, failing, installed,
                 reports, result>> /\ UnchangedBuild

\* The mutated pass of a plausible bug: it owns the server once its label is checked.
LoadedOwnedLate ==
  /\ pc = "loadJoin" /\ sampler = "off"
  /\ \/ /\ operation \in {"failed", "cancelled"} /\ failing' = operation /\ pc' = "passed"
        /\ UNCHANGED <<sampler, stopping, rounds>>
     \/ /\ operation = "ok" /\ probed # identity.runtime
        /\ failing' = "failed" /\ pc' = "passed"
        /\ UNCHANGED <<sampler, stopping, rounds>>
     \/ /\ operation = "ok" /\ probed = identity.runtime
        /\ pc' = "prompting" /\ StartSampling(rounds) /\ UNCHANGED failing
  /\ operation' = "none"
  /\ UNCHANGED <<identity, phase, peak, held, server, installed, reports, result,
                 left>> /\ UnchangedBuild

\* The sampling task is back: the pass knows the outcome of the load only now,
\* and only now holds itself responsible for unloading.
Loaded ==
  /\ pc = "loadJoin" /\ sampler = "off"
  /\ \/ /\ operation = "failed" /\ failing' = "failed" /\ pc' = "passed"
        /\ UNCHANGED <<sampler, stopping, rounds>>
     \/ /\ operation = "cancelled" /\ failing' = "cancelled" /\ pc' = "passed"
        /\ UNCHANGED <<sampler, stopping, rounds>>
     \/ /\ operation = "ok" /\ probed # identity.runtime
        /\ failing' = "failed" /\ pc' = "unload"
        /\ UNCHANGED <<sampler, stopping, rounds>>
     \/ /\ operation = "ok" /\ probed = identity.runtime
        /\ pc' = "prompting" /\ StartSampling(rounds) /\ UNCHANGED failing
  /\ operation' = "none"
  /\ UNCHANGED <<identity, phase, peak, held, server, installed, reports, result,
                 left>> /\ UnchangedBuild

\* run_prompt, bounded by its timeout; _debits refuses a rate it cannot compute.
PromptEnds ==
  /\ pc = "prompting"
  /\ \/ OperationEnds("ok", "promptJoin") /\ UNCHANGED left
     \/ OperationEnds("failed", "promptJoin") /\ Spend("prompt")
  /\ UNCHANGED <<identity, phase, sampler, rounds, peak, failing, held, server,
                 installed, reports, result>> /\ UnchangedBuild

Prompted ==
  /\ pc = "promptJoin" /\ sampler = "off" /\ pc' = "unload"
  /\ failing' = IF operation = "ok" THEN failing ELSE operation
  /\ operation' = "none"
  /\ UNCHANGED <<identity, phase, sampler, stopping, rounds, peak, held, server,
                 installed, reports, result, left>> /\ UnchangedBuild

\* unload_model forgets the process before it signals it: when the signal is
\* refused the server stays, and the pass fails whatever it measured.
Unload ==
  /\ pc = "unload" /\ pc' = "passed" /\ held' = FALSE
  /\ \/ server' = Off /\ UNCHANGED <<failing, result, left>>
     \/ /\ Spend("unload") /\ failing' = "failed"
        /\ result' = [result EXCEPT !.stray = TRUE] /\ UNCHANGED server
  /\ UNCHANGED <<identity, phase, sampler, stopping, rounds, peak, operation,
                 installed, reports>> /\ UnchangedBuild

\* The end of _executer_passe and of the loop over PHASES.
PassEnds ==
  /\ pc = "passed"
  /\ \/ /\ failing # "none" /\ Fail(failing)
        /\ UNCHANGED <<phase, sampler, stopping, rounds, peak>>
     \/ /\ failing = "none" /\ ~peak.seen /\ Fail("failed")
        /\ UNCHANGED <<phase, sampler, stopping, rounds, peak>>
     \/ /\ failing = "none" /\ peak.seen /\ phase < Len(Phases)
        /\ phase' = phase + 1 /\ pc' = "load" /\ StartSampling(0)
        /\ peak' = [peak EXCEPT !.seen = FALSE, !.pass = 0, !.report = Larger(@, peak.pass)]
        /\ UNCHANGED result
     \/ /\ failing = "none" /\ peak.seen /\ phase = Len(Phases)
        /\ peak' = [peak EXCEPT !.report = Larger(@, peak.pass)] /\ pc' = "write"
        /\ UNCHANGED <<phase, sampler, stopping, rounds, result>>
  /\ UNCHANGED <<operation, failing>> /\ UnchangedWorld

-----------------------------------------------------------------------------
(* write_report: write_text truncates the file, then fills it.              *)

OpenReport ==
  /\ pc = "write" /\ pc' = "fill"
  /\ reports' = [reports EXCEPT ![identity.params] =
                   [NoReport EXCEPT !.exists = TRUE]]
  /\ UNCHANGED <<identity, held, server, installed, result, left>> /\ UnchangedPass /\ UnchangedBuild

FillReport ==
  /\ pc = "fill"
  /\ \/ /\ reports' = [reports EXCEPT ![identity.params] =
                   [exists |-> TRUE, readable |-> TRUE, runtime |-> identity.runtime,
                    built |-> peak.built, peak |-> peak.report]]
        /\ End("done", Proposed(peak.report), peak.built) /\ UNCHANGED left
     \/ Spend("write") /\ Fail("failed") /\ UNCHANGED reports
  /\ UNCHANGED <<identity, held, server, installed>> /\ UnchangedPass /\ UnchangedBuild

-----------------------------------------------------------------------------
(* Around the executor.                                                     *)

\* asyncio cancels the main task on an interrupt.  What that undoes depends on
\* what the task awaits: load_model stops the server it has started; a pass that
\* already knows its server is loaded unloads it in its finally; while the pass
\* waits for the sampling task after the load, nobody does.
Cancel ==
  /\ Spend("cancel")
  /\ \/ /\ pc \in {"validate", "reuse", "rest", "loadJoin"} /\ pc' = "ended" /\ sampler' = "off"
        /\ UNCHANGED <<operation, stopping, failing, held, server>>
     \/ /\ pc \in {"load", "fork"} /\ OperationEnds("cancelled", "loadJoin")
        /\ UNCHANGED <<sampler, failing, held, server>>
     \/ /\ pc = "loading" /\ OperationEnds("cancelled", "loadJoin")
        /\ held' = FALSE /\ server' = Off /\ UNCHANGED <<sampler, failing>>
     \/ /\ pc = "prompting" /\ OperationEnds("cancelled", "promptJoin")
        /\ UNCHANGED <<sampler, failing, held, server>>
     \/ /\ pc = "promptJoin" /\ failing' = "cancelled" /\ pc' = "unload" /\ sampler' = "off"
        /\ UNCHANGED <<operation, stopping, held, server>>
     \/ /\ pc = "unload" /\ pc' = "ended" /\ held' = FALSE /\ server' \in {Off, server}
        /\ UNCHANGED <<operation, stopping, failing, sampler>>
  /\ result' = [result EXCEPT !.at = pc, !.status = IF pc' = "ended" THEN "cancelled" ELSE @]
  /\ UNCHANGED <<identity, phase, rounds, peak, installed, reports>> /\ UnchangedBuild

\* The applier is killed: its server, in a session of its own, lives on.
Crash ==
  /\ pc \notin {"off", "ended"} /\ Spend("crash")
  /\ Fail("killed") /\ sampler' = "off" /\ held' = FALSE
  /\ UNCHANGED <<identity, phase, stopping, rounds, peak, operation, failing,
                 server, installed, reports>> /\ UnchangedBuild

\* Another runtime takes the place of the one the plan resolved.
Upgrade ==
  /\ Spend("upgrade") /\ installed' \in Runtimes \ {installed}
  /\ UNCHANGED <<pc, identity, held, server, reports, result>> /\ UnchangedPass /\ UnchangedBuild

\* The operator stops the server a run left behind.
OperatorStops ==
  /\ pc \in {"off", "ended"} /\ server.alive /\ server' = Off
  /\ UNCHANGED <<pc, identity, held, installed, reports, result, left>> /\ UnchangedPass /\ UnchangedBuild

Executor ==
  \/ ValidateEnvironment \/ Reuse \/ Rest \/ Probe \/ Fork \/ LoadEnds \/ Loaded
  \/ PromptEnds \/ Prompted \/ Unload \/ PassEnds \/ OpenReport \/ FillReport

Sampling == ReadVram \/ ReadRam \/ Wake

Next == Start \/ Executor \/ Sampling \/ Cancel \/ Crash \/ Upgrade \/ OperatorStops

Spec == Init /\ [][Next]_vars

-----------------------------------------------------------------------------
CalibrationTypeOK ==
  /\ pc \in {"off", "validate", "reuse", "rest", "load", "fork", "loading", "loadJoin", "prompting",
             "promptJoin", "unload", "passed", "write", "fill", "ended"}
  /\ phase \in 1..Len(Phases) /\ sampler \in {"off", "vram", "ram", "sleeping"}
  /\ rounds \in 0..MaxSamples + 1 /\ stopping \in BOOLEAN /\ held \in BOOLEAN
  /\ operation \in {"none", "ok", "failed", "cancelled"}
  /\ failing \in {"none", "failed", "cancelled"} /\ mislabelled \in BOOLEAN
  /\ result.status \in {"none", "done", "already_satisfied", "failed", "cancelled", "killed"}

\* The memory a run proposes, measured now or reused, covers what a server of the
\* measured build and these parameters holds, as long as every reading of memory
\* answered; and the measured build is the one the plan named, unless a server was
\* ever forked from a build put in place after the version was asked for: whichever
\* way sampling, loading, prompting, earlier reports and cut-off writes interleaved.
ProposalCoversService ==
  result.status \in {"done", "already_satisfied"} =>
    /\ left["reading"] = Scenario["reading"] =>
         result.proposed >= Need[result.built][identity.params]["target"] + Margin
    /\ ~mislabelled => result.built = identity.runtime

\* The server a run loaded does not outlive the run, wherever it succeeds, fails
\* or is cancelled, with three exceptions: the run reports that stopping the server
\* failed; it was killed; or it was cancelled either between the end of the load and
\* that of the sampling task, or while it waited for the server to stop.
MeasuredServerStopped ==
  (pc = "ended" /\ server.alive /\ server.run = left["runs"]) =>
    \/ result.stray \/ result.status = "killed"
    \/ result.status = "cancelled" /\ result.at \in {"loadJoin", "unload"}

=============================================================================
