----------------------------- MODULE RcBenchmark -----------------------------
(***************************************************************************)
(* perf/run-rc.sh with the scripts it runs: for each scenario, attempts    *)
(* (run-controlled.sh) of Repeats staircases (run-ab.sh capacity) each, a  *)
(* decision, a check, and a longer staircase while a boundary is missing.  *)
(* The scripts run under set -e: whatever fails ends the benchmark.        *)
(*                                                                         *)
(* Beside the scripts, the environment changes the machine they run on and *)
(* the commit that HEAD names, at any time.                                *)
(***************************************************************************)
EXTENDS BenchDecision, HostPreflight

CONSTANTS
  Scenarios,      \* sequence of [steps, ceiling]
  Repeats,        \* RC_REPEATS
  MinRepeats,     \* the least RC_REPEATS that run-rc.sh takes
  MaxAttempts,    \* RC_MAX_ATTEMPTS
  SLO,            \* configured limits
  Policy,         \* decision policy
  Cpusets,        \* the three PERF_*_CPUSET
  FirstMachine,   \* the machine as the benchmark starts
  Machines,       \* machines that it may find itself on
  Measured,       \* for each scenario and architecture, the pairs of runs of a step
  MaxChanges      \* bound: changes of HEAD, or half as many of the machine

StepsValid(steps, ceiling) ==
  /\ steps # <<>>
  /\ \A i \in DOMAIN steps : steps[i] > 0
  /\ \A i \in 1..(Len(steps) - 1) : steps[i] < steps[i + 1]
  /\ Last(steps) <= ceiling

ASSUME InputAssumption ==
  /\ Scenarios \in Seq([steps : Seq(Nat), ceiling : Nat]) /\ Scenarios # <<>>
  /\ \A i \in DOMAIN Scenarios : StepsValid(Scenarios[i].steps, Scenarios[i].ceiling)
  /\ Repeats \in Nat /\ MinRepeats \in Nat /\ MaxAttempts \in Nat
  /\ MinRepeats >= 2 /\ Repeats >= MinRepeats /\ MaxAttempts >= 1
  /\ SLOValid(SLO) /\ PolicyValid(Policy)

VARIABLES
  pc,        \* the script's next step, "done" or "failed"
  failure,   \* what ended the benchmark, or "none"
  machine,   \* the machine
  head,      \* the commit that HEAD names
  commits,   \* the last commit there is
  undone,    \* history: how often HEAD went to a commit that was there before
  changes,   \* how often HEAD has changed, and the machine, which counts twice
  preflight, \* fingerprint in preflight.json
  scenario,  \* index of the scenario
  attempt,   \* attempt of the scenario
  steps,     \* its staircase
  commit,    \* git_commit in the attempt's manifest.json
  host,      \* host.json of the repeat
  built,     \* history: what the images of the attempt's repeats were built
             \* from, and when
  rung,      \* index of the step being measured
  files,     \* result files of the repeat
  report,    \* report.json of the repeat
  capacity,  \* capacity.json of the repeat
  repeats,   \* finished repeat directories of the attempt
  decision,  \* decision.json of the attempt
  selected   \* rc-scenario.json of the attempts selected so far

git     == <<head, commits, undone>>
env     == <<machine, git, changes>>
ladder  == <<rung, files, report, capacity>>
results == <<repeats, decision>>
source  == <<commit, built>>
vars    == <<pc, failure, env, preflight, scenario, attempt, steps, source, host,
             ladder, results, selected>>

Nothing == [none |-> TRUE]
NoReport == <<>>
Over == pc \in {"done", "failed"}

Init ==
  /\ pc = "preflight" /\ failure = "none"
  /\ machine = FirstMachine /\ changes = 0
  /\ head = 0 /\ commits = 0 /\ undone = 0
  /\ preflight = <<>>
  /\ scenario = 1 /\ attempt = 1 /\ steps = Scenarios[1].steps
  /\ commit = 0 /\ built = {} /\ host = Nothing
  /\ rung = 1 /\ files = <<>> /\ report = NoReport /\ capacity = Nothing
  /\ repeats = <<>> /\ decision = Nothing /\ selected = <<>>

(* What a failed benchmark leaves behind is read by nothing. *)
Fail(why) ==
  /\ pc' = "failed" /\ failure' = why
  /\ commit' = 0 /\ built' = {} /\ host' = Nothing
  /\ rung' = 1 /\ files' = <<>> /\ report' = NoReport /\ capacity' = Nothing
  /\ repeats' = <<>> /\ decision' = Nothing /\ selected' = <<>>
  /\ UNCHANGED <<env, preflight, scenario, attempt, steps>>

-----------------------------------------------------------------------------
(* run-rc.sh, before the first scenario *)

Preflight ==
  LET info == CollectHostInfo(machine, Cpusets, TRUE)
  IN /\ pc = "preflight"
     /\ IF PreflightFails(info)
        THEN Fail("preflight")
        ELSE /\ preflight' = info.fingerprint
             /\ pc' = "attempt"
             /\ UNCHANGED <<failure, env, scenario, attempt, steps, source, host,
                            ladder, results, selected>>

-----------------------------------------------------------------------------
(* run-controlled.sh; run-ab.sh builds the images of each repeat anew, and *)
(* from whatever HEAD names then.                                          *)

StartAttempt ==
  /\ pc = "attempt"
  /\ commit' = head /\ built' = {}
  /\ repeats' = <<>> /\ decision' = Nothing
  /\ pc' = "host"
  /\ UNCHANGED <<failure, env, preflight, scenario, attempt, steps, host, ladder, selected>>

StartRepeat ==
  LET info == CollectHostInfo(machine, Cpusets, TRUE)
  IN /\ pc = "host"
     /\ IF PreflightFails(info)
        THEN Fail("host")
        ELSE /\ host' = info
             /\ built' = built \union {[commit |-> head, at |-> undone]}
             /\ rung' = 1 /\ files' = <<>> /\ report' = NoReport /\ capacity' = Nothing
             /\ pc' = "measure"
             /\ UNCHANGED <<failure, env, preflight, scenario, attempt, steps, commit,
                            results, selected>>

-----------------------------------------------------------------------------
(* run-ab.sh capacity *)

File(arch, n, run) ==
  [arch |-> arch, load |-> n, wall |-> run.wall, stats |-> run.stats,
   streams |-> [i \in 1..n |-> run.stream]]

(* The load generator exits with an error when one of its streams failed,  *)
(* after it has written its result.                                        *)
LoadgenFailsOn(pair) == \E i \in DOMAIN pair : pair[i].stream.error

(* run_abba: native, legacy, legacy, native; the first run that fails ends *)
(* the benchmark.                                                          *)
RunAbba ==
  /\ pc = "measure"
  /\ \E a \in Measured[scenario]["native"], b \in Measured[scenario]["legacy"] :
       LET n     == steps[rung]
           order == <<File("native", n, a[1]), File("legacy", n, b[1]),
                      File("legacy", n, b[2]), File("native", n, a[2])>>
       IN IF LoadgenFailsOn(a \o b)
          THEN Fail("loadgen")
          ELSE /\ files' = files \o order
               /\ pc' = "report"
               /\ UNCHANGED <<failure, env, preflight, scenario, attempt, steps, source,
                              host, rung, report, capacity, results, selected>>

(* The sampler shows no baseline in time. *)
SamplerFails == pc = "measure" /\ Fail("sampler")

Readable == \A i \in DOMAIN files : StatsReadable(files[i].stats)

(* capacity_report after a step, under set +e: when report.py fails the    *)
(* report of an earlier step is evaluated again, if there is one.          *)
ReportStep ==
  LET rows   == IF Readable THEN Report(files) ELSE report
      judged == EvaluateCapacity(rows, SLO)
      stop   == BothFailedAt(judged, steps[rung])
  IN /\ pc = "report"
     /\ IF rows = NoReport
        THEN Fail("capacity")
        ELSE /\ report' = rows
             /\ capacity' = judged
             /\ IF stop \/ rung = Len(steps)
                THEN pc' = "close" /\ UNCHANGED rung
                ELSE pc' = "measure" /\ rung' = rung + 1
             /\ UNCHANGED <<failure, env, preflight, scenario, attempt, steps, source,
                            host, files, results, selected>>

CloseRepeat(rows, judged) ==
  /\ repeats' = Append(repeats, [host |-> host, capacity |-> judged, last |-> steps[rung],
                                 measured |-> TRUE, examined |-> TRUE])
  /\ host' = Nothing
  /\ rung' = 1 /\ files' = <<>> /\ report' = NoReport /\ capacity' = Nothing
  /\ pc' = IF Len(repeats') = Repeats THEN "decide" ELSE "host"
  /\ UNCHANGED <<failure, env, preflight, scenario, attempt, steps, source, decision,
                 selected>>

(* A mistake: the closing report tolerates what the steps tolerate. *)
CloseWithLastReport ==
  pc = "close" /\ CloseRepeat(report, capacity)

(* The closing report.py and capacity_report, under set -e. *)
FinalReport ==
  /\ pc = "close"
  /\ IF Readable
     THEN LET rows == Report(files) IN CloseRepeat(rows, EvaluateCapacity(rows, SLO))
     ELSE Fail("report")

-----------------------------------------------------------------------------
(* run-controlled.sh, after the repeats *)

Decide ==
  LET loaded == LoadRepeatSet(repeats)
  IN /\ pc = "decide"
     /\ IF Decidable(loaded, Policy)
        THEN /\ decision' = AggregateRepeats(loaded, Policy)
             /\ pc' = "check"
             /\ UNCHANGED <<failure, env, preflight, scenario, attempt, steps, source,
                            host, ladder, repeats, selected>>
        ELSE Fail("decision")

-----------------------------------------------------------------------------
(* rc.py and the rest of run-rc.sh *)

Boundaries(directory) ==
  \A arch \in Archs : directory.capacity[arch].first_failed # NoStep

BoundariesComplete == \A i \in DOMAIN repeats : Boundaries(repeats[i])

(* evaluate_scenario raises on anything else. *)
Consistent ==
  /\ decision.controlled
  /\ Len(repeats) >= Repeats
  /\ decision.repeats = Len(repeats)
  /\ \A i \in DOMAIN repeats :
        /\ repeats[i].host.strict /\ repeats[i].host.valid
        /\ repeats[i].host.fingerprint = decision.fingerprint
        /\ \A arch \in Archs :
             LET found == repeats[i].capacity[arch]
             IN found.first_failed # NoStep => found.first_failed > found.max_sustainable

Ready == BoundariesComplete /\ decision.preferred

(* rc-scenario.json; "built" is history, which no script reads. *)
Summary ==
  [source_commit       |-> commit,
   built               |-> built,
   host_fingerprint    |-> decision.fingerprint,
   evidence_controlled |-> TRUE,
   boundaries_complete |-> BoundariesComplete,
   ready               |-> Ready]

Extensible == Last(steps) < Scenarios[scenario].ceiling

ExtendSteps == Append(steps, Min({2 * Last(steps), Scenarios[scenario].ceiling}))

Select ==
  /\ pc = "check" /\ Consistent /\ Ready
  /\ selected' = Append(selected, Summary)
  /\ repeats' = <<>> /\ decision' = Nothing /\ commit' = 0 /\ built' = {}
  /\ IF scenario < Len(Scenarios)
     THEN /\ scenario' = scenario + 1 /\ attempt' = 1
          /\ steps' = Scenarios[scenario + 1].steps
          /\ pc' = "attempt"
     ELSE pc' = "aggregate" /\ UNCHANGED <<scenario, attempt, steps>>
  /\ UNCHANGED <<failure, env, preflight, host, ladder>>

(* A mistake: a decision that is not ready is measured again, higher up. *)
ExtendUntilReady ==
  /\ pc = "check" /\ Consistent /\ ~Ready
  /\ attempt < MaxAttempts /\ Extensible
  /\ steps' = ExtendSteps
  /\ attempt' = attempt + 1
  /\ pc' = "attempt"
  /\ UNCHANGED <<failure, env, preflight, scenario, source, host, ladder, results, selected>>

MayExtend == ~BoundariesComplete /\ attempt < MaxAttempts /\ Extensible

Extend ==
  /\ pc = "check" /\ Consistent /\ ~Ready /\ MayExtend
  /\ steps' = ExtendSteps
  /\ attempt' = attempt + 1
  /\ pc' = "attempt"
  /\ UNCHANGED <<failure, env, preflight, scenario, source, host, ladder, results, selected>>

Refusal ==
  IF ~Consistent THEN "check"
  ELSE IF BoundariesComplete THEN "inconclusive"
  ELSE IF attempt >= MaxAttempts THEN "attempts" ELSE "ceiling"

Refuse ==
  /\ pc = "check"
  /\ ~(Consistent /\ (Ready \/ MayExtend))
  /\ Fail(Refusal)

Of(field) == {selected[i][field] : i \in DOMAIN selected}

(* A mistake: the commits of the scenarios are not compared. *)
NoBlockersButCommit ==
  /\ Cardinality(Of("host_fingerprint")) = 1
  /\ Of("evidence_controlled") \union Of("boundaries_complete") \union Of("ready") = {TRUE}

(* aggregate_scenarios; all of one run have one NGINX and one compiler. *)
NoBlockers ==
  /\ Cardinality(Of("source_commit")) = 1
  /\ Cardinality(Of("host_fingerprint")) = 1
  /\ Of("evidence_controlled") \union Of("boundaries_complete") \union Of("ready") = {TRUE}

AggregateAll ==
  /\ pc = "aggregate"
  /\ IF ~NoBlockers
     THEN Fail("blockers")
     ELSE IF Of("host_fingerprint") # {preflight}
     THEN Fail("fingerprint")
     ELSE /\ pc' = "done"
          /\ UNCHANGED <<failure, env, preflight, scenario, attempt, steps, source, host,
                         ladder, results, selected>>

-----------------------------------------------------------------------------
(* The environment *)

Stays == UNCHANGED <<pc, failure, preflight, scenario, attempt, steps, source, host, ladder,
                     results, selected>>

MachineChanges ==
  /\ ~Over /\ changes + 1 < MaxChanges
  /\ changes' = changes + 2
  /\ machine' \in Machines \ {machine}
  /\ UNCHANGED git /\ Stays

HeadMoves ==
  /\ ~Over /\ changes < MaxChanges
  /\ changes' = changes + 1
  /\ head' = commits + 1 /\ commits' = commits + 1
  /\ UNCHANGED <<machine, undone>> /\ Stays

HeadReturns ==
  /\ ~Over /\ changes < MaxChanges
  /\ changes' = changes + 1
  /\ head' \in 0..commits \ {head} /\ undone' = undone + 1
  /\ UNCHANGED <<machine, commits>> /\ Stays

Next ==
  \/ Preflight \/ StartAttempt \/ StartRepeat
  \/ RunAbba \/ SamplerFails \/ ReportStep \/ FinalReport
  \/ Decide \/ Select \/ Extend \/ Refuse \/ AggregateAll
  \/ MachineChanges \/ HeadMoves \/ HeadReturns

Spec == Init /\ [][Next]_vars

-----------------------------------------------------------------------------
(* Properties *)

(* A staircase that stops early (run-ab.sh) stops for good reason: it has  *)
(* found the boundary of both architectures, so that no higher step could  *)
(* change either capacity or the question of a longer staircase.           *)
StopLosesNothing ==
  pc # "attempt" =>
    \A i \in DOMAIN repeats : repeats[i].last # Last(steps) => Boundaries(repeats[i])

(* Although run-ab.sh evaluates a stale report.json when report.py fails,  *)
(* the capacity.json a repeat leaves has a point for every step it ran.    *)
ReportWhole ==
  pc # "attempt" =>
    \A i \in DOMAIN repeats, arch \in Archs :
      {p.streams : p \in Range(repeats[i].capacity[arch].points)}
        = {steps[k] : k \in {j \in DOMAIN steps : steps[j] <= repeats[i].last}}

(* The load at which decision.py compares the architectures was measured   *)
(* in every repeat, and no repeat of either failed there or below.         *)
ReferenceSustained ==
  decision # Nothing =>
    \A i \in DOMAIN repeats, arch \in Archs :
      /\ PointAt(repeats[i].capacity, arch, decision.reference) # {}
      /\ \A p \in Range(repeats[i].capacity[arch].points) :
           p.streams <= decision.reference => p.pass

(* The commits in the manifests are those of HEAD as each attempt began,   *)
(* and the aggregate compares no more than these.  Yet while HEAD is still *)
(* at the commit that a benchmark which succeeded names, as the scripts    *)
(* that read it ask (run-rc-soak.sh:77-83), the images of every repeat of  *)
(* every scenario were built from it, unless HEAD went back after that.    *)
FromOneSource ==
  pc = "done" =>
    \A i, j \in DOMAIN selected : \A image \in selected[j].built :
      selected[i].source_commit = head => image.commit = head \/ image.at < undone

(* A scenario is measured again only with more steps above the same ones,  *)
(* within its ceiling and its attempts, and only while the last attempt    *)
(* missed a boundary: never because its decision was not the one hoped for *)
(* (docs/RC_BENCHMARK.md:214-221).                                         *)
ExtendsOnlyForBoundary ==
  [][scenario' = scenario /\ steps' # steps =>
       /\ \E i \in DOMAIN repeats, arch \in Archs :
            repeats[i].capacity[arch].first_failed = NoStep
       /\ IsPrefix(steps, steps') /\ StepsValid(steps', Scenarios[scenario].ceiling)
       /\ attempt' = attempt + 1 /\ attempt' <= MaxAttempts]_vars

(* docs/CAPACITY_BENCHMARKS.md:53 and :117: the share of failed streams is *)
(* one of the limits a step is judged by, and growth stops when both       *)
(* architectures violate their SLO.  So an overloaded step is a point of   *)
(* the staircase and does not end the benchmark.                           *)
OverloadIsAPoint == "error_rate" \in DOMAIN SLO => failure # "loadgen"
=============================================================================
