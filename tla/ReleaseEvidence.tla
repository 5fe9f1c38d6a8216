-------------------------- MODULE ReleaseEvidence ---------------------------
(***************************************************************************)
(* The evaluators of release evidence: release/collect.py, evidence.py,    *)
(* revalidate.py, check.py and m15.py, perf/rc_soak.py and                 *)
(* staging/evidence.py, over documents reduced to what they compare.       *)
(*                                                                         *)
(* A target is an NGINX version with a compiler.  The directory of a       *)
(* benchmark or a soak carries what its raw files yield in "raw", beside   *)
(* the aggregate saved in decision.json or soak.json; "trees", the trees   *)
(* its images were built from, is history, which no evaluator reads.       *)
(***************************************************************************)
EXTENDS Naturals

CONSTANTS
  Gates,            \* the required gates of CI
  MinSoak,          \* min_strict_soak_seconds, 7200
  RecommendedSoak   \* recommended_rc_soak_seconds, 28800

(* ReleasePolicy.validate. *)
ASSUME SoakPolicyAssumption ==
  /\ MinSoak \in Nat \ {0} /\ RecommendedSoak \in Nat
  /\ RecommendedSoak >= MinSoak

Nothing == [none |-> TRUE]
Classes == {"controlled", "harness_only"}

-----------------------------------------------------------------------------
(* perf/rc_soak.py *)

(* evaluate_link, or Nothing where it raises. *)
EvaluateLink(benchmark, soak, duration) ==
  IF /\ soak.commit = benchmark.git_commit /\ soak.target = benchmark.target
     /\ soak.strict /\ soak.host = benchmark.host
     /\ soak.report.class = "controlled" /\ soak.report.passed
     /\ soak.report.host = benchmark.host
     /\ soak.report.duration >= duration
  THEN [ready |-> TRUE, commit |-> benchmark.git_commit, target |-> benchmark.target,
        host |-> benchmark.host, duration |-> soak.report.duration]
  ELSE Nothing

-----------------------------------------------------------------------------
(* release/revalidate.py *)

(* A mistake: the soak's aggregate is taken as it was saved. *)
ControlledOnly(controlled, soak) ==
  /\ controlled.strict /\ controlled.raw.class = "controlled"
  /\ controlled.decision = controlled.raw
  /\ soak.strict

(* Every aggregate is what its raw files yield when they are evaluated     *)
(* again, the hosts of every repeat are strict and so is the soak.         *)
Revalidates(controlled, soak) ==
  /\ controlled.strict /\ controlled.raw.class = "controlled"
  /\ controlled.decision = controlled.raw
  /\ soak.strict
  /\ soak.report = soak.raw

-----------------------------------------------------------------------------
(* release/collect.py and evidence.py *)

(* release-check.sh and collect_bundle: what the copied directories and    *)
(* the package hold; a checksum is the identity of a build.                *)
CollectBundle(source, gates, artifact, controlled, soak) ==
  [source |-> source, gates |-> gates,
   artifact |-> artifact, controlled |-> controlled, soak |-> soak]

Harness(bundle) ==
  bundle.controlled.decision.class # "controlled" \/ bundle.soak.report.class # "controlled"

GatePasses(gate, commit, harness) ==
  /\ gate.passed /\ gate.commit = commit
  /\ gate.class \in IF harness THEN Classes ELSE {"controlled"}

OfTarget(document, commit, target) == document.commit = commit /\ document.target = target

Verdict(passes, class) ==
  IF ~passes THEN "blocked"
  ELSE IF class = "controlled" THEN "release_candidate" ELSE "inconclusive"

(* evaluate_release, for the target of the policy.  What the list of       *)
(* blockers says here is whether it is empty.                              *)
EvaluateRelease(bundle, target) ==
  LET commit   == bundle.source.commit
      decision == bundle.controlled.decision
      report   == bundle.soak.report
      harness  == Harness(bundle)
      class    == IF harness THEN "harness_only" ELSE "controlled"
      passes   ==
        /\ ~bundle.source.dirty
        /\ \A g \in Gates : GatePasses(bundle.gates[g], commit, harness)
        /\ bundle.artifact.declared = bundle.artifact.sha
        /\ OfTarget(bundle.artifact, commit, target)
        /\ OfTarget(bundle.controlled, commit, target)
        /\ OfTarget(bundle.soak, commit, target)
        /\ harness \/ (decision.host = report.host /\ bundle.soak.strict)
        /\ decision.class = "controlled" => decision.preferred
        /\ report.class = "controlled" => report.passed /\ report.duration >= MinSoak
  IN [commit |-> commit, class |-> class, sha |-> bundle.artifact.sha,
      controlled_host |-> decision.host, soak_host |-> report.host,
      mechanics_pass |-> passes, raw_valid |-> FALSE, verdict |-> Verdict(passes, class)]

-----------------------------------------------------------------------------
(* release/check.py *)

(* A revalidation is "valid", "invalid" or, where inconclusive evidence is *)
(* allowed, "skipped".                                                     *)
Settles(class, revalidation) ==
  revalidation = IF class = "controlled" THEN "valid" ELSE "skipped"

ApplyRevalidation(result, revalidation) ==
  LET passes == result.mechanics_pass /\ Settles(result.class, revalidation)
  IN [result EXCEPT !.mechanics_pass = passes,
                    !.raw_valid = (revalidation = "valid"),
                    !.verdict = Verdict(passes, result.class)]

-----------------------------------------------------------------------------
(* staging/evidence.py *)

BrowserPasses(run, commit) == run # Nothing /\ run.commit = commit /\ run.passed

(* evaluate, or Nothing where it raises.  deployed is what the operator    *)
(* saved of the installed module, which the result quotes for the history  *)
(* in it; native and rollback are the browser runs.                        *)
EvaluateStaging(commit, package, deployed, native, rollback) ==
  IF /\ package.commit = commit /\ package.sha = package.declared
     /\ deployed # Nothing /\ deployed.sha = package.sha
     /\ BrowserPasses(native, commit) /\ BrowserPasses(rollback, commit)
     /\ native.endpoints = rollback.endpoints
     /\ deployed.nginx = package.target
  THEN [verdict |-> "staging_pass", commit |-> commit, sha |-> package.sha,
        saved |-> deployed]
  ELSE Nothing

-----------------------------------------------------------------------------
(* release/m15.py *)

SoakAccepted(link, source, host) ==
  link.ready /\ link.commit = source /\ link.host = host /\ link.duration >= MinSoak

M14Accepted(release, source) ==
  /\ release.commit = source /\ release.class = "controlled"
  /\ release.verdict = "release_candidate"
  /\ release.mechanics_pass /\ release.raw_valid

(* A mistake: it is enough that the two hosts of M14 agree. *)
M14OnOneHost(release, host) == release.controlled_host = release.soak_host

M14OnHost(release, host) == release.controlled_host = host /\ release.soak_host = host

(* A mistake: one commit, one artifact. *)
SameCommit(release, staging) == release.commit = staging.commit

ArtifactStaged(release, staging) == release.sha = staging.sha

(* evaluate: benchmark is the benchmark's manifest.json with its summary   *)
(* rc-benchmark.json, link is rc-soak-link.json.                           *)
M15Ready(benchmark, link, staging, release, waiver) ==
  LET source == benchmark.summary.commit
      host   == benchmark.summary.host
  IN /\ benchmark.summary.ready
     /\ benchmark.git_commit = source /\ benchmark.host = host
     /\ SoakAccepted(link, source, host)
     /\ link.duration >= RecommendedSoak \/ waiver
     /\ staging.verdict = "staging_pass" /\ staging.commit = source
     /\ M14Accepted(release, source)
     /\ M14OnHost(release, host)
     /\ ArtifactStaged(release, staging)
=============================================================================
