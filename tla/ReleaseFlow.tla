---------------------------- MODULE ReleaseFlow -----------------------------
(***************************************************************************)
(* The way to a release (docs/M15_RELEASE_FLOW.md), as the scripts walk    *)
(* it: perf/run-rc.sh, perf/run-rc-soak.sh, scripts/release-check.sh and   *)
(* rc-release-check.sh, run-staging-browser.sh, staging-evidence.sh and    *)
(* m15-check.sh, over directories of documents that outlive them.  An      *)
(* operator runs one script at a time, in any order, on any directories.   *)
(*                                                                         *)
(* Beside the scripts the worktree is edited, committed and restored, HEAD *)
(* moves to new and to old commits, the evidence host changes, saved       *)
(* aggregates are copied about, and any package of the release directory   *)
(* is deployed to staging.                                                 *)
(***************************************************************************)
EXTENDS ReleaseEvidence, FiniteSets

CONSTANTS
  Directories,   \* names of benchmark and of soak directories
  Hosts,         \* fingerprints
  Targets,       \* NGINX versions with their compiler
  Durations,     \* of soaks
  MaxEvents,     \* bound: names of directories in use, moves of HEAD, undone
                 \* edits, changes of the host and copies, all together
  MaxBuilds      \* bound: packages

ASSUME DurationsAssumption == Durations \subseteq Nat

VARIABLES
  job,       \* the script that runs, with what it has read, or Nothing
  head,      \* the commit that HEAD names
  commits,   \* commits there are
  edited,    \* the worktree differs from HEAD
  undone,    \* history: how often an edit was undone or HEAD went to a
             \* commit that was there before
  host,      \* the machine
  changes,   \* how often any of these or a saved aggregate has changed
  bench,     \* benchmark directories
  soak,      \* soak directories
  bundle,    \* the release directory
  builds,    \* packages built so far
  deployed,  \* the package that staging runs
  saved,     \* what the operator saved of it: checksum and nginx -V
  native,    \* browser run labelled native-module
  rollback,  \* browser run labelled envoy-rollback
  staging,   \* staging-evidence.json
  verdict    \* m15-evidence.json that is ready, with its inputs
             \* (saved.tree is history)

git     == <<head, commits, edited, undone>>
env     == <<git, host, changes>>
release == <<bundle, builds>>
field   == <<deployed, saved, native, rollback, staging>>
vars    == <<job, env, bench, soak, release, field, verdict>>

Idle == job = Nothing /\ verdict = Nothing
Running(script) == job # Nothing /\ job.script = script

(* A release directory without evidence: of a check that runs or failed. *)
Partial == [partial |-> TRUE]
Released == bundle \notin {Nothing, Partial}
Candidate == Released /\ bundle.evidence.verdict = "release_candidate"

(* git status --porcelain is empty. *)
WorktreeClean == ~edited

(* What an image or a package is built from, and when. *)
Tree == [commit |-> head, edited |-> edited, at |-> undone]

Used(d) ==
  \/ bench[d] # Nothing \/ soak[d] # Nothing
  \/ (Running("benchmark") \/ Running("soak")) /\ job.dir = d
Events == changes + Cardinality({d \in Directories : Used(d)})
MayUse(d) == Used(d) \/ Events < MaxEvents

Init ==
  /\ job = Nothing
  /\ head = 1 /\ commits = 1 /\ edited = FALSE /\ undone = 0
  /\ host \in Hosts /\ changes = 0
  /\ bench = [d \in Directories |-> Nothing]
  /\ soak = [d \in Directories |-> Nothing]
  /\ bundle = Nothing /\ builds = 0
  /\ deployed = Nothing /\ saved = Nothing
  /\ native = Nothing /\ rollback = Nothing /\ staging = Nothing
  /\ verdict = Nothing

-----------------------------------------------------------------------------
(* run-rc.sh; RcBenchmark has the detail *)

StartBenchmark(d, target) ==
  /\ Idle /\ bench[d] = Nothing /\ MayUse(d) /\ WorktreeClean
  /\ job' = [script |-> "benchmark", dir |-> d, target |-> target,
             git_commit |-> head, host |-> host, commit |-> 0, built |-> {}]
  /\ UNCHANGED <<env, bench, soak, release, field, verdict>>

(* run-controlled.sh begins an attempt. *)
BenchmarkAttempt ==
  /\ Running("benchmark") /\ job.commit # head
  /\ job' = [job EXCEPT !.commit = head]
  /\ UNCHANGED <<env, bench, soak, release, field, verdict>>

(* A repeat: its host is examined and run-ab.sh builds the images. *)
BenchmarkRepeat ==
  /\ Running("benchmark") /\ job.commit # 0
  /\ job' = [job EXCEPT !.built = @ \union {[commit |-> job.commit, host |-> host, tree |-> Tree]}]
  /\ job' # job
  /\ UNCHANGED <<env, bench, soak, release, field, verdict>>

(* The directory of one attempt, whose repeats decision.py takes from one  *)
(* host, for M14; and the summary of every attempt, when all agree.        *)
EndBenchmark ==
  /\ Running("benchmark")
  /\ \E preferred \in BOOLEAN, c \in 1..commits, h \in Hosts :
       LET repeats  == {repeat \in job.built : repeat.commit = c}
           decision == [class |-> "controlled", preferred |-> preferred, host |-> h]
           ready    == preferred /\ job.built = repeats /\ h = job.host
       IN /\ {repeat.host : repeat \in repeats} = {h}
          /\ bench' = [bench EXCEPT ![job.dir] =
               [git_commit |-> job.git_commit, target |-> job.target, host |-> job.host,
                commit |-> c, strict |-> TRUE, raw |-> decision, decision |-> decision,
                summary |-> IF ready THEN [ready |-> TRUE, commit |-> c, host |-> h]
                            ELSE Nothing,
                trees |-> {repeat.tree : repeat \in repeats}]]
  /\ job' = Nothing
  /\ UNCHANGED <<env, soak, release, field, verdict>>

(* run-controlled.sh and run-soak.sh as CI runs them, not strict. *)
HarnessEvidence(d, target) ==
  /\ Idle /\ bench[d] = Nothing /\ soak[d] = Nothing /\ MayUse(d)
  /\ LET decision == [class |-> "harness_only", preferred |-> FALSE, host |-> host]
     IN bench' = [bench EXCEPT ![d] =
          [git_commit |-> head, target |-> target, host |-> host, commit |-> head,
           strict |-> FALSE, raw |-> decision, decision |-> decision,
           summary |-> Nothing, trees |-> {Tree}]]
  /\ LET report == [class |-> "harness_only", passed |-> FALSE, host |-> host,
                    duration |-> MinSoak]
     IN soak' = [soak EXCEPT ![d] =
          [commit |-> head, target |-> target, strict |-> FALSE, host |-> host,
           raw |-> report, report |-> report, link |-> Nothing, trees |-> {Tree}]]
  /\ UNCHANGED <<job, env, release, field, verdict>>

-----------------------------------------------------------------------------
(* run-rc-soak.sh; SoakRun has the detail *)

Complete(b) == bench[b] # Nothing /\ bench[b].summary # Nothing

(* What run-rc-soak.sh and rc-release-check.sh ask of a benchmark. *)
BenchmarkAgrees(b) ==
  /\ Complete(b) /\ bench[b].summary.ready
  /\ bench[b].summary.commit = bench[b].git_commit
  /\ bench[b].summary.host = bench[b].host
  /\ head = bench[b].git_commit

StartSoak(d, b, seconds) ==
  /\ Idle /\ soak[d] = Nothing /\ MayUse(d) /\ WorktreeClean
  /\ BenchmarkAgrees(b) /\ host = bench[b].host
  /\ seconds >= MinSoak
  /\ job' = [script |-> "soak", dir |-> d, benchmark |-> b, seconds |-> seconds,
             host |-> Nothing, trees |-> {}]
  /\ UNCHANGED <<env, bench, soak, release, field, verdict>>

(* run-soak.sh examines the host and builds the images. *)
SoakBuild ==
  /\ Running("soak") /\ job.trees = {}
  /\ job' = [job EXCEPT !.host = host, !.trees = {Tree}]
  /\ UNCHANGED <<env, bench, soak, release, field, verdict>>

(* run-soak.sh asks for HEAD after the soak; rc_soak.py links a soak that  *)
(* passed.                                                                 *)
EndSoak ==
  /\ Running("soak") /\ job.trees # {}
  /\ \E passed \in BOOLEAN, seconds \in Durations :
       LET report == [class |-> "controlled", passed |-> passed, host |-> job.host,
                      duration |-> seconds]
           run == [commit |-> head, target |-> bench[job.benchmark].target,
                   strict |-> TRUE, host |-> job.host, report |-> report]
       IN /\ seconds <= job.seconds
          /\ soak' = [soak EXCEPT ![job.dir] =
               [commit |-> run.commit, target |-> run.target, strict |-> TRUE,
                host |-> job.host, raw |-> report, report |-> report,
                link |-> EvaluateLink(bench[job.benchmark], run, job.seconds),
                trees |-> job.trees]]
  /\ job' = Nothing
  /\ UNCHANGED <<env, bench, release, field, verdict>>

-----------------------------------------------------------------------------
(* release-check.sh *)

(* The release directory is emptied, the evidence copied into it and       *)
(* evaluated again, unless RELEASE_ALLOW_INCONCLUSIVE is set.              *)
BeginRelease(b, s, target, allow) ==
  /\ bench[b] # Nothing /\ soak[s] # Nothing
  /\ builds < MaxBuilds
  /\ job' = [script |-> "release", target |-> target,
             controlled |-> bench[b], soak |-> soak[s],
             revalidation |-> IF allow THEN "skipped"
                              ELSE IF Revalidates(bench[b], soak[s]) THEN "valid"
                              ELSE "invalid",
             artifact |-> Nothing]
  /\ bundle' = Partial
  /\ UNCHANGED <<env, bench, soak, builds, field, verdict>>

ReleaseCheck(b, s, target, allow) == Idle /\ BeginRelease(b, s, target, allow)

(* rc-release-check.sh keeps to the directories of one campaign, and to a  *)
(* release directory that does not exist; what it asserts of the result    *)
(* changes its exit code alone.                                            *)
RcReleaseCheck(b, s) ==
  /\ Idle /\ bundle = Nothing
  /\ BenchmarkAgrees(b)
  /\ soak[s] # Nothing /\ soak[s].link # Nothing
  /\ soak[s].link.commit = bench[b].git_commit /\ soak[s].link.host = bench[b].host
  /\ BeginRelease(b, s, bench[b].target, FALSE)

(* package-module.sh builds from the worktree. *)
PackageBuild ==
  /\ Running("release") /\ job.artifact = Nothing
  /\ builds' = builds + 1
  /\ job' = [job EXCEPT !.artifact =
       [sha |-> builds + 1, declared |-> builds + 1, target |-> job.target,
        commit |-> 0, tree |-> Tree]]
  /\ UNCHANGED <<env, bench, soak, bundle, field, verdict>>

(* It asks for HEAD after the build. *)
PackageManifest ==
  /\ Running("release") /\ job.artifact # Nothing /\ job.artifact.commit = 0
  /\ job' = [job EXCEPT !.artifact.commit = head]
  /\ UNCHANGED <<env, bench, soak, release, field, verdict>>

PackageFails ==
  /\ Running("release") /\ job.artifact = Nothing
  /\ job' = Nothing
  /\ UNCHANGED <<env, bench, soak, release, field, verdict>>

(* check.py asks for HEAD and for the state of the worktree only now.  The *)
(* gates are what CI wrote of some commit; their file was copied with the  *)
(* evidence, but nothing has read it before.  The copied directories stay  *)
(* in the bundle, where no later script reads them: they are kept for a    *)
(* candidate's history.                                                    *)
Check ==
  /\ Running("release") /\ job.artifact # Nothing /\ job.artifact.commit # 0
  /\ \E gates \in [Gates -> [commit : 1..commits, passed : BOOLEAN, class : Classes]] :
       LET source   == [commit |-> head, dirty |-> ~WorktreeClean]
           all      == CollectBundle(source, gates, job.artifact, job.controlled, job.soak)
           evidence == ApplyRevalidation(EvaluateRelease(all, job.target),
                                         job.revalidation)
           kept(document) == IF evidence.verdict = "release_candidate"
                             THEN document ELSE Nothing
       IN bundle' = [artifact |-> job.artifact, evidence |-> evidence,
                     controlled |-> kept(job.controlled), soak |-> kept(job.soak)]
  /\ job' = Nothing
  /\ UNCHANGED <<env, bench, soak, builds, field, verdict>>

-----------------------------------------------------------------------------
(* Staging, and the operator's notes of it, in the order of the document;  *)
(* any step may be taken again later, and others be left as they were.     *)

Deploy ==
  /\ Idle /\ Candidate /\ deployed # bundle.artifact
  /\ deployed' = bundle.artifact
  /\ UNCHANGED <<job, env, bench, soak, release, saved, native, rollback, staging, verdict>>

SaveDeployed ==
  /\ Idle /\ deployed # Nothing
  /\ saved' = [sha |-> deployed.sha, nginx |-> deployed.target, tree |-> deployed.tree]
  /\ saved' # saved
  /\ UNCHANGED <<job, env, bench, soak, release, deployed, native, rollback, staging, verdict>>

(* run-staging-browser.sh against the native module, in a new directory,   *)
(* here in the place of the last one.                                      *)
NativeBrowser ==
  /\ Idle /\ WorktreeClean /\ saved # Nothing
  /\ native' = [commit |-> head, passed |-> TRUE, endpoints |-> "same"]
  /\ native' # native
  /\ UNCHANGED <<job, env, bench, soak, release, deployed, saved, rollback, staging, verdict>>

(* The same with the traffic on Envoy. *)
RollbackBrowser ==
  /\ Idle /\ WorktreeClean /\ native # Nothing
  /\ \E passed \in BOOLEAN :
       rollback' = [commit |-> head, passed |-> passed, endpoints |-> "same"]
  /\ rollback' # rollback
  /\ UNCHANGED <<job, env, bench, soak, release, deployed, saved, native, staging, verdict>>

(* staging-evidence.sh on the package of the release directory. *)
StagingEvidence ==
  /\ Idle /\ WorktreeClean /\ Released
  /\ staging' = EvaluateStaging(head, bundle.artifact, saved, native, rollback)
  /\ staging' # Nothing
  /\ UNCHANGED <<job, env, bench, soak, release, deployed, saved, native, rollback, verdict>>

-----------------------------------------------------------------------------
(* m15-check.sh *)

(* A mistake: the worktree is not looked at. *)
M15CheckDirty(b, s, waiver) ==
  /\ Idle
  /\ Complete(b) /\ head = bench[b].git_commit
  /\ soak[s] # Nothing /\ soak[s].link # Nothing
  /\ Released /\ staging # Nothing
  /\ M15Ready(bench[b], soak[s].link, staging, bundle.evidence, waiver)
  /\ verdict' = [commit |-> head, benchmark |-> bench[b], soak |-> soak[s]]
  /\ UNCHANGED <<job, env, bench, soak, release, field>>

M15Check(b, s, waiver) ==
  /\ Idle /\ WorktreeClean
  /\ Complete(b) /\ head = bench[b].git_commit
  /\ soak[s] # Nothing /\ soak[s].link # Nothing
  /\ Released /\ staging # Nothing
  /\ M15Ready(bench[b], soak[s].link, staging, bundle.evidence, waiver)
  /\ verdict' = [commit |-> head, benchmark |-> bench[b], soak |-> soak[s]]
  /\ UNCHANGED <<job, env, bench, soak, release, field>>

-----------------------------------------------------------------------------
(* The environment *)

MayChange == verdict = Nothing /\ Events < MaxEvents

(* Edits alone need no bound: there is an edit or there is none. *)
Edit ==
  /\ verdict = Nothing /\ ~edited
  /\ edited' = TRUE
  /\ UNCHANGED <<job, head, commits, undone, host, changes, bench, soak, release, field,
                 verdict>>

(* git restore: the edit is gone and has left no trace. *)
Undo ==
  /\ MayChange /\ edited
  /\ edited' = FALSE
  /\ undone' = undone + 1 /\ changes' = changes + 1
  /\ UNCHANGED <<job, head, commits, host, bench, soak, release, field, verdict>>

(* A new commit, of the edits or of some of them, or one made elsewhere. *)
Commit ==
  /\ MayChange
  /\ head' = commits + 1 /\ commits' = commits + 1
  /\ edited' \in {FALSE, edited}
  /\ changes' = changes + 1
  /\ UNCHANGED <<job, undone, host, bench, soak, release, field, verdict>>

(* HEAD goes to a commit that was there before, with the edits. *)
Checkout ==
  /\ MayChange
  /\ head' \in 1..commits \ {head}
  /\ undone' = undone + 1 /\ changes' = changes + 1
  /\ UNCHANGED <<job, commits, edited, host, bench, soak, release, field, verdict>>

HostChanges ==
  /\ MayChange
  /\ host' \in Hosts \ {host} /\ changes' = changes + 1
  /\ UNCHANGED <<job, git, bench, soak, release, field, verdict>>

(* The decision.json of one directory is copied over that of another. *)
CopyDecision(from, to) ==
  /\ MayChange /\ bench[from] # Nothing /\ bench[to] # Nothing
  /\ bench' = [bench EXCEPT ![to].decision = bench[from].decision]
  /\ bench' # bench /\ changes' = changes + 1
  /\ UNCHANGED <<job, git, host, soak, release, field, verdict>>

CopySoakReport(from, to) ==
  /\ MayChange /\ soak[from] # Nothing /\ soak[to] # Nothing
  /\ soak' = [soak EXCEPT ![to].report = soak[from].report]
  /\ soak' # soak /\ changes' = changes + 1
  /\ UNCHANGED <<job, git, host, bench, release, field, verdict>>

Next ==
  \/ \E d \in Directories, t \in Targets : StartBenchmark(d, t) \/ HarnessEvidence(d, t)
  \/ BenchmarkAttempt \/ BenchmarkRepeat \/ EndBenchmark
  \/ \E d, b \in Directories, seconds \in Durations : StartSoak(d, b, seconds)
  \/ SoakBuild \/ EndSoak
  \/ \E b, s \in Directories :
       \/ RcReleaseCheck(b, s)
       \/ \E t \in Targets, allow \in BOOLEAN : ReleaseCheck(b, s, t, allow)
       \/ \E waiver \in BOOLEAN : M15Check(b, s, waiver)
       \/ CopyDecision(b, s) \/ CopySoakReport(b, s)
  \/ PackageBuild \/ PackageManifest \/ PackageFails \/ Check
  \/ Deploy \/ SaveDeployed \/ NativeBrowser \/ RollbackBrowser \/ StagingEvidence
  \/ Edit \/ Undo \/ Commit \/ Checkout \/ HostChanges

Spec == Init /\ [][Next]_vars

-----------------------------------------------------------------------------
(* Properties *)

(* docs/RELEASE_EVIDENCE.md:9: a copied or stale aggregate makes no        *)
(* release candidate.  What makes one is what the raw files say, of a      *)
(* controlled benchmark and a soak that passed, both on one host.          *)
NothingPromoted ==
  Candidate =>
    LET raw == bundle.controlled.raw  lasted == bundle.soak.raw
    IN /\ raw.class = "controlled" /\ raw.preferred
       /\ lasted.class = "controlled" /\ lasted.passed /\ lasted.duration >= MinSoak
       /\ raw.host = lasted.host

(* The images of the benchmark, those of the soak that is linked to it,    *)
(* those of the bundle's benchmark and the package were built from the     *)
(* commit of the verdict with no edit, although no script builds and asks  *)
(* git at one moment: if one was not, an edit was undone or HEAD went back *)
(* after that build, and the scripts found everything as it should be.     *)
BuiltFromSource ==
  verdict # Nothing =>
    \A tree \in verdict.benchmark.trees \union verdict.soak.trees
                  \union bundle.controlled.trees \union {bundle.artifact.tree} :
      \/ tree.commit = verdict.commit /\ ~tree.edited
      \/ tree.at < undone

(* The package of the release directory is the one that staging ran when   *)
(* its checksum was saved, however often either was rebuilt or deployed    *)
(* again in between.  (The browser runs name no package.)                  *)
StagedIsReleased ==
  verdict # Nothing =>
    /\ staging.saved.sha = bundle.artifact.sha
    /\ staging.saved.tree = bundle.artifact.tree

(* The benchmark and the soak of M15 and those inside the release bundle,  *)
(* which may come from other campaigns, were all measured on one host.     *)
OneHost ==
  verdict # Nothing =>
    /\ verdict.benchmark.raw.host = verdict.soak.raw.host
    /\ bundle.controlled.raw.host = verdict.benchmark.raw.host
    /\ bundle.soak.raw.host = verdict.benchmark.raw.host

(* docs/RELEASE_EVIDENCE.md:154-156: the soak of controlled release        *)
(* evidence is one of the same source commit.                              *)
SoakOfCommit ==
  Candidate => \A tree \in bundle.soak.trees : tree.commit = bundle.evidence.commit
=============================================================================
