-------------------------- MODULE ReleaseFlowProofs --------------------------
(***************************************************************************)
(* What a release candidate and a verdict of M15 stand for, for any number *)
(* of directories, hosts, targets, packages and changes.                   *)
(*                                                                         *)
(* No script sees build and commit at one moment.  The argument for        *)
(* BuiltFromSource follows each tree from the commit that was named before *)
(* it was built (Stands): by the attempt's manifest for a repeat, by the   *)
(* benchmark for its soak, and, because the manifest of a package is       *)
(* written after the build, by the copied benchmark for the package.       *)
(* While HEAD is at that commit and nothing has been undone, the tree is   *)
(* of it, with no edit that the worktree has lost: HEAD leaves the commit  *)
(* only for one that nothing names yet or, counted by undone, for one that *)
(* was there before.                                                       *)
(***************************************************************************)
EXTENDS ReleaseFlow, TLAPS

-----------------------------------------------------------------------------
(* Types *)

Trees == [commit : Nat, edited : BOOLEAN, at : Nat]
RepeatDocs == [commit : Nat, host : Hosts, tree : Trees]
Decisions == [class : Classes, preferred : BOOLEAN, host : Hosts]
Reports == [class : Classes, passed : BOOLEAN, host : Hosts, duration : Nat]
Summaries == [ready : {TRUE}, commit : Nat, host : Hosts]
BenchDocs ==
  [git_commit : Nat, target : Targets, host : Hosts, commit : Nat, strict : BOOLEAN,
   raw : Decisions, decision : Decisions, summary : Summaries \union {Nothing},
   trees : SUBSET Trees]
Links == [ready : {TRUE}, commit : Nat, target : Targets, host : Hosts, duration : Nat]
SoakDocs ==
  [commit : Nat, target : Targets, strict : BOOLEAN, host : Hosts, raw : Reports,
   report : Reports, link : Links \union {Nothing}, trees : SUBSET Trees]
Artifacts == [sha : Nat, declared : Nat, target : Targets, commit : Nat, tree : Trees]
BenchJobs ==
  [script : {"benchmark"}, dir : Directories, target : Targets, git_commit : Nat,
   host : Hosts, commit : Nat, built : SUBSET RepeatDocs]
SoakJobs ==
  [script : {"soak"}, dir : Directories, benchmark : Directories, seconds : Durations,
   host : Hosts \union {Nothing}, trees : SUBSET Trees]
ReleaseJobs ==
  [script : {"release"}, target : Targets, controlled : BenchDocs, soak : SoakDocs,
   revalidation : {"skipped", "valid", "invalid"}, artifact : Artifacts \union {Nothing}]

Types ==
  /\ job \in {Nothing} \union BenchJobs \union SoakJobs \union ReleaseJobs
  /\ head \in Nat \ {0} /\ commits \in Nat /\ head <= commits
  /\ edited \in BOOLEAN /\ undone \in Nat /\ host \in Hosts /\ builds \in Nat
  /\ bench \in [Directories -> {Nothing} \union BenchDocs]
  /\ soak \in [Directories -> {Nothing} \union SoakDocs]
  /\ Released => bundle.artifact \in Artifacts
  /\ deployed \in {Nothing} \union Artifacts

-----------------------------------------------------------------------------
(* The invariant, part by part; w is the world of git that a document is   *)
(* compared with.                                                          *)

Worlds == [head : Nat, commits : Nat, edited : BOOLEAN, undone : Nat]
World == [head |-> head, commits |-> commits, edited |-> edited, undone |-> undone]

(* What a tree that was built after commit c had been named is known by.   *)
Stands(c, tree, w) ==
  /\ c <= w.commits /\ tree.at <= w.undone
  /\ \/ tree.at < w.undone
     \/ c = w.head => tree.commit = c /\ (tree.edited => w.edited)

(* A benchmark directory: its trees were built after the commit it names   *)
(* was asked for, and its summary says what its raw files say.             *)
BenchSound(b, w) ==
  /\ b.commit <= w.commits /\ b.git_commit <= w.commits
  /\ \A tree \in b.trees : Stands(b.commit, tree, w)
  /\ b.summary # Nothing => b.summary.host = b.raw.host /\ b.summary.commit = b.commit

(* A soak directory: its trees are of the benchmark that it is linked to;  *)
(* its own manifest may name another commit.                               *)
SoakSound(s, w) ==
  s.link # Nothing => /\ s.link.host = s.raw.host
                      /\ \A tree \in s.trees : Stands(s.link.commit, tree, w)

BenchJobSound(j, w) ==
  /\ j.commit <= w.commits /\ j.git_commit <= w.commits
  /\ \A repeat \in j.built : Stands(repeat.commit, repeat.tree, w)

SoakJobSound(j, origin, w) ==
  /\ j.trees # {} => j.host \in Hosts
  /\ \A tree \in j.trees : Stands(origin.git_commit, tree, w)

(* A package is built after the benchmark was copied. *)
ReleaseJobSound(j, w) ==
  /\ BenchSound(j.controlled, w)
  /\ j.revalidation = "valid" => Revalidates(j.controlled, j.soak)
  /\ j.artifact # Nothing => Stands(j.controlled.commit, j.artifact.tree, w)

CandidateSound(c, w) ==
  /\ c.controlled \in BenchDocs /\ BenchSound(c.controlled, w)
  /\ Revalidates(c.controlled, c.soak)
  /\ c.controlled.decision.preferred
  /\ c.soak.report.class = "controlled" /\ c.soak.report.passed
  /\ c.soak.report.duration >= MinSoak
  /\ c.controlled.decision.host = c.soak.report.host
  /\ c.evidence.controlled_host = c.controlled.decision.host
  /\ c.evidence.soak_host = c.soak.report.host
  /\ c.evidence.commit = c.controlled.commit
  /\ Stands(c.evidence.commit, c.artifact.tree, w)

BenchInv == \A d \in Directories : bench[d] # Nothing => BenchSound(bench[d], World)
SoakInv  == \A d \in Directories : soak[d] # Nothing => SoakSound(soak[d], World)
JobInv ==
  /\ Running("benchmark") => BenchJobSound(job, World)
  /\ Running("soak") => /\ bench[job.benchmark] # Nothing
                        /\ SoakJobSound(job, bench[job.benchmark], World)
  /\ Running("release") => ReleaseJobSound(job, World)
BundleInv ==
  /\ Released => bundle.evidence.sha = bundle.artifact.sha
  /\ Candidate => CandidateSound(bundle, World)

(* What is known of packages, wherever it is kept: a checksum that was     *)
(* given out belongs to one tree.                                          *)
BuildId(a) == [sha |-> a.sha, tree |-> a.tree]
KnownBuilds ==
  UNION {IF Running("release") /\ job.artifact # Nothing THEN {BuildId(job.artifact)} ELSE {},
         IF Released THEN {BuildId(bundle.artifact)} ELSE {},
         IF deployed # Nothing THEN {BuildId(deployed)} ELSE {},
         IF saved # Nothing THEN {BuildId(saved)} ELSE {},
         IF staging # Nothing THEN {BuildId(staging.saved)} ELSE {}}

OneTreePerBuild ==
  /\ \A a \in KnownBuilds : a.sha \in Nat /\ a.sha <= builds
  /\ \A a, b \in KnownBuilds : a.sha = b.sha => a.tree = b.tree

StagingInv == staging # Nothing => staging.sha = staging.saved.sha

VerdictInv ==
  verdict # Nothing => job = Nothing /\ BuiltFromSource /\ StagedIsReleased /\ OneHost

IInv ==
  /\ Types /\ BenchInv /\ SoakInv /\ JobInv /\ BundleInv
  /\ OneTreePerBuild /\ StagingInv /\ VerdictInv

-----------------------------------------------------------------------------
(* What becomes of the world. *)

Later(w, w2) ==
  /\ w.commits <= w2.commits
  /\ \/ w.undone < w2.undone
     \/ /\ w2.undone = w.undone
        /\ w2.head > w.commits \/ (w2.head = w.head /\ (w.edited => w2.edited))

(* A new commit, an edit more, or anything undone, leaves what is known of *)
(* a tree: this is why the worktree may change at any time under the       *)
(* scripts.                                                                *)
LEMMA StandsKept ==
  ASSUME NEW w \in Worlds, NEW w2 \in Worlds, Later(w, w2)
  PROVE  /\ \A c \in Nat, tree \in Trees : Stands(c, tree, w) => Stands(c, tree, w2)
         /\ \A c \in Nat : c <= w.commits => c <= w2.commits
<1>1. /\ w.commits \in Nat /\ w2.commits \in Nat /\ w.undone \in Nat /\ w2.undone \in Nat
      /\ w.head \in Nat /\ w2.head \in Nat /\ w.commits <= w2.commits
  BY DEF Worlds, Later
<1>2. ASSUME NEW c \in Nat, NEW tree \in Trees, Stands(c, tree, w)
      PROVE  Stands(c, tree, w2)
  <2>1. /\ tree.at \in Nat /\ tree.at <= w.undone /\ c <= w.commits
    BY <1>2 DEF Stands, Trees
  <2>2. c <= w2.commits
    BY <1>1, <2>1
  <2>3. CASE w.undone < w2.undone
    <3>1. tree.at < w2.undone /\ tree.at <= w2.undone
      BY <1>1, <2>1, <2>3
    <3>. QED BY <2>2, <3>1 DEF Stands
  <2>4. CASE w2.undone = w.undone /\ w2.head > w.commits
    <3>1. c # w2.head
      BY <1>1, <2>1, <2>4
    <3>. QED BY <2>1, <2>2, <2>4, <3>1 DEF Stands
  <2>5. CASE w2.undone = w.undone /\ w2.head = w.head /\ (w.edited => w2.edited)
    BY <1>2, <2>1, <2>2, <2>5 DEF Stands
  <2>. QED BY <2>3, <2>4, <2>5 DEF Later
<1>3. ASSUME NEW c \in Nat, c <= w.commits
      PROVE  c <= w2.commits
  BY <1>1, <1>3
<1>. QED BY <1>2, <1>3

(* The same of everything that is kept in directories. *)
LEMMA DocumentsKept ==
  ASSUME NEW w \in Worlds, NEW w2 \in Worlds, Later(w, w2)
  PROVE  /\ \A b \in BenchDocs : BenchSound(b, w) => BenchSound(b, w2)
         /\ \A s \in SoakDocs : SoakSound(s, w) => SoakSound(s, w2)
<1>1. ASSUME NEW b \in BenchDocs, BenchSound(b, w)
      PROVE  BenchSound(b, w2)
  <2>1. b.commit \in Nat /\ b.git_commit \in Nat /\ b.trees \subseteq Trees
    BY DEF BenchDocs
  <2>. QED BY <1>1, <2>1, StandsKept DEF BenchSound
<1>2. ASSUME NEW s \in SoakDocs, SoakSound(s, w)
      PROVE  SoakSound(s, w2)
  <2>1. s.trees \subseteq Trees /\ (s.link # Nothing => s.link.commit \in Nat)
    BY DEF SoakDocs, Links
  <2>. QED BY <1>2, <2>1, StandsKept DEF SoakSound
<1>. QED BY <1>1, <1>2

(* And of what a running script has read. *)
LEMMA JobsKept ==
  ASSUME NEW w \in Worlds, NEW w2 \in Worlds, Later(w, w2)
  PROVE  /\ \A j \in BenchJobs : BenchJobSound(j, w) => BenchJobSound(j, w2)
         /\ \A j \in SoakJobs, b \in BenchDocs :
              SoakJobSound(j, b, w) => SoakJobSound(j, b, w2)
         /\ \A j \in ReleaseJobs : ReleaseJobSound(j, w) => ReleaseJobSound(j, w2)
<1>1. ASSUME NEW j \in BenchJobs, BenchJobSound(j, w)
      PROVE  BenchJobSound(j, w2)
  <2>1. /\ j.commit \in Nat /\ j.git_commit \in Nat
        /\ \A r \in j.built : r.tree \in Trees /\ r.commit \in Nat
    BY DEF BenchJobs, RepeatDocs
  <2>. QED BY <1>1, <2>1, StandsKept DEF BenchJobSound
<1>2. ASSUME NEW j \in SoakJobs, NEW b \in BenchDocs, SoakJobSound(j, b, w)
      PROVE  SoakJobSound(j, b, w2)
  <2>1. j.trees \subseteq Trees /\ b.git_commit \in Nat
    BY DEF SoakJobs, BenchDocs
  <2>. QED BY <1>2, <2>1, StandsKept DEF SoakJobSound
<1>3. ASSUME NEW j \in ReleaseJobs, ReleaseJobSound(j, w)
      PROVE  ReleaseJobSound(j, w2)
  <2>1. /\ j.controlled \in BenchDocs /\ (j.artifact # Nothing => j.artifact.tree \in Trees)
        /\ j.controlled.commit \in Nat
    BY DEF ReleaseJobs, Artifacts, BenchDocs
  <2>. QED BY <1>3, <2>1, StandsKept, DocumentsKept DEF ReleaseJobSound
<1>. QED BY <1>1, <1>2, <1>3

(* And of the release directory. *)
LEMMA BundlesKept ==
  ASSUME NEW w \in Worlds, NEW w2 \in Worlds, Later(w, w2),
         NEW c, c.artifact \in Artifacts, CandidateSound(c, w)
  PROVE  CandidateSound(c, w2)
<1>1. c.artifact.tree \in Trees /\ c.evidence.commit \in Nat
  BY DEF Artifacts, CandidateSound, BenchDocs
<1>2. Stands(c.evidence.commit, c.artifact.tree, w2)
  BY <1>1, StandsKept DEF CandidateSound
<1>3. BenchSound(c.controlled, w2)
  BY DocumentsKept DEF CandidateSound
<1>. QED BY <1>2, <1>3 DEF CandidateSound

(* The world as it is. *)
LEMMA WorldFacts ==
  ASSUME Types
  PROVE  /\ World \in Worlds
         /\ World.head = head /\ World.commits = commits
         /\ World.edited = edited /\ World.undone = undone
BY DEF Types, World, Worlds

LEMMA WorldStays ==
  ASSUME UNCHANGED git
  PROVE  World' = World
BY DEF git, World

-----------------------------------------------------------------------------
(* What the kinds of documents and jobs are told apart by. *)

LEMMA Kinds ==
  /\ Nothing \notin BenchDocs /\ Nothing \notin SoakDocs /\ Nothing \notin Artifacts
  /\ Nothing \notin BenchJobs /\ Nothing \notin SoakJobs /\ Nothing \notin ReleaseJobs
  /\ \A j \in BenchJobs : j.script = "benchmark"
  /\ \A j \in SoakJobs : j.script = "soak"
  /\ \A j \in ReleaseJobs : j.script = "release"
<1>1. Nothing \notin BenchDocs /\ Nothing \notin SoakDocs /\ Nothing \notin Artifacts
  BY DEF Nothing, BenchDocs, SoakDocs, Artifacts
<1>2. Nothing \notin BenchJobs /\ Nothing \notin SoakJobs /\ Nothing \notin ReleaseJobs
  BY DEF Nothing, BenchJobs, SoakJobs, ReleaseJobs
<1>. QED BY <1>1, <1>2 DEF BenchJobs, SoakJobs, ReleaseJobs

LEMMA JobKinds ==
  ASSUME Types
  PROVE  /\ Running("benchmark") => job \in BenchJobs
         /\ Running("soak") => job \in SoakJobs
         /\ Running("release") => job \in ReleaseJobs
         /\ job # Nothing => Running("benchmark") \/ Running("soak") \/ Running("release")
BY Kinds DEF Types, Running

LEMMA NextJobKinds ==
  /\ job' \in BenchJobs => Running("benchmark")' /\ ~Running("soak")' /\ ~Running("release")'
  /\ job' \in SoakJobs => Running("soak")' /\ ~Running("benchmark")' /\ ~Running("release")'
  /\ job' \in ReleaseJobs => Running("release")' /\ ~Running("benchmark")' /\ ~Running("soak")'
  /\ job' = Nothing => ~Running("benchmark")' /\ ~Running("soak")' /\ ~Running("release")'
BY Kinds DEF Running

(* What an action leaves alone stays as it was. *)
LEMMA Frame ==
  ASSUME IInv
  PROVE  /\ UNCHANGED <<bench, git>> => BenchInv'
         /\ UNCHANGED <<soak, git>> => SoakInv'
         /\ UNCHANGED <<job, bench, git>> => JobInv'
         /\ UNCHANGED <<bundle, git>> => BundleInv'
         /\ UNCHANGED staging => StagingInv'
         /\ verdict = Nothing /\ UNCHANGED verdict => VerdictInv'
         /\ builds' = builds /\ KnownBuilds' \subseteq KnownBuilds => OneTreePerBuild'
         /\ UNCHANGED <<job, bundle, deployed, saved, staging>> => KnownBuilds' = KnownBuilds
         /\ ~Running("release")' /\ UNCHANGED <<bundle, deployed, saved, staging>>
              => KnownBuilds' \subseteq KnownBuilds
<1>1. UNCHANGED <<bench, git>> => BenchInv'
  BY WorldStays DEF IInv, BenchInv
<1>2. UNCHANGED <<soak, git>> => SoakInv'
  BY WorldStays DEF IInv, SoakInv
<1>3. UNCHANGED <<job, bench, git>> => JobInv'
  BY WorldStays DEF IInv, JobInv, Running
<1>4. UNCHANGED <<bundle, git>> => BundleInv'
  BY WorldStays DEF IInv, BundleInv, Released, Candidate
<1>5. UNCHANGED staging => StagingInv'
  BY DEF IInv, StagingInv
<1>6. verdict = Nothing /\ UNCHANGED verdict => VerdictInv'
  BY DEF VerdictInv
<1>7. builds' = builds /\ KnownBuilds' \subseteq KnownBuilds => OneTreePerBuild'
  BY DEF IInv, OneTreePerBuild
<1>8. UNCHANGED <<job, bundle, deployed, saved, staging>> => KnownBuilds' = KnownBuilds
  BY DEF KnownBuilds, Running, Released
<1>9. ASSUME ~Running("release")', UNCHANGED <<bundle, deployed, saved, staging>>
      PROVE  KnownBuilds' \subseteq KnownBuilds
  <2>1. Released' = Released
    BY <1>9 DEF Released
  <2>. QED BY <1>9, <2>1 DEF KnownBuilds
<1>. QED BY <1>1, <1>2, <1>3, <1>4, <1>5, <1>6, <1>7, <1>8, <1>9

(* A verdict is the end. *)
LEMMA VerdictEnds ==
  ASSUME IInv, Next
  PROVE  verdict = Nothing
<1>1. verdict # Nothing => job = Nothing
  BY DEF IInv, VerdictInv
<1>. QED
  BY <1>1 DEF Next, Idle, Running, MayChange, StartBenchmark, HarnessEvidence,
     BenchmarkAttempt, BenchmarkRepeat, EndBenchmark, StartSoak, SoakBuild, EndSoak,
     RcReleaseCheck, ReleaseCheck, PackageBuild, PackageManifest, PackageFails, Check,
     Deploy, SaveDeployed, NativeBrowser, RollbackBrowser, StagingEvidence, M15Check,
     Edit, Undo, Commit, Checkout, HostChanges, CopyDecision, CopySoakReport

-----------------------------------------------------------------------------
(* The environment *)

(* The worktree, HEAD and the machine may change under every script. *)
LEMMA EnvironmentKeeps ==
  ASSUME IInv, verdict = Nothing,
         head' \in Nat \ {0}, commits' \in Nat, head' <= commits',
         edited' \in BOOLEAN, undone' \in Nat, host' \in Hosts,
         Later(World, World'),
         UNCHANGED <<job, bench, soak, release, field, verdict>>
  PROVE  IInv'
<1>. USE DEF release, field
<1>1. Types'
  BY DEF IInv, Types, git, Released
<1>2. World \in Worlds /\ World' \in Worlds
  BY WorldFacts DEF IInv, Types, World, Worlds
<1>3. BenchInv'
  <2>. SUFFICES ASSUME NEW d \in Directories, bench[d] # Nothing
                PROVE  BenchSound(bench[d], World')
    BY DEF BenchInv
  <2>1. bench[d] \in BenchDocs
    BY DEF IInv, Types
  <2>. QED BY <1>2, <2>1, DocumentsKept DEF IInv, BenchInv
<1>4. SoakInv'
  <2>. SUFFICES ASSUME NEW d \in Directories, soak[d] # Nothing
                PROVE  SoakSound(soak[d], World')
    BY DEF SoakInv
  <2>1. soak[d] \in SoakDocs
    BY DEF IInv, Types
  <2>. QED BY <1>2, <2>1, DocumentsKept DEF IInv, SoakInv
<1>5. JobInv'
  <2>1. Running("benchmark")' => BenchJobSound(job, World')
    BY <1>2, JobsKept, JobKinds DEF IInv, JobInv, Running
  <2>2. Running("soak")' => /\ bench[job.benchmark] # Nothing
                            /\ SoakJobSound(job, bench[job.benchmark], World')
    <3>. SUFFICES ASSUME Running("soak")
                  PROVE  /\ bench[job.benchmark] # Nothing
                         /\ SoakJobSound(job, bench[job.benchmark], World')
      BY DEF Running
    <3>1. job \in SoakJobs /\ job.benchmark \in Directories
      BY JobKinds DEF IInv, SoakJobs
    <3>2. bench[job.benchmark] # Nothing /\ bench[job.benchmark] \in BenchDocs
      BY <3>1 DEF IInv, JobInv, Types
    <3>. QED BY <1>2, <3>1, <3>2, JobsKept DEF IInv, JobInv
  <2>3. Running("release")' => ReleaseJobSound(job, World')
    BY <1>2, JobsKept, JobKinds DEF IInv, JobInv, Running
  <2>. QED BY <2>1, <2>2, <2>3 DEF JobInv
<1>6. BundleInv'
  <2>1. Candidate => CandidateSound(bundle, World')
    BY <1>2, BundlesKept DEF IInv, BundleInv, Candidate, Types
  <2>. QED BY <2>1 DEF IInv, BundleInv, Candidate, Released
<1>. QED BY <1>1, <1>3, <1>4, <1>5, <1>6, Frame DEF IInv

LEMMA EditKeeps ==
  ASSUME IInv, Edit
  PROVE  IInv'
<1>1. Later(World, World')
  BY DEF Edit, IInv, Types, World, Later
<1>. QED BY <1>1, EnvironmentKeeps DEF Edit, IInv, Types, release, field

LEMMA UndoKeeps ==
  ASSUME IInv, Undo
  PROVE  IInv'
<1>1. Later(World, World')
  BY DEF Undo, IInv, Types, World, Later
<1>2. edited' \in BOOLEAN
  BY DEF Undo
<1>3. /\ head' \in Nat \ {0} /\ commits' \in Nat /\ head' <= commits'
      /\ undone' \in Nat /\ host' \in Hosts
  BY DEF Undo, IInv, Types
<1>4. verdict = Nothing /\ UNCHANGED <<job, bench, soak, release, field, verdict>>
  BY DEF Undo, MayChange
<1>. QED BY <1>1, <1>2, <1>3, <1>4, EnvironmentKeeps

LEMMA CommitKeeps ==
  ASSUME IInv, Commit
  PROVE  IInv'
<1>1. Later(World, World')
  BY DEF Commit, IInv, Types, World, Later
<1>2. edited' \in BOOLEAN
  BY DEF Commit, IInv, Types
<1>. QED BY <1>1, <1>2, EnvironmentKeeps DEF Commit, MayChange, IInv, Types, release, field

LEMMA CheckoutKeeps ==
  ASSUME IInv, Checkout
  PROVE  IInv'
<1>1. Later(World, World')
  BY DEF Checkout, IInv, Types, World, Later
<1>. QED BY <1>1, EnvironmentKeeps DEF Checkout, MayChange, IInv, Types, release, field

LEMMA HostChangesKeeps ==
  ASSUME IInv, HostChanges
  PROVE  IInv'
<1>1. Later(World, World')
  BY DEF HostChanges, IInv, Types, World, git, Later
<1>. QED BY <1>1, EnvironmentKeeps DEF HostChanges, MayChange, IInv, Types, git, release, field

(* A copied aggregate changes one field, which no other part relies on. *)
LEMMA CopyDecisionKeeps ==
  ASSUME IInv, NEW from \in Directories, NEW to \in Directories, CopyDecision(from, to)
  PROVE  IInv'
<1>. USE DEF CopyDecision, MayChange, release, field
<1>1. bench[from] \in BenchDocs /\ bench[to] \in BenchDocs
  BY DEF IInv, Types
<1>. DEFINE new == [bench[to] EXCEPT !.decision = bench[from].decision]
<1>2. bench' = [bench EXCEPT ![to] = new]
  OBVIOUS
<1>3. /\ new \in BenchDocs
      /\ new.commit = bench[to].commit /\ new.git_commit = bench[to].git_commit
      /\ new.trees = bench[to].trees /\ new.summary = bench[to].summary
      /\ new.raw = bench[to].raw
  BY <1>1 DEF BenchDocs
<1>. HIDE DEF new
<1>4. new # Nothing
  BY <1>3, Kinds
<1>5. bench \in [Directories -> {Nothing} \union BenchDocs]
  BY DEF IInv, Types
<1>6. /\ bench' \in [Directories -> {Nothing} \union BenchDocs]
      /\ \A d \in Directories : bench'[d] = IF d = to THEN new ELSE bench[d]
  BY <1>2, <1>3, <1>5
<1>7. Types'
  BY <1>6 DEF IInv, Types, git, Released
<1>8. BenchInv'
  <2>1. BenchSound(new, World)
    BY <1>3 DEF IInv, BenchInv, BenchSound
  <2>. QED BY <1>6, <2>1, WorldStays DEF IInv, BenchInv
<1>9. JobInv'
  <2>1. ASSUME Running("soak")
        PROVE  /\ bench'[job.benchmark] # Nothing
               /\ SoakJobSound(job, bench'[job.benchmark], World)
    <3>1. job.benchmark \in Directories
      BY <2>1, JobKinds DEF IInv, SoakJobs
    <3>2. /\ bench[job.benchmark] # Nothing
          /\ SoakJobSound(job, bench[job.benchmark], World)
      BY <2>1 DEF IInv, JobInv
    <3>. QED BY <1>3, <1>4, <1>6, <3>1, <3>2 DEF SoakJobSound
  <2>. QED BY <2>1, WorldStays DEF IInv, JobInv, Running
<1>. QED BY <1>7, <1>8, <1>9, Frame DEF IInv

LEMMA CopySoakReportKeeps ==
  ASSUME IInv, NEW from \in Directories, NEW to \in Directories, CopySoakReport(from, to)
  PROVE  IInv'
<1>. USE DEF CopySoakReport, MayChange, release, field
<1>1. soak[from] \in SoakDocs /\ soak[to] \in SoakDocs
  BY DEF IInv, Types
<1>. DEFINE new == [soak[to] EXCEPT !.report = soak[from].report]
<1>2. soak' = [soak EXCEPT ![to] = new]
  OBVIOUS
<1>3. /\ new \in SoakDocs
      /\ new.trees = soak[to].trees /\ new.link = soak[to].link /\ new.raw = soak[to].raw
  BY <1>1 DEF SoakDocs
<1>. HIDE DEF new
<1>4. soak \in [Directories -> {Nothing} \union SoakDocs]
  BY DEF IInv, Types
<1>5. /\ soak' \in [Directories -> {Nothing} \union SoakDocs]
      /\ \A d \in Directories : soak'[d] = IF d = to THEN new ELSE soak[d]
  BY <1>2, <1>3, <1>4
<1>6. Types'
  BY <1>5 DEF IInv, Types, git, Released
<1>7. SoakInv'
  <2>1. SoakSound(new, World)
    BY <1>3 DEF IInv, SoakInv, SoakSound
  <2>. QED BY <1>5, <2>1, WorldStays DEF IInv, SoakInv
<1>. QED BY <1>6, <1>7, Frame DEF IInv

-----------------------------------------------------------------------------
(* The benchmark *)

(* A tree that is built now is of HEAD's commit and edited as the worktree *)
(* is, whatever commit was named before.                                   *)
LEMMA TreeStands ==
  ASSUME Types
  PROVE  /\ Tree \in Trees /\ Tree.commit = head
         /\ \A c \in Nat : c <= commits => Stands(c, Tree, World)
BY DEF Types, Tree, Trees, Stands, World

LEMMA StartBenchmarkKeeps ==
  ASSUME IInv, NEW d \in Directories, NEW target \in Targets, StartBenchmark(d, target)
  PROVE  IInv'
<1>. USE DEF StartBenchmark, Idle, env, release, field
<1>1. Types
  BY DEF IInv
<1>2. job' \in BenchJobs
  BY <1>1 DEF Types, BenchJobs
<1>3. BenchJobSound(job', World)
  BY <1>1, WorldFacts DEF Types, BenchJobSound
<1>4. Types'
  BY <1>1, <1>2 DEF Types, git, Released
<1>5. JobInv'
  BY <1>2, <1>3, NextJobKinds, WorldStays DEF JobInv
<1>. QED BY <1>2, <1>4, <1>5, NextJobKinds, Frame DEF IInv

LEMMA BenchmarkAttemptKeeps ==
  ASSUME IInv, BenchmarkAttempt
  PROVE  IInv'
<1>. USE DEF BenchmarkAttempt, env, release, field
<1>1. Types /\ job \in BenchJobs /\ BenchJobSound(job, World)
  BY JobKinds DEF IInv, JobInv
<1>2. job' \in BenchJobs
  BY <1>1 DEF Types, BenchJobs
<1>3. BenchJobSound(job', World)
  BY <1>1, WorldFacts DEF Types, BenchJobSound, BenchJobs
<1>4. Types'
  BY <1>1, <1>2 DEF Types, git, Released
<1>5. JobInv'
  BY <1>2, <1>3, NextJobKinds, WorldStays DEF JobInv
<1>6. verdict = Nothing
  BY VerdictEnds DEF Next
<1>. QED BY <1>2, <1>4, <1>5, <1>6, NextJobKinds, Frame DEF IInv

(* The attempt's commit was asked for before the repeat's images are built. *)
LEMMA BenchmarkRepeatKeeps ==
  ASSUME IInv, BenchmarkRepeat
  PROVE  IInv'
<1>. USE DEF BenchmarkRepeat, env, release, field
<1>1. Types /\ job \in BenchJobs /\ BenchJobSound(job, World)
  BY JobKinds DEF IInv, JobInv
<1>. DEFINE repeat == [commit |-> job.commit, host |-> host, tree |-> Tree]
<1>2. repeat \in RepeatDocs /\ repeat.tree = Tree /\ repeat.commit = job.commit
  BY <1>1, TreeStands DEF Types, BenchJobs, RepeatDocs
<1>3. job' = [job EXCEPT !.built = @ \union {repeat}]
  OBVIOUS
<1>. HIDE DEF repeat
<1>4. job' \in BenchJobs /\ job'.built = job.built \union {repeat}
      /\ job'.commit = job.commit /\ job'.git_commit = job.git_commit
  BY <1>1, <1>2, <1>3 DEF BenchJobs
<1>5. BenchJobSound(job', World)
  <2>1. Stands(repeat.commit, repeat.tree, World)
    BY <1>1, <1>2, TreeStands, WorldFacts DEF BenchJobSound, BenchJobs
  <2>. QED BY <1>1, <1>4, <2>1 DEF BenchJobSound
<1>6. Types'
  BY <1>1, <1>4 DEF Types, git, Released
<1>7. JobInv'
  BY <1>4, <1>5, NextJobKinds, WorldStays DEF JobInv
<1>8. verdict = Nothing
  BY VerdictEnds DEF Next
<1>. QED BY <1>4, <1>6, <1>7, <1>8, NextJobKinds, Frame DEF IInv

LEMMA EndBenchmarkKeeps ==
  ASSUME IInv, EndBenchmark
  PROVE  IInv'
<1>. USE DEF env, release, field
<1>1. Types /\ job \in BenchJobs /\ BenchJobSound(job, World)
  BY JobKinds DEF IInv, JobInv, EndBenchmark
<1>2. PICK preferred \in BOOLEAN, c \in 1..commits, h \in Hosts :
        LET repeats  == {repeat \in job.built : repeat.commit = c}
            decision == [class |-> "controlled", preferred |-> preferred, host |-> h]
            ready    == preferred /\ job.built = repeats /\ h = job.host
        IN /\ {repeat.host : repeat \in repeats} = {h}
           /\ bench' = [bench EXCEPT ![job.dir] =
                [git_commit |-> job.git_commit, target |-> job.target, host |-> job.host,
                 commit |-> c, strict |-> TRUE, raw |-> decision, decision |-> decision,
                 summary |-> IF ready THEN [ready |-> TRUE, commit |-> c, host |-> h]
                             ELSE Nothing,
                 trees |-> {repeat.tree : repeat \in repeats}]]
  BY DEF EndBenchmark
<1>. DEFINE repeats  == {repeat \in job.built : repeat.commit = c}
            decision == [class |-> "controlled", preferred |-> preferred, host |-> h]
            summary  == IF preferred /\ job.built = repeats /\ h = job.host
                        THEN [ready |-> TRUE, commit |-> c, host |-> h] ELSE Nothing
            trees    == {repeat.tree : repeat \in repeats}
            new == [git_commit |-> job.git_commit, target |-> job.target, host |-> job.host,
                    commit |-> c, strict |-> TRUE, raw |-> decision, decision |-> decision,
                    summary |-> summary, trees |-> trees]
<1>3. bench' = [bench EXCEPT ![job.dir] = new]
  BY <1>2
<1>4. decision \in Decisions /\ decision.host = h
  BY DEF Decisions, Classes
<1>5. c \in Nat /\ c <= World.commits
  BY <1>1, WorldFacts DEF Types
<1>6. /\ summary \in Summaries \union {Nothing}
      /\ summary # Nothing => summary.commit = c /\ summary.host = h
  BY <1>5 DEF Summaries
<1>7. /\ trees \in SUBSET Trees
      /\ \A tree \in trees : Stands(c, tree, World)
  BY <1>1 DEF BenchJobs, RepeatDocs, BenchJobSound
<1>. HIDE DEF decision, summary, trees
<1>8. new \in BenchDocs /\ job.dir \in Directories
  BY <1>1, <1>4, <1>5, <1>6, <1>7 DEF BenchDocs, BenchJobs
<1>9. BenchSound(new, World)
  BY <1>1, <1>4, <1>5, <1>6, <1>7 DEF BenchSound, BenchJobSound
<1>. HIDE DEF new
<1>10. /\ bench' \in [Directories -> {Nothing} \union BenchDocs]
       /\ \A x \in Directories : bench'[x] = IF x = job.dir THEN new ELSE bench[x]
  BY <1>1, <1>3, <1>8 DEF Types
<1>11. Types'
  BY <1>1, <1>10 DEF Types, git, Released, EndBenchmark
<1>12. BenchInv'
  BY <1>9, <1>10, WorldStays DEF IInv, BenchInv, EndBenchmark
<1>13. job' = Nothing /\ verdict = Nothing
  BY VerdictEnds DEF Next, EndBenchmark
<1>14. JobInv'
  BY <1>13, NextJobKinds, WorldStays DEF JobInv
<1>. QED BY <1>11, <1>12, <1>13, <1>14, NextJobKinds, Frame DEF IInv, EndBenchmark

LEMMA HarnessEvidenceKeeps ==
  ASSUME IInv, NEW d \in Directories, NEW target \in Targets, HarnessEvidence(d, target)
  PROVE  IInv'
<1>. USE DEF HarnessEvidence, Idle, env, release, field
<1>1. /\ Types /\ Tree \in Trees /\ Stands(head, Tree, World)
      /\ World.commits = commits
  BY TreeStands, WorldFacts DEF IInv, Types
<1>. DEFINE decision == [class |-> "harness_only", preferred |-> FALSE, host |-> host]
            b == [git_commit |-> head, target |-> target, host |-> host, commit |-> head,
                  strict |-> FALSE, raw |-> decision, decision |-> decision,
                  summary |-> Nothing, trees |-> {Tree}]
            report == [class |-> "harness_only", passed |-> FALSE, host |-> host,
                       duration |-> MinSoak]
            s == [commit |-> head, target |-> target, strict |-> FALSE, host |-> host,
                  raw |-> report, report |-> report, link |-> Nothing, trees |-> {Tree}]
<1>2. bench' = [bench EXCEPT ![d] = b] /\ soak' = [soak EXCEPT ![d] = s]
  OBVIOUS
<1>3. decision \in Decisions
  BY <1>1 DEF Types, Decisions, Classes
<1>4. report \in Reports
  BY <1>1, SoakPolicyAssumption DEF Types, Reports, Classes
<1>. HIDE DEF decision, report
<1>5. b \in BenchDocs /\ BenchSound(b, World)
  BY <1>1, <1>3 DEF Types, BenchDocs, BenchSound
<1>6. s \in SoakDocs /\ SoakSound(s, World)
  BY <1>1, <1>4 DEF Types, SoakDocs, SoakSound
<1>. HIDE DEF b, s
<1>7. /\ bench' \in [Directories -> {Nothing} \union BenchDocs]
      /\ \A x \in Directories : bench'[x] = IF x = d THEN b ELSE bench[x]
      /\ soak' \in [Directories -> {Nothing} \union SoakDocs]
      /\ \A x \in Directories : soak'[x] = IF x = d THEN s ELSE soak[x]
  <2>. HIDE DEF HarnessEvidence
  <2>1. /\ bench \in [Directories -> {Nothing} \union BenchDocs]
        /\ soak \in [Directories -> {Nothing} \union SoakDocs]
    BY <1>1 DEF Types
  <2>2. /\ bench' \in [Directories -> {Nothing} \union BenchDocs]
        /\ \A x \in Directories : bench'[x] = IF x = d THEN b ELSE bench[x]
    BY <1>2, <1>5, <2>1
  <2>3. /\ soak' \in [Directories -> {Nothing} \union SoakDocs]
        /\ \A x \in Directories : soak'[x] = IF x = d THEN s ELSE soak[x]
    BY <1>2, <1>6, <2>1
  <2>. QED BY <2>2, <2>3
<1>8. Types'
  BY <1>1, <1>7 DEF Types, git, Released
<1>9. BenchInv' /\ SoakInv'
  BY <1>5, <1>6, <1>7, WorldStays DEF IInv, BenchInv, SoakInv
<1>10. job' = Nothing
  OBVIOUS
<1>11. JobInv'
  BY <1>10, NextJobKinds, WorldStays DEF JobInv
<1>. QED BY <1>8, <1>9, <1>10, <1>11, NextJobKinds, Frame DEF IInv

-----------------------------------------------------------------------------
(* The soak *)

LEMMA StartSoakKeeps ==
  ASSUME IInv, NEW d \in Directories, NEW b \in Directories, NEW seconds \in Durations,
         StartSoak(d, b, seconds)
  PROVE  IInv'
<1>. USE DEF StartSoak, Idle, env, release, field
<1>1. Types
  BY DEF IInv
<1>2. /\ job' \in SoakJobs /\ job'.benchmark = b /\ job'.trees = {}
      /\ bench[b] # Nothing
  BY DEF SoakJobs, BenchmarkAgrees, Complete
<1>3. SoakJobSound(job', bench[b], World)
  BY <1>2 DEF SoakJobSound
<1>4. Types'
  BY <1>1, <1>2 DEF Types, git, Released
<1>5. JobInv'
  BY <1>2, <1>3, NextJobKinds, WorldStays DEF JobInv
<1>. QED BY <1>2, <1>4, <1>5, NextJobKinds, Frame DEF IInv

(* The benchmark was there before the soak's images are built. *)
LEMMA SoakBuildKeeps ==
  ASSUME IInv, SoakBuild
  PROVE  IInv'
<1>. USE DEF SoakBuild, env, release, field
<1>1. Types /\ job \in SoakJobs /\ bench[job.benchmark] # Nothing
  BY JobKinds DEF IInv, JobInv
<1>2. job' \in SoakJobs /\ job'.trees = {Tree} /\ job'.host = host
      /\ job'.benchmark = job.benchmark
  BY <1>1, TreeStands DEF Types, SoakJobs
<1>3. SoakJobSound(job', bench[job.benchmark], World)
  <2>1. job.benchmark \in Directories
    BY <1>1 DEF SoakJobs
  <2>2. /\ bench[job.benchmark].git_commit <= World.commits
        /\ bench[job.benchmark].git_commit \in Nat
    BY <1>1, <2>1 DEF IInv, BenchInv, BenchSound, Types, BenchDocs
  <2>3. Stands(bench[job.benchmark].git_commit, Tree, World)
    BY <1>1, <2>2, TreeStands, WorldFacts
  <2>. QED BY <1>1, <1>2, <2>3 DEF Types, SoakJobSound
<1>4. Types'
  BY <1>1, <1>2 DEF Types, git, Released
<1>5. JobInv'
  BY <1>1, <1>2, <1>3, NextJobKinds, WorldStays DEF JobInv
<1>6. verdict = Nothing
  BY VerdictEnds DEF Next
<1>. QED BY <1>2, <1>4, <1>5, <1>6, NextJobKinds, Frame DEF IInv

(* What a link says holds of the benchmark and of the soak that it joins. *)
LEMMA LinkAgrees ==
  ASSUME NEW b \in BenchDocs, NEW run, NEW seconds,
         run.report \in Reports, run.commit \in Nat
  PROVE  LET link == EvaluateLink(b, run, seconds)
         IN /\ link \in Links \union {Nothing}
            /\ link # Nothing => link.host = run.report.host /\ link.commit = b.git_commit
BY DEF EvaluateLink, Links, BenchDocs, Reports

LEMMA EndSoakKeeps ==
  ASSUME IInv, EndSoak
  PROVE  IInv'
<1>. USE DEF env, release, field
<1>1. /\ Types /\ job \in SoakJobs /\ job.trees # {}
      /\ bench[job.benchmark] # Nothing
      /\ SoakJobSound(job, bench[job.benchmark], World)
  BY JobKinds DEF IInv, JobInv, EndSoak
<1>2. PICK passed \in BOOLEAN, seconds \in Durations :
        LET report == [class |-> "controlled", passed |-> passed, host |-> job.host,
                       duration |-> seconds]
            run == [commit |-> head, target |-> bench[job.benchmark].target,
                    strict |-> TRUE, host |-> job.host, report |-> report]
        IN soak' = [soak EXCEPT ![job.dir] =
             [commit |-> run.commit, target |-> run.target, strict |-> TRUE,
              host |-> job.host, raw |-> report, report |-> report,
              link |-> EvaluateLink(bench[job.benchmark], run, job.seconds),
              trees |-> job.trees]]
  BY DEF EndSoak
<1>. DEFINE report == [class |-> "controlled", passed |-> passed, host |-> job.host,
                       duration |-> seconds]
            run == [commit |-> head, target |-> bench[job.benchmark].target,
                    strict |-> TRUE, host |-> job.host, report |-> report]
            link == EvaluateLink(bench[job.benchmark], run, job.seconds)
            new == [commit |-> head, target |-> bench[job.benchmark].target, strict |-> TRUE,
                    host |-> job.host, raw |-> report, report |-> report,
                    link |-> link, trees |-> job.trees]
<1>3. soak' = [soak EXCEPT ![job.dir] = new]
  BY <1>2
<1>4. job.dir \in Directories /\ job.benchmark \in Directories /\ job.host \in Hosts
      /\ job.trees \in SUBSET Trees
  BY <1>1 DEF SoakJobs, SoakJobSound
<1>5. bench[job.benchmark] \in BenchDocs /\ bench[job.benchmark].target \in Targets
  BY <1>1, <1>4 DEF Types, BenchDocs
<1>6. report \in Reports /\ report.host = job.host
  BY <1>4, DurationsAssumption DEF Reports, Classes
<1>7. run.report = report /\ run.commit = head /\ head \in Nat
  BY <1>1 DEF Types
<1>. HIDE DEF report, run
<1>8. /\ link \in Links \union {Nothing}
      /\ link # Nothing => link.host = report.host
                           /\ link.commit = bench[job.benchmark].git_commit
  BY <1>5, <1>6, <1>7, LinkAgrees
<1>. HIDE DEF link
<1>9. new \in SoakDocs
  BY <1>4, <1>5, <1>6, <1>7, <1>8 DEF SoakDocs
<1>10. SoakSound(new, World)
  BY <1>1, <1>8 DEF SoakSound, SoakJobSound
<1>. HIDE DEF new
<1>11. /\ soak' \in [Directories -> {Nothing} \union SoakDocs]
       /\ \A x \in Directories : soak'[x] = IF x = job.dir THEN new ELSE soak[x]
  BY <1>1, <1>3, <1>4, <1>9 DEF Types
<1>12. Types'
  BY <1>1, <1>11 DEF Types, git, Released, EndSoak
<1>13. SoakInv'
  BY <1>10, <1>11, WorldStays DEF IInv, SoakInv, EndSoak
<1>14. job' = Nothing /\ verdict = Nothing
  BY VerdictEnds DEF Next, EndSoak
<1>15. JobInv'
  BY <1>14, NextJobKinds, WorldStays DEF JobInv
<1>. QED BY <1>12, <1>13, <1>14, <1>15, NextJobKinds, Frame DEF IInv, EndSoak

-----------------------------------------------------------------------------
(* The release check *)

LEMMA BeginReleaseKeeps ==
  ASSUME IInv, job = Nothing, verdict = Nothing,
         NEW b \in Directories, NEW s \in Directories, NEW target \in Targets,
         NEW allow \in BOOLEAN, BeginRelease(b, s, target, allow)
  PROVE  IInv'
<1>. USE DEF BeginRelease, env, release, field
<1>1. Types
  BY DEF IInv
<1>2. bench[b] \in BenchDocs /\ soak[s] \in SoakDocs /\ BenchSound(bench[b], World)
  BY <1>1 DEF IInv, BenchInv, Types
<1>. DEFINE revalidation == IF allow THEN "skipped"
                            ELSE IF Revalidates(bench[b], soak[s]) THEN "valid"
                            ELSE "invalid"
<1>3. /\ revalidation \in {"skipped", "valid", "invalid"}
      /\ revalidation = "valid" => Revalidates(bench[b], soak[s])
  OBVIOUS
<1>4. job' = [script |-> "release", target |-> target, controlled |-> bench[b],
              soak |-> soak[s], revalidation |-> revalidation, artifact |-> Nothing]
  OBVIOUS
<1>. HIDE DEF revalidation
<1>5. /\ job' \in ReleaseJobs
      /\ job'.controlled = bench[b] /\ job'.soak = soak[s]
      /\ job'.revalidation = revalidation /\ job'.artifact = Nothing
  BY <1>2, <1>3, <1>4 DEF ReleaseJobs
<1>6. ReleaseJobSound(job', World)
  BY <1>2, <1>3, <1>5 DEF ReleaseJobSound
<1>7. ~Released' /\ ~Candidate'
  BY DEF Released, Candidate
<1>8. Types'
  BY <1>1, <1>5, <1>7 DEF Types, git
<1>9. JobInv'
  BY <1>5, <1>6, NextJobKinds, WorldStays DEF JobInv
<1>10. BundleInv'
  BY <1>7 DEF BundleInv
<1>11. KnownBuilds' \subseteq KnownBuilds
  BY <1>5, <1>7 DEF KnownBuilds
<1>. QED BY <1>8, <1>9, <1>10, <1>11, Frame DEF IInv

LEMMA ReleaseCheckKeeps ==
  ASSUME IInv, NEW b \in Directories, NEW s \in Directories, NEW target \in Targets,
         NEW allow \in BOOLEAN, ReleaseCheck(b, s, target, allow)
  PROVE  IInv'
BY BeginReleaseKeeps DEF ReleaseCheck, Idle

LEMMA RcReleaseCheckKeeps ==
  ASSUME IInv, NEW b \in Directories, NEW s \in Directories, RcReleaseCheck(b, s)
  PROVE  IInv'
<1>1. bench[b].target \in Targets
  BY DEF IInv, Types, BenchDocs, RcReleaseCheck, BenchmarkAgrees, Complete
<1>. QED BY <1>1, BeginReleaseKeeps DEF RcReleaseCheck, Idle

(* The benchmark was copied before the package is built, and the checksum  *)
(* is new.                                                                 *)
LEMMA PackageBuildKeeps ==
  ASSUME IInv, PackageBuild
  PROVE  IInv'
<1>. USE DEF PackageBuild, env, release, field
<1>1. Types /\ job \in ReleaseJobs /\ ReleaseJobSound(job, World)
  BY JobKinds DEF IInv, JobInv
<1>. DEFINE new == [sha |-> builds + 1, declared |-> builds + 1, target |-> job.target,
                    commit |-> 0, tree |-> Tree]
<1>2. new \in Artifacts /\ new.sha = builds + 1 /\ new.tree = Tree
  BY <1>1, TreeStands DEF Types, ReleaseJobs, Artifacts
<1>3. job' = [job EXCEPT !.artifact = new]
  OBVIOUS
<1>. HIDE DEF new
<1>4. /\ job' \in ReleaseJobs /\ job'.artifact = new
      /\ job'.controlled = job.controlled /\ job'.soak = job.soak
      /\ job'.revalidation = job.revalidation
  BY <1>1, <1>2, <1>3 DEF ReleaseJobs
<1>5. ReleaseJobSound(job', World)
  <2>1. job.controlled.commit <= World.commits /\ job.controlled.commit \in Nat
    BY <1>1 DEF ReleaseJobSound, BenchSound, ReleaseJobs, BenchDocs
  <2>2. Stands(job.controlled.commit, Tree, World)
    BY <1>1, <2>1, TreeStands, WorldFacts
  <2>. QED BY <1>1, <1>2, <1>4, <2>2 DEF ReleaseJobSound
<1>6. Types'
  BY <1>1, <1>4 DEF Types, git, Released
<1>7. JobInv'
  BY <1>4, <1>5, NextJobKinds, WorldStays DEF JobInv
<1>8. OneTreePerBuild'
  <2>1. KnownBuilds' \subseteq KnownBuilds \union {BuildId(new)}
    BY <1>4 DEF KnownBuilds, Released
  <2>2. BuildId(new).sha = builds + 1 /\ builds' = builds + 1 /\ builds \in Nat
    BY <1>1, <1>2 DEF BuildId, Types
  <2>3. OneTreePerBuild
    BY DEF IInv
  <2>4. \A a \in KnownBuilds' : a.sha \in Nat /\ a.sha <= builds'
    BY <2>1, <2>2, <2>3 DEF OneTreePerBuild
  <2>5. ASSUME NEW a \in KnownBuilds', NEW c \in KnownBuilds', a.sha = c.sha
        PROVE  a.tree = c.tree
    BY <2>1, <2>2, <2>3, <2>5 DEF OneTreePerBuild
  <2>. QED BY <2>4, <2>5 DEF OneTreePerBuild
<1>9. verdict = Nothing
  BY VerdictEnds DEF Next
<1>. QED BY <1>6, <1>7, <1>8, <1>9, Frame DEF IInv

LEMMA PackageManifestKeeps ==
  ASSUME IInv, PackageManifest
  PROVE  IInv'
<1>. USE DEF PackageManifest, env, release, field
<1>1. Types /\ job \in ReleaseJobs /\ ReleaseJobSound(job, World)
  BY JobKinds DEF IInv, JobInv
<1>. DEFINE new == [job.artifact EXCEPT !.commit = head]
<1>2. job.artifact \in Artifacts /\ head \in Nat
  BY <1>1 DEF Types, ReleaseJobs
<1>3. new \in Artifacts /\ new.sha = job.artifact.sha /\ new.tree = job.artifact.tree
  BY <1>2 DEF Artifacts
<1>4. job' = [job EXCEPT !.artifact = new]
  OBVIOUS
<1>. HIDE DEF new
<1>5. /\ job' \in ReleaseJobs /\ job'.artifact = new
      /\ job'.controlled = job.controlled /\ job'.soak = job.soak
      /\ job'.revalidation = job.revalidation
  BY <1>1, <1>3, <1>4 DEF ReleaseJobs
<1>6. ReleaseJobSound(job', World)
  BY <1>1, <1>3, <1>5 DEF ReleaseJobSound
<1>7. Types'
  BY <1>1, <1>5 DEF Types, git, Released
<1>8. JobInv'
  BY <1>5, <1>6, NextJobKinds, WorldStays DEF JobInv
<1>9. KnownBuilds' \subseteq KnownBuilds
  BY <1>3, <1>5 DEF KnownBuilds, BuildId, Released
<1>10. verdict = Nothing
  BY VerdictEnds DEF Next
<1>. QED BY <1>7, <1>8, <1>9, <1>10, Frame DEF IInv

LEMMA PackageFailsKeeps ==
  ASSUME IInv, PackageFails
  PROVE  IInv'
<1>. USE DEF PackageFails, env, release, field
<1>1. Types'
  BY DEF IInv, Types, git, Released
<1>2. verdict = Nothing
  BY VerdictEnds DEF Next
<1>3. JobInv'
  BY NextJobKinds, WorldStays DEF JobInv
<1>. QED BY <1>1, <1>2, <1>3, NextJobKinds, Frame DEF IInv

(* What a release candidate's evidence says of its bundle. *)
LEMMA EvidenceSays ==
  ASSUME NEW source, NEW gates, NEW artifact, NEW controlled, NEW lasted, NEW target,
         NEW revalidation
  PROVE  LET all == CollectBundle(source, gates, artifact, controlled, lasted)
             evidence == ApplyRevalidation(EvaluateRelease(all, target), revalidation)
         IN /\ evidence.sha = artifact.sha /\ evidence.commit = source.commit
            /\ evidence.controlled_host = controlled.decision.host
            /\ evidence.soak_host = lasted.report.host
            /\ evidence.verdict = "release_candidate" =>
                 /\ revalidation = "valid"
                 /\ controlled.decision.class = "controlled"
                 /\ controlled.decision.preferred
                 /\ lasted.report.class = "controlled"
                 /\ lasted.report.passed /\ lasted.report.duration >= MinSoak
                 /\ controlled.decision.host = lasted.report.host
                 /\ controlled.commit = source.commit
<1>. DEFINE all == CollectBundle(source, gates, artifact, controlled, lasted)
            result == EvaluateRelease(all, target)
            evidence == ApplyRevalidation(result, revalidation)
<1>1. /\ all.source = source /\ all.artifact = artifact
      /\ all.controlled = controlled /\ all.soak = lasted
  BY DEF CollectBundle
<1>. HIDE DEF all
<1>2. /\ result.sha = artifact.sha /\ result.commit = source.commit
      /\ result.controlled_host = controlled.decision.host
      /\ result.soak_host = lasted.report.host
      /\ result.class = IF Harness(all) THEN "harness_only" ELSE "controlled"
  BY <1>1 DEF EvaluateRelease
<1>3. result.mechanics_pass /\ ~Harness(all) =>
        /\ controlled.decision.class = "controlled" => controlled.decision.preferred
        /\ lasted.report.class = "controlled" =>
             lasted.report.passed /\ lasted.report.duration >= MinSoak
        /\ controlled.decision.host = lasted.report.host
        /\ OfTarget(controlled, source.commit, target)
  BY <1>1 DEF EvaluateRelease
<1>4. DOMAIN result = {"commit", "class", "sha", "controlled_host", "soak_host",
                       "mechanics_pass", "raw_valid", "verdict"}
  BY DEF EvaluateRelease
<1>. HIDE DEF result
<1>. DEFINE passes == result.mechanics_pass /\ Settles(result.class, revalidation)
<1>5. /\ evidence.sha = result.sha /\ evidence.commit = result.commit
      /\ evidence.controlled_host = result.controlled_host
      /\ evidence.soak_host = result.soak_host
      /\ evidence.verdict = Verdict(passes, result.class)
  BY <1>4 DEF ApplyRevalidation
<1>6. evidence.verdict = "release_candidate" =>
        result.mechanics_pass /\ result.class = "controlled" /\ revalidation = "valid"
  BY <1>5 DEF Verdict, Settles
<1>7. result.class = "controlled" => ~Harness(all)
  BY <1>2
<1>8. ~Harness(all) => controlled.decision.class = "controlled"
                       /\ lasted.report.class = "controlled"
  BY <1>1 DEF Harness
<1>9. controlled.commit = source.commit \/ ~OfTarget(controlled, source.commit, target)
  BY DEF OfTarget
<1>. HIDE DEF evidence
<1>10. /\ evidence.sha = artifact.sha /\ evidence.commit = source.commit
       /\ evidence.controlled_host = controlled.decision.host
       /\ evidence.soak_host = lasted.report.host
       /\ evidence.verdict = "release_candidate" =>
            /\ revalidation = "valid"
            /\ controlled.decision.class = "controlled"
            /\ controlled.decision.preferred
            /\ lasted.report.class = "controlled"
            /\ lasted.report.passed /\ lasted.report.duration >= MinSoak
            /\ controlled.decision.host = lasted.report.host
            /\ controlled.commit = source.commit
  BY <1>2, <1>3, <1>5, <1>6, <1>7, <1>8, <1>9
<1>. QED BY <1>10 DEF evidence, result, all

LEMMA CheckKeeps ==
  ASSUME IInv, Check
  PROVE  IInv'
<1>. USE DEF env, release, field
<1>1. /\ Types /\ job \in ReleaseJobs /\ ReleaseJobSound(job, World)
      /\ job.artifact # Nothing /\ job.artifact \in Artifacts
  BY JobKinds DEF IInv, JobInv, Check, ReleaseJobs
<1>2. PICK gates \in [Gates -> [commit : 1..commits, passed : BOOLEAN, class : Classes]] :
        LET source   == [commit |-> head, dirty |-> ~WorktreeClean]
            all      == CollectBundle(source, gates, job.artifact, job.controlled, job.soak)
            evidence == ApplyRevalidation(EvaluateRelease(all, job.target),
                                          job.revalidation)
            kept(document) == IF evidence.verdict = "release_candidate"
                              THEN document ELSE Nothing
        IN bundle' = [artifact |-> job.artifact, evidence |-> evidence,
                      controlled |-> kept(job.controlled), soak |-> kept(job.soak)]
  BY DEF Check
<1>. DEFINE source   == [commit |-> head, dirty |-> ~WorktreeClean]
            all      == CollectBundle(source, gates, job.artifact, job.controlled, job.soak)
            evidence == ApplyRevalidation(EvaluateRelease(all, job.target),
                                          job.revalidation)
            passed   == evidence.verdict = "release_candidate"
<1>3. bundle' = [artifact |-> job.artifact, evidence |-> evidence,
                 controlled |-> IF passed THEN job.controlled ELSE Nothing,
                 soak |-> IF passed THEN job.soak ELSE Nothing]
  BY <1>2
<1>4. source.commit = head
  OBVIOUS
<1>. HIDE DEF source
<1>5. /\ evidence.sha = job.artifact.sha /\ evidence.commit = head
      /\ evidence.controlled_host = job.controlled.decision.host
      /\ evidence.soak_host = job.soak.report.host
      /\ passed =>
           /\ job.revalidation = "valid"
           /\ job.controlled.decision.preferred
           /\ job.soak.report.class = "controlled"
           /\ job.soak.report.passed /\ job.soak.report.duration >= MinSoak
           /\ job.controlled.decision.host = job.soak.report.host
           /\ job.controlled.commit = head
  BY <1>4, EvidenceSays
<1>. HIDE DEF evidence, all
<1>6. /\ bundle'.artifact = job.artifact /\ bundle'.evidence = evidence
      /\ passed => bundle'.controlled = job.controlled /\ bundle'.soak = job.soak
  BY <1>3
<1>7. Candidate' => passed
  BY <1>6 DEF Candidate
<1>8. ASSUME passed
      PROVE  CandidateSound(bundle', World)
  <2>1. Revalidates(job.controlled, job.soak)
    BY <1>1, <1>5, <1>8 DEF ReleaseJobSound
  <2>2. job.controlled \in BenchDocs /\ BenchSound(job.controlled, World)
    BY <1>1 DEF ReleaseJobs, ReleaseJobSound
  <2>3. Stands(job.controlled.commit, job.artifact.tree, World)
    BY <1>1 DEF ReleaseJobSound
  <2>. QED BY <1>5, <1>6, <1>8, <2>1, <2>2, <2>3 DEF CandidateSound
<1>9. /\ job' = Nothing /\ verdict = Nothing
      /\ UNCHANGED <<env, bench, soak, builds, field, verdict>>
  BY VerdictEnds DEF Next, Check
<1>10. Types'
  BY <1>1, <1>6, <1>9 DEF Types, git, Released
<1>11. JobInv'
  BY <1>9, NextJobKinds, WorldStays DEF JobInv
<1>12. BundleInv'
  BY <1>5, <1>6, <1>7, <1>8, <1>9, WorldStays DEF BundleInv
<1>13. KnownBuilds' \subseteq KnownBuilds
  <2>1. Running("release")
    BY DEF Check
  <2>2. KnownBuilds' \subseteq KnownBuilds \union {BuildId(job.artifact)}
    BY <1>6, <1>9, NextJobKinds DEF KnownBuilds
  <2>3. BuildId(job.artifact) \in KnownBuilds
    BY <1>1, <2>1 DEF KnownBuilds
  <2>. QED BY <2>2, <2>3
<1>. QED BY <1>9, <1>10, <1>11, <1>12, <1>13, Frame DEF IInv

-----------------------------------------------------------------------------
(* Staging *)

LEMMA DeployKeeps ==
  ASSUME IInv, Deploy
  PROVE  IInv'
<1>. USE DEF Deploy, Idle, env, release, field
<1>1. Released /\ bundle.artifact \in Artifacts
  BY DEF IInv, Types, Candidate
<1>2. Types'
  BY <1>1 DEF IInv, Types, git, Released
<1>3. KnownBuilds' \subseteq KnownBuilds
  BY <1>1 DEF KnownBuilds, Released, Running
<1>. QED BY <1>2, <1>3, Frame DEF IInv

LEMMA SaveDeployedKeeps ==
  ASSUME IInv, SaveDeployed
  PROVE  IInv'
<1>. USE DEF SaveDeployed, Idle, env, release, field
<1>1. Types'
  BY DEF IInv, Types, git, Released
<1>2. BuildId(saved') = BuildId(deployed)
  BY DEF BuildId
<1>3. KnownBuilds' \subseteq KnownBuilds
  BY <1>2 DEF KnownBuilds, Released, Running
<1>. QED BY <1>1, <1>3, Frame DEF IInv

LEMMA BrowserKeeps ==
  ASSUME IInv, NativeBrowser \/ RollbackBrowser
  PROVE  IInv'
<1>. USE DEF NativeBrowser, RollbackBrowser, Idle, env, release, field
<1>1. Types'
  BY DEF IInv, Types, git, Released
<1>. QED BY <1>1, Frame DEF IInv

(* The staging evidence names the package whose checksum the operator      *)
(* saved.                                                                  *)
LEMMA StagingEvidenceKeeps ==
  ASSUME IInv, StagingEvidence
  PROVE  IInv'
<1>. USE DEF StagingEvidence, Idle, env, release, field
<1>1. Types'
  BY DEF IInv, Types, git, Released
<1>2. /\ staging'.sha = saved.sha /\ staging'.saved = saved /\ saved # Nothing
  BY DEF EvaluateStaging
<1>3. StagingInv'
  BY <1>2 DEF StagingInv
<1>4. KnownBuilds' \subseteq KnownBuilds
  BY <1>2 DEF KnownBuilds, Released, Running
<1>. QED BY <1>1, <1>3, <1>4, Frame DEF IInv

-----------------------------------------------------------------------------
(* The verdict of M15 *)

(* A tree that stands for HEAD is HEAD's own, without edits when the       *)
(* worktree has none, if nothing was undone.                               *)
Sourced(tree) == (tree.commit = head /\ ~tree.edited) \/ tree.at < undone

LEMMA TreeOfHead ==
  ASSUME Types, edited = FALSE, NEW tree \in Trees, Stands(head, tree, World)
  PROVE  Sourced(tree)
BY DEF Types, Stands, World, Trees, Sourced

LEMMA M15CheckKeeps ==
  ASSUME IInv, NEW b \in Directories, NEW s \in Directories, NEW waiver \in BOOLEAN,
         M15Check(b, s, waiver)
  PROVE  IInv'
<1>. USE DEF env, release, field
<1>1. /\ Types /\ job = Nothing /\ edited = FALSE /\ head \in Nat
      /\ bench[b] \in BenchDocs /\ bench[b].summary # Nothing
      /\ BenchSound(bench[b], World)
      /\ soak[s] \in SoakDocs /\ soak[s].link # Nothing
      /\ SoakSound(soak[s], World)
      /\ Released /\ staging # Nothing
      /\ M15Ready(bench[b], soak[s].link, staging, bundle.evidence, waiver)
      /\ bench[b].git_commit = head
  <2>1. edited = FALSE
    BY DEF M15Check, WorktreeClean, IInv, Types
  <2>2. bench[b] # Nothing /\ soak[s] # Nothing
    BY DEF M15Check, Complete
  <2>. QED BY <2>1, <2>2 DEF M15Check, Idle, Complete, IInv, Types, BenchInv, SoakInv
<1>. DEFINE source == bench[b].summary.commit
            shared == bench[b].summary.host
<1>2. /\ source = head
      /\ bench[b].raw.host = shared /\ bench[b].commit = source
      /\ soak[s].link.commit = source /\ soak[s].link.host = shared
      /\ bundle.evidence.verdict = "release_candidate" /\ bundle.evidence.commit = source
      /\ bundle.evidence.controlled_host = shared /\ bundle.evidence.soak_host = shared
      /\ bundle.evidence.sha = staging.sha
  BY <1>1 DEF M15Ready, SoakAccepted, M14Accepted, M14OnHost, ArtifactStaged, BenchSound
<1>3. CandidateSound(bundle, World) /\ bundle.evidence.sha = bundle.artifact.sha
  BY <1>1, <1>2 DEF IInv, BundleInv, Candidate
<1>4. /\ verdict' = [commit |-> head, benchmark |-> bench[b], soak |-> soak[s]]
      /\ UNCHANGED <<job, env, bench, soak, release, field>>
  BY DEF M15Check
<1>5. verdict'.commit = head /\ verdict'.benchmark = bench[b] /\ verdict'.soak = soak[s]
  BY <1>4
<1>6. BuiltFromSource'
  <2>1. ASSUME NEW tree \in bench[b].trees
        PROVE  Sourced(tree)
    BY <1>1, <1>2, TreeOfHead DEF BenchSound, BenchDocs
  <2>2. ASSUME NEW tree \in soak[s].trees
        PROVE  Sourced(tree)
    BY <1>1, <1>2, TreeOfHead DEF SoakSound, SoakDocs
  <2>3. ASSUME NEW tree \in bundle.controlled.trees
        PROVE  Sourced(tree)
    <3>1. tree \in Trees /\ Stands(head, tree, World)
      BY <1>2, <1>3 DEF CandidateSound, BenchSound, BenchDocs
    <3>. QED BY <1>1, <3>1, TreeOfHead
  <2>4. Sourced(bundle.artifact.tree)
    <3>1. bundle.artifact.tree \in Trees
      BY <1>1 DEF IInv, Types, Artifacts
    <3>2. Stands(head, bundle.artifact.tree, World)
      BY <1>2, <1>3 DEF CandidateSound
    <3>. QED BY <1>1, <3>1, <3>2, TreeOfHead
  <2>5. undone' = undone /\ bundle' = bundle
    BY <1>4 DEF git
  <2>. QED BY <1>4, <1>5, <2>1, <2>2, <2>3, <2>4, <2>5 DEF BuiltFromSource, Sourced
<1>7. StagedIsReleased'
  <2>1. staging.saved.sha = bundle.artifact.sha
    BY <1>1, <1>2, <1>3 DEF IInv, StagingInv
  <2>2. BuildId(staging.saved) \in KnownBuilds /\ BuildId(bundle.artifact) \in KnownBuilds
    BY <1>1 DEF KnownBuilds
  <2>3. BuildId(staging.saved).tree = BuildId(bundle.artifact).tree
    BY <2>1, <2>2 DEF IInv, OneTreePerBuild, BuildId
  <2>. QED BY <1>4, <2>1, <2>3 DEF StagedIsReleased, BuildId
<1>8. OneHost'
  <2>1. soak[s].raw.host = shared
    BY <1>1, <1>2 DEF SoakSound
  <2>2. bundle.controlled.raw.host = shared /\ bundle.soak.raw.host = shared
    BY <1>2, <1>3 DEF CandidateSound, Revalidates
  <2>. QED BY <1>2, <1>4, <1>5, <2>1, <2>2 DEF OneHost
<1>9. VerdictInv'
  BY <1>1, <1>4, <1>6, <1>7, <1>8 DEF VerdictInv
<1>10. Types'
  BY <1>4 DEF IInv, Types, git, Released
<1>. QED BY <1>4, <1>9, <1>10, Frame DEF IInv

-----------------------------------------------------------------------------
(* The theorems *)

LEMMA InitEstablishes ==
  ASSUME Init
  PROVE  IInv
<1>. USE DEF Init
<1>1. ~Released /\ ~Candidate
  BY DEF Released, Candidate
<1>2. Types
  <2>1. /\ head \in Nat \ {0} /\ commits \in Nat /\ head <= commits
        /\ undone \in Nat /\ builds \in Nat
    OBVIOUS
  <2>3. edited \in BOOLEAN
    OBVIOUS
  <2>4. host \in Hosts
    OBVIOUS
  <2>2. /\ bench \in [Directories -> {Nothing} \union BenchDocs]
        /\ soak \in [Directories -> {Nothing} \union SoakDocs]
    OBVIOUS
  <2>. QED BY <1>1, <2>1, <2>2, <2>3, <2>4 DEF Types
<1>3. BenchInv /\ SoakInv
  BY DEF BenchInv, SoakInv
<1>4. JobInv
  BY DEF JobInv, Running
<1>5. BundleInv /\ StagingInv /\ VerdictInv
  BY <1>1 DEF BundleInv, StagingInv, VerdictInv
<1>6. KnownBuilds = {}
  BY <1>1 DEF KnownBuilds, Running
<1>7. OneTreePerBuild
  BY <1>6 DEF OneTreePerBuild
<1>. QED BY <1>2, <1>3, <1>4, <1>5, <1>7 DEF IInv

LEMMA NextKeeps ==
  ASSUME IInv, [Next]_vars
  PROVE  IInv'
<1>1. CASE UNCHANGED vars
  <2>1. UNCHANGED <<job, git, host, bench, soak, bundle, builds, deployed, saved, staging,
                    verdict>>
    BY <1>1 DEF vars, env, release, field
  <2>2. Types' /\ VerdictInv'
    BY <2>1 DEF IInv, Types, Released, git, VerdictInv, BuiltFromSource,
       StagedIsReleased, OneHost
  <2>. QED BY <2>1, <2>2, Frame DEF IInv
<1>2. ASSUME NEW d \in Directories, NEW t \in Targets,
             StartBenchmark(d, t) \/ HarnessEvidence(d, t)
      PROVE  IInv'
  BY <1>2, StartBenchmarkKeeps, HarnessEvidenceKeeps
<1>3. CASE BenchmarkAttempt \/ BenchmarkRepeat \/ EndBenchmark
  BY <1>3, BenchmarkAttemptKeeps, BenchmarkRepeatKeeps, EndBenchmarkKeeps
<1>4. ASSUME NEW d \in Directories, NEW b \in Directories, NEW seconds \in Durations,
             StartSoak(d, b, seconds)
      PROVE  IInv'
  BY <1>4, StartSoakKeeps
<1>5. CASE SoakBuild \/ EndSoak
  BY <1>5, SoakBuildKeeps, EndSoakKeeps
<1>6. ASSUME NEW b \in Directories, NEW s \in Directories, RcReleaseCheck(b, s)
      PROVE  IInv'
  BY <1>6, RcReleaseCheckKeeps
<1>7. ASSUME NEW b \in Directories, NEW s \in Directories, NEW t \in Targets,
             NEW allow \in BOOLEAN, ReleaseCheck(b, s, t, allow)
      PROVE  IInv'
  BY <1>7, ReleaseCheckKeeps
<1>8. ASSUME NEW b \in Directories, NEW s \in Directories, NEW waiver \in BOOLEAN,
             M15Check(b, s, waiver)
      PROVE  IInv'
  BY <1>8, M15CheckKeeps
<1>9. ASSUME NEW b \in Directories, NEW s \in Directories,
             CopyDecision(b, s) \/ CopySoakReport(b, s)
      PROVE  IInv'
  BY <1>9, CopyDecisionKeeps, CopySoakReportKeeps
<1>10. CASE PackageBuild \/ PackageManifest \/ PackageFails \/ Check
  BY <1>10, PackageBuildKeeps, PackageManifestKeeps, PackageFailsKeeps, CheckKeeps
<1>11. CASE Deploy \/ SaveDeployed \/ NativeBrowser \/ RollbackBrowser \/ StagingEvidence
  BY <1>11, DeployKeeps, SaveDeployedKeeps, BrowserKeeps, StagingEvidenceKeeps
<1>12. CASE Edit \/ Undo \/ Commit \/ Checkout \/ HostChanges
  BY <1>12, EditKeeps, UndoKeeps, CommitKeeps, CheckoutKeeps, HostChangesKeeps
<1>. QED
  BY <1>1, <1>2, <1>3, <1>4, <1>5, <1>6, <1>7, <1>8, <1>9, <1>10, <1>11, <1>12 DEF Next

(* Every document a script leaves agrees with what it was made from.       *)
LEMMA Invariance == Spec => []IInv
BY InitEstablishes, NextKeeps, PTL DEF Spec

(* NothingPromoted: whatever was copied over the aggregates, a release     *)
(* candidate is a controlled benchmark and a soak that passed, on one      *)
(* host, by their raw files.                                               *)
THEOREM CandidateIsMeasured == Spec => []NothingPromoted
<1>1. IInv => NothingPromoted
  BY DEF IInv, BundleInv, CandidateSound, Revalidates, NothingPromoted
<1>. QED BY <1>1, Invariance, PTL

(* BuiltFromSource: the images of the benchmark and of the soak that M15   *)
(* joins, the package and the images of the bundle's benchmark were built  *)
(* from the commit that the verdict names and without an edit, unless      *)
(* after such a build an edit was undone or HEAD went back.  (The images   *)
(* of the bundle's own soak are not among them: SoakOfCommit.)             *)
THEOREM VerdictIsBuiltFromSource == Spec => []BuiltFromSource
<1>1. IInv => BuiltFromSource
  BY DEF IInv, VerdictInv, BuiltFromSource
<1>. QED BY <1>1, Invariance, PTL

(* StagedIsReleased: staging ran the package of the release directory when *)
(* its checksum was saved.                                                 *)
THEOREM VerdictIsStaged == Spec => []StagedIsReleased
<1>1. IInv => StagedIsReleased
  BY DEF IInv, VerdictInv, StagedIsReleased
<1>. QED BY <1>1, Invariance, PTL

(* OneHost: both campaigns ran on one host.                                *)
THEOREM VerdictIsOfOneHost == Spec => []OneHost
<1>1. IInv => OneHost
  BY DEF IInv, VerdictInv, OneHost
<1>. QED BY <1>1, Invariance, PTL
=============================================================================
