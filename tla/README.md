# A verification project for nginx-grpc-web

The repository is an NGINX module that lets a browser's gRPC-Web client talk to
a native gRPC upstream: it adopts gRPC-Web requests, decodes
`application/grpc-web-text` request bodies, re-frames and encodes responses, and
turns the upstream's HTTP trailers into the terminal frame of the response body.
Around the module stand a test backend, a browser harness, a load generator and
the programs that judge benchmark, soak and release evidence.

This directory models the module, the load generator's streams and the programs
that judge benchmark, soak and release evidence in TLA+, checks the models with
TLC and proves the most important invariants with TLAPS. Line numbers in comments
of the module's models refer to `src/ngx_http_grpc_web_module.c` unless another
file is named; those of the evidence's models name the file in their heading.

## 1. Inventory

| Component | State it keeps | Operations | What makes it correct |
|---|---|---|---|
| frame parser (`src/grpc_web_frame.c`) | bytes of the header, announced length, payload bytes seen | consume, is_complete, next | never takes bytes beyond a frame, whatever the pieces |
| base64 codec (`src/grpc_web_base64.c`) | characters short of a quartet, "finished" | decode_update, encode_update | the octets do not depend on the pieces; padding only at the end |
| temp buffer growth (module, 829-864) | start/end of a recycled buffer | reserve_temp_buf | room for what is copied next, no wrap, bounded waste |
| text request path (423-591) | decoder, decoded size, "request finished", content length | request body filter | the upstream gets the meaning of the text, once, within the limit, with one end |
| text response path (829-1103, 1186-1208) | parser, current native frame, free and busy chains, "trailers sent" | body filter in text mode | frames whole, once, in order; no terminal frame for a broken stream; no buffer lost or overwritten |
| hooks (370-421, 593-827, 1105-1293) | the request's context, headers, "transform", "local error" | rewrite handler, header filter, body filter | exactly one status, one end, nothing foreign touched |
| media type and Accept matching (142-304) | none | string comparisons | exact tokens |
| configuration (1240-1267, `config`) | two directives | create, merge | - |
| load generator (`perf/loadgen`) | decoder buffers, sequence counters, results | runStream, Push, consumeFrames, summarize | a stream passes only if complete, in order and with status 0 |
| host preflight (`perf/host_info.py`) | host.json | collect, validate, fingerprint | two runs with one fingerprint ran on one machine with the same CPUs |
| benchmark evaluation (`perf/report.py`, `capacity.py`, `decision.py`, `rc.py`) | report, capacity, decision and summary files | aggregate, evaluate, decide, extend | capacity is the end of an unbroken run of passes; the decision compares loads that everybody sustained |
| benchmark drivers (`perf/run-ab.sh`, `run-controlled.sh`, `run-rc.sh`) | rungs, repeats, attempts and scenarios in directories | measure, report, retry | a staircase that stops loses nothing; a benchmark that is used at a commit was built from it |
| soak (`perf/run-soak.sh`, `sample-stats.sh`, `soak.py`, `rc_soak.py`) | event counters, samples | cycle, restart, reset, probe, evaluate, link | disruptions are told from errors; no cycle hides the failed load or recovery of another |
| release evidence (`release/*.py`, `staging/evidence.py`) | evidence files by commit | collect, revalidate, check, stage, m15 | nothing stale, copied or missing passes |
| release scripts (`scripts/*.sh`) | directories that outlive the scripts | build, package, copy, stage | what is behind a verdict was built from its commit, and is what was staged |
| browser harness (`tests/browser/src`) | state, "terminal", "disposed" | callbacks, cancel, unmount | one terminal state |
| fault and test backends (`tests/`) | sockets, streams | fault modes, echo | faults as named |

How they interact. There are two systems here.

*The module.* NGINX calls the module's hooks from one worker process:
rewrite handler, request body filter (for each piece of the body that was read),
header filter once, body filter for each chain that the upstream module hands
over and, with no chain, whenever the client's socket becomes writable. A hook
runs to its end before anything else happens in the worker. So the module has no
data races; what makes it hard is *where it is interrupted*: the network cuts
both directions anywhere, the write filter may return with buffers unsent, the
upstream may fail and the client may leave between any two calls, and all state
that survives a call lives in the context and in three chains of buffers.

*The evidence.* Shell scripts run for hours, call Python evaluators in between
and leave their state in directories that the next script reads. Each runs alone,
but the world moves under it: HEAD and the worktree change between the moment
a script asks git and the moment it builds, the machine changes between
repeats, a sampler or a worker dies beside it, a program it called fails under
`set +e` and leaves an older file in place, and an operator copies an aggregate or
rebuilds a package. What makes it hard is that every claim ("this release was
measured on this host from this commit") joins files of several scripts that
each looked at the world at a moment of its own.

`PROJECT.json` lists the hazards line by line.

## 2. Modules

    Base64 --------- RequestDecode --------- MCRequestDecode
                                  \--------- RequestDecodeProofs
    GrpcFrame --\
    Capacity ----+-- TextResponse ---------- MCTextResponse
    WebStream --/                 \--------- TextResponseProofs
    Capacity ------- TempBuf --------------- MCTempBuf, TempBufProofs
    ResponseFilter ------------------------- MCResponseFilter, ResponseFilterProofs
    LoadStream ----------------------------- MCLoadStream, LoadStreamProofs
    HostPreflight --------------\
    BenchReport - BenchDecision -+- RcBenchmark -- MCRcBenchmark, RcBenchmarkProofs
    SoakReport ----- SoakRun --------------- MCSoakRun, SoakRunProofs
    ReleaseEvidence  ReleaseFlow ----------- MCReleaseFlow, ReleaseFlowProofs

The module and its clients:

- **GrpcFrame**: the parser's operators. A byte is its position in the native
  stream, so that a byte dropped, repeated or misplaced shows; the length field
  of a header is looked up by position. `Consumes`/`AfterConsume` are
  `grpc_web_frame_consume`, `FreshParser` is `parser_init` and `next`.
- **Capacity**, **TempBuf**: `reserve_temp_buf`. TempBuf runs the doubling loop
  itself (`Reuse`, `StartGrowing`, `Double`, `Saturate`, `Allocate`,
  `AllocationFails`) against a finite `size_t`; Capacity is the closed form
  `Grown` that the other modules use, and a property of TempBuf says that the
  two agree.
- **Base64**: the codec's arithmetic on digits of 3·log2(Q) bits. Q = 4 is
  base64; Q = 2 is a code of eight digits with the same carries, which the runs
  can enumerate. `Valid` and `Meaning` define what a whole text means, as one row
  of bits, without following the code.
- **RequestDecode**: `request_body_filter`, `decode_text_request` and
  `decode_update`. One action is a turn of the loop over buffers or over
  characters: `TakeBuffer`, `ReadChar`, `ReadQuartet`, `PassOn`, `EndOfChain`,
  and one action for each way to refuse. The order of the code's checks is kept
  (malformed before sizing before size limit).
- **TextResponse**: the text branch of the body filter with everything it calls,
  the recycling through `response_free` and `response_busy`, and the part of
  NGINX that keeps unsent buffers (`unsent` is `r->out`). `BodyFilter(c)` starts
  a call with any chain `c` the upstream could pass; `ReadHeader`, `OpenFrame`,
  `EmptyFrame`, `RejectFrame`, `ReadPayload`, `CloseFrame`, `NextBuffer`,
  `RejectEnd`, `EncodeTrailers` are the turns of `encode_text_response`;
  `EndOfChain`, `WriteReturns`, `Recycle`, `Return` are what follows it;
  `SendBlock`, `UpstreamFails`, `Close`, `Cancel` are the environment. `mem`
  holds the buffers, chains hold their names, so that sharing is visible.
- **WebStream**: the abstract promise to a client: messages in order, a terminal
  block only for a complete stream, or a break after a whole message.
  `TextResponse!Client` is the refinement mapping.
- **ResponseFilter**: one exchange through all hooks, one action per call of a
  hook, bodies counted in half messages. It has the branches that TextResponse
  leaves out: requests that are not adopted, responses that are not gRPC, local
  errors, trailers-only, binary mode.
- **LoadStream**: a stream of the load generator, `runStream` of
  `perf/loadgen/main.go` with both decoders of `protocol.go`. `Read` is
  `response.Body.Read` with any number of bytes; `DecodeBlock` and `DecodeEnds`
  are `Push`'s loop over padded blocks; `RefuseFrame`, `TakeFrame` and
  `ConsumeEnds` are `consumeFrames`; `JudgeTrailer`, `JudgeData`, `ReadOn` and
  `Finish` are the loop over frames and the verdict. It judges responses of any
  server, cut and broken ones too, not only what the module can send.
  `LoadAssumption` says how bodies are listed: every frame listed begins before the
  body ends (a body cut at the end of a frame is a whole body with fewer frames), and
  the blocks of a text add up to the octets it carries.

The evidence. Three state machines, each with its evaluators beside it as
operators; an operator that stands for a Python function has its name in
camel case (`evaluate_release` is `EvaluateRelease`).

- **HostPreflight**: `host_info.py`. CPU sets are sequences of ranges, so that
  "invalid", "offline" and "overlapping" are computed; the rest of a machine is
  an identity. The digest of the fingerprint is taken to be injective.
- **BenchReport**, **BenchDecision**: `report.py`, `capacity.py` and
  `decision.py` from result files to a recommendation: sums, interpolated
  percentiles, the capacity as the end of an unbroken run of passes, medians,
  coefficients of variation and deltas. Percentiles and deltas are in hundredths
  and a coefficient is compared as a square, so that everything is an integer.
  Where a script raises, a predicate says so (`StatsReadable`, `Decidable`).
- **RcBenchmark**: `run-rc.sh` around `run-controlled.sh` around the capacity
  mode of `run-ab.sh`, and `rc.py`. `Preflight`, `StartAttempt`, `StartRepeat`;
  `RunAbba` is one step of the staircase with its four runs; `ReportStep` the
  report and evaluation after it, under `set +e`, that may fall back to the
  report of the step before; `FinalReport` the same under `set -e`; `Decide`;
  `Select`, `Extend` and `Refuse` are what `run-rc.sh` does with a checked
  attempt; `AggregateAll` ends it. `MachineChanges`, `HeadMoves` (to a new commit)
  and `HeadReturns` (to one that was there before) happen at any time. `failure`
  says which step ended the benchmark. Every `StartRepeat` builds images, because
  `run-ab.sh` does; `built`, a history, says from which commit and when.
- **SoakReport**, **SoakRun**: `soak.py` and `run-soak.sh` in strict mode. One
  phase of the script takes one tick; `Steady`, `Churn`, `Cancel`,
  `RestartBackend`, `Recover` and `TransportReset` are the phases of a cycle, with
  any outcome a load generator can report; `Evaluate` and `Link` are `soak.py` and
  `rc_soak.py`. Beside the script the sampler may die (`SamplerDies`) and the
  gateway's worker may die and be replaced by its master, under a load, whose
  streams notice, or between two (`IdleWorkerDies`). Three variables are history:
  `spotless` and `quiet`, what the loads and probes and the restarts came to one by
  one, beside the sums and flags that the script keeps, and `began`, the time at
  which the running cycle began.
- **ReleaseEvidence**: the evaluators of `release/` and `staging/`, and the link
  of `rc_soak.py`, over documents reduced to what they compare. A directory of a
  benchmark or of a soak has "raw", what its raw files yield, beside the aggregate
  saved from them, so that copying one without the other can be told.
- **ReleaseFlow**: the scripts from the benchmark to M15, in any order and on any
  directories. A script that builds and asks git at different moments has an
  action for each (`SoakBuild`, `EndSoak`; `BenchmarkAttempt`, `BenchmarkRepeat`,
  `EndBenchmark`; `ReleaseCheck`, `PackageBuild`, `PackageManifest`, `Check`), and
  between them `Edit`, `Undo` (an edit is restored), `Commit`, `Checkout` (HEAD goes
  to a commit that was there before), `HostChanges`, `CopyDecision` and
  `CopySoakReport` may happen. Fields named "tree", the commit and the edits that
  something was built from and the moment, counted in what has been undone since,
  are history: no script reads them.

The three are not one state machine. RcBenchmark's result enters ReleaseFlow as
`EndBenchmark`, which summarises a directory as ready only when its attempts name
one commit and its repeats one host (`AggregateAll`'s guard), while the images may
be of any tree there was (what RcBenchmark's `FromOneSource` is about); and
SoakRun's result enters as a report that passes or not, of any duration up to the
target.

Definitions headed "a mistake" are variants of the definition that follows them,
each one a bug that the code might plausibly have had; no action uses them. They
are there to show that every property can fail.

## 3. Model checking

| Run | Instance | Properties |
|---|---|---|
| `temp_buf` | 5-bit `size_t`, first capacity 3, every request 0..31 in every order | `Fits`, `PoolBounded`, `Answered` |
| `request_decode` | Q = 2, limit 3 + 1 octets, off_t up to 3, up to two buffers per call, flush marks on or off; all texts up to 4 characters over {two digits, `=`, junk} and seven longer ones | `ForwardsMeaning`, `VerdictFromText`, `BodyEndsOnce`, `NeverMissized`, `Settles` |
| `text_response` | five-byte headers, payloads 0..2 under limit 2 (and one that announces 30), first capacity 6, up to two buffers per call; ten streams | `DeliveredInOrder`, `NoFalseTerminal`, `RejectsOnlyBadStreams`, `BuffersOwnedOnce`, `NoOverrun`, `AllocationBounded`, `HoldsOnlyUnsent`, `Completes`, `Ends`, `ImplementsWebStream` |
| `response_filter` | limits 1 and 2 with a status block of 2, up to five half messages, trailers 0..3, clean and broken ends, seven HTTP statuses, up to two runs of the rewrite phase | `OneStatus`, `NoForgedStatus`, `OnlyOwnResponses`, `MessagesInOrder`, `RefusedForCause` |
| `response_truncated` | the same as `response_filter` | `IncompleteNeverSucceeds`, violated |
| `load_stream` | two-byte headers, payloads up to 3 and one of 7, two messages wanted, cancellation after one or never; ten lists of frames, whole, a byte short or followed by two bytes that start no frame, in binary, as one text, as a text with a quartet that is not base64, and as one block per frame | `PassedMeansWhole`, `CancelledOnOrder`, `FailsForCause`, `KeepsOnlyTail`, `Ends` |
| `rc_benchmark` | two scenarios (staircase 1, 2 with ceiling 3, and with ceiling 2) of two repeats, two attempts; runs good, slow, late, lean, failed or with too few samples; one change of the machine, or two moves of HEAD, forth or back | `StopLosesNothing`, `ReportWhole`, `ReferenceSustained`, `FromOneSource`, `ExtendsOnlyForBoundary` |
| `rc_overload` | the same as `rc_benchmark`, with one move of HEAD at most | `OverloadIsAPoint`, violated |
| `soak_run` | target of 12 ticks, policy of 6 and 5 samples, one stream in each load, a backend restart every third cycle and in the first, one death of a worker, one of the sampler | `PassMeansEveryCycle`, `SampledToLastCycle`, `Ends` |
| `soak_restart` | target of 8 ticks, a restart every second cycle, leak 0 or 1 a tick | `NoRestartMasked`, violated |
| `release_flow` | two directories, two hosts, one target, one gate; soaks of 1 and 2 with a minimum of 2; two packages; with both directories in use one commit, checkout, undone edit, change of host or copied aggregate, with one directory two of them, and any edits | `NothingPromoted`, `BuiltFromSource`, `StagedIsReleased`, `OneHost` |
| `release_soak_commit` | the same as `release_flow` | `SoakOfCommit`, violated |

Why the bounds are enough:

- *Cuts.* A chain may end at every byte (every character, every half message).
  Calls may follow each other without end, and what survives a call is the same
  whether the cut lies between buffers or between calls, so two buffers per call
  reach every carried-over state as well as the cases "last buffer with data",
  "after data" and "alone": the last two are how NGINX usually ends a body, and in
  ResponseFilter the call that brings the end may hand over any rest of it, none
  included.
- *Frames.* Payloads of 0, 1 and 2 bytes under a limit of 2, and one over it,
  are the cases the parser tells apart. Three messages recycle a buffer while
  another is still unsent. With first capacities of 6 bytes both the native frame
  and the encoded one grow.
- *Texts.* A quartet and its neighbour cover all carried-over characters; the
  longer texts put text after padding and sit on both sides of both limits.
- *Width.* 5 bits give four doublings and both sides of the overflow guard. The
  ladder 3, 6, 12, 24 does not reach the maximum, as 1024·2^k does not reach
  `SIZE_MAX`.
- *Load generator bodies.* Frames of 2, 3 and 4 bytes put the end of a frame at
  each place in a quartet, with and without padding between blocks; the lists have
  a message missing, doubled, one too many and unreadable, data after a trailer, a
  second trailer that overrules the first or is cut short, and a frame over the limit. What
  follows a body fills a header, so that it can be taken for a frame. Reads of
  every length cut the bodies at every character.
- *Limits.* The status block does not fit the first limit and just fits the
  second. Trailers range from absent to over both limits.
- *Staircases.* The first scenario can be extended once, the second starts at its
  ceiling, so a missing boundary is met by each of `rc.py`'s answers. In the first
  only capacity, in the second only CPU time can make native preferable. One change
  separates any two moments at which the scripts look at HEAD or at the machine, and
  two let HEAD go away before a build and come back after it.
- *Soaks.* Twelve ticks make three cycles: the backend is restarted in the first and
  in the third, so that a later probe could make up for an earlier one, and not in
  the second. One stream makes "all cancelled" and "none" the outcomes. A sampler
  that dies after the policy's time and before the target leaves a soak that passes
  and is not linked, and one that dies in the last cycle a soak that is linked. A leak can only fail a soak, so `soak_run` does without;
  `soak_restart` has it, above the limit, and a death that hides it. What longer
  soaks add is proved (section 4).
- *Releases.* Two directories and two packages are what it takes to mix up two
  campaigns and two builds; one change separates two moments, and with one
  directory, which holds a benchmark and a soak, two of them undo what came between:
  an edit that was built from is restored, a HEAD that moved comes back. With a recommended
  duration of 3 every verdict of M15 in this run uses the waiver; a third duration
  was checked as well, with the same result, when the run had fewer changes. More of
  everything is covered by the proofs. Directories and hosts are symmetric: nothing
  distinguishes one from another, and the run has no liveness property.

Deadlock is checked where the system runs on (`Over` says where a request may
rest) and not where it ends: after a failed allocation the request is over
(TempBuf), a benchmark and a soak end, and in ReleaseFlow nothing happens after
M15 is ready or when the bounds are used up.

**Fairness.** A hook that has been called finishes (`WF` on the filter's own
steps: the worker does not stop inside a function). NGINX keeps calling as long
as there is data: an upstream silent for `grpc_read_timeout` becomes a failure,
a client that reads nothing for `send_timeout` is dropped, and so the liveness
properties are stated for an upstream that goes on and a client that reads, with
cancellation and lack of memory as possible outcomes at any time. No strong
fairness is assumed. RequestDecode assumes the same of the client's body
(`client_body_timeout`). In LoadStream `WF_vars(Work)` stands for Go's scheduler and
for the deadline of the run's context, which turns a silent gateway into a failed
`Read`. In SoakRun `WF_vars(Script)` says that the script goes on: its loads have
a timeout, its probes are counted and its waits are sleeps; the deaths beside it
are not fair. ResponseFilter, RcBenchmark and ReleaseFlow claim safety only: an
operator may always stop.

**Four disagreements** between a document and the code, each shown by a run:

- `response_truncated`. `docs/RELEASE_NOTES_v0.1.0.md`, line 59, promises that a
  malformed or incomplete upstream response cannot become a false `grpc-status:
  0`. Text mode keeps that promise (`NoFalseTerminal`, proved). Binary mode passes
  native bytes on unparsed: a body cut in the middle of a message and cleanly ended
  reaches the client with its terminal frame all the same. The status is the
  upstream's own (`NoForgedStatus` holds), so the client depends on its own parser.
- `rc_overload`. `docs/CAPACITY_BENCHMARKS.md`, lines 53 and 117, counts the error
  rate among the limits that a step is judged by. In `perf/run-ab.sh` (213-216) a
  load generator with one failed stream ends the whole benchmark under `set -e`
  before anything judges the step.
- `soak_restart`. `docs/SOAK_TESTING.md`, line 178, says that a worker that
  restarts by itself is not masked by the final probe. The soak compares the
  master's pid and the container's restart count; neither changes when a worker
  dies. Between two loads, or when errors are expected, nothing else tells.
- `release_soak_commit`. `docs/RELEASE_EVIDENCE.md`, lines 154-156, asks for a
  soak of the same source commit. `run-soak.sh` builds at its beginning and asks
  git for HEAD at its end (413), and `release-check.sh` does not ask for the link
  that would notice. M15 asks for a link, which ties its soak to a benchmark whose
  commit HEAD had when the soak began. That settles the soak it links, unless an edit
  was undone or HEAD went back after the soak had been built (`BuiltFromSource`); it
  says nothing of the soak inside the release bundle, which may be another one.

Three things that the scripts do not notice and no document denies, so that they are
part of what the properties say rather than disagreements:

- Of several backend restarts in a soak only one needs to have hit a stream.
  `run-soak.sh` (302-306) keeps one flag and one sum for all of them, so that one
  disruption stands for a later restart that disrupted nothing; `docs/SOAK_TESTING.md`
  (127-135) calls a test valid only if "the" hard restart broke an active RPC.
  `PassMeansEveryCycle` says of failed loads, cancellations, resets and recoverings
  that no cycle makes up for another, and of disruptions that there was one.
- `run-soak.sh` (352) waits for the sampler to see the final state, without asking
  whether it lives. `SampledToLastCycle` says how much of a linked soak can be
  missing: the last cycle, and as much time as the start took.
- An edit that is undone, or a HEAD that goes away and comes back, between a build
  and the next look at git leaves no trace. `BuiltFromSource` and `FromOneSource`
  name these two ways and show that there is no third.

## 4. Proofs

TLAPS checks these for every value of the constants that satisfies the named
assumptions (`TextAssumption`, `CapacityAssumption`, `HeaderSizeAssumption`,
`RequestAssumption`, `QAssumption`, `MaxRequestAssumption`, `SoakAssumption`,
`SoakPolicyAssumption`, `DurationsAssumption`, `InputAssumption`,
`ResponseAssumption`, `UpstreamAssumption`, `LoadAssumption`, `PowersOfTwo`,
`WidthAssumption`), which TLC evaluates in the runs. Three of them need a word.
`PowersOfTwo` (Capacity) says what `2^k` is, a fact of arithmetic that the provers
do not have. `WidthAssumption` says that the ladder of `Width` doublings leaves the
range of `size_t`, as 64 doublings leave 64 bits; only `LoopComputesGrown` needs it.
`UpstreamAssumption` (ResponseFilter) is gRPC's rule for an upstream that the header filter's comment
(633-642) relies on: a `grpc-status` among the headers is that of an HTTP 200 gRPC
response without body. It leaves out an upstream that answers 502 or 504 with a
`grpc-status` header of its own, to which the module would add a second status.

- **TextResponseProofs**: `TypeCorrect`, `FramesArriveInOrder`, `TerminalIsTrue`,
  `RefusalsAreCaused`, `ChainsPartitionBuffers`, `CopiesFit`, `StorageStaysBounded`,
  `BusyIsUnsent` and the refinement `ResponseIsWebStream`. The invariants are
  not inductive: that the wire is right depends on the content of buffers still
  queued, which depends on nobody overwriting them, which depends on the chains
  being disjoint. `IInv` joins: `CallInv` (the chain of the running call lies
  ahead of `recv`), `ParserInv` (where in the stream the parser stands: block
  `Made + 1`, where `Made` counts blocks received, queued and encoded),
  `CountInv` (the terminal block is the last and only of a complete stream),
  `ChainsInv` (each chain without repetition, chains disjoint, a queued buffer
  never free, and no buffer forgotten), `ContentInv` (block i of the wire and the
  queue is frame i), `NoOverrun` and `RejectsOnlyBadStreams`. One lemma per
  action shows that `IInv` is kept; lemmas on `Grown`, `Consumes` and `Bytes`
  state what the operators guarantee. Three more invariants rest on it. `EndInv`
  gives the refinement what it needs of a response that is over; with it every
  action maps to a step of WebStream (`SendBlock`, `Close`, the failures) or to a
  stutter (all the turns inside a call). `HeldInv` follows the chains through a
  call: what `WriteReturns` leaves in `unsent` is what `Recycle` keeps busy.
  `CapInv` bounds the two capacities by what the largest frame asks of `Grown`;
  that an oversized length field reserves nothing is `RejectFrame` coming before
  `OpenFrame`. Of what `Ends` and `Completes` promise, three parts are proved.
  `EveryTurnTakesBytes`: wherever the loop over a buffer stands, one of its turns is
  possible and takes a byte at least, because an open frame always lacks a byte
  and has storage (`ParserInv`); the branch of lines 1036-1042 that reports an
  invalid frame state is dead code. `EveryStepCounts`: each step of the system lowers
  `Rank`, in which a byte pays for its turn and for sending and recycling the block
  it may complete, and the bytes of a call pay for the call; a response is over
  within (3 MaxBufs + 7) eof + 3 MaxBufs + 6 steps. `OverMeansDelivered`: when a
  complete response is over, the client has all of it or has left or memory ran out;
  `LastInv` says that the trailers follow in the call that brings the end of the body.
- **RequestDecodeProofs**: `DecodeYieldsOctets` and `DecodeUndoesEncode`, for base64
  itself and for the small code; `RequestTypes`, `OutputAlwaysFits`,
  `UpstreamGetsTheMeaning`, `VerdictIsTheTexts` (with `SizeInv`, the limit) and `OneEndOfBody`, for bodies of
  every length, cut in any way, and all limits. `OutputAlwaysFits` is a budget,
  `RoomInv`: every three octets written have used up four characters, and together
  with the characters pending and to come these never exceed the room `src_len + 2`
  by more than one. The others rest on one invariant, `BodyInv`. It says of the
  characters decoded so far that they are a valid beginning of the text, that the
  pending ones follow, and that padding among them means `finished` (`TakenInv`);
  that what was passed on, decoded by this call and written in this turn make up
  what that beginning means (`MeaningInv`); and where last-buffer marks may be
  (`MarksInv`). The arithmetic behind it is `MeaningAppends`: what a quartet adds to
  `Meaning`, read unit by unit, is what `DecodeQuartet` computes with shifts. That
  the reference is met whatever follows is `MeaningGrows`, and each refusal has its
  cause in a lemma of its own (`PaddingCause`, `QuartetCause`, `PartialCause`,
  `SizeCause`). The folds over buffers are reasoned about through `FlattenAppend`
  and `FlattenConcat`, which get at the recursive function behind `FlattenSeq` by a
  least counterexample. `EveryTurnDecodes` is the safety half of `Settles`: every turn
  and every call lowers a `Rank` made of the characters not read, the end of the body
  and the place in the call. What makes it fall over a `PassOn` is `BringsInv`: every
  buffer of a call brings a character or the end.
- **TempBufProofs**: `ReserveFits` and `PoolStaysBounded`; the loop's invariant
  relates `capacity` to the capacity it started from. `LoopComputesGrown` proves
  that the loop, turn by turn, computes what the filters' models take in one step,
  `Grown`: its invariant `ClimbInv` says that the candidate is a rung of the ladder
  below which no rung holds the request, or the request itself where no rung does.
  `LoopClimbs` says that each turn at least doubles the candidate or ends the climb,
  within the range of `size_t`: what `Answered` needs beside fairness.
- **ResponseFilterProofs**: `OneStatusAlways`, `StatusIsTheUpstreams`,
  `ForeignUntouched`, `SameMessages` and `RefusalHasCause`, for responses of every
  length, cut in any way, and all limits. None of the properties is inductive: they
  speak of a finished wire and say nothing of how far it has come. `WireInv` says
  it: the wire is a function of how much was handed to the filter, a row whose k-th
  item does not depend on how the calls were cut (`RowGrows`), and behind it, once
  the response is complete, what ends it. `CtxInv` says which row and which end: the
  header filter settles both and no later call revises them. `AdoptInv` says the same
  of the rewrite phase: who is adopted depends on what the client sent and on the
  locations passed, although the first adoption rewrites the header that the next
  pass looks at. `Layout` then spells
  the wire out item by item, and the five properties are read off it.
- **LoadStreamProofs**: `PassingMeansWhole`, `CancelsOnOrder`, `FlawlessNeverFaulted`
  and `TailOnly`, for any frames, limits and messages wanted, any coding of the
  octets into padded blocks and any way of cutting them into reads. None is inductive:
  a verdict speaks of the body, the state only of what is left of it. `TextInv` and
  `BinaryInv` say that the two buffers are runs of consecutive positions, the
  characters not yet decoded and the octets not yet taken as frames, so that nothing
  is lost, doubled or out of place between the reads. `DecodedRun` is the step that
  rests on arithmetic: the quartets up to `BlockEnd` decode to the octets that come
  next, across the padding between blocks. `InStep` then makes the frames waiting and
  the result an account of the first frames of the body, and the verdict is that
  account with both buffers empty. The proof asked for more of the bodies than the
  first model had said: without `LoadAssumption`'s last clauses, a body that ends
  before its last frame begins would pass without that frame. `EveryTurnCounts` is
  the safety half of `Ends`: a `Rank` over the octets to come, the characters
  waiting, the octets not taken and the frames not judged falls with every step, so
  that a verdict comes within 5 Length + 2 eof + 4 turns.
- **RcBenchmarkProofs**: `EarlyStopIsFree`, `CapacityCoversItsSteps`,
  `ComparedWhereSustained`, `BenchmarkOfItsCommit` and `NeverRetriedForTheResult`, for
  any scenarios, staircases, ceilings, limits, repeats and attempts. `FilesInv` says
  that the directory of the running repeat has both architectures' runs of exactly
  the steps climbed so far. Because `report.py` may fail after any step, what
  `capacity.json` says in between may be stale, and the argument is about the end:
  where a staircase stops, either it is at its top or the last judgement saw both
  architectures fail, and if the files can be read at all that judgement was of all
  of them (`CloseInv`); `FinalReport`, under `set -e`, reads them all again, so that
  the capacity a repeat keeps covers its steps whatever was lost before
  (`RepeatsInv`). `EvaluateCapacityFacts` gives what `EvaluateCapacity` yields of a
  report: points at exactly its loads, in order (`AscendingFacts`, that a finite set
  of numbers has one ordering, by least elements), and a capacity below the first
  failure (`ArchitectureCapacityFacts`). `CommonReferenceFacts` and `DecisionInv`
  carry that to the load the decision compares at, `ExtendStepsFacts` to the longer
  staircase. `BenchmarkOfItsCommit` is about images that no file names: `SourceInv`
  says of each manifest and of the images built after it that if HEAD is at the
  manifest's commit, the images are of it, or HEAD went back after they were built.
  What makes it inductive is that a move of HEAD forward is to a commit that no
  manifest names yet.
- **ReleaseFlowProofs**: `CandidateIsMeasured`, `VerdictIsBuiltFromSource`,
  `VerdictIsStaged` and `VerdictIsOfOneHost`, for any number of directories, hosts,
  targets, packages and changes. The argument for the second follows a document
  that names a commit from the moment the commit was read. `Stands` says of a tree
  built after that: if HEAD is at the commit, so was the tree, and if the tree had an
  edit, the worktree has one still; unless an edit was undone or HEAD went back after
  the build. `StandsKept` is the lemma that no move of the world breaks that: a new
  commit is not the one that was named, and a further edit only adds to the worktree's.
  M15 finds HEAD at the commit and the worktree clean, and the rest follows. The third
  needs `KnownBuilds` and `OneTreePerBuild`: all artifacts anywhere (in a job, the
  bundle, staging, the operator's notes) that have one checksum have one tree.
  `BenchInv`, `SoakInv`, `JobInv`, `BundleInv`, `StagingInv` and `VerdictInv` say
  these things of each place where a document can be.
- **SoakRunProofs**: `PassIsSpotless` and `LinkedIsSampled`, for soaks of every
  length, any number of streams, any restarts and any deaths. `events.json` has only
  sums and flags; the invariant `Ledger` says that no observed sum has overtaken the
  expected one, and that where all sums agree and the recovery flags stand, no phase
  has gone wrong. The first half is what makes the second inductive: equal sums after
  a phase were equal before it. `Hits` says what the flag of the disruption is worth,
  one restart of all. `LinkedIsSampled` puts together the loop, which begins no cycle
  after the target (`BegunInTime`), and the link, which asks for samples over as much
  time. `OverrunsOneCycle` and `ScriptRunsOut` bound the
  soak in time and in steps: `Clock` carries the ticks of the running cycle past the
  target, and the script's steps to come fall with each of its own and stay with a
  death beside it.

Only model-checked: liveness, `Answered`, `Settles`, `Completes` and the three
`Ends`. For each of them it is proved that every step is one of finitely many
(`LoopClimbs`, `EveryTurnDecodes`, `EveryStepCounts`, `EveryTurnCounts`,
`ScriptRunsOut`). What is left to TLC is that a step is possible and that fairness
takes it (`ENABLED` and `WF` are beyond the prover; in TextResponse the first is
proved for the loop over a buffer). The lists of reasons in `soak.py` and the sums under them, and the
percentiles and sums of `report.py`, are used in the proofs only by what does not
depend on their values.

## 5. What is abstracted or left out

- Payload bytes are positions, header lines are a length, media types are
  classes: the module never looks inside them.
- `r->out` and `ngx_chain_update_chains`, the upstream module's calls and NGINX's
  termination of a request are modelled from how the module depends on them.
- In RequestDecode: buffers in files (lines 456-461: NGINX's request body chain is in
  memory when filters see it) and `src_len` above `SIZE_MAX - 2` (lines 467-469).
- In TextResponse: buffers whose data is not in memory (lines 971-976).
- In LoadStream: white space in a text body, which `Push` drops; whether a reply
  parses and has the marker and the size wanted is one bit of the frame. Timings
  and byte counts of a stream are left out. `execute`'s start barrier and
  `summarize` are not modelled; RcBenchmark and SoakRun take what their drivers
  read of a load.
- In the evaluators: the checks of the types of JSON values (a document of the
  wrong shape raises, which is a refusal like another), the rendering to Markdown,
  bytes per second and the other columns that nothing decides by. Integers stand
  for floating-point numbers.
- In RcBenchmark: the wall clock, the ports and containers; the profiles of
  `run-ab.sh` other than `capacity`, which measure one load and judge nothing;
  `generate-tls.sh`. `perf/rc_revalidate.py` is not modelled: only its test calls
  it, `release/revalidate.py` is what the scripts run.
- In SoakRun: the soak that is not strict, which runs the same phases and keeps no
  promise; it enters ReleaseFlow as evidence of the harness.
- In ReleaseFlow, assumptions about the world: edits are one bit, and a commit
  takes all of them or leaves some; staging steps are first taken in the order of
  `docs/M15_RELEASE_FLOW.md`, and only a candidate's package is deployed; the
  browser run labelled native passes (that of the rollback may fail); CI's gates
  are of any commit and any class, as their file says; a checksum identifies a
  build. That an operator edits a raw file by hand is out of scope, as it is for
  the scripts.
- `release/m15.py` compares NGINX version and compiler of the benchmark with those
  of its summary only, never with the artifact of the release bundle. The runs have
  one target and no document asks for it, so no property does.

Not modelled:

- *Configuration*: two directives, created and merged by NGINX's helpers.
- *Browser harness*: a test client with one terminal flag that the browser's
  event loop guards; its result, passed or not, enters ReleaseFlow.
- *Fault and test backends*: what they do (reset, stall, half a frame) is what the
  upstreams of ResponseFilter, TextResponse and SoakRun may do.
- *Unit tests, fuzzers, protocol tests, images, proxies*: they exercise or package
  what is modelled and keep no state of their own.
- *The encoder's carry across updates*: the module always encodes whole blocks;
  only the fuzzers split them.
- *Back-pressure*: text mode consumes its input at once (line 1069). What that does
  to an upstream's read loop is decided in NGINX, outside this repository;
  `HoldsOnlyUnsent` says that the module itself holds nothing beyond what is unsent.
- *Internal redirects*, which clear the module's context: NGINX's code too.

## 6. Plan

Done: the module's core, the load generator's streams, benchmark, soak and release
evidence. Every invariant and every action property of the passing runs, and the
refinement, is a theorem; so are the bounds behind the liveness properties. What is
left, and why:

- Liveness itself needs `ENABLED`, which the prover does not reason about.
- That `percentile` lies between the values it interpolates and that the sums of
  `report.py` and `soak.py` count every sample once: `SortSeq` and the folds take
  operators as arguments, and what they compute is an induction over data.
- That a benchmark of RcBenchmark is one of ReleaseFlow's `EndBenchmark`, as a
  theorem that names both: the two models keep different parts of
  a benchmark (one its staircases, the other its files), and a refinement between
  them wants a model that has both.
