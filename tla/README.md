# Verification of the Cairo recorders

This directory holds TLA+ models of the CodeTracer Cairo recorders, the TLC
configurations that check them on small instances, and theorems about them whose
proofs TLAPS checks. Paths below are relative to the repository, which is `src/`
in `PROJECT.json`; the source tracer is `src/src/tracer.rs` there.

## 1. The system

The repository holds two programs that turn an execution of Cairo code into a
CodeTracer trace container (a stream of calls, steps, returns, variables and
special events).

**The source recorder** (`src/`, crate `codetracer-cairo-recorder`) compiles and
runs a Cairo program, and then rebuilds the order in which its lines ran from the
*source text*: the runner gives it the return values, not a trace. It also converts
snforge traces and replays single transactions fetched from a node.

**The block recorder** (`onchain/`, binary `codetracer-cairo-onchain`) re-executes a
whole Starknet block with StarkWare's executor, in which a small observer is
patched, and writes one container per transaction from what the observer noted.
Everything it asks of a node can be kept as a transcript and replayed offline.

| Component | Source | State it keeps | Operations | Modelled |
| --- | --- | --- | --- | --- |
| Source walk | `src/tracer.rs` 374-1091, 2711-2800 | visited set, activation stack, the return value that rides along, the writer's buffered step | enter root, step a line, replay a loop, skip or enter a callee, leave | `SourceWalk` |
| Execution observer | `onchain/blockifier-patch` | `Sink`: frames, stack, pending_step | install, enter, syscall_at, record_steps, exit, take | `FrameSink` |
| Container writer | `onchain/src/record.rs` | recursion of `emit`, depth, pending_call, counts | splice, internal call/return, step, close, return | `ContainerWriter` (partly; where a step is shown is in `ClassListing`) |
| RPC client | `onchain/src/rpc.rs` | transcript, replay map, attempt | answer, call | `Transcript` |
| Transcript | `onchain/src/transcript.rs` | a directory | write, read | `Transcript` |
| Block replay | `onchain/src/main.rs` 336-1079 | executed rows, `broken`, reports | fetch, convert, execute, compare, record, report | `BlockReplay` |
| State reader | `onchain/src/state.rs` | prefetched leaves, class cache | prefetch, leaf reads, class reads | `StateReader` |
| Block fetch and context | `onchain/src/block.rs` | none | fetch, context, executable | `BlockReplay` (outcomes only) |
| Floor probe | `onchain/src/main.rs` 1125-1215 | lo, hi | bisect, read the node's state | `ProbeFloor` |
| Source binding | `onchain/src/source.rs` | a directory of bindings | bind, load_dir, apply | `SourceBinding`, `ClassListing` |
| CASM listing | `onchain/src/listing.rs` | listings, embedded texts | build, interning the texts | `ClassListing` |
| Command line | `src/main.rs`, `recorder.rs`, `lib.rs` | the trace folder | record, trace-starknet, replay | `Recorder` |
| Recording driver | `src/tracer.rs` 60-535 | the phases of a recording | compile, probe, run, derive, walk, close | `RecordProgram`, `BundleWriter` |
| Return values, loop environment | `src/tracer.rs` 998-1091, 2690-3841 | tables of values, the environment of a loop | derive, recognise, replay | `ReturnValues`, `LoopReplay` |
| Locals probe | `src/value_probe.rs` | value per declaration | consume, alias fixpoint, map by name and line | `LocalsProbe` |
| snforge conversion | `src/starknet.rs` 1-745 | the file, read twice | convert_snforge_trace, write_starknet_trace | `SnforgeTrace` |
| Transaction replay | `src/starknet.rs` 745-1490, `src/main.rs` 250-355 | recursion over calls | fetch, fetch the class, re-execute, write | `TransactionReplay` |
| Source map | `src/source_map.rs` | none (pure) | byte offset to line and column, line lengths | `SourceMap` |
| Text recovery | `src/tracer.rs` 1481-2690 | none (pure) | parse functions, lets, callees | no: the parsed table is the input of `SourceWalk` and `ReturnValues` |
| Packaging, tests | build files, fixtures | none | | no |

### How they interact

*Source recorder.* `main` picks a command. `record` makes the trace folder and calls the driver
(`trace_program`), which compiles the program twice (optimised for the run, not for the probe
of its locals), runs it, opens the bundle, derives the functions' return values and calls
`emit_source_trace`, which parses the function table and walks it, calling the trace writer.
`trace-starknet` turns a file written by snforge into a bundle and `replay` a transaction's trace,
with an optional run of its entry point that must not stop the rest. The writer keeps one step
buffered until `register_return`, and a variable attaches to the buffered step: this
is why the place where the return value is registered matters.

*Block recorder.* `main` makes an `Rpc` (network or transcript); `trace_block` fetches
the block, makes a reader at the parent block and an executor over it, and for each
transaction installs the observer, executes, and takes the frames. The executor
calls the observer back (`enter` / `syscall_at` / `record_steps` / `exit`). When the
whole block has run, `write_container` turns each transaction's frames into a
container, whose steps are placed on the lines of a listing of the class's CASM or, if a binding
of the class proves itself against what ran, in its Cairo source. Bindings come from
`bind-class`, run at another time on the build tree. The answers of the node are written out at the end, whether the work
succeeded or not.

### What is hard

* **Order rebuilt afterwards.** A frame's trace is handed over only when its run ends,
  children before their parents; `emit` has to weave them back from `parent_step`
  alone. A syscall that stops its parent leaves a `parent_step` equal to the trace's
  length.
* **Partial failure.** Frames fail before they run, in the middle of a function, in a
  syscall; each exit has to pop two stacks exactly once and keep the trace that ran.
* **A decision taken early and used late.** `emit_function_dfs` picks the callee that
  gets the return value before walking the body; the callees walked before it change
  what it is based on.
* **Cyclic call graphs.** Termination of the walk rests on the visited set alone.
* **One long run over a moving state.** Transaction k's prestate comes from three places
  (what the prefetch brought, single reads, what transactions 0..k-1 left), some of its
  classes from a fourth, and a refusal half-way changes what all later rows mean.
* **Two readings of one text.** The source, a trace file and a build tree are read more than
  once; the main function is picked by three rules; a return value is derived in passes over a
  table whose order is not the order of dependence; a loop is replayed from a guess of its state.
* **A bundle begun and not finished.** Every failure between the opening of a bundle and its
  last file must show in the exit code.
* **Retries, refusals, crashes.** A node answers late, wrongly or not at all; the
  process can die while it overwrites a transcript directory in place.

`PROJECT.json` lists each of these at its line (`hazards`), with the property that
would catch it going wrong, and those no property covers yet.

## 2. The modules

### SourceWalk, SourceRecording

`SourceWalk` models `emit_source_trace` / `emit_function_dfs` / `simulate_while_loop`.
A *program* is a function table as the text parser produces it: per function its
lines; per line whether it is blank, how many statements it holds, which callees
were parsed from it, and, for the header of a recognised while loop, its closing
line and whether its condition evaluates. The recursion is an explicit stack of
frames; `line` and `idx` are the position in the loop over lines and over a line's
callees, `recursable` and `post` the two facts the code computes before the walk
(`tail_call_position`, `has_post_recursion_step`), `passenger` is
`pending_synthetic_return`. `visited` is the code's set. `IsProgram` states what the parser
guarantees: a blank line names nobody, and recognised loops do not overlap, because
`parse_while_loops` resumes past the closing brace (2784-2786). `pending` stands for the
writer's buffered step and is external. One action is one turn of a loop of the
code or one return.

`SourceRecording` is the abstract specification: calls nest, no function is entered
twice, a step belongs to the innermost open call, and the return value attaches at
most once, to the last step of the recording. `SourceWalk` implements it
(`ImplementsRecording`), by TLC on the instance and by proof for all programs.

Properties: `PassengerUnique` (never two open frames that can still surface or hand on
the value), `BodiesComplete` (a returned function left exactly its non-blank lines, each once per
statement and in source order, whatever was entered in between), `ReachesCallGraph` (the functions with a
call event are those reachable outside replayed loops), `WalkEnds`. One more
property states what a doc comment says and the code does not do; see section 5.

### FrameSink

The observer and the executor around it. `frames`, `stack` and `pending_step` are the
fields of `Sink`; `enter`, `syscall_at`, `record_steps`, `exit` are its functions.
The executor and cairo-vm are external and modelled from the calls `apply.py`
inserts: `vm` is the stack of frames the executor runs, each with the trace made so
far and a phase (`entered`, `run`, `syscall`: the hint of the next instruction has
run, `halted`, `leaving`). A syscall hint can open at most one frame; a failing
syscall halts the frame or does not, as the executor allows. `history` records what
the VM did, in order, and is what the properties compare with.

Properties: `SinkFollowsVm` (the observer's stack is the executor's, and parents are
right), `SplicedWhereMade` (a parent's steps before a nested frame are exactly those
with an index below its `parent_step`).

### ContainerWriter, ExecutionReplay

`ContainerWriter` extends `FrameSink` with `write_container` and `emit`: an activation per
recursion of `emit` with the step it is at, its function depth, `pending_call` and the
frames still to splice in at that step (a set: the code's vectors are in the order the frames
were noted in, which is the order of their numbers, so `First` is the next of them). One action writes one event (an internal
return is written with the step of its `ret`) or opens one activation.

`ExecutionReplay` is the abstract specification, the module comment of `record.rs`: the
container shows what happened, event by event, in the order it happened.
`ContainerWriter` implements it (`ReplaysExecution`) with `log` mapped to the VM's history
and `shown` to the events of the container other than internal calls. Since the
writer runs after the transaction, this is the weaving of the traces proved right
against the execution rather than against another copy of the algorithm.

Other properties: `ContainerComplete` (nothing missing, and `rec.steps` counts it),
`DepthFollowsVm` (steps and nested calls are written at the VM's function depth, with
one stated exception), `CallsBalanced`, `ContainerWritten`.

### Transcript

`rpc.rs`, `transcript.rs` and the part of `main.rs` that ties them, over several
invocations of the tool on one directory. An attempt comes back with any status and
body (`Post`), is final or retried, and is recorded or not; offline, `Lookup` serves the
map that was read. `WriteAnswer` and `WriteIndex` write the directory one file at a time,
and `Crash` kills the process anywhere, tearing the file being written or not. Requests
are numbered in the order of their text, which is how the files are named. The client
that asks is arbitrary, except that the run that *repeats* a recorded one asks what
that run asked as long as it gets the same outcomes: `trace_block` is a function of the
block number and the answers.

Properties: `ServedAsAnswered` (no request is ever served something the node did not answer
to it, whichever processes died), `ReplayReproduces` (an offline run gets, request by
request, what the recorded run got, refusals included), `HoldsEveryAnswer`,
`EveryCallReturns`.

### StateReader, BlockReplay

`StateReader` is `RpcState`: the prefetch (`relaxed` counts the refused batches, `toTry` holds
what is still to be simulated), `Read` for a leaf (prefetched, else asked for, with "contract
not found" turned into the default), the class cache `classes`, and `DeclaredClassRecord`. The node
is external, truthful about the block it is asked about, and free to leave any question
unanswered. A leaf's value is named by the transaction that wrote it last, which tells every
two states of a block apart; transactions differ only in their kind, the leaves they read and
write and the classes they run or declare.

`BlockReplay` extends it with `trace_block`: `executed`, `broken`, the summary's comparison (`diff`), the
recording loop. Blocks are mined ones (`BlocksAreMined`): a class runs only where it exists and is
declared once. The executor is external: it reads its own state, then the reader; it
fails when a question is unanswered, when a class is missing, or when a class to be
declared is already found; it may also *diverge*, as the code expects of it ("Whether the CASM so
produced is the CASM the sequencer ran is not assumed", `state.rs:318-321`), and then the
receipt's facts show it. The comparison with a receipt is kept as its outcome.
`unanswered` is a history variable of the model.

Properties: `PrestateIsTheSequencers`, `RefusalStopsTheBlock`, `RefusalsHaveACause` (a transaction is
never refused for something this tool did, as loading a declared class early),
`DiffIsOfTheWholeBlock`, `ReplayEnds`.

### ProbeFloor

`probe_floor`: the tip, block 0, one action per turn of the bisection, and the reading of the
node's state with its controls. Which blocks the executor accepts is an arbitrary predicate.
Properties: `FloorIsABoundary` (on every chain), `FloorIsTheLowest` (on monotone ones),
`ProbeEnds`.

### SourceBinding, ClassListing

`SourceBinding` is `bind-class`: `Matches` compares a build with the chain's class, component by
component; `Pick` chooses, of a statement's inlining chain, the innermost place that no macro
generated; `stable_path` names a file the same on every machine, or refuses it; the texts of the
named files are read from the build tree *when the binding is made*, so `Edit` may come in between.
`ClassListing` goes on with a run of the block recorder: `load_dir` (of two bindings of a class the
one the directory happens to list last), and one `ListClass` per class that ran: `apply` proves the
binding against the class that was loaded, `Listing` decodes the bytecode linearly and puts the
label lines, `Embedded` and `Clash` intern the texts, one per name. `Damage` is someone who edits a
binding or gives it another class's hash. The compiler, the hashes and the instruction format are
external: hashes are compared as what they are hashes of, an instruction is its size and the
target of its relative call.

Properties: `LocatedAtItsSource` and `StepsOnItsInstruction`, each with the precondition the
code needs and does not check: that no two files of a build have one name, that no file was edited
before it was bound, and that a class's data comes after its code.

### Recorder and the modules it composes

`Recorder` is the command line of the source recorder: one of three commands from its arguments to
its exit code. It extends one module per part, all of which share `BundleWriter`'s `disk` (how far the
bundle's files got) and report a failure through `Fail`, the code's `?`:

* `RecordProgram`: `trace_program`'s phases. The program's Sierra functions are in an order of their
  own; `ContainsMain` is the rule the run picks main by, `EndsInMain` the probe's, `Root` the walk's.
* `ReturnValues`: the passes that derive a return value for every function (`SeedVariables`, `FromBindings`,
  `FromTails`), a pass being one action, over the functions' bindings and last lines. What they return is
  not in the text: `run` holds the calls the VM made, in which two calls of one function return what they like
  (their arguments differ, they recurse, they return early). `IsRun` says how a call fits its function's text: which
  calls its bindings made, and what it returned if it got to its last line. The recorder sees the first
  call's result only (`VMValues`); the properties see the others.
* `LoopReplay`: `parse_while_loops` (`IsLoop`, `ClosingLine`: which lines head a loop, and where the braces
  opened from there on are closed, by counting them) and `simulate_while_loop`, line by line: a turn steps
  on the header and looks at the condition (`LoopTurn`), then on each line of the body (`LoopLine`), and is
  counted after the last (`LoopTurned`). `env` is what the simulator believes, which knows only what it
  could parse; `execution` is what the function does, line by line for as many lines as no cap is reached
  (`MostLines`), and `Executed` what a recording tells of it.
* `LocalsProbe`: what the unoptimised run consumed, the first value kept per declaration, and the
  alias fixpoint, a round of copies at a time: each round visits every copy once, one per action and in any
  order, and the next one begins if anything changed. `IsProbe` tells the bindings the text has (`sites`), in
  branches taken or not, from those the run executed (`events`), some of them often and some never: the probe's copies
  are all the former, and what a declaration held is a matter of the latter.
* `SourceMap`: offsets, lines and columns, on texts of newlines and other bytes.
* `SnforgeTrace`: both translations of a trace entry, and the second reading of the file.
* `TransactionReplay`: the trace from a file or a node (`IsTransaction` says what one is), the class and the
  local run that may fail, the walk of `write_invocation` as a stack, the storage diffs contract by contract
  (`diffed` counts them), and the count functions. The order in which an invocation called and emitted
  (`acts`) is in the model for the properties alone; the writer uses the two lists the trace has, those of its
  acts that are calls and those that are events. A trace nests its calls; here the invocations are numbered, each
  before those it calls, and an act that is a call names the number.

Properties: `OutcomeIsTheDisks` (exit code 0 exactly when a complete bundle, or none because recording
was switched off, is on disk), `AgreesWithConversion` (each entry written has its step, its frame and its
special event at the line that counts it, and they say what the older conversion says), `KeepsCallOrder` (calls nest and come in the
order they happened, each invocation's events in theirs while it is open, a line for each, and the counts are right),
`LoopsRunAsExecuted` (where the simulator understands every loop, lines and values
are told as they are executed), `ReturnsAreTheirs` (a derived return value is one that some call of the function
returned; for a function that ends in a call only where the function called so returns the same every time, since the
code hands it what another call returned, section 5), `ValuesAreHeld` (whatever copies join to a consumed value gets one; a value
shown for a local is one that a declaration joined to it held, and one that it held itself if all bindings that join them
were executed, none twice), `PositionsRoundTrip`, `CommandEnds` (a command ends or waits for a node or a VM for ever; it
never runs in circles of its own).

## 3. The runs

| Run | Bounds | Shows |
| --- | --- | --- |
| `source_walk` | three listed functions and one unlisted name; call graphs of two lines for `main` and `f` and one for `g`, each line from a set that has blank lines, two statements, two callees, self and mutual recursion, unlisted names; loops of one body line, cut off at 2 iterations | all properties of `SourceWalk` |
| `container_writer` | 3 frames, 4 instructions | the observer's and the writer's properties, over every way frames nest and fail, and that the writer implements `ExecutionReplay` |
| `transcript` | 2 requests, one result and one error, 1 retry, 3 invocations of 2 requests, 1 crash | the transcript's properties |
| `block_replay` | blocks of 2 and 3 transactions of seven shapes (every kind of body), 2 leaves of which one is of a contract absent at the parent, 2 classes of which one is declared in the block; whole, partial and mistaken requests | the properties of `BlockReplay` |
| `probe_floor` | every predicate on chains of 1 to 7 blocks | the properties of `ProbeFloor` |
| `class_listing` | five builds (one of another ABI, two of one program of which one has no locations, one whose two files get one name, one with a file that cannot be named), three answers of which one is another class's, an instruction of two words, an empty Sierra statement, two labels on one instruction, a Cairo 0 class whose data hides an instruction; 2 bindings, 1 edit or damage, 2 classes run | the properties of `ClassListing` |
| `recorder` | families of programs (chosen for main's name, for the return values, for loops, for locals, for the line table), trace files and node answers, each with every way its files, compilations and requests fail | the properties of `Recorder` |
| `source_walk_value`, `transcript_cut`, `block_replay_declared`, `recorder_loops`, `recorder_root` | as above | one violated property each, section 5 |

*Why the bounds are enough.* Three functions give every relation of a frame to a callee
that matters to the walk (caller, callee, one visited meanwhile), and an unlisted name
the fourth. Two lines make a line before and a line after a call. In the observer,
three frames give a chain of three and two siblings in one parent; four instructions
let a parent execute before, between and after its children. With two answers a
transcript can be indexed wrongly; three invocations are record, record over it,
replay. One crash is enough because every crash leaves the process idle. Three
transactions are one that changes the state or stops the block, one that reads what it
left, and one that shows what a refusal or a divergence does later; seven blocks take the
bisection through three turns. Two bindings are two of one class or one each of two classes that
name the same file. The families of `recorder` vary one part at a time because the parts meet only in
the phases and the bundle, which every family goes through. Its programs for the return values are run by a small
interpreter (`RunOf`): parameters decrease along calls, so that functions recurse, return early and return different values to
different callers; `Handed` is a run in which a function is given what another call returned. Its programs for the locals have every
three bindings of three declarations, and every run of up to three of them in which a binding is repeated or left out.

*Deadlock* is not checked: the recorders are programs that end, and so do the models.

*Fairness.* `WF(Next)` in `SourceWalk` and `WF(WriterNext)` in `ContainerWriter`: both are
single-threaded loops that never wait. `WF(Post)` in `Transcript`: the HTTP agent has a
timeout of 180 s (`rpc.rs:53-55`), so every attempt comes back.
`WF(Next)` in `BlockReplay` and `WF(Answered)` in `ProbeFloor`: single-threaded runs all of whose
calls return, by that timeout and the bounded retries `EveryCallReturns` checks; in
`ProbeFloor` no question is assumed to fail, so a bisection that does not end is not
excused by a failure. `WF(main /\ ~AwaitsAnother)` in `Recorder`: one thread, and only its own steps are fair. The
requests of a live replay have no time limit (`starknet.rs:787`, `838`) and runs of the VM no gas limit
(`tracer.rs:151`, `value_probe.rs:304`, `starknet.rs:1469`), so nothing is assumed of the steps that wait for
either (`AwaitsAnother`): `CommandEnds` allows a command to stay there for ever, and nowhere else. Another
program that writes the trace file (`Environment`) owes nothing either. Nothing is assumed of
when, or whether, a user starts the tool, a transaction ends, or a process dies.

## 4. The proofs

`SourceWalkProofs` proves for **every** set of programs, with the constants' assumptions
`ProgramsAssumption` (what the text parser guarantees of a table), `NoNameAssumption` and
`MaxItersAssumption`:

* `TypeCorrect`: `Spec => []TypeOK`.
* `PassengerIsUnique`: `Spec => []PassengerUnique`.
* `WalkImplementsRecording`: `Spec => Recording!Spec`.
* `WalkReachesCallGraph`: `Spec => []ReachesCallGraph`.
* `WalkRecordsBodies`: `Spec => []BodiesComplete`.

`PassengerUnique` is not inductive: that a frame hands the value to its tail call says
nothing of its callers. The inductive invariant `IInv` adds what a frame's scan has
promised (`FramesScanned`: every call it does not count as recursable is of a visited
function), where a suspended frame stands (`CallersSuspended`: just past one of its
recursable calls), that a frame lies below the passenger only if it has nothing left
to record (`PassengerChain`, `SurfacedLast`), and that a step after the last recursable
call is still buffered (`LastStepBuffered`), which is what makes the value land on the
recording's last step. Each action has a step in the proof that `IInv` is preserved.

The call graph is followed by `CallsFollowed`: a frame has visited every callee it has
looked at, outside replayed loops (`FramesLookedUp`); a visited function that is no longer open
has only visited callees (`LeftBehind`), so that at the end the visited set is closed under
calls; and whatever is visited is reachable (`OnlyReached`) and has its call event (`CallsRecorded`). That no loop header lies
inside another's lines is what keeps a frame that jumps past a loop outside all of them.
`BodiesFollowed` is about steps: a function is open at most once and is not
recorded before it is visited (`OpenOnce`, `OnlyVisitedRecorded`), the lines an open frame has passed are
recorded in full and the others not at all (`BodiesOpen`), and a body once left stays as it is (`BodiesLeft`). Both are
proved from `IInv`, action by action. Steps are counted with `Cardinality` of the set of their
positions; `StepsWithin` says what an action that writes a block of events does to these sets.

`ContainerWriterProofs` proves for transactions of **any size**, first of the observer (`NoParentAssumption` and
`NoStepAssumption`: the two `None`s are not numbers; the bounds may be any naturals):

* `SinkTypeCorrect`: `ObserverSpec => []SinkTypeOK`.
* `StackIsTheExecutors`: `ObserverSpec => []SinkFollowsVm`.
* `ParentStepIsRight`: `ObserverSpec => []SplicedWhereMade`.

`SplicedWhereMade` speaks of the past only; its inductive invariant adds what holds of the
frames that still run: they are numbered in order of entry (`IdsIncrease`), while a
syscall is handled its step is the noted one (`SyscallNoted`), no running frame is behind
the frames opened from it (`ChildrenBehind`: their `parent_step` is at most the length of
its trace, so the next step falls on the right side), and the steps that happened are
those of the trace (`HistoryNoted`). One lemma (`SameShapeKeepsInv`) covers the four
actions that only change a phase or what is noted of one frame, one (`EnterKeepsInv`) the
two ways of entering; `Execute` and `LeaveFrame` have their own.

* `HistoryIsInOrder`: `ObserverSpec => []OrderInv`. The execution's events come in the order the
  writer counts on: a frame is called before anything happens in it, and frames in the order
  of their numbers (`CallsInOrder`); an event is of the innermost open frame (`InnermostActs`); a
  frame's steps happen once each and in order (`StepsInOrder`). Every action is one of four shapes
  (nothing happens, a frame begins, executes, or is left), and the proof is by shape.

On this rest all safety properties of the writer and its refinement, again for transactions of **any size**:

* `WriterTypeCorrect`, `ContainerIsComplete`, `DepthIsTheVms`, `StreamIsBalanced`;
* `ImplementsReplay`: `Spec => ReplaysExecution`, step by step.

The refinement needs to know that the writer, which only has what the observer noted of each
frame, is always at the place the execution was at. `PlaceInv` says so of every activation: what is
shown is a prefix of the history (`ShownIsPast`), the activations are the frames open after
that prefix (`EmittingIsOpen`), each has shown the steps it had executed by then (`StepsShown`), and
the frames left to splice in, or to begin with, are those not yet called (`KidsLeft`, `TopsShown`).
`NextTop` and `NextOfCurrent` then say that the next event of the history is the one this place
calls for: the first frame left to splice in, the next step, or the return. For the depth, the
same is said of call and ret instructions: what a frame has executed determines how deep it is
(`DepthInv`), and an activation has as many internal calls open in the stream as that, less the
one the next step opens (`AtDepth`). For the balance, the calls the stream leaves open are those of the
activations, stacked: of each its call, then as many internal calls as its depth (`Balanced`); the
lemmas on it (`BeginsFrame`, `OpensInternal`, `LeavesInternal`, `LeavesFrame`) have one operation each.
TLC checked each of these invariants on the run's bounds before its proof was tried.

`EventsOfFrames`, `OpenCallsAfter` and `DepthsOf` are folds over a sequence. What they compute is proved by
induction all the same: `Induction` has a set instead of a predicate as its parameter, and follows
from a set of naturals having a least element (`FirstIsLeast`); `FoldExists` gives a
fold its values.

`BlockReplayProofs` proves for blocks of **any length**, over any leaves and classes, from
`BlocksAreSequences` and `MarkersAreDistinct` (the markers are not values):

* `ReplayTypeCorrect`, `PrestateIsRight`, `RefusalIsFinal`, `DiffIsWhole`;
* `RefusalsAlwaysHaveACause`, which also needs `BlocksAreMined`.

What a transaction saw says nothing of what the next one will see. The inductive invariant
adds that a prefetched value is the parent's (`PrefetchedIsTheParents`), that while nothing was
refused and nothing diverged the executor's state agrees with the sequencer's at this point
of the block (`CacheFollows`: what it holds is right, and what an earlier transaction wrote it
holds), that `broken` is the first refused row (`BrokenIsFirst`), and what each phase implies
(`PhaseFits`). `OneMore` says how a leaf's value changes over one transaction; `SeesTheSequencers`
is the heart of the argument, and `RowKeeps` and `RefusedKeeps` serve all four ways of adding a row. For the causes of
refusals, `CauseInv` adds that the reader's classes are the parent's, that the executor's own are those the
block has declared so far (`ClassesFollow`), and why a body may not have been converted
(`ConversionFits`): a mined transaction reached on the sequencer's state can then be executed
(`MinedIsExecutable`).

`ProbeFloorProofs` proves `ProbeTypeCorrect`, `FloorIsAlwaysABoundary` and `FloorIsAlwaysTheLowest` for
chains of any length, from the invariant that the upper end is accepted and the lower one refused.

`TranscriptProofs` proves, for any requests and answers, any number of invocations and any
number of processes that die, from `RequestAssumption`, `RetriesAssumption`, `AnswersAssumption` and
`MarkersAssumption` (a missing or torn file is not an answer, nor an index):

* `TranscriptTypeCorrect`, `ServesAsAnswered`, `ReplayIsTheRun`, `DirectoryIsComplete`.

The invariant follows an answer along its way: what the client records is the last answer of its
log to each request (`AnswersKept`), what is filed so far is under its number (`AnswersFiled`), what an
idle directory serves is that (`DirectoryHolds`), and so is what an offline run has read (`ReplayHolds`).
`Numbering` says that the files' numbers, which are cardinalities, neither collide nor leave gaps;
`OneMoreAnswer` what an answer adds to a log, and `TableOfALog` that a table of the last answers
gives every request of a consistent log its outcome. `LogGiven` is stronger than
`ServedAsAnswered`: a run against the node is right even over a directory that was cut.

`ClassListingProofs` proves `ShownAtItsSource` (`LocatedAtItsSource`) for any classes, builds, trees and
bindings, from `BuildsAssumption` (what a build's debug information is) and `StatementsAssumption`
(no offset belongs to two statements). Its invariant says that a binding, whatever is done to
it, keeps the locations of the build it was made from and, while nothing was edited, the digests of the
built texts (`DirectoryHolds`), that a loaded one holds the texts its digests are of (`SourcesHold`), and
that each listing made is that of its class under a binding that proved itself against it, with every
text it names interned (`ListingsHold`). "The first place that no macro wrote" is a
least number: `NatMin` derives it from the well-foundedness of the naturals.

The same invariant gives `StepsOnTheirInstructions` (`StepsOnItsInstruction`), with `WordsAssumption`: an
instruction is one word or two and no part of another. The sweep and the listing are recursive functions of the
number of turns; `Recursion` says that such a function exists, by an induction (`Induction`) which comes from
`NatMin` too. Along the sweep, `SweptSoFar` says that every instruction below the sweep's offset was met and
that the offset is at one as long as one is left, which is where `DataLast` is needed; along the listing,
`ListedSoFar` says that the line counter is the length of the text and that every offset so far is shown on
its line, under its labels (`ShownNow` for the one just listed, `ShownBelow` for those already there).

`RecorderProofs` proves, for **any** programs, trace files and node answers:

* `OutcomeIsAlwaysTheDisks`: `Spec => []OutcomeIsTheDisks`.
* `EntriesAgreeWithConversion`: `Spec => []AgreesWithConversion`.
* `LocalsHoldTheirValues`: `Spec => []ValuesAreHeld`.
* `PositionsAlwaysRoundTrip`: `Spec => []PositionsRoundTrip`.
* `RecorderTypeCorrect`: `Spec => []TypeOK`.
* `LoopsAlwaysRunAsExecuted`: `Spec => []LoopsRunAsExecuted`.
* `ReturnsAreAlwaysTheirs`: `Spec => []ReturnsAreTheirs`.
* `BundleKeepsCallOrder`: `Spec => []KeepsCallOrder`.

The assumptions are `ProgramsAssumption` (a program's ids, functions and lines are sequences, an id that ends in
"::main" contains it; the functions' bindings and last lines are sequences, `IsTable`, the calls of the run fit
them, `IsRun`, and so do the probe's bindings and events, `IsProbe`), `BodiesAssumption` (what deserialises is a trace, `IsTransaction`: a finite
tree, whose two lists per invocation are its calls and its events) and `FilesAssumption` (an entry is of one of the five kinds `TraceEntry` has). The first theorem needs to know, at
the end, what was done several phases before. `PhasesInv` says how far the bundle is in each phase, that a failure ends
the command, and which command a phase is of; beside it, each thing the exit code speaks of has its own part of
the invariant (`RecorderInv`):

* the table that was interned (`TableIsTheTexts`);
* the loop that a build with overflow checks stops at (`OverflowHasItsLoop`): a `ClosingLine` that underflows is the
  next line, and the braces counted there balance, so that line closes what the header opens (`UnderflowHasItsLoop`);
* the function run, probed and shown (`MainIsRun`): with one id that has "::main", the three rules pick the
  same one (`OneMainIsFound`);
* the calls open in the bundle (`CallsAreOpen`): the root's while it is walked, or those of the invocations on the
  stack (`ReplayTyped` says that these are invocations of the trace), so none once the walk is over;
* the panic, told after the last other event (`PanicIsTold`).

Calls and returns are counted with `Count`, the cardinality of a set of positions; `CountConcatenation` says what
writing a block adds, and `Bracketed` how many calls and returns each kind of block has. For the second theorem, `EntriesInv`
says that what is written so far is told as the conversion has it, that no event is at a line not yet reached (so a later entry
adds nothing to an earlier one's, `StaysTold`), and that from the second reading on the contract is that of the
file as it still is. `BecomesTold` is one entry: its events are at the positions the property names (`ShapeOfEntry`),
and names, variables and values agree (`NamesAgree`, `VariablesAreArguments`, `ValuesAgree`).

The third is about the fixpoint of the locals probe, for any bindings, any run of them, and any order of consumption and of
visits. `LocalsInv` says that a declaration which has a value is joined, by bindings, to the one that value was made
for (a copy keeps this because its two sides are joined to the same declarations, `JoinedBothSides`), and that in a round
which changed nothing so far every copy visited has a value on both sides or on none; when the rounds end that holds of all of
them, so that a value reaches everything it is joined to (`EvenReaches`: the declarations with values are one of the sets
`Joined` ranges over). From the first part the property follows at once, since the maker's declaration held the
value (`MakerHolds`). `WholeHolds` is the rest: a declaration bound once holds one value, so where no binding was
skipped the two sides of each hold the same, and so does all that is joined.

The fourth is about `SourceMap` alone, for a text of any length. The three passes over a text are recursive
functions of the number of bytes; `StartsUnfold`, `CutUnfolds` and `CountUnfolds` unfold them by `Recursion`. `Aligned`
is what holds of the three after each byte, side by side: starts increase, a length is what lies between two
starts, and the file's count is the table of the text in memory but for the line being read. At the end
`LineOfOffset` says that an offset is between the start of its line and the next (the last start below it exists by
`NatMax`), and `DecodesStart` that adding up the lengths before a line gives its start. The assumptions used are that the text
of a program, or of a trace file, is a sequence.

The type invariant rests on all of these: the table is one of lengths by `TextRoundTrips`, what is written is of the
five kinds (`OfKinds`, which `Bracketed` carries), and `LoopTyped` says that a loop being replayed has not reached the
cap yet, so that its counter stays in range.

The next is a simulation: the walk of a function follows its execution (`Follows`), a line at a time. It is
at the line that is executed next, has told what the lines before told, and what the simulator knows of a variable is
so, unless an assignment it does not look at may have changed it (`Trusted`, `Agrees`). A line outside loops, the entry of
a loop, a turn, a line of its body and its end each have a lemma (`WalkFollows`, `EnterFollows`, `TurnFollows`, `LineFollows`,
`TurnedFollows`). They rest on what a loop within the simulator's means looks like: its first brace closes it
(`LoopShape`), loops lie apart (`LoopsApart`), and all it reads is known (`LoopIsKnown`). `Paced` bounds the lines
executed so far by the turns the loops have taken, so that the execution, which is looked at for `MostLines` lines, always has
one more (`LoopPaced`). Besides `ProgramsAssumption` it uses `MaxItersAssumption`: the cap is at least one.

The one after it compares the return values derived with what the calls of the run returned. The calls that return the
run's own result are the first and the one its last line makes, and so on (`DelegatesReturn`); one of them, by
precondition, returned what the widest last line names, so its result is a felt per name
(`WidestCallIs`: `FlattenSeq` of one-element sequences) and the variables seeded from the run's result hold
what this call's held (`SeededHold`, with the last slot of a name that is there twice). A binding or a last line that
names one of these variables is then of that call's function, as names are distinct (`BoundByWidest`). `ReturnsInv` tells,
pass by pass, what is known of the table: after the bindings, that what it says is the last felt of some call
(`Theirs`, `BindingsTell`), which a pass over the last lines keeps (`TailTells`, one function: `NamesTell` and, where the run
is steady, `CallTells`; `PassTells`, all); after the first of these passes, that functions whose last line names a known variable are in it
(`TuplesTold`); after the second, those that call one of these (`CallsTold`), wherever they stand in the text. That main
is one of them is `WidestIsNear`. It assumes `IsTable` and `IsRun` of every program.

The last, whose lemmas are in `TransactionReplayProofs`, compares what is written of a transaction with what happened, an execution defined by recursion over its tree.
The model selects from sequences (`Where`), adds them up (`Total`) and puts them together (`FlattenSeq`); for each it
is shown that it turns a concatenation into a concatenation, or a sum (`Adds`, `Counts`; `EachAdds`, `TotalCounts`), and that two functions
that do so and agree on single elements agree everywhere (`AddsAgree`, `CountsAgree`). A recursion over the tree is one
over numbers, from the last down (`DownwardRecursion`, with `DownwardInduction` for what holds of it), because
an invocation is numbered before those it calls. `Written` is such a recursion: what the writer
writes of an invocation and all below it, events first. `SameWithout` compares it with `Happened`, invocation by
invocation, for any selection that leaves an invocation's own events out; `OrderIsKept`, `EventsAreKept` and `AllIsKept`
are the three orders that follow, and `SumsOverTree` the counts (`CountedAsWritten`). The invariant is `TreeInv`: what is told so far,
followed by what each invocation on the stack has still to tell, innermost first (`StillToTell`), is
`Written` of the root. Entering an invocation moves its call and events from the second part to the first, a
return moves the return, and neither changes the whole. With it, lines count calls, and events and storage writes in
the bundle those told so far (`Tallied`).

*Only model-checked*: all liveness (`WalkEnds`, `ContainerWritten`, `EveryCallReturns`, `ReplayEnds`, `ProbeEnds`,
`CommandEnds`), which needs ENABLED and fairness. Every invariant and every action property of a passing run has a theorem.

## 5. Findings

Each is a run whose property states what the repository says, and which TLC violates.

1. `source_walk_value`: a recording can lose the program's return value: the tail call is
   picked before the body is walked and can be visited, or unlisted, by the time it is
   reached.
2. `transcript_cut`: a process that dies while it records over an older transcript leaves
   the old index over new files; an offline run is served other requests' answers.
3. `block_replay_declared`: recording a transaction that runs a class declared in the same block
   ends the whole run, before `block.json` is written.
4. `recorder_loops`: the replay of a loop steps on the blank lines of its body, and one whose counter
   it cannot parse runs to the cap of 1000.
5. `recorder_root`: the function run is the first whose id *contains* `::main`; the recording
   shows another.

Smaller disagreements were met while modelling and have no run of their own. In the source walk and
the recording:

* a function called only in a replayed loop is never entered (`src/tracer.rs:705`, against 2703-2704
  "only the per-statement variable-update side-effect is dropped");
* comment braces are counted when a loop's end is looked for, and columns are computed for lines past the
  end of the file;
* return values are derived from literals that are only ever seeded, also for a panic (3271); the widest
  tuple in the text is taken for main's, and the table of bindings is global by name, so of two functions
  that bind one name one may get the other's value. `ReturnsAreTheirs` has these as preconditions;
* a function has one return value in a recording, whatever its calls returned: `let x = add(1, 2)` gives `add` the
  value 3 (`tracer.rs:3181-3190`), and `fn g() { add(5, 6) }` is then given it too (3261-3263), although it returned 11.
  `ReturnsAreTheirs` promises the value of *some* call, and to functions that end in a call only where `Steady` holds;
* the probe's copies are all the `let x = y` of a body, in branches not taken too (`value_probe.rs:231-257`), so x may be shown
  a value of y that it never held, against 127 "A copy binding `let x = y;` holds the same value as `y`". `ValuesAreHeld` promises a value held by a
  declaration that bindings join to x, and one held by x where every such binding was executed;
* the simulated environment of a loop is not refreshed by calls made in between.

In the snforge conversion and the replay of a transaction:

* a `u64` is parsed as a signed integer, so values from 2^63 on become 0 (`starknet.rs:659`);
* the trace file is read a second time for the contract that syscalls are named after;
* the class of a replayed contract is fetched at "latest", not at the transaction's block (`src/main.rs:308`);
* a trace without `execute_invocation` (DECLARE, DEPLOY_ACCOUNT, a reverted execution) does not parse;
* events are written before the nested calls, whatever their order was (`starknet.rs:1274`).

In the block recorder:

* a request repeated and answered differently is replayed with its last answer from the start (`rpc.rs:139`,
  against 34-36 "in order");
* a transaction that ran but diverged does not stop the block, and the transactions after it run on a
  state the sequencer never gave them (`main.rs:444`, against 8-10);
* an offline run with `--transcript-out` writes an index without answers, because only the live
  branch of `answer` fills the transcript (`rpc.rs:139`, against `main.rs:68-69`);
* a transaction the executor refused after an entry point had run is recorded, because the
  loop skips rows without frames and not refused rows (`main.rs:796`, against 1046-1047 "a refused row
  has no capture directory"); `BlockReplay` has these behaviours;
* the floor and what binds it are the executor's, whatever the node answered (`main.rs:1212`,
  against 1113 and 1123-1124);
* "An embedded text is the file the build read, or it is not used" (`source.rs:381`): it is the file that
  `bind-class` read, and the tree may have been edited since the build; in `ClassListing`,
  `LocatedAtItsSource` promises the built text only for `edits = 0`.

## 6. What is left

1. Text recovery: the parsers of `src/tracer.rs` 1481-2690 (functions, lets, loops, callees) as pure
   operators on a token alphabet, checked against a reference reading of the same text.
2. The contract events of `write_container`, which are written between a frame's last step and its return.
3. The construction of a block's context and the decoding of bodies (`block.rs`), of which only the
   outcome is modelled.

Not modelled, for good: building, packaging and test fixtures; the cryptographic
comparison of classes in `source.rs` (hashing is external); the wording of listings.
