------------------------------ MODULE FrameSink ------------------------------
(***************************************************************************)
(* The execution observer patched into the executor (blockifier-patch/     *)
(* bt_trace.rs, wired in by apply.py): while a transaction runs, every     *)
(* entry-point frame is noted with its parent, the step of its parent at   *)
(* which the syscall that opened it was made, and the VM's own trace of    *)
(* it, which is handed over only when the frame's run has ended.           *)
(*                                                                         *)
(* The executor and cairo-vm are not under src/: they are modelled here as *)
(* the code under src/ uses them, as a stack of VM frames (variable vm)    *)
(* that calls the observer.  A frame executes instructions; an instruction *)
(* may carry a syscall hint, which runs before the instruction and can     *)
(* open a nested frame; the run of a frame ends with the return of its     *)
(* outermost function or with an error, which its parent may survive.      *)
(***************************************************************************)
EXTENDS Naturals, Sequences, FiniteSets

CONSTANTS
  NoParent,   \* the parent of a frame the transaction itself opens
  NoStep,     \* no syscall was made yet
  MaxFrames,  \* bound: frames of a transaction
  MaxSteps    \* bound: instructions a transaction executes

ASSUME NoParentAssumption == NoParent \notin Nat
ASSUME NoStepAssumption == NoStep \notin Nat
ASSUME BoundsAssumption == MaxFrames \in Nat /\ MaxSteps \in Nat

VARIABLES
  vm,            \* the frames the executor is running, outermost first
  history,       \* what the VM did, in the order it did it
  finished,      \* has the transaction ended?
  frames,        \* Sink.frames: the frames noted so far, in order of entry
  stack,         \* Sink.stack: the noted frames that have not exited
  pending_step   \* Sink.pending_step: the last syscall of each of them

vmVars == <<vm, history, finished>>
sinkVars == <<frames, stack, pending_step>>
observerVars == <<vm, history, finished, frames, stack, pending_step>>

Op == {"plain", "call", "ret"}

(* The frame of the executor that runs, and how far its run got. *)
Running == vm[Len(vm)]
WithRunning(frame) == [vm EXCEPT ![Len(vm)] = frame]
InPhase(p) == vm # <<>> /\ Running.phase \in p
Outer(s) == SubSeq(s, 1, Len(s) - 1)

(***************************************************************************)
(* Events.  The depth is the number of functions that are open inside the  *)
(* frame the event happens in.                                             *)
(***************************************************************************)
Called(id, depth) == [kind |-> "call", frame |-> id, index |-> 0, depth |-> depth]
Stepped(id, i, depth) == [kind |-> "step", frame |-> id, index |-> i, depth |-> depth]
Returned(id) == [kind |-> "return", frame |-> id, index |-> 0, depth |-> 0]

-----------------------------------------------------------------------------
(***************************************************************************)
(* The observer's own functions.                                           *)
(***************************************************************************)
LastOf(s, default) == IF s = <<>> THEN default ELSE s[Len(s)]

enter ==
  LET id == Len(frames) + 1
  IN  /\ frames' = Append(frames, [parent |-> LastOf(stack, NoParent),
                                   parent_step |-> LastOf(pending_step, NoStep),
                                   steps |-> <<>>, error |-> FALSE])
      /\ stack' = Append(stack, id)
      /\ pending_step' = Append(pending_step, NoStep)

(* Mutant: the hint counts its own instruction. *)
syscall_at_next(step) ==
  /\ pending_step' = [pending_step EXCEPT ![Len(pending_step)] = step + 1]
  /\ UNCHANGED <<frames, stack>>

syscall_at(step) ==
  /\ pending_step' = IF pending_step = <<>> THEN <<>>
                     ELSE [pending_step EXCEPT ![Len(pending_step)] = step]
  /\ UNCHANGED <<frames, stack>>

record_steps(steps) ==
  /\ frames' = IF stack = <<>> THEN frames
               ELSE [frames EXCEPT ![stack[Len(stack)]].steps = steps]
  /\ UNCHANGED <<stack, pending_step>>

(* Mutant: a frame that failed is not taken off the stack. *)
exit_ok_only(id, error) ==
  /\ frames' = [frames EXCEPT ![id].error = error]
  /\ stack' = IF error THEN stack ELSE Outer(stack)
  /\ pending_step' = Outer(pending_step)

exit(id, error) ==
  /\ frames' = [frames EXCEPT ![id].error = error]
  /\ stack' = Outer(stack)
  /\ pending_step' = Outer(pending_step)

-----------------------------------------------------------------------------
(***************************************************************************)
(* The executor enters a frame: one the transaction opens, when none runs, *)
(* or the one a syscall of the running frame opens.                        *)
(***************************************************************************)
NewVmFrame == [id |-> Len(frames) + 1, trace |-> <<>>, depth |-> 0,
               phase |-> "entered", opened |-> FALSE, error |-> FALSE]

EnterTop ==
  /\ ~finished
  /\ vm = <<>>
  /\ Len(frames) < MaxFrames
  /\ enter
  /\ vm' = <<NewVmFrame>>
  /\ history' = Append(history, Called(Len(frames) + 1, 0))
  /\ UNCHANGED finished

EnterNested ==
  /\ InPhase({"syscall"})
  /\ ~Running.opened
  /\ Len(frames) < MaxFrames
  /\ enter
  /\ vm' = Append(WithRunning([Running EXCEPT !.opened = TRUE]), NewVmFrame)
  /\ history' = Append(history, Called(Len(frames) + 1, Running.depth))
  /\ UNCHANGED finished

(* The class cannot be prepared to run: the frame exits without a trace. *)
PrepareFails ==
  /\ InPhase({"entered"})
  /\ vm' = WithRunning([Running EXCEPT !.phase = "leaving", !.error = TRUE])
  /\ UNCHANGED <<history, finished, frames, stack, pending_step>>

(***************************************************************************)
(* The syscall hint of the next instruction runs.                          *)
(***************************************************************************)
SyscallHint ==
  /\ InPhase({"entered", "run"})
  /\ syscall_at(Len(Running.trace))
  /\ vm' = WithRunning([Running EXCEPT !.phase = "syscall", !.opened = FALSE])
  /\ UNCHANGED <<history, finished>>

(***************************************************************************)
(* The next instruction executes, after its hint if it has one.  The       *)
(* return of the frame's outermost function ends the run.                  *)
(***************************************************************************)
Executed == Cardinality({j \in 1..Len(history) : history[j].kind = "step"})

Execute(op) ==
  /\ InPhase({"entered", "run", "syscall"})
  /\ Executed < MaxSteps
  /\ vm' = WithRunning(
       [Running EXCEPT
          !.trace = Append(@, op),
          !.depth = CASE op = "call" -> @ + 1
                      [] op = "ret" /\ @ > 0 -> @ - 1
                      [] OTHER -> @,
          !.phase = IF op = "ret" /\ Running.depth = 0 THEN "halted" ELSE "run"])
  /\ history' = Append(history, Stepped(Running.id, Len(Running.trace), Running.depth))
  /\ UNCHANGED <<finished, frames, stack, pending_step>>

(* An instruction or a syscall fails, and the run of the frame with it. *)
RunFails ==
  /\ InPhase({"entered", "run", "syscall"})
  /\ vm' = WithRunning([Running EXCEPT !.phase = "halted", !.error = TRUE])
  /\ UNCHANGED <<history, finished, frames, stack, pending_step>>

(* Well or not, the VM's trace of the run is handed over. *)
RunEnds ==
  /\ InPhase({"halted"})
  /\ record_steps(Running.trace)
  /\ vm' = WithRunning([Running EXCEPT !.phase = "leaving"])
  /\ UNCHANGED <<history, finished>>

LeaveFrame ==
  /\ InPhase({"leaving"})
  /\ exit(Running.id, Running.error)
  /\ history' = Append(history, Returned(Running.id))
  /\ vm' = Outer(vm)
  /\ UNCHANGED finished

EndTransaction ==
  /\ ~finished
  /\ vm = <<>>
  /\ frames # <<>>
  /\ finished' = TRUE
  /\ UNCHANGED <<vm, history, frames, stack, pending_step>>

ObserverInit ==
  /\ vm = <<>>
  /\ history = <<>>
  /\ finished = FALSE
  /\ frames = <<>>
  /\ stack = <<>>
  /\ pending_step = <<>>

ObserverNext ==
  \/ EnterTop
  \/ EnterNested
  \/ PrepareFails
  \/ SyscallHint
  \/ \E op \in Op : Execute(op)
  \/ RunFails
  \/ RunEnds
  \/ LeaveFrame
  \/ EndTransaction

ObserverSpec == ObserverInit /\ [][ObserverNext]_observerVars

-----------------------------------------------------------------------------
(***************************************************************************)
(* Every variable stays in its domain.                                     *)
(***************************************************************************)
Id == Nat \ {0}

VmFrame == [id : Id, trace : Seq(Op), depth : Nat,
            phase : {"entered", "run", "syscall", "halted", "leaving"},
            opened : BOOLEAN, error : BOOLEAN]

NotedFrame == [parent : Id \cup {NoParent}, parent_step : Nat \cup {NoStep},
               steps : Seq(Op), error : BOOLEAN]

VmEvent == [kind : {"call", "step", "return"}, frame : Id, index : Nat, depth : Nat]

SinkTypeOK ==
  /\ vm \in Seq(VmFrame)
  /\ history \in Seq(VmEvent)
  /\ finished \in BOOLEAN
  /\ frames \in Seq(NotedFrame)
  /\ stack \in Seq(Id)
  /\ pending_step \in Seq(Nat \cup {NoStep})

(***************************************************************************)
(* "record_steps: called ... while the frame is still the innermost one"   *)
(* (bt_trace.rs:124-125): the observer has no way to ask the executor      *)
(* which frame runs, and keeps a stack of its own.  It is the executor's,  *)
(* so that a trace, an error and a parent are those of the right frame,    *)
(* whichever frames fail on the way.                                       *)
(***************************************************************************)
SinkFollowsVm ==
  /\ Len(stack) = Len(vm)
  /\ Len(pending_step) = Len(vm)
  /\ \A i \in 1..Len(vm) :
       /\ stack[i] = vm[i].id
       /\ vm[i].id \in 1..Len(frames)
       /\ frames[vm[i].id].parent = IF i = 1 THEN NoParent ELSE vm[i - 1].id

(***************************************************************************)
(* "this frame's steps belong between the parent's `parent_step - 1` and   *)
(* `parent_step` steps" (bt_trace.rs:31-33): the steps of the parent the   *)
(* VM executed before it entered a frame are exactly those with an index   *)
(* below the frame's parent_step.                                          *)
(***************************************************************************)
SplicedWhereMade ==
  \A i, j \in 1..Len(history) :
    LET noted == frames[history[i].frame]
    IN  /\ history[i].kind = "call"
        /\ history[j].kind = "step"
        /\ history[j].frame = noted.parent
        => (j < i <=> history[j].index < noted.parent_step)

==============================================================================
