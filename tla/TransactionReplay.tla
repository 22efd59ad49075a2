-------------------------- MODULE TransactionReplay --------------------------
(***************************************************************************)
(* replay: a transaction's trace, asked of a node or read from a file,     *)
(* written as a bundle (starknet.rs, write_replay_trace).                  *)
(*                                                                         *)
(* A transaction executes as a tree of invocations, each of which calls    *)
(* others and emits events in some order (acts).  Its trace keeps, per     *)
(* invocation, the list of calls and the list of events: their common      *)
(* order is gone, and the code never sees acts.  The writer walks the tree *)
(* depth first.                                                            *)
(*                                                                         *)
(* A live replay also fetches the contract's class and runs the called     *)
(* entry point again; nothing that goes wrong there ends the command.      *)
(***************************************************************************)
EXTENDS BundleWriter, SequencesExt

CONSTANTS
  Bodies,   \* what the node or the saved file may answer
  NoTx,     \* an answer, or a part of one, that is no transaction trace
  Lookups,  \* what fetching the class may give
  NoClass   \* no usable class

(* Those elements of a sequence that are such, in their order.             *)
Where(s, Is(_)) == FlattenSeq([i \in DOMAIN s |-> IF Is(s[i]) THEN <<s[i]>> ELSE <<>>])

IsCall(act) == act.do = "call"
IsEvent(act) == act.do # "call"

(* A trace is a root invocation and those below it, each numbered before   *)
(* those it calls, and the storage that changed, contract by contract.     *)
IsTransaction(t) ==
  /\ t.nodes \in Seq(ToSet(t.nodes)) /\ t.nodes # <<>>
  /\ \A n \in DOMAIN t.nodes : \A act \in ToSet(t.nodes[n].acts) :
       IsCall(act) => act.of \in (n + 1)..Len(t.nodes)
  /\ \A node \in ToSet(t.nodes) :
       /\ node.acts \in Seq(ToSet(node.acts))
       /\ node.calls = Where(node.acts, IsCall) /\ node.events = Where(node.acts, IsEvent)
  /\ t.diffs \in Seq(ToSet(t.diffs))
  /\ \A diff \in ToSet(t.diffs) : diff.keys \in Seq(ToSet(diff.keys))

ASSUME BodiesAssumption ==
  \A body \in Bodies : \A t \in {body.result, body.bare} : t = NoTx \/ IsTransaction(t)

VARIABLES
  tx,     \* the trace to write
  stack,  \* invocations being written, outermost first
  lines,  \* the next synthetic line (line_counter)
  diffed, \* how many contracts' storage diffs are written
  rerun   \* what the local run gave

replayVars == <<tx, stack, lines, diffed, rerun>>

ReplayInit == tx = NoTx /\ stack = <<>> /\ lines = 1 /\ diffed = 0 /\ rerun = "none"

(* An invocation's calls, its events, and all it did, in the order it did. *)
Acts(n) == tx.nodes[n].acts
calls(n) == tx.nodes[n].calls
events(n) == tx.nodes[n].events
Name(n) == <<tx.nodes[n].contract, tx.nodes[n].selector>>

-----------------------------------------------------------------------------
(***************************************************************************)
(* Fetching.  An answer is an envelope with a result, or the bare trace.   *)
(***************************************************************************)
from_json(body) == IF body.result # NoTx THEN body.result ELSE body.bare

trace_transaction(body) == IF body.error THEN NoTx ELSE from_json(body)

(* The trace comes from the saved file, or from the node.                  *)
SourceTrace(live) ==
  /\ at = "locate"
  /\ \/ \E body \in Bodies :
          LET got == IF live THEN trace_transaction(body) ELSE from_json(body)
          IN  IF got = NoTx THEN Fail("trace") /\ UNCHANGED tx
              ELSE tx' = got /\ Goto(IF live THEN "class" ELSE "disabled") /\ Aside
     \/ Fail("transport") /\ UNCHANGED tx
  /\ UNCHANGED <<stack, lines, diffed, rerun>>

(* What a re-execution starts from.                                        *)
reconstruct_execution_context ==
  [contract |-> tx.nodes[1].contract, selector |-> tx.nodes[1].selector,
   calldata |-> tx.nodes[1].calldata,
   storage |-> FlattenSeq([i \in DOMAIN tx.diffs |->
                 [j \in DOMAIN tx.diffs[i].keys |-> <<tx.diffs[i].contract, tx.diffs[i].keys[j]>>]])]

(* A class is refused if the node errs, if it is a Cairo 0 class, or if    *)
(* it does not parse.                                                      *)
get_class_at(lookup) ==
  IF lookup.error \/ (lookup.cairo0 /\ ~lookup.sierra) \/ ~lookup.sierra THEN NoClass ELSE lookup

(* The function of the first entry point of that selector: external ones,  *)
(* then handlers of L1 messages, then constructors; 0 for none.            *)
find_entry_point(class, selector) ==
  LET entries == class.external \o class.l1_handler \o class.constructor
      i == SelectInSeq(entries, LAMBDA e : e.selector = selector)
  IN  IF i = 0 THEN 0 ELSE entries[i].idx

reexecute_entry_point(class, ctx) ==
  LET idx == find_entry_point(class, ctx.selector)
  IN  IF idx \notin 1..class.funcs \/ \E i \in DOMAIN ctx.calldata : ctx.calldata[i] = "unparsable"
      THEN {"skipped"} ELSE {"ran", "skipped"}

Reexecute ==
  /\ at = "class" /\ Goto("disabled") /\ Aside
  /\ \E lookup \in Lookups :
       LET class == get_class_at(lookup) IN
       IF class = NoClass THEN rerun' = "skipped"
       ELSE rerun' \in reexecute_entry_point(class, reconstruct_execution_context)
  /\ UNCHANGED <<tx, stack, lines, diffed>>

-----------------------------------------------------------------------------
(***************************************************************************)
(* Writing.                                                                *)
(***************************************************************************)

(* There is no source: the synthetic path has no line table.               *)
OpenReplay ==
  /\ at = "open"
  /\ \/ OpenBundle(<<>>) /\ Goto("walk")
     \/ Fail("writer")
  /\ UNCHANGED replayVars

(* What is written of an invocation.                                       *)
Calling(line, n) == CallEv(line, Name(n), <<"caller", "contract", "selector">> \o tx.nodes[n].calldata)
Emitting(line, n, event) == SpecialEv(line, "EvmEvent", <<n, event.of>>)
Returning(line, n) == ReturnEv(line, tx.nodes[n].result)

(* Mutant: the events are left to the line of the caller.                  *)
EnteredBelow(n) ==
  [i \in DOMAIN events(n) |-> Emitting(lines, n, events(n)[i])] \o <<StepEv(lines), Calling(lines, n)>>

(* Entering an invocation takes the next line, writes its step, its call   *)
(* and all of its events.                                                  *)
Entered(n) ==
  <<StepEv(lines), Calling(lines, n)>> \o [i \in DOMAIN events(n) |-> Emitting(lines, n, events(n)[i])]

Visit(n) ==
  /\ Write(Entered(n))
  /\ lines' = lines + 1
  /\ stack' = Append([i \in DOMAIN stack |->
                        IF i = Len(stack) THEN [stack[i] EXCEPT !.next = @ + 1] ELSE stack[i]],
                     [node |-> n, next |-> 1])

Top == stack[Len(stack)]
CallsLeft == Top.next <= Len(calls(Top.node))

write_invocation ==
  /\ at = "walk"
  /\ \/ stack = <<>> /\ lines = 1 /\ Visit(1)
     \/ stack # <<>> /\ CallsLeft /\ Visit(calls(Top.node)[Top.next].of)
  /\ Stay /\ UNCHANGED <<tx, diffed, rerun>>

ReturnInvocation ==
  /\ at = "walk" /\ stack # <<>> /\ ~CallsLeft
  /\ Write(<<Returning(lines - 1, Top.node)>>)
  /\ stack' = Front(stack)
  /\ Stay /\ UNCHANGED <<tx, lines, diffed, rerun>>

(* The storage the transaction changed, contract by contract, after the    *)
(* walk.                                                                   *)
Walked == at = "walk" /\ stack = <<>> /\ lines > 1

WriteDiff ==
  /\ Walked /\ diffed < Len(tx.diffs)
  /\ LET diff == tx.diffs[diffed + 1]
     IN  Write([j \in DOMAIN diff.keys |->
                 SpecialEv(lines - 1, "Write", <<diff.contract, diff.keys[j]>>)])
  /\ diffed' = diffed + 1
  /\ Stay /\ UNCHANGED <<tx, stack, lines, rerun>>

DiffsWritten ==
  /\ Walked /\ diffed = Len(tx.diffs)
  /\ Goto("close") /\ Aside
  /\ UNCHANGED replayVars

-----------------------------------------------------------------------------
(***************************************************************************)
(* The counts the tests pin.                                               *)
(***************************************************************************)

Total(s) == LET sum[i \in 0..Len(s)] == IF i = 0 THEN 0 ELSE sum[i - 1] + s[i] IN sum[Len(s)]

(* The sum, over an invocation and all below it, of a count of each.       *)
SumOver(count) ==
  LET walk[n \in DOMAIN tx.nodes] == count[n] + Total([i \in DOMAIN calls(n) |-> walk[calls(n)[i].of]])
  IN  walk[1]

count_invocations == SumOver([n \in DOMAIN tx.nodes |-> 1])
count_events == SumOver([n \in DOMAIN tx.nodes |-> Len(events(n))])
count_storage_entries == Total([i \in DOMAIN tx.diffs |-> Len(tx.diffs[i].keys)])

(***************************************************************************)
(* What the bundle tells of the execution.                                 *)
(***************************************************************************)

(* What happened: invocations, events and returns, in order.               *)
Happened[n \in DOMAIN tx.nodes] ==
  <<Calling(0, n)>>
  \o FlattenSeq([i \in DOMAIN Acts(n) |->
                   IF IsCall(Acts(n)[i]) THEN Happened[Acts(n)[i].of] ELSE <<Emitting(0, n, Acts(n)[i])>>])
  \o <<Returning(0, n)>>
Execution == Happened[1]

(* What the bundle says: the same events, without their lines.             *)
IsStep(x) == x.ev = "step"
IsSpecial(x) == x.ev = "special"
IsNoSpecial(x) == x.ev # "special"
IsEvmEvent(x) == x.ev = "special" /\ x.kind = "EvmEvent"
IsWrite(x) == x.ev = "special" /\ x.kind = "Write"
Tell(x) == IF IsStep(x) \/ IsWrite(x) THEN <<>> ELSE <<[x EXCEPT !.line = 0]>>
Told == FlattenSeq([i \in DOMAIN out |-> Tell(out[i])])

Emitted(s, n) == Where(s, LAMBDA x : IsSpecial(x) /\ x.of[1] = n)
WithoutEvents(s) == Where(s, IsNoSpecial)
EventsFirst == \A n \in DOMAIN tx.nodes : Acts(n) = events(n) \o calls(n)
Steps == Where(out, IsStep)

(* The bundle tells the transaction's calls and returns in the order they  *)
(* happened, and each invocation's events, in their order, while it is     *)
(* open; each invocation has a line of its own; the order of calls and     *)
(* events is the execution's if every invocation emits before it calls     *)
(* (starknet.rs:1274 writes all events of an invocation before its calls). *)
(* Once the walk is over the numbers of steps, events and storage writes   *)
(* are those the count functions give (starknet.rs:1186-1217).             *)
KeepsCallOrder ==
  (tx # NoTx) =>
  /\ IsPrefix(WithoutEvents(Told), WithoutEvents(Execution))
  /\ \A n \in DOMAIN tx.nodes : IsPrefix(Emitted(Told, n), Emitted(Execution, n))
  /\ \A i \in DOMAIN Told : IsSpecial(Told[i]) =>
       \E opened \in 1..i : /\ Told[opened].ev = "call" /\ Told[opened].name = Name(Told[i].of[1])
                            /\ \A j \in (opened + 1)..i : IsSpecial(Told[j])
  /\ \A i \in DOMAIN Steps : Steps[i].line = i
  /\ EventsFirst => IsPrefix(Told, Execution)
  /\ at \in {"close", "end"} /\ outcome \in {"running", "ok"} /\ disk # "nothing" =>
       /\ Len(Steps) = count_invocations
       /\ Len(Where(out, IsEvmEvent)) = count_events
       /\ Len(Where(out, IsWrite)) = count_storage_entries
===============================================================================
