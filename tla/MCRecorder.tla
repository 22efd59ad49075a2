----------------------------- MODULE MCRecorder -----------------------------
(***************************************************************************)
(* Instances of Recorder: families of programs, each varying one aspect of *)
(* a small base program, and the files and answers of the other commands.  *)
(***************************************************************************)
EXTENDS Recorder

CONSTANTS a, z, c, d  \* names

Main(tail, lets) == [name |-> "main", lets |-> lets, tail |-> tail]
Fn(name, lets, tail) == [name |-> name, lets |-> lets, tail |-> tail]
Ending(is, of) == [is |-> is, of |-> of]
Literal(x, n) == [x |-> x, calls |-> NoFn, n |-> n]
Result(x, f) == [x |-> x, calls |-> f, n |-> Unknown]
Neither(x) == [x |-> x, calls |-> NoFn, n |-> Unknown]  \* a parameter, for one

L(do) == [do |-> do]
Let(x, n) == [do |-> "let", x |-> x, n |-> n]
Get(x, n) == [do |-> "get", x |-> x, n |-> n]
Set(x, y, n) == [do |-> "set", x |-> x, y |-> y, n |-> n]
Add(x, n) == [do |-> "add", x |-> x, n |-> n]
While(x, n) == [do |-> "while", x |-> x, n |-> n]
If(x, n) == [do |-> "if", x |-> x, n |-> n]

IdMain == [fn |-> "main", contains |-> TRUE, ends |-> TRUE]
IdOther == [fn |-> "other", contains |-> FALSE, ends |-> FALSE]
IdMainly == [fn |-> "mainly", contains |-> TRUE, ends |-> FALSE]

(* A call of a function that is not in the text.                           *)
Other(f, felts) == [fn |-> 0, name |-> f, made |-> <<>>, held |-> <<>>, tail |-> 0, result |-> felts]

Base ==
  [text |-> <<"a", "n">>, corelib |-> <<TRUE>>, ids |-> <<IdMain>>,
   body |-> <<L("fn"), L("close")>>, fns |-> <<Main(Ending("none", <<>>), <<>>)>>,
   calls |-> <<Other("mainly", <<5>>)>>, probe |-> [decls |-> <<>>, sites |-> <<>>, events |-> <<>>],
   checks |-> FALSE]

TextPrograms == {[Base EXCEPT !.text = t] : t \in UNION {[1..n -> {"a", "n"}] : n \in 0..4}}

PathPrograms == {[Base EXCEPT !.corelib = l] : l \in {<<FALSE, TRUE>>, <<FALSE, FALSE>>}}

(* A text with a main has a Sierra function for it.                        *)
IdPrograms ==
  {[Base EXCEPT !.ids = s] :
     s \in {t \in UNION {[1..n -> {IdMain, IdOther, IdMainly}] : n \in 1..3} :
              Cardinality({i \in DOMAIN t : t[i] = IdMain}) = 1}}
    \cup {[Base EXCEPT !.ids = s, !.fns = t] :
            s \in {<<>>, <<IdOther>>, <<IdMainly>>},
            t \in {<<>>, <<Fn("f", <<Literal("p", 1)>>, Ending("name", <<"p">>))>>}}

(* Functions: main, which calls f and perhaps g, in both orders.           *)
MainFns ==
  {Main(Ending("tuple", <<"x", "y">>), <<Result("x", "f"), Result("y", "g")>>),
   Main(Ending("tuple", <<"x", "y">>), <<Result("x", "f"), Result("y", "f")>>),
   Main(Ending("tuple", <<"y", "x">>), <<Literal("x", 4), Result("y", "f")>>),
   Main(Ending("tuple", <<"y", "x", "y">>), <<Result("x", "g"), Result("y", "h")>>),
   Main(Ending("name", <<"x">>), <<Result("x", "f")>>),
   Main(Ending("call", <<"f">>), <<>>),
   Main(Ending("none", <<>>), <<Result("x", "f")>>)}
FFns ==
  {Fn("f", <<Neither("p")>>, Ending("name", <<"p">>)),
   Fn("f", <<Neither("p"), Literal("r", 3)>>, Ending("tuple", <<"p", "r">>)),
   Fn("f", <<Neither("p"), Result("s", "f")>>, Ending("tuple", <<"p", "s">>)),
   Fn("f", <<Neither("p")>>, Ending("call", <<"f">>)),
   Fn("f", <<>>, Ending("call", <<"g">>)),
   Fn("f", <<>>, Ending("none", <<>>))}
GFns ==
  {Fn("g", <<Literal("q", 2)>>, Ending("name", <<"q">>)),
   Fn("g", <<Neither("p")>>, Ending("name", <<"p">>)),
   Fn("g", <<Neither("q")>>, Ending("call", <<"f">>)),
   Fn("g", <<>>, Ending("none", <<>>))}
Tables ==
  {<<m, f, g>> : m \in MainFns, f \in FFns, g \in GFns}
    \cup {<<g, f, m>> : m \in MainFns, f \in FFns, g \in GFns}

(* The run of a table, main called with 4: calling[f, arg, k] are the calls    *)
(* that a call of f makes, itself the k-th.  A function returns 0 early if *)
(* its parameter is 0; it passes its m-th binding's call m % arg, its last *)
(* line's arg - 1.                                                         *)
RunOf(functions) ==
  LET calling[f \in {"main", "f", "g", "h"}, arg \in -4..4, k \in 1..99] ==
        LET i == SelectInSeq(functions, LAMBDA g : g.name = f)
            lets == functions[i].lets
            of == functions[i].tail.of
            next(sofar) == k + 1 + Len(sofar.calls)
            Bind(sofar, m) ==
              IF lets[m].calls = NoFn
              THEN [sofar EXCEPT !.made = Append(@, 0),
                                 !.vals = Append(@, <<IF lets[m].n = Unknown THEN arg ELSE lets[m].n>>)]
              ELSE LET inner == calling[lets[m].calls, m % arg, next(sofar)]
                   IN  [calls |-> sofar.calls \o inner, made |-> Append(sofar.made, next(sofar)),
                        vals |-> Append(sofar.vals, inner[1].result)]
            done == FoldLeft(Bind, [calls |-> <<>>, made |-> <<>>, vals |-> <<>>], [m \in DOMAIN lets |-> m])
            held == [j \in DOMAIN of |-> done.vals[SelectInSeq(lets, LAMBDA b : b.x = of[j])]]
            last == calling[of[1], arg - 1, next(done)]
            Early == [Other(f, <<0>>) EXCEPT !.fn = i, !.made = [m \in DOMAIN lets |-> 0]]
            This == [Other(f, <<arg + 5>>) EXCEPT !.fn = i, !.made = done.made]
        IN  CASE i = 0 -> <<Other(f, <<arg>>)>>
              [] i # 0 /\ arg < 1 /\ (\E m \in DOMAIN lets : lets[m] = Neither(lets[m].x)) -> <<Early>>
              [] OTHER ->
                   CASE functions[i].tail.is \in {"tuple", "name"} ->
                          <<[This EXCEPT !.held = held, !.result = FlattenSeq(held)]>> \o done.calls
                     [] functions[i].tail.is = "call" ->
                          <<[This EXCEPT !.tail = next(done), !.result = last[1].result]>> \o done.calls \o last
                     [] OTHER -> <<This>> \o done.calls
  IN  calling["main", 4, 1]

(* The last line of g is a call of f, to which main gives other arguments: *)
(* g is said to return what f did there, 3 and not 11.                     *)
Handed ==
  [Base EXCEPT
     !.fns = <<Main(Ending("tuple", <<"x", "y">>), <<Result("x", "f"), Neither("y")>>),
               Fn("f", <<Neither("p")>>, Ending("none", <<>>)),
               Fn("g", <<Neither("q")>>, Ending("call", <<"f">>))>>,
     !.calls = <<[Other("main", <<3, 11>>) EXCEPT !.fn = 1, !.made = <<2, 0>>, !.held = <<<<3>>, <<11>>>>],
                 [Other("f", <<3>>) EXCEPT !.fn = 2, !.made = <<0>>],
                 [Other("g", <<11>>) EXCEPT !.fn = 3, !.made = <<0>>, !.tail = 4],
                 [Other("f", <<11>>) EXCEPT !.fn = 2, !.made = <<0>>]>>]

TablePrograms ==
  {[Base EXCEPT !.fns = t, !.calls = RunOf(t)] : t \in Tables} \cup {Handed}

(* Bodies: up to two ls, a loop, and a line after it.                   *)
Before == {<<>>, <<Let("i", 0)>>, <<Get("i", 1)>>, <<Let("i", 0), Set("i", "i", 1)>>,
           <<Let("i", 0), L("blank")>>, <<Let("i", 0), Let("s", 3)>>,
           <<Let("i", 0), Let("i", 1)>>}
Inside == {<<>>, <<Set("i", "i", 1)>>, <<Add("i", 1)>>, <<Set("i", "i", 1), L("blank")>>,
           <<Set("s", "s", 2), Set("i", "i", 1)>>, <<Set("i", "s", 0)>>, <<Set("s", "i", 0)>>}
Loops == {<<While("i", 2)>> \o in \o <<L("close")>> : in \in Inside}
         \cup {<<L("wild"), L("blank"), L("close")>>}
Nested == {<<If("i", 1)>> \o l \o <<L("close")>> : l \in Loops}
          \cup {<<While("i", 2)>> \o l \o <<Set("i", "i", 1), L("close")>> : l \in Loops}
Bound(ls) == \* every name is bound before it is read
  \A k \in DOMAIN ls :
    \A x \in (IF ls[k].do \in {"while", "if", "add"} THEN {ls[k].x}
              ELSE IF ls[k].do = "set" THEN {ls[k].x, ls[k].y} ELSE {}) :
      \E j \in 1..(k - 1) : ls[j].do \in {"let", "get"} /\ ls[j].x = x
LoopBodies ==
  {ls \in {<<L("fn")>> \o before \o inner \o after \o <<L("close")>> :
                before \in Before, inner \in Loops \cup Nested,
                after \in {<<>>, <<Let("t", 1)>>, <<While("i", 3), Set("i", "i", 1), L("close")>>}}
     : Bound(ls)}
BodyPrograms == {[Base EXCEPT !.body = l] : l \in LoopBodies}
                \cup {[Base EXCEPT !.body = l, !.checks = TRUE] :
                        l \in {m \in LoopBodies : CapacityUnderflows(m)}}

(* Probes: three declarations, of which two may share name and line, the   *)
(* bindings of two of them to a value or to another, one more binding, and *)
(* runs of up to three of these, some of them repeated or left out.        *)
Binding(dec, from, copy) == [decl |-> dec, from |-> from, copy |-> copy]
Bindings == {Binding(dec, 0, FALSE) : dec \in 1..3}
            \cup {Binding(dec, from, copy) : dec \in 2..3, from \in 1..3, copy \in BOOLEAN}
SitesOf == {s \in UNION {[1..n -> Bindings] : n \in 2..3} :
              /\ s[1] = Binding(1, 0, FALSE) /\ s[2].decl = 2
              /\ Len(s) = 3 => s[3].decl = 3 \/ (s[3].decl = 2 /\ s[2].from # 0 /\ ~s[3].copy)
              /\ \A i \in DOMAIN s : s[i].from < s[i].decl}
EventsOf(sites) ==
  {e \in UNION {[1..n -> [site : DOMAIN sites, value : 1..n]] : n \in 2..3} :
     IsProbe([decls |-> <<1, 2, 3>>, sites |-> sites, events |-> e])}
KeysOf(sites) == {<<"x1", "y2", "z3">>} \cup {k \in {<<"x1", "y1", "x1">>} : sites[2].copy /\ Len(sites) = 3}
ProbePrograms ==
  UNION {{[Base EXCEPT !.probe = [decls |-> keys, sites |-> sites, events |-> happened]] :
            keys \in KeysOf(sites), happened \in EventsOf(sites)} : sites \in SitesOf}

MCPrograms == TextPrograms \cup PathPrograms \cup IdPrograms \cup TablePrograms
                \cup BodyPrograms \cup ProbePrograms

-----------------------------------------------------------------------------
Entry(kind) == [kind |-> kind, contract |-> a, name |-> z, dispatcher |-> NoName, visibility |-> NoName,
                self |-> NoName, felts |-> 0, data |-> 0, type |-> "none", value |-> 0]
Syscall(type, n) == [Entry("syscall") EXCEPT !.type = type, !.value = n]
ContractCalls ==
  {[Entry("contract_call") EXCEPT !.dispatcher = disp, !.visibility = vis, !.self = self, !.felts = felts] :
     disp \in {NoName, c}, vis \in {NoName, d}, self \in {NoName, d}, felts \in {0, 2}}
EveryEntry ==
  ContractCalls
    \cup {Entry("storage_read"), Entry("storage_write"), Entry("event"),
          [Entry("event") EXCEPT !.felts = 1, !.data = 2]}
    \cup {Syscall("u64", n) : n \in {0, 3, 4, 7, 8}} \cup {Syscall("bool", n) : n \in {0, 1}}
    \cup {Syscall("address", 5)}

MCFiles ==
  {[text |-> <<"a">>, contract |-> a, entries |-> <<e>>] : e \in EveryEntry}
    \cup {[text |-> <<"a", "n", "a">>, contract |-> c, entries |-> <<Syscall("u64", 3), e, Syscall("bool", 1)>>] :
            e \in {Entry("storage_write"), Entry("event")}}
    \cup {[text |-> <<"n">>, contract |-> NoName, entries |-> <<Syscall("address", 5), Entry("contract_call")>>],
          [text |-> <<>>, contract |-> a, entries |-> <<>>]}

-----------------------------------------------------------------------------
Call(n) == [do |-> "call", of |-> n]
Event(e) == [do |-> "event", of |-> e]
Node(acts, calldata) == [acts |-> acts, calls |-> SelectSeq(acts, LAMBDA x : x.do = "call"),
                         events |-> SelectSeq(acts, LAMBDA x : x.do = "event"), contract |-> a, selector |-> z, calldata |-> calldata, result |-> c]
Inner(acts) == [Node(acts, <<>>) EXCEPT !.contract = z, !.selector = c, !.result = d]

Txs ==
  {[nodes |-> <<Node(<<>>, data)>>, diffs |-> <<>>] : data \in {<<>>, <<"unparsable">>}}
    \cup {[nodes |-> <<Node(acts, <<"1">>), Inner(inner), Inner(<<>>)>>,
           diffs |-> <<[contract |-> a, keys |-> <<c, d>>], [contract |-> z, keys |-> <<c>>]>>] :
            acts \in {<<Event(1), Call(2), Call(3)>>, <<Call(3), Event(1), Call(2), Event(2)>>},
            inner \in {<<>>, <<Event(1), Event(2)>>}}
    \cup {[nodes |-> <<Node(<<Call(2)>>, <<>>), Inner(<<Event(1), Call(3), Event(2)>>), Inner(<<Event(3)>>)>>,
           diffs |-> <<>>]}

MCBodies ==
  {[result |-> t, error |-> FALSE, bare |-> NoTx] : t \in Txs}
    \cup {[result |-> NoTx, error |-> FALSE, bare |-> t] : t \in Txs}
    \cup {[result |-> NoTx, error |-> e, bare |-> NoTx] : e \in BOOLEAN}

Points == {<<>>, <<[selector |-> z, idx |-> 1]>>, <<[selector |-> c, idx |-> 1], [selector |-> z, idx |-> 2]>>}
MCLookups ==
  {[error |-> e, cairo0 |-> old, sierra |-> s, external |-> x, l1_handler |-> l, constructor |-> <<>>, funcs |-> 1] :
     e \in BOOLEAN, old \in BOOLEAN, s \in BOOLEAN, x \in Points, l \in Points}
=============================================================================
