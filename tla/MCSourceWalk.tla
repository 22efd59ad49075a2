---------------------------- MODULE MCSourceWalk ----------------------------
(***************************************************************************)
(* SourceWalk over every program of two families.  In both, the first line *)
(* of a function is its fn line, which the parser takes for a call of the  *)
(* function itself, and the last one is its closing brace.                 *)
(***************************************************************************)
EXTENDS SourceWalk

CONSTANTS main, f, g, u

MCName == {main, f, g, u}

Plain(calls) ==
  [blank |-> FALSE, stmts |-> 1, calls |-> calls, close |-> 0, sim |-> FALSE]
Double(calls) == [Plain(calls) EXCEPT !.stmts = 2]
Blank == [Plain(<<>>) EXCEPT !.blank = TRUE]
Header(close, sim) == [Plain(<<>>) EXCEPT !.close = close, !.sim = sim]

Body(fn, lines) == <<Plain(<<fn>>)>> \o lines \o <<Blank>>

Program(m, ff, gg) ==
  [root |-> main,
   lines |-> [n \in {main, f, g} |->
                CASE n = main -> Body(main, m)
                  [] n = f    -> Body(f, ff)
                  [] n = g    -> Body(g, gg)]]

(***************************************************************************)
(* Call graphs: two lines each for main and f, one for g, with calls of    *)
(* each other, of the caller, and of the unlisted u.                       *)
(***************************************************************************)
MainLines == {Blank, Plain(<<>>), Plain(<<f>>), Plain(<<g>>), Plain(<<u>>),
              Plain(<<f, g>>), Double(<<g, f>>)}
FLines == {Blank, Plain(<<>>), Plain(<<g>>), Plain(<<u>>), Double(<<main, g>>)}
GLines == {Blank, Double(<<>>), Plain(<<f>>)}

CallGraphs ==
  {Program(<<m1, m2>>, <<f1, f2>>, <<g1>>) :
     m1 \in MainLines, m2 \in MainLines, f1 \in FLines, f2 \in FLines, g1 \in GLines}

(***************************************************************************)
(* Loops: main has a loop of one body line between two other lines; its    *)
(* closing line is a lone brace, or "};", which is not a blank line.       *)
(***************************************************************************)
LoopBodies == {Blank, Plain(<<>>), Plain(<<f>>), Plain(<<g, f>>)}
Around == {Blank, Plain(<<>>), Plain(<<f>>)}

Loops ==
  {Program(<<m1, Header(5, s), b, c, m2>>, <<f1>>, <<Plain(<<>>)>>) :
     m1 \in Around, s \in BOOLEAN, b \in LoopBodies,
     c \in {Blank, Plain(<<>>)}, m2 \in Around, f1 \in {Plain(<<>>), Plain(<<g>>)}}

MCPrograms == CallGraphs \cup Loops
==============================================================================
