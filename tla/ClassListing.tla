----------------------------- MODULE ClassListing -----------------------------
(***************************************************************************)
(* Where the steps of an on-chain recording are shown (onchain/src:        *)
(* source.rs load_dir and apply, listing.rs build, main.rs trace_block).   *)
(* The bindings of a directory are loaded; then, for each class that ran,  *)
(* its binding is proved again against the class that was loaded, the      *)
(* CASM is listed, one instruction a line, and the texts the binding       *)
(* embeds are interned under their names, one text for each name.          *)
(***************************************************************************)
EXTENDS SourceBinding

CONSTANTS
  Loaded,     \* the classes a run may load, see below
  NoBinding,  \* a class without one
  MaxBindings, \* bound on the bindings of a directory
  MaxRan      \* bound on the classes a transaction runs

(***************************************************************************)
(* A loaded class is [hash, program, cairo0, statements, functions, words, *)
(* points, names, starts]: statements are the CASM ranges [start, end) of  *)
(* its Sierra statements, functions the statements its functions start at; *)
(* words the bytecode, each [size, rel]: its size as an instruction, 0 if  *)
(* it does not decode, and what a relative call adds to its offset, else 0 *)
(* (backward calls are left out); points the entry points' offsets; names, *)
(* for Cairo 0, the functions' offsets; starts the offsets the compiler    *)
(* put an instruction at, the only ones execution passes through.  Offsets *)
(* are 0-based, statements are counted from 1.                             *)
(***************************************************************************)
VARIABLES
  phase,    \* "bind", "trace", "end", or "refused"
  sources,  \* the bindings in use: class -> binding
  ran,      \* the classes that ran, in order
  listed,   \* how many of them are done
  listings, \* class -> its listing
  texts     \* cairo_texts: name -> text

listingVars == <<phase, sources, ran, listed, listings, texts>>
vars == <<bindingVars, listingVars>>

Init ==
  /\ BindingInit
  /\ phase = "bind" /\ sources = <<>> /\ listed = 0 /\ listings = <<>> /\ texts = <<>>
  /\ ran \in {s \in UNION {[1..n -> Loaded] : n \in 1..MaxRan} :
               \A i, j \in DOMAIN s : s[i].hash = s[j].hash => i = j}

WriteBinding == phase = "bind" /\ Len(dir) < MaxBindings /\ BindClass /\ UNCHANGED listingVars

EditTree == phase = "bind" /\ Edit /\ UNCHANGED listingVars

(* Someone changes an embedded text after it was written, or gives the     *)
(* binding the hash of another class.                                      *)
Damage ==
  /\ phase = "bind" /\ edits < MaxEdits /\ edits' = edits + 1
  /\ \E i \in DOMAIN dir :
       \/ \E name \in DOMAIN dir[i].at.files, text \in Texts :
            /\ dir[i].at.files[name].text \notin {NoText, text}
            /\ dir' = [dir EXCEPT ![i].at.files[name].text = text]
       \/ \E rec \in {r \in Loaded : r.hash # dir[i].class} :
            dir' = [dir EXCEPT ![i].class = rec.hash]
  /\ UNCHANGED <<tree, built, listingVars>>

(* Of several bindings of a class, the one the directory names last is     *)
(* used; a text that is not the one read when it was bound ends the run.   *)
load_dir ==
  /\ phase = "bind"
  /\ IF \A i \in DOMAIN dir : \A f \in Range(dir[i].at.files) : f.text \in {NoText, f.sha}
     THEN /\ phase' = "trace"
          /\ sources' \in {m \in [{b.class : b \in ToSet(dir)} -> ToSet(dir)] :
                             \A c \in DOMAIN m : m[c].class = c}
     ELSE phase' = "refused" /\ UNCHANGED sources
  /\ UNCHANGED <<bindingVars, ran, listed, listings, texts>>

-----------------------------------------------------------------------------
(***************************************************************************)
(* apply: proving a binding against the class that ran.                    *)
(***************************************************************************)
Proved(rec, b) ==
  /\ ~rec.cairo0 /\ b.program = rec.program
  /\ Len(b.program) = Len(rec.statements)
  /\ b.at.locations # <<>> => Len(b.at.locations) = Len(rec.statements)

apply(rec) ==
  IF rec.hash \in DOMAIN sources /\ Proved(rec, sources[rec.hash])
  THEN sources[rec.hash] ELSE NoBinding

(* The functions the build names, where their first statement is.          *)
FunctionStarts(rec, b) ==
  IF b = NoBinding THEN {} ELSE {rec.statements[s].start : s \in rec.functions \cap b.from.functions}

PcsOf(statement) == statement.start .. (statement.end - 1)

(* The compiler gives an offset to one statement at most.                  *)
ASSUME StatementsAssumption ==
  \A rec \in Loaded :
    /\ rec.statements \in Seq(ToSet(rec.statements))
    /\ \A s, t \in DOMAIN rec.statements :
         s # t => PcsOf(rec.statements[s]) \cap PcsOf(rec.statements[t]) = {}

(* The source positions: of statements with a place in an embedded file.   *)
pc_location(rec, b) ==
  IF b = NoBinding \/ b.at.locations = <<>> THEN <<>>
  ELSE LET shown == {s \in DOMAIN rec.statements :
                       b.at.locations[s] # Nowhere /\ b.at.files[b.at.locations[s].name].text # NoText}
       IN  [pc \in UNION {PcsOf(rec.statements[s]) : s \in shown} |->
              b.at.locations[CHOOSE s \in shown : pc \in PcsOf(rec.statements[s])]]

-----------------------------------------------------------------------------
(***************************************************************************)
(* build: the listing.                                                     *)
(***************************************************************************)
Word(rec, pc) == rec.words[pc + 1]

Decodes(rec, pc) == Word(rec, pc).size > 0

(* An instruction is one word or two, and no part of another.              *)
ASSUME WordsAssumption ==
  \A rec \in Loaded :
    /\ rec.words \in Seq(ToSet(rec.words)) /\ \A word \in ToSet(rec.words) : word.size \in 0..2
    /\ \A pc \in rec.starts :
         /\ pc \in 0..(Len(rec.words) - 1) /\ Decodes(rec, pc)
         /\ \A later \in rec.starts : later > pc => later >= pc + Word(rec, pc).size

(* The decoding sweep: a word that does not decode is passed over alone.   *)
Sweep(rec) ==
  LET swept[n \in 0..Len(rec.words)] ==
        IF n = 0 THEN [pc |-> 0, order |-> <<>>]
        ELSE LET sw == swept[n - 1] IN
             IF sw.pc >= Len(rec.words) THEN sw
             ELSE [pc |-> sw.pc + (IF Word(rec, sw.pc).size = 2 THEN 2 ELSE 1),
                   order |-> Append(sw.order, sw.pc)]
  IN  swept[Len(rec.words)].order

Targets(rec) ==
  {pc + Word(rec, pc).rel : pc \in {p \in ToSet(Sweep(rec)) : Decodes(rec, p) /\ Word(rec, p).rel # 0}}

Functions(rec, b) == Targets(rec) \cup rec.names \cup FunctionStarts(rec, b)

(* The label lines before an instruction: its entry point, its function,   *)
(* and the Sierra statements that start there.                             *)
Labels(rec, b, pc) ==
  (IF pc \in rec.points THEN <<"entry">> ELSE <<>>)
    \o (IF pc \in Functions(rec, b) THEN <<"function">> ELSE <<>>)
    \o [i \in 1..Cardinality({s \in DOMAIN rec.statements :
                                rec.statements[s].start = pc /\ rec.statements[s].end > pc}) |-> "sierra"]

(* All the labels of an instruction counted as one line (mutant).          *)
CountOnce(line, labels) == line + (IF labels = <<>> THEN 0 ELSE 1)

CountLabels(line, labels) == line + Len(labels)

(* The lines of one offset: its labels, and the instruction itself.        *)
LinesAt(rec, b, pc) ==
  LET labels == Labels(rec, b, pc)
  IN  [i \in DOMAIN labels |-> [is |-> labels[i], pc |-> pc]]
        \o <<[is |-> IF Decodes(rec, pc) THEN "instruction" ELSE "data", pc |-> pc]>>

Listing(rec, b) ==
  LET order == Sweep(rec)
      upto[n \in 0..Len(order)] ==
        IF n = 0 THEN [line |-> 0, text |-> <<>>, pc_line |-> <<>>]
        ELSE LET acc == upto[n - 1]  pc == order[n]
                 line == CountLabels(acc.line, Labels(rec, b, pc)) + 1
             IN  [line |-> line, text |-> acc.text \o LinesAt(rec, b, pc),
                  pc_line |-> [p \in DOMAIN acc.pc_line \cup {pc} |-> IF p = pc THEN line ELSE acc.pc_line[p]]]
  IN  upto[Len(order)]

(* Where a step is shown: at its source position, or on its line of the    *)
(* listing, and on line 1 if it has none.                                  *)
line_of(rec, pc) ==
  LET pc_line == listings[rec.hash].listing.pc_line IN IF pc \in DOMAIN pc_line THEN pc_line[pc] ELSE 1

-----------------------------------------------------------------------------
(* The texts of the files the binding's positions name.                    *)
Embedded(rec, b) ==
  [name \in {place.name : place \in Range(pc_location(rec, b))} |-> b.at.files[name].text]

Clash(new) == \E name \in DOMAIN new \cap DOMAIN texts : new[name] # texts[name]

ListClass ==
  /\ phase = "trace" /\ listed < Len(ran)
  /\ LET rec == ran[listed + 1]  b == apply(rec)  new == Embedded(rec, b) IN
     IF Clash(new)
     THEN phase' = "refused" /\ UNCHANGED <<listed, listings, texts>>
     ELSE /\ texts' = [name \in DOMAIN texts \cup DOMAIN new |->
                         IF name \in DOMAIN texts THEN texts[name] ELSE new[name]]
          /\ listings' = [h \in DOMAIN listings \cup {rec.hash} |->
                            IF h = rec.hash
                            THEN [bound |-> b, listing |-> Listing(rec, b), at |-> pc_location(rec, b)]
                            ELSE listings[h]]
          /\ listed' = listed + 1 /\ UNCHANGED phase
  /\ UNCHANGED <<bindingVars, sources, ran>>

Done ==
  /\ phase = "trace" /\ listed = Len(ran) /\ phase' = "end"
  /\ UNCHANGED <<bindingVars, sources, ran, listed, listings, texts>>

Next == WriteBinding \/ EditTree \/ Damage \/ load_dir \/ ListClass \/ Done

Spec == Init /\ [][Next]_vars

-----------------------------------------------------------------------------
(* No two files of a build have one name.                                  *)
NamesDistinct(build) ==
  \A p, q \in {place.path : place \in ToSet(Picked(build)) \ {Nowhere}} :
    stable_path(p) = stable_path(q) => p = q

(* A step of a class shown in a Cairo file is shown where the compiler put *)
(* its statement: the innermost place no macro generated, in a build of    *)
(* the very program that ran.  The text there is the one read when the     *)
(* class was bound, of whichever binding was loaded; and it is the one     *)
(* that was built, if no file was edited in between and the files of the   *)
(* build have names of their own (source.rs:113-222, 421-502, main.rs:     *)
(* 824-868).                                                               *)
LocatedAtItsSource ==
  \A i \in 1..listed :
    LET rec == ran[i]  shown == listings[rec.hash] IN
    \A pc \in DOMAIN shown.at :
      LET build == shown.bound.from
          chain == build.locations[CHOOSE s \in DOMAIN rec.statements : pc \in PcsOf(rec.statements[s])]
          place == chain[CHOOSE k \in DOMAIN chain :
                           /\ ~chain[k].generated \/ (k = 1 /\ \A j \in DOMAIN chain : chain[j].generated)
                           /\ \A j \in 1..(k - 1) : chain[j].generated]
          name == shown.at[pc].name
      IN  /\ build.program = rec.program
          /\ shown.at[pc] = [name |-> stable_path(place.path), line |-> place.line]
          /\ texts[name] = shown.bound.at.files[name].sha
          /\ edits = 0 /\ NamesDistinct(build) => texts[name] = built[place.path]

(* Nothing but data comes after the first word that is no instruction.     *)
DataLast(rec) ==
  /\ rec.starts # {} => 0 \in rec.starts
  /\ \A pc, later \in rec.starts : later > pc => pc + Word(rec, pc).size \in rec.starts

(* If a class's data comes after its code, every offset execution passes   *)
(* through has a line of the listing, which shows that instruction, and    *)
(* right above it are its labels, if it is an entry point or a function    *)
(* (listing.rs:196-323; record.rs:177 falls back to line 1).               *)
StepsOnItsInstruction ==
  \A i \in 1..listed :
    LET rec == ran[i]
        shown == listings[rec.hash]
        text == shown.listing.text
        marked == [entry |-> rec.points, function |-> Functions(rec, shown.bound)]
    IN  DataLast(rec) =>
          \A pc \in rec.starts :
            LET line == line_of(rec, pc) IN
            /\ text[line] = [is |-> "instruction", pc |-> pc]
            /\ \A mark \in DOMAIN marked :
                 pc \in marked[mark] =>
                   \E k \in 1..(line - 1) :
                     text[k] = [is |-> mark, pc |-> pc] /\ \A j \in k..line : text[j].pc = pc
===============================================================================
