---------------------------- MODULE SourceBinding ----------------------------
(***************************************************************************)
(* bind-class (onchain/src/source.rs): a build of a class's source is      *)
(* compared with the class the chain holds and, if they agree in every     *)
(* component, a binding is written: the names of the build, and for each   *)
(* Sierra statement a place in a source file.  The texts of those files    *)
(* are read from the build tree when the binding is made, not when the     *)
(* class was built: the tree may have been edited in between.              *)
(***************************************************************************)
EXTENDS Naturals, Sequences, FiniteSets, SequencesExt

CONSTANTS
  Answers,    \* the chain's answers for a class, see below
  BuildFiles, \* the outputs of builds, see below
  Paths,      \* the files of the build trees: [dir, pkg, tail]
  Roots,      \* the directories given by --root
  Caches,     \* Scarb's cache directories
  Texts,      \* what a file may hold
  NoText,     \* the text of a file that is not embedded
  Nowhere,    \* a statement without a location
  MaxEdits    \* bound on the edits of the tree

ASSUME CachesAssumption == Roots \cap Caches = {}

(***************************************************************************)
(* An answer is [hash, asked, program, points, version, abi]: the class it *)
(* hashes to, and the one it was asked for.  A build has the same          *)
(* components, and its debug info: debug (any at all?), functions (the     *)
(* named ones, as the statements they start at), located (are there code   *)
(* locations?), and locations, for each statement its inlining chain,      *)
(* innermost first, of [path, line, generated].  A program is the sequence *)
(* of its statements.                                                      *)
(***************************************************************************)
ASSUME BuildsAssumption ==
  \A build \in BuildFiles :
    /\ build.locations \in Seq(ToSet(build.locations))
    /\ \A chain \in ToSet(build.locations) :
         /\ chain \in Seq(ToSet(chain))
         /\ \A place \in ToSet(chain) : place # Nowhere /\ place.generated \in BOOLEAN

VARIABLES
  tree,   \* the text of each file
  built,  \* the text each file had when the builds were made
  edits,  \* how often the tree was edited since
  dir     \* the bindings written, in order

bindingVars == <<tree, built, edits, dir>>

BindingInit == tree \in [Paths -> Texts] /\ built = tree /\ edits = 0 /\ dir = <<>>

Edit ==
  /\ edits < MaxEdits /\ edits' = edits + 1
  /\ \E path \in Paths : \E text \in Texts \ {tree[path]} : tree' = [tree EXCEPT ![path] = text]
  /\ UNCHANGED <<built, dir>>

-----------------------------------------------------------------------------
(* The first component that disagrees, if any.                             *)
Components == <<"program", "points", "version", "abi">>
Disagreement(answer, build) ==
  SelectInSeq(Components, LAMBDA part : answer[part] # build[part])

(* A path's name on every machine: what it is called under a root, or its  *)
(* package and version in Scarb's cache, whichever directory of the cache  *)
(* that is in.  Any other path is refused.                                 *)
Nameable(path) == path.dir \in Roots \cup Caches
stable_path(path) ==
  IF path.dir \in Roots THEN <<path.dir, path.tail>> ELSE <<path.pkg, path.tail>>

(* The outermost place of the chain instead (mutant).                      *)
PickOutermost(chain) ==
  IF chain = <<>> THEN Nowhere ELSE chain[Len(chain)]

(* The innermost place that no macro generated, or else the innermost.     *)
Pick(chain) ==
  LET i == SelectInSeq(chain, LAMBDA place : ~place.generated)
  IN  IF chain = <<>> THEN Nowhere ELSE chain[IF i = 0 THEN 1 ELSE i]

Picked(build) == [s \in DOMAIN build.locations |-> Pick(build.locations[s])]

(* The statements are gone through in order (of their numbers as text, the *)
(* same up to ten); the first path met under a name is the one whose text  *)
(* is read.                                                                *)
FirstPath(build, name) ==
  LET s == SelectInSeq(Picked(build), LAMBDA place : place # Nowhere /\ stable_path(place.path) = name)
  IN  Picked(build)[s].path

NamesUsed(build) == {stable_path(place.path) : place \in ToSet(Picked(build)) \ {Nowhere}}

CanLocate(build) ==
  /\ Len(build.locations) <= Len(build.program)
  /\ \A place \in ToSet(Picked(build)) \ {Nowhere} : Nameable(place.path)

code_locations(build, embed) ==
  [locations |->
     [s \in 1..Len(build.program) |->
        IF s \in DOMAIN build.locations /\ Picked(build)[s] # Nowhere
        THEN [name |-> stable_path(Picked(build)[s].path), line |-> Picked(build)[s].line]
        ELSE Nowhere],
   files |-> [name \in NamesUsed(build) |->
                [sha |-> tree[FirstPath(build, name)],
                 text |-> IF embed THEN tree[FirstPath(build, name)] ELSE NoText]]]

NoLocations == [locations |-> <<>>, files |-> <<>>]

Matches(answer, build) ==
  answer.hash = answer.asked /\ Disagreement(answer, build) = 0

HasNames(build) == build.debug /\ build.functions # {}

bind(answer, build, embed) ==
  [class |-> answer.asked, program |-> build.program, from |-> build,
   at |-> IF build.located THEN code_locations(build, embed) ELSE NoLocations]

(* A build that does not match is discarded and nothing is written.        *)
BindClass ==
  /\ \E answer \in Answers, build \in BuildFiles, embed \in BOOLEAN :
       /\ Matches(answer, build) /\ HasNames(build)
       /\ build.located => CanLocate(build)
       /\ dir' = Append(dir, bind(answer, build, embed))
  /\ UNCHANGED <<tree, built, edits>>
==============================================================================
