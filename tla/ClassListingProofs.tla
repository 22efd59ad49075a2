-------------------------- MODULE ClassListingProofs --------------------------
(***************************************************************************)
(* Whatever is shown in a Cairo file is the source of what ran, and every  *)
(* step is shown on its own instruction, for any classes, builds and       *)
(* trees: the two properties of ClassListing.                              *)
(***************************************************************************)
EXTENDS ClassListing, WellFoundedInduction, FiniteSetTheorems, SequenceTheorems, TLAPS

Less == {p \in Nat \X Nat : p[1] < p[2]}

(* A set of numbers has a smallest one.                                    *)
LEMMA NatMin ==
  ASSUME NEW S \in SUBSET Nat, S # {}
  PROVE  \E x \in S : \A y \in S : x <= y
<1>1. IsWellFoundedOn(Less, Nat)
  BY NatLessThanWellFounded DEF Less, OpToRel
<1>2. PICK x \in S : \A y \in S : ~(<<y, x>> \in Less)
  BY <1>1, WFMin
<1>3. \A y \in S : y < x => <<y, x>> \in Less
  BY DEF Less
<1>4. \A y \in S : ~(y < x) /\ y \in Nat
  BY <1>2, <1>3
<1>5. \A y \in S : x <= y
  BY <1>4
<1> QED BY <1>5

LEMMA MinIsLeast ==
  ASSUME NEW S \in SUBSET Nat, S # {}
  PROVE  Min(S) \in S /\ \A y \in S : Min(S) <= y
BY NatMin DEF Min

(* The place of a chain that the code picks, named by what it is.          *)
IsItsPlace(chain, k) ==
  /\ k \in DOMAIN chain
  /\ ~chain[k].generated \/ (k = 1 /\ \A j \in DOMAIN chain : chain[j].generated)
  /\ \A j \in 1..(k - 1) : chain[j].generated

LEMMA PickIsItsPlace ==
  ASSUME NEW build \in BuildFiles, NEW s \in DOMAIN build.locations, Pick(build.locations[s]) # Nowhere
  PROVE  LET chain == build.locations[s] IN
         \E k \in DOMAIN chain :
           /\ IsItsPlace(chain, k) /\ Pick(chain) = chain[k]
           /\ \A j \in DOMAIN chain : IsItsPlace(chain, j) => j = k
<1> DEFINE chain == build.locations[s]
           Written == {i \in 1..Len(chain) : ~chain[i].generated}
<1>1. /\ chain \in Seq(ToSet(chain)) /\ chain # <<>>
      /\ DOMAIN chain = 1..Len(chain) /\ Len(chain) \in Nat /\ Len(chain) >= 1
      /\ \A i \in 1..Len(chain) : chain[i].generated \in BOOLEAN
  <2>1. chain \in Seq(ToSet(chain)) /\ \A place \in ToSet(chain) : place.generated \in BOOLEAN
    BY BuildsAssumption DEF ToSet
  <2>2. chain # <<>>
    BY DEF Pick
  <2> QED BY <2>1, <2>2 DEF ToSet
<1>2. Pick(chain) = chain[IF Written # {} THEN IF Min(Written) = 0 THEN 1 ELSE Min(Written) ELSE 1]
  BY <1>1 DEF Pick, SelectInSeq
<1>3. CASE Written = {}
  <2>1. Pick(chain) = chain[1]
    BY <1>2, <1>3
  <2>2. \A j \in 1..Len(chain) : chain[j].generated
    BY <1>1, <1>3
  <2>3. IsItsPlace(chain, 1)
    BY <1>1, <2>2 DEF IsItsPlace
  <2>4. \A j \in DOMAIN chain : IsItsPlace(chain, j) => j = 1
    BY <1>1, <2>2 DEF IsItsPlace
  <2> QED BY <1>1, <2>1, <2>3, <2>4
<1>4. CASE Written # {}
  <2> DEFINE k == Min(Written)
  <2>1. k \in Written /\ \A y \in Written : k <= y
    <3>1. Written \in SUBSET Nat
      BY <1>1
    <3> HIDE DEF Written
    <3> QED BY <3>1, <1>4, MinIsLeast
  <2>2. Pick(chain) = chain[k]
    <3>1. Min(Written) # 0
      BY <1>1, <2>1
    <3> HIDE DEF Written
    <3> QED BY <1>2, <1>4, <3>1
  <2> HIDE DEF k
  <2>3. \A j \in 1..(k - 1) : chain[j].generated
    BY <1>1, <2>1
  <2>4. IsItsPlace(chain, k)
    BY <1>1, <2>1, <2>3 DEF IsItsPlace
  <2>5. \A j \in DOMAIN chain : IsItsPlace(chain, j) => j = k
    <3> SUFFICES ASSUME NEW j \in DOMAIN chain, IsItsPlace(chain, j) PROVE j = k
      OBVIOUS
    <3>1. ~chain[k].generated /\ k \in 1..Len(chain) /\ j \in 1..Len(chain)
      BY <1>1, <2>1
    <3>2. ~(k < j)
      BY <1>1, <3>1 DEF IsItsPlace
    <3>3. ~chain[j].generated
      BY <1>1, <3>1 DEF IsItsPlace
    <3>4. ~(j < k)
      BY <1>1, <2>3, <3>1, <3>3
    <3> QED BY <3>1, <3>2, <3>4
  <2> QED BY <1>1, <2>1, <2>2, <2>4, <2>5
<1> QED BY <1>3, <1>4

(* The path that gives a name its text is one of the paths of that name.   *)
LEMMA FirstPathHasTheName ==
  ASSUME NEW build \in BuildFiles, NEW s \in DOMAIN build.locations, Pick(build.locations[s]) # Nowhere
  PROVE  LET name == stable_path(Pick(build.locations[s]).path) IN
         \E t \in DOMAIN build.locations :
           /\ Picked(build)[t] # Nowhere
           /\ FirstPath(build, name) = Picked(build)[t].path
           /\ stable_path(Picked(build)[t].path) = name
<1> DEFINE name == stable_path(Pick(build.locations[s]).path)
           Named == {i \in 1..Len(Picked(build)) :
                       Picked(build)[i] # Nowhere /\ stable_path(Picked(build)[i].path) = name}
<1>1. /\ build.locations \in Seq(ToSet(build.locations))
      /\ Len(build.locations) \in Nat /\ DOMAIN build.locations = 1..Len(build.locations)
  BY BuildsAssumption
<1>2. /\ DOMAIN Picked(build) = 1..Len(build.locations) /\ Len(Picked(build)) = Len(build.locations)
      /\ \A t \in DOMAIN build.locations : Picked(build)[t] = Pick(build.locations[t])
  BY <1>1 DEF Picked
<1>3. s \in Named
  BY <1>1, <1>2
<1>4. Min(Named) \in Named
  <2>1. Named \in SUBSET Nat
    BY <1>1, <1>2
  <2> HIDE DEF Named
  <2> QED BY <2>1, <1>3, MinIsLeast
<1>5. FirstPath(build, name) = Picked(build)[Min(Named)].path
  BY <1>3 DEF FirstPath, SelectInSeq
<1>6. /\ Min(Named) \in DOMAIN build.locations /\ Picked(build)[Min(Named)] # Nowhere
      /\ stable_path(Picked(build)[Min(Named)].path) = name
  BY <1>1, <1>2, <1>4
<1> QED BY <1>5, <1>6

-----------------------------------------------------------------------------
(* The locations a binding has if its build has any.                       *)
Placed(build) ==
  [s \in 1..Len(build.program) |->
     IF s \in DOMAIN build.locations /\ Picked(build)[s] # Nowhere
     THEN [name |-> stable_path(Picked(build)[s].path), line |-> Picked(build)[s].line]
     ELSE Nowhere]

(* What stays true of a binding whatever is done to it.                    *)
IsBinding(b) ==
  /\ DOMAIN b = {"class", "program", "from", "at"} /\ DOMAIN b.at = {"locations", "files"}
  /\ b.from \in BuildFiles /\ b.program = b.from.program
  /\ \/ b.at.locations = <<>>
     \/ b.at.locations = Placed(b.from) /\ DOMAIN b.at.files = NamesUsed(b.from)
  /\ \A name \in DOMAIN b.at.files :
       /\ DOMAIN b.at.files[name] = {"sha", "text"}
       /\ edits = 0 => b.at.files[name].sha = built[FirstPath(b.from, name)]

DirectoryHolds == \E S : dir \in Seq(S) /\ \A b \in S : IsBinding(b)

Untouched(b) == \A name \in DOMAIN b.at.files : b.at.files[name].text \in {NoText, b.at.files[name].sha}

SourcesHold == \A c \in DOMAIN sources : IsBinding(sources[c]) /\ Untouched(sources[c])

PhaseFits ==
  /\ edits \in Nat
  /\ edits = 0 => tree = built
  /\ phase = "bind" => sources = <<>> /\ listed = 0

RanDistinct ==
  /\ ran \in Seq(Loaded) /\ listed \in 0..Len(ran)
  /\ \A i, j \in 1..Len(ran) : ran[i].hash = ran[j].hash => i = j

Interned(rec) ==
  \A pc \in DOMAIN pc_location(rec, apply(rec)) :
    LET name == pc_location(rec, apply(rec))[pc].name IN
    name \in DOMAIN texts /\ texts[name] = apply(rec).at.files[name].text

(* What is listed is what the binding says, and its texts are the binding's. *)
ListingsHold ==
  \A i \in 1..listed :
    /\ ran[i].hash \in DOMAIN listings
    /\ listings[ran[i].hash].bound = apply(ran[i])
    /\ listings[ran[i].hash].at = pc_location(ran[i], apply(ran[i]))
    /\ listings[ran[i].hash].listing = Listing(ran[i], apply(ran[i]))
    /\ Interned(ran[i])

IInv == DirectoryHolds /\ SourcesHold /\ PhaseFits /\ RanDistinct /\ ListingsHold

LEMMA InitEstablishesInv == Init => IInv
<1> SUFFICES ASSUME Init PROVE IInv
  OBVIOUS
<1>1. DirectoryHolds
  <2>1. dir \in Seq({}) /\ \A b \in {} : IsBinding(b)
    BY DEF Init, BindingInit
  <2> QED BY <2>1 DEF DirectoryHolds
<1>2. SourcesHold /\ PhaseFits
  BY DEF Init, BindingInit, SourcesHold, PhaseFits
<1>3. RanDistinct
  BY DEF Init, RanDistinct
<1>4. ListingsHold
  BY DEF Init, ListingsHold
<1> QED BY <1>1, <1>2, <1>3, <1>4 DEF IInv

(* A binding as it is written.                                             *)
LEMMA BoundIsBinding ==
  ASSUME PhaseFits, NEW answer \in Answers, NEW build \in BuildFiles, NEW embed \in BOOLEAN
  PROVE  IsBinding(bind(answer, build, embed))
<1> SUFFICES ASSUME NEW b, b = bind(answer, build, embed) PROVE IsBinding(b)
  OBVIOUS
<1>1. /\ DOMAIN b = {"class", "program", "from", "at"} /\ b.from = build /\ b.program = build.program
      /\ b.at = IF build.located THEN code_locations(build, embed) ELSE NoLocations
  BY DEF bind
<1>2. CASE ~build.located
  <2>1. DOMAIN b.at = {"locations", "files"} /\ b.at.locations = <<>> /\ DOMAIN b.at.files = {}
    BY <1>1, <1>2 DEF NoLocations
  <2>2. \A name \in DOMAIN b.at.files : FALSE
    BY <2>1, Zenon
  <2>3. b.from \in BuildFiles /\ b.program = b.from.program
    BY <1>1
  <2>4. \A name \in DOMAIN b.at.files :
          /\ DOMAIN b.at.files[name] = {"sha", "text"}
          /\ edits = 0 => b.at.files[name].sha = built[FirstPath(b.from, name)]
    BY <2>2
  <2>5. DOMAIN b = {"class", "program", "from", "at"} /\ DOMAIN b.at = {"locations", "files"}
    BY <1>1, <2>1
  <2>6. b.at.locations = <<>> \/ (b.at.locations = Placed(b.from) /\ DOMAIN b.at.files = NamesUsed(b.from))
    BY <2>1
  <2> QED BY <2>3, <2>4, <2>5, <2>6, Zenon DEF IsBinding
<1>3. CASE build.located
  <2>1. /\ DOMAIN b.at = {"locations", "files"} /\ b.at.locations = Placed(build)
        /\ DOMAIN b.at.files = NamesUsed(build)
        /\ \A name \in NamesUsed(build) :
             /\ DOMAIN b.at.files[name] = {"sha", "text"}
             /\ b.at.files[name].sha = tree[FirstPath(build, name)]
    <3>1. b.at = code_locations(build, embed)
      BY <1>1, <1>3
    <3> QED BY <3>1 DEF code_locations, Placed
  <2>2. edits = 0 => tree = built
    BY DEF PhaseFits
  <2> QED BY <1>1, <2>1, <2>2 DEF IsBinding
<1> QED BY <1>2, <1>3

LEMMA WriteBindingKeepsInv == IInv /\ WriteBinding => IInv'
<1> SUFFICES ASSUME IInv, WriteBinding PROVE IInv'
  OBVIOUS
<1>1. UNCHANGED <<tree, built, edits, phase, sources, ran, listed, listings, texts>>
  BY DEF WriteBinding, BindClass, listingVars
<1>2. DirectoryHolds'
  <2>1. PICK answer \in Answers, build \in BuildFiles, embed \in BOOLEAN :
          dir' = Append(dir, bind(answer, build, embed))
    BY DEF WriteBinding, BindClass
  <2> DEFINE b == bind(answer, build, embed)
  <2>2. IsBinding(b)
    BY BoundIsBinding DEF IInv
  <2> HIDE DEF b
  <2>3. PICK S : dir \in Seq(S) /\ \A x \in S : IsBinding(x)
    BY DEF IInv, DirectoryHolds
  <2>4. dir' \in Seq(S \cup {b})
    <3>1. dir \in Seq(S \cup {b})
      BY <2>3, SeqMonotonic
    <3> QED BY <2>1, <3>1 DEF b
  <2>5. \A x \in S \cup {b} : IsBinding(x)'
    BY <1>1, <2>2, <2>3 DEF IsBinding
  <2> QED BY <2>4, <2>5 DEF DirectoryHolds
<1>3. SourcesHold' /\ PhaseFits' /\ RanDistinct' /\ ListingsHold'
  <2>1. phase = "bind" /\ sources = <<>> /\ listed = 0
    BY DEF IInv, PhaseFits, WriteBinding
  <2> QED BY <1>1, <2>1 DEF IInv, PhaseFits, SourcesHold, RanDistinct, ListingsHold
<1> QED BY <1>2, <1>3 DEF IInv

(* Once something was edited a binding promises less.                      *)
LEMMA EditedIsBinding ==
  ASSUME NEW b, IsBinding(b), edits' # 0, UNCHANGED built
  PROVE  IsBinding(b)'
BY DEF IsBinding

LEMMA DamagedIsBinding ==
  ASSUME NEW b, IsBinding(b), edits' # 0, NEW name \in DOMAIN b.at.files, NEW text
  PROVE  IsBinding([b EXCEPT !.at.files[name].text = text])'
<1> DEFINE file == [b.at.files[name] EXCEPT !.text = text]
           files == [b.at.files EXCEPT ![name] = file]
           at == [b.at EXCEPT !.files = files]
<1> SUFFICES ASSUME NEW c, c = [b EXCEPT !.at.files[name].text = text] PROVE IsBinding(c)'
  OBVIOUS
<1>1. /\ DOMAIN c = DOMAIN b /\ c.from = b.from /\ c.program = b.program /\ c.at = at
  BY DEF IsBinding
<1>2. DOMAIN at = DOMAIN b.at /\ at.locations = b.at.locations /\ at.files = files
  BY DEF IsBinding
<1>3. /\ DOMAIN files = DOMAIN b.at.files
      /\ \A n \in DOMAIN files : DOMAIN files[n] = {"sha", "text"}
  BY DEF IsBinding
<1> HIDE DEF at, files
<1> QED BY <1>1, <1>2, <1>3 DEF IsBinding

LEMMA RelabelledIsBinding ==
  ASSUME NEW b, IsBinding(b), edits' # 0, NEW hash
  PROVE  IsBinding([b EXCEPT !.class = hash])'
<1> SUFFICES ASSUME NEW c, c = [b EXCEPT !.class = hash] PROVE IsBinding(c)'
  OBVIOUS
<1>1. DOMAIN c = DOMAIN b /\ c.from = b.from /\ c.program = b.program /\ c.at = b.at
  BY DEF IsBinding
<1> QED BY <1>1 DEF IsBinding

LEMMA EditTreeKeepsInv == IInv /\ EditTree => IInv'
<1> SUFFICES ASSUME IInv, EditTree PROVE IInv'
  OBVIOUS
<1>1. /\ UNCHANGED <<built, dir, phase, sources, ran, listed, listings, texts>>
      /\ phase = "bind" /\ edits' # 0 /\ edits' \in Nat
  <2>1. edits \in Nat
    BY DEF IInv, PhaseFits
  <2>2. edits' = edits + 1
    BY DEF EditTree, Edit
  <2>3. edits' # 0 /\ edits' \in Nat
    BY <2>1, <2>2
  <2> QED BY <2>3 DEF EditTree, Edit, listingVars
<1>2. DirectoryHolds'
  BY <1>1, EditedIsBinding DEF IInv, DirectoryHolds
<1>3. SourcesHold' /\ PhaseFits' /\ RanDistinct' /\ ListingsHold'
  BY <1>1 DEF IInv, PhaseFits, SourcesHold, RanDistinct, ListingsHold
<1> QED BY <1>2, <1>3 DEF IInv

LEMMA DamageKeepsInv == IInv /\ Damage => IInv'
<1> SUFFICES ASSUME IInv, Damage PROVE IInv'
  OBVIOUS
<1>1. /\ UNCHANGED <<tree, built, phase, sources, ran, listed, listings, texts>>
      /\ phase = "bind" /\ edits' # 0 /\ edits' \in Nat
  <2>1. edits \in Nat
    BY DEF IInv, PhaseFits
  <2>2. edits' = edits + 1
    BY DEF Damage
  <2>3. edits' # 0 /\ edits' \in Nat
    BY <2>1, <2>2
  <2> QED BY <2>3 DEF Damage, listingVars
<1>2. DirectoryHolds'
  <2>1. PICK S : dir \in Seq(S) /\ \A x \in S : IsBinding(x)
    BY DEF IInv, DirectoryHolds
  <2>2. PICK i \in DOMAIN dir :
          \/ \E name \in DOMAIN dir[i].at.files, text \in Texts :
               dir' = [dir EXCEPT ![i].at.files[name].text = text]
          \/ \E rec \in Loaded : dir' = [dir EXCEPT ![i].class = rec.hash]
    BY DEF Damage
  <2>3. PICK b : b = dir[i]
    OBVIOUS
  <2>4. IsBinding(b)
    BY <2>1, <2>2, <2>3
  <2>5. PICK c : dir' = [dir EXCEPT ![i] = c] /\ IsBinding(c)'
    <3>1. CASE \E name \in DOMAIN dir[i].at.files, text \in Texts :
                 dir' = [dir EXCEPT ![i].at.files[name].text = text]
      <4>1. PICK name \in DOMAIN b.at.files, text \in Texts :
              dir' = [dir EXCEPT ![i].at.files[name].text = text]
        BY <2>3, <3>1
      <4>2. dir' = [dir EXCEPT ![i] = [b EXCEPT !.at.files[name].text = text]]
        BY <2>3, <4>1
      <4>3. IsBinding([b EXCEPT !.at.files[name].text = text])'
        BY <1>1, <2>4, DamagedIsBinding
      <4> QED BY <4>2, <4>3
    <3>2. CASE \E rec \in Loaded : dir' = [dir EXCEPT ![i].class = rec.hash]
      <4>1. PICK rec \in Loaded : dir' = [dir EXCEPT ![i] = [b EXCEPT !.class = rec.hash]]
        BY <2>3, <3>2
      <4>2. IsBinding([b EXCEPT !.class = rec.hash])'
        BY <1>1, <2>4, RelabelledIsBinding
      <4> QED BY <4>1, <4>2
    <3> QED BY <2>2, <3>1, <3>2
  <2>6. dir' \in Seq(S \cup {c})
    <3>1. dir \in Seq(S \cup {c})
      BY <2>1, SeqMonotonic
    <3> QED BY <2>5, <3>1
  <2>7. \A x \in S \cup {c} : IsBinding(x)'
    BY <1>1, <2>1, <2>5, EditedIsBinding
  <2> QED BY <2>6, <2>7 DEF DirectoryHolds
<1>3. SourcesHold' /\ PhaseFits' /\ RanDistinct' /\ ListingsHold'
  BY <1>1 DEF IInv, PhaseFits, SourcesHold, RanDistinct, ListingsHold
<1> QED BY <1>2, <1>3 DEF IInv

LEMMA LoadDirKeepsInv == IInv /\ load_dir => IInv'
<1> SUFFICES ASSUME IInv, load_dir PROVE IInv'
  OBVIOUS
<1>1. UNCHANGED <<tree, built, edits, dir, ran, listed, listings, texts>> /\ listed = 0
  BY DEF load_dir, bindingVars, IInv, PhaseFits
<1>2. DirectoryHolds'
  <2>1. PICK S : dir \in Seq(S) /\ \A x \in S : IsBinding(x)
    BY DEF IInv, DirectoryHolds
  <2>2. dir' \in Seq(S) /\ \A x \in S : IsBinding(x)'
    BY <1>1, <2>1 DEF IsBinding
  <2> QED BY <2>2 DEF DirectoryHolds
<1>3. SourcesHold'
  <2>1. CASE /\ \A i \in DOMAIN dir : \A f \in Range(dir[i].at.files) : f.text \in {NoText, f.sha}
             /\ sources' \in [{b.class : b \in ToSet(dir)} -> ToSet(dir)]
    <3> SUFFICES ASSUME NEW c \in DOMAIN sources' PROVE (IsBinding(sources[c]) /\ Untouched(sources[c]))'
      BY DEF SourcesHold
    <3>1. PICK i \in DOMAIN dir : sources'[c] = dir[i]
      BY <2>1 DEF ToSet
    <3>2. PICK b : b = dir[i]
      OBVIOUS
    <3>3. IsBinding(b)
      <4>1. PICK S : dir \in Seq(S) /\ \A x \in S : IsBinding(x)
        BY DEF IInv, DirectoryHolds
      <4> QED BY <3>2, <4>1
    <3>4. IsBinding(b)'
      BY <1>1, <3>3 DEF IsBinding
    <3>5. Untouched(b)'
      BY <2>1, <3>2 DEF Untouched, Range
    <3> QED BY <3>1, <3>2, <3>4, <3>5 DEF IsBinding, Untouched
  <2>2. CASE UNCHANGED sources
    BY <1>1, <2>2 DEF IInv, SourcesHold, IsBinding, Untouched
  <2> QED BY <2>1, <2>2 DEF load_dir
<1>4. PhaseFits' /\ RanDistinct' /\ ListingsHold'
  <2>1. phase' # "bind"
    BY DEF load_dir
  <2> QED BY <1>1, <2>1 DEF IInv, PhaseFits, RanDistinct, ListingsHold
<1> QED BY <1>2, <1>3, <1>4 DEF IInv

(* Nothing of what is known changes if the bindings, and what was listed,  *)
(* do not.                                                                 *)
LEMMA SameBindingsKeepInv ==
  ASSUME IInv, UNCHANGED <<tree, built, edits, dir, sources, ran>>, phase # "bind", phase' # "bind"
  PROVE  (DirectoryHolds /\ SourcesHold /\ PhaseFits)'
<1>1. DirectoryHolds'
  <2>1. PICK S : dir \in Seq(S) /\ \A x \in S : IsBinding(x)
    BY DEF IInv, DirectoryHolds
  <2>2. dir' \in Seq(S) /\ \A x \in S : IsBinding(x)'
    BY <2>1 DEF IsBinding
  <2> QED BY <2>2 DEF DirectoryHolds
<1>2. SourcesHold'
  BY DEF IInv, SourcesHold, IsBinding, Untouched
<1>3. PhaseFits'
  BY DEF IInv, PhaseFits
<1> QED BY <1>1, <1>2, <1>3

LEMMA SameListingsHold ==
  ASSUME RanDistinct, ListingsHold, UNCHANGED <<sources, ran, listed, listings, texts>>
  PROVE  RanDistinct' /\ ListingsHold'
<1>1. RanDistinct'
  BY DEF RanDistinct
<1>2. \A r : apply(r)' = apply(r)
  BY DEF apply
<1>3. \A r : Interned(r)' <=> Interned(r)
  BY <1>2 DEF Interned
<1>4. ListingsHold'
  BY <1>2, <1>3 DEF ListingsHold
<1> QED BY <1>1, <1>4

LEMMA ListClassKeepsInv == IInv /\ ListClass => IInv'
<1> SUFFICES ASSUME IInv, ListClass PROVE IInv'
  OBVIOUS
<1>0. PICK rec : rec = ran[listed + 1]
  OBVIOUS
<1> DEFINE b == apply(rec)
           new == Embedded(rec, b)
<1>1. UNCHANGED <<tree, built, edits, dir, sources, ran>> /\ phase = "trace" /\ phase' # "bind" /\ listed < Len(ran)
  BY DEF ListClass, bindingVars
<1>2. (DirectoryHolds /\ SourcesHold /\ PhaseFits)'
  BY <1>1, SameBindingsKeepInv
<1>3. ran \in Seq(Loaded) /\ listed \in Nat /\ listed + 1 \in 1..Len(ran)
  BY <1>1 DEF IInv, RanDistinct
<1>4. CASE Clash(new)
  <2>1. UNCHANGED <<listed, listings, texts>>
    BY <1>0, <1>4 DEF ListClass
  <2> QED BY <1>1, <1>2, <2>1, SameListingsHold DEF IInv
<1>5. CASE ~Clash(new)
  <2>1. /\ texts' = [name \in DOMAIN texts \cup DOMAIN new |->
                       IF name \in DOMAIN texts THEN texts[name] ELSE new[name]]
        /\ listings' = [h \in DOMAIN listings \cup {rec.hash} |->
                          IF h = rec.hash
                          THEN [bound |-> b, listing |-> Listing(rec, b), at |-> pc_location(rec, b)]
                          ELSE listings[h]]
        /\ listed' = listed + 1
    BY <1>0, <1>5 DEF ListClass
  <2>2. \A r : apply(r)' = apply(r)
    BY <1>1 DEF apply
  <2>3. RanDistinct'
    BY <1>1, <1>3, <2>1 DEF IInv, RanDistinct
  <2>4. ListingsHold'
    <3> SUFFICES ASSUME NEW i \in 1..(listed + 1)
                 PROVE  (/\ ran[i].hash \in DOMAIN listings
                         /\ listings[ran[i].hash].bound = apply(ran[i])
                         /\ listings[ran[i].hash].at = pc_location(ran[i], apply(ran[i]))
                         /\ listings[ran[i].hash].listing = Listing(ran[i], apply(ran[i]))
                         /\ Interned(ran[i]))'
      BY <2>1 DEF ListingsHold
    <3>1. CASE i = listed + 1
      <4>1. ran[i] = rec /\ ran'[i] = rec
        BY <1>0, <1>1, <3>1
      <4>2. /\ rec.hash \in DOMAIN listings' /\ listings'[rec.hash].bound = b
            /\ listings'[rec.hash].at = pc_location(rec, b)
            /\ listings'[rec.hash].listing = Listing(rec, b)
        BY <2>1
      <4>3. Interned(rec)'
        <5>0. b' = b
          BY <2>2
        <5> SUFFICES ASSUME NEW pc \in DOMAIN pc_location(rec, b),
                            NEW name, name = pc_location(rec, b)[pc].name
                     PROVE  name \in DOMAIN texts' /\ texts'[name] = b.at.files[name].text
          BY <2>2, <5>0 DEF Interned
        <5>1. name \in DOMAIN new /\ new[name] = b.at.files[name].text
          BY DEF Embedded, Range
        <5>2. name \in DOMAIN texts => texts[name] = new[name]
          BY <1>5, <5>1 DEF Clash
        <5> HIDE DEF new, b
        <5> QED BY <2>1, <5>1, <5>2
      <4>4. apply(ran[i])' = b
        BY <2>2, <4>1
      <4> HIDE DEF b
      <4> QED BY <4>1, <4>2, <4>3, <4>4
    <3>2. CASE i \in 1..listed
      <4>1. ran[i].hash # rec.hash
        BY <1>0, <1>3, <3>2 DEF IInv, RanDistinct
      <4>2. /\ ran[i].hash \in DOMAIN listings /\ listings[ran[i].hash].bound = apply(ran[i])
            /\ listings[ran[i].hash].at = pc_location(ran[i], apply(ran[i])) /\ Interned(ran[i])
            /\ listings[ran[i].hash].listing = Listing(ran[i], apply(ran[i]))
        BY <3>2 DEF IInv, ListingsHold
      <4>3. ran[i].hash \in DOMAIN listings' /\ listings'[ran[i].hash] = listings[ran[i].hash]
        BY <2>1, <4>1, <4>2
      <4>4. \A name \in DOMAIN texts : name \in DOMAIN texts' /\ texts'[name] = texts[name]
        BY <2>1
      <4> HIDE DEF b, new
      <4>5. Interned(ran[i])'
        BY <1>1, <2>2, <4>2, <4>4 DEF Interned
      <4> QED BY <1>1, <2>2, <4>2, <4>3, <4>5
    <3> QED BY <1>3, <3>1, <3>2
  <2> QED BY <1>2, <2>3, <2>4 DEF IInv
<1> QED BY <1>4, <1>5

LEMMA DoneKeepsInv == IInv /\ Done => IInv'
<1> SUFFICES ASSUME IInv, Done PROVE IInv'
  OBVIOUS
<1>1. /\ UNCHANGED <<tree, built, edits, dir, sources, ran, listed, listings, texts>>
      /\ phase # "bind" /\ phase' # "bind"
  BY DEF Done, bindingVars
<1>2. (DirectoryHolds /\ SourcesHold /\ PhaseFits)'
  BY <1>1, SameBindingsKeepInv
<1>3. RanDistinct' /\ ListingsHold'
  BY <1>1, SameListingsHold DEF IInv
<1> QED BY <1>2, <1>3 DEF IInv

LEMMA StepKeepsInv == IInv /\ [Next]_vars => IInv'
<1> SUFFICES ASSUME IInv, [Next]_vars PROVE IInv'
  OBVIOUS
<1>1. CASE Next
  BY <1>1, WriteBindingKeepsInv, EditTreeKeepsInv, DamageKeepsInv, LoadDirKeepsInv, ListClassKeepsInv,
     DoneKeepsInv DEF Next
<1>2. CASE UNCHANGED vars
  <2>1. UNCHANGED <<tree, built, edits, dir, phase, sources, ran, listed, listings, texts>>
    BY <1>2 DEF vars, bindingVars, listingVars
  <2>2. DirectoryHolds'
    <3>1. PICK S : dir \in Seq(S) /\ \A x \in S : IsBinding(x)
      BY DEF IInv, DirectoryHolds
    <3>2. dir' \in Seq(S) /\ \A x \in S : IsBinding(x)'
      BY <2>1, <3>1 DEF IsBinding
    <3> QED BY <3>2 DEF DirectoryHolds
  <2>3. SourcesHold' /\ PhaseFits'
    BY <2>1 DEF IInv, SourcesHold, IsBinding, Untouched, PhaseFits
  <2> QED BY <2>1, <2>2, <2>3, SameListingsHold DEF IInv
<1> QED BY <1>1, <1>2

(* What the property says of one offset of one class.                      *)
ShownRight(rec, pc) ==
  LET shown == listings[rec.hash]
      build == shown.bound.from
      chain == build.locations[CHOOSE s \in DOMAIN rec.statements : pc \in PcsOf(rec.statements[s])]
      place == chain[CHOOSE k \in DOMAIN chain :
                       /\ ~chain[k].generated \/ (k = 1 /\ \A j \in DOMAIN chain : chain[j].generated)
                       /\ \A j \in 1..(k - 1) : chain[j].generated]
      name == shown.at[pc].name
  IN  /\ build.program = rec.program
      /\ shown.at[pc] = [name |-> stable_path(place.path), line |-> place.line]
      /\ texts[name] = shown.bound.at.files[name].sha
      /\ edits = 0 /\ NamesDistinct(build) => texts[name] = built[place.path]

LEMMA InvImpliesLocated == IInv => LocatedAtItsSource
<1> SUFFICES ASSUME IInv, NEW i \in 1..listed, NEW pc \in DOMAIN listings[ran[i].hash].at
             PROVE  ShownRight(ran[i], pc)
  BY DEF LocatedAtItsSource, ShownRight
<1>0. PICK rec : rec = ran[i]
  OBVIOUS
<1> SUFFICES ShownRight(rec, pc)
  BY <1>0
<1>1. PICK b : b = apply(rec)
  OBVIOUS
<1>2. PICK at : at = pc_location(rec, b)
  OBVIOUS
<1>3. rec \in Loaded /\ listings[rec.hash].bound = b /\ listings[rec.hash].at = at /\ pc \in DOMAIN at
  <2>1. ran \in Seq(Loaded) /\ i \in 1..Len(ran)
    BY DEF IInv, RanDistinct
  <2> QED BY <1>0, <1>1, <1>2, <2>1 DEF IInv, ListingsHold
<1>4. b # NoBinding /\ b.at.locations # <<>>
  <2>1. at # <<>>
    BY <1>3
  <2> QED BY <1>2, <2>1, Zenon DEF pc_location
<1>5. Proved(rec, b) /\ IsBinding(b) /\ Untouched(b)
  BY <1>1, <1>4 DEF apply, IInv, SourcesHold
<1>6. /\ b.from \in BuildFiles /\ b.from.program = rec.program /\ Len(b.from.program) = Len(rec.statements)
      /\ b.at.locations = Placed(b.from) /\ DOMAIN b.at.files = NamesUsed(b.from)
  BY <1>4, <1>5 DEF Proved, IsBinding
<1> DEFINE shown == {s \in DOMAIN rec.statements :
                       b.at.locations[s] # Nowhere /\ b.at.files[b.at.locations[s].name].text # NoText}
<1>7. PICK s \in shown : /\ pc \in PcsOf(rec.statements[s]) /\ at[pc] = b.at.locations[s]
  <2>1. at = [p \in UNION {PcsOf(rec.statements[t]) : t \in shown} |->
                b.at.locations[CHOOSE t \in shown : p \in PcsOf(rec.statements[t])]]
    BY <1>2, <1>4 DEF pc_location
  <2> HIDE DEF shown
  <2>2. \E t \in shown : pc \in PcsOf(rec.statements[t])
    BY <1>3, <2>1
  <2>3. at[pc] = b.at.locations[CHOOSE t \in shown : pc \in PcsOf(rec.statements[t])]
    BY <1>3, <2>1
  <2> QED BY <2>2, <2>3
<1>8. s = CHOOSE t \in DOMAIN rec.statements : pc \in PcsOf(rec.statements[t])
  <2>1. \A t \in DOMAIN rec.statements : pc \in PcsOf(rec.statements[t]) => t = s
    BY <1>3, <1>7, StatementsAssumption
  <2>2. s \in DOMAIN rec.statements /\ pc \in PcsOf(rec.statements[s])
    BY <1>7
  <2> HIDE DEF shown
  <2> QED BY <2>1, <2>2
<1> DEFINE build == b.from
           chain == build.locations[s]
<1>9. /\ s \in DOMAIN build.locations /\ Pick(chain) # Nowhere
      /\ at[pc] = [name |-> stable_path(Pick(chain).path), line |-> Pick(chain).line]
  <2>1. s \in 1..Len(build.program) /\ b.at.locations[s] # Nowhere
    <3>1. rec.statements \in Seq(ToSet(rec.statements))
      BY <1>3, StatementsAssumption
    <3>2. DOMAIN rec.statements = 1..Len(rec.statements)
      BY <3>1
    <3> QED BY <1>6, <1>7, <3>2
  <2>2. s \in DOMAIN build.locations /\ Picked(build)[s] # Nowhere
    BY <1>6, <2>1 DEF Placed
  <2>3. Picked(build)[s] = Pick(chain)
    BY <2>2 DEF Picked
  <2>4. b.at.locations[s] = [name |-> stable_path(Picked(build)[s].path), line |-> Picked(build)[s].line]
    BY <1>6, <2>1, <2>2 DEF Placed
  <2> QED BY <1>7, <2>2, <2>3, <2>4
<1>10. PICK k \in DOMAIN chain :
         IsItsPlace(chain, k) /\ Pick(chain) = chain[k] /\ \A j \in DOMAIN chain : IsItsPlace(chain, j) => j = k
  BY <1>6, <1>9, PickIsItsPlace
<1>11. k = CHOOSE j \in DOMAIN chain :
             /\ ~chain[j].generated \/ (j = 1 /\ \A l \in DOMAIN chain : chain[l].generated)
             /\ \A l \in 1..(j - 1) : chain[l].generated
  BY <1>10 DEF IsItsPlace
<1>12. PICK name : name = stable_path(Pick(chain).path)
  OBVIOUS
<1>13. /\ name \in DOMAIN b.at.files /\ b.at.files[name].text = b.at.files[name].sha
       /\ texts[name] = b.at.files[name].text
  <2>1. at[pc].name = name
    BY <1>9, <1>12
  <2>2. name \in NamesUsed(build)
    <3>1. Picked(build)[s] = Pick(chain) /\ s \in DOMAIN Picked(build)
      BY <1>9 DEF Picked
    <3> QED BY <1>9, <1>12, <3>1 DEF NamesUsed, ToSet
  <2>3. b.at.files[name].text # NoText
    BY <1>7, <2>1
  <2>4. texts[name] = b.at.files[name].text
    BY <1>0, <1>1, <1>2, <1>3, <2>1 DEF IInv, ListingsHold, Interned
  <2> QED BY <1>5, <1>6, <2>2, <2>3, <2>4 DEF Untouched
<1>14. edits = 0 /\ NamesDistinct(build) => b.at.files[name].sha = built[Pick(chain).path]
  <2> SUFFICES ASSUME edits = 0, NamesDistinct(build) PROVE b.at.files[name].sha = built[Pick(chain).path]
    OBVIOUS
  <2>1. b.at.files[name].sha = built[FirstPath(build, name)]
    BY <1>5, <1>13 DEF IsBinding
  <2>2. PICK t \in DOMAIN build.locations :
          /\ Picked(build)[t] # Nowhere /\ FirstPath(build, name) = Picked(build)[t].path
          /\ stable_path(Picked(build)[t].path) = name
    BY <1>6, <1>9, <1>12, FirstPathHasTheName
  <2>3. Picked(build)[t].path = Pick(chain).path
    <3>1. Picked(build)[s] = Pick(chain) /\ s \in DOMAIN Picked(build) /\ t \in DOMAIN Picked(build)
      BY <1>9 DEF Picked
    <3> QED BY <1>9, <1>12, <2>2, <3>1 DEF NamesDistinct, ToSet
  <2> QED BY <2>1, <2>2, <2>3
<1>15. PICK place : place = chain[k]
  OBVIOUS
<1>16. /\ at[pc] = [name |-> stable_path(place.path), line |-> place.line] /\ at[pc].name = name
       /\ texts[name] = b.at.files[name].sha
       /\ edits = 0 /\ NamesDistinct(b.from) => texts[name] = built[place.path]
  <2>1. Pick(chain) = place
    BY <1>10, <1>15
  <2>2. at[pc] = [name |-> stable_path(place.path), line |-> place.line]
    BY <1>9, <2>1
  <2>3. at[pc].name = name
    BY <1>12, <2>1, <2>2
  <2>4. edits = 0 /\ NamesDistinct(b.from) => texts[name] = built[place.path]
    BY <1>13, <1>14, <2>1
  <2> HIDE DEF build, chain
  <2> QED BY <1>13, <2>2, <2>3, <2>4
<1> HIDE DEF shown
<1> QED BY <1>3, <1>6, <1>8, <1>11, <1>15, <1>16, Zenon DEF ShownRight

(* Whatever is shown in a Cairo file is where the compiler put it, in a    *)
(* build of what ran, with the text that was bound, or built.              *)
THEOREM ShownAtItsSource == Spec => []LocatedAtItsSource
<1>1. Spec => []IInv
  BY InitEstablishesInv, StepKeepsInv, PTL DEF Spec
<1> QED BY <1>1, InvImpliesLocated, PTL

-----------------------------------------------------------------------------
(***************************************************************************)
(* The listing.  The sweep and the listing are computed by recursions over *)
(* a count; the first lemmas say that there are such functions.            *)
(***************************************************************************)
LEMMA Induction ==
  ASSUME NEW S \in SUBSET Nat, 0 \in S, \A n \in S : n + 1 \in S
  PROVE  S = Nat
<1> SUFFICES ASSUME Nat \ S # {} PROVE FALSE
  OBVIOUS
<1>1. PICK n \in Nat \ S : \A m \in Nat \ S : n <= m
  BY NatMin
<1>2. n # 0 /\ n - 1 \in Nat /\ ~(n <= n - 1) /\ (n - 1) + 1 = n
  BY <1>1
<1>3. n - 1 \in S
  BY <1>1, <1>2
<1> QED
  BY <1>1, <1>2, <1>3

Recurses(f, N, S, base, step) == f \in [0..N -> S] /\ f[0] = base /\ \A n \in 1..N : f[n] = step[n][f[n - 1]]

LEMMA Recursion ==
  ASSUME NEW N \in Nat, NEW S, NEW base \in S, NEW step, step \in [1..N -> [S -> S]]
  PROVE  \E f : Recurses(f, N, S, base, step)
<1> DEFINE Upto(k) == \E f \in [0..k -> S] : f = [n \in 0..k |-> IF n = 0 THEN base ELSE step[n][f[n - 1]]]
           So == {k \in Nat : k <= N => Upto(k)}
<1>1. Upto(0)
  <2>1. [n \in 0..0 |-> base] \in [0..0 -> S]
    OBVIOUS
  <2>2. [n \in 0..0 |-> base] = [n \in 0..0 |-> IF n = 0 THEN base ELSE step[n][[m \in 0..0 |-> base][n - 1]]]
    OBVIOUS
  <2> QED
    BY <2>1, <2>2
<1>2. ASSUME NEW k \in Nat, k + 1 <= N, Upto(k)
      PROVE  Upto(k + 1)
  <2>1. PICK f \in [0..k -> S] : f = [n \in 0..k |-> IF n = 0 THEN base ELSE step[n][f[n - 1]]]
    BY <1>2
  <2> DEFINE g == [n \in 0..(k + 1) |-> IF n = k + 1 THEN step[n][f[k]] ELSE f[n]]
  <2>2. k + 1 \in 1..N /\ k \in 0..k /\ f[k] \in S
    BY <1>2, <2>1
  <2>3. step[k + 1][f[k]] \in S
    BY <2>2
  <2>4. g \in [0..(k + 1) -> S]
    <3>1. ASSUME NEW n \in 0..(k + 1) PROVE (IF n = k + 1 THEN step[n][f[k]] ELSE f[n]) \in S
      <4>1. CASE n = k + 1
        BY <2>3, <4>1
      <4>2. CASE n # k + 1
        <5>1. n \in 0..k
          BY <3>1, <4>2
        <5>2. f[n] \in S
          BY <2>1, <5>1
        <5> QED BY <4>2, <5>2
      <4> QED BY <4>1, <4>2
    <3> QED BY <3>1
  <2>5. ASSUME NEW n \in 0..(k + 1) PROVE g[n] = IF n = 0 THEN base ELSE step[n][g[n - 1]]
    <3>1. CASE n = k + 1
      <4>1. n # 0 /\ n - 1 = k /\ n - 1 \in 0..(k + 1) /\ n - 1 # k + 1
        BY <3>1
      <4>2. g[n - 1] = f[k] /\ g[n] = step[n][f[k]]
        BY <3>1, <4>1
      <4> QED BY <4>1, <4>2
    <3>2. CASE n # k + 1
      <4>1. n \in 0..k /\ (n # 0 => n - 1 \in 0..(k + 1) /\ n - 1 # k + 1)
        BY <2>5, <3>2
      <4>2. g[n] = f[n] /\ (n # 0 => g[n - 1] = f[n - 1])
        BY <3>2, <4>1
      <4>3. f[n] = IF n = 0 THEN base ELSE step[n][f[n - 1]]
        BY <2>1, <4>1
      <4> HIDE DEF g
      <4> QED BY <4>2, <4>3
    <3> QED BY <3>1, <3>2
  <2> HIDE DEF g
  <2>6. g = [n \in 0..(k + 1) |-> g[n]]
    BY <2>4
  <2>7. g = [n \in 0..(k + 1) |-> IF n = 0 THEN base ELSE step[n][g[n - 1]]]
    BY <2>5, <2>6
  <2> QED BY <2>4, <2>7
<1>3. So = Nat
  <2>1. 0 \in So
    BY <1>1
  <2>2. \A k \in So : k + 1 \in So
    <3> HIDE DEF Upto
    <3> QED BY <1>2
  <2>3. So \in SUBSET Nat
    OBVIOUS
  <2> HIDE DEF So
  <2> QED BY <2>1, <2>2, <2>3, Induction
<1>4. Upto(N)
  <2> HIDE DEF Upto
  <2> QED BY <1>3
<1>5. PICK f \in [0..N -> S] : f = [n \in 0..N |-> IF n = 0 THEN base ELSE step[n][f[n - 1]]]
  BY <1>4
<1>6. 0 \in 0..N /\ \A n \in 1..N : n \in 0..N /\ n # 0
  OBVIOUS
<1>7. \A n \in 0..N : f[n] = IF n = 0 THEN base ELSE step[n][f[n - 1]]
  BY <1>5, Zenon
<1> QED BY <1>5, <1>6, <1>7 DEF Recurses

SweptNext(rec, sw) ==
  IF sw.pc >= Len(rec.words) THEN sw
  ELSE [pc |-> sw.pc + (IF Word(rec, sw.pc).size = 2 THEN 2 ELSE 1), order |-> Append(sw.order, sw.pc)]

LEMMA SweepUnfolds ==
  ASSUME NEW rec \in Loaded
  PROVE  /\ Len(rec.words) \in Nat
         /\ \E swept : /\ Sweep(rec) = swept[Len(rec.words)].order
                       /\ swept[0] = [pc |-> 0, order |-> <<>>]
                       /\ \A n \in 1..Len(rec.words) : swept[n] = SweptNext(rec, swept[n - 1])
<1> DEFINE N == Len(rec.words)
           S == [pc : Nat, order : Seq(Nat)]
           base == [pc |-> 0, order |-> <<>>]
           step == [n \in 1..N |-> [sw \in S |-> SweptNext(rec, sw)]]
<1>1. N \in Nat
  BY WordsAssumption
<1>2. base \in S
  OBVIOUS
<1>3. step \in [1..N -> [S -> S]]
  <2>1. ASSUME NEW sw \in S PROVE SweptNext(rec, sw) \in S
    BY <1>1 DEF SweptNext
  <2> HIDE DEF S
  <2> QED BY <2>1
<1>4. PICK f : f \in [0..N -> S] /\ f[0] = base /\ \A n \in 1..N : f[n] = step[n][f[n - 1]]
  <2> HIDE DEF N, S, base, step
  <2>1. \E f : Recurses(f, N, S, base, step)
    BY <1>1, <1>2, <1>3, Recursion
  <2> QED BY <2>1 DEF Recurses
<1>5. ASSUME NEW n \in 0..N, n # 0 PROVE step[n][f[n - 1]] = SweptNext(rec, f[n - 1])
  <2>1. n \in 1..N /\ n - 1 \in 0..N
    BY <1>1, <1>5
  <2>2. f[n - 1] \in S
    BY <1>4, <2>1
  <2> HIDE DEF S
  <2> QED BY <2>1, <2>2
<1> HIDE DEF step, S
<1>6. f = [n \in 0..N |-> IF n = 0 THEN base ELSE SweptNext(rec, f[n - 1])]
  <2>1. ASSUME NEW n \in 0..N PROVE f[n] = IF n = 0 THEN base ELSE SweptNext(rec, f[n - 1])
    <3>1. n # 0 => n \in 1..N
      BY <1>1
    <3> HIDE DEF base
    <3> QED BY <1>4, <1>5, <3>1
  <2>2. f = [n \in 0..N |-> f[n]]
    BY <1>4
  <2> QED BY <2>1, <2>2
<1>7. \E g : g = [n \in 0..N |-> IF n = 0 THEN base ELSE SweptNext(rec, g[n - 1])]
  BY <1>6
<1> DEFINE h == CHOOSE g : g = [n \in 0..N |-> IF n = 0 THEN base ELSE SweptNext(rec, g[n - 1])]
<1>8. h = [n \in 0..N |-> IF n = 0 THEN base ELSE SweptNext(rec, h[n - 1])]
  BY <1>7
<1>9. Sweep(rec) = h[N].order
  BY DEF Sweep, SweptNext
<1> HIDE DEF h
<1>10. h[0] = base /\ \A n \in 1..N : h[n] = SweptNext(rec, h[n - 1])
  <2>1. 0 \in 0..N /\ \A n \in 1..N : n \in 0..N /\ n # 0
    BY <1>1
  <2>2. \A n \in 0..N : h[n] = IF n = 0 THEN base ELSE SweptNext(rec, h[n - 1])
    BY <1>8, Zenon
  <2> HIDE DEF base
  <2> QED BY <2>1, <2>2
<1> QED
  BY <1>1, <1>9, <1>10

(* How far the sweep is after n turns, and what it has passed by then.     *)
SweptSoFar(rec, n, sw) ==
  /\ sw.pc \in Nat /\ (sw.pc >= n \/ sw.pc >= Len(rec.words))
  /\ sw.order \in Seq(Nat)
  /\ \A i \in 1..Len(sw.order) : sw.order[i] < sw.pc /\ sw.order[i] < Len(rec.words)
  /\ \A i, j \in 1..Len(sw.order) : i < j => sw.order[i] < sw.order[j]
  /\ DataLast(rec) => \A x \in rec.starts :
       /\ x < sw.pc => \E i \in 1..Len(sw.order) : sw.order[i] = x
       /\ x >= sw.pc => sw.pc \in rec.starts

LEMMA SweepGoesOn ==
  ASSUME NEW rec \in Loaded, NEW n \in Nat, NEW sw, SweptSoFar(rec, n, sw)
  PROVE  SweptSoFar(rec, n + 1, SweptNext(rec, sw))
<1>1. /\ Len(rec.words) \in Nat
      /\ \A pc \in rec.starts : pc \in Nat /\ pc < Len(rec.words)
  BY WordsAssumption
<1>2. sw.pc \in Nat /\ sw.order \in Seq(Nat) /\ Len(sw.order) \in Nat
  BY DEF SweptSoFar
<1>3. CASE sw.pc >= Len(rec.words)
  <2>1. SweptNext(rec, sw) = sw
    BY <1>3 DEF SweptNext
  <2> QED
    BY <1>3, <2>1 DEF SweptSoFar
<1>4. CASE ~(sw.pc >= Len(rec.words))
  <2> DEFINE by == IF Word(rec, sw.pc).size = 2 THEN 2 ELSE 1
             order == Append(sw.order, sw.pc)
             to == [pc |-> sw.pc + by, order |-> order]
  <2>1. SweptNext(rec, sw) = to
    BY <1>4 DEF SweptNext
  <2>2. by \in 1..2
    OBVIOUS
  <2>3. order \in Seq(Nat) /\ Len(order) = Len(sw.order) + 1 /\ order[Len(sw.order) + 1] = sw.pc
        /\ \A i \in 1..Len(sw.order) : order[i] = sw.order[i]
    BY <1>2
  <2>4. to.pc = sw.pc + by /\ to.order = order
    OBVIOUS
  <2> HIDE DEF order, to
  <2>5. \A i \in 1..Len(order) : i \in 1..Len(sw.order) \/ i = Len(sw.order) + 1
    BY <1>2, <2>3
  <2>6. \A i \in 1..Len(sw.order) : sw.order[i] < sw.pc /\ sw.order[i] \in Nat
    BY <1>2 DEF SweptSoFar
  <2>7. ASSUME NEW i \in 1..Len(order) PROVE order[i] < sw.pc + by /\ order[i] < Len(rec.words)
    <3> HIDE DEF by
    <3>1. order[i] \in Nat /\ order[i] <= sw.pc
      <4>1. CASE i \in 1..Len(sw.order)
        <5>1. order[i] = sw.order[i]
          BY <2>3, <4>1
        <5>2. sw.order[i] < sw.pc /\ sw.order[i] \in Nat
          BY <2>6, <4>1
        <5> QED BY <1>2, <5>1, <5>2
      <4>2. CASE i = Len(sw.order) + 1
        BY <1>2, <2>3, <4>2
      <4> QED BY <2>5, <4>1, <4>2
    <3> QED BY <1>1, <1>2, <1>4, <2>2, <3>1
  <2>8. ASSUME NEW i \in 1..Len(order), NEW j \in 1..Len(order), i < j PROVE order[i] < order[j]
    <3>1. i \in 1..Len(sw.order)
      BY <1>2, <2>3, <2>5, <2>8
    <3>2. CASE j \in 1..Len(sw.order)
      BY <2>3, <2>8, <3>1, <3>2 DEF SweptSoFar
    <3>3. CASE j = Len(sw.order) + 1
      BY <2>3, <2>6, <3>1, <3>3
    <3> QED BY <2>5, <3>2, <3>3
  <2>9. ASSUME DataLast(rec), NEW x \in rec.starts
        PROVE  /\ x < sw.pc + by => \E i \in 1..Len(order) : order[i] = x
               /\ x >= sw.pc + by => sw.pc + by \in rec.starts
    <3>1. x \in Nat
      BY <1>1
    <3>2. x >= sw.pc => sw.pc \in rec.starts
      BY <2>9 DEF SweptSoFar
    <3>3. x > sw.pc => sw.pc + by \in rec.starts /\ x >= sw.pc + by
      <4> SUFFICES ASSUME x > sw.pc PROVE sw.pc + by \in rec.starts /\ x >= sw.pc + by
        OBVIOUS
      <4>1. sw.pc \in rec.starts
        BY <1>2, <3>1, <3>2
      <4>2. Word(rec, sw.pc).size \in 1..2
        <5>1. Decodes(rec, sw.pc) /\ sw.pc + 1 \in 1..Len(rec.words)
          BY <1>1, <1>2, <1>4, <4>1, WordsAssumption
        <5>2. Word(rec, sw.pc) \in ToSet(rec.words)
          BY <5>1, WordsAssumption DEF Word, ToSet
        <5>3. Word(rec, sw.pc).size \in 0..2
          BY <5>2, WordsAssumption
        <5> QED BY <5>1, <5>3 DEF Decodes
      <4>3. by = Word(rec, sw.pc).size
        BY <4>2
      <4>4. sw.pc + Word(rec, sw.pc).size \in rec.starts
        BY <2>9, <4>1 DEF DataLast
      <4>5. x >= sw.pc + Word(rec, sw.pc).size
        BY <4>1, WordsAssumption
      <4> QED BY <4>3, <4>4, <4>5
    <3>4. x < sw.pc => \E i \in 1..Len(sw.order) : sw.order[i] = x
      BY <2>9 DEF SweptSoFar
    <3>5. x < sw.pc => \E i \in 1..Len(order) : order[i] = x
      <4>1. 1..Len(sw.order) \subseteq 1..Len(order)
        BY <1>2, <2>3
      <4> QED BY <2>3, <3>4, <4>1
    <3>6. x = sw.pc => \E i \in 1..Len(order) : order[i] = x
      BY <1>2, <2>3
    <3> HIDE DEF by
    <3> QED BY <1>2, <2>2, <3>1, <3>3, <3>5, <3>6
  <2>10. sw.pc + by \in Nat /\ (sw.pc + by >= n + 1 \/ sw.pc + by >= Len(rec.words))
    <3>1. sw.pc >= n
      BY <1>4 DEF SweptSoFar
    <3> HIDE DEF by
    <3> QED BY <1>2, <2>2, <3>1
  <2> HIDE DEF by
  <2> QED
    BY <2>1, <2>3, <2>4, <2>7, <2>8, <2>9, <2>10 DEF SweptSoFar
<1> QED
  BY <1>3, <1>4

(* The sweep's offsets rise, and it meets every instruction if the data is *)
(* last.                                                                   *)
LEMMA SweepMeetsAll ==
  ASSUME NEW rec \in Loaded
  PROVE  /\ Sweep(rec) \in Seq(Nat)
         /\ \A i \in 1..Len(Sweep(rec)) : Sweep(rec)[i] < Len(rec.words)
         /\ \A i, j \in 1..Len(Sweep(rec)) : i < j => Sweep(rec)[i] < Sweep(rec)[j]
         /\ DataLast(rec) => \A pc \in rec.starts : \E i \in 1..Len(Sweep(rec)) : Sweep(rec)[i] = pc
<1> DEFINE N == Len(rec.words)
<1>1. N \in Nat
  BY SweepUnfolds
<1>2. PICK swept : /\ Sweep(rec) = swept[N].order
                   /\ swept[0] = [pc |-> 0, order |-> <<>>]
                   /\ \A n \in 1..N : swept[n] = SweptNext(rec, swept[n - 1])
  BY SweepUnfolds
<1> DEFINE So == {n \in Nat : n <= N => SweptSoFar(rec, n, swept[n])}
<1>3. SweptSoFar(rec, 0, swept[0])
  <2>1. swept[0].pc = 0 /\ swept[0].order = <<>> /\ Len(<<>>) = 0 /\ <<>> \in Seq(Nat)
    BY <1>2
  <2>2. DataLast(rec) => \A x \in rec.starts : 0 \in rec.starts /\ x \in Nat
    BY WordsAssumption DEF DataLast
  <2> QED BY <2>1, <2>2 DEF SweptSoFar
<1>4. ASSUME NEW n \in Nat, n + 1 <= N, SweptSoFar(rec, n, swept[n])
      PROVE  SweptSoFar(rec, n + 1, swept[n + 1])
  <2>1. n + 1 \in 1..N /\ (n + 1) - 1 = n
    BY <1>4
  <2>2. swept[n + 1] = SweptNext(rec, swept[n])
    BY <1>2, <2>1
  <2> QED BY <1>4, <2>2, SweepGoesOn
<1>5. So = Nat
  <2>1. 0 \in So
    BY <1>3
  <2>2. \A n \in So : n + 1 \in So
    BY <1>1, <1>4
  <2>3. So \in SUBSET Nat
    OBVIOUS
  <2> HIDE DEF So
  <2> QED BY <2>1, <2>2, <2>3, Induction
<1>6. SweptSoFar(rec, N, swept[N])
  <2>1. N \in So
    <3> HIDE DEF So
    <3> QED BY <1>1, <1>5
  <2> QED BY <1>1, <2>1
<1>7. swept[N].pc \in Nat /\ swept[N].pc >= N
  BY <1>1, <1>6 DEF SweptSoFar
<1>8. \A pc \in rec.starts : pc \in Nat /\ pc < N
  BY WordsAssumption
<1>9. \A pc \in rec.starts : pc < swept[N].pc
  BY <1>1, <1>7, <1>8
<1> QED
  BY <1>2, <1>6, <1>9 DEF SweptSoFar

-----------------------------------------------------------------------------
LEMMA Joined ==
  ASSUME NEW S, NEW s \in Seq(S), NEW t \in Seq(S)
  PROVE  /\ s \o t \in Seq(S) /\ Len(s \o t) = Len(s) + Len(t)
         /\ Len(s) \in Nat /\ Len(t) \in Nat
         /\ \A i \in 1..Len(s) : (s \o t)[i] = s[i]
         /\ \A i \in 1..Len(t) : (s \o t)[Len(s) + i] = t[i]
<1>1. /\ s \o t \in Seq(S) /\ Len(s \o t) = Len(s) + Len(t)
      /\ Len(s) \in Nat /\ Len(t) \in Nat
  OBVIOUS
<1>2. \A i \in 1..Len(s) : (s \o t)[i] = s[i]
  OBVIOUS
<1>3. ASSUME NEW i \in 1..Len(t) PROVE (s \o t)[Len(s) + i] = t[i]
  BY <1>1
<1> QED BY <1>1, <1>2, <1>3

(* The lines of an offset: its labels, all of them at it, and the offset.  *)
Kinds == {"entry", "function", "sierra", "instruction", "data"}
Line == [is : Kinds, pc : Nat]

LEMMA LabelsAre ==
  ASSUME NEW rec \in Loaded, NEW b, NEW pc
  PROVE  LET labels == Labels(rec, b, pc) IN
         /\ labels \in Seq(Kinds)
         /\ pc \in rec.points => \E i \in 1..Len(labels) : labels[i] = "entry"
         /\ pc \in Functions(rec, b) => \E i \in 1..Len(labels) : labels[i] = "function"
<1> DEFINE There == {s \in DOMAIN rec.statements : rec.statements[s].start = pc /\ rec.statements[s].end > pc}
           entries == IF pc \in rec.points THEN <<"entry">> ELSE <<>>
           functions == IF pc \in Functions(rec, b) THEN <<"function">> ELSE <<>>
           ranges == [i \in 1..Cardinality(There) |-> "sierra"]
<1>1. Cardinality(There) \in Nat
  <2>1. rec.statements \in Seq(ToSet(rec.statements))
    BY StatementsAssumption
  <2>2. Len(rec.statements) \in Nat /\ DOMAIN rec.statements = 1..Len(rec.statements)
    BY <2>1
  <2>3. IsFiniteSet(1..Len(rec.statements))
    BY <2>2, FS_Interval
  <2>4. There \subseteq 1..Len(rec.statements)
    BY <2>2
  <2> HIDE DEF There
  <2> QED BY <2>3, <2>4, FS_Subset, FS_CardinalityType
<1> HIDE DEF There
<1>2. entries \in Seq(Kinds) /\ functions \in Seq(Kinds)
  <2>1. <<>> \in Seq(Kinds) /\ <<"entry">> \in Seq(Kinds) /\ <<"function">> \in Seq(Kinds)
    BY DEF Kinds
  <2> QED BY <2>1
<1>3. ranges \in Seq(Kinds) /\ Len(ranges) = Cardinality(There)
  BY <1>1 DEF Kinds
<1>4. pc \in rec.points => Len(entries) = 1 /\ entries[1] = "entry"
  OBVIOUS
<1>5. pc \in Functions(rec, b) => Len(functions) = 1 /\ functions[1] = "function"
  OBVIOUS
<1>6. Labels(rec, b, pc) = (entries \o functions) \o ranges
  BY DEF Labels, There
<1> HIDE DEF entries, functions, ranges
<1> DEFINE marks == entries \o functions
           labels == marks \o ranges
<1>7. /\ marks \in Seq(Kinds) /\ Len(marks) = Len(entries) + Len(functions)
      /\ Len(entries) \in Nat /\ Len(functions) \in Nat
      /\ \A i \in 1..Len(entries) : marks[i] = entries[i]
      /\ \A i \in 1..Len(functions) : marks[Len(entries) + i] = functions[i]
  BY <1>2, Joined
<1> HIDE DEF marks
<1>8. /\ labels \in Seq(Kinds) /\ Len(labels) = Len(marks) + Len(ranges) /\ Len(ranges) \in Nat
      /\ \A i \in 1..Len(marks) : labels[i] = marks[i]
  BY <1>3, <1>7, Joined
<1> HIDE DEF labels
<1>9. ASSUME NEW i \in 1..Len(marks) PROVE i \in 1..Len(labels) /\ labels[i] = marks[i]
  BY <1>7, <1>8
<1>10. pc \in rec.points => \E i \in 1..Len(labels) : labels[i] = "entry"
  <2> SUFFICES ASSUME pc \in rec.points PROVE \E i \in 1..Len(labels) : labels[i] = "entry"
    OBVIOUS
  <2>1. 1 \in 1..Len(marks) /\ marks[1] = "entry"
    BY <1>4, <1>7
  <2> QED BY <1>9, <2>1
<1>11. pc \in Functions(rec, b) => \E i \in 1..Len(labels) : labels[i] = "function"
  <2> SUFFICES ASSUME pc \in Functions(rec, b) PROVE \E i \in 1..Len(labels) : labels[i] = "function"
    OBVIOUS
  <2>1. Len(functions) = 1 /\ functions[1] = "function" /\ 1 \in 1..Len(functions)
    BY <1>5
  <2>2. Len(entries) + 1 \in 1..Len(marks)
    BY <1>7, <2>1
  <2>3. marks[Len(entries) + 1] = "function"
    BY <1>7, <2>1
  <2> QED BY <1>9, <2>2, <2>3
<1> QED BY <1>6, <1>8, <1>10, <1>11 DEF labels, marks

LEMMA LinesAre ==
  ASSUME NEW rec \in Loaded, NEW b, NEW pc \in Nat
  PROVE  LET labels == Labels(rec, b, pc)
             lines == LinesAt(rec, b, pc)
         IN  /\ labels \in Seq(Kinds) /\ lines \in Seq(Line)
             /\ Len(lines) = Len(labels) + 1
             /\ \A i \in 1..Len(lines) : lines[i].pc = pc
             /\ \A i \in 1..Len(labels) : lines[i] = [is |-> labels[i], pc |-> pc]
             /\ lines[Len(labels) + 1] = [is |-> IF Decodes(rec, pc) THEN "instruction" ELSE "data", pc |-> pc]
<1> DEFINE labels == Labels(rec, b, pc)
           above == [i \in DOMAIN labels |-> [is |-> labels[i], pc |-> pc]]
           own == [is |-> IF Decodes(rec, pc) THEN "instruction" ELSE "data", pc |-> pc]
<1>1. labels \in Seq(Kinds) /\ Len(labels) \in Nat /\ DOMAIN labels = 1..Len(labels)
  BY LabelsAre
<1> HIDE DEF labels
<1>2. \A i \in 1..Len(labels) : labels[i] \in Kinds
  BY <1>1
<1>3. above \in Seq(Line) /\ Len(above) = Len(labels)
      /\ \A i \in 1..Len(labels) : above[i] = [is |-> labels[i], pc |-> pc]
  BY <1>1, <1>2 DEF Line
<1>4. own \in Line
  BY DEF Line, Kinds
<1>5. LinesAt(rec, b, pc) = above \o <<own>>
  BY DEF LinesAt, labels
<1> HIDE DEF above, own
<1>6. <<own>> \in Seq(Line) /\ Len(<<own>>) = 1 /\ <<own>>[1] = own
  BY <1>4
<1> DEFINE lines == above \o <<own>>
<1>7. /\ lines \in Seq(Line) /\ Len(lines) = Len(labels) + 1
      /\ \A i \in 1..Len(labels) : lines[i] = above[i]
      /\ lines[Len(labels) + 1] = own
  <2>1. /\ lines \in Seq(Line) /\ Len(lines) = Len(above) + 1
        /\ \A i \in 1..Len(above) : lines[i] = above[i]
        /\ \A i \in 1..1 : lines[Len(above) + i] = <<own>>[i]
    BY <1>3, <1>6, Joined
  <2> HIDE DEF lines
  <2>2. 1 \in 1..1
    OBVIOUS
  <2>3. lines[Len(above) + 1] = own
    BY <1>6, <2>1, <2>2
  <2> QED BY <1>3, <2>1, <2>3
<1> HIDE DEF lines
<1>8. \A i \in 1..Len(labels) : lines[i] = [is |-> labels[i], pc |-> pc]
  BY <1>3, <1>7
<1>9. ASSUME NEW i \in 1..Len(lines) PROVE lines[i].pc = pc
  <2>1. CASE i \in 1..Len(labels)
    <3>1. lines[i] = [is |-> labels[i], pc |-> pc]
      BY <1>8, <2>1
    <3> QED BY <3>1
  <2>2. CASE i = Len(labels) + 1
    BY <1>7, <2>2 DEF own
  <2> QED BY <1>1, <1>7, <2>1, <2>2
<1> QED
  BY <1>1, <1>5, <1>7, <1>8, <1>9 DEF labels, lines, own

(* Line l of a text shows the instruction at pc, right below its labels.   *)
ShowsAt(rec, b, text, pc, l) ==
  /\ l \in 1..Len(text)
  /\ text[l] = [is |-> IF Decodes(rec, pc) THEN "instruction" ELSE "data", pc |-> pc]
  /\ \A mark \in {"entry", "function"} :
       pc \in (IF mark = "entry" THEN rec.points ELSE Functions(rec, b)) =>
         \E k \in 1..(l - 1) : text[k] = [is |-> mark, pc |-> pc] /\ \A j \in k..l : text[j].pc = pc

LEMMA ShownBelow ==
  ASSUME NEW rec, NEW b, NEW pc, NEW l, NEW text \in Seq(Line), NEW more \in Seq(Line),
         ShowsAt(rec, b, text, pc, l)
  PROVE  ShowsAt(rec, b, text \o more, pc, l)
<1> DEFINE all == text \o more
<1>1. /\ Len(text) \in Nat /\ Len(more) \in Nat /\ Len(all) = Len(text) + Len(more)
      /\ \A i \in 1..Len(text) : all[i] = text[i]
  BY Joined
<1> HIDE DEF all
<1>2. l \in 1..Len(text) /\ l \in 1..Len(all)
  BY <1>1 DEF ShowsAt
<1>3. ASSUME NEW k \in 1..(l - 1)
      PROVE  k \in 1..Len(text) /\ \A j \in k..l : j \in 1..Len(text)
  BY <1>1, <1>2
<1>4. ASSUME NEW mark \in {"entry", "function"},
             pc \in (IF mark = "entry" THEN rec.points ELSE Functions(rec, b))
      PROVE  \E k \in 1..(l - 1) : all[k] = [is |-> mark, pc |-> pc] /\ \A j \in k..l : all[j].pc = pc
  <2>1. PICK k \in 1..(l - 1) : text[k] = [is |-> mark, pc |-> pc] /\ \A j \in k..l : text[j].pc = pc
    BY <1>4 DEF ShowsAt
  <2> QED BY <1>1, <1>3, <2>1
<1>5. all[l] = text[l]
  BY <1>1, <1>2
<1> QED BY <1>2, <1>4, <1>5 DEF ShowsAt, all

LEMMA ShownNow ==
  ASSUME NEW rec \in Loaded, NEW b, NEW pc \in Nat, NEW text \in Seq(Line)
  PROVE  ShowsAt(rec, b, text \o LinesAt(rec, b, pc), pc, Len(text) + Len(Labels(rec, b, pc)) + 1)
<1> DEFINE labels == Labels(rec, b, pc)
           lines == LinesAt(rec, b, pc)
           all == text \o lines
           l == Len(text) + Len(labels) + 1
<1>1. /\ labels \in Seq(Kinds) /\ lines \in Seq(Line) /\ Len(lines) = Len(labels) + 1
      /\ \A i \in 1..Len(lines) : lines[i].pc = pc
      /\ \A i \in 1..Len(labels) : lines[i] = [is |-> labels[i], pc |-> pc]
      /\ lines[Len(labels) + 1] = [is |-> IF Decodes(rec, pc) THEN "instruction" ELSE "data", pc |-> pc]
  BY LinesAre
<1>2. /\ pc \in rec.points => \E i \in 1..Len(labels) : labels[i] = "entry"
      /\ pc \in Functions(rec, b) => \E i \in 1..Len(labels) : labels[i] = "function"
  BY LabelsAre
<1> HIDE DEF labels, lines
<1>3. Len(labels) \in Nat /\ Len(text) \in Nat /\ Len(lines) \in Nat
  BY <1>1
<1>4. Len(all) = Len(text) + Len(lines) /\ \A i \in 1..Len(lines) : all[Len(text) + i] = lines[i]
  <2>1. lines \in Seq(Line)
    BY <1>1
  <2> QED BY <2>1, Joined
<1> HIDE DEF all
<1>5. l \in 1..Len(all) /\ Len(labels) + 1 \in 1..Len(lines) /\ l = Len(text) + (Len(labels) + 1)
  BY <1>1, <1>3, <1>4
<1>6. all[l] = lines[Len(labels) + 1]
  BY <1>4, <1>5
<1>7. ASSUME NEW mark, NEW i \in 1..Len(labels), labels[i] = mark
      PROVE  \E k \in 1..(l - 1) : all[k] = [is |-> mark, pc |-> pc] /\ \A j \in k..l : all[j].pc = pc
  <2> DEFINE k == Len(text) + i
  <2>1. k \in 1..(l - 1) /\ i \in 1..Len(lines)
    BY <1>1, <1>3, <1>7
  <2>2. all[k] = [is |-> mark, pc |-> pc]
    BY <1>1, <1>4, <1>7, <2>1
  <2>3. ASSUME NEW j \in k..l PROVE all[j].pc = pc
    <3>1. j - Len(text) \in 1..Len(lines) /\ j = Len(text) + (j - Len(text))
      BY <1>1, <1>3, <1>7, <2>3
    <3>2. all[j] = lines[j - Len(text)]
      BY <1>4, <3>1
    <3> QED BY <1>1, <3>1, <3>2
  <2> HIDE DEF k, l
  <2> QED BY <2>1, <2>2, <2>3
<1>8. ASSUME NEW mark \in {"entry", "function"},
             pc \in (IF mark = "entry" THEN rec.points ELSE Functions(rec, b))
      PROVE  \E k \in 1..(l - 1) : all[k] = [is |-> mark, pc |-> pc] /\ \A j \in k..l : all[j].pc = pc
  <2>1. PICK i \in 1..Len(labels) : labels[i] = mark
    BY <1>2, <1>8
  <2> HIDE DEF l
  <2> QED BY <1>7, <2>1
<1>9. ShowsAt(rec, b, all, pc, l)
  <2> HIDE DEF l
  <2> QED BY <1>1, <1>5, <1>6, <1>8 DEF ShowsAt
<1> QED BY <1>9 DEF all, lines, labels

(* One turn of the listing, and what a recursion over the turns makes.     *)
Blank == [line |-> 0, text |-> <<>>, pc_line |-> <<>>]

ListedNext(rec, b, pc, acc) ==
  LET line == CountLabels(acc.line, Labels(rec, b, pc)) + 1
  IN  [line |-> line, text |-> acc.text \o LinesAt(rec, b, pc),
       pc_line |-> [p \in DOMAIN acc.pc_line \cup {pc} |-> IF p = pc THEN line ELSE acc.pc_line[p]]]

Listings == [line : Nat, text : Seq(Line), pc_line : UNION {[D -> Nat] : D \in SUBSET Nat}]

LEMMA ListedNextIsOne ==
  ASSUME NEW rec \in Loaded, NEW b, NEW pc \in Nat, NEW acc \in Listings
  PROVE  /\ ListedNext(rec, b, pc, acc) \in Listings
         /\ ListedNext(rec, b, pc, acc).line = acc.line + Len(Labels(rec, b, pc)) + 1
         /\ ListedNext(rec, b, pc, acc).text = acc.text \o LinesAt(rec, b, pc)
         /\ pc \in DOMAIN ListedNext(rec, b, pc, acc).pc_line
         /\ ListedNext(rec, b, pc, acc).pc_line[pc] = acc.line + Len(Labels(rec, b, pc)) + 1
         /\ \A p \in DOMAIN acc.pc_line :
              /\ p \in DOMAIN ListedNext(rec, b, pc, acc).pc_line
              /\ p # pc => ListedNext(rec, b, pc, acc).pc_line[p] = acc.pc_line[p]
<1> DEFINE line == acc.line + Len(Labels(rec, b, pc)) + 1
           text == acc.text \o LinesAt(rec, b, pc)
           D == DOMAIN acc.pc_line
           pc_line == [p \in D \cup {pc} |-> IF p = pc THEN line ELSE acc.pc_line[p]]
           next == [line |-> line, text |-> text, pc_line |-> pc_line]
<1>1. ListedNext(rec, b, pc, acc) = next
  BY DEF ListedNext, CountLabels
<1>2. acc.line \in Nat /\ acc.text \in Seq(Line) /\ acc.pc_line \in UNION {[E -> Nat] : E \in SUBSET Nat}
  BY DEF Listings
<1>3. D \in SUBSET Nat /\ \A p \in D : acc.pc_line[p] \in Nat
  <2>1. PICK E \in SUBSET Nat : acc.pc_line \in [E -> Nat]
    BY <1>2
  <2> QED BY <2>1
<1>4. line \in Nat
  <2>1. Len(Labels(rec, b, pc)) \in Nat
    BY LinesAre
  <2> QED BY <1>2, <2>1
<1>5. text \in Seq(Line)
  <2>1. LinesAt(rec, b, pc) \in Seq(Line)
    BY LinesAre
  <2> QED BY <1>2, <2>1, Joined
<1> HIDE DEF D, line, text
<1>6. D \cup {pc} \in SUBSET Nat /\ pc_line \in [D \cup {pc} -> Nat]
  BY <1>3, <1>4 DEF D
<1>7. pc_line \in UNION {[E -> Nat] : E \in SUBSET Nat}
  BY <1>6
<1>8. pc \in DOMAIN pc_line /\ pc_line[pc] = line
  OBVIOUS
<1>9. \A p \in D : p \in DOMAIN pc_line /\ (p # pc => pc_line[p] = acc.pc_line[p])
  OBVIOUS
<1> HIDE DEF pc_line
<1>10. next \in Listings /\ next.line = line /\ next.text = text /\ next.pc_line = pc_line
  BY <1>4, <1>5, <1>7 DEF Listings
<1> HIDE DEF next
<1> QED BY <1>1, <1>8, <1>9, <1>10 DEF line, text, D

LEMMA ListingUnfolds ==
  ASSUME NEW rec \in Loaded, NEW b
  PROVE  \E upto : /\ Listing(rec, b) = upto[Len(Sweep(rec))]
                   /\ \A n \in 0..Len(Sweep(rec)) : upto[n] \in Listings
                   /\ upto[0] = Blank
                   /\ \A n \in 1..Len(Sweep(rec)) : upto[n] = ListedNext(rec, b, Sweep(rec)[n], upto[n - 1])
<1> DEFINE order == Sweep(rec)
           N == Len(order)
           step == [n \in 1..N |-> [acc \in Listings |-> ListedNext(rec, b, order[n], acc)]]
           IsUpto(g) == g = [n \in 0..N |-> IF n = 0 THEN Blank ELSE ListedNext(rec, b, order[n], g[n - 1])]
<1>1. order \in Seq(Nat) /\ N \in Nat /\ \A n \in 1..N : order[n] \in Nat
  BY SweepMeetsAll
<1> HIDE DEF order
<1>2. Blank \in Listings
  <2>1. <<>> \in Seq(Line)
    OBVIOUS
  <2>2. <<>> \in [{} -> Nat]
    OBVIOUS
  <2>3. <<>> \in UNION {[D -> Nat] : D \in SUBSET Nat}
    BY <2>2
  <2> QED BY <2>1, <2>3 DEF Blank, Listings
<1>3. step \in [1..N -> [Listings -> Listings]]
  <2>1. ASSUME NEW n \in 1..N, NEW acc \in Listings PROVE ListedNext(rec, b, order[n], acc) \in Listings
    BY <1>1, ListedNextIsOne
  <2> HIDE DEF N
  <2> QED BY <2>1
<1> HIDE DEF N
<1>4. PICK f : f \in [0..N -> Listings] /\ f[0] = Blank /\ \A n \in 1..N : f[n] = step[n][f[n - 1]]
  <2> HIDE DEF step
  <2>1. \E f : Recurses(f, N, Listings, Blank, step)
    BY <1>1, <1>2, <1>3, Recursion DEF N
  <2> QED BY <2>1 DEF Recurses
<1>5. ASSUME NEW n \in 1..N PROVE step[n][f[n - 1]] = ListedNext(rec, b, order[n], f[n - 1])
  <2>1. n - 1 \in 0..N
    BY <1>1 DEF N
  <2>2. f[n - 1] \in Listings
    BY <1>4, <2>1
  <2> QED BY <2>2
<1> HIDE DEF step
<1>6. IsUpto(f)
  <2>1. ASSUME NEW n \in 0..N PROVE f[n] = IF n = 0 THEN Blank ELSE ListedNext(rec, b, order[n], f[n - 1])
    <3>1. n # 0 => n \in 1..N
      BY <1>1 DEF N
    <3> QED BY <1>4, <1>5, <3>1
  <2>2. f = [n \in 0..N |-> f[n]]
    BY <1>4
  <2> QED BY <2>1, <2>2
<1> DEFINE h == CHOOSE g : IsUpto(g)
<1>7. IsUpto(h)
  <2> HIDE DEF IsUpto
  <2> QED BY <1>6
<1>8. Listing(rec, b) = h[N]
  BY DEF Listing, ListedNext, Blank, N, order
<1> HIDE DEF h
<1>9. \A n \in 0..N : h[n] = IF n = 0 THEN Blank ELSE ListedNext(rec, b, order[n], h[n - 1])
  BY <1>7, Zenon
<1>10. 0 \in 0..N /\ \A n \in 1..N : n \in 0..N /\ n # 0 /\ n - 1 \in 0..N
  BY <1>1 DEF N
<1>11. h[0] = Blank /\ \A n \in 1..N : h[n] = ListedNext(rec, b, order[n], h[n - 1])
  BY <1>9, <1>10
<1> DEFINE So == {n \in Nat : n <= N => h[n] \in Listings}
<1>12. So = Nat
  <2>1. 0 \in So
    BY <1>2, <1>11
  <2>2. ASSUME NEW n \in So PROVE n + 1 \in So
    <3>1. CASE n + 1 <= N
      <4>1. n + 1 \in 1..N /\ (n + 1) - 1 = n /\ n <= N
        BY <1>1, <2>2, <3>1 DEF N
      <4>2. h[n] \in Listings
        BY <2>2, <4>1
      <4>3. h[n + 1] = ListedNext(rec, b, order[n + 1], h[n])
        BY <1>11, <4>1
      <4>4. ListedNext(rec, b, order[n + 1], h[n]) \in Listings
        BY <1>1, <4>1, <4>2, ListedNextIsOne DEF N
      <4> QED BY <2>2, <4>3, <4>4
    <3>2. CASE ~(n + 1 <= N)
      BY <2>2, <3>2
    <3> QED BY <3>1, <3>2
  <2>3. So \in SUBSET Nat
    OBVIOUS
  <2> HIDE DEF So
  <2> QED BY <2>1, <2>2, <2>3, Induction
<1>13. \A n \in 0..N : h[n] \in Listings
  <2>1. \A n \in 0..N : n \in So /\ n <= N
    <3> HIDE DEF So
    <3> QED BY <1>1, <1>12 DEF N
  <2> QED BY <2>1
<1> QED BY <1>8, <1>11, <1>13 DEF N, order

(* What is listed after n turns: a line for each offset, the right one.    *)
ListedSoFar(rec, b, n, acc) ==
  /\ acc \in Listings /\ acc.line = Len(acc.text)
  /\ \A i \in 1..n :
       /\ Sweep(rec)[i] \in DOMAIN acc.pc_line
       /\ ShowsAt(rec, b, acc.text, Sweep(rec)[i], acc.pc_line[Sweep(rec)[i]])

LEMMA ListingGoesOn ==
  ASSUME NEW rec \in Loaded, NEW b, NEW n \in Nat, NEW acc, ListedSoFar(rec, b, n, acc),
         Sweep(rec)[n + 1] \in Nat
  PROVE  ListedSoFar(rec, b, n + 1, ListedNext(rec, b, Sweep(rec)[n + 1], acc))
<1> DEFINE pc == Sweep(rec)[n + 1]
           lines == LinesAt(rec, b, pc)
           next == ListedNext(rec, b, pc, acc)
           line == acc.line + Len(Labels(rec, b, pc)) + 1
<1>1. acc \in Listings /\ acc.line = Len(acc.text) /\ acc.text \in Seq(Line) /\ pc \in Nat
  BY DEF ListedSoFar, Listings
<1> HIDE DEF pc
<1>2. /\ next \in Listings /\ next.line = line /\ next.text = acc.text \o lines
      /\ pc \in DOMAIN next.pc_line /\ next.pc_line[pc] = line
      /\ \A p \in DOMAIN acc.pc_line :
           p \in DOMAIN next.pc_line /\ (p # pc => next.pc_line[p] = acc.pc_line[p])
  BY <1>1, ListedNextIsOne
<1> HIDE DEF next
<1>3. /\ lines \in Seq(Line) /\ Len(lines) = Len(Labels(rec, b, pc)) + 1
      /\ Len(Labels(rec, b, pc)) \in Nat
  <2>1. Labels(rec, b, pc) \in Seq(Kinds)
    BY LabelsAre
  <2>2. Len(Labels(rec, b, pc)) \in Nat
    BY <2>1
  <2>3. pc \in Nat
    BY <1>1
  <2>4. lines \in Seq(Line)
    BY <2>3, LinesAre
  <2>5. Len(lines) = Len(Labels(rec, b, pc)) + 1
    BY <2>3, LinesAre
  <2> HIDE DEF lines
  <2> QED BY <2>2, <2>4, <2>5
<1> HIDE DEF lines
<1>4. next.line = Len(next.text)
  <2>1. Len(acc.text \o lines) = Len(acc.text) + Len(lines) /\ Len(acc.text) \in Nat
    BY <1>1, <1>3, Joined
  <2> DEFINE above == Len(Labels(rec, b, pc))
             had == Len(acc.text)
  <2>2. acc.line = had /\ had \in Nat /\ above \in Nat /\ Len(lines) = above + 1
    BY <1>1, <1>3, <2>1
  <2> HIDE DEF above, had
  <2>3. acc.line + above + 1 = had + Len(lines)
    BY <2>2
  <2> QED BY <1>2, <2>1, <2>3 DEF above, had
<1>5. ShowsAt(rec, b, next.text, pc, next.pc_line[pc])
  <2>1. ShowsAt(rec, b, acc.text \o lines, pc, Len(acc.text) + Len(Labels(rec, b, pc)) + 1)
    BY <1>1, ShownNow DEF lines
  <2> QED BY <1>1, <1>2, <2>1
<1>6. ASSUME NEW i \in 1..(n + 1)
      PROVE  /\ Sweep(rec)[i] \in DOMAIN next.pc_line
             /\ ShowsAt(rec, b, next.text, Sweep(rec)[i], next.pc_line[Sweep(rec)[i]])
  <2>1. CASE Sweep(rec)[i] = pc
    BY <1>2, <1>5, <2>1
  <2>2. CASE Sweep(rec)[i] # pc
    <3>1. i # n + 1
      BY <2>2 DEF pc
    <3>2. i \in 1..n
      BY <1>6, <3>1
    <3>3. /\ Sweep(rec)[i] \in DOMAIN acc.pc_line
          /\ ShowsAt(rec, b, acc.text, Sweep(rec)[i], acc.pc_line[Sweep(rec)[i]])
      BY <3>2 DEF ListedSoFar
    <3>4. ShowsAt(rec, b, acc.text \o lines, Sweep(rec)[i], acc.pc_line[Sweep(rec)[i]])
      BY <1>1, <1>3, <3>3, ShownBelow
    <3> QED BY <1>2, <2>2, <3>3, <3>4
  <2> QED BY <2>1, <2>2
<1> QED BY <1>2, <1>4, <1>6 DEF ListedSoFar, next, pc

LEMMA ListingShowsAll ==
  ASSUME NEW rec \in Loaded, NEW b
  PROVE  ListedSoFar(rec, b, Len(Sweep(rec)), Listing(rec, b))
<1> DEFINE N == Len(Sweep(rec))
<1>1. N \in Nat /\ \A n \in 1..N : Sweep(rec)[n] \in Nat
  BY SweepMeetsAll
<1>2. PICK upto : /\ Listing(rec, b) = upto[N]
                  /\ \A n \in 0..N : upto[n] \in Listings
                  /\ upto[0] = Blank
                  /\ \A n \in 1..N : upto[n] = ListedNext(rec, b, Sweep(rec)[n], upto[n - 1])
  BY ListingUnfolds
<1> HIDE DEF N
<1> DEFINE So == {n \in Nat : n <= N => ListedSoFar(rec, b, n, upto[n])}
<1>3. ListedSoFar(rec, b, 0, upto[0])
  <2>1. 0 \in 0..N /\ upto[0].line = 0 /\ Len(upto[0].text) = 0
    BY <1>1, <1>2 DEF Blank
  <2> QED BY <1>2, <2>1 DEF ListedSoFar
<1>4. ASSUME NEW n \in Nat, n + 1 <= N, ListedSoFar(rec, b, n, upto[n])
      PROVE  ListedSoFar(rec, b, n + 1, upto[n + 1])
  <2>1. n + 1 \in 1..N /\ (n + 1) - 1 = n
    BY <1>1, <1>4
  <2>2. upto[n + 1] = ListedNext(rec, b, Sweep(rec)[n + 1], upto[n]) /\ Sweep(rec)[n + 1] \in Nat
    BY <1>1, <1>2, <2>1
  <2> QED BY <1>4, <2>2, ListingGoesOn
<1>5. So = Nat
  <2>1. 0 \in So
    BY <1>3
  <2>2. ASSUME NEW n \in So PROVE n + 1 \in So
    BY <1>1, <1>4, <2>2
  <2>3. So \in SUBSET Nat
    OBVIOUS
  <2> HIDE DEF So
  <2> QED BY <2>1, <2>2, <2>3, Induction
<1>6. N \in So
  <2> HIDE DEF So
  <2> QED BY <1>1, <1>5
<1> QED BY <1>1, <1>2, <1>6 DEF N

LEMMA InvImpliesOnItsInstruction == IInv => StepsOnItsInstruction
<1> SUFFICES ASSUME IInv, NEW i \in 1..listed, DataLast(ran[i]), NEW pc \in ran[i].starts
             PROVE  LET rec == ran[i]
                        shown == listings[rec.hash]
                        text == shown.listing.text
                        marked == [entry |-> rec.points, function |-> Functions(rec, shown.bound)]
                        line == line_of(rec, pc)
                    IN  /\ text[line] = [is |-> "instruction", pc |-> pc]
                        /\ \A mark \in DOMAIN marked :
                             pc \in marked[mark] =>
                               \E k \in 1..(line - 1) :
                                 text[k] = [is |-> mark, pc |-> pc] /\ \A j \in k..line : text[j].pc = pc
  BY DEF StepsOnItsInstruction
<1> DEFINE rec == ran[i]
           b == listings[rec.hash].bound
           listing == listings[rec.hash].listing
           marked == [entry |-> rec.points, function |-> Functions(rec, b)]
<1>1. rec \in Loaded
  <2>1. ran \in Seq(Loaded) /\ i \in 1..Len(ran)
    BY DEF IInv, RanDistinct
  <2> QED BY <2>1
<1>2. listing = Listing(rec, b)
  BY DEF IInv, ListingsHold
<1> HIDE DEF rec, b, listing
<1>3. ListedSoFar(rec, b, Len(Sweep(rec)), listing)
  BY <1>1, <1>2, ListingShowsAll
<1>4. PICK n \in 1..Len(Sweep(rec)) : Sweep(rec)[n] = pc
  BY <1>1, SweepMeetsAll DEF rec
<1>5. pc \in DOMAIN listing.pc_line /\ ShowsAt(rec, b, listing.text, pc, listing.pc_line[pc])
  BY <1>3, <1>4 DEF ListedSoFar
<1>6. line_of(rec, pc) = listing.pc_line[pc]
  BY <1>5 DEF line_of, listing
<1>7. Decodes(rec, pc)
  BY <1>1, WordsAssumption DEF rec
<1>8. DOMAIN marked = {"entry", "function"}
      /\ \A mark \in DOMAIN marked : marked[mark] = IF mark = "entry" THEN rec.points ELSE Functions(rec, b)
  OBVIOUS
<1> DEFINE line == listing.pc_line[pc]
<1>9. listing.text[line] = [is |-> "instruction", pc |-> pc]
  BY <1>5, <1>7 DEF ShowsAt
<1> HIDE DEF marked
<1>10. \A mark \in DOMAIN marked :
         pc \in marked[mark] =>
           \E k \in 1..(line - 1) :
             listing.text[k] = [is |-> mark, pc |-> pc] /\ \A j \in k..line : listing.text[j].pc = pc
  BY <1>5, <1>8 DEF ShowsAt
<1> QED BY <1>6, <1>9, <1>10 DEF rec, b, listing, marked

(* Every step is shown on its own instruction, right under its labels, for *)
(* any classes that end in their data.                                     *)
THEOREM StepsOnTheirInstructions == Spec => []StepsOnItsInstruction
<1>1. Spec => []IInv
  BY InitEstablishesInv, StepKeepsInv, PTL DEF Spec
<1> QED BY <1>1, InvImpliesOnItsInstruction, PTL

===============================================================================
