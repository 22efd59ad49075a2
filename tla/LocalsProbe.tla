----------------------------- MODULE LocalsProbe -----------------------------
(***************************************************************************)
(* The values of named locals, observed in a second, unoptimised run of    *)
(* the program (src/src/value_probe.rs).                                   *)
(*                                                                         *)
(* A function binds declarations to values: a call, a literal or an        *)
(* operation makes a value (a Sierra variable), and a `let x = y`, a `let` *)
(* of a parameter or an assignment binds x to the value y is bound to.     *)
(* The run executes these bindings in any order, some of them never, some  *)
(* often.  It consumes values, some of them not at all, each under the     *)
(* name the compiler gave the variable; the first one consumed under a     *)
(* declaration's name is that declaration's value.  Copies then spread the *)
(* values between their two sides until nothing changes, and the map kept  *)
(* at the end is keyed by name and line only.                              *)
(***************************************************************************)
EXTENDS Naturals, Sequences, SequencesExt

CONSTANT NoValue  \* a declaration nothing was observed of

ASSUME NoValueAssumption == NoValue \notin Nat

VARIABLES
  probed,   \* the bindings of the program and of its run, see below
  consumed, \* the declarations a value was consumed under
  by_decl,  \* the value of each declaration
  aliases,  \* the copies this round has yet to visit
  changed,  \* did this round of visits change anything?
  observed  \* the map kept: key -> value

probeVars == <<probed, consumed, by_decl, aliases, changed, observed>>

(***************************************************************************)
(* probed.decls[d] is a declaration's key, its name and line.              *)
(* probed.sites are the bindings the functions have, in branches or not:   *)
(* decl to a new value (from = 0), or to that of the declaration from; of  *)
(* the latter, only a `let x = y` of a local y is a copy to the probe.     *)
(* probed.events are the bindings the run executed, each of a site, to a   *)
(* value: a new one is numbered like the event that makes it, and that of  *)
(* a declaration is the value some earlier event bound it to.              *)
(***************************************************************************)
IsProbe(p) ==
  /\ p.decls \in Seq(ToSet(p.decls)) /\ p.sites \in Seq(ToSet(p.sites))
  /\ p.events \in Seq(ToSet(p.events))
  /\ \A i \in DOMAIN p.sites : LET s == p.sites[i] IN
       /\ s.decl \in DOMAIN p.decls /\ s.from \in DOMAIN p.decls \cup {0} /\ s.copy \in BOOLEAN
       /\ s.copy => s.from # 0
  /\ \A k \in DOMAIN p.events : LET e == p.events[k] IN
       /\ e.site \in DOMAIN p.sites
       /\ IF p.sites[e.site].from = 0 THEN e.value = k
          ELSE \E j \in 1..(k - 1) : /\ p.sites[p.events[j].site].decl = p.sites[e.site].from
                                     /\ p.events[j].value = e.value

Decls == DOMAIN probed.decls
Sites == DOMAIN probed.sites
Events == DOMAIN probed.events
Site(k) == probed.sites[probed.events[k].site]  \* the binding an event executes
Values == {k \in Events : Site(k).from = 0}

Held(d) == {probed.events[k].value : k \in {e \in Events : Site(e).decl = d}}

(* Declarations joined by bindings, however long the chain.                *)
JoinsBothSides(S, links) == \A i \in links : probed.sites[i].decl \in S <=> probed.sites[i].from \in S
Joined(d, links) == {e \in Decls : \A S \in SUBSET Decls : d \in S /\ JoinsBothSides(S, links) => e \in S}

Links == {i \in Sites : probed.sites[i].from # 0}

ProbeStart(p) ==
  /\ probed = p /\ consumed = {} /\ aliases = {} /\ changed = FALSE /\ observed = <<>>
  /\ by_decl = [d \in DOMAIN p.decls |-> NoValue]

-----------------------------------------------------------------------------
(* The compiler names a value after a declaration that bindings, executed  *)
(* or not, join to the one it was made for.                                *)
sierra_variable_names(v) == Joined(Site(v).decl, Links)

(* run_and_read_arguments: a value is consumed under such a name.          *)
Consume(v, d) ==
  /\ d \in sierra_variable_names(v)
  /\ consumed' = consumed \cup {d}
  /\ by_decl' = IF by_decl[d] = NoValue THEN [by_decl EXCEPT ![d] = v] ELSE by_decl
  /\ UNCHANGED <<probed, aliases, changed, observed>>

(* Every `let x = y` of a local, in branches taken and not.                *)
copy_bindings == {i \in Sites : probed.sites[i].copy}

(* Mutant: a round starts as if the last one had changed something.        *)
StartCopiesAgain ==
  /\ aliases' = copy_bindings /\ changed' = TRUE
  /\ UNCHANGED <<probed, consumed, by_decl, observed>>

(* The run is over: the rounds of visits begin.  The order the compiler    *)
(* lists the copies in is not known here: a round visits them in any.      *)
StartCopies ==
  /\ aliases' = copy_bindings /\ changed' = FALSE
  /\ UNCHANGED <<probed, consumed, by_decl, observed>>

(* Mutant: one direction only.                                             *)
SpreadForward(b) ==
  IF by_decl[b.decl] = NoValue THEN [by_decl EXCEPT ![b.decl] = by_decl[b.from]] ELSE by_decl

(* What a copy gives to whom.                                              *)
Spread(b) ==
  IF by_decl[b.decl] = NoValue THEN [by_decl EXCEPT ![b.decl] = by_decl[b.from]]
  ELSE IF by_decl[b.from] = NoValue THEN [by_decl EXCEPT ![b.from] = by_decl[b.decl]]
  ELSE by_decl

VisitAlias ==
  /\ \E i \in aliases : by_decl' = Spread(probed.sites[i]) /\ aliases' = aliases \ {i}
  /\ changed' = (changed \/ by_decl' # by_decl)
  /\ UNCHANGED <<probed, consumed, observed>>

RoundOver == aliases = {}

VisitAgain == RoundOver /\ changed /\ StartCopies

(* The keys; of declarations with one key, any one's value survives.       *)
Keys == {probed.decls[d] : d \in {e \in Decls : by_decl[e] # NoValue}}
CollectValues ==
  /\ RoundOver /\ ~changed
  /\ observed' \in {m \in [Keys -> Values] :
                      \A k \in Keys : \E d \in Decls : probed.decls[d] = k /\ by_decl[d] = m[k]}
  /\ UNCHANGED <<probed, consumed, by_decl, aliases, changed>>

-----------------------------------------------------------------------------
(* A declaration bound more than once; bindings that were not executed.    *)
Rebound(d) == \E k, l \in Events : k # l /\ Site(k).decl = d /\ Site(l).decl = d
Skipped == {i \in Links : \A k \in Events : probed.events[k].site # i}

(* Once the map is kept: every declaration joined by copies to one a value *)
(* was consumed under has a value.  A value only gets to a declaration     *)
(* along bindings: it is one that a declaration joined to it held.  It is  *)
(* one that a declaration of that very name and line held if, of all that  *)
(* is joined to these declarations, no binding was skipped and none was    *)
(* executed twice; where a branch was not taken, a `let x = y` in it gives *)
(* x the value of y all the same.  All this whatever the order the values  *)
(* were consumed in and the copies are visited in (value_probe.rs:119-152, *)
(* 231-257).                                                               *)
ValuesAreHeld ==
  observed # <<>> =>
    \A d \in Decls : LET key == probed.decls[d]
                        same == {e \in Decls : probed.decls[e] = key} IN
      /\ (consumed \cap Joined(d, copy_bindings) # {}) => key \in DOMAIN observed
      /\ key \in DOMAIN observed =>
           /\ \E e \in same : \E j \in Joined(e, Links) : observed[key] \in Held(j)
           /\ (\A e \in same : \A j \in Joined(e, Links) :
                  ~Rebound(j) /\ \A i \in Skipped : probed.sites[i].decl # j)
                => \E e \in same : observed[key] \in Held(e)
===============================================================================
