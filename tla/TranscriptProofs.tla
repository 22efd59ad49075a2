--------------------------- MODULE TranscriptProofs ---------------------------
(***************************************************************************)
(* What the transcript promises of the directory and of an offline run,    *)
(* for any requests, any answers of the node, any number of invocations    *)
(* and of processes that die.                                              *)
(***************************************************************************)
EXTENDS Transcript, FiniteSetTheorems, SequenceTheorems, WellFoundedInduction, TLAPS

(* A table of answers as the set of its entries.                           *)
Pairs(answers) == {<<r, answers[r]>> : r \in DOMAIN answers}

(* What the counters and the request are in each phase.                    *)
AtWork ==
  /\ phase # "writing" => filed = 0
  /\ phase = "writing" => filed <= Cardinality(DOMAIN transcript)
  /\ phase = "posting" => source = "network" /\ request \in Request

(* The answers of the run so far are the last ones of its log, and the     *)
(* node's.                                                                 *)
AnswersKept ==
  /\ phase # "idle" /\ source = "network" => Pairs(transcript) = LastAnswers(log)
  /\ Pairs(transcript) \subseteq given

(* The answers filed so far are in their files.                            *)
AnswersFiled ==
  phase = "writing" =>
    \A r \in DOMAIN transcript :
      FileOf(transcript, r) < filed => files[FileOf(transcript, r)] = transcript[r]

(* What the directory serves, while nobody writes to it: answers of the    *)
(* node, and all those of the run that wrote it.                           *)
DirectoryHolds ==
  /\ phase # "writing" /\ ~cut /\ Readable => Pairs(Served) \subseteq given
  /\ phase # "writing" /\ ~cut /\ recorded.source = "network" => Serves(LastAnswers(recorded.log))
  /\ index = NoFile => recorded.source = "none"

(* The same of the answers that an offline run read.                       *)
ReplayHolds ==
  source = "transcript" /\ ~cut =>
    /\ Pairs(replay) \subseteq given
    /\ phase # "idle" /\ recorded.source = "network" => Pairs(replay) = LastAnswers(recorded.log)

(* A run against the node gets the node's answers whatever the directory   *)
(* holds.                                                                  *)
LogGiven == source = "network" \/ ~cut => AnswersAreTheNodes

IInv ==
  /\ TypeOK
  /\ AtWork
  /\ AnswersKept
  /\ AnswersFiled
  /\ DirectoryHolds
  /\ ReplayHolds
  /\ LogGiven
  /\ ReplayReproduces

-----------------------------------------------------------------------------
(***************************************************************************)
(* The files of a transcript are numbered without gaps or collisions.      *)
(***************************************************************************)
LEMMA Numbering ==
  ASSUME NEW answers, DOMAIN answers \subseteq Request
  PROVE  /\ Cardinality(DOMAIN answers) \in Nat
         /\ Cardinality(Request) \in Nat
         /\ Cardinality(DOMAIN answers) <= Cardinality(Request)
         /\ \A r \in DOMAIN answers :
              /\ FileOf(answers, r) \in Nat
              /\ FileOf(answers, r) < Cardinality(DOMAIN answers)
         /\ \A q, r \in DOMAIN answers : FileOf(answers, q) = FileOf(answers, r) => q = r
<1> DEFINE D == DOMAIN answers
           Below(r) == {q \in D : q < r}
<1>0. \A r \in D : r \in Nat
  BY RequestAssumption
<1>1. /\ IsFiniteSet(D) /\ Cardinality(D) \in Nat
      /\ Cardinality(Request) \in Nat /\ Cardinality(D) <= Cardinality(Request)
  BY RequestAssumption, FS_Subset, FS_CardinalityType
<1>2. \A r \in D : FileOf(answers, r) = Cardinality(Below(r))
  BY DEF FileOf
<1>3. ASSUME NEW r \in D
      PROVE  /\ IsFiniteSet(Below(r)) /\ Cardinality(Below(r)) \in Nat
             /\ Cardinality(Below(r)) < Cardinality(D)
  <2>1. Below(r) \in SUBSET D /\ r \notin Below(r)
    <3>1. ~(r < r)
      BY <1>0
    <3> QED BY <3>1
  <2>2. IsFiniteSet(Below(r)) /\ Cardinality(Below(r)) \in Nat
        /\ Cardinality(Below(r)) <= Cardinality(D) /\ Cardinality(Below(r)) # Cardinality(D)
    BY <2>1, <1>1, <1>3, FS_Subset, FS_CardinalityType
  <2> QED BY <2>2, <1>1
<1>4. ASSUME NEW q \in D, NEW r \in D, q < r
      PROVE  Cardinality(Below(q)) < Cardinality(Below(r))
  <2>1. Below(q) \in SUBSET Below(r) /\ q \in Below(r) /\ q \notin Below(q)
    <3>1. ~(q < q) /\ \A p \in D : p < q => p < r
      BY <1>0, <1>4
    <3> QED BY <1>4, <3>1
  <2>2. Cardinality(Below(q)) <= Cardinality(Below(r)) /\ Cardinality(Below(q)) # Cardinality(Below(r))
    BY <2>1, <1>3, FS_Subset
  <2> QED BY <2>2, <1>3
<1>5. ASSUME NEW q \in D, NEW r \in D, Cardinality(Below(q)) = Cardinality(Below(r))
      PROVE  q = r
  <2>1. q \in Nat /\ r \in Nat
    BY <1>5, RequestAssumption
  <2>2. ~(q < r) /\ ~(r < q)
    BY <1>3, <1>4, <1>5
  <2> QED BY <2>1, <2>2
<1> QED BY <1>1, <1>2, <1>3, <1>5

(***************************************************************************)
(* Types and counters.                                                     *)
(***************************************************************************)
LEMMA InitHolds == Init => IInv
<1> SUFFICES ASSUME Init PROVE IInv
  OBVIOUS
<1>0. Cardinality(Request) \in Nat /\ DOMAIN Empty = {} /\ 0 \in FileNames
  BY RequestAssumption, FS_CardinalityType DEF Empty, FileNames
<1>1. TypeOK
  BY <1>0, RetriesAssumption DEF Init, TypeOK, Answer
<1>2. AtWork /\ AnswersKept /\ AnswersFiled /\ LogGiven
  BY <1>0 DEF Init, AtWork, AnswersKept, Pairs, AnswersFiled, LogGiven, AnswersAreTheNodes
<1>3. DirectoryHolds
  BY DEF Init, DirectoryHolds, Readable
<1>4. ReplayHolds /\ ReplayReproduces
  BY <1>0 DEF Init, ReplayHolds, ReplayReproduces, Pairs
<1> QED BY <1>1, <1>2, <1>3, <1>4 DEF IInv

LEMMA TypeStep == TypeOK /\ AtWork /\ [Next]_vars => TypeOK' /\ AtWork'
<1> SUFFICES ASSUME TypeOK, AtWork, [Next]_vars PROVE TypeOK' /\ AtWork'
  OBVIOUS
<1> USE DEF TypeOK, AtWork, runVars
<1>0. /\ Cardinality(Request) \in Nat /\ DOMAIN Empty = {} /\ 0 \in FileNames
      /\ Cardinality(DOMAIN transcript) \in Nat
      /\ Cardinality(DOMAIN transcript) <= Cardinality(Request)
  BY RequestAssumption, FS_CardinalityType, Numbering DEF Empty, FileNames
<1>1. ASSUME NEW from \in {"network", "transcript"}, Start(from) PROVE TypeOK' /\ AtWork'
  <2>1. from = "transcript" => DOMAIN Served \subseteq Request /\ \A r \in DOMAIN Served : Served[r] \in Answer
    BY <1>1 DEF Start, Readable, Served
  <2>2. /\ phase' = "asking" /\ source' = from /\ log' = <<>> /\ transcript' = Empty
        /\ replay' = IF from = "transcript" THEN Served ELSE Empty
        /\ runs' = runs + 1 /\ filed' = 0
        /\ UNCHANGED <<request, attempt, filed, files, index, recorded, given, cut, crashes>>
    BY <1>1 DEF Start
  <2>3. DOMAIN replay' \subseteq Request /\ \A r \in DOMAIN replay' : replay'[r] \in Answer
    BY <2>1, <2>2, <1>0
  <2> QED BY <2>2, <2>3, <1>0
<1>2. ASSUME NEW r \in Request, Ask(r) PROVE TypeOK' /\ AtWork'
  BY <1>2, RetriesAssumption DEF Ask
<1>3. ASSUME NEW r \in Request, Lookup(r) PROVE TypeOK' /\ AtWork'
  <2>1. Entry(r, IF r \in DOMAIN replay THEN replay[r] ELSE Unanswered) \in Log
    BY DEF Entry, Log
  <2>2. log' \in Seq(Log)
    BY <2>1, <1>3 DEF Lookup
  <2> QED BY <1>3, <2>2 DEF Lookup
<1>4. ASSUME NEW status \in Status, NEW body \in Body, Post(status, body) PROVE TypeOK' /\ AtWork'
  <2>1. CASE IsFinal(status, body)
    <3>1. request \in Request /\ source = "network" /\ phase = "posting"
      BY <1>4 DEF Post
    <3>2. CASE IsAnswer(status, body)
      <4>1. body \in Answer
        BY <3>2 DEF IsAnswer, Answer
      <4>2. Entry(request, body) \in Log
        BY <3>1, <4>1 DEF Entry, Log
      <4>3. log' = Append(log, Entry(request, body)) /\ transcript' = Record(request, body)
            /\ given' = given \cup {<<request, body>>}
        BY <1>4, <2>1, <3>2 DEF Post, EndCall
      <4>4. log' \in Seq(Log) /\ given' \subseteq Request \X Answer
        BY <4>1, <4>2, <4>3, <3>1
      <4>5. DOMAIN transcript' \subseteq Request /\ \A r \in DOMAIN transcript' : transcript'[r] \in Answer
        BY <4>1, <4>3, <3>1 DEF Record
      <4>6. /\ phase' = "asking" /\ request' = Unanswered /\ attempt' = 0
            /\ UNCHANGED <<runVars, filed>>
        BY <1>4, <2>1 DEF Post, EndCall
      <4> QED BY <3>1, <4>4, <4>5, <4>6, RetriesAssumption
    <3>3. CASE ~IsAnswer(status, body)
      <4>1. Entry(request, Unanswered) \in Log
        BY <3>1 DEF Entry, Log
      <4>2. log' = Append(log, Entry(request, Unanswered)) /\ UNCHANGED <<transcript, given>>
        BY <1>4, <2>1, <3>3 DEF Post, EndCall
      <4>3. log' \in Seq(Log)
        BY <4>1, <4>2
      <4>4. /\ phase' = "asking" /\ request' = Unanswered /\ attempt' = 0
            /\ UNCHANGED <<runVars, filed>>
        BY <1>4, <2>1 DEF Post, EndCall
      <4> QED BY <3>1, <4>2, <4>3, <4>4, RetriesAssumption
    <3> QED BY <3>2, <3>3
  <2>2. CASE ~IsFinal(status, body)
    <3>1. attempt # Retries
      BY <2>2 DEF IsFinal
    <3>2. attempt + 1 \in 0..Retries
      BY <3>1, RetriesAssumption
    <3> QED BY <1>4, <2>2, <3>2 DEF Post, Retry
  <2> QED BY <2>1, <2>2
<1>5. CASE Finish
  BY <1>5, <1>0 DEF Finish
<1>6. CASE WriteAnswer
  <2>1. filed < Cardinality(DOMAIN transcript) /\ filed \in Nat
    BY <1>6, <1>0 DEF WriteAnswer, AllFiled, FileNames
  <2>2. filed + 1 \in FileNames /\ filed + 1 <= Cardinality(DOMAIN transcript)
    BY <2>1, <1>0 DEF FileNames
  <2>3. files' \in [FileNames -> Answer \cup {NoFile, Torn}]
    BY <1>6 DEF WriteAnswer
  <2> QED BY <1>6, <2>2, <2>3 DEF WriteAnswer
<1>7. CASE WriteIndex
  <2>1. DOMAIN NewIndex \subseteq Request /\ \A r \in DOMAIN NewIndex : NewIndex[r] \in FileNames
    BY <1>0, Numbering DEF NewIndex, FileNames
  <2> QED BY <1>7, <2>1, <1>0 DEF WriteIndex
<1>8. ASSUME NEW torn \in BOOLEAN, Crash(torn) PROVE TypeOK' /\ AtWork'
  <2>1. files' \in [FileNames -> Answer \cup {NoFile, Torn}]
    BY <1>8 DEF Crash
  <2> QED BY <1>8, <2>1, <1>0, RetriesAssumption DEF Crash
<1>9. CASE UNCHANGED vars
  BY <1>9 DEF vars
<1> QED BY <1>1, <1>2, <1>3, <1>4, <1>5, <1>6, <1>7, <1>8, <1>9 DEF Next

-----------------------------------------------------------------------------
(***************************************************************************)
(* The last answers of a log.                                              *)
(***************************************************************************)
IsLast(entries, n) ==
  /\ n \in 1..Len(entries)
  /\ entries[n].outcome # Unanswered
  /\ \A k \in n + 1..Len(entries) :
       entries[k].request = entries[n].request => entries[k].outcome = Unanswered

LEMMA LastAnswersAre ==
  \A entries, p : p \in LastAnswers(entries) <=>
    \E n \in 1..Len(entries) : IsLast(entries, n) /\ p = <<entries[n].request, entries[n].outcome>>
BY DEF LastAnswers, IsLast

LEMMA NoAnswers == LastAnswers(<<>>) = {} /\ Pairs(Empty) = {}
BY DEF LastAnswers, Pairs, Empty

(* One more answer replaces what the log held for its request; a request   *)
(* without an answer replaces nothing.                                     *)
LEMMA OneMoreAnswer ==
  ASSUME NEW entries \in Seq(Log), NEW entry \in Log
  PROVE  LastAnswers(Append(entries, entry)) =
           IF entry.outcome = Unanswered THEN LastAnswers(entries)
           ELSE {p \in LastAnswers(entries) : p[1] # entry.request}
                  \cup {<<entry.request, entry.outcome>>}
<1> DEFINE longer == Append(entries, entry)
           N == Len(entries)
<1>1. /\ N \in Nat /\ Len(longer) = N + 1
      /\ \A n \in 1..N : longer[n] = entries[n]
      /\ longer[N + 1] = entry
  OBVIOUS
<1> HIDE DEF longer
<1>2. IsLast(longer, N + 1) <=> entry.outcome # Unanswered
  BY <1>1 DEF IsLast
<1>3. ASSUME NEW n \in 1..N
      PROVE  IsLast(longer, n) <=>
               /\ IsLast(entries, n)
               /\ entry.request = entries[n].request => entry.outcome = Unanswered
  <2>1. n + 1..Len(longer) = (n + 1..N) \cup {N + 1}
    BY <1>1
  <2>2. longer[n] = entries[n] /\ \A k \in n + 1..N : longer[k] = entries[k]
    BY <1>1
  <2> QED BY <1>1, <2>1, <2>2 DEF IsLast
<1>4. 1..Len(longer) = (1..N) \cup {N + 1}
  BY <1>1
<1>5. \A p : p \in LastAnswers(longer) <=>
        \/ entry.outcome # Unanswered /\ p = <<entry.request, entry.outcome>>
        \/ \E n \in 1..N : /\ IsLast(entries, n) /\ p = <<entries[n].request, entries[n].outcome>>
                           /\ entry.request = entries[n].request => entry.outcome = Unanswered
  BY <1>1, <1>2, <1>3, <1>4, LastAnswersAre
<1>6. \A p : p \in LastAnswers(entries) <=>
        \E n \in 1..N : IsLast(entries, n) /\ p = <<entries[n].request, entries[n].outcome>>
  BY LastAnswersAre
<1>7. CASE entry.outcome = Unanswered
  BY <1>5, <1>6, <1>7 DEF longer
<1>8. CASE entry.outcome # Unanswered
  <2>1. \A p : p \in LastAnswers(longer) <=>
          p = <<entry.request, entry.outcome>> \/ (p \in LastAnswers(entries) /\ p[1] # entry.request)
    <3>1. \A n \in 1..N : \A p : p = <<entries[n].request, entries[n].outcome>> => p[1] = entries[n].request
      OBVIOUS
    <3> QED BY <1>5, <1>6, <1>8, <3>1
  <2> QED BY <2>1, <1>8 DEF longer
<1> QED BY <1>7, <1>8

(* A table whose entries are the last answers of a log in which no request *)
(* has two outcomes gives every request of it its outcome.                 *)
Less == {p \in Nat \X Nat : p[1] < p[2]}

LEMMA LastOfThem ==
  ASSUME NEW N \in Nat, NEW S \in SUBSET (1..N), S # {}
  PROVE  \E x \in S : \A y \in S : y <= x
<1> DEFINE T == {N - x : x \in S}
<1>1. T \in SUBSET Nat /\ T # {}
  OBVIOUS
<1>2. IsWellFoundedOn(Less, Nat)
  BY NatLessThanWellFounded DEF Less, OpToRel
<1>3. PICK t \in T : \A u \in T : ~(<<u, t>> \in Less)
  BY <1>1, <1>2, WFMin
<1>4. \A u \in T : ~(u < t)
  BY <1>1, <1>3 DEF Less
<1>5. PICK x \in S : t = N - x
  BY <1>3
<1>6. \A y \in S : ~(N - y < N - x)
  BY <1>4, <1>5
<1> QED BY <1>6

LEMMA TableOfALog ==
  ASSUME NEW entries \in Seq(Log), Consistent(entries), NEW n \in 1..Len(entries),
         NEW answers, Pairs(answers) = LastAnswers(entries)
  PROVE  LET r == entries[n].request
         IN entries[n].outcome = IF r \in DOMAIN answers THEN answers[r] ELSE Unanswered
<1> DEFINE r == entries[n].request
           Of == {k \in 1..Len(entries) : entries[k].request = r}
<1>1. \A k \in Of : entries[k] = entries[n]
  BY DEF Consistent
<1>2. CASE r \in DOMAIN answers
  <2>1. <<r, answers[r]>> \in LastAnswers(entries)
    BY <1>2 DEF Pairs
  <2>2. PICK k \in 1..Len(entries) : <<r, answers[r]>> = <<entries[k].request, entries[k].outcome>>
    BY <2>1, LastAnswersAre
  <2>3. k \in Of /\ entries[k].outcome = answers[r]
    BY <2>2
  <2> QED BY <1>1, <1>2, <2>3
<1>3. CASE r \notin DOMAIN answers
  <2>1. SUFFICES ASSUME entries[n].outcome # Unanswered PROVE FALSE
    BY <1>3
  <2>2. n \in Of /\ Len(entries) \in Nat
    OBVIOUS
  <2>3. PICK k \in Of : \A j \in Of : j <= k
    BY <2>2, LastOfThem
  <2>4. IsLast(entries, k)
    BY <1>1, <2>1, <2>3 DEF IsLast
  <2>5. <<r, entries[k].outcome>> \in Pairs(answers)
    BY <2>3, <2>4, LastAnswersAre
  <2>6. r \in DOMAIN answers
    BY <2>5 DEF Pairs
  <2> QED BY <1>3, <2>6
<1> QED BY <1>2, <1>3

-----------------------------------------------------------------------------
(***************************************************************************)
(* The answers recorded, and the log.                                      *)
(***************************************************************************)
LEMMA KeptStep == TypeOK /\ AtWork /\ AnswersKept /\ [Next]_vars => AnswersKept'
<1> SUFFICES ASSUME TypeOK, AtWork, AnswersKept, [Next]_vars PROVE AnswersKept'
  OBVIOUS
<1> USE DEF AnswersKept, runVars
<1>1. ASSUME NEW from \in {"network", "transcript"}, Start(from) PROVE AnswersKept'
  <2>1. Pairs(transcript') = {} /\ LastAnswers(log') = {}
    BY <1>1, NoAnswers DEF Start
  <2>2. Pairs(transcript)' = {} /\ LastAnswers(log)' = {}
    BY <2>1 DEF Pairs, LastAnswers
  <2> QED BY <2>2
<1>2. ASSUME NEW r \in Request, Ask(r) PROVE AnswersKept'
  BY <1>2 DEF Ask, Pairs, LastAnswers
<1>3. ASSUME NEW r \in Request, Lookup(r) PROVE AnswersKept'
  <2>1. source' = "transcript" /\ UNCHANGED <<transcript, given>>
    BY <1>3 DEF Lookup
  <2> QED BY <2>1 DEF Pairs
<1>4. ASSUME NEW status \in Status, NEW body \in Body, Post(status, body) PROVE AnswersKept'
  <2>1. request \in Request /\ source = "network" /\ phase = "posting" /\ source' = source
    BY <1>4 DEF Post, AtWork
  <2>2. CASE ~IsFinal(status, body)
    BY <1>4, <2>2, <2>1 DEF Post, Retry, Pairs, LastAnswers
  <2>3. CASE IsFinal(status, body) /\ ~IsAnswer(status, body)
    <3>1. log' = Append(log, Entry(request, Unanswered)) /\ UNCHANGED <<transcript, given>>
      BY <1>4, <2>3 DEF Post, EndCall
    <3>2. Entry(request, Unanswered) \in Log /\ Entry(request, Unanswered).outcome = Unanswered
      BY <2>1 DEF Entry, Log
    <3>3. LastAnswers(log') = LastAnswers(log)
      BY <3>1, <3>2, OneMoreAnswer DEF TypeOK
    <3>4. LastAnswers(log)' = LastAnswers(log) /\ Pairs(transcript)' = Pairs(transcript)
      BY <3>1, <3>3 DEF LastAnswers, Pairs
    <3> QED BY <2>1, <3>1, <3>4
  <2>4. CASE IsFinal(status, body) /\ IsAnswer(status, body)
    <3>1. log' = Append(log, Entry(request, body)) /\ transcript' = Record(request, body)
          /\ given' = given \cup {<<request, body>>}
      BY <1>4, <2>4 DEF Post, EndCall
    <3>2. body \in Answer /\ body # Unanswered
      BY <2>4, AnswersAssumption DEF IsAnswer, Answer
    <3>3. /\ Entry(request, body) \in Log
          /\ Entry(request, body).outcome = body /\ Entry(request, body).request = request
      BY <2>1, <3>2 DEF Entry, Log
    <3>4. LastAnswers(log') = {p \in LastAnswers(log) : p[1] # request} \cup {<<request, body>>}
      BY <3>1, <3>2, <3>3, OneMoreAnswer DEF TypeOK
    <3>5. Pairs(transcript') = {p \in Pairs(transcript) : p[1] # request} \cup {<<request, body>>}
      <4>1. /\ DOMAIN transcript' = DOMAIN transcript \cup {request}
            /\ transcript'[request] = body
            /\ \A q \in DOMAIN transcript : q # request => transcript'[q] = transcript[q]
        BY <3>1 DEF Record
      <4>2. \A p : p \in Pairs(transcript') <=>
              p = <<request, body>> \/ (p \in Pairs(transcript) /\ p[1] # request)
        BY <4>1 DEF Pairs
      <4> QED BY <4>2
    <3>6. LastAnswers(log)' = LastAnswers(log') /\ Pairs(transcript)' = Pairs(transcript')
      BY DEF LastAnswers, Pairs
    <3>7. Pairs(transcript) = LastAnswers(log) /\ Pairs(transcript) \subseteq given
      BY <2>1
    <3> QED BY <3>1, <3>4, <3>5, <3>6, <3>7
  <2> QED BY <2>2, <2>3, <2>4
<1>5. CASE Finish \/ WriteAnswer
  BY <1>5 DEF Finish, WriteAnswer, Pairs, LastAnswers
<1>6. CASE WriteIndex
  BY <1>6 DEF WriteIndex, Pairs
<1>7. ASSUME NEW torn \in BOOLEAN, Crash(torn) PROVE AnswersKept'
  <2>1. phase' = "idle" /\ Pairs(transcript') = {} /\ given' = given
    BY <1>7, NoAnswers DEF Crash
  <2> QED BY <2>1 DEF Pairs
<1>8. CASE UNCHANGED vars
  BY <1>8 DEF vars, Pairs, LastAnswers
<1> QED BY <1>1, <1>2, <1>3, <1>4, <1>5, <1>6, <1>7, <1>8 DEF Next

LEMMA LogStep == TypeOK /\ AtWork /\ ReplayHolds /\ LogGiven /\ [Next]_vars => LogGiven'
<1> SUFFICES ASSUME TypeOK, AtWork, ReplayHolds, LogGiven, [Next]_vars PROVE LogGiven'
  OBVIOUS
<1> USE DEF LogGiven, AnswersAreTheNodes, runVars
<1>1. ASSUME NEW from \in {"network", "transcript"}, Start(from) PROVE LogGiven'
  BY <1>1 DEF Start
<1>2. ASSUME NEW r \in Request, Ask(r) PROVE LogGiven'
  BY <1>2 DEF Ask
<1>3. ASSUME NEW r \in Request, Lookup(r) PROVE LogGiven'
  <2> DEFINE entry == Entry(r, IF r \in DOMAIN replay THEN replay[r] ELSE Unanswered)
  <2>1. /\ source = "transcript" /\ log' = Append(log, entry)
        /\ UNCHANGED <<source, cut, given>>
    BY <1>3 DEF Lookup
  <2>2. ~cut /\ entry.outcome # Unanswered => <<entry.request, entry.outcome>> \in given
    BY <2>1 DEF ReplayHolds, Pairs, Entry
  <2> HIDE DEF entry
  <2>3. Len(log') = Len(log) + 1 /\ Len(log) \in Nat /\ log'[Len(log) + 1] = entry
        /\ \A n \in 1..Len(log) : log'[n] = log[n]
    BY <2>1 DEF TypeOK
  <2> QED BY <2>1, <2>2, <2>3
<1>4. ASSUME NEW status \in Status, NEW body \in Body, Post(status, body) PROVE LogGiven'
  <2>1. CASE ~IsFinal(status, body)
    BY <1>4, <2>1 DEF Post, Retry
  <2>2. CASE IsFinal(status, body)
    <3>1. PICK entry : /\ log' = Append(log, entry)
                       /\ entry.outcome # Unanswered => <<entry.request, entry.outcome>> \in given'
                       /\ given \subseteq given'
      <4>1. CASE IsAnswer(status, body)
        BY <1>4, <2>2, <4>1 DEF Post, EndCall, Entry
      <4>2. CASE ~IsAnswer(status, body)
        BY <1>4, <2>2, <4>2 DEF Post, EndCall, Entry
      <4> QED BY <4>1, <4>2
    <3>2. Len(log') = Len(log) + 1 /\ Len(log) \in Nat /\ log'[Len(log) + 1] = entry
          /\ \A n \in 1..Len(log) : log'[n] = log[n]
      BY <3>1 DEF TypeOK
    <3>3. source = "network" /\ source' = source
      BY <1>4 DEF Post, AtWork
    <3> QED BY <3>1, <3>2, <3>3
  <2> QED BY <2>1, <2>2
<1>5. CASE Finish \/ WriteAnswer
  BY <1>5 DEF Finish, WriteAnswer
<1>6. CASE WriteIndex
  BY <1>6 DEF WriteIndex, TypeOK
<1>7. ASSUME NEW torn \in BOOLEAN, Crash(torn) PROVE LogGiven'
  BY <1>7 DEF Crash
<1>8. CASE UNCHANGED vars
  BY <1>8 DEF vars
<1> QED BY <1>1, <1>2, <1>3, <1>4, <1>5, <1>6, <1>7, <1>8 DEF Next

-----------------------------------------------------------------------------
(***************************************************************************)
(* The directory.                                                          *)
(***************************************************************************)
LEMMA FiledStep == TypeOK /\ AtWork /\ AnswersFiled /\ [Next]_vars => AnswersFiled'
<1> SUFFICES ASSUME TypeOK, AtWork, AnswersFiled, [Next]_vars, phase' = "writing" PROVE AnswersFiled'
  BY DEF AnswersFiled
<1> USE DEF AnswersFiled, runVars
<1>0. /\ \A r \in DOMAIN transcript : FileOf(transcript, r) \in Nat
      /\ \A q, r \in DOMAIN transcript : FileOf(transcript, q) = FileOf(transcript, r) => q = r
  BY Numbering DEF TypeOK
<1>1. CASE Finish
  <2>1. filed' = 0 /\ transcript' = transcript
    BY <1>1 DEF Finish, AtWork
  <2> QED BY <2>1, <1>0 DEF FileOf
<1>2. CASE WriteAnswer
  <2>1. PICK r \in DOMAIN transcript :
          FileOf(transcript, r) = filed /\ files' = [files EXCEPT ![filed] = transcript[r]]
    BY <1>2 DEF WriteAnswer
  <2>2. /\ phase = "writing" /\ filed' = filed + 1 /\ transcript' = transcript /\ filed \in Nat
        /\ DOMAIN files = FileNames /\ filed \in FileNames
    BY <1>2 DEF WriteAnswer, TypeOK, FileNames
  <2>3. ASSUME NEW q \in DOMAIN transcript, FileOf(transcript, q) < filed'
        PROVE  files'[FileOf(transcript, q)] = transcript[q]
    <3>1. CASE FileOf(transcript, q) = filed
      <4>1. q = r
        BY <3>1, <2>1, <1>0
      <4> QED BY <4>1, <2>1, <2>2
    <3>2. CASE FileOf(transcript, q) # filed
      <4>1. FileOf(transcript, q) < filed
        BY <3>2, <2>2, <2>3, <1>0
      <4> QED BY <4>1, <3>2, <2>1, <2>2
    <3> QED BY <3>1, <3>2
  <2> QED BY <2>2, <2>3 DEF FileOf
<1>3. CASE UNCHANGED vars
  BY <1>3 DEF vars, FileOf
<1>4. /\ \A from \in {"network", "transcript"} : ~Start(from)
      /\ \A r \in Request : ~Ask(r) /\ ~Lookup(r)
      /\ \A status \in Status, body \in Body : ~Post(status, body)
      /\ ~WriteIndex
      /\ \A torn \in BOOLEAN : ~Crash(torn)
  BY DEF Start, Ask, Lookup, Post, EndCall, Retry, WriteIndex, Crash
<1> QED BY <1>1, <1>2, <1>3, <1>4 DEF Next

(* What the index written over the filed answers serves.                   *)
LEMMA FreshIndex ==
  ASSUME TypeOK, AtWork, AnswersFiled, WriteIndex
  PROVE  /\ Readable'
         /\ Pairs(Served)' = Pairs(transcript)
         /\ {<<r, Served[r]>> : r \in DOMAIN index}' = Pairs(transcript)
<1>1. /\ phase = "writing" /\ filed = Cardinality(DOMAIN transcript)
      /\ index' = NewIndex /\ files' = files
  BY DEF WriteIndex, AllFiled
<1>2. \A r \in DOMAIN transcript : files[FileOf(transcript, r)] = transcript[r]
  BY <1>1, Numbering DEF AnswersFiled, TypeOK
<1>3. \A r \in DOMAIN transcript : FileOf(transcript, r) \in FileNames /\ transcript[r] \in Answer
  BY Numbering DEF TypeOK, FileNames
<1>4. NewIndex \in [DOMAIN transcript -> FileNames] /\ DOMAIN transcript \in SUBSET Request
  BY <1>3 DEF NewIndex, TypeOK
<1>5. NewIndex \notin {NoFile, Torn}
  BY <1>4, MarkersAssumption DEF FileNames
<1>6. /\ DOMAIN index' = DOMAIN transcript
      /\ \A r \in DOMAIN transcript : index'[r] = FileOf(transcript, r) /\ files'[index'[r]] = transcript[r]
  BY <1>1, <1>2 DEF NewIndex
<1>7. Readable'
  BY <1>1, <1>3, <1>5, <1>6 DEF Readable
<1>8. /\ DOMAIN Served' = DOMAIN transcript
      /\ \A r \in DOMAIN transcript : Served'[r] = transcript[r]
  BY <1>6 DEF Served
<1> QED BY <1>6, <1>7, <1>8 DEF Pairs

LEMMA DirectoryStep ==
  TypeOK /\ AtWork /\ AnswersKept /\ AnswersFiled /\ DirectoryHolds /\ [Next]_vars => DirectoryHolds'
<1> SUFFICES ASSUME TypeOK, AtWork, AnswersKept, AnswersFiled, DirectoryHolds, [Next]_vars
             PROVE DirectoryHolds'
  OBVIOUS
<1> USE DEF DirectoryHolds, runVars
<1>1. ASSUME UNCHANGED <<files, index, recorded, cut>>, given \subseteq given',
             phase = "writing" => phase' = "writing"
      PROVE  DirectoryHolds'
  BY <1>1 DEF Readable, Served, Pairs, Serves, LastAnswers
<1>2. ASSUME NEW from \in {"network", "transcript"}, Start(from) PROVE DirectoryHolds'
  BY <1>1, <1>2 DEF Start
<1>3. ASSUME NEW r \in Request, Ask(r) \/ Lookup(r) PROVE DirectoryHolds'
  BY <1>1, <1>3 DEF Ask, Lookup
<1>4. ASSUME NEW status \in Status, NEW body \in Body, Post(status, body) PROVE DirectoryHolds'
  <2>1. given \subseteq given' /\ phase = "posting" /\ UNCHANGED runVars
    BY <1>4 DEF Post, EndCall, Retry
  <2> QED BY <1>1, <2>1
<1>5. CASE Finish
  BY <1>1, <1>5 DEF Finish
<1>6. CASE WriteAnswer
  BY <1>6 DEF WriteAnswer
<1>7. CASE WriteIndex
  <2>1. /\ recorded' = [source |-> source, log |-> log] /\ given' = given
        /\ phase = "writing" /\ index' = NewIndex
    BY <1>7 DEF WriteIndex
  <2>2. Pairs(Served)' \subseteq given'
    BY <1>7, <2>1, FreshIndex DEF AnswersKept
  <2>3. index' # NoFile
    BY <1>7, FreshIndex DEF Readable
  <2>4. ASSUME source = "network"
        PROVE  Serves(LastAnswers(recorded.log))'
    <3>1. LastAnswers(recorded.log)' = LastAnswers(log)
      BY <2>1 DEF LastAnswers
    <3>2. LastAnswers(log) = Pairs(transcript)
      BY <2>1, <2>4 DEF AnswersKept
    <3> QED BY <1>7, <3>1, <3>2, FreshIndex DEF Serves
  <2> QED BY <2>1, <2>2, <2>3, <2>4
<1>8. ASSUME NEW torn \in BOOLEAN, Crash(torn) PROVE DirectoryHolds'
  <2>1. CASE phase # "writing"
    BY <1>1, <1>8, <2>1 DEF Crash, TypeOK
  <2>2. CASE phase = "writing" /\ index # NoFile
    <3>1. cut' /\ recorded' = recorded /\ index' \in {index, Torn}
      BY <1>8, <2>2 DEF Crash
    <3> QED BY <2>2, <3>1, AnswersAssumption
  <2>3. CASE phase = "writing" /\ index = NoFile
    <3>1. recorded' = recorded /\ index' \in {NoFile, Torn} /\ recorded.source = "none"
      BY <1>8, <2>3 DEF Crash
    <3> QED BY <3>1 DEF Readable
  <2> QED BY <2>1, <2>2, <2>3
<1>9. CASE UNCHANGED vars
  BY <1>1, <1>9 DEF vars
<1> QED BY <1>2, <1>3, <1>4, <1>5, <1>6, <1>7, <1>8, <1>9 DEF Next

-----------------------------------------------------------------------------
(***************************************************************************)
(* The offline run.                                                        *)
(***************************************************************************)
LEMMA ReplayStep ==
  TypeOK /\ AtWork /\ AnswersKept /\ DirectoryHolds /\ ReplayHolds /\ [Next]_vars => ReplayHolds'
<1> SUFFICES ASSUME TypeOK, AtWork, AnswersKept, DirectoryHolds, ReplayHolds, [Next]_vars
             PROVE ReplayHolds'
  OBVIOUS
<1> USE DEF ReplayHolds, runVars
<1>1. ASSUME UNCHANGED <<source, replay, recorded, cut>>, given \subseteq given',
             phase = "idle" => phase' = "idle"
      PROVE  ReplayHolds'
  BY <1>1 DEF Pairs, LastAnswers
<1>2. ASSUME NEW from \in {"network", "transcript"}, Start(from) PROVE ReplayHolds'
  <2>1. SUFFICES ASSUME from = "transcript", ~cut PROVE ReplayHolds'
    BY <1>2 DEF Start
  <2>2. /\ phase = "idle" /\ Readable /\ replay' = Served
        /\ UNCHANGED <<recorded, given, cut>>
    BY <1>2, <2>1 DEF Start
  <2>3. Pairs(Served) \subseteq given
    BY <2>1, <2>2 DEF DirectoryHolds
  <2>4. Pairs(replay)' = Pairs(Served) /\ LastAnswers(recorded.log)' = LastAnswers(recorded.log)
    BY <2>2 DEF Pairs, LastAnswers
  <2>5. recorded.source = "network" => Pairs(Served) = LastAnswers(recorded.log)
    <3>1. DOMAIN Served = DOMAIN index
      BY DEF Served
    <3> QED BY <2>1, <2>2, <3>1 DEF DirectoryHolds, Serves, Pairs
  <2> QED BY <2>2, <2>3, <2>4, <2>5
<1>3. ASSUME NEW r \in Request, Ask(r) \/ Lookup(r) PROVE ReplayHolds'
  BY <1>1, <1>3 DEF Ask, Lookup
<1>4. ASSUME NEW status \in Status, NEW body \in Body, Post(status, body) PROVE ReplayHolds'
  <2>1. given \subseteq given' /\ phase = "posting" /\ UNCHANGED runVars
    BY <1>4 DEF Post, EndCall, Retry
  <2> QED BY <1>1, <2>1
<1>5. CASE Finish \/ WriteAnswer
  BY <1>1, <1>5 DEF Finish, WriteAnswer
<1>6. CASE WriteIndex
  <2>1. phase' = "idle" /\ cut' = (cut /\ source = "transcript") /\ UNCHANGED <<source, replay, given>>
    BY <1>6 DEF WriteIndex
  <2> QED BY <2>1 DEF Pairs
<1>7. ASSUME NEW torn \in BOOLEAN, Crash(torn) PROVE ReplayHolds'
  <2>1. phase' = "idle" /\ Pairs(replay') = {}
    BY <1>7, NoAnswers DEF Crash
  <2> QED BY <2>1 DEF Pairs
<1>8. CASE UNCHANGED vars
  BY <1>1, <1>8 DEF vars
<1> QED BY <1>2, <1>3, <1>4, <1>5, <1>6, <1>7, <1>8 DEF Next

LEMMA ReproducesStep ==
  TypeOK /\ AtWork /\ ReplayHolds /\ ReplayReproduces /\ [Next]_vars => ReplayReproduces'
<1> SUFFICES ASSUME TypeOK, AtWork, ReplayHolds, ReplayReproduces, [Next]_vars,
                    source' = "transcript", recorded'.source = "network",
                    phase' # "idle", ~cut', Consistent(recorded'.log)
             PROVE Reproduces'
  BY DEF ReplayReproduces, Consistent
<1> USE DEF runVars
<1>1. ASSUME UNCHANGED <<source, recorded, log, cut>>, phase # "idle" PROVE Reproduces'
  BY <1>1 DEF ReplayReproduces, Reproduces
<1>2. ASSUME NEW from \in {"network", "transcript"}, Start(from) PROVE Reproduces'
  BY <1>2 DEF Start, Reproduces
<1>3. ASSUME NEW r \in Request, Ask(r) PROVE Reproduces'
  BY <1>1, <1>3 DEF Ask
<1>4. ASSUME NEW r \in Request, Lookup(r) PROVE Reproduces'
  <2> DEFINE entry == Entry(r, IF r \in DOMAIN replay THEN replay[r] ELSE Unanswered)
             N == Len(log)
  <2>1. /\ source = "transcript" /\ log' = Append(log, entry) /\ phase = "asking"
        /\ UNCHANGED <<recorded, cut>> /\ MayAsk(r)
    BY <1>4 DEF Lookup
  <2>2. recorded.source = "network" /\ ~cut /\ Consistent(recorded.log)
    BY <2>1
  <2>3. Reproduces
    BY <2>1, <2>2 DEF ReplayReproduces
  <2>4. Repeats
    BY <2>1, <2>2, <2>3 DEF Repeats, Reproduces
  <2>5. /\ N + 1 \in 1..Len(recorded.log) /\ recorded.log[N + 1].request = r
        /\ N \in Nat /\ recorded.log \in Seq(Log) /\ Len(recorded.log) \in Nat
    BY <2>1, <2>4 DEF MayAsk, TypeOK
  <2>6. Pairs(replay) = LastAnswers(recorded.log)
    BY <2>1, <2>2 DEF ReplayHolds
  <2>7. recorded.log[N + 1].outcome = IF r \in DOMAIN replay THEN replay[r] ELSE Unanswered
    BY <2>2, <2>5, <2>6, TableOfALog
  <2>8. recorded.log[N + 1] \in Log
    BY <2>5
  <2>9. recorded.log[N + 1] = entry
    BY <2>5, <2>7, <2>8 DEF Log, Entry
  <2> HIDE DEF entry
  <2>10. Len(log') = N + 1 /\ log'[N + 1] = entry /\ \A n \in 1..N : log'[n] = log[n]
    BY <2>1 DEF TypeOK
  <2>11. \A n \in 1..(N + 1) : n <= Len(recorded.log) /\ log'[n] = recorded.log[n]
    BY <2>3, <2>5, <2>9, <2>10 DEF Reproduces
  <2> QED BY <2>1, <2>10, <2>11 DEF Reproduces
<1>5. ASSUME NEW status \in Status, NEW body \in Body, Post(status, body) PROVE Reproduces'
  BY <1>5 DEF Post, AtWork
<1>6. CASE Finish \/ WriteAnswer
  BY <1>1, <1>6 DEF Finish, WriteAnswer
<1>7. CASE WriteIndex
  BY <1>7 DEF WriteIndex
<1>8. ASSUME NEW torn \in BOOLEAN, Crash(torn) PROVE Reproduces'
  BY <1>8 DEF Crash
<1>9. CASE UNCHANGED vars
  BY <1>1, <1>9 DEF vars
<1> QED BY <1>2, <1>3, <1>4, <1>5, <1>6, <1>7, <1>8, <1>9 DEF Next

-----------------------------------------------------------------------------
LEMMA InvHolds == Spec => []IInv
<1>1. IInv /\ [Next]_vars => IInv'
  BY TypeStep, KeptStep, FiledStep, DirectoryStep, ReplayStep, LogStep, ReproducesStep DEF IInv
<1> QED BY InitHolds, <1>1, PTL DEF Spec

(* Every variable stays in its domain, and a call makes no more attempts   *)
(* than the retries allow (Rpc::answer).                                   *)
THEOREM TranscriptTypeCorrect == Spec => []TypeOK
<1>1. IInv => TypeOK
  BY DEF IInv
<1> QED BY <1>1, InvHolds, PTL

(* No request is ever served another's answer (transcript::read, Rpc::     *)
(* answer), unless a process died writing over an older transcript.        *)
THEOREM ServesAsAnswered == Spec => []ServedAsAnswered
<1>1. IInv => ServedAsAnswered
  BY DEF IInv, LogGiven, ServedAsAnswered
<1> QED BY <1>1, InvHolds, PTL

(* An offline run gets what the run it repeats got, refusals included      *)
(* (Rpc::answer, transcript::write, transcript::read).                     *)
THEOREM ReplayIsTheRun == Spec => []ReplayReproduces
<1>1. IInv => ReplayReproduces
  BY DEF IInv
<1> QED BY <1>1, InvHolds, PTL

(* What the directory serves after a run against the node is the last      *)
(* answer to each request it asked (transcript::write).                    *)
THEOREM DirectoryIsComplete == Spec => []HoldsEveryAnswer
<1>1. IInv => HoldsEveryAnswer
  BY DEF IInv, DirectoryHolds, HoldsEveryAnswer
<1> QED BY <1>1, InvHolds, PTL
==============================================================================
