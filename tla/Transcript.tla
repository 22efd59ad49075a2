------------------------------ MODULE Transcript ------------------------------
(***************************************************************************)
(* The JSON-RPC client (onchain/src/rpc.rs) and the transcript of a run's  *)
(* answers (onchain/src/transcript.rs), over several invocations of the    *)
(* tool (onchain/src/main.rs).                                             *)
(*                                                                         *)
(* An invocation asks the node, with retries, or serves every request from *)
(* the transcript directory; when its work ends, well or not, it writes    *)
(* the answers it recorded to the directory, one file per answer and the   *)
(* index last.  The process may die at any point.  The node is external:   *)
(* it may answer a request any way, and differently every time.            *)
(*                                                                         *)
(* Requests are numbered in the order of their canonical text, which is    *)
(* the order in which the files of their answers are numbered.             *)
(***************************************************************************)
EXTENDS Naturals, Sequences, FiniteSets

CONSTANTS
  Request,      \* method and parameters, as request_key writes them
  Results,      \* what the result member of an answer may hold
  Errors,       \* what its error member may hold
  Unanswered,   \* the outcome of a request that failed or was refused
  NoFile,       \* nothing is written under this name
  Torn,         \* what a process that dies while it writes a file leaves
  Retries,      \* attempts after the first
  MaxRuns,      \* bound: invocations
  MaxAsks,      \* bound: requests of an invocation
  MaxCrashes    \* bound: processes that die

ASSUME RequestAssumption == Request \subseteq Nat /\ IsFiniteSet(Request)
ASSUME RetriesAssumption == Retries \in Nat
ASSUME AnswersAssumption ==
  /\ Results \cap Errors = {}
  /\ {Unanswered, NoFile, Torn} \cap (Results \cup Errors) = {}
  /\ NoFile # Torn
(* What reads as an index is one. *)
ASSUME MarkersAssumption ==
  \A S \in SUBSET Request : {NoFile, Torn} \cap [S -> 0..Cardinality(Request)] = {}

VARIABLES
  phase,        \* what the process does: "idle" between invocations
  source,       \* Rpc.replay: are requests sent to the "network" or looked up?
  replay,       \* Rpc.replay: the answers a replaying run looks up
  transcript,   \* Rpc.transcript: the answers recorded so far
  request,      \* the request that is being sent
  attempt,      \* the attempt it is at
  filed,        \* answers written to the directory so far
  files, index, \* the directory: answers/ and index.json
  log,          \* the requests of this run with their outcomes, in order
  recorded,     \* the run that wrote the index: its source and its log
  given,        \* every answer the node ever gave, with its request
  cut,          \* a process died writing over a transcript, and no run against
                \* the node has written it anew
  runs, crashes \* counts of the bounds

vars == <<phase, source, replay, transcript, request, attempt, filed, files,
          index, log, recorded, given, cut, runs, crashes>>

runVars == <<source, replay, recorded, runs, crashes, cut, files, index>>

Answer == Results \cup Errors
Empty == [r \in {} |-> NoFile]

(* The k-th request of a transcript has its answer in the k-th file. *)
FileOf(answers, r) == Cardinality({q \in DOMAIN answers : q < r})
FileNames == 0..Cardinality(Request)

-----------------------------------------------------------------------------
(***************************************************************************)
(* Rpc::answer.                                                            *)
(***************************************************************************)
Entry(r, outcome) == [request |-> r, outcome |-> outcome]

(* The run that is repeated asks what it asked, as long as it got the same. *)
Repeats == source = "transcript" /\ recorded.source = "network"
           /\ \A n \in 1..Len(log) : n <= Len(recorded.log) /\ log[n] = recorded.log[n]
MayAsk(r) == Repeats => Len(log) < Len(recorded.log) /\ recorded.log[Len(log) + 1].request = r
MayFinish == Repeats => Len(log) = Len(recorded.log)

Ask(r) ==
  /\ phase = "asking" /\ source = "network"
  /\ Len(log) < MaxAsks
  /\ phase' = "posting"
  /\ request' = r
  /\ attempt' = 0
  /\ UNCHANGED <<runVars, transcript, filed, log, given>>

(* Mutant: what the transcript does not hold is answered by a default. *)
LookupOrGuess(r) ==
  /\ phase = "asking" /\ source = "transcript"
  /\ Len(log) < MaxAsks
  /\ MayAsk(r)
  /\ log' = Append(log, Entry(r, IF r \in DOMAIN replay THEN replay[r]
                                 ELSE CHOOSE e \in Errors : TRUE))
  /\ UNCHANGED <<phase, request, attempt, runVars, transcript, filed, given>>

(* A replaying client never touches the network, and records nothing. *)
Lookup(r) ==
  /\ phase = "asking" /\ source = "transcript"
  /\ Len(log) < MaxAsks
  /\ MayAsk(r)
  /\ log' = Append(log, Entry(r, IF r \in DOMAIN replay THEN replay[r] ELSE Unanswered))
  /\ UNCHANGED <<phase, request, attempt, runVars, transcript, filed, given>>

(* An attempt comes back with an HTTP status and a body, or not at all. *)
Status == {"ok", "too_many_requests", "other", "none"}
Body == Answer \cup {"neither", "not_json"}

IsAnswer(status, body) ==
  \/ status = "ok" /\ body \in Answer
  \/ status = "other" /\ body \in Errors

(* Which of them end the call.  Mutant: one attempt too many. *)
IsFinalLate(status, body) ==
  status = "ok" \/ IsAnswer(status, body) \/ attempt > Retries

IsFinal(status, body) ==
  status = "ok" \/ IsAnswer(status, body) \/ attempt = Retries

(* Mutant: an error is taken for a failure of the endpoint. *)
RecordResult(r, body) ==
  IF body \in Errors THEN transcript
  ELSE [q \in DOMAIN transcript \cup {r} |-> IF q = r THEN body ELSE transcript[q]]

Record(r, body) ==
  [q \in DOMAIN transcript \cup {r} |-> IF q = r THEN body ELSE transcript[q]]

(* The call ends; an answer is recorded, anything else is an Err. *)
EndCall(status, body) ==
  /\ phase' = "asking"
  /\ request' = Unanswered /\ attempt' = 0
  /\ IF IsAnswer(status, body)
     THEN /\ log' = Append(log, Entry(request, body))
          /\ transcript' = Record(request, body)
          /\ given' = given \cup {<<request, body>>}
     ELSE /\ log' = Append(log, Entry(request, Unanswered))
          /\ UNCHANGED <<transcript, given>>

Retry(n) ==
  attempt' = n /\ UNCHANGED <<phase, request, log, transcript, given>>

(* Mutant: a rate limit starts the count of the attempts again. *)
PostStartsAgain(status, body) ==
  /\ phase = "posting"
  /\ IF status = "too_many_requests" THEN Retry(0)
     ELSE IF IsFinal(status, body) THEN EndCall(status, body) ELSE Retry(attempt + 1)
  /\ UNCHANGED <<runVars, filed>>

Post(status, body) ==
  /\ phase = "posting"
  /\ IF IsFinal(status, body) THEN EndCall(status, body) ELSE Retry(attempt + 1)
  /\ UNCHANGED <<runVars, filed>>

-----------------------------------------------------------------------------
(***************************************************************************)
(* transcript::write and transcript::read.                                 *)
(***************************************************************************)
(* The work of the run ended, in success or in an error. *)
Finish ==
  /\ phase = "asking"
  /\ MayFinish
  /\ \E out \in BOOLEAN : phase' = IF out THEN "writing" ELSE "idle"
  /\ UNCHANGED <<runVars, transcript, request, attempt, filed, log, given>>

AllFiled == filed = Cardinality(DOMAIN transcript)

WriteAnswer ==
  /\ phase = "writing" /\ ~AllFiled
  /\ \E r \in DOMAIN transcript :
       FileOf(transcript, r) = filed /\ files' = [files EXCEPT ![filed] = transcript[r]]
  /\ filed' = filed + 1
  /\ UNCHANGED <<phase, source, replay, transcript, request, attempt, index, log,
                 recorded, given, cut, runs, crashes>>

(* Mutant: the answers are numbered in one order and indexed in another. *)
IndexReversed == [r \in DOMAIN transcript |-> Cardinality(DOMAIN transcript) - 1 - FileOf(transcript, r)]

NewIndex == [r \in DOMAIN transcript |-> FileOf(transcript, r)]

WriteIndex ==
  /\ phase = "writing" /\ AllFiled
  /\ index' = NewIndex
  /\ recorded' = [source |-> source, log |-> log]
  /\ cut' = (cut /\ source = "transcript")
  /\ phase' = "idle"
  /\ filed' = 0
  /\ UNCHANGED <<source, replay, transcript, request, attempt, files, log,
                 given, runs, crashes>>

(* Every answer the index names has to be there, and whole. *)
Readable ==
  /\ index \notin {NoFile, Torn}
  /\ \A r \in DOMAIN index : files[index[r]] \in Answer

Served == [r \in DOMAIN index |-> files[index[r]]]

-----------------------------------------------------------------------------
(***************************************************************************)
(* Invocations of the tool, and the death of its process.                  *)
(***************************************************************************)
Start(from) ==
  /\ phase = "idle"
  /\ runs < MaxRuns
  /\ from = "transcript" => Readable
  /\ source' = from
  /\ replay' = IF from = "transcript" THEN Served ELSE Empty
  /\ transcript' = Empty
  /\ log' = <<>>
  /\ phase' = "asking"
  /\ runs' = runs + 1
  /\ UNCHANGED <<request, attempt, filed, files, index, recorded, given, cut, crashes>>

Crash(torn) ==
  /\ phase # "idle"
  /\ crashes < MaxCrashes
  /\ torn => phase = "writing"
  /\ phase' = "idle"
  /\ crashes' = crashes + 1
  /\ files' = IF torn /\ ~AllFiled THEN [files EXCEPT ![filed] = Torn] ELSE files
  /\ index' = IF torn /\ AllFiled THEN Torn ELSE index
  /\ cut' = (cut \/ (phase = "writing" /\ index # NoFile))
  /\ request' = Unanswered /\ attempt' = 0 /\ filed' = 0
  /\ transcript' = Empty /\ replay' = Empty
  /\ UNCHANGED <<source, log, recorded, given, runs>>

Init ==
  /\ phase = "idle" /\ source = "network"
  /\ replay = Empty /\ transcript = Empty
  /\ request = Unanswered /\ attempt = 0 /\ filed = 0
  /\ files = [n \in FileNames |-> NoFile] /\ index = NoFile
  /\ log = <<>> /\ recorded = [source |-> "none", log |-> <<>>]
  /\ given = {} /\ cut = FALSE /\ runs = 0 /\ crashes = 0

Next ==
  \/ \E from \in {"network", "transcript"} : Start(from)
  \/ \E r \in Request : Ask(r)
  \/ \E r \in Request : Lookup(r)
  \/ \E status \in Status, body \in Body : Post(status, body)
  \/ Finish
  \/ WriteAnswer
  \/ WriteIndex
  \/ \E torn \in BOOLEAN : Crash(torn)

Spec == Init /\ [][Next]_vars

(* The agent's timeout ends every attempt. *)
FairSpec == Spec /\ WF_vars(\E status \in Status, body \in Body : Post(status, body))

-----------------------------------------------------------------------------
(***************************************************************************)
(* Every variable stays in its domain; a call makes at most Retries + 1    *)
(* attempts.                                                               *)
(***************************************************************************)
Log == [request : Request, outcome : Answer \cup {Unanswered}]

TypeOK ==
  /\ phase \in {"idle", "asking", "posting", "writing"}
  /\ source \in {"network", "transcript"}
  /\ DOMAIN replay \subseteq Request /\ \A r \in DOMAIN replay : replay[r] \in Answer
  /\ DOMAIN transcript \subseteq Request /\ \A r \in DOMAIN transcript : transcript[r] \in Answer
  /\ request \in Request \cup {Unanswered}
  /\ attempt \in 0..Retries
  /\ filed \in FileNames
  /\ files \in [FileNames -> Answer \cup {NoFile, Torn}]
  /\ index \in {NoFile, Torn} \/ (DOMAIN index \subseteq Request /\ \A r \in DOMAIN index : index[r] \in FileNames)
  /\ log \in Seq(Log)
  /\ recorded.source \in {"none", "network", "transcript"} /\ recorded.log \in Seq(Log)
  /\ given \subseteq Request \X Answer
  /\ cut \in BOOLEAN /\ runs \in Nat /\ crashes \in Nat

(***************************************************************************)
(* "index.json maps each request ... to a file under answers/"             *)
(* (transcript.rs:3-5): whatever a run gets, from the node or from the     *)
(* directory, is an answer the node gave to that very request.  It fails   *)
(* when a process dies while it writes over an older transcript.           *)
(***************************************************************************)
AnswersAreTheNodes ==
  \A n \in 1..Len(log) :
    log[n].outcome # Unanswered => <<log[n].request, log[n].outcome>> \in given

(***************************************************************************)
(* "a request the transcript does not hold is refused by name" (rpc.rs:    *)
(* 38-39): the same, whichever processes died before, except in a          *)
(* directory that was being written over when one did.                     *)
(***************************************************************************)
ServedAsAnswered == ~cut => AnswersAreTheNodes

(***************************************************************************)
(* "so the run can be written out as a transcript and replayed offline"    *)
(* (rpc.rs:34-36): a replay of a run that asked no request twice with      *)
(* different outcomes gets what that run got, refusals included.           *)
(***************************************************************************)
Consistent(entries) ==
  \A n, k \in 1..Len(entries) :
    entries[n].request = entries[k].request => entries[n] = entries[k]

Reproduces ==
  \A n \in 1..Len(log) : n <= Len(recorded.log) /\ log[n] = recorded.log[n]

ReplayReproduces ==
  /\ source = "transcript" /\ recorded.source = "network"
  /\ phase # "idle" /\ ~cut
  /\ Consistent(recorded.log)
  => Reproduces

(***************************************************************************)
(* "Every request this run made and the answer it got" (rpc.rs:34): what   *)
(* the directory serves after a run against the node is, for each request  *)
(* the node answered, the last answer it gave to that run.                 *)
(***************************************************************************)
LastAnswers(entries) ==
  {<<entries[n].request, entries[n].outcome>> :
     n \in {n \in 1..Len(entries) :
              /\ entries[n].outcome # Unanswered
              /\ \A k \in n + 1..Len(entries) :
                   entries[k].request = entries[n].request => entries[k].outcome = Unanswered}}

Serves(answers) ==
  Readable /\ answers = {<<r, Served[r]>> : r \in DOMAIN index}

HoldsEveryAnswer ==
  phase = "idle" /\ recorded.source = "network" /\ ~cut => Serves(LastAnswers(recorded.log))

(***************************************************************************)
(* However the node refuses, a call comes back (or its process dies).      *)
(***************************************************************************)
EveryCallReturns == phase = "posting" ~> phase # "posting"
==============================================================================
