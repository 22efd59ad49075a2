----------------------------- MODULE SnforgeTrace -----------------------------
(***************************************************************************)
(* trace-starknet: the entries of an snforge trace file written as a       *)
(* bundle (starknet.rs, write_starknet_trace), one step per entry at a     *)
(* synthetic line that counts them, and the older conversion to plain      *)
(* events (convert_snforge_trace), which the writer no longer uses and the *)
(* tests still do: the two translate the same entries independently.       *)
(*                                                                         *)
(* The file is read twice, for its entries and, once the bundle is open,   *)
(* for the contract its syscalls are named after; it may change between.   *)
(***************************************************************************)
EXTENDS BundleWriter, SourceMap

CONSTANTS
  Files,     \* what the trace file may hold: [text, contract, entries]
  NoName,    \* an empty string
  Width      \* bits of the integers the trace holds (64 in the code)

ASSUME WidthAssumption == Width \in Nat /\ Width > 1

Kinds == {"contract_call", "storage_read", "storage_write", "event", "syscall"}

ASSUME FilesAssumption ==
  /\ Unreadable \notin Files
  /\ \A f \in Files : /\ f.text \in Seq(ToSet(f.text)) /\ f.text # Unreadable
                       /\ f.entries \in Seq(ToSet(f.entries))
                       /\ \A e \in ToSet(f.entries) : e.kind \in Kinds /\ e.felts \in Nat

VARIABLES
  file,      \* what the file holds now
  entries,   \* the entries of the first reading
  contract,  \* the contract of the second reading
  written    \* how many entries are written

snforgeVars == <<file, entries, contract, written>>

SnforgeInit(held) == file \in held /\ entries = <<>> /\ contract = NoName /\ written = 0

(* Another program may write the file between the readings.                *)
FileChanges ==
  /\ at \in {"open", "name"}
  /\ file' \in Files \cup {Unreadable}
  /\ UNCHANGED <<entries, contract, written, bundleVars>>

parse_snforge_trace ==
  /\ at = "parse"
  /\ IF file = Unreadable
     THEN Fail("trace_file") /\ UNCHANGED entries
     ELSE entries' = file.entries /\ Goto("open") /\ Aside
  /\ UNCHANGED <<file, contract, written>>

(* The bundle is opened under the trace file's own path, whose line table  *)
(* is that of the file as it is now.                                       *)
OpenSnforge ==
  /\ at = "open"
  /\ \/ /\ OpenBundle(IF file = Unreadable THEN <<>> ELSE read_line_lengths_for_path(file.text))
        /\ Goto("name")
     \/ Fail("writer")
  /\ UNCHANGED snforgeVars

(* The file is read a second time for the contract; its absence goes       *)
(* unnoticed.                                                              *)
entry_contract ==
  /\ at = "name" /\ Goto("entries") /\ Aside
  /\ contract' = IF file = Unreadable THEN NoName ELSE file.contract
  /\ UNCHANGED <<file, entries, written>>

(* A call is named after its selector, everything else after its kind.     *)
OpName(e) == IF e.kind \in {"contract_call", "syscall"} THEN e.name ELSE e.kind

(* The function a call frame of an entry is named after.                   *)
FunctionName(e, of) ==
  CASE e.kind = "contract_call" /\ e.dispatcher # NoName -> <<e.dispatcher, e.contract, e.name>>
    [] e.kind = "contract_call" /\ e.dispatcher = NoName /\ e.visibility # NoName
         -> <<e.visibility, e.contract, e.name>>
    [] e.kind = "syscall" -> IF of = NoName THEN <<e.name>> ELSE <<of, e.name>>
    [] OTHER -> <<e.contract, OpName(e)>>

Arguments(e) ==
  CASE e.kind = "contract_call" ->
         <<"caller", "callee", "selector">>
           \o [i \in 1..e.felts |-> "calldata"]
           \o (IF e.self = NoName THEN <<>> ELSE <<"self_kind">>)
           \o (IF e.dispatcher = NoName THEN <<>> ELSE <<"dispatcher_trait">>)
    [] e.kind = "storage_read" -> <<"key", "value">>
    [] e.kind = "storage_write" -> <<"key", "old_value", "new_value">>
    [] OTHER -> <<>>

(* What a syscall returned: the text is parsed as a signed integer of the  *)
(* width, as a boolean, or kept (an address is padded to its full length). *)
ReturnRecord(e) ==
  CASE e.kind # "syscall" -> "none"
    [] e.kind = "syscall" /\ e.type = "u64" ->
         IF e.value \in 0 .. (2 ^ (Width - 1) - 1) THEN e.value ELSE 0
    [] e.kind = "syscall" /\ e.type = "bool" -> e.value = 1
    [] OTHER -> e.value

(* A storage access is told again as a special event, after its frame; an  *)
(* emitted event is only told so.                                          *)
SpecialKind == [storage_read |-> "Read", storage_write |-> "Write", event |-> "EvmEvent"]
Special(e, line) ==
  IF e.kind \in DOMAIN SpecialKind THEN <<SpecialEv(line, SpecialKind[e.kind], e.contract)>> ELSE <<>>

(* Mutant: an emitted event has a frame like the others.                   *)
FrameOfEvery(e, line) ==
  <<CallEv(line, FunctionName(e, contract), Arguments(e)), ReturnEv(line, ReturnRecord(e))>>

Frame(e, line) ==
  IF e.kind = "event" THEN <<>>
  ELSE <<CallEv(line, FunctionName(e, contract), Arguments(e)), ReturnEv(line, ReturnRecord(e))>>

WriteEntry ==
  /\ at = "entries" /\ written < Len(entries)
  /\ LET line == written + 1
         e == entries[line]
     IN Write(<<StepEv(line)>> \o Frame(e, line) \o Special(e, line))
  /\ written' = written + 1
  /\ Stay /\ UNCHANGED <<file, entries, contract>>

EntriesWritten ==
  /\ at = "entries" /\ written = Len(entries)
  /\ Goto("close") /\ Aside
  /\ UNCHANGED snforgeVars

(***************************************************************************)
(* The older conversion.                                                   *)
(***************************************************************************)
Variables(e) ==
  CASE e.kind = "contract_call" ->
         <<"caller", "callee", "selector">> \o (IF e.felts = 0 THEN <<>> ELSE <<"calldata">>)
    [] e.kind = "storage_read" -> <<"key", "value">>
    [] e.kind = "storage_write" -> <<"key", "old_value", "new_value">>
    [] e.kind = "event" ->
         (IF e.felts = 0 THEN <<>> ELSE <<"event_keys">>)
           \o (IF e.data = 0 THEN <<>> ELSE <<"event_data">>)
    [] OTHER -> <<"return_kind", "return_value">>

Converted(e, line) ==
  [line |-> line,
   name |-> IF e.kind = "syscall" THEN <<e.name>> ELSE <<e.contract, OpName(e)>>,
   variables |-> Variables(e),
   text |-> IF e.kind = "syscall" THEN e.value ELSE "none"]

convert_snforge_trace(es) == [i \in DOMAIN es |-> Converted(es[i], i)]

(***************************************************************************)
(* What the bundle must keep of the entries.                               *)
(***************************************************************************)
EventsAt(line, ev) == {i \in DOMAIN out : out[i].ev = ev /\ out[i].line = line}

(* A number below 2^(Width-1), or a boolean, is recorded as its text says. *)
SameValue(type, text, value) ==
  CASE type = "u64" -> text \in 0 .. (2 ^ (Width - 1) - 1) => value = text
    [] type = "bool" -> text \in {0, 1} => (value <=> text = 1)
    [] OTHER -> value = text

(* Entry l is told as the older conversion has it, its step at i.          *)
ToldAs(l, i) ==
  LET e == entries[l]  conv == convert_snforge_trace(entries)[l] IN
  /\ EventsAt(l, "step") = {i}
  /\ IF e.kind = "event" THEN EventsAt(l, "call") = {} /\ EventsAt(l, "special") = {i + 1}
     ELSE /\ EventsAt(l, "call") = {i + 1} /\ EventsAt(l, "return") = {i + 2}
          /\ IsSuffix(conv.name, out[i + 1].name)
          /\ e.kind # "syscall" => Range(conv.variables) \subseteq Range(out[i + 1].args)
          /\ e.kind = "syscall" => SameValue(e.type, conv.text, out[i + 2].value)
          /\ (e.kind = "syscall" /\ file \in Files /\ file.entries = entries)
               => out[i + 1].name = FunctionName(e, file.contract)

(* The writer and the older conversion agree on every entry written: the   *)
(* same step, at the same line; one frame, returned before the next step,  *)
(* under a name that ends in the converted one and with every converted    *)
(* variable an argument; the returned value the converted text states, if  *)
(* it fits the signed integer it is parsed as (2^63 and above become 0).   *)
(* An emitted event is told once, as a special event instead of a frame.   *)
(* A syscall is named after the contract of the file its entries were read *)
(* from, as long as the file has not changed in between (starknet.rs:408,  *)
(* 200, 396).                                                              *)
AgreesWithConversion ==
  /\ \A l \in 1..written : \E i \in DOMAIN out : ToldAs(l, i)
  /\ entries # <<>> => \A i \in DOMAIN out : out[i].line \in 1..written
==============================================================================
