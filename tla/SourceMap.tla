------------------------------- MODULE SourceMap -------------------------------
(***************************************************************************)
(* Bytes, lines and columns of a text (src/src/source_map.rs).  A text is  *)
(* a sequence of bytes, of which only the newline matters; offsets are     *)
(* 0-based, lines and columns 1-based.                                     *)
(*                                                                         *)
(* Where lines start is found byte by byte, and so are line lengths, once  *)
(* from the text of a program in memory and once from a file.              *)
(***************************************************************************)
EXTENDS Naturals, Sequences, SequencesExt

CONSTANT Unreadable  \* the contents of a file that cannot be read

Newline == "n"

(* The offsets at which lines start: the first one, and past each newline. *)
line_starts(text) ==
  LET starts[k \in 0..Len(text)] ==
        IF k = 0 THEN <<0>>
        ELSE IF text[k] = Newline THEN Append(starts[k - 1], k) ELSE starts[k - 1]
  IN  starts[Len(text)]

line_count(text) == Len(line_starts(text))

(* Mutant: a newline belongs to the line after it.                         *)
byte_to_lineEarly(text, offset) ==
  LET starts == line_starts(text)
  IN  CHOOSE n \in DOMAIN starts :
        starts[n] <= offset + 1 /\ \A m \in DOMAIN starts : starts[m] <= offset + 1 => m <= n

(* The binary search: the last line that starts at the offset or before.   *)
byte_to_line(text, offset) ==
  LET starts == line_starts(text)
  IN  CHOOSE n \in DOMAIN starts :
        starts[n] <= offset /\ \A m \in DOMAIN starts : starts[m] <= offset => m <= n

byte_to_line_col(text, offset) ==
  LET line == byte_to_line(text, offset) IN <<line, offset - line_starts(text)[line] + 1>>

(* A line past the end is not noticed, line 0 is.                          *)
column_for_line_offset(line, offset) == IF line = 0 THEN 1 ELSE offset + 1

(* Of a text in memory: a line for each newline, and one for what is left. *)
line_lengths(text) ==
  LET cut[k \in 0..Len(text)] ==
        IF k = 0 THEN [lengths |-> <<>>, line_start |-> 0]
        ELSE LET before == cut[k - 1] IN
             IF text[k] # Newline THEN before
             ELSE [lengths |-> Append(before.lengths, k - 1 - before.line_start), line_start |-> k]
      end == cut[Len(text)]
  IN  IF end.line_start < Len(text) THEN Append(end.lengths, Len(text) - end.line_start) ELSE end.lengths

(* Of a file, which has a last line of its own unless it ends in a newline.*)
(* A file that cannot be read, and a path that names none, have no table.  *)
read_line_lengths_for_path(file) ==
  LET count[k \in 0..Len(file)] ==
        IF k = 0 THEN [lines |-> <<>>, current_len |-> 0]
        ELSE LET before == count[k - 1] IN
             IF file[k] = Newline THEN [lines |-> Append(before.lines, before.current_len), current_len |-> 0]
             ELSE [before EXCEPT !.current_len = @ + 1]
      end == count[Len(file)]
  IN  IF file = Unreadable THEN <<>>
      ELSE IF end.current_len > 0 \/ file = <<>> \/ file[Len(file)] # Newline
           THEN Append(end.lines, end.current_len)
           ELSE end.lines

(***************************************************************************)
(* What readers of a bundle rely on.                                       *)
(***************************************************************************)

(* The offset a reader computes from a line and a column with a table.     *)
Decode(lengths, line, column) ==
  LET before[k \in 0..(line - 1)] == IF k = 0 THEN 0 ELSE before[k - 1] + lengths[k] + 1
  IN  before[line - 1] + column - 1

(* Both ways of computing the table agree, except on the empty text, and   *)
(* every byte of a text is found again from its line and column.           *)
PositionsRoundTripIn(text) ==
  LET lengths == line_lengths(text) IN
  /\ text # <<>> => read_line_lengths_for_path(text) = lengths
  /\ Len(lengths) \in {line_count(text), line_count(text) - 1}
  /\ \A offset \in 0..(Len(text) - 1) :
       LET pos == byte_to_line_col(text, offset) IN
       /\ pos[1] \in DOMAIN lengths
       /\ pos[2] \in 1..(lengths[pos[1]] + 1)
       /\ Decode(lengths, pos[1], pos[2]) = offset
       /\ pos[2] = column_for_line_offset(pos[1], pos[2] - 1)
===============================================================================
