----------------------------- MODULE MCTranscript -----------------------------
(* Two requests, one result and one error, and runs of up to two requests. *)
EXTENDS Transcript

CONSTANTS v, e

MCRequest == {1, 2}
MCResults == {v}
MCErrors == {e}
==============================================================================
