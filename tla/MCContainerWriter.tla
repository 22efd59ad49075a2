-------------------------- MODULE MCContainerWriter ---------------------------
(***************************************************************************)
(* The observer and the container writer, over every run of a transaction  *)
(* within the bounds.                                                      *)
(***************************************************************************)
EXTENDS ContainerWriter
==============================================================================
