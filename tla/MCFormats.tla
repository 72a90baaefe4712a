------------------------------ MODULE MCFormats ------------------------------
(***************************************************************************)
(* Formats on the inputs of the three writers.                             *)
(***************************************************************************)
EXTENDS ValueWriter
=============================================================================
