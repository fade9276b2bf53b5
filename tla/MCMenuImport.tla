---------------------------- MODULE MCMenuImport ----------------------------
(***************************************************************************)
(* An instance of MenuImport: a file of one row, for a dish that may take  *)
(* the name of a saved one.                                                *)
(***************************************************************************)
EXTENDS MenuImport

CONSTANTS c1, n1, n2
=============================================================================
