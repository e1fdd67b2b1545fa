------------------------------ MODULE MCProgram ------------------------------
(* Programs for TLC, evaluated by either algorithm. *)
EXTENDS Program, MCPrograms

MCProgs == OpenPrograms
CopyOnly == {Copy}
==============================================================================
