------------------------------ MODULE MCBridge ------------------------------
(* Which ends there are.                                                   *)
EXTENDS Bridge

CONSTANTS command, program, page

OneCommand == {command}
OneProgram == {program}
OnePage == {page}
=============================================================================
