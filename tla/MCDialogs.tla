------------------------------ MODULE MCDialogs ------------------------------
(* Every form of the console; requests overlap with closing and opening again,  *)
(* and another operator writes the same record.                                 *)
EXTENDS Dialogs

CONSTANT none

MCForms == DOMAIN Component
=============================================================================
