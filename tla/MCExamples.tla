---------------------------- MODULE MCExamples ----------------------------
(* A small instance of the example programs for TLC.                       *)
EXTENDS Examples, TLC
===========================================================================
