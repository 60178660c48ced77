-------------------------- MODULE MCAsioAwaitable --------------------------
(* Small instances of AsioAwaitable for TLC.                               *)
EXTENDS AsioAwaitable
=============================================================================
