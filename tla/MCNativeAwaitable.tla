------------------------- MODULE MCNativeAwaitable -------------------------
(* Small instances of NativeAwaitable for TLC.                             *)
EXTENDS NativeAwaitable
=============================================================================
