---------------------------- MODULE MCRpcClient ----------------------------
(* Small instances of RpcClient for TLC.                                   *)
EXTENDS RpcClient, TLC

(* Callers are interchangeable; slots are, too.                            *)
RpcSymmetry == Permutations(Callers) \cup Permutations(Slots)
=============================================================================
