----------------------------- MODULE OpContract -----------------------------
(***************************************************************************)
(* What an awaitable operation of basic_qp promises to the coroutine that  *)
(* awaits it, whatever the completion token: the operation is resolved at  *)
(* most once and for good, with a success only when the NIC reported one;  *)
(* an error means that it failed or was never posted; only a receive can   *)
(* be aborted, posted or not; and a coroutine may be dropped unresolved    *)
(* only when nothing was posted for it or when it is a receive.            *)
(***************************************************************************)
CONSTANTS SendOps, RecvOps

VARIABLES
  phase,  \* what the awaiting coroutine has seen of each operation
  wire    \* what the NIC has done with its work request

contractVars == <<phase, wire>>

AllOps == SendOps \cup RecvOps

ContractInit ==
  /\ phase = [o \in AllOps |-> "idle"]
  /\ wire = [o \in AllOps |-> "none"]

(* The coroutine awaits the operation.                                     *)
Await(o) ==
  /\ phase[o] = "idle"
  /\ phase' = [phase EXCEPT ![o] = "waiting"]
  /\ UNCHANGED wire

(* An operation is handed to the NIC once, while somebody waits for it or  *)
(* after the signal that aborted it: an aborted receive may still be       *)
(* posted, and then takes a message nobody reads.                          *)
HandOver(o) ==
  /\ phase[o] \in {"waiting", "aborted"}
  /\ wire[o] = "none"
  /\ wire' = [wire EXCEPT ![o] = "owned"]
  /\ UNCHANGED phase

(* The NIC decides the fate of a request it owns, once.                    *)
Report(o) ==
  /\ wire[o] = "owned"
  /\ \E r \in {"succeeded", "failed"} : wire' = [wire EXCEPT ![o] = r]
  /\ UNCHANGED phase

(* The QP is destroyed under the requests the NIC still owns.              *)
Forget ==
  /\ wire' = [o \in AllOps |-> IF wire[o] = "owned" THEN "lost" ELSE wire[o]]
  /\ UNCHANGED phase

Resolve(o) ==
  /\ phase[o] = "waiting"
  /\ \E p \in {"ok", "error", "aborted", "abandoned"} :
       /\ p = "ok" => wire[o] = "succeeded"
       /\ p = "error" => wire[o] \in {"none", "failed"}
       /\ p = "aborted" => o \in RecvOps
       /\ p = "abandoned" => wire[o] = "none" \/ o \in RecvOps
       /\ phase' = [phase EXCEPT ![o] = p]
  /\ UNCHANGED wire

ContractNext ==
  \/ \E o \in AllOps : Await(o) \/ HandOver(o) \/ Report(o) \/ Resolve(o)
  \/ Forget

ContractSpec == ContractInit /\ [][ContractNext]_contractVars
=============================================================================
