----------------------------- MODULE RpcServer -----------------------------
(***************************************************************************)
(* The RPC server (RpcServer in examples/include/coro_rpc.hpp): each       *)
(* worker receives a request into its own buffer, handles it on a thread   *)
(* pool, sends the reply from its own buffer and, once that send is        *)
(* complete, receives again.                                               *)
(*                                                                         *)
(* Requests reach the workers in any order; a request that finds no        *)
(* posted receive waits at the NIC (rnr_retry is 7: without limit).        *)
(***************************************************************************)
EXTENDS Naturals

CONSTANTS
  Workers,   \* 0..recv_depth_-1
  None       \* an empty buffer

VARIABLES
  at,        \* where each worker is
  inBuf,     \* the request its receive buffer holds
  outBuf,    \* the request its send buffer answers
  requests,  \* the requests on their way to the server
  qpUp       \* is the connection up?

serverVars == <<at, inBuf, outBuf>>

(* "recv": suspended in recv; "work": handed to the thread pool; "send":   *)
(* suspended in send; "sent": the client has the reply, the send is not    *)
(* reported yet; "ended": left by the exception of a failed receive.       *)
WorkerStates == {"recv", "work", "send", "sent", "ended"}

(* run(): every worker posts its receive.                                  *)
ServerInit ==
  /\ at = [w \in Workers |-> "recv"]
  /\ inBuf = [w \in Workers |-> None]
  /\ outBuf = [w \in Workers |-> None]

(* A request takes the worker's receive.  It is never shorter than its     *)
(* header: the client sends no such packet.                                *)
Receive(w) ==
  /\ qpUp
  /\ at[w] = "recv"
  /\ \E id \in requests :
       /\ requests' = requests \ {id}
       /\ inBuf' = [inBuf EXCEPT ![w] = id]
  /\ at' = [at EXCEPT ![w] = "work"]
  /\ UNCHANGED <<outBuf, qpUp>>

(* The handler fills the send buffer, which takes the req_id of the        *)
(* request, and the reply is posted.                                       *)
Handle(w) ==
  /\ at[w] = "work"
  /\ outBuf' = [outBuf EXCEPT ![w] = inBuf[w]]
  /\ at' = [at EXCEPT ![w] = "send"]
  /\ UNCHANGED <<inBuf, requests, qpUp>>

(* The send is reported, or its failure caught: the worker receives again, *)
(* and what its buffers held is not looked at any more.                    *)
SendReported(w) ==
  /\ at[w] = "sent" \/ (at[w] = "send" /\ ~qpUp)
  /\ at' = [at EXCEPT ![w] = "recv"]
  /\ inBuf' = [inBuf EXCEPT ![w] = None]
  /\ outBuf' = [outBuf EXCEPT ![w] = None]
  /\ UNCHANGED <<requests, qpUp>>

(* recv throws once the connection is down, which ends the worker.         *)
WorkerEnds(w) ==
  /\ ~qpUp
  /\ at[w] = "recv"
  /\ at' = [at EXCEPT ![w] = "ended"]
  /\ UNCHANGED <<inBuf, outBuf, requests, qpUp>>

WorkerStep(w) == Receive(w) \/ Handle(w) \/ SendReported(w) \/ WorkerEnds(w)
=============================================================================
