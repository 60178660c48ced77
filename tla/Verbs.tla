------------------------------- MODULE Verbs -------------------------------
(***************************************************************************)
(* One reliable-connection queue pair and its completion queues, as        *)
(* basic_qp (src/qp.cc) and cq (src/cq.cc) use them through libibverbs.    *)
(*                                                                         *)
(* A work request is named by the operation that posts it.  The NIC, the   *)
(* verbs library and the remote peer are external: a posted request        *)
(* completes in any order relative to the others (the library relies on no *)
(* order), successfully or not, and the first failure moves the QP to the  *)
(* error state, where everything left is flushed.                          *)
(***************************************************************************)
EXTENDS Integers, Sequences, FiniteSets

CONSTANTS
  SendOps,      \* operations posted with post_send (send, write, read, atomics)
  RecvOps,      \* operations posted with post_recv
  Cqs,          \* the completion queues
  SendCq,       \* the CQ bound to the send queue, qp::send_cq_
  RecvCq,       \* the CQ bound to the receive queue, qp::recv_cq_
  MaxSendWr,    \* qp_config::max_send_wr
  MaxRecvWr,    \* qp_config::max_recv_wr
  CqDepth,      \* num_cqe of each CQ
  BatchSize     \* cq_poller's batch_size: the completions one poll may return

ASSUME OpsAssumption ==
  /\ IsFiniteSet(SendOps)
  /\ IsFiniteSet(RecvOps)
  /\ SendOps \cap RecvOps = {}
ASSUME CqsAssumption == SendCq \in Cqs /\ RecvCq \in Cqs
ASSUME SizesAssumption ==
  /\ MaxSendWr \in Nat
  /\ MaxRecvWr \in Nat
  /\ CqDepth \in Nat \ {0}
  /\ BatchSize \in Nat \ {0}

Ops == SendOps \cup RecvOps

VARIABLES
  qpState,  \* "RTS", "ERR", or "gone" once ibv_destroy_qp has returned
  userRef,  \* does the application still hold a shared_ptr<qp>?
  dtor,     \* progress of ~basic_qp: "no", "err", "destroy", "done"
  wr,       \* where each work request is (see WrPlaces)
  status,   \* the wc.status of its completion
  cq,       \* the completion queues, oldest entry first
  overrun   \* has a completion been lost because the CQ was full?

verbsVars == <<qpState, userRef, dtor, wr, status, cq, overrun>>

(* "idle": not posted; "posted": owned by the NIC; "cqe": its completion   *)
(* waits in a CQ; "polled": a poller holds the completion; "done": its     *)
(* completion has been dispatched; "lost": it will never be reported.      *)
WrPlaces == {"idle", "posted", "cqe", "polled", "done", "lost"}

CqOf(o) == IF o \in SendOps THEN SendCq ELSE RecvCq

VerbsTypeOK ==
  /\ qpState \in {"RTS", "ERR", "gone"}
  /\ userRef \in BOOLEAN
  /\ dtor \in {"no", "err", "destroy", "done"}
  /\ wr \in [Ops -> WrPlaces]
  /\ status \in [Ops -> {"none", "ok", "err"}]
  /\ cq \in [Cqs -> Seq(Ops)]
  /\ overrun \in [Cqs -> BOOLEAN]

(* The QP is connected: basic_qp's constructor has run create, init, rtr   *)
(* and rts.                                                                *)
VerbsInit ==
  /\ qpState = "RTS"
  /\ userRef = TRUE
  /\ dtor = "no"
  /\ wr = [o \in Ops |-> "idle"]
  /\ status = [o \in Ops |-> "none"]
  /\ cq = [c \in Cqs |-> <<>>]
  /\ overrun = [c \in Cqs |-> FALSE]

-----------------------------------------------------------------------------
(* Posting.  A queue slot is occupied until the completion is polled.      *)

Outstanding(S) == {o \in S : wr[o] \in {"posted", "cqe"}}

(* Mutant: one request too many is accepted.                               *)
RoomOffByOne(o) ==
  IF o \in SendOps
  THEN Cardinality(Outstanding(SendOps)) <= MaxSendWr
  ELSE Cardinality(Outstanding(RecvOps)) <= MaxRecvWr

Room(o) ==
  IF o \in SendOps
  THEN Cardinality(Outstanding(SendOps)) < MaxSendWr
  ELSE Cardinality(Outstanding(RecvOps)) < MaxRecvWr

(* basic_qp::post_send / post_recv hand the request to the NIC.            *)
PostWr(o) ==
  /\ Room(o)
  /\ wr' = [wr EXCEPT ![o] = "posted"]

-----------------------------------------------------------------------------
(* Completion, by the NIC.                                                 *)

(* The NIC writes the completion of o; a full CQ loses it.                 *)
WriteCqe(o, st) ==
  LET c == CqOf(o)
      fits == Len(cq[c]) < CqDepth /\ ~overrun[c]
  IN  /\ status' = [status EXCEPT ![o] = st]
      /\ wr' = [wr EXCEPT ![o] = IF fits THEN "cqe" ELSE "lost"]
      /\ cq' = IF fits THEN [cq EXCEPT ![c] = Append(@, o)] ELSE cq
      /\ overrun' = [overrun EXCEPT ![c] = @ \/ ~fits]

(* The request succeeded.                                                  *)
NicSucceed(o) ==
  /\ qpState = "RTS"
  /\ wr[o] = "posted"
  /\ WriteCqe(o, "ok")
  /\ UNCHANGED <<qpState, userRef, dtor>>

(* The request failed (peer gone, access error, retries exhausted), or the *)
(* QP is in the error state and the request is flushed.                    *)
NicFail(o) ==
  /\ qpState \in {"RTS", "ERR"}
  /\ wr[o] = "posted"
  /\ WriteCqe(o, "err")
  /\ qpState' = "ERR"
  /\ UNCHANGED <<userRef, dtor>>

-----------------------------------------------------------------------------
(* The end of the QP.  refs is the set of operations holding a shared_ptr  *)
(* locked from their weak_ptr<qp>; basic_qp::destroy runs when the last    *)
(* reference is dropped.                                                   *)

QpAlive(refs) == userRef \/ refs # {}

(* What dropping a reference starts when it was the last one.              *)
AfterDrop(user, refs) ==
  IF ~user /\ refs = {} /\ dtor = "no" THEN "err" ELSE dtor

DropUserRef(refs) ==
  /\ userRef
  /\ userRef' = FALSE
  /\ dtor' = AfterDrop(FALSE, refs)
  /\ UNCHANGED <<qpState, wr, status, cq, overrun>>

(* basic_qp::err, called by destroy; a failure of ibv_modify_qp is only    *)
(* logged.                                                                 *)
Err ==
  /\ dtor = "err"
  /\ dtor' = "destroy"
  /\ qpState' \in {qpState, "ERR"}
  /\ UNCHANGED <<userRef, wr, status, cq, overrun>>

(* ibv_destroy_qp: requests not yet completed are abandoned and the QP's   *)
(* unpolled completions are removed from its CQs.                          *)
Destroy ==
  /\ dtor = "destroy"
  /\ dtor' = "done"
  /\ qpState' = "gone"
  /\ wr' = [o \in Ops |-> IF wr[o] \in {"posted", "cqe"} THEN "lost" ELSE wr[o]]
  /\ cq' = [c \in Cqs |-> <<>>]
  /\ UNCHANGED <<userRef, status, overrun>>
=============================================================================
