-------------------------- MODULE NativeAwaitable --------------------------
(***************************************************************************)
(* Operations awaited from native C++20 coroutines: await_suspend,         *)
(* suspend and await_resume of send_awaitable and recv_awaitable           *)
(* (src/qp.cc) and the native dispatch of a completion (src/executor.cc).  *)
(*                                                                         *)
(* The awaitable lives in the frame of the coroutine and the wr_id is the  *)
(* address of its operation_state.  The poller may resume the coroutine,   *)
(* and so end the life of the awaitable, while the thread that suspended   *)
(* it is still inside await_suspend.                                       *)
(***************************************************************************)
EXTENDS CqPoller

CONSTANTS
  PlainSends,  \* the operations of SendOps with opcode IBV_WR_SEND
  Writes,      \* those with opcode IBV_WR_RDMA_WRITE or ..._WITH_IMM
  Atomics      \* those with an atomic opcode; the others are RDMA reads

ASSUME OpcodeAssumption ==
  /\ PlainSends \subseteq SendOps
  /\ Writes \subseteq SendOps \ PlainSends
  /\ Atomics \subseteq SendOps \ (PlainSends \cup Writes)

(* send_awaitable::is_rdma                                                 *)
IsRdma(o) == o \in SendOps \ (PlainSends \cup Atomics)

(* The opcodes whose byte_len set_from_wc takes from the completion.       *)
LengthFromWc(o) == o \notin PlainSends \cup Writes

VARIABLES
  pc,        \* where the thread that awaits is (see PcStates)
  awaitable, \* the awaitable object: "none", "alive", "dead"
  handle,    \* is operation_state::coro_handle set?
  byteLen,   \* operation_state::byte_len: "zero", the "local" or the "wc" length
  seen,      \* operation_state::wc_status; its initial 0 is IBV_WC_SUCCESS
  coro       \* what the awaiting coroutine has got

nativeVars == <<pc, awaitable, handle, byteLen, seen, coro>>
vars == <<verbsVars, pollerVars, nativeVars>>

(* "suspend": about to run await_suspend; "lock": the operation_state is   *)
(* prepared, about to lock the weak_ptr; "locked": about to post;          *)
(* "posted"/"failed": suspend has returned true/false; "ret": the thread   *)
(* has left await_suspend.                                                 *)
PcStates == {"idle", "suspend", "lock", "locked", "posted", "failed", "ret"}

NativeTypeOK ==
  /\ pc \in [Ops -> PcStates]
  /\ awaitable \in [Ops -> {"none", "alive", "dead"}]
  /\ handle \in [Ops -> BOOLEAN]
  /\ byteLen \in [Ops -> {"zero", "local", "wc"}]
  /\ seen \in [Ops -> {"ok", "err"}]
  /\ coro \in [Ops -> {"idle", "waiting", "ok", "error"}]

(* The variables range over the states of the code they model.             *)
TypeOK == VerbsTypeOK /\ PollerTypeOK /\ NativeTypeOK

Init ==
  /\ VerbsInit
  /\ PollerInit
  /\ pc = [o \in Ops |-> "idle"]
  /\ awaitable = [o \in Ops |-> "none"]
  /\ handle = [o \in Ops |-> FALSE]
  /\ byteLen = [o \in Ops |-> "zero"]
  /\ seen = [o \in Ops |-> "ok"]
  /\ coro = [o \in Ops |-> "idle"]

QpRefs == {o \in Ops : pc[o] = "locked"}

-----------------------------------------------------------------------------
(* The awaiting thread.                                                    *)

(* co_await on a fresh awaitable, which is never ready.                    *)
Start(o) ==
  /\ pc[o] = "idle"
  /\ pc' = [pc EXCEPT ![o] = "suspend"]
  /\ awaitable' = [awaitable EXCEPT ![o] = "alive"]
  /\ coro' = [coro EXCEPT ![o] = "waiting"]
  /\ UNCHANGED <<handle, byteLen, seen, pollerVars, verbsVars>>

(* Mutant: the handle is not stored before the request is posted.          *)
PrepareWithoutHandle(o) ==
  /\ pc[o] = "suspend"
  /\ pc' = [pc EXCEPT ![o] = "lock"]
  /\ byteLen' = [byteLen EXCEPT ![o] = IF IsRdma(o) THEN "local" ELSE @]
  /\ UNCHANGED <<awaitable, handle, seen, coro, pollerVars, verbsVars>>

(* await_suspend stores the handle; suspend fills the request and, for     *)
(* RDMA reads and writes, stores the local length as the result.           *)
Prepare(o) ==
  /\ pc[o] = "suspend"
  /\ pc' = [pc EXCEPT ![o] = "lock"]
  /\ handle' = [handle EXCEPT ![o] = TRUE]
  /\ byteLen' = [byteLen EXCEPT ![o] = IF IsRdma(o) THEN "local" ELSE @]
  /\ UNCHANGED <<awaitable, seen, coro, pollerVars, verbsVars>>

(* suspend: qp_.lock().                                                    *)
LockQp(o) ==
  /\ pc[o] = "lock"
  /\ pc' = [pc EXCEPT ![o] = IF QpAlive(QpRefs) THEN "locked" ELSE "failed"]
  /\ UNCHANGED <<awaitable, handle, byteLen, seen, coro, pollerVars, verbsVars>>

(* Mutant: suspend reports a failure although the request is posted.       *)
PostReportsFailure(o) ==
  /\ pc[o] = "locked"
  /\ PostWr(o)
  /\ pc' = [pc EXCEPT ![o] = "failed"]
  /\ dtor' = AfterDrop(userRef, QpRefs \ {o})
  /\ UNCHANGED <<qpState, userRef, status, cq, overrun, pollerVars,
                 awaitable, handle, byteLen, seen, coro>>

(* suspend: the request is posted, the shared_ptr dropped.                 *)
Post(o) ==
  /\ pc[o] = "locked"
  /\ PostWr(o)
  /\ pc' = [pc EXCEPT ![o] = "posted"]
  /\ dtor' = AfterDrop(userRef, QpRefs \ {o})
  /\ UNCHANGED <<qpState, userRef, status, cq, overrun, pollerVars,
                 awaitable, handle, byteLen, seen, coro>>

(* suspend: the work queue is full, posting throws, exception_ is set.     *)
PostThrows(o) ==
  /\ pc[o] = "locked"
  /\ ~Room(o)
  /\ pc' = [pc EXCEPT ![o] = "failed"]
  /\ dtor' = AfterDrop(userRef, QpRefs \ {o})
  /\ UNCHANGED <<qpState, userRef, wr, status, cq, overrun, pollerVars,
                 awaitable, handle, byteLen, seen, coro>>

(* suspend returned true: the thread leaves the suspended coroutine.       *)
Return(o) ==
  /\ pc[o] = "posted"
  /\ pc' = [pc EXCEPT ![o] = "ret"]
  /\ UNCHANGED <<awaitable, handle, byteLen, seen, coro, pollerVars, verbsVars>>

(* Mutant: exception_ is not rethrown.                                     *)
FailSuspendSilently(o) ==
  /\ pc[o] = "failed"
  /\ pc' = [pc EXCEPT ![o] = "ret"]
  /\ coro' = [coro EXCEPT ![o] = "ok"]
  /\ awaitable' = [awaitable EXCEPT ![o] = "dead"]
  /\ UNCHANGED <<handle, byteLen, seen, pollerVars, verbsVars>>

(* Mutant: await_suspend returns true all the same.                        *)
FailSuspendSleeps(o) ==
  /\ pc[o] = "failed"
  /\ pc' = [pc EXCEPT ![o] = "ret"]
  /\ UNCHANGED <<awaitable, handle, byteLen, seen, coro, pollerVars, verbsVars>>

(* suspend returned false: the coroutine goes on at once and await_resume  *)
(* rethrows exception_.                                                    *)
FailSuspend(o) ==
  /\ pc[o] = "failed"
  /\ pc' = [pc EXCEPT ![o] = "ret"]
  /\ coro' = [coro EXCEPT ![o] = "error"]
  /\ awaitable' = [awaitable EXCEPT ![o] = "dead"]
  /\ UNCHANGED <<handle, byteLen, seen, pollerVars, verbsVars>>

-----------------------------------------------------------------------------
(* execute_callback<use_native_awaitable_t>, on the poller thread of c.    *)

(* Mutant: wc_status is not stored.                                        *)
SetFromWcNoStatus(c) ==
  LET o == Head(batch[c]) IN
  /\ poller[c] = "process"
  /\ byteLen' = [byteLen EXCEPT ![o] = IF LengthFromWc(o) THEN "wc" ELSE @]
  /\ poller' = [poller EXCEPT ![c] = "won"]
  /\ UNCHANGED <<batch, stop, verbsVars, pc, awaitable, handle, seen, coro>>

(* operation_state::set_from_wc.                                           *)
SetFromWc(c) ==
  LET o == Head(batch[c]) IN
  /\ poller[c] = "process"
  /\ seen' = [seen EXCEPT ![o] = status[o]]
  /\ byteLen' = [byteLen EXCEPT ![o] =
                   IF LengthFromWc(o) THEN "wc" ELSE @]
  /\ poller' = [poller EXCEPT ![c] = "won"]
  /\ UNCHANGED <<batch, stop, verbsVars, pc, awaitable, handle, coro>>

(* Mutant: the bare wc_status is the result.                               *)
ResumeRaw(c) ==
  LET o == Head(batch[c]) IN
  /\ poller[c] = "won"
  /\ coro' = [coro EXCEPT ![o] = seen[o]]
  /\ awaitable' = [awaitable EXCEPT ![o] = "dead"]
  /\ Dispatched(c)
  /\ UNCHANGED <<qpState, userRef, dtor, status, cq, overrun, stop,
                 pc, handle, byteLen, seen>>

(* Mutant: a failed completion resumes nobody.                             *)
ResumeOnlySuccess(c) ==
  LET o == Head(batch[c]) IN
  /\ poller[c] = "won"
  /\ coro' = [coro EXCEPT ![o] = IF seen[o] = "ok" THEN "ok" ELSE @]
  /\ Dispatched(c)
  /\ UNCHANGED <<qpState, userRef, dtor, status, cq, overrun, stop,
                 pc, awaitable, handle, byteLen, seen>>

(* coro_handle.resume(): await_resume returns byte_len or throws           *)
(* (check_wc_status), and the awaitable ends with the co_await expression. *)
(* What the coroutine does next, before it gives the poller's thread back, *)
(* is other operations.                                                    *)
Resume(c) ==
  LET o == Head(batch[c]) IN
  /\ poller[c] = "won"
  /\ coro' = [coro EXCEPT ![o] = IF seen[o] = "ok" THEN "ok" ELSE "error"]
  /\ awaitable' = [awaitable EXCEPT ![o] = "dead"]
  /\ Dispatched(c)
  /\ UNCHANGED <<qpState, userRef, dtor, status, cq, overrun, stop,
                 pc, handle, byteLen, seen>>

-----------------------------------------------------------------------------
OpStep(o) ==
  \/ Start(o) \/ Prepare(o) \/ LockQp(o) \/ Post(o) \/ PostThrows(o)
  \/ Return(o) \/ FailSuspend(o)

NicStep(o) == (NicSucceed(o) \/ NicFail(o)) /\ UNCHANGED <<pollerVars, nativeVars>>

PollerStep(c) ==
  \/ (Check(c) \/ Poll(c) \/ PollThrows(c)) /\ UNCHANGED nativeVars
  \/ SetFromWc(c) \/ Resume(c)

DropStep == DropUserRef(QpRefs) /\ UNCHANGED <<pollerVars, nativeVars>>

DtorStep == (Err \/ Destroy) /\ UNCHANGED <<pollerVars, nativeVars>>

StopStep(c) == RequestStop(c) /\ UNCHANGED nativeVars

Next ==
  \/ \E o \in Ops : OpStep(o) \/ NicStep(o)
  \/ \E c \in Cqs : PollerStep(c) \/ StopStep(c)
  \/ DropStep \/ DtorStep

Spec == Init /\ [][Next]_vars

(* As for AsioAwaitable: threads finish what they started, pollers poll,   *)
(* the NIC reports sends and flushes a QP in error.                        *)
Fairness ==
  /\ \A o \in Ops :
       /\ WF_vars(pc[o] # "idle" /\ OpStep(o))
       /\ WF_vars(qpState = "ERR" /\ NicStep(o))
  /\ \A o \in SendOps : WF_vars(NicStep(o))
  /\ \A c \in Cqs : WF_vars(PollerStep(c))
  /\ WF_vars(DtorStep)

FairSpec == Spec /\ Fairness

-----------------------------------------------------------------------------
(* Properties.                                                             *)

(* The object behind a wr_id can be dispatched whenever the NIC may report *)
(* it, even before await_suspend returns: it is alive and its coroutine    *)
(* handle is already stored.                                               *)
WrIdUsable ==
  \A o \in Ops : wr[o] \in {"posted", "cqe", "polled"} =>
                   awaitable[o] = "alive" /\ handle[o]

(* The thread inside await_suspend never touches the awaitable after a     *)
(* poller has resumed the coroutine and so destroyed it: it is alive as    *)
(* long as the thread has a member left to read or write.                  *)
SuspendTouchesLive ==
  \A o \in Ops : pc[o] \in {"suspend", "lock", "locked", "failed"} =>
                   awaitable[o] = "alive" /\ coro[o] = "waiting"

(* The status and the length a coroutine gets are those of its own         *)
(* completion, complete when it reads them: an operation that succeeded on *)
(* the wire returns a value, one that failed throws, a write returns the   *)
(* length it was given, and a read, an atomic or a receive the length of   *)
(* its completion.  (A plain send is SendReturnsBytes.)                    *)
OwnResult ==
  \A o \in Ops :
    /\ coro[o] = "ok" => status[o] = "ok"
    /\ coro[o] = "error" => status[o] = "err" \/ wr[o] = "idle"
    /\ coro[o] = "ok" /\ o \notin PlainSends =>
         byteLen[o] = IF o \in Writes THEN "local" ELSE "wc"

Contract == INSTANCE OpContract WITH
              phase <- coro,
              wire <- [o \in Ops |-> Wire(o)]

(* Awaiting an operation from a native coroutine honours OpContract.       *)
HonoursContract == Contract!ContractSpec

(* A send is resolved, be it with an exception, unless the QP is destroyed *)
(* under it, its completion is lost to a CQ overrun, or its poller stops.  *)
SendResolved ==
  \A o \in SendOps :
    coro[o] = "waiting" ~>
      coro[o] # "waiting" \/ wr[o] = "lost" \/ poller[SendCq] = "exited"

(* A QP in error wakes every receiver: the flush reaches its coroutine as  *)
(* an exception, with the same exceptions.                                 *)
ErrorWakesReceivers ==
  \A o \in RecvOps :
    coro[o] = "waiting" /\ qpState = "ERR" ~>
      coro[o] # "waiting" \/ wr[o] = "lost" \/ poller[RecvCq] = "exited"

-----------------------------------------------------------------------------
(* The inductive invariant behind WrIdUsable, SuspendTouchesLive and       *)
(* OwnResult.                                                              *)

(* byte_len before and after set_from_wc.                                  *)
PreparedLen(o) == IF IsRdma(o) THEN "local" ELSE "zero"
FinalLen(o) == IF LengthFromWc(o) THEN "wc" ELSE PreparedLen(o)

(* Until suspend has posted the request, only the awaiting thread knows of *)
(* the awaitable.                                                          *)
SuspendInv(o) ==
  /\ pc[o] = "idle" => wr[o] = "idle" /\ coro[o] = "idle"
  /\ pc[o] \in {"suspend", "lock", "locked", "failed"} =>
       wr[o] = "idle" /\ awaitable[o] = "alive" /\ coro[o] = "waiting"
  /\ pc[o] \in {"idle", "suspend"} => byteLen[o] = "zero"
  /\ pc[o] \in {"lock", "locked", "failed"} => handle[o] /\ byteLen[o] = PreparedLen(o)
  /\ pc[o] = "posted" => wr[o] # "idle"

(* From then on it lives until a poller resumes the coroutine, once, after *)
(* storing all of the result.                                              *)
DispatchInv(o) ==
  /\ wr[o] \in {"posted", "cqe", "polled"} =>
       /\ awaitable[o] = "alive" /\ handle[o] /\ coro[o] = "waiting"
       /\ pc[o] \in {"posted", "ret"}
       /\ byteLen[o] = IF AtHead(o, "won") THEN FinalLen(o) ELSE PreparedLen(o)
       /\ AtHead(o, "won") => seen[o] = status[o]
  /\ coro[o] = "ok" => wr[o] = "done" /\ status[o] = "ok" /\ byteLen[o] = FinalLen(o)
  /\ coro[o] = "error" =>
       (wr[o] = "idle" /\ pc[o] = "ret") \/ (wr[o] = "done" /\ status[o] = "err")

NativeInv ==
  /\ QpInv
  /\ NativeTypeOK
  /\ \A o \in Ops : SuspendInv(o) /\ DispatchInv(o)

-----------------------------------------------------------------------------
(* What the repository says of the code, and the code does not do.         *)

(* basic_qp::send: "an awaitable object that completes with the number of  *)
(* bytes sent".  suspend sets byte_len only when is_rdma(), and            *)
(* set_from_wc leaves it alone for IBV_WR_SEND.                            *)
SendReturnsBytes ==
  \A o \in PlainSends : coro[o] = "ok" => byteLen[o] = "local"
=============================================================================
