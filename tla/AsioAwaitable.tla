--------------------------- MODULE AsioAwaitable ---------------------------
(***************************************************************************)
(* Operations awaited from asio coroutines: the conversions of             *)
(* send_awaitable and recv_awaitable to asio::awaitable (src/qp.cc) and    *)
(* the asio dispatch of a completion (src/executor.cc).                    *)
(*                                                                         *)
(* Four kinds of threads meet here.  The initiating function of            *)
(* async_compose runs on the thread that runs the coroutine: the           *)
(* io_context's, or a poller's, since self->complete resumes the coroutine *)
(* inline on the poller's thread.  The handler of a receive's cancellation *)
(* slot runs on the thread that emits the signal, the io_context's in      *)
(* examples/cancellation.cc, so a signal may come at any time after        *)
(* slot.assign, before or after the receive is posted.  The poller thread  *)
(* of each CQ runs the callbacks; the thread that drops the last reference *)
(* to the QP runs its destructor.                                          *)
(***************************************************************************)
EXTENDS CqPoller

VARIABLES
  pc,           \* where the initiating function of each operation is
  cb,           \* its heap-allocated callback, whose address is the wr_id
  flag,         \* complete_called
  slot,         \* the cancellation handler of a receive
  coro,         \* what the awaiting coroutine has got
  completions,  \* how many times self->complete was called
  crashed       \* has std::terminate been called?

asioVars == <<pc, cb, flag, slot, coro, completions, crashed>>
vars == <<verbsVars, pollerVars, asioVars>>

(* "made": the callback exists, suspend is about to lock the weak_ptr;     *)
(* "locked": it holds a shared_ptr and is about to post; "posted": suspend *)
(* returned true, "failed": false; "ret": the initiating function is over. *)
PcStates == {"idle", "made", "locked", "posted", "failed", "ret"}

(* "off": no handler assigned; "armed": assigned; "won": running, has set  *)
(* complete_called and is about to lock self; "spent": has returned after  *)
(* completing self or finding the flag set; "skipped": has returned by the *)
(* branch that logs "cancelled by signal, but recv done, skipped".         *)
SlotStates == {"off", "armed", "won", "spent", "skipped"}

(* "abandoned": the composed operation was destroyed without a completion, *)
(* so asio has destroyed the waiting coroutine.                            *)
CoroStates == {"idle", "waiting", "ok", "aborted", "abandoned"}

AsioTypeOK ==
  /\ pc \in [Ops -> PcStates]
  /\ cb \in [Ops -> {"none", "live", "freed"}]
  /\ flag \in [Ops -> BOOLEAN]
  /\ slot \in [Ops -> SlotStates]
  /\ coro \in [Ops -> CoroStates]
  /\ completions \in [Ops -> Nat]
  /\ crashed \in BOOLEAN

(* The variables range over the states of the code they model.             *)
TypeOK == VerbsTypeOK /\ PollerTypeOK /\ AsioTypeOK

Init ==
  /\ VerbsInit
  /\ PollerInit
  /\ pc = [o \in Ops |-> "idle"]
  /\ cb = [o \in Ops |-> "none"]
  /\ flag = [o \in Ops |-> FALSE]
  /\ slot = [o \in Ops |-> "off"]
  /\ coro = [o \in Ops |-> "idle"]
  /\ completions = [o \in Ops |-> 0]
  /\ crashed = FALSE

-----------------------------------------------------------------------------
(* References.                                                             *)

(* Operations inside suspend that hold a shared_ptr to the QP.             *)
QpRefs == {o \in Ops : pc[o] = "locked"}

(* Mutant: the callback captures self as a weak_ptr.                       *)
SelfHeldWeakly(p, b) == p \in {"made", "locked", "posted", "failed"}

(* The composed operation self is shared by the running initiating         *)
(* function and the callback; the cancellation handler only observes it.   *)
SelfHeld(p, b) == p \in {"made", "locked", "posted", "failed"} \/ b = "live"

SelfAlive(o) == SelfHeld(pc[o], cb[o])

(* The coroutine of o after its references become those of p and b.        *)
AfterRelease(o, p, b) ==
  IF coro[o] = "waiting" /\ ~SelfHeld(p, b)
  THEN [coro EXCEPT ![o] = "abandoned"]
  ELSE coro

(* self->complete(...): asio resumes the coroutine with the outcome.       *)
CompleteSelf(o, outcome) ==
  /\ completions' = [completions EXCEPT ![o] = @ + 1]
  /\ coro' = [coro EXCEPT ![o] = outcome]

-----------------------------------------------------------------------------
(* The initiating function.                                                *)

(* co_await: the awaitable moves to the heap, self is shared and the       *)
(* callback made; a receive first assigns the cancellation handler when    *)
(* the coroutine has a cancellation slot.  The callback is one step with   *)
(* the assignment: until suspend, only this function can see it.           *)
Start(o) ==
  /\ pc[o] = "idle"
  /\ pc' = [pc EXCEPT ![o] = "made"]
  /\ cb' = [cb EXCEPT ![o] = "live"]
  /\ coro' = [coro EXCEPT ![o] = "waiting"]
  /\ \E s \in {"off", "armed"} :
       /\ o \in SendOps => s = "off"
       /\ slot' = [slot EXCEPT ![o] = s]
  /\ UNCHANGED <<flag, completions, crashed, pollerVars, verbsVars>>

(* suspend: qp_.lock().                                                    *)
LockQp(o) ==
  /\ pc[o] = "made"
  /\ pc' = [pc EXCEPT ![o] = IF QpAlive(QpRefs) THEN "locked" ELSE "failed"]
  /\ UNCHANGED <<cb, flag, slot, coro, completions, crashed,
                 pollerVars, verbsVars>>

(* suspend: the request is posted, the shared_ptr dropped.                 *)
Post(o) ==
  /\ pc[o] = "locked"
  /\ PostWr(o)
  /\ pc' = [pc EXCEPT ![o] = "posted"]
  /\ dtor' = AfterDrop(userRef, QpRefs \ {o})
  /\ UNCHANGED <<qpState, userRef, status, cq, overrun, pollerVars,
                 cb, flag, slot, coro, completions, crashed>>

(* Mutant: suspend returns true although the request was not posted.       *)
PostThrowsIgnored(o) ==
  /\ pc[o] = "locked"
  /\ ~Room(o)
  /\ pc' = [pc EXCEPT ![o] = "posted"]
  /\ dtor' = AfterDrop(userRef, QpRefs \ {o})
  /\ UNCHANGED <<qpState, userRef, wr, status, cq, overrun, pollerVars,
                 cb, flag, slot, coro, completions, crashed>>

(* suspend: the work queue is full, post_send or post_recv throws and the  *)
(* exception is kept in exception_.                                        *)
PostThrows(o) ==
  /\ pc[o] = "locked"
  /\ ~Room(o)
  /\ pc' = [pc EXCEPT ![o] = "failed"]
  /\ dtor' = AfterDrop(userRef, QpRefs \ {o})
  /\ UNCHANGED <<qpState, userRef, wr, status, cq, overrun, pollerVars,
                 cb, flag, slot, coro, completions, crashed>>

(* Mutant: the callback is not destroyed.                                  *)
FailSuspendLeaks(o) ==
  /\ pc[o] = "failed"
  /\ pc' = [pc EXCEPT ![o] = "ret"]
  /\ UNCHANGED <<cb, flag, slot, coro, completions, crashed,
                 pollerVars, verbsVars>>

(* suspend returned false: the callback is destroyed and the function ends. *)
FailSuspend(o) ==
  /\ pc[o] = "failed"
  /\ pc' = [pc EXCEPT ![o] = "ret"]
  /\ cb' = [cb EXCEPT ![o] = "freed"]
  /\ coro' = AfterRelease(o, "ret", "freed")
  /\ UNCHANGED <<flag, slot, completions, crashed, pollerVars, verbsVars>>

(* suspend returned true: the function ends and drops its own references.  *)
Return(o) ==
  /\ pc[o] = "posted"
  /\ pc' = [pc EXCEPT ![o] = "ret"]
  /\ coro' = AfterRelease(o, "ret", cb[o])
  /\ UNCHANGED <<cb, flag, slot, completions, crashed, pollerVars, verbsVars>>

-----------------------------------------------------------------------------
(* The cancellation handler of a receive, for a signal of a type other     *)
(* than none (which it ignores).  A second signal always finds the flag    *)
(* set and does nothing, so one per operation is enough.                   *)

Cancel(o) ==
  /\ slot[o] = "armed"
  /\ flag' = [flag EXCEPT ![o] = TRUE]
  /\ slot' = [slot EXCEPT ![o] = IF flag[o] THEN "spent" ELSE "won"]
  /\ UNCHANGED <<pc, cb, coro, completions, crashed, pollerVars, verbsVars>>

(* Mutant: the handler also destroys the callback it made useless.         *)
CancelFreesCallback(o) ==
  /\ slot[o] = "won"
  /\ SelfAlive(o)
  /\ slot' = [slot EXCEPT ![o] = "spent"]
  /\ cb' = [cb EXCEPT ![o] = "freed"]
  /\ CompleteSelf(o, "aborted")
  /\ UNCHANGED <<pc, flag, crashed, pollerVars, verbsVars>>

(* self_ptr_view.lock() succeeds: complete with operation_aborted.         *)
CancelCompletes(o) ==
  /\ slot[o] = "won"
  /\ SelfAlive(o)
  /\ slot' = [slot EXCEPT ![o] = "spent"]
  /\ CompleteSelf(o, "aborted")
  /\ UNCHANGED <<pc, cb, flag, crashed, pollerVars, verbsVars>>

(* self_ptr_view.lock() fails.                                             *)
CancelSkips(o) ==
  /\ slot[o] = "won"
  /\ ~SelfAlive(o)
  /\ slot' = [slot EXCEPT ![o] = "skipped"]
  /\ UNCHANGED <<pc, cb, flag, coro, completions, crashed,
                 pollerVars, verbsVars>>

-----------------------------------------------------------------------------
(* execute_callback<use_asio_awaitable_t>, on the poller thread of c.      *)

(* Mutant: wc_status is not checked.                                       *)
CompleteUnchecked(o) == CompleteSelf(o, "ok") /\ UNCHANGED crashed

(* complete(self, awaitable): resume() throws on a bad wc_status, and the  *)
(* function is noexcept.                                                   *)
CompleteFromWc(o) ==
  IF status[o] = "ok"
  THEN CompleteSelf(o, "ok") /\ UNCHANGED crashed
  ELSE crashed' = TRUE /\ UNCHANGED <<completions, coro>>

(* The callback of a send completes self.                                  *)
InvokeSend(c) ==
  /\ poller[c] = "process"
  /\ Head(batch[c]) \in SendOps
  /\ CompleteFromWc(Head(batch[c]))
  /\ poller' = [poller EXCEPT ![c] = "invoked"]
  /\ UNCHANGED <<batch, stop, verbsVars, pc, cb, flag, slot>>

(* Mutant: the callback completes self without asking complete_called.     *)
InvokeRecvAlways(c) ==
  /\ poller[c] = "process"
  /\ Head(batch[c]) \in RecvOps
  /\ flag' = [flag EXCEPT ![Head(batch[c])] = TRUE]
  /\ poller' = [poller EXCEPT ![c] = "won"]
  /\ UNCHANGED <<batch, stop, verbsVars, pc, cb, slot, coro, completions,
                 crashed>>

(* Mutant: the callback of a cancelled receive is not destroyed.           *)
InvokeRecvLeaks(c) ==
  LET o == Head(batch[c]) IN
  /\ poller[c] = "process"
  /\ o \in RecvOps
  /\ flag' = [flag EXCEPT ![o] = TRUE]
  /\ IF flag[o]
     THEN Dispatched(c)
     ELSE poller' = [poller EXCEPT ![c] = "won"] /\ UNCHANGED <<batch, wr>>
  /\ UNCHANGED <<qpState, userRef, dtor, status, cq, overrun, stop,
                 pc, cb, slot, coro, completions, crashed>>

(* The callback of a receive tests and sets complete_called.               *)
InvokeRecv(c) ==
  LET o == Head(batch[c]) IN
  /\ poller[c] = "process"
  /\ o \in RecvOps
  /\ flag' = [flag EXCEPT ![o] = TRUE]
  /\ poller' = [poller EXCEPT ![c] = IF flag[o] THEN "invoked" ELSE "won"]
  /\ UNCHANGED <<batch, stop, verbsVars, pc, cb, slot, coro, completions,
                 crashed>>

(* ... and, having won, completes self.                                    *)
CompleteRecv(c) ==
  /\ poller[c] = "won"
  /\ CompleteFromWc(Head(batch[c]))
  /\ poller' = [poller EXCEPT ![c] = "invoked"]
  /\ UNCHANGED <<batch, stop, verbsVars, pc, cb, flag, slot>>

(* destroy_callback.                                                       *)
DestroyCallback(c) ==
  LET o == Head(batch[c]) IN
  /\ poller[c] = "invoked"
  /\ cb' = [cb EXCEPT ![o] = "freed"]
  /\ coro' = AfterRelease(o, pc[o], "freed")
  /\ Dispatched(c)
  /\ UNCHANGED <<qpState, userRef, dtor, status, cq, overrun, stop,
                 pc, flag, slot, completions, crashed>>

-----------------------------------------------------------------------------
OpStep(o) ==
  Start(o) \/ LockQp(o) \/ Post(o) \/ PostThrows(o) \/ FailSuspend(o) \/ Return(o)

CancelStep(o) == Cancel(o) \/ CancelCompletes(o) \/ CancelSkips(o)

NicStep(o) == (NicSucceed(o) \/ NicFail(o)) /\ UNCHANGED <<pollerVars, asioVars>>

PollerStep(c) ==
  \/ (Check(c) \/ Poll(c) \/ PollThrows(c)) /\ UNCHANGED asioVars
  \/ InvokeSend(c) \/ InvokeRecv(c) \/ CompleteRecv(c) \/ DestroyCallback(c)

DropStep == DropUserRef(QpRefs) /\ UNCHANGED <<pollerVars, asioVars>>

DtorStep == (Err \/ Destroy) /\ UNCHANGED <<pollerVars, asioVars>>

StopStep(c) == RequestStop(c) /\ UNCHANGED asioVars

(* std::terminate ends every thread.                                       *)
Next ==
  /\ ~crashed
  /\ \/ \E o \in Ops : OpStep(o) \/ CancelStep(o) \/ NicStep(o)
     \/ \E c \in Cqs : PollerStep(c) \/ StopStep(c)
     \/ DropStep \/ DtorStep

Spec == Init /\ [][Next]_vars

(* Threads that have started a function finish it; the poller keeps        *)
(* polling; the NIC reports every send (the peer keeps receives posted:    *)
(* rnr_retry is infinite) and flushes everything on a QP in error.         *)
Fairness ==
  /\ \A o \in Ops :
       /\ WF_vars(~crashed /\ pc[o] # "idle" /\ OpStep(o))
       /\ WF_vars(~crashed /\ (o \in SendOps \/ qpState = "ERR") /\ NicStep(o))
  /\ \A o \in RecvOps : WF_vars(~crashed /\ slot[o] = "won" /\ CancelStep(o))
  /\ \A c \in Cqs : WF_vars(~crashed /\ PollerStep(c))
  /\ WF_vars(~crashed /\ DtorStep)

FairSpec == Spec /\ Fairness

-----------------------------------------------------------------------------
(* Properties.                                                             *)

(* A coroutine is completed at most once, although its cancellation        *)
(* handler and its callback may run at the same time on two threads: the   *)
(* test-and-set of complete_called arbitrates between them.                *)
CompletedOnce == \A o \in Ops : completions[o] <= 1

(* As long as the NIC, a CQ or a poller holds the wr_id of an operation,   *)
(* the callback it points to is allocated; with it live the awaitable and  *)
(* the memory region the awaitable registered.  In particular neither the  *)
(* failure path of suspend nor a cancellation frees it, and the poller     *)
(* never invokes or deletes a deleted callback.                            *)
CallbackLive ==
  \A o \in Ops : wr[o] \in {"posted", "cqe", "polled"} => cb[o] = "live"

(* A coroutine whose request reached the NIC is never destroyed            *)
(* unresolved, however early the poller runs its callback, unless a        *)
(* cancellation handler has set complete_called before the callback did.   *)
PostedNotAbandoned ==
  \A o \in Ops : coro[o] = "abandoned" =>
                   wr[o] = "idle" \/ slot[o] \in {"won", "skipped"}

Contract == INSTANCE OpContract WITH
              phase <- coro,
              wire <- [o \in Ops |-> Wire(o)]

(* Awaiting an operation from an asio coroutine honours OpContract.        *)
HonoursContract == Contract!ContractSpec

(* A send a coroutine waits for is resolved (or std::terminate is called), *)
(* unless the QP is destroyed under it, its completion is lost to a CQ     *)
(* overrun, or its poller has stopped.                                     *)
SendResolved ==
  \A o \in SendOps :
    []<>(\/ coro[o] # "waiting"
         \/ wr[o] = "lost"
         \/ poller[SendCq] = "exited"
         \/ crashed)

(* The callback of a cancelled receive, which the NIC still refers to, is  *)
(* freed once the QP is in error and its requests are flushed, or the QP   *)
(* is gone; so no callback of an aborted receive outlives the connection,  *)
(* even when the signal came before the receive was posted.                *)
CancelledReclaimed ==
  \A o \in RecvOps :
    []<>(\/ coro[o] # "aborted"
         \/ qpState = "RTS"
         \/ cb[o] = "freed"
         \/ wr[o] = "lost"
         \/ poller[RecvCq] = "exited"
         \/ crashed)

-----------------------------------------------------------------------------
(* The inductive invariant behind CompletedOnce, CallbackLive and          *)
(* PostedNotAbandoned.                                                     *)

(* Until suspend has posted the request nobody but the cancellation        *)
(* handler knows the operation; from then on the callback belongs to the   *)
(* wr_id.                                                                  *)
PostingInv(o) ==
  /\ pc[o] = "idle" =>
       wr[o] = "idle" /\ cb[o] = "none" /\ coro[o] = "idle" /\ ~flag[o]
  /\ pc[o] \in {"made", "locked", "failed"} =>
       wr[o] = "idle" /\ cb[o] = "live" /\ coro[o] \in {"waiting", "aborted"}
  /\ wr[o] \in {"posted", "cqe", "polled"} =>
       cb[o] = "live" /\ pc[o] \in {"posted", "ret"}
  /\ pc[o] = "posted" \/ (pc[o] = "ret" /\ cb[o] = "live") => wr[o] # "idle"

(* The right to complete self exists once: it is held by the cancellation  *)
(* handler or by the poller, whichever set complete_called (for a send, by *)
(* the poller), and is used up by the completion.                          *)
RightInv(o) ==
  /\ slot[o] # "off" => o \in RecvOps /\ pc[o] # "idle"
  /\ slot[o] \in {"won", "spent", "skipped"} => flag[o]
  /\ slot[o] = "won" => completions[o] = 0 /\ ~AtHead(o, "won")
  /\ AtHead(o, "won") => o \in RecvOps /\ flag[o] /\ completions[o] = 0
  /\ o \in RecvOps /\ AtHead(o, "invoked") => flag[o]
  /\ o \in RecvOps /\ completions[o] # 0 => flag[o]
  /\ o \in SendOps /\ completions[o] # 0 => wr[o] = "done" \/ AtHead(o, "invoked")
  /\ completions[o] <= 1
  /\ completions[o] = 0 /\ SelfAlive(o) => coro[o] = "waiting"

(* A coroutine still waits only while somebody who can complete it is      *)
(* left, as long as the program runs.                                      *)
WaitingInv(o) ==
  ~crashed =>
    /\ coro[o] = "waiting" /\ flag[o] => slot[o] = "won" \/ AtHead(o, "won")
    /\ coro[o] = "waiting" /\ o \in SendOps => ~AtHead(o, "invoked")
    /\ coro[o] = "waiting" => SelfAlive(o)
    /\ coro[o] = "waiting" /\ cb[o] # "live" => slot[o] = "won"

OpInv(o) == PostingInv(o) /\ RightInv(o) /\ WaitingInv(o)

(* All of it, with PostedNotAbandoned, for every operation.                *)
IInv ==
  /\ QpInv
  /\ AsioTypeOK
  /\ \A o \in Ops : OpInv(o)
  /\ PostedNotAbandoned

-----------------------------------------------------------------------------
(* What the repository says of the code, and the code does not do.         *)

(* The cancellation handler's log line: when it finds self gone, "recv     *)
(* done, skipped".  So the coroutine of a completed receive whose handler  *)
(* took that branch has been resumed.                                      *)
SkippedMeansDone ==
  \A o \in RecvOps :
    slot[o] = "skipped" /\ wr[o] = "done" => completions[o] = 1

(* unhandled_exception "retrieves any exception that occurred during the   *)
(* operation": a failed completion reaches the coroutine as an exception   *)
(* and does not end the program.                                           *)
FailureIsDelivered == ~crashed
=============================================================================
