----------------------- MODULE AsioAwaitable_proofs -----------------------
(***************************************************************************)
(* Proofs that AsioAwaitable keeps its types, completes every coroutine at *)
(* most once, never uses a freed callback and abandons no posted operation *)
(* that is not being cancelled, for any number of operations, CQs, and any *)
(* sizes of the queues.                                                    *)
(***************************************************************************)
EXTENDS AsioAwaitable, CqPoller_proofs

-----------------------------------------------------------------------------
(* The QP, its queues and its pollers, whose steps CqPoller_proofs covers. *)

LEMMA InitQpInv == Init => QpInv
  BY InitQp DEF Init

(* Every step keeps their invariant.                                       *)
LEMMA StepQp ==
  ASSUME IInv, [Next]_vars
  PROVE  QpInv'
  <1>0. QpInv /\ VerbsTypeOK
    BY DEF IInv, QpInv
  <1>1. ASSUME NEW o \in Ops, OpStep(o) PROVE QpInv'
    <2>1. CASE Post(o)
      <3>1. wr[o] = "idle"
        BY <2>1 DEF Post, IInv, OpInv, PostingInv
      <3>2. QED
        BY <1>0, <2>1, <3>1, PostQp, AfterDropType DEF Post
    <2>2. CASE PostThrows(o)
      BY <1>0, <2>2, KeepQp, AfterDropType DEF PostThrows, pollerVars, VerbsTypeOK
    <2>3. CASE UNCHANGED <<verbsVars, pollerVars>>
      BY <1>0, <2>3, KeepQp DEF verbsVars, pollerVars, VerbsTypeOK
    <2>4. QED
      BY <1>1, <2>1, <2>2, <2>3 DEF OpStep, Start, LockQp, FailSuspend, Return
  <1>2. ASSUME NEW o \in Ops, CancelStep(o) PROVE QpInv'
    <2>1. UNCHANGED <<verbsVars, pollerVars>>
      BY <1>2 DEF CancelStep, Cancel, CancelCompletes, CancelSkips
    <2>2. QED
      BY <1>0, <2>1, KeepQp DEF verbsVars, pollerVars, VerbsTypeOK
  <1>3. ASSUME NEW o \in Ops, NicStep(o) PROVE QpInv'
    BY <1>0, <1>3, NicQp DEF NicStep
  <1>4. ASSUME NEW c \in Cqs, PollerStep(c) PROVE QpInv'
    <2>1. CASE Check(c) \/ Poll(c) \/ PollThrows(c)
      BY <1>0, <2>1, PollQp
    <2>2. CASE InvokeSend(c) \/ InvokeRecv(c) \/ CompleteRecv(c)
      <3>1. /\ poller[c] \in {"process", "won", "invoked"}
            /\ UNCHANGED <<batch, stop, verbsVars>>
            /\ \E p \in {"process", "won", "invoked"} : poller' = [poller EXCEPT ![c] = p]
        BY <2>2 DEF InvokeSend, InvokeRecv, CompleteRecv
      <3>2. QED
        BY <1>0, <3>1, InDispatchQp
    <2>3. CASE DestroyCallback(c)
      BY <1>0, <2>3, DispatchedQp DEF DestroyCallback
    <2>4. QED
      BY <1>4, <2>1, <2>2, <2>3 DEF PollerStep
  <1>5. CASE DropStep \/ DtorStep
    BY <1>0, <1>5, EndQp DEF DropStep, DtorStep
  <1>6. ASSUME NEW c \in Cqs, StopStep(c) PROVE QpInv'
    BY <1>0, <1>6, PollQp DEF StopStep
  <1>7. CASE UNCHANGED vars
    BY <1>0, <1>7, KeepQp DEF vars, verbsVars, pollerVars, VerbsTypeOK
  <1>8. QED
    BY <1>1, <1>2, <1>3, <1>4, <1>5, <1>6, <1>7 DEF Next

(* The queues are typed and hold what they should.                         *)
LEMMA QpFacts == IInv => TypeOK /\ QueuesInv /\ VerbsTypeOK /\ PollerTypeOK
  BY DEF IInv, QpInv, TypeOK

-----------------------------------------------------------------------------
(* Type correctness of the rest.                                           *)

(* The initial values have their types.                                    *)
LEMMA InitType == Init => AsioTypeOK
  <1> SUFFICES ASSUME Init PROVE AsioTypeOK
    OBVIOUS
  <1>1. pc \in [Ops -> PcStates] /\ cb \in [Ops -> {"none", "live", "freed"}]
    BY DEF Init, PcStates
  <1>2. slot \in [Ops -> SlotStates] /\ coro \in [Ops -> CoroStates]
    BY DEF Init, SlotStates, CoroStates
  <1>3. completions \in [Ops -> Nat]
    BY DEF Init
  <1>4. flag \in [Ops -> BOOLEAN] /\ crashed \in BOOLEAN
    BY Zenon DEF Init
  <1>5. QED
    BY <1>1, <1>2, <1>3, <1>4 DEF AsioTypeOK

(* Completing self from a completion changes these variables only.         *)
LEMMA CompleteType ==
  ASSUME AsioTypeOK, NEW o \in Ops, CompleteFromWc(o)
  PROVE  /\ completions' \in [Ops -> Nat]
         /\ coro' \in [Ops -> CoroStates]
         /\ crashed' \in BOOLEAN
  <1> USE DEF AsioTypeOK
  <1>1. CASE status[o] = "ok"
    BY <1>1 DEF CompleteFromWc, CompleteSelf, CoroStates
  <1>2. CASE status[o] # "ok"
    BY <1>2 DEF CompleteFromWc
  <1>3. QED
    BY <1>1, <1>2

(* Every step keeps the types.                                             *)
LEMMA StepType ==
  ASSUME IInv, [Next]_vars
  PROVE  AsioTypeOK'
  <1> USE DEF AsioTypeOK, PcStates, SlotStates, CoroStates
  <1>0. AsioTypeOK
    BY DEF IInv
  <1>1. ASSUME NEW o \in Ops, OpStep(o) PROVE AsioTypeOK'
    <2>1. CASE Start(o)        BY <1>0, <2>1 DEF Start
    <2>2. CASE LockQp(o)       BY <1>0, <2>2 DEF LockQp
    <2>3. CASE Post(o)         BY <1>0, <2>3 DEF Post
    <2>4. CASE PostThrows(o)   BY <1>0, <2>4 DEF PostThrows
    <2>5. CASE FailSuspend(o)  BY <1>0, <2>5 DEF FailSuspend, AfterRelease
    <2>6. CASE Return(o)       BY <1>0, <2>6 DEF Return, AfterRelease
    <2>7. QED
      BY <1>1, <2>1, <2>2, <2>3, <2>4, <2>5, <2>6 DEF OpStep
  <1>2. ASSUME NEW o \in Ops, CancelStep(o) PROVE AsioTypeOK'
    <2>1. CASE Cancel(o)          BY <1>0, <2>1 DEF Cancel
    <2>2. CASE CancelCompletes(o) BY <1>0, <2>2 DEF CancelCompletes, CompleteSelf
    <2>3. CASE CancelSkips(o)     BY <1>0, <2>3 DEF CancelSkips
    <2>4. QED
      BY <1>2, <2>1, <2>2, <2>3 DEF CancelStep
  <1>3. ASSUME NEW c \in Cqs, PollerStep(c) PROVE AsioTypeOK'
    <2>1. CASE UNCHANGED asioVars
      BY <1>0, <2>1 DEF asioVars
    <2>2. poller[c] \in {"process", "won", "invoked"} => Head(batch[c]) \in Ops
      BY QpFacts, HeadFacts
    <2>3. CASE InvokeSend(c)
      BY <1>0, <2>2, <2>3, CompleteType DEF InvokeSend
    <2>4. CASE InvokeRecv(c)
      BY <1>0, <2>4 DEF InvokeRecv
    <2>5. CASE CompleteRecv(c)
      BY <1>0, <2>2, <2>5, CompleteType DEF CompleteRecv
    <2>6. CASE DestroyCallback(c)
      BY <1>0, <2>6 DEF DestroyCallback, AfterRelease
    <2>7. QED
      BY <1>3, <2>1, <2>3, <2>4, <2>5, <2>6 DEF PollerStep
  <1>4. CASE UNCHANGED asioVars
    BY <1>0, <1>4 DEF asioVars
  <1>5. QED
    BY <1>1, <1>2, <1>3, <1>4 DEF Next, NicStep, StopStep, DropStep, DtorStep, vars

-----------------------------------------------------------------------------
(* The operations.                                                         *)

Kept(o) == OpInv(o) /\ (coro[o] = "abandoned" =>
                          wr[o] = "idle" \/ slot[o] \in {"won", "skipped"})

LEMMA KeptIsIInv ==
  IInv <=> QpInv /\ AsioTypeOK /\ \A o \in Ops : Kept(o)
  BY DEF IInv, Kept, PostedNotAbandoned

(* A step that does not concern an operation keeps what is known of it.    *)
LEMMA KeepOp ==
  ASSUME NEW o \in Ops, Kept(o), ~crashed,
         UNCHANGED <<pc[o], cb[o], flag[o], slot[o], coro[o], completions[o], wr[o]>>,
         AtHead(o, "won")' <=> AtHead(o, "won"),
         AtHead(o, "invoked")' <=> AtHead(o, "invoked")
  PROVE  Kept(o)'
  BY DEF Kept, OpInv, PostingInv, RightInv, WaitingInv, SelfAlive, SelfHeld

(* The initial state satisfies the invariant.                              *)
LEMMA InitIInv == Init => IInv
  <1> SUFFICES ASSUME Init PROVE IInv
    OBVIOUS
  <1>1. QpInv /\ AsioTypeOK
    BY InitType, InitQpInv
  <1>2. ASSUME NEW o \in Ops PROVE Kept(o)
    <2>1. CqOf(o) \in Cqs
      BY CqOfType
    <2>2. ~AtHead(o, "won") /\ ~AtHead(o, "invoked")
      BY <2>1 DEF Init, PollerInit, AtHead
    <2>3. QED
      BY <2>2 DEF Init, VerbsInit, Kept, OpInv, PostingInv, RightInv, WaitingInv,
         SelfAlive, SelfHeld
  <1>3. QED
    BY <1>1, <1>2, KeptIsIInv

(* Steps of the initiating function.  Before the request is posted o is in *)
(* no batch, so no poller is dispatching it.                               *)
LEMMA OpStepKept ==
  ASSUME IInv, ~crashed, NEW o \in Ops, OpStep(o), NEW q \in Ops
  PROVE  Kept(q)'
  <1>1. UNCHANGED <<poller, batch>>
    BY DEF OpStep, Start, LockQp, Post, PostThrows, FailSuspend, Return, pollerVars
  <1>2. /\ AtHead(q, "won")' <=> AtHead(q, "won")
        /\ AtHead(q, "invoked")' <=> AtHead(q, "invoked")
    BY <1>1 DEF AtHead, CqOf
  <1>3. Kept(q)
    BY KeptIsIInv
  <1>4. TypeOK
    BY QpFacts
  <1>5. wr[q] = "idle" => ~AtHead(q, "won") /\ ~AtHead(q, "invoked")
    BY CqOfType, HeadFacts, QpFacts DEF AtHead
  <1>6. CASE q # o
    <2>1. UNCHANGED <<pc[q], cb[q], flag[q], slot[q], coro[q], completions[q], wr[q]>>
      BY <1>4, <1>6 DEF OpStep, Start, LockQp, Post, PostWr, PostThrows, FailSuspend,
         Return, AfterRelease, verbsVars, TypeOK, VerbsTypeOK, AsioTypeOK
    <2>2. QED
      BY <2>1, <1>2, <1>3, KeepOp
  <1>7. CASE q = o
    <2> USE <1>2, <1>3, <1>4, <1>5, <1>7
        DEF Kept, OpInv, PostingInv, RightInv, WaitingInv, SelfAlive, SelfHeld,
            TypeOK, VerbsTypeOK, AsioTypeOK, verbsVars, pollerVars
    <2>1. CASE Start(o)
      <3>1. /\ pc[o] = "idle" /\ pc'[o] = "made"
            /\ cb'[o] = "live" /\ coro'[o] = "waiting"
            /\ slot'[o] \in {"off", "armed"} /\ (o \in SendOps => slot'[o] = "off")
            /\ UNCHANGED <<flag[o], completions[o], wr[o], crashed>>
        BY <2>1 DEF Start
      <3>2. ~flag[o] /\ wr[o] = "idle" /\ ~AtHead(o, "won") /\ ~AtHead(o, "invoked")
        BY <3>1
      <3>3. o \in SendOps \/ o \in RecvOps
        BY DEF Ops
      <3>4. QED
        BY <3>1, <3>2, <3>3
    <2>2. CASE LockQp(o)       BY <2>2 DEF LockQp
    <2>3. CASE Post(o)         BY <2>3 DEF Post, PostWr
    <2>4. CASE PostThrows(o)   BY <2>4 DEF PostThrows
    <2>5. CASE FailSuspend(o)
      <3>1. /\ pc[o] = "failed" /\ pc'[o] = "ret" /\ cb'[o] = "freed"
            /\ UNCHANGED <<flag[o], slot[o], completions[o], wr[o], crashed>>
        BY <2>5 DEF FailSuspend
      <3>2. /\ coro[o] \in {"waiting", "aborted"} /\ wr[o] = "idle"
            /\ ~AtHead(o, "won") /\ ~AtHead(o, "invoked")
        BY <3>1
      <3>3. coro'[o] = IF coro[o] = "waiting" THEN "abandoned" ELSE "aborted"
        BY <2>5, <3>2 DEF FailSuspend, AfterRelease, SelfHeld
      <3>4. ~SelfAlive(o)'
        BY <3>1 DEF SelfAlive, SelfHeld
      <3>5. QED
        BY <3>1, <3>2, <3>3, <3>4
    <2>6. CASE Return(o)
      <3>1. /\ pc[o] = "posted" /\ pc'[o] = "ret" /\ wr[o] # "idle"
            /\ UNCHANGED <<cb[o], flag[o], slot[o], completions[o], wr[o], crashed>>
        BY <2>6 DEF Return
      <3>2. SelfAlive(o) /\ (SelfAlive(o)' <=> cb[o] = "live")
        BY <3>1 DEF SelfAlive, SelfHeld
      <3>3. CASE coro[o] = "waiting" /\ cb[o] # "live"
        <4>1. coro'[o] = "abandoned"
          BY <2>6, <3>3 DEF Return, AfterRelease, SelfHeld
        <4>2. slot[o] = "won"
          BY <3>3
        <4>3. QED
          BY <3>1, <3>2, <3>3, <4>1, <4>2
      <3>4. CASE coro[o] # "waiting" \/ cb[o] = "live"
        <4>1. coro'[o] = coro[o]
          BY <2>6, <3>4 DEF Return, AfterRelease, SelfHeld
        <4>2. QED
          BY <3>1, <3>2, <3>4, <4>1
      <3>5. QED
        BY <3>3, <3>4
    <2>7. QED
      BY <2>1, <2>2, <2>3, <2>4, <2>5, <2>6 DEF OpStep
  <1>8. QED
    BY <1>6, <1>7

(* Steps of the cancellation handler.                                      *)
LEMMA CancelStepKept ==
  ASSUME IInv, ~crashed, NEW o \in Ops, CancelStep(o), NEW q \in Ops
  PROVE  Kept(q)'
  <1>1. UNCHANGED <<poller, batch>>
    BY DEF CancelStep, Cancel, CancelCompletes, CancelSkips, pollerVars
  <1>2. /\ AtHead(q, "won")' <=> AtHead(q, "won")
        /\ AtHead(q, "invoked")' <=> AtHead(q, "invoked")
    BY <1>1 DEF AtHead, CqOf
  <1>3. Kept(q)
    BY KeptIsIInv
  <1>4. TypeOK
    BY QpFacts
  <1>5. CASE q # o
    <2>1. UNCHANGED <<pc[q], cb[q], flag[q], slot[q], coro[q], completions[q], wr[q]>>
      BY <1>4, <1>5 DEF CancelStep, Cancel, CancelCompletes, CancelSkips, CompleteSelf,
         verbsVars, TypeOK, VerbsTypeOK, AsioTypeOK
    <2>2. QED
      BY <2>1, <1>2, <1>3, KeepOp
  <1>6. CASE q = o
    <2> USE <1>2, <1>3, <1>4, <1>6, OpsAssumption
        DEF Kept, OpInv, PostingInv, RightInv, WaitingInv, SelfAlive, SelfHeld,
            TypeOK, VerbsTypeOK, AsioTypeOK, verbsVars, pollerVars
    <2>1. CASE Cancel(o)
      <3>1. /\ flag'[o] /\ slot'[o] = IF flag[o] THEN "spent" ELSE "won"
            /\ UNCHANGED <<pc[o], cb[o], coro[o], completions[o], wr[o], crashed>>
            /\ slot[o] = "armed"
        BY <2>1 DEF Cancel
      <3>2. pc[o] # "idle" /\ (SelfAlive(o)' <=> SelfAlive(o))
        BY <3>1 DEF SelfAlive
      <3>3. CASE flag[o]   BY <3>1, <3>2, <3>3
      <3>4. CASE ~flag[o]  BY <3>1, <3>2, <3>4
      <3>5. QED
        BY <3>3, <3>4
    <2>2. CASE CancelCompletes(o)
      <3>1. /\ slot[o] = "won" /\ slot'[o] = "spent" /\ coro'[o] = "aborted"
            /\ completions'[o] = completions[o] + 1
            /\ UNCHANGED <<pc[o], cb[o], flag[o], wr[o], crashed>>
        BY <2>2 DEF CancelCompletes, CompleteSelf
      <3>2. completions[o] = 0 /\ flag[o] /\ o \in RecvOps /\ ~AtHead(o, "won")
        BY <3>1
      <3>3. QED
        BY <3>1, <3>2
    <2>3. CASE CancelSkips(o)
      <3>1. /\ slot[o] = "won" /\ slot'[o] = "skipped" /\ ~SelfAlive(o)
            /\ UNCHANGED <<pc[o], cb[o], coro[o], completions[o], flag[o], wr[o],
                           crashed>>
        BY <2>3 DEF CancelSkips
      <3>2. flag[o] /\ pc[o] # "idle" /\ o \in RecvOps /\ ~AtHead(o, "won")
        BY <3>1
      <3>3. coro[o] # "waiting" /\ ~SelfAlive(o)'
        BY <3>1 DEF SelfAlive
      <3>4. QED
        BY <3>1, <3>2, <3>3
    <2>4. QED
      BY <2>1, <2>2, <2>3 DEF CancelStep
  <1>7. QED
    BY <1>5, <1>6

(* The NIC and the end of the QP and of the pollers: they only move work   *)
(* requests nobody dispatches.                                             *)
LEMMA OtherStepKept ==
  ASSUME IInv, ~crashed, NEW q \in Ops,
         \/ \E o \in Ops : NicStep(o)
         \/ \E c \in Cqs : StopStep(c)
         \/ DropStep \/ DtorStep
  PROVE  Kept(q)'
  <1>1. UNCHANGED <<poller, batch, asioVars>>
    BY DEF NicStep, StopStep, RequestStop, DropStep, DtorStep, pollerVars
  <1>2. /\ AtHead(q, "won")' <=> AtHead(q, "won")
        /\ AtHead(q, "invoked")' <=> AtHead(q, "invoked")
    BY <1>1 DEF AtHead, CqOf
  <1>3. Kept(q)
    BY KeptIsIInv
  <1>4. wr'[q] = wr[q] \/ (wr[q] \in {"posted", "cqe"} /\ wr'[q] \in {"cqe", "lost"})
    BY QpFacts DEF NicStep, NicSucceed, NicFail, WriteCqe, StopStep, RequestStop, DropStep,
       DropUserRef, DtorStep, Err, Destroy, verbsVars, IInv, TypeOK, VerbsTypeOK
  <1>5. QED
    BY <1>1, <1>2, <1>3, <1>4 DEF Kept, OpInv, PostingInv, RightInv, WaitingInv,
       SelfAlive, SelfHeld, asioVars

(* The steps of a poller that dispatch nothing.                            *)
LEMMA PollKept ==
  ASSUME IInv, ~crashed, NEW c \in Cqs, NEW q \in Ops, UNCHANGED asioVars,
         Check(c) \/ Poll(c) \/ PollThrows(c)
  PROVE  Kept(q)'
  <1>1. TypeOK /\ QueuesInv /\ VerbsTypeOK /\ PollerTypeOK /\ Kept(q)
    BY KeptIsIInv, QpFacts
  <1>2. /\ poller[c] \in {"check", "poll"}
        /\ poller'[c] \in {"check", "poll", "process", "exited"}
        /\ \A e \in Cqs \ {c} : poller'[e] = poller[e] /\ batch'[e] = batch[e]
    BY <1>1 DEF Check, Poll, PollThrows, TypeOK, PollerTypeOK
  <1>3. /\ AtHead(q, "won")' <=> AtHead(q, "won")
        /\ AtHead(q, "invoked")' <=> AtHead(q, "invoked")
    BY <1>2, CqOfType DEF AtHead, CqOf
  <1>4. wr'[q] = wr[q] \/ (wr[q] = "cqe" /\ wr'[q] = "polled")
    <2>1. CASE Poll(c)
      <3>1. wr'[q] = IF q \in Heads(cq[c], PolledCount(c)) THEN "polled" ELSE wr[q]
        BY <2>1 DEF Poll
      <3>2. q \in Heads(cq[c], PolledCount(c)) => wr[q] = "cqe"
        BY <1>1, PolledCountType, QueueElems DEF Heads, QueuesInv, HoldsOnce
      <3>3. QED
        BY <3>1, <3>2
    <2>2. CASE Check(c) \/ PollThrows(c)
      BY <2>2 DEF Check, PollThrows, verbsVars
    <2>3. QED
      BY <2>1, <2>2
  <1>5. QED
    BY <1>1, <1>3, <1>4 DEF Kept, OpInv, PostingInv, RightInv, WaitingInv,
       SelfAlive, SelfHeld, asioVars

(* The poller step concerns only the operation it dispatches.              *)
LEMMA OthersNotAtHead ==
  ASSUME IInv, NEW c \in Cqs, NEW q \in Ops, q # Head(batch[c]),
         UNCHANGED batch, \A e \in Cqs \ {c} : poller'[e] = poller[e]
  PROVE  /\ AtHead(q, "won")' <=> AtHead(q, "won")
         /\ AtHead(q, "invoked")' <=> AtHead(q, "invoked")
  BY CqOfType DEF AtHead, CqOf

(* The callback of a send.                                                 *)
LEMMA InvokeSendKept ==
  ASSUME IInv, ~crashed, NEW c \in Cqs, NEW q \in Ops, InvokeSend(c)
  PROVE  Kept(q)'
  <1> DEFINE h == Head(batch[c])
  <1>1. TypeOK /\ QueuesInv /\ VerbsTypeOK /\ PollerTypeOK /\ Kept(q)
    BY KeptIsIInv, QpFacts
  <1>2. /\ poller[c] = "process" /\ poller'[c] = "invoked"
        /\ \A e \in Cqs \ {c} : poller'[e] = poller[e]
        /\ UNCHANGED <<batch, wr, status, pc, cb, flag, slot>>
    BY <1>1 DEF InvokeSend, TypeOK, PollerTypeOK, verbsVars
  <1>3. h \in SendOps /\ h \in Ops /\ CqOf(h) = c /\ wr[h] = "polled" /\ batch[c] # <<>>
    BY <1>1, <1>2, HeadFacts DEF InvokeSend
  <1>4. CompleteFromWc(h)
    BY DEF InvokeSend
  <1> HIDE DEF h
  <1>5. CASE q # h
    <2>1. coro'[q] = coro[q] /\ completions'[q] = completions[q]
      BY <1>1, <1>4, <1>5 DEF CompleteFromWc, CompleteSelf, TypeOK, AsioTypeOK
    <2>2. QED
      BY <1>1, <1>2, <1>5, <2>1, OthersNotAtHead, KeepOp DEF h
  <1>6. CASE q = h
    <2>1. /\ ~AtHead(q, "won") /\ ~AtHead(q, "invoked")
          /\ ~AtHead(q, "won")' /\ AtHead(q, "invoked")'
      BY <1>2, <1>3, <1>6 DEF AtHead, CqOf, h
    <2>2. q \notin RecvOps /\ slot[q] = "off" /\ completions[q] = 0
      BY <1>1, <1>3, <1>6, <2>1, OpsAssumption DEF Kept, OpInv, RightInv
    <2>3. CASE status[q] = "ok"
      <3>1. coro'[q] = "ok" /\ completions'[q] = 1 /\ UNCHANGED crashed
        BY <1>1, <1>4, <1>6, <2>2, <2>3 DEF CompleteFromWc, CompleteSelf, TypeOK, AsioTypeOK
      <3>2. QED
        BY <1>1, <1>2, <1>3, <1>6, <2>1, <2>2, <3>1
           DEF Kept, OpInv, PostingInv, RightInv, WaitingInv, SelfAlive, SelfHeld
    <2>4. CASE status[q] # "ok"
      <3>1. UNCHANGED <<coro, completions>> /\ crashed'
        BY <1>4, <1>6, <2>4 DEF CompleteFromWc
      <3>2. QED
        BY <1>1, <1>2, <1>3, <1>6, <2>1, <2>2, <3>1
           DEF Kept, OpInv, PostingInv, RightInv, WaitingInv, SelfAlive, SelfHeld
    <2>5. QED
      BY <2>3, <2>4
  <1>7. QED
    BY <1>5, <1>6

(* The callback of a receive takes the right to complete, or finds it gone. *)
LEMMA InvokeRecvKept ==
  ASSUME IInv, ~crashed, NEW c \in Cqs, NEW q \in Ops, InvokeRecv(c)
  PROVE  Kept(q)'
  <1> DEFINE h == Head(batch[c])
  <1>1. TypeOK /\ QueuesInv /\ VerbsTypeOK /\ PollerTypeOK /\ Kept(q)
    BY KeptIsIInv, QpFacts
  <1>2. /\ poller[c] = "process"
        /\ poller'[c] = IF flag[h] THEN "invoked" ELSE "won"
        /\ \A e \in Cqs \ {c} : poller'[e] = poller[e]
        /\ flag' = [flag EXCEPT ![h] = TRUE]
        /\ UNCHANGED <<batch, wr, pc, cb, slot, coro, completions, crashed>>
    BY <1>1 DEF InvokeRecv, TypeOK, PollerTypeOK, verbsVars
  <1>3. h \in RecvOps /\ h \in Ops /\ CqOf(h) = c /\ wr[h] = "polled" /\ batch[c] # <<>>
    BY <1>1, <1>2, HeadFacts DEF InvokeRecv
  <1>4. flag \in [Ops -> BOOLEAN]
    BY <1>1 DEF TypeOK, AsioTypeOK
  <1> HIDE DEF h
  <1>5. CASE q # h
    <2>1. flag'[q] = flag[q]
      BY <1>2, <1>3, <1>4, <1>5
    <2>2. QED
      BY <1>1, <1>2, <1>5, <2>1, OthersNotAtHead, KeepOp DEF h
  <1>6. CASE q = h
    <2>1. ~AtHead(q, "won") /\ ~AtHead(q, "invoked") /\ q \notin SendOps
      BY <1>2, <1>3, <1>6, OpsAssumption DEF AtHead, CqOf, h
    <2>2. flag'[q]
      BY <1>2, <1>3, <1>4, <1>6
    <2>3. CASE flag[q]
      <3>1. ~AtHead(q, "won")' /\ AtHead(q, "invoked")'
        BY <1>2, <1>3, <1>6, <2>3 DEF AtHead, CqOf, h
      <3>2. QED
        BY <1>1, <1>2, <1>3, <1>6, <2>1, <2>2, <2>3, <3>1
           DEF Kept, OpInv, PostingInv, RightInv, WaitingInv, SelfAlive, SelfHeld
    <2>4. CASE ~flag[q]
      <3>1. AtHead(q, "won")' /\ ~AtHead(q, "invoked")'
        BY <1>2, <1>3, <1>6, <2>4 DEF AtHead, CqOf, h
      <3>2. slot[q] # "won" /\ completions[q] = 0
        BY <1>1, <1>3, <1>6, <2>4 DEF Kept, OpInv, RightInv
      <3>3. QED
        BY <1>1, <1>2, <1>3, <1>6, <2>1, <2>2, <3>1, <3>2
           DEF Kept, OpInv, PostingInv, RightInv, WaitingInv, SelfAlive, SelfHeld
    <2>5. QED
      BY <2>3, <2>4
  <1>7. QED
    BY <1>5, <1>6

(* The callback that has taken it completes self.                          *)
LEMMA CompleteRecvKept ==
  ASSUME IInv, ~crashed, NEW c \in Cqs, NEW q \in Ops, CompleteRecv(c)
  PROVE  Kept(q)'
  <1> DEFINE h == Head(batch[c])
  <1>1. TypeOK /\ QueuesInv /\ VerbsTypeOK /\ PollerTypeOK /\ Kept(q)
    BY KeptIsIInv, QpFacts
  <1>2. /\ poller[c] = "won" /\ poller'[c] = "invoked"
        /\ \A e \in Cqs \ {c} : poller'[e] = poller[e]
        /\ UNCHANGED <<batch, wr, status, pc, cb, flag, slot>>
    BY <1>1 DEF CompleteRecv, TypeOK, PollerTypeOK, verbsVars
  <1>3. h \in Ops /\ CqOf(h) = c /\ wr[h] = "polled" /\ batch[c] # <<>>
    BY <1>1, <1>2, HeadFacts
  <1>4. CompleteFromWc(h)
    BY DEF CompleteRecv
  <1> HIDE DEF h
  <1>5. CASE q # h
    <2>1. coro'[q] = coro[q] /\ completions'[q] = completions[q]
      BY <1>1, <1>4, <1>5 DEF CompleteFromWc, CompleteSelf, TypeOK, AsioTypeOK
    <2>2. QED
      BY <1>1, <1>2, <1>5, <2>1, OthersNotAtHead, KeepOp DEF h
  <1>6. CASE q = h
    <2>1. /\ AtHead(q, "won") /\ ~AtHead(q, "invoked")
          /\ ~AtHead(q, "won")' /\ AtHead(q, "invoked")'
      BY <1>2, <1>3, <1>6 DEF AtHead, CqOf, h
    <2>2. q \in RecvOps /\ q \notin SendOps /\ flag[q] /\ completions[q] = 0 /\ slot[q] # "won"
      BY <1>1, <2>1, OpsAssumption DEF Kept, OpInv, RightInv
    <2>3. CASE status[q] = "ok"
      <3>1. coro'[q] = "ok" /\ completions'[q] = 1 /\ UNCHANGED crashed
        BY <1>1, <1>4, <1>6, <2>2, <2>3 DEF CompleteFromWc, CompleteSelf, TypeOK, AsioTypeOK
      <3>2. QED
        BY <1>1, <1>2, <1>3, <1>6, <2>1, <2>2, <3>1
           DEF Kept, OpInv, PostingInv, RightInv, WaitingInv, SelfAlive, SelfHeld
    <2>4. CASE status[q] # "ok"
      <3>1. UNCHANGED <<coro, completions>> /\ crashed'
        BY <1>4, <1>6, <2>4 DEF CompleteFromWc
      <3>2. QED
        BY <1>1, <1>2, <1>3, <1>6, <2>1, <2>2, <3>1
           DEF Kept, OpInv, PostingInv, RightInv, WaitingInv, SelfAlive, SelfHeld
    <2>5. QED
      BY <2>3, <2>4
  <1>7. QED
    BY <1>5, <1>6

(* The callback is destroyed: its coroutine has been completed, or its     *)
(* cancellation handler has the right to do so.                            *)
LEMMA DestroyCallbackKept ==
  ASSUME IInv, ~crashed, NEW c \in Cqs, NEW q \in Ops, DestroyCallback(c)
  PROVE  Kept(q)'
  <1> DEFINE h == Head(batch[c])
  <1>1. TypeOK /\ QueuesInv /\ VerbsTypeOK /\ PollerTypeOK /\ Kept(q)
    BY KeptIsIInv, QpFacts
  <1>2. /\ poller[c] = "invoked" /\ poller'[c] \in {"check", "process"}
        /\ \A e \in Cqs \ {c} : poller'[e] = poller[e] /\ batch'[e] = batch[e]
        /\ UNCHANGED <<pc, flag, slot, completions, crashed>>
    BY <1>1 DEF DestroyCallback, Dispatched, TypeOK, PollerTypeOK
  <1>3. h \in Ops /\ CqOf(h) = c /\ wr[h] = "polled" /\ batch[c] # <<>>
    BY <1>1, <1>2, HeadFacts
  <1>4. /\ cb' = [cb EXCEPT ![h] = "freed"]
        /\ wr' = [wr EXCEPT ![h] = "done"]
        /\ coro' = AfterRelease(h, pc[h], "freed")
    BY DEF DestroyCallback, Dispatched
  <1>5. /\ cb \in [Ops -> {"none", "live", "freed"}] /\ wr \in [Ops -> WrPlaces]
        /\ coro \in [Ops -> CoroStates]
    BY <1>1 DEF TypeOK, VerbsTypeOK, AsioTypeOK
  <1> HIDE DEF h
  <1>6. CASE q # h
    <2>1. UNCHANGED <<pc[q], cb[q], flag[q], slot[q], coro[q], completions[q], wr[q]>>
      BY <1>2, <1>3, <1>4, <1>5, <1>6 DEF AfterRelease
    <2>2. CASE CqOf(q) = c
      <3>1. ~AtHead(q, "won") /\ ~AtHead(q, "invoked")
        BY <1>2, <1>6, <2>2 DEF AtHead, h
      <3>2. ~AtHead(q, "won")' /\ ~AtHead(q, "invoked")'
        BY <1>2, <2>2 DEF AtHead, CqOf
      <3>3. QED
        BY <1>1, <2>1, <3>1, <3>2, KeepOp
    <2>3. CASE CqOf(q) # c
      <3>1. /\ AtHead(q, "won")' <=> AtHead(q, "won")
            /\ AtHead(q, "invoked")' <=> AtHead(q, "invoked")
        BY <1>2, <2>3, CqOfType DEF AtHead, CqOf
      <3>2. QED
        BY <1>1, <2>1, <3>1, KeepOp
    <2>4. QED
      BY <2>2, <2>3
  <1>7. CASE q = h
    <2>1. /\ AtHead(q, "invoked") /\ ~AtHead(q, "won")
          /\ ~AtHead(q, "won")' /\ ~AtHead(q, "invoked")'
      BY <1>2, <1>3, <1>7 DEF AtHead, CqOf, h
    <2>2. cb'[q] = "freed" /\ wr'[q] = "done" /\ wr[q] = "polled"
      BY <1>3, <1>4, <1>5, <1>7
    <2>3. coro[q] = "waiting" => slot[q] = "won"
      <3>1. q \in SendOps \/ (q \in RecvOps /\ flag[q])
        BY <1>1, <2>1 DEF Kept, OpInv, RightInv, Ops
      <3>2. QED
        BY <1>1, <2>1, <3>1 DEF Kept, OpInv, RightInv, WaitingInv
    <2>4. pc[q] \in {"posted", "ret"} /\ SelfAlive(q)
      BY <1>1, <2>2 DEF Kept, OpInv, PostingInv, SelfAlive, SelfHeld
    <2>5. SelfAlive(q)' <=> pc[q] = "posted"
      BY <1>2, <2>2, <2>4 DEF SelfAlive, SelfHeld
    <2>6. coro'[q] = IF coro[q] = "waiting" /\ pc[q] = "ret" THEN "abandoned" ELSE coro[q]
      BY <1>4, <1>5, <1>7, <2>4 DEF AfterRelease, SelfHeld
    <2>7. QED
      BY <1>1, <1>2, <2>1, <2>2, <2>3, <2>4, <2>5, <2>6
         DEF Kept, OpInv, PostingInv, RightInv, WaitingInv, SelfAlive, SelfHeld
  <1>8. QED
    BY <1>6, <1>7

-----------------------------------------------------------------------------
(* The invariant is inductive.                                             *)
LEMMA StepIInv == IInv /\ [Next]_vars => IInv'
  <1> SUFFICES ASSUME IInv, [Next]_vars PROVE IInv'
    OBVIOUS
  <1>1. QpInv' /\ AsioTypeOK'
    BY StepQp, StepType
  <1>2. ASSUME NEW q \in Ops PROVE Kept(q)'
    <2>1. Kept(q)
      BY KeptIsIInv
    <2>2. CASE UNCHANGED vars
      BY <2>1, <2>2 DEF vars, verbsVars, pollerVars, asioVars, Kept, OpInv, PostingInv,
         RightInv, WaitingInv, SelfAlive, SelfHeld, AtHead, CqOf
    <2>3. ASSUME ~crashed, NEW o \in Ops, OpStep(o) PROVE Kept(q)'
      BY <2>3, OpStepKept
    <2>4. ASSUME ~crashed, NEW o \in Ops, CancelStep(o) PROVE Kept(q)'
      BY <2>4, CancelStepKept
    <2>5. ASSUME ~crashed, NEW c \in Cqs, PollerStep(c) PROVE Kept(q)'
      BY <2>5, PollKept, InvokeSendKept, InvokeRecvKept, CompleteRecvKept,
         DestroyCallbackKept DEF PollerStep
    <2>6. ASSUME ~crashed, \/ \E o \in Ops : NicStep(o)
                           \/ \E c \in Cqs : StopStep(c)
                           \/ DropStep \/ DtorStep
          PROVE  Kept(q)'
      BY <2>6, OtherStepKept
    <2>7. QED
      BY <2>2, <2>3, <2>4, <2>5, <2>6 DEF Next
  <1>3. QED
    BY <1>1, <1>2 DEF IInv, Kept, PostedNotAbandoned

(* The inductive invariant holds in every reachable state, for any sets of *)
(* operations and CQs and any queue sizes.                                 *)
THEOREM Invariance == Spec => []IInv
  <1>1. Init => IInv
    BY InitIInv
  <1>2. IInv /\ [Next]_vars => IInv'
    BY StepIInv
  <1>3. QED
    BY <1>1, <1>2, PTL DEF Spec

(* The variables of the asio awaitables, the pollers and the QP always     *)
(* have their types.                                                       *)
THEOREM TypeCorrect == Spec => []TypeOK
  <1>1. IInv => TypeOK
    BY QpFacts
  <1>2. QED
    BY <1>1, Invariance, PTL

(* No coroutine is completed twice by its cancellation handler and its     *)
(* callback.                                                               *)
THEOREM AtMostOneCompletion == Spec => []CompletedOnce
  <1>1. IInv => CompletedOnce
    BY DEF IInv, OpInv, RightInv, CompletedOnce
  <1>2. QED
    BY <1>1, Invariance, PTL

(* No callback is freed while the NIC, a CQ or a poller has its address.   *)
THEOREM NoUseAfterFree == Spec => []CallbackLive
  <1>1. IInv => CallbackLive
    BY DEF IInv, OpInv, PostingInv, CallbackLive
  <1>2. QED
    BY <1>1, Invariance, PTL

(* A coroutine whose request was posted is destroyed unresolved only when  *)
(* its cancellation handler has set complete_called.                       *)
THEOREM PostedKept == Spec => []PostedNotAbandoned
  <1>1. IInv => PostedNotAbandoned
    BY DEF IInv
  <1>2. QED
    BY <1>1, Invariance, PTL

(* No CQ as deep as the work queues bound to it is overrun, so no send or  *)
(* receive is lost and no poller thread ends for that reason.              *)
THEOREM NoOverrun == Spec => []NoOverrunIfSized
  <1>1. IInv => NoOverrunIfSized
    BY DEF IInv, QpInv
  <1>2. QED
    BY <1>1, Invariance, PTL

-----------------------------------------------------------------------------
(* AsioAwaitable implements OpContract.                                    *)

WireMap == [o \in Ops |-> Wire(o)]

(* The initial states are initial states of the contract.                  *)
LEMMA InitContract == Init => Contract!ContractInit
  <1> SUFFICES ASSUME Init PROVE Contract!ContractInit
    OBVIOUS
  <1>1. \A o \in Ops : Wire(o) = "none"
    BY DEF Init, VerbsInit, Wire
  <1>2. QED
    BY <1>1 DEF Init, Contract!ContractInit, Contract!AllOps, Ops

(* A step that changes neither the coroutines nor the wire stutters.       *)
LEMMA ContractStutter ==
  ASSUME UNCHANGED coro, \A q \in Ops : Wire(q)' = Wire(q)
  PROVE  UNCHANGED Contract!contractVars
  <1>1. WireMap' = WireMap
    BY DEF WireMap
  <1>2. QED
    BY <1>1 DEF Contract!contractVars, WireMap

(* Resolving a waiting coroutine is a step of the contract.                *)
LEMMA ContractResolve ==
  ASSUME AsioTypeOK, NEW o \in Ops, coro[o] = "waiting",
         NEW p \in {"ok", "aborted", "abandoned"},
         p = "ok" => Wire(o) = "succeeded",
         p = "aborted" => o \in RecvOps,
         p = "abandoned" => Wire(o) = "none" \/ o \in RecvOps,
         coro' = [coro EXCEPT ![o] = p],
         \A q \in Ops : Wire(q)' = Wire(q)
  PROVE  Contract!ContractNext
  <1>1. WireMap' = WireMap /\ WireMap[o] = Wire(o)
    BY DEF WireMap
  <1>2. Contract!Resolve(o)
    BY <1>1 DEF Contract!Resolve, WireMap
  <1>3. QED
    BY <1>2 DEF Contract!ContractNext, Contract!AllOps, Ops

(* A request the NIC was given has left the contract's "none".             *)
LEMMA WireKnown ==
  ASSUME IInv, NEW o \in Ops
  PROVE  /\ wr[o] = "idle" => Wire(o) = "none"
         /\ wr[o] # "idle" => Wire(o) # "none"
         /\ status[o] = "ok" => Wire(o) = "succeeded"
  <1>1. /\ status[o] \in {"none", "ok", "err"} /\ wr[o] \in WrPlaces
        /\ wr[o] \in {"idle", "posted"} => status[o] = "none"
        /\ wr[o] \in {"cqe", "polled", "done"} => status[o] # "none"
    BY DEF IInv, QpInv, VerbsTypeOK, Reported
  <1>2. QED
    BY <1>1 DEF Wire, WrPlaces

(* The initiating function awaits, hands over and abandons what was never  *)
(* posted or what a cancellation handler has not completed in time.        *)
LEMMA OpStepContract ==
  ASSUME IInv, ~crashed, NEW o \in Ops, OpStep(o)
  PROVE  Contract!ContractNext \/ UNCHANGED Contract!contractVars
  <1>0. /\ QpInv /\ AsioTypeOK /\ VerbsTypeOK
        /\ PostingInv(o) /\ RightInv(o) /\ WaitingInv(o)
    BY QpFacts DEF IInv, OpInv
  <1>1. CASE Start(o)
    <2>1. WireMap' = WireMap
      BY <1>1, WireKeep DEF Start, verbsVars, WireMap
    <2>2. Contract!Await(o)
      BY <1>0, <1>1, <2>1 DEF Start, PostingInv, Contract!Await, WireMap
    <2>3. QED
      BY <2>2 DEF Contract!ContractNext, Contract!AllOps, Ops
  <1>2. CASE LockQp(o) \/ PostThrows(o)
    BY <1>2, WireKeep, ContractStutter DEF LockQp, PostThrows, verbsVars
  <1>3. CASE Post(o)
    <2>1. coro[o] \in {"waiting", "aborted"} /\ wr[o] = "idle" /\ UNCHANGED coro
      BY <1>0, <1>3 DEF Post, PostingInv
    <2>2. /\ Wire(o) = "none" /\ Wire(o)' = "owned"
          /\ \A q \in Ops \ {o} : Wire(q)' = Wire(q)
      BY <1>0, <1>3, <2>1, WirePost DEF Post
    <2>3. WireMap[o] = "none" /\ WireMap' = [WireMap EXCEPT ![o] = "owned"]
      BY <2>2 DEF WireMap
    <2>4. Contract!HandOver(o)
      BY <2>1, <2>3 DEF Contract!HandOver, WireMap
    <2>5. QED
      BY <2>4 DEF Contract!ContractNext, Contract!AllOps, Ops
  <1>4. CASE FailSuspend(o)
    <2>1. wr[o] = "idle"
      BY <1>0, <1>4 DEF FailSuspend, PostingInv
    <2>2. \A q \in Ops : Wire(q)' = Wire(q)
      BY <1>4, WireKeep DEF FailSuspend, verbsVars
    <2>3. CASE coro[o] = "waiting"
      <3>1. coro' = [coro EXCEPT ![o] = "abandoned"]
        BY <1>4, <2>3 DEF FailSuspend, AfterRelease, SelfHeld
      <3>2. QED
        BY <1>0, <2>1, <2>2, <2>3, <3>1, WireKnown, ContractResolve
    <2>4. CASE coro[o] # "waiting"
      BY <1>4, <2>2, <2>4, ContractStutter DEF FailSuspend, AfterRelease
    <2>5. QED
      BY <2>3, <2>4
  <1>5. CASE Return(o)
    <2>1. \A q \in Ops : Wire(q)' = Wire(q)
      BY <1>5, WireKeep DEF Return, verbsVars
    <2>2. CASE coro[o] = "waiting" /\ cb[o] # "live"
      <3>1. o \in RecvOps
        BY <1>0, <2>2 DEF WaitingInv, RightInv
      <3>2. coro' = [coro EXCEPT ![o] = "abandoned"]
        BY <1>5, <2>2 DEF Return, AfterRelease, SelfHeld
      <3>3. QED
        BY <1>0, <2>1, <2>2, <3>1, <3>2, ContractResolve
    <2>3. CASE coro[o] # "waiting" \/ cb[o] = "live"
      BY <1>5, <2>1, <2>3, ContractStutter DEF Return, AfterRelease, SelfHeld
    <2>4. QED
      BY <2>2, <2>3
  <1>6. QED
    BY <1>1, <1>2, <1>3, <1>4, <1>5 DEF OpStep

(* A cancellation handler aborts a receive that is waited for, or does     *)
(* nothing.                                                                *)
LEMMA CancelStepContract ==
  ASSUME IInv, NEW o \in Ops, CancelStep(o)
  PROVE  Contract!ContractNext \/ UNCHANGED Contract!contractVars
  <1>0. AsioTypeOK /\ RightInv(o)
    BY DEF IInv, OpInv
  <1>1. \A q \in Ops : Wire(q)' = Wire(q)
    BY WireKeep DEF CancelStep, Cancel, CancelCompletes, CancelSkips, verbsVars
  <1>2. CASE Cancel(o) \/ CancelSkips(o)
    BY <1>1, <1>2, ContractStutter DEF Cancel, CancelSkips
  <1>3. CASE CancelCompletes(o)
    <2>1. o \in RecvOps /\ coro[o] = "waiting"
      BY <1>0, <1>3 DEF CancelCompletes, RightInv
    <2>2. coro' = [coro EXCEPT ![o] = "aborted"]
      BY <1>3 DEF CancelCompletes, CompleteSelf
    <2>3. QED
      BY <1>0, <1>1, <2>1, <2>2, ContractResolve
  <1>4. QED
    BY <1>2, <1>3 DEF CancelStep

(* A callback that completes self resolves a coroutine that waits, with a  *)
(* success the NIC has reported.                                           *)
LEMMA CompleteContract ==
  ASSUME IInv, NEW o \in Ops, cb[o] = "live", completions[o] = 0, CompleteFromWc(o),
         \A q \in Ops : Wire(q)' = Wire(q)
  PROVE  Contract!ContractNext \/ UNCHANGED Contract!contractVars
  <1>0. AsioTypeOK /\ RightInv(o)
    BY DEF IInv, OpInv
  <1>1. CASE status[o] = "ok"
    <2>1. coro[o] = "waiting"
      BY <1>0 DEF RightInv, SelfAlive, SelfHeld
    <2>2. coro' = [coro EXCEPT ![o] = "ok"]
      BY <1>1 DEF CompleteFromWc, CompleteSelf
    <2>3. QED
      BY <1>0, <1>1, <2>1, <2>2, WireKnown, ContractResolve
  <1>2. CASE status[o] # "ok"
    BY <1>2, ContractStutter DEF CompleteFromWc
  <1>3. QED
    BY <1>1, <1>2

(* A poller resolves what it dispatches, once; what it abandons is a       *)
(* receive that is being cancelled.                                        *)
LEMMA PollerStepContract ==
  ASSUME IInv, ~crashed, NEW c \in Cqs, PollerStep(c)
  PROVE  Contract!ContractNext \/ UNCHANGED Contract!contractVars
  <1> DEFINE h == Head(batch[c])
  <1>0. QpInv /\ AsioTypeOK
    BY DEF IInv
  <1>1. CASE (Check(c) \/ Poll(c) \/ PollThrows(c)) /\ UNCHANGED asioVars
    BY <1>0, <1>1, WirePoll, ContractStutter DEF asioVars
  <1>2. ASSUME poller[c] \in {"process", "won", "invoked"}
        PROVE  /\ h \in Ops /\ CqOf(h) = c /\ wr[h] = "polled" /\ batch[c] # <<>>
               /\ cb[h] = "live" /\ PostingInv(h) /\ RightInv(h) /\ WaitingInv(h)
    <2>1. h \in Ops /\ CqOf(h) = c /\ wr[h] = "polled" /\ batch[c] # <<>>
      BY <1>2, QpFacts, HeadFacts
    <2>2. QED
      BY <2>1 DEF IInv, OpInv, PostingInv
  <1>3. CASE InvokeSend(c)
    <2>1. \A q \in Ops : Wire(q)' = Wire(q)
      BY <1>3, WireKeep DEF InvokeSend, verbsVars
    <2>2. completions[h] = 0
      BY <1>2, <1>3 DEF InvokeSend, RightInv, AtHead
    <2>3. QED
      BY <1>2, <1>3, <2>1, <2>2, CompleteContract DEF InvokeSend
  <1>4. CASE InvokeRecv(c)
    BY <1>4, WireKeep, ContractStutter DEF InvokeRecv, verbsVars
  <1>5. CASE CompleteRecv(c)
    <2>1. \A q \in Ops : Wire(q)' = Wire(q)
      BY <1>5, WireKeep DEF CompleteRecv, verbsVars
    <2>2. completions[h] = 0
      BY <1>2, <1>5 DEF CompleteRecv, RightInv, AtHead
    <2>3. QED
      BY <1>2, <1>5, <2>1, <2>2, CompleteContract DEF CompleteRecv
  <1>6. CASE DestroyCallback(c)
    <2>1. \A q \in Ops : Wire(q)' = Wire(q)
      BY <1>0, <1>6, WireDispatched DEF DestroyCallback
    <2>2. coro' = AfterRelease(h, pc[h], "freed")
      BY <1>6 DEF DestroyCallback
    <2>3. CASE UNCHANGED coro
      BY <2>1, <2>3, ContractStutter
    <2>4. CASE coro[h] = "waiting" /\ coro' = [coro EXCEPT ![h] = "abandoned"]
      <3>1. AtHead(h, "invoked") /\ h \in SendOps \cup RecvOps
        BY <1>2, <1>6 DEF DestroyCallback, AtHead, Ops
      <3>2. h \in RecvOps
        BY <1>2, <1>6, <2>4, <3>1 DEF DestroyCallback, WaitingInv
      <3> HIDE DEF h
      <3>3. QED
        BY <1>0, <1>2, <1>6, <2>1, <2>4, <3>2, ContractResolve DEF DestroyCallback
    <2>5. QED
      BY <2>2, <2>3, <2>4 DEF AfterRelease
  <1>7. QED
    BY <1>1, <1>3, <1>4, <1>5, <1>6 DEF PollerStep

(* The NIC reports, and the end of the QP forgets.                         *)
LEMMA OtherStepContract ==
  ASSUME IInv,
         \/ \E o \in Ops : NicStep(o)
         \/ \E c \in Cqs : StopStep(c)
         \/ DropStep \/ DtorStep
  PROVE  Contract!ContractNext \/ UNCHANGED Contract!contractVars
  <1>0. QpInv
    BY DEF IInv
  <1>1. UNCHANGED coro
    BY DEF NicStep, StopStep, DropStep, DtorStep, asioVars
  <1>2. ASSUME NEW o \in Ops, NicStep(o) PROVE Contract!ContractNext
    <2>1. /\ Wire(o) = "owned" /\ Wire(o)' \in {"succeeded", "failed"}
          /\ \A q \in Ops \ {o} : Wire(q)' = Wire(q)
      BY <1>0, <1>2, WireNic DEF NicStep
    <2>2. /\ WireMap[o] = "owned"
          /\ \E r \in {"succeeded", "failed"} : WireMap' = [WireMap EXCEPT ![o] = r]
      BY <2>1 DEF WireMap
    <2>3. Contract!Report(o)
      BY <1>1, <2>2 DEF Contract!Report, WireMap
    <2>4. QED
      BY <2>3 DEF Contract!ContractNext, Contract!AllOps, Ops
  <1>3. CASE DtorStep /\ Destroy
    <2>1. \A q \in Ops : Wire(q)' = IF Wire(q) = "owned" THEN "lost" ELSE Wire(q)
      BY <1>0, <1>3, WireDestroy
    <2>2. WireMap' = [o \in Ops |-> IF WireMap[o] = "owned" THEN "lost" ELSE WireMap[o]]
      BY <2>1 DEF WireMap
    <2>3. Contract!Forget
      BY <1>1, <2>2 DEF Contract!Forget, Contract!AllOps, Ops, WireMap
    <2>4. QED
      BY <2>3 DEF Contract!ContractNext
  <1>4. CASE DropStep \/ Err
    BY <1>1, <1>4, WireKeep, ContractStutter DEF DropStep, DropUserRef, Err
  <1>5. ASSUME NEW c \in Cqs, StopStep(c) PROVE UNCHANGED Contract!contractVars
    BY <1>0, <1>1, <1>5, WirePoll, ContractStutter DEF StopStep
  <1>6. QED
    BY <1>2, <1>3, <1>4, <1>5 DEF DtorStep

(* Awaiting an operation from an asio coroutine honours OpContract (the    *)
(* asio conversions of src/qp.cc, execute_callback of src/executor.cc): it *)
(* is resolved at most once and for good, with a success only when the NIC *)
(* reported one, aborted only when it is a receive, and dropped only when  *)
(* it was not posted or is a receive being cancelled.                      *)
THEOREM ContractHonoured == Spec => HonoursContract
  <1>1. Init => Contract!ContractInit
    BY InitContract
  <1>2. IInv /\ [Next]_vars => [Contract!ContractNext]_(Contract!contractVars)
    <2> SUFFICES ASSUME IInv, [Next]_vars
                 PROVE  Contract!ContractNext \/ UNCHANGED Contract!contractVars
      OBVIOUS
    <2>1. CASE UNCHANGED vars
      BY <2>1, WireKeep, ContractStutter DEF vars, verbsVars, asioVars
    <2>2. CASE Next
      BY <2>2, OpStepContract, CancelStepContract, PollerStepContract, OtherStepContract
         DEF Next
    <2>3. QED
      BY <2>1, <2>2
  <1>3. QED
    BY <1>1, <1>2, Invariance, PTL DEF Spec, HonoursContract, Contract!ContractSpec
=============================================================================
