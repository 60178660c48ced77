----------------------- MODULE NativeAwaitable_proofs -----------------------
(***************************************************************************)
(* Proofs that a native awaitable is alive and complete whenever its wr_id *)
(* may be dispatched, that await_suspend never touches one a poller has    *)
(* destroyed, that a coroutine gets the result of its own completion, and  *)
(* that NativeAwaitable implements OpContract: for any number of           *)
(* operations and CQs and any sizes of the queues.                         *)
(***************************************************************************)
EXTENDS NativeAwaitable, CqPoller_proofs

-----------------------------------------------------------------------------
(* The QP, its queues and its pollers, whose steps CqPoller_proofs covers. *)

LEMMA InitQpInv == Init => QpInv
  BY InitQp DEF Init

(* Every step keeps their invariant.                                       *)
LEMMA StepQp ==
  ASSUME NativeInv, [Next]_vars
  PROVE  QpInv'
  <1>0. QpInv /\ VerbsTypeOK
    BY DEF NativeInv, QpInv
  <1>1. ASSUME NEW o \in Ops, OpStep(o) PROVE QpInv'
    <2>1. CASE Post(o)
      <3>1. wr[o] = "idle"
        BY <2>1 DEF Post, NativeInv, SuspendInv
      <3>2. QED
        BY <1>0, <2>1, <3>1, PostQp, AfterDropType DEF Post
    <2>2. CASE PostThrows(o)
      BY <1>0, <2>2, KeepQp, AfterDropType DEF PostThrows, pollerVars, VerbsTypeOK
    <2>3. CASE UNCHANGED <<verbsVars, pollerVars>>
      BY <1>0, <2>3, KeepQp DEF verbsVars, pollerVars, VerbsTypeOK
    <2>4. QED
      BY <1>1, <2>1, <2>2, <2>3 DEF OpStep, Start, Prepare, LockQp, FailSuspend, Return
  <1>2. ASSUME NEW o \in Ops, NicStep(o) PROVE QpInv'
    BY <1>0, <1>2, NicQp DEF NicStep
  <1>3. ASSUME NEW c \in Cqs, PollerStep(c) PROVE QpInv'
    <2>1. CASE Check(c) \/ Poll(c) \/ PollThrows(c)
      BY <1>0, <2>1, PollQp
    <2>2. CASE SetFromWc(c)
      BY <1>0, <2>2, InDispatchQp DEF SetFromWc
    <2>3. CASE Resume(c)
      BY <1>0, <2>3, DispatchedQp DEF Resume
    <2>4. QED
      BY <1>3, <2>1, <2>2, <2>3 DEF PollerStep
  <1>4. CASE DropStep \/ DtorStep
    BY <1>0, <1>4, EndQp DEF DropStep, DtorStep
  <1>5. ASSUME NEW c \in Cqs, StopStep(c) PROVE QpInv'
    BY <1>0, <1>5, PollQp DEF StopStep
  <1>6. CASE UNCHANGED vars
    BY <1>0, <1>6, KeepQp DEF vars, verbsVars, pollerVars, VerbsTypeOK
  <1>7. QED
    BY <1>1, <1>2, <1>3, <1>4, <1>5, <1>6 DEF Next

(* The queues are typed and hold what they should.                         *)
LEMMA QpFacts == NativeInv => TypeOK /\ QueuesInv /\ VerbsTypeOK /\ PollerTypeOK
  BY DEF NativeInv, QpInv, TypeOK

-----------------------------------------------------------------------------
(* Type correctness of the rest.                                           *)

(* The initial values have their types.                                    *)
LEMMA InitType == Init => NativeTypeOK
  <1> SUFFICES ASSUME Init PROVE NativeTypeOK
    OBVIOUS
  <1>1. pc \in [Ops -> PcStates] /\ awaitable \in [Ops -> {"none", "alive", "dead"}]
    BY DEF Init, PcStates
  <1>2. handle \in [Ops -> BOOLEAN]
    BY Zenon DEF Init
  <1>3. /\ byteLen \in [Ops -> {"zero", "local", "wc"}]
        /\ seen \in [Ops -> {"ok", "err"}]
        /\ coro \in [Ops -> {"idle", "waiting", "ok", "error"}]
    BY DEF Init
  <1>4. QED
    BY <1>1, <1>2, <1>3 DEF NativeTypeOK

(* Every step keeps the types.                                             *)
LEMMA StepType ==
  ASSUME NativeInv, [Next]_vars
  PROVE  NativeTypeOK'
  <1>0. NativeTypeOK
    BY DEF NativeInv
  <1>1. ASSUME NEW o \in Ops, OpStep(o) PROVE NativeTypeOK'
    <2> USE <1>0 DEF NativeTypeOK, PcStates
    <2>1. CASE Start(o)        BY <2>1 DEF Start
    <2>2. CASE Prepare(o)
      <3>1. handle' \in [Ops -> BOOLEAN]
        BY <2>2 DEF Prepare
      <3>2. QED
        BY <2>2, <3>1 DEF Prepare
    <2>3. CASE LockQp(o)       BY <2>3 DEF LockQp
    <2>4. CASE Post(o)         BY <2>4 DEF Post
    <2>5. CASE PostThrows(o)   BY <2>5 DEF PostThrows
    <2>6. CASE Return(o)       BY <2>6 DEF Return
    <2>7. CASE FailSuspend(o)  BY <2>7 DEF FailSuspend
    <2>8. QED
      BY <1>1, <2>1, <2>2, <2>3, <2>4, <2>5, <2>6, <2>7 DEF OpStep
  <1>2. ASSUME NEW c \in Cqs, PollerStep(c) PROVE NativeTypeOK'
    <2>1. CASE UNCHANGED nativeVars
      BY <1>0, <2>1 DEF nativeVars, NativeTypeOK
    <2>2. CASE SetFromWc(c)
      <3>1. /\ Head(batch[c]) \in Ops
            /\ status[Head(batch[c])] \in {"none", "ok", "err"}
            /\ status[Head(batch[c])] # "none"
        BY <2>2, QpFacts, HeadFacts DEF SetFromWc, VerbsTypeOK, NativeInv, QpInv, Reported
      <3>2. QED
        BY <1>0, <2>2, <3>1 DEF SetFromWc, NativeTypeOK
    <2>3. CASE Resume(c)
      BY <1>0, <2>3 DEF Resume, NativeTypeOK
    <2>4. QED
      BY <1>2, <2>1, <2>2, <2>3 DEF PollerStep
  <1>3. CASE UNCHANGED nativeVars
    BY <1>0, <1>3 DEF nativeVars, NativeTypeOK
  <1>4. QED
    BY <1>1, <1>2, <1>3 DEF Next, NicStep, StopStep, DropStep, DtorStep, vars

-----------------------------------------------------------------------------
(* The operations.                                                         *)

Kept(o) == SuspendInv(o) /\ DispatchInv(o)

LEMMA KeptIsNativeInv ==
  NativeInv <=> QpInv /\ NativeTypeOK /\ \A o \in Ops : Kept(o)
  BY DEF NativeInv, Kept

(* A step that does not concern an operation keeps what is known of it.    *)
LEMMA KeepOp ==
  ASSUME NEW o \in Ops, Kept(o),
         UNCHANGED <<pc[o], awaitable[o], handle[o], byteLen[o], seen[o], coro[o],
                     wr[o], status[o]>>,
         AtHead(o, "won")' <=> AtHead(o, "won")
  PROVE  Kept(o)'
  BY DEF Kept, SuspendInv, DispatchInv, FinalLen, PreparedLen

(* The initial state satisfies the invariant.                              *)
LEMMA InitNative == Init => NativeInv
  <1> SUFFICES ASSUME Init PROVE NativeInv
    OBVIOUS
  <1>1. QpInv /\ NativeTypeOK
    BY InitType, InitQpInv
  <1>2. ASSUME NEW o \in Ops PROVE Kept(o)
    BY DEF Init, VerbsInit, Kept, SuspendInv, DispatchInv
  <1>3. QED
    BY <1>1, <1>2, KeptIsNativeInv

(* Steps of the awaiting thread.  Before the request is posted o is in no  *)
(* batch, so no poller is dispatching it.                                  *)
LEMMA OpStepKept ==
  ASSUME NativeInv, NEW o \in Ops, OpStep(o), NEW q \in Ops
  PROVE  Kept(q)'
  <1>1. UNCHANGED <<poller, batch>>
    BY DEF OpStep, Start, Prepare, LockQp, Post, PostThrows, FailSuspend, Return, pollerVars
  <1>2. AtHead(q, "won")' <=> AtHead(q, "won")
    BY <1>1 DEF AtHead, CqOf
  <1>3. Kept(q) /\ TypeOK
    BY KeptIsNativeInv, QpFacts
  <1>4. wr[q] = "idle" => ~AtHead(q, "won")
    BY CqOfType, HeadFacts, QpFacts DEF AtHead
  <1>5. CASE q # o
    <2>1. UNCHANGED <<pc[q], awaitable[q], handle[q], byteLen[q], seen[q], coro[q],
                      wr[q], status[q]>>
      BY <1>3, <1>5 DEF OpStep, Start, Prepare, LockQp, Post, PostWr, PostThrows,
         FailSuspend, Return, verbsVars, TypeOK, VerbsTypeOK, NativeTypeOK
    <2>2. QED
      BY <2>1, <1>2, <1>3, KeepOp
  <1>6. CASE q = o
    <2> USE <1>2, <1>3, <1>4, <1>6
        DEF Kept, SuspendInv, DispatchInv, TypeOK, VerbsTypeOK, NativeTypeOK,
            verbsVars, pollerVars
    <2>1. CASE Start(o)        BY <2>1 DEF Start
    <2>2. CASE Prepare(o)      BY <2>2 DEF Prepare, PreparedLen
    <2>3. CASE LockQp(o)       BY <2>3 DEF LockQp, PreparedLen
    <2>4. CASE Post(o)         BY <2>4 DEF Post, PostWr, PreparedLen
    <2>5. CASE PostThrows(o)   BY <2>5 DEF PostThrows, PreparedLen
    <2>6. CASE Return(o)       BY <2>6 DEF Return, PreparedLen, FinalLen
    <2>7. CASE FailSuspend(o)  BY <2>7 DEF FailSuspend
    <2>8. QED
      BY <2>1, <2>2, <2>3, <2>4, <2>5, <2>6, <2>7 DEF OpStep
  <1>7. QED
    BY <1>5, <1>6

(* The NIC and the end of the QP and of the pollers: they only move work   *)
(* requests nobody dispatches, and decide the status of one whose          *)
(* coroutine waits.                                                        *)
LEMMA OtherStepKept ==
  ASSUME NativeInv, NEW q \in Ops,
         \/ \E o \in Ops : NicStep(o)
         \/ \E c \in Cqs : StopStep(c)
         \/ DropStep \/ DtorStep
  PROVE  Kept(q)'
  <1>1. UNCHANGED <<poller, batch, nativeVars>>
    BY DEF NicStep, StopStep, RequestStop, DropStep, DtorStep, pollerVars
  <1>2. AtHead(q, "won")' <=> AtHead(q, "won")
    BY <1>1 DEF AtHead, CqOf
  <1>3. Kept(q) /\ TypeOK
    BY KeptIsNativeInv, QpFacts
  <1>4. \/ UNCHANGED <<wr[q], status[q]>>
        \/ wr[q] \in {"posted", "cqe"} /\ wr'[q] \in {"cqe", "lost"}
    BY <1>3 DEF NicStep, NicSucceed, NicFail, WriteCqe, StopStep, RequestStop, DropStep,
       DropUserRef, DtorStep, Err, Destroy, verbsVars, TypeOK, VerbsTypeOK
  <1>5. wr[q] \in {"posted", "cqe"} => ~AtHead(q, "won")
    BY CqOfType, HeadFacts, QpFacts DEF AtHead
  <1>6. QED
    BY <1>1, <1>2, <1>3, <1>4, <1>5
       DEF Kept, SuspendInv, DispatchInv, PreparedLen, FinalLen, nativeVars

(* The steps of a poller that dispatch nothing.                            *)
LEMMA PollKept ==
  ASSUME NativeInv, NEW c \in Cqs, NEW q \in Ops, UNCHANGED nativeVars,
         Check(c) \/ Poll(c) \/ PollThrows(c)
  PROVE  Kept(q)'
  <1>1. TypeOK /\ QueuesInv /\ VerbsTypeOK /\ PollerTypeOK /\ Kept(q)
    BY KeptIsNativeInv, QpFacts
  <1>2. /\ poller[c] \in {"check", "poll"}
        /\ poller'[c] \in {"check", "poll", "process", "exited"}
        /\ \A e \in Cqs \ {c} : poller'[e] = poller[e] /\ batch'[e] = batch[e]
        /\ status' = status
    BY <1>1 DEF Check, Poll, PollThrows, TypeOK, PollerTypeOK, verbsVars
  <1>3. AtHead(q, "won")' <=> AtHead(q, "won")
    BY <1>2, CqOfType DEF AtHead, CqOf
  <1>4. wr'[q] = wr[q] \/ (wr[q] = "cqe" /\ wr'[q] = "polled")
    <2>1. CASE Poll(c)
      <3>1. wr'[q] = IF q \in Heads(cq[c], PolledCount(c)) THEN "polled" ELSE wr[q]
        BY <2>1 DEF Poll
      <3>2. q \in Heads(cq[c], PolledCount(c)) => wr[q] = "cqe"
        BY <1>1, PolledCountType, QueueElems DEF Heads, QueuesInv, HoldsOnce
      <3>3. QED
        BY <3>1, <3>2
    <2>2. CASE Check(c) \/ PollThrows(c)
      BY <2>2 DEF Check, PollThrows, verbsVars
    <2>3. QED
      BY <2>1, <2>2
  <1>5. QED
    BY <1>1, <1>2, <1>3, <1>4
       DEF Kept, SuspendInv, DispatchInv, PreparedLen, FinalLen, nativeVars

(* The dispatch of one completion concerns its own operation only, and     *)
(* turns the prepared length into the final one.                           *)
LEMMA DispatchKept ==
  ASSUME NativeInv, NEW c \in Cqs, NEW q \in Ops, SetFromWc(c) \/ Resume(c)
  PROVE  Kept(q)'
  <1>1. TypeOK /\ QueuesInv /\ VerbsTypeOK /\ PollerTypeOK /\ Kept(q)
    BY KeptIsNativeInv, QpFacts
  <1>2. PICK h \in Ops : /\ h = Head(batch[c]) /\ CqOf(h) = c /\ wr[h] = "polled"
                         /\ batch[c] # <<>> /\ status[h] \in {"ok", "err"}
    <2>1. /\ Head(batch[c]) \in Ops /\ CqOf(Head(batch[c])) = c
          /\ wr[Head(batch[c])] = "polled" /\ batch[c] # <<>>
      BY <1>1, HeadFacts DEF SetFromWc, Resume
    <2>2. status[Head(batch[c])] \in {"ok", "err"}
      BY <2>1, <1>1 DEF VerbsTypeOK, NativeInv, QpInv, Reported
    <2>3. QED
      BY <2>1, <2>2
  <1>3. Kept(h)
    BY KeptIsNativeInv
  <1>4. CASE SetFromWc(c)
    <2>1. /\ poller[c] = "process" /\ poller' = [poller EXCEPT ![c] = "won"]
          /\ seen' = [seen EXCEPT ![h] = status[h]]
          /\ byteLen' = [byteLen EXCEPT ![h] = IF LengthFromWc(h) THEN "wc" ELSE @]
          /\ UNCHANGED <<batch, wr, status, pc, awaitable, handle, coro>>
      BY <1>2, <1>4 DEF SetFromWc, verbsVars
    <2>2. CASE q # h
      <3>1. AtHead(q, "won")' <=> AtHead(q, "won")
        BY <1>1, <1>2, <2>1, <2>2, CqOfType DEF AtHead, CqOf, PollerTypeOK
      <3>2. QED
        BY <1>1, <2>1, <2>2, <3>1, KeepOp DEF TypeOK, NativeTypeOK
    <2>3. CASE q = h
      <3>1. ~AtHead(q, "won") /\ AtHead(q, "won")'
        BY <1>1, <1>2, <2>1, <2>3 DEF AtHead, CqOf, PollerTypeOK
      <3>2. /\ seen'[q] = status[q] /\ byteLen[q] = PreparedLen(q)
            /\ byteLen'[q] = IF LengthFromWc(q) THEN "wc" ELSE byteLen[q]
        BY <1>1, <1>2, <2>1, <2>3, <3>1 DEF Kept, DispatchInv, TypeOK, NativeTypeOK
      <3>3. QED
        BY <1>1, <1>2, <2>1, <2>3, <3>1, <3>2
           DEF Kept, SuspendInv, DispatchInv, PreparedLen, FinalLen
    <2>4. QED
      BY <2>2, <2>3
  <1>5. CASE Resume(c)
    <2>1. /\ poller[c] = "won"
          /\ \E p \in {"check", "process"} : poller' = [poller EXCEPT ![c] = p]
          /\ batch' = [batch EXCEPT ![c] = Tail(@)]
          /\ wr' = [wr EXCEPT ![h] = "done"]
          /\ coro' = [coro EXCEPT ![h] = IF seen[h] = "ok" THEN "ok" ELSE "error"]
          /\ awaitable' = [awaitable EXCEPT ![h] = "dead"]
          /\ UNCHANGED <<status, pc, handle, byteLen, seen>>
      BY <1>2, <1>5 DEF Resume, Dispatched
    <2>2. CASE q # h
      <3>1. AtHead(q, "won")' <=> AtHead(q, "won")
        BY <1>1, <1>2, <2>1, <2>2, CqOfType DEF AtHead, CqOf, PollerTypeOK
      <3>2. QED
        BY <1>1, <2>1, <2>2, <3>1, KeepOp DEF TypeOK, VerbsTypeOK, NativeTypeOK
    <2>3. CASE q = h
      <3>1. AtHead(q, "won")
        BY <1>2, <2>1, <2>3 DEF AtHead
      <3>2. seen[q] = status[q] /\ byteLen[q] = FinalLen(q) /\ pc[q] \in {"posted", "ret"}
        BY <1>1, <1>2, <2>3, <3>1 DEF Kept, DispatchInv
      <3>3. /\ wr'[q] = "done" /\ status'[q] = status[q] /\ pc'[q] = pc[q]
            /\ byteLen'[q] = byteLen[q]
            /\ coro'[q] = IF status[q] = "ok" THEN "ok" ELSE "error"
        BY <1>1, <2>1, <2>3, <3>2 DEF TypeOK, VerbsTypeOK, NativeTypeOK
      <3>4. QED
        BY <1>2, <2>3, <3>2, <3>3 DEF Kept, SuspendInv, DispatchInv, FinalLen, PreparedLen
    <2>4. QED
      BY <2>2, <2>3
  <1>6. QED
    BY <1>4, <1>5

-----------------------------------------------------------------------------
(* The invariant is inductive.                                             *)
LEMMA StepNative == NativeInv /\ [Next]_vars => NativeInv'
  <1> SUFFICES ASSUME NativeInv, [Next]_vars PROVE NativeInv'
    OBVIOUS
  <1>1. QpInv' /\ NativeTypeOK'
    BY StepQp, StepType
  <1>2. ASSUME NEW q \in Ops PROVE Kept(q)'
    <2>1. Kept(q)
      BY KeptIsNativeInv
    <2>2. CASE UNCHANGED vars
      <3>1. AtHead(q, "won")' <=> AtHead(q, "won")
        BY <2>2 DEF vars, pollerVars, AtHead, CqOf
      <3>2. QED
        BY <2>1, <2>2, <3>1, KeepOp DEF vars, verbsVars, nativeVars
    <2>3. ASSUME NEW c \in Cqs, PollerStep(c) PROVE Kept(q)'
      BY <2>3, PollKept, DispatchKept DEF PollerStep
    <2>4. QED
      BY <2>2, <2>3, OpStepKept, OtherStepKept DEF Next
  <1>3. QED
    BY <1>1, <1>2 DEF NativeInv, Kept

(* The inductive invariant holds in every reachable state: until suspend   *)
(* has posted the request only the awaiting thread knows of the awaitable, *)
(* and from then on it lives until a poller resumes the coroutine, once,   *)
(* with all of the result stored.                                          *)
THEOREM NativeInvAlways == Spec => []NativeInv
  <1>1. QED
    BY InitNative, StepNative, PTL DEF Spec

(* The variables of the native awaitables, the pollers and the QP always   *)
(* have their types.                                                       *)
THEOREM TypeOKAlways == Spec => []TypeOK
  <1>1. NativeInv => TypeOK
    BY QpFacts
  <1>2. QED
    BY <1>1, NativeInvAlways, PTL

(* Whenever the NIC, a CQ or a poller has the wr_id of an operation, its   *)
(* awaitable is alive and its coroutine handle stored.                     *)
THEOREM WrIdUsableAlways == Spec => []WrIdUsable
  <1>1. NativeInv => WrIdUsable
    BY DEF NativeInv, DispatchInv, WrIdUsable
  <1>2. QED
    BY <1>1, NativeInvAlways, PTL

(* As long as the thread inside await_suspend has a member of the          *)
(* awaitable to touch, no poller has resumed the coroutine.                *)
THEOREM SuspendTouchesLiveAlways == Spec => []SuspendTouchesLive
  <1>1. NativeInv => SuspendTouchesLive
    BY DEF NativeInv, SuspendInv, SuspendTouchesLive
  <1>2. QED
    BY <1>1, NativeInvAlways, PTL

(* A coroutine gets the status and the length of its own completion.       *)
THEOREM OwnResultAlways == Spec => []OwnResult
  <1>1. ASSUME NativeInv PROVE OwnResult
    <2>1. ASSUME NEW o \in Ops
          PROVE  o \notin PlainSends =>
                   FinalLen(o) = IF o \in Writes THEN "local" ELSE "wc"
      BY OpcodeAssumption DEF FinalLen, PreparedLen, LengthFromWc, IsRdma
    <2>2. ASSUME NEW o \in Ops PROVE DispatchInv(o)
      BY <1>1 DEF NativeInv
    <2>3. QED
      BY <2>1, <2>2 DEF DispatchInv, OwnResult
  <1>2. QED
    BY <1>1, NativeInvAlways, PTL

(* No CQ as deep as the work queues bound to it is overrun.                *)
THEOREM NoOverrun == Spec => []NoOverrunIfSized
  <1>1. NativeInv => NoOverrunIfSized
    BY DEF NativeInv, QpInv
  <1>2. QED
    BY <1>1, NativeInvAlways, PTL

-----------------------------------------------------------------------------
(* NativeAwaitable implements OpContract.                                  *)

WireMap == [o \in Ops |-> Wire(o)]

(* The initial states are initial states of the contract.                  *)
LEMMA InitContract == Init => Contract!ContractInit
  <1> SUFFICES ASSUME Init PROVE Contract!ContractInit
    OBVIOUS
  <1>1. \A o \in Ops : Wire(o) = "none"
    BY DEF Init, VerbsInit, Wire
  <1>2. QED
    BY <1>1 DEF Init, Contract!ContractInit, Contract!AllOps, Ops

(* A step that changes neither the coroutines nor the wire stutters.       *)
LEMMA ContractStutter ==
  ASSUME UNCHANGED coro, \A q \in Ops : Wire(q)' = Wire(q)
  PROVE  UNCHANGED Contract!contractVars
  <1>1. WireMap' = WireMap
    BY DEF WireMap
  <1>2. QED
    BY <1>1 DEF Contract!contractVars, WireMap

(* Resuming a waiting coroutine is a step of the contract.                 *)
LEMMA ContractResolve ==
  ASSUME NativeTypeOK, NEW o \in Ops, coro[o] = "waiting",
         NEW p \in {"ok", "error"},
         p = "ok" => Wire(o) = "succeeded",
         p = "error" => Wire(o) \in {"none", "failed"},
         coro' = [coro EXCEPT ![o] = p],
         \A q \in Ops : Wire(q)' = Wire(q)
  PROVE  Contract!ContractNext
  <1>1. WireMap' = WireMap /\ WireMap[o] = Wire(o)
    BY DEF WireMap
  <1>2. Contract!Resolve(o)
    BY <1>1 DEF Contract!Resolve, WireMap
  <1>3. QED
    BY <1>2 DEF Contract!ContractNext, Contract!AllOps, Ops

(* The awaiting thread awaits, hands over and, when suspend fails, gets an *)
(* error for what was never posted.                                        *)
LEMMA OpStepContract ==
  ASSUME NativeInv, NEW o \in Ops, OpStep(o)
  PROVE  Contract!ContractNext \/ UNCHANGED Contract!contractVars
  <1>0. QpInv /\ NativeTypeOK /\ VerbsTypeOK /\ SuspendInv(o)
    BY QpFacts DEF NativeInv
  <1>1. CASE Start(o)
    <2>1. WireMap' = WireMap
      BY <1>1, WireKeep DEF Start, verbsVars, WireMap
    <2>2. Contract!Await(o)
      BY <1>0, <1>1, <2>1 DEF Start, SuspendInv, Contract!Await, WireMap
    <2>3. QED
      BY <2>2 DEF Contract!ContractNext, Contract!AllOps, Ops
  <1>2. CASE Prepare(o) \/ LockQp(o) \/ PostThrows(o) \/ Return(o)
    BY <1>2, WireKeep, ContractStutter DEF Prepare, LockQp, PostThrows, Return, verbsVars
  <1>3. CASE Post(o)
    <2>1. coro[o] = "waiting" /\ wr[o] = "idle" /\ UNCHANGED coro
      BY <1>0, <1>3 DEF Post, SuspendInv
    <2>2. /\ Wire(o) = "none" /\ Wire(o)' = "owned"
          /\ \A q \in Ops \ {o} : Wire(q)' = Wire(q)
      BY <1>0, <1>3, <2>1, WirePost DEF Post
    <2>3. WireMap[o] = "none" /\ WireMap' = [WireMap EXCEPT ![o] = "owned"]
      BY <2>2 DEF WireMap
    <2>4. Contract!HandOver(o)
      BY <2>1, <2>3 DEF Contract!HandOver, WireMap
    <2>5. QED
      BY <2>4 DEF Contract!ContractNext, Contract!AllOps, Ops
  <1>4. CASE FailSuspend(o)
    <2>1. coro[o] = "waiting" /\ wr[o] = "idle"
      BY <1>0, <1>4 DEF FailSuspend, SuspendInv
    <2>2. Wire(o) = "none"
      BY <1>0, <2>1 DEF QpInv, Reported, Wire
    <2>3. \A q \in Ops : Wire(q)' = Wire(q)
      BY <1>4, WireKeep DEF FailSuspend, verbsVars
    <2>4. coro' = [coro EXCEPT ![o] = "error"]
      BY <1>4 DEF FailSuspend
    <2>5. QED
      BY <1>0, <2>1, <2>2, <2>3, <2>4, ContractResolve
  <1>5. QED
    BY <1>1, <1>2, <1>3, <1>4 DEF OpStep

(* A poller resolves what it dispatches, once, as the NIC reported it.     *)
LEMMA PollerStepContract ==
  ASSUME NativeInv, NEW c \in Cqs, PollerStep(c)
  PROVE  Contract!ContractNext \/ UNCHANGED Contract!contractVars
  <1>0. QpInv /\ NativeTypeOK
    BY DEF NativeInv
  <1>1. CASE (Check(c) \/ Poll(c) \/ PollThrows(c)) /\ UNCHANGED nativeVars
    BY <1>0, <1>1, WirePoll, ContractStutter DEF nativeVars
  <1>2. CASE SetFromWc(c)
    BY <1>2, WireKeep, ContractStutter DEF SetFromWc, verbsVars
  <1>3. CASE Resume(c)
    <2>1. PICK h \in Ops : /\ h = Head(batch[c]) /\ CqOf(h) = c /\ wr[h] = "polled"
                           /\ batch[c] # <<>>
      BY <1>3, QpFacts, HeadFacts DEF Resume
    <2>2. \A q \in Ops : Wire(q)' = Wire(q)
      BY <1>0, <1>3, WireDispatched DEF Resume
    <2>3. coro[h] = "waiting" /\ seen[h] = status[h] /\ status[h] \in {"ok", "err"}
      BY <1>0, <1>3, <2>1
         DEF NativeInv, DispatchInv, AtHead, Resume, QpInv, Reported, VerbsTypeOK
    <2>4. coro' = [coro EXCEPT ![h] = IF status[h] = "ok" THEN "ok" ELSE "error"]
      BY <1>3, <2>1, <2>3 DEF Resume
    <2>5. CASE status[h] = "ok"
      <3>1. coro' = [coro EXCEPT ![h] = "ok"] /\ Wire(h) = "succeeded"
        BY <2>4, <2>5 DEF Wire
      <3>2. QED
        BY <1>0, <2>2, <2>3, <3>1, ContractResolve
    <2>6. CASE status[h] = "err"
      <3>1. coro' = [coro EXCEPT ![h] = "error"] /\ Wire(h) = "failed"
        BY <2>4, <2>6 DEF Wire
      <3>2. QED
        BY <1>0, <2>2, <2>3, <3>1, ContractResolve
    <2>7. QED
      BY <2>3, <2>5, <2>6
  <1>4. QED
    BY <1>1, <1>2, <1>3 DEF PollerStep

(* The NIC reports, and the end of the QP forgets.                         *)
LEMMA OtherStepContract ==
  ASSUME NativeInv,
         \/ \E o \in Ops : NicStep(o)
         \/ \E c \in Cqs : StopStep(c)
         \/ DropStep \/ DtorStep
  PROVE  Contract!ContractNext \/ UNCHANGED Contract!contractVars
  <1>0. QpInv
    BY DEF NativeInv
  <1>1. UNCHANGED coro
    BY DEF NicStep, StopStep, DropStep, DtorStep, nativeVars
  <1>2. ASSUME NEW o \in Ops, NicStep(o) PROVE Contract!ContractNext
    <2>1. /\ Wire(o) = "owned" /\ Wire(o)' \in {"succeeded", "failed"}
          /\ \A q \in Ops \ {o} : Wire(q)' = Wire(q)
      BY <1>0, <1>2, WireNic DEF NicStep
    <2>2. /\ WireMap[o] = "owned"
          /\ \E r \in {"succeeded", "failed"} : WireMap' = [WireMap EXCEPT ![o] = r]
      BY <2>1 DEF WireMap
    <2>3. Contract!Report(o)
      BY <1>1, <2>2 DEF Contract!Report, WireMap
    <2>4. QED
      BY <2>3 DEF Contract!ContractNext, Contract!AllOps, Ops
  <1>3. CASE DtorStep /\ Destroy
    <2>1. \A q \in Ops : Wire(q)' = IF Wire(q) = "owned" THEN "lost" ELSE Wire(q)
      BY <1>0, <1>3, WireDestroy
    <2>2. WireMap' = [o \in Ops |-> IF WireMap[o] = "owned" THEN "lost" ELSE WireMap[o]]
      BY <2>1 DEF WireMap
    <2>3. Contract!Forget
      BY <1>1, <2>2 DEF Contract!Forget, Contract!AllOps, Ops, WireMap
    <2>4. QED
      BY <2>3 DEF Contract!ContractNext
  <1>4. CASE DropStep \/ Err
    BY <1>1, <1>4, WireKeep, ContractStutter DEF DropStep, DropUserRef, Err
  <1>5. ASSUME NEW c \in Cqs, StopStep(c) PROVE UNCHANGED Contract!contractVars
    BY <1>0, <1>1, <1>5, WirePoll, ContractStutter DEF StopStep
  <1>6. QED
    BY <1>2, <1>3, <1>4, <1>5 DEF DtorStep

(* Awaiting an operation from a native coroutine honours OpContract        *)
(* (await_suspend, suspend and await_resume of src/qp.cc): it is resolved  *)
(* at most once and for good, with a value only when the NIC reported a    *)
(* success and with an exception only when it failed or was not posted.    *)
THEOREM ContractHonoured == Spec => HonoursContract
  <1>1. Init => Contract!ContractInit
    BY InitContract
  <1>2. NativeInv /\ [Next]_vars => [Contract!ContractNext]_(Contract!contractVars)
    <2> SUFFICES ASSUME NativeInv, [Next]_vars
                 PROVE  Contract!ContractNext \/ UNCHANGED Contract!contractVars
      OBVIOUS
    <2>1. CASE UNCHANGED vars
      BY <2>1, WireKeep, ContractStutter DEF vars, verbsVars, nativeVars
    <2>2. CASE Next
      BY <2>2, OpStepContract, PollerStepContract, OtherStepContract DEF Next
    <2>3. QED
      BY <2>1, <2>2
  <1>3. QED
    BY <1>1, <1>2, NativeInvAlways, PTL DEF Spec, HonoursContract, Contract!ContractSpec
=============================================================================
