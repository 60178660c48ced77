-------------------------- MODULE Examples_proofs --------------------------
(***************************************************************************)
(* Proofs about the example programs: the coroutine type task and its      *)
(* spinning future, for any number of hosts (SpinTask), and their          *)
(* conversations, by the lemmas of Session_proofs.                         *)
(***************************************************************************)
EXTENDS Examples, Session_proofs, FiniteSetTheorems

-----------------------------------------------------------------------------
(* The tasks.                                                              *)

(* Before outer looks at inner nothing has been resumed, stored or freed.  *)
LEMMA TaskInitInv == TaskInit => TaskInv
BY DEF TaskInit, TaskInv, TaskTypeOK, RunsOuter, MainSteps, PollerSteps, Coros

(* A step of outer on the main thread keeps the invariant: its co_await,   *)
(* its final suspend, and the destructor of its task.                      *)
LEMMA MainStepInv ==
  ASSUME TaskInv, NEW h \in Hosts, MainStep(h)
  PROVE  TaskInv'
<1> USE DEF TaskInv, TaskTypeOK, RunsOuter, MainSteps, PollerSteps, Coros,
            MainAt, MainTo, PollerAt, PollerTo, Notify, Resumed
<1>1. CASE AwaitReady(h)
  <2>1. CASE done[h]["inner"]
    <3>1. mpc' = [mpc EXCEPT ![h] = "get"] BY <1>1, <2>1 DEF AwaitReady
    <3> QED BY <1>1, <2>1, <3>1 DEF AwaitReady
  <2>2. CASE ~done[h]["inner"]
    <3>1. mpc' = [mpc EXCEPT ![h] = "await_suspend"] BY <1>1, <2>2 DEF AwaitReady
    <3> QED BY <1>1, <2>2, <3>1 DEF AwaitReady
  <2> QED BY <2>1, <2>2
<1>2. CASE AwaitSuspend(h) BY <1>2 DEF AwaitSuspend
<1>3. CASE MainGet(h)
  <2>1. PICK s \in AfterAwait(h, "notify") : MainTo(h, s) BY <1>3 DEF MainGet
  <2>2. CASE h \in Looping
    <3>1. s \in {"accept", "join"} BY <2>1, <2>2 DEF AfterAwait
    <3> QED BY <1>3, <2>1, <2>2, <3>1 DEF MainGet
  <2>3. CASE h \notin Looping
    <3>1. s = "notify" BY <2>1, <2>3 DEF AfterAwait
    <3> QED BY <1>3, <2>1, <2>3, <3>1 DEF MainGet
  <2> QED BY <2>2, <2>3
<1>4. CASE MainNotify(h) BY <1>4 DEF MainNotify
<1>5. CASE MainLook(h) BY <1>5 DEF MainLook
<1>6. CASE DestroyOuter(h) BY <1>6 DEF DestroyOuter
<1> QED BY <1>1, <1>2, <1>3, <1>4, <1>5, <1>6 DEF MainStep

(* A step of the poller thread keeps it: inner's final suspend, and outer  *)
(* when that found a continuation.                                         *)
LEMMA PollerStepInv ==
  ASSUME TaskInv, NEW h \in Hosts, PollerStep(h) \/ FinishInner(h)
  PROVE  TaskInv'
<1> USE DEF TaskInv, TaskTypeOK, RunsOuter, MainSteps, PollerSteps, Coros,
            MainAt, MainTo, PollerAt, PollerTo, Notify, Resumed, LookAtFreed
<1>1. CASE FinishInner(h) BY <1>1 DEF FinishInner
<1>2. CASE PublishInner(h) BY <1>2 DEF PublishInner
<1>3. CASE LookAtInner(h)
  <2>1. CASE LookAtFreed(h, "inner") BY <1>3, <2>1 DEF LookAtInner
  <2>2. CASE frame[h]["inner"] = "live" /\ cont[h]
    <3>1. ppc' = [ppc EXCEPT ![h] = "get"] /\ UNCHANGED dangling
      BY <1>3, <2>2 DEF LookAtInner
    <3>2. UNCHANGED <<mpc, done, ready, cont, frame, resumes>> /\ ppc[h] = "look"
      BY <1>3 DEF LookAtInner
    <3> QED BY <2>2, <3>1, <3>2
  <2>3. CASE frame[h]["inner"] = "live" /\ ~cont[h]
    <3>1. ppc' = [ppc EXCEPT ![h] = "noop"] /\ UNCHANGED dangling
      BY <1>3, <2>3 DEF LookAtInner
    <3>2. UNCHANGED <<mpc, done, ready, cont, frame, resumes>> /\ ppc[h] = "look"
      BY <1>3 DEF LookAtInner
    <3> QED BY <2>3, <3>1, <3>2
  <2> QED BY <1>3, <2>1, <2>2, <2>3 DEF LookAtInner
<1>4. CASE PollerGet(h)
  <2>1. PICK s \in AfterAwait(h, "outer_notify") : PollerTo(h, s) BY <1>4 DEF PollerGet
  <2>2. CASE h \in Looping
    <3>1. s \in {"accept", "join"} BY <2>1, <2>2 DEF AfterAwait
    <3> QED BY <1>4, <2>1, <2>2, <3>1 DEF PollerGet
  <2>3. CASE h \notin Looping
    <3>1. s = "outer_notify" BY <2>1, <2>3 DEF AfterAwait
    <3> QED BY <1>4, <2>1, <2>3, <3>1 DEF PollerGet
  <2> QED BY <2>2, <2>3
<1>5. CASE PublishOuter(h) BY <1>5 DEF PublishOuter
<1>6. CASE LookAtOuter(h)
  <2>1. CASE LookAtFreed(h, "outer")
    <3>1. /\ dangling' \in [Hosts -> SUBSET Coros]
          /\ \A g \in Hosts : "inner" \in dangling'[g] => "inner" \in dangling[g]
      BY <2>1
    <3>2. /\ ppc[h] = "outer_look" /\ ppc' = [ppc EXCEPT ![h] = "undefined"]
          /\ UNCHANGED <<mpc, done, ready, cont, frame, resumes>>
      BY <1>6, <2>1 DEF LookAtOuter
    <3> QED BY <3>1, <3>2
  <2>2. CASE frame[h]["outer"] = "live"
    <3>1. ppc' = [ppc EXCEPT ![h] = "idle"] /\ UNCHANGED dangling
      BY <1>6, <2>2 DEF LookAtOuter
    <3>2. /\ UNCHANGED <<mpc, done, ready, cont, frame, resumes>>
          /\ ppc[h] = "outer_look"
      BY <1>6 DEF LookAtOuter
    <3> QED BY <2>2, <3>1, <3>2
  <2> QED BY <1>6, <2>1, <2>2 DEF LookAtOuter
<1> QED BY <1>1, <1>2, <1>3, <1>4, <1>5, <1>6 DEF PollerStep

(* The conversation does not touch the tasks, so the invariant holds in    *)
(* every state of the example programs.                                    *)
THEOREM TaskInvAlways == Spec => []TaskInv
<1>1. Init => TaskInv BY TaskInitInv DEF Init
<1>2. TaskInv /\ [Next]_vars => TaskInv'
  <2> SUFFICES ASSUME TaskInv, [Next]_vars PROVE TaskInv' OBVIOUS
  <2>1. CASE UNCHANGED taskVars
    BY <2>1 DEF taskVars, TaskInv, TaskTypeOK, RunsOuter
  <2>2. ASSUME NEW h \in Hosts, HostMain(h) PROVE TaskInv'
    BY <2>2, MainStepInv DEF HostMain
  <2>3. ASSUME NEW h \in Hosts, HostPoller(h) PROVE TaskInv'
    BY <2>3, PollerStepInv DEF HostPoller
  <2> QED BY <2>1, <2>2, <2>3 DEF Next, SessionStep, ReleaseQp, vars
<1> QED BY <1>1, <1>2, PTL DEF Spec

(* Every coroutine of the example programs awaits one operation at a time, *)
(* which is in one queue; the two sides of a program are never further     *)
(* apart than their scripts allow, and every continuation has one thread   *)
(* to run it.                                                              *)
THEOREM ExamplesInvAlways == Spec => []ExamplesInv
<1>1. Init => FitInv BY FitInvInit DEF Init
<1>2. FitInv /\ [Next]_vars => FitInv'
  <2> SUFFICES ASSUME FitInv, [Next]_vars PROVE FitInv' OBVIOUS
  <2>1. CASE UNCHANGED sessionVars BY <2>1, FitInvKept
  <2>2. ASSUME NEW s \in Sides, SideStep(s) \/ DropQp(s) PROVE FitInv' BY <2>2, FitInvStep
  <2> QED BY <2>1, <2>2 DEF Next, SessionStep, ReleaseQp, HostMain, HostPoller, vars
<1>3. Spec => []FitInv BY <1>1, <1>2, PTL DEF Spec
<1> QED BY <1>3, TaskInvAlways, PTL DEF ExamplesInv

(* The assertions of the latency tests, of the RPC handler and of write_bw *)
(* never fail, however often the loops go round.                           *)
THEOREM ChecksHoldAlways == Spec => []ChecksHold
<1>1. ExamplesInv => ChecksHold BY DEF ExamplesInv, FitInv, FateInv, ChecksHold
<1> QED BY <1>1, ExamplesInvAlways, PTL

(* An operation of a program fails only when the other side, through with  *)
(* its script, destroyed its QP before the very last acknowledgement.      *)
THEOREM FailsOnlyAfterTheEndAlways == Spec => []FailsOnlyAfterTheEnd
<1>1. ExamplesInv => FailsOnlyAfterTheEnd
  <2> SUFFICES ASSUME ExamplesInv, NEW s \in Sides, fate[s] = "failed"
               PROVE  /\ fate[Peer(s)] = "ended"
                      /\ sq[s] = <<>> /\ unacked[s] # <<>>
                      /\ Cardinality(Workers(prog, s)) = 1
                      /\ pc[s][1] = Len(Script(prog, s))
    BY DEF FailsOnlyAfterTheEnd
  <2>1. FateInv(s) BY DEF ExamplesInv, FitInv
  <2>2. Workers(prog, s) = {1} BY <2>1 DEF FateInv, Workers
  <2>3. Cardinality({1}) = 1 BY FS_Singleton
  <2> QED BY <2>1, <2>2, <2>3 DEF FateInv
<1> QED BY <1>1, ExamplesInvAlways, PTL

(* The second receive of cancellation.cc ("should not reach here") never   *)
(* completes nor fails, and the receivers of send_bw_raw.cc never stop:    *)
(* the safety half of EndsAsIntended.                                      *)
ServerStays == prog \in {"cancellation", "send_bw_raw"} => fate["server"] = "running"

(* Both servers wait for ever, as cancellation.cc and send_bw_raw.cc mean  *)
(* them to, for every loop count and number of coroutines.                 *)
THEOREM ServerStaysAlways == Spec => []ServerStays
<1>1. ExamplesInv => ServerStays
  <2> SUFFICES ASSUME FitInv, prog \in {"cancellation", "send_bw_raw"}
               PROVE  fate["server"] = "running"
    BY DEF ExamplesInv, ServerStays
  <2>1. CASE prog = "send_bw_raw" BY <2>1 DEF FitInv, StaysAtRecv
  <2>2. CASE prog = "cancellation" BY <2>2, CancelServerStays
  <2> QED BY <2>1, <2>2
<1> QED BY <1>1, ExamplesInvAlways, PTL

(* task_awaiter and the final awaiter never both resume the awaiting       *)
(* coroutine, and whoever does has the awaited result.                     *)
THEOREM ResumedOnceAlways == Spec => []ResumedOnce
<1>1. TaskInv => ResumedOnce
  BY DEF TaskInv, TaskTypeOK, RunsOuter, ResumedOnce
<1> QED BY <1>1, TaskInvAlways, PTL

(* ~task frees only a frame whose coroutine is through, and a final        *)
(* suspend that reads a freed frame is one nobody had suspended for.       *)
THEOREM FreedWhenFinishedAlways == Spec => []FreedWhenFinished
<1>1. TaskInv => FreedWhenFinished
  <2> SUFFICES ASSUME TaskInv, NEW h \in Hosts
               PROVE /\ \A c \in Coros : frame[h][c] = "freed" => done[h][c] /\ ready[h][c]
                     /\ "inner" \in dangling[h] => ~cont[h]
    BY DEF FreedWhenFinished
  <2> QED BY DEF TaskInv, TaskTypeOK, RunsOuter, Coros
<1> QED BY <1>1, TaskInvAlways, PTL
=============================================================================
