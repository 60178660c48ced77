------------------------------ MODULE Examples ------------------------------
(***************************************************************************)
(* The example programs: their conversations (Session), and for            *)
(* latency_raw.cc the tasks its coroutines run in (SpinTask): the awaited  *)
(* coroutine holds the conversation, and its end is what the two threads   *)
(* of the host race about.                                                 *)
(***************************************************************************)
EXTENDS Session, SpinTask

vars == <<sessionVars, taskVars>>

Init == SessionInit /\ TaskInit

UsesTask == prog = "latency_raw"

(* The first operation of the conversation has been posted: the awaited    *)
(* coroutine has returned to the awaiting one.                             *)
Started(h) ==
  \/ waits[h][1]
  \/ \E i \in 1..pc[h][1]-1 : Script(prog, h)[i].op # "reg_mr"

(* The coroutine that awaits a task holds the QP too.                      *)
QpUnheld(s) == UsesTask => resumes[s] > 0

SessionStep(s) ==
  /\ SideStep(s)
  /\ UNCHANGED taskVars

ReleaseQp(s) ==
  /\ QpUnheld(s)
  /\ DropQp(s)
  /\ UNCHANGED taskVars

HostMain(h) ==
  /\ UsesTask
  /\ Started(h)
  /\ MainStep(h)
  /\ UNCHANGED sessionVars

HostPoller(h) ==
  /\ UsesTask
  /\ PollerStep(h) \/ (~Running(h) /\ FinishInner(h))
  /\ UNCHANGED sessionVars

Next ==
  \/ \E s \in Sides : SessionStep(s) \/ ReleaseQp(s)
  \/ \E h \in Hosts : HostMain(h) \/ HostPoller(h)

Spec == Init /\ [][Next]_vars

(* Each coroutine awaits one operation at a time and each continuation has *)
(* one thread that runs it: the inductive invariant of the programs.       *)
ExamplesInv == FitInv /\ TaskInv

(* Coroutines that can run do, the connection delivers and acknowledges,   *)
(* and both threads of a host keep running.                                *)
FairSpec ==
  /\ Spec
  /\ \A s \in Sides : WF_vars(SessionStep(s))
  /\ \A h \in Hosts : WF_vars(HostMain(h)) /\ WF_vars(HostPoller(h))

(* The client of latency_raw exits and its server goes on after its        *)
(* co_await, however the threads interleave, unless the continuation was   *)
(* stored after the final suspend had looked for it: there is no other way *)
(* to lose the wake-up.                                                    *)
WokenUnlessTooLate ==
  UsesTask =>
    /\ <>(mpc["client"] = "exit" \/ StoredTooLate("client"))
    /\ <>(resumes["server"] = 1 \/ StoredTooLate("server"))
=============================================================================
