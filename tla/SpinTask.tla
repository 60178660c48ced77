------------------------------ MODULE SpinTask ------------------------------
(***************************************************************************)
(* The coroutine type task (examples/include/task.hpp) and the spinning    *)
(* future it carries (future.hpp), as latency_raw.cc uses them: main calls *)
(* client() (or server()), which starts client_worker() (or qp_handler())  *)
(* and awaits it.  The awaited coroutine, "inner", runs on the caller's    *)
(* thread up to its first operation and then on the poller thread; the     *)
(* awaiting one, "outer", looks at it, suspends, and is resumed by inner's *)
(* final suspend; main sits in the destructor of outer's task.             *)
(*                                                                         *)
(* Nothing but the flag `ready` is atomic: continuation_ is written by one *)
(* thread and read by the other.                                           *)
(***************************************************************************)
EXTENDS Naturals

CONSTANTS
  Hosts,    \* the programs that use the type: one main and one poller each
  Looping   \* those whose outer coroutine is the endless loop of server()

ASSUME HostsAssumption == Looping \subseteq Hosts

Coros == {"inner", "outer"}

VARIABLES
  mpc,      \* where each main thread is
  ppc,      \* where each poller thread is
  done,     \* is the coroutine suspended at its final suspend point?
  ready,    \* SharedState::ready of its future
  cont,     \* is continuation_ of the inner coroutine set?
  frame,    \* its frame: "live" or "freed"
  resumes,  \* how often the outer coroutine went on after its co_await
  dangling  \* the coroutines whose continuation_ was read after the frame went

taskVars == <<mpc, ppc, done, ready, cont, frame, resumes, dangling>>

MainSteps == {"await_ready", "await_suspend", "get", "notify", "look",
              "wait", "exit", "accept", "join"}
PollerSteps == {"operations", "notify", "look", "get", "outer_notify",
                "outer_look", "noop", "idle", "accept", "join", "undefined"}

TaskTypeOK ==
  /\ mpc \in [Hosts -> MainSteps]
  /\ ppc \in [Hosts -> PollerSteps]
  /\ done \in [Hosts -> [Coros -> BOOLEAN]]
  /\ ready \in [Hosts -> [Coros -> BOOLEAN]]
  /\ cont \in [Hosts -> BOOLEAN]
  /\ frame \in [Hosts -> [Coros -> {"live", "freed"}]]
  /\ resumes \in [Hosts -> 0..2]
  /\ dangling \in [Hosts -> SUBSET Coros]

(* inner has posted its first operation and returned its task to outer.    *)
TaskInit ==
  /\ mpc = [h \in Hosts |-> "await_ready"]
  /\ ppc = [h \in Hosts |-> "operations"]
  /\ done = [h \in Hosts |-> [c \in Coros |-> FALSE]]
  /\ ready = [h \in Hosts |-> [c \in Coros |-> FALSE]]
  /\ cont = [h \in Hosts |-> FALSE]
  /\ frame = [h \in Hosts |-> [c \in Coros |-> "live"]]
  /\ resumes = [h \in Hosts |-> 0]
  /\ dangling = [h \in Hosts |-> {}]

MainAt(h, s) == mpc[h] = s
MainTo(h, s) == mpc' = [mpc EXCEPT ![h] = s]
PollerAt(h, s) == ppc[h] = s
PollerTo(h, s) == ppc' = [ppc EXCEPT ![h] = s]

(* promise_.notify(): the result, stored before, can be seen.              *)
Notify(h, c) == ready' = [ready EXCEPT ![h][c] = TRUE]

-----------------------------------------------------------------------------
(* outer awaits inner, on the main thread.                                 *)

(* task_awaiter::await_ready                                               *)
AwaitReady(h) ==
  /\ MainAt(h, "await_ready")
  /\ MainTo(h, IF done[h]["inner"] THEN "get" ELSE "await_suspend")
  /\ UNCHANGED <<ppc, done, ready, cont, frame, resumes, dangling>>

(* Mutant: await_suspend looks again, and goes on if inner has finished.   *)
AwaitSuspendRechecks(h) ==
  /\ MainAt(h, "await_suspend")
  /\ cont' = [cont EXCEPT ![h] = TRUE]
  /\ MainTo(h, IF done[h]["inner"] THEN "get" ELSE "wait")
  /\ UNCHANGED <<ppc, done, ready, frame, resumes, dangling>>

(* task_awaiter::await_suspend; client() returns its task to main, which   *)
(* destroys it at the end of the statement.                                *)
AwaitSuspend(h) ==
  /\ MainAt(h, "await_suspend")
  /\ cont' = [cont EXCEPT ![h] = TRUE]
  /\ MainTo(h, "wait")
  /\ UNCHANGED <<ppc, done, ready, frame, resumes, dangling>>

(* Where outer goes after its co_await, `last` being its final suspend.    *)
(* client() has let its io_context run out before and returns, whether     *)
(* get() rethrows or not.  server() goes back to accept; when get()        *)
(* rethrows it never ends: the jthread w is destroyed, and joined, before  *)
(* the work guard that keeps its io_context running.                       *)
AfterAwait(h, last) == IF h \in Looping THEN {"accept", "join"} ELSE {last}

(* await_resume: future_.get() spins until the result is there; then the   *)
(* task of inner is destroyed, which waits (again) and frees the frame.    *)
Resumed(h) ==
  /\ ready[h]["inner"]
  /\ resumes' = [resumes EXCEPT ![h] = @ + 1]
  /\ frame' = [frame EXCEPT ![h]["inner"] = "freed"]
  /\ done' = [done EXCEPT ![h]["outer"] = h \notin Looping]
  /\ UNCHANGED <<ready, cont, dangling>>

(* outer never suspended and goes on on the main thread.                   *)
MainGet(h) ==
  /\ MainAt(h, "get")
  /\ Resumed(h)
  /\ \E s \in AfterAwait(h, "notify") : MainTo(h, s)
  /\ UNCHANGED ppc

(* outer's final suspend on the main thread: nobody awaits it.             *)
MainNotify(h) ==
  /\ MainAt(h, "notify")
  /\ Notify(h, "outer")
  /\ MainTo(h, "look")
  /\ UNCHANGED <<ppc, done, cont, frame, resumes, dangling>>

MainLook(h) ==
  /\ MainAt(h, "look")
  /\ MainTo(h, "wait")
  /\ UNCHANGED <<ppc, done, ready, cont, frame, resumes, dangling>>

(* Mutant: the destructor does not wait for the result.                    *)
DestroyOuterAtOnce(h) ==
  /\ MainAt(h, "wait")
  /\ frame' = [frame EXCEPT ![h]["outer"] = "freed"]
  /\ MainTo(h, "exit")
  /\ UNCHANGED <<ppc, done, ready, cont, resumes, dangling>>

(* ~task: wait for the result, then free the frame; main goes on.          *)
DestroyOuter(h) ==
  /\ MainAt(h, "wait")
  /\ ready[h]["outer"]
  /\ frame' = [frame EXCEPT ![h]["outer"] = "freed"]
  /\ MainTo(h, "exit")
  /\ UNCHANGED <<ppc, done, ready, cont, resumes, dangling>>

-----------------------------------------------------------------------------
(* The poller thread.                                                      *)

(* The completion of inner's last operation: inner runs to its end, by     *)
(* return_void or unhandled_exception, and is at its final suspend point.  *)
FinishInner(h) ==
  /\ PollerAt(h, "operations")
  /\ done' = [done EXCEPT ![h]["inner"] = TRUE]
  /\ PollerTo(h, "notify")
  /\ UNCHANGED <<mpc, ready, cont, frame, resumes, dangling>>

(* set_return_value                                                        *)
PublishInner(h) ==
  /\ PollerAt(h, "notify")
  /\ Notify(h, "inner")
  /\ PollerTo(h, "look")
  /\ UNCHANGED <<mpc, done, cont, frame, resumes, dangling>>

(* continuation_ is read from a frame that is gone: undefined.             *)
LookAtFreed(h, c) ==
  /\ frame[h][c] = "freed"
  /\ dangling' = [dangling EXCEPT ![h] = @ \cup {c}]
  /\ PollerTo(h, "undefined")

(* Mutant: the continuation is left to somebody else.                      *)
LookAtInnerForgets(h) ==
  /\ PollerAt(h, "look")
  /\ \/ LookAtFreed(h, "inner")
     \/ frame[h]["inner"] = "live" /\ PollerTo(h, "idle") /\ UNCHANGED dangling
  /\ UNCHANGED <<mpc, done, ready, cont, frame, resumes>>

(* The final awaiter: resume continuation_, or nothing.                    *)
LookAtInner(h) ==
  /\ PollerAt(h, "look")
  /\ \/ LookAtFreed(h, "inner")
     \/ /\ frame[h]["inner"] = "live"
        /\ PollerTo(h, IF cont[h] THEN "get" ELSE "noop")
        /\ UNCHANGED dangling
  /\ UNCHANGED <<mpc, done, ready, cont, frame, resumes>>

(* outer goes on here, on the poller thread.                               *)
PollerGet(h) ==
  /\ PollerAt(h, "get")
  /\ Resumed(h)
  /\ \E s \in AfterAwait(h, "outer_notify") : PollerTo(h, s)
  /\ UNCHANGED mpc

PublishOuter(h) ==
  /\ PollerAt(h, "outer_notify")
  /\ Notify(h, "outer")
  /\ PollerTo(h, "outer_look")
  /\ UNCHANGED <<mpc, done, cont, frame, resumes, dangling>>

(* Nobody awaits outer, but main may have freed it.                        *)
LookAtOuter(h) ==
  /\ PollerAt(h, "outer_look")
  /\ \/ LookAtFreed(h, "outer")
     \/ frame[h]["outer"] = "live" /\ PollerTo(h, "idle") /\ UNCHANGED dangling
  /\ UNCHANGED <<mpc, done, ready, cont, frame, resumes>>

-----------------------------------------------------------------------------
MainStep(h) ==
  \/ AwaitReady(h) \/ AwaitSuspend(h) \/ MainGet(h)
  \/ MainNotify(h) \/ MainLook(h) \/ DestroyOuter(h)

PollerStep(h) ==
  \/ PublishInner(h) \/ LookAtInner(h) \/ PollerGet(h)
  \/ PublishOuter(h) \/ LookAtOuter(h)

-----------------------------------------------------------------------------
(* Properties.                                                             *)

(* outer goes on after its co_await at most once, and with inner's result: *)
(* main and the poller never both run it.                                  *)
ResumedOnce ==
  \A h \in Hosts : resumes[h] <= 1 /\ (resumes[h] = 1 => ready[h]["inner"])

(* A frame is freed only when its coroutine has finished and published its *)
(* result, so no waiter frees a coroutine that still has code to run; and  *)
(* only a final suspend that races with main can touch a frame that is     *)
(* gone: inner's, if outer found it finished and never suspended.          *)
FreedWhenFinished ==
  \A h \in Hosts :
    /\ \A c \in Coros : frame[h][c] = "freed" => done[h][c] /\ ready[h][c]
    /\ "inner" \in dangling[h] => ~cont[h]

(* Who runs outer, and how far: before its co_await, or when it found      *)
(* inner finished, main does, and no continuation is stored; once one is   *)
(* stored only the poller that found it does.  A published result has been *)
(* stored before, and a frame is gone only when its waiter has passed.     *)
RunsOuter(h) ==
  /\ done[h]["inner"] <=> ppc[h] # "operations"
  /\ ready[h]["inner"] <=> ppc[h] \notin {"operations", "notify"}
  /\ resumes[h] \in {0, 1}
  /\ resumes[h] = 1 => ready[h]["inner"]
  /\ ready[h]["outer"] => done[h]["outer"]
  /\ done[h]["outer"] => resumes[h] = 1 /\ h \notin Looping
  /\ frame[h]["inner"] = "freed" <=> resumes[h] = 1
  /\ frame[h]["outer"] = "freed" => ready[h]["outer"]
  /\ mpc[h] \in {"await_ready", "await_suspend", "get"} => ~cont[h] /\ resumes[h] = 0
  /\ mpc[h] \in {"notify", "look", "accept", "join"} => ~cont[h]
  /\ ~cont[h] /\ resumes[h] = 0 => mpc[h] \in {"await_ready", "await_suspend", "get"}
  /\ mpc[h] = "notify" \/ ppc[h] = "outer_notify" => done[h]["outer"]
  /\ ppc[h] \in {"get", "outer_notify", "outer_look", "idle", "accept", "join"} => cont[h]
  /\ ppc[h] = "undefined" => resumes[h] = 1
  /\ cont[h] => (resumes[h] = 1 <=> ppc[h] \in {"outer_notify", "outer_look",
                                               "idle", "accept", "join", "undefined"})
  /\ "inner" \in dangling[h] => ~cont[h] /\ resumes[h] = 1

(* The inductive invariant behind the two properties above.                *)
TaskInv == TaskTypeOK /\ \A h \in Hosts : RunsOuter(h)

(* The wake-up that is lost: outer stores its continuation after inner's   *)
(* final suspend has looked for one.                                       *)
StoredTooLate(h) == cont[h] /\ ppc[h] = "noop"
=============================================================================
