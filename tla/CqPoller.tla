------------------------------ MODULE CqPoller ------------------------------
(***************************************************************************)
(* basic_cq_poller (src/cq_poller.cc): one thread per CQ that polls        *)
(* batches of completions and dispatches them in order with process_wc     *)
(* (src/executor.cc).  How one completion is dispatched depends on the     *)
(* completion token and is left to the modules that extend this one: they  *)
(* refine the states between "process" and Dispatched.                     *)
(***************************************************************************)
EXTENDS Verbs

VARIABLES
  poller,   \* where the worker of each CQ is (see PollerStates)
  batch,    \* wc_vec_: polled completions that are not dispatched yet
  stop      \* has the poller's destructor requested the stop?

pollerVars == <<poller, batch, stop>>

(* "check": at the loop condition; "poll": about to call cq::poll;         *)
(* "process": about to dispatch the head of the batch; "won", "invoked":   *)
(* inside the dispatch of the head; "exited": the thread has ended.        *)
PollerStates == {"check", "poll", "process", "won", "invoked", "exited"}

PollerTypeOK ==
  /\ poller \in [Cqs -> PollerStates]
  /\ batch \in [Cqs -> Seq(Ops)]
  /\ stop \in [Cqs -> BOOLEAN]

PollerInit ==
  /\ poller = [c \in Cqs |-> "check"]
  /\ batch = [c \in Cqs |-> <<>>]
  /\ stop = [c \in Cqs |-> FALSE]

(* ~basic_cq_poller: the jthread member requests the stop and joins.       *)
RequestStop(c) ==
  /\ ~stop[c]
  /\ stop' = [stop EXCEPT ![c] = TRUE]
  /\ UNCHANGED <<poller, batch, verbsVars>>

(* while (!token.stop_requested())                                         *)
Check(c) ==
  /\ poller[c] = "check"
  /\ poller' = [poller EXCEPT ![c] = IF stop[c] THEN "exited" ELSE "poll"]
  /\ UNCHANGED <<batch, stop, verbsVars>>

(* How many completions one cq::poll returns.                              *)
PolledCount(c) == IF Len(cq[c]) < BatchSize THEN Len(cq[c]) ELSE BatchSize

Heads(s, n) == {s[i] : i \in 1..n}

(* cq::poll moves up to BatchSize completions into wc_vec_.                *)
Poll(c) ==
  LET n == PolledCount(c) IN
  /\ poller[c] = "poll"
  /\ cq' = [cq EXCEPT ![c] = SubSeq(@, n + 1, Len(@))]
  /\ batch' = [batch EXCEPT ![c] = SubSeq(cq[c], 1, n)]
  /\ wr' = [o \in Ops |-> IF o \in Heads(cq[c], n) THEN "polled" ELSE wr[o]]
  /\ poller' = [poller EXCEPT ![c] = IF n = 0 THEN "check" ELSE "process"]
  /\ UNCHANGED <<qpState, userRef, dtor, status, overrun, stop>>

(* ibv_poll_cq reports an error, which an overrun CQ may: cq::poll throws, *)
(* the worker logs and returns.                                            *)
PollThrows(c) ==
  /\ poller[c] = "poll"
  /\ overrun[c]
  /\ poller' = [poller EXCEPT ![c] = "exited"]
  /\ UNCHANGED <<batch, stop, verbsVars>>

(* The completion at the head of c's batch has been dispatched: the loop   *)
(* of process_wc goes on to the next, or the worker to its condition.      *)
Dispatched(c) ==
  /\ batch' = [batch EXCEPT ![c] = Tail(@)]
  /\ wr' = [wr EXCEPT ![Head(batch[c])] = "done"]
  /\ poller' = [poller EXCEPT ![c] =
                  IF Len(batch[c]) = 1 THEN "check" ELSE "process"]

-----------------------------------------------------------------------------
(* The completions that can wait in c at once: a request leaves its work   *)
(* queue only when its completion is polled.                               *)
Load(c) == (IF c = SendCq THEN MaxSendWr ELSE 0)
             + (IF c = RecvCq THEN MaxRecvWr ELSE 0)

(* No completion is lost, and no poller dies of it, on a CQ that is as     *)
(* deep as the work queues bound to it, whatever the pollers' speed.       *)
NoOverrunIfSized == \A c \in Cqs : Load(c) <= CqDepth => ~overrun[c]

(* What the NIC has done with the request of o, as OpContract sees it.     *)
Wire(o) ==
  CASE status[o] = "ok"  -> "succeeded"
    [] status[o] = "err" -> "failed"
    [] status[o] = "none" /\ wr[o] = "posted" -> "owned"
    [] status[o] = "none" /\ wr[o] = "lost" -> "lost"
    [] OTHER -> "none"

-----------------------------------------------------------------------------
(* What the queues hold, whatever the completion token.                    *)

Distinct(s) == \A i, j \in 1..Len(s) : s[i] = s[j] => i = j

(* s holds operations of CQ c that are in the given place, each once.      *)
HoldsOnce(s, c, place) ==
  /\ \A i \in 1..Len(s) : wr[s[i]] = place /\ CqOf(s[i]) = c
  /\ Distinct(s)

(* A wr_id is in one CQ or one batch at most, once, as wr says; a poller   *)
(* that dispatches has something to dispatch.                              *)
QueuesInv ==
  \A c \in Cqs :
    /\ HoldsOnce(cq[c], c, "cqe")
    /\ HoldsOnce(batch[c], c, "polled")
    /\ poller[c] \in {"process", "won", "invoked"} => batch[c] # <<>>

(* The poller of o is at p in the dispatch of o.                           *)
AtHead(o, p) ==
  /\ poller[CqOf(o)] = p
  /\ batch[CqOf(o)] # <<>>
  /\ Head(batch[CqOf(o)]) = o

(* No work queue holds more requests than it was created for.              *)
WithinLimits ==
  /\ Cardinality(Outstanding(SendOps)) <= MaxSendWr
  /\ Cardinality(Outstanding(RecvOps)) <= MaxRecvWr

(* A completion has a status from the moment the NIC writes it.            *)
Reported ==
  \A o \in Ops :
    /\ wr[o] \in {"idle", "posted"} => status[o] = "none"
    /\ wr[o] \in {"cqe", "polled", "done"} => status[o] # "none"

(* What every step of the QP, the NIC and the pollers keeps.               *)
QpInv ==
  /\ VerbsTypeOK /\ PollerTypeOK
  /\ QueuesInv /\ WithinLimits /\ Reported
  /\ NoOverrunIfSized
=============================================================================
