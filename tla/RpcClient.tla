----------------------------- MODULE RpcClient -----------------------------
(***************************************************************************)
(* The RPC client built on native awaitables (examples/include/            *)
(* coro_rpc.hpp): calls take a slot from a pool, send a request tagged     *)
(* with the slot, and wait in the slot for the receive worker that gets    *)
(* the reply.                                                              *)
(*                                                                         *)
(* What makes it delicate is where code runs.  A poller thread dispatches  *)
(* the completions of a CQ in order and runs inline whatever they resume:  *)
(* a call that goes on to wait in its slot, a receive worker, the call the *)
(* worker resumes, and, for a caller that is a coroutine, the next call of *)
(* that caller.  A loop that spins there stops the dispatch of the CQ.     *)
(***************************************************************************)
EXTENDS RpcServer, Integers, Sequences, FiniteSets

CONSTANTS
  Callers,   \* the users of the client, each making its calls one by one
  Slots,     \* 0..max_inflight_-1
  Cqs, SendCq, RecvCq,  \* equal for qp_connector, different for qp_acceptor
  Coroutines,\* are the callers coroutines (co_await call) or threads (sync_wait)?
  AckFirst,  \* does the NIC report a send before the reply to it?
  MayFail,   \* may the connection fail?
  MaxCalls,  \* how many calls each caller makes
  SeqMod     \* 2^32: the values of the sequence number inside a req_id

ASSUME RpcAssumption ==
  /\ IsFiniteSet(Callers) /\ IsFiniteSet(Slots) /\ Workers # {}
  /\ SendCq \in Cqs /\ RecvCq \in Cqs
  /\ {Coroutines, AckFirst, MayFail} \subseteq BOOLEAN
  /\ MaxCalls \in Nat \ {0} /\ SeqMod \in Nat \ {0}
  /\ None \notin Callers \cup Slots

VARIABLES
  pc,        \* where each call is (see CallStates)
  calls,     \* how many calls each caller has finished
  slotOf,    \* the slot_idx of the running call
  reqId,     \* its req_id
  ok,        \* did it get its reply, or an exception?
  got,       \* the request whose reply the caller's buffer holds
  free,      \* free_slots_
  seq,       \* global_seq_, whose own wrap at 2^64 no req_id can show
  waiter, expected, respBuf,  \* the fields of RpcSlot, per slot
  cq,        \* the completions waiting in each CQ
  job,       \* what the poller of each CQ is running
  unacked,   \* callers whose send has not been reported
  recvs,     \* receives posted by the receive workers
  crashed    \* has std::terminate been called?

clientVars == <<pc, calls, slotOf, reqId, ok, got, free, seq, waiter, expected,
                respBuf, cq, job, unacked, recvs, crashed>>
vars == <<clientVars, serverVars, requests, qpUp>>

(* "call": about to take a slot; "ready": the request is built; "sending": *)
(* suspended in send; "waiting": suspended in RpcResponseAwaitable;        *)
(* "finish": resumed, about to return the slot; "done": no more calls.     *)
CallStates == {"call", "ready", "sending", "waiting", "finish", "done"}

(* The halves of a req_id.                                                 *)
ReqIds == [seq : 0..SeqMod-1, slot : Slots]

(* A poller is idle, spins on the waiter of a slot, or runs a caller; the  *)
(* receive worker below it, if any, posts its receive again afterwards.    *)
Idle == [at |-> "idle", slot |-> None, who |-> None, worker |-> FALSE]
Jobs == [at : {"idle", "spin", "run"}, slot : Slots \cup {None},
         who : Callers \cup {None}, worker : BOOLEAN]

Cqes == [op : {"send"}, who : Callers, good : BOOLEAN]
          \cup [op : {"recv"}, id : ReqIds]

(* The variables range over the states of the code they model.             *)
TypeOK ==
  /\ pc \in [Callers -> CallStates]
  /\ calls \in [Callers -> 0..MaxCalls]
  /\ slotOf \in [Callers -> Slots \cup {None}]
  /\ reqId \in [Callers -> ReqIds \cup {None}]
  /\ ok \in [Callers -> BOOLEAN]
  /\ got \in [Callers -> ReqIds \cup {None}]
  /\ free \subseteq Slots
  /\ seq \in Nat
  /\ waiter \in [Slots -> Callers \cup {None}]
  /\ expected \in [Slots -> ReqIds \cup {None}]
  /\ respBuf \in [Slots -> Callers \cup {None}]
  /\ cq \in [Cqs -> Seq(Cqes)]
  /\ job \in [Cqs -> Jobs]
  /\ unacked \subseteq Callers
  /\ requests \subseteq ReqIds
  /\ at \in [Workers -> WorkerStates]
  /\ inBuf \in [Workers -> ReqIds \cup {None}]
  /\ outBuf \in [Workers -> ReqIds \cup {None}]
  /\ recvs \in 0..Cardinality(Slots)
  /\ qpUp \in BOOLEAN /\ crashed \in BOOLEAN

(* Every slot is free and every receive worker has posted its receive.     *)
Init ==
  /\ ServerInit
  /\ pc = [k \in Callers |-> "call"]
  /\ calls = [k \in Callers |-> 0]
  /\ slotOf = [k \in Callers |-> None]
  /\ reqId = [k \in Callers |-> None]
  /\ ok = [k \in Callers |-> FALSE]
  /\ got = [k \in Callers |-> None]
  /\ free = Slots
  /\ seq = 0
  /\ waiter = [s \in Slots |-> None]
  /\ expected = [s \in Slots |-> None]
  /\ respBuf = [s \in Slots |-> None]
  /\ cq = [c \in Cqs |-> <<>>]
  /\ job = [c \in Cqs |-> Idle]
  /\ unacked = {}
  /\ requests = {}
  /\ recvs = Cardinality(Slots)
  /\ qpUp = TRUE /\ crashed = FALSE

-----------------------------------------------------------------------------
(* RpcClient::call, on the caller's thread or on a poller's.               *)

(* The poller's job once the caller it runs has been suspended or is done. *)
RunBy(k) == {c \in Cqs : job[c].at = "run" /\ job[c].who = k}

(* k gives its thread back: a receive worker below it loops and posts its  *)
(* receive, which fails at once and ends the worker when the QP is down.   *)
Yield(k) ==
  /\ job' = [c \in Cqs |-> IF c \in RunBy(k) THEN Idle ELSE job[c]]
  /\ recvs' = IF qpUp /\ \E c \in RunBy(k) : job[c].worker
              THEN recvs + 1 ELSE recvs

(* (seq << 32) | slot_idx: the shift keeps the low 32 bits of seq.         *)
MakeReqId(n, s) == [seq |-> n % SeqMod, slot |-> s]

(* Mutant: the waiter of the slot's last call is left in it.               *)
FillSlotKeepsWaiter(s, k, id) ==
  /\ respBuf' = [respBuf EXCEPT ![s] = k]
  /\ expected' = [expected EXCEPT ![s] = id]
  /\ UNCHANGED waiter

(* Mutant: the buffer of the slot's last call is left in it.               *)
FillSlotKeepsBuffer(s, k, id) ==
  /\ waiter' = [waiter EXCEPT ![s] = None]
  /\ respBuf' = [respBuf EXCEPT ![s] = IF @ = None THEN k ELSE @]
  /\ expected' = [expected EXCEPT ![s] = id]

(* Mutant: the req_id of the slot's last call is left in it.               *)
FillSlotKeepsId(s, k, id) ==
  /\ waiter' = [waiter EXCEPT ![s] = None]
  /\ respBuf' = [respBuf EXCEPT ![s] = k]
  /\ expected' = [expected EXCEPT ![s] = IF @ = None THEN id ELSE @]

(* The slot is set up for the request id of k.                             *)
FillSlot(s, k, id) ==
  /\ waiter' = [waiter EXCEPT ![s] = None]
  /\ respBuf' = [respBuf EXCEPT ![s] = k]
  /\ expected' = [expected EXCEPT ![s] = id]

(* Takes a slot, spinning until there is one, numbers the request and      *)
(* fills the slot.                                                         *)
Acquire(k) ==
  /\ pc[k] = "call"
  /\ \E s \in free :
       LET id == MakeReqId(seq, s) IN
       /\ free' = free \ {s}
       /\ slotOf' = [slotOf EXCEPT ![k] = s]
       /\ reqId' = [reqId EXCEPT ![k] = id]
       /\ FillSlot(s, k, id)
  /\ seq' = seq + 1
  /\ pc' = [pc EXCEPT ![k] = "ready"]
  /\ UNCHANGED <<calls, ok, got, cq, job, unacked, requests, recvs,
                 serverVars, qpUp, crashed>>

(* Mutant: the call's handle is in the slot before its send has completed. *)
SendStoresHandle(k) ==
  /\ pc[k] = "ready"
  /\ pc' = [pc EXCEPT ![k] = "sending"]
  /\ unacked' = unacked \cup {k}
  /\ requests' = IF qpUp THEN requests \cup {reqId[k]} ELSE requests
  /\ waiter' = [waiter EXCEPT ![slotOf[k]] = k]
  /\ Yield(k)
  /\ UNCHANGED <<calls, slotOf, reqId, ok, got, free, seq, expected,
                 respBuf, cq, serverVars, qpUp, crashed>>

(* co_await qp_->send(...): the request is posted and the call suspended.  *)
Send(k) ==
  /\ pc[k] = "ready"
  /\ pc' = [pc EXCEPT ![k] = "sending"]
  /\ unacked' = unacked \cup {k}
  /\ requests' = IF qpUp THEN requests \cup {reqId[k]} ELSE requests
  /\ Yield(k)
  /\ UNCHANGED <<calls, slotOf, reqId, ok, got, free, seq, waiter, expected,
                 respBuf, cq, serverVars, qpUp, crashed>>

(* The caller ends its last call, or each call of a thread, whose          *)
(* sync_wait returns on the thread itself; a coroutine goes on.            *)
LastCall(k) == calls[k] + 1 = MaxCalls
LeavesPoller(k) == ~Coroutines \/ LastCall(k)

(* Mutant: the slot is not returned.                                       *)
FinishLosesSlot(k) ==
  /\ pc[k] = "finish"
  /\ calls' = [calls EXCEPT ![k] = @ + 1]
  /\ pc' = [pc EXCEPT ![k] = IF LastCall(k) THEN "done" ELSE "call"]
  /\ IF LeavesPoller(k) THEN Yield(k) ELSE UNCHANGED <<job, recvs>>
  /\ UNCHANGED <<slotOf, reqId, ok, got, free, seq, waiter, expected, respBuf,
                 cq, unacked, requests, serverVars, qpUp, crashed>>

(* Returns the slot.  A caller that is a coroutine goes on with its next   *)
(* call where it is; a thread is woken and leaves the poller.              *)
Finish(k) ==
  /\ pc[k] = "finish"
  /\ free' = free \cup {slotOf[k]}
  /\ calls' = [calls EXCEPT ![k] = @ + 1]
  /\ pc' = [pc EXCEPT ![k] = IF LastCall(k) THEN "done" ELSE "call"]
  /\ IF LeavesPoller(k) THEN Yield(k) ELSE UNCHANGED <<job, recvs>>
  /\ UNCHANGED <<slotOf, reqId, ok, got, seq, waiter, expected, respBuf,
                 cq, unacked, requests, serverVars, qpUp, crashed>>

-----------------------------------------------------------------------------
(* The pollers, dispatching the completion at the head of a CQ.            *)

Head1(c, op) == job[c].at = "idle" /\ cq[c] # <<>> /\ Head(cq[c]).op = op

Running(k, worker) ==
  [at |-> "run", slot |-> slotOf[k], who |-> k, worker |-> worker]

(* Mutant: the call is suspended without its handle in the slot.           *)
SendDoneNoWaiter(c) ==
  /\ Head1(c, "send")
  /\ Head(cq[c]).good
  /\ cq' = [cq EXCEPT ![c] = Tail(@)]
  /\ pc' = [pc EXCEPT ![Head(cq[c]).who] = "waiting"]
  /\ UNCHANGED <<calls, slotOf, reqId, ok, got, free, seq, waiter, expected,
                 respBuf, job, unacked, requests, recvs, serverVars, qpUp, crashed>>

(* A send succeeded: the call goes on to RpcResponseAwaitable, stores its  *)
(* handle in the slot and is suspended again.                              *)
SendDone(c) ==
  LET k == Head(cq[c]).who IN
  /\ Head1(c, "send")
  /\ Head(cq[c]).good
  /\ cq' = [cq EXCEPT ![c] = Tail(@)]
  /\ waiter' = [waiter EXCEPT ![slotOf[k]] = k]
  /\ pc' = [pc EXCEPT ![k] = "waiting"]
  /\ UNCHANGED <<calls, slotOf, reqId, ok, got, free, seq, expected, respBuf,
                 job, unacked, requests, recvs, serverVars, qpUp, crashed>>

(* Mutant: the exception handler returns the slot, too.                    *)
SendFailedReturnsSlot(c) ==
  LET k == Head(cq[c]).who IN
  /\ Head1(c, "send")
  /\ ~Head(cq[c]).good
  /\ cq' = [cq EXCEPT ![c] = Tail(@)]
  /\ free' = free \cup {slotOf[k]}
  /\ ok' = [ok EXCEPT ![k] = FALSE]
  /\ pc' = [pc EXCEPT ![k] = "finish"]
  /\ job' = [job EXCEPT ![c] = Running(k, FALSE)]
  /\ UNCHANGED <<calls, slotOf, reqId, got, seq, waiter, expected,
                 respBuf, unacked, requests, recvs, serverVars, qpUp, crashed>>

(* A send failed: the call catches the exception and runs to its end.      *)
SendFailed(c) ==
  LET k == Head(cq[c]).who IN
  /\ Head1(c, "send")
  /\ ~Head(cq[c]).good
  /\ cq' = [cq EXCEPT ![c] = Tail(@)]
  /\ ok' = [ok EXCEPT ![k] = FALSE]
  /\ pc' = [pc EXCEPT ![k] = "finish"]
  /\ job' = [job EXCEPT ![c] = Running(k, FALSE)]
  /\ UNCHANGED <<calls, slotOf, reqId, got, free, seq, waiter, expected,
                 respBuf, unacked, requests, recvs, serverVars, qpUp, crashed>>

(* A receive worker gets a reply: it terminates the program when the slot  *)
(* expects another one, else copies the reply to the caller's buffer.      *)
Reply(c) ==
  LET id == Head(cq[c]).id
      s == id.slot
  IN
  /\ Head1(c, "recv")
  /\ cq' = [cq EXCEPT ![c] = Tail(@)]
  /\ IF expected[s] # id
     THEN crashed' = TRUE /\ UNCHANGED <<got, job>>
     ELSE /\ got' = [got EXCEPT ![respBuf[s]] = id]
          /\ job' = [job EXCEPT ![c] =
                       [at |-> "spin", slot |-> s, who |-> None, worker |-> TRUE]]
          /\ UNCHANGED crashed
  /\ UNCHANGED <<pc, calls, slotOf, reqId, ok, free, seq, waiter, expected,
                 respBuf, unacked, requests, recvs, serverVars, qpUp>>

(* ... spins until the slot has a waiter, and resumes it.                  *)
ResumeWaiter(c) ==
  LET k == waiter[job[c].slot] IN
  /\ job[c].at = "spin"
  /\ k # None
  /\ pc' = [pc EXCEPT ![k] = "finish"]
  /\ ok' = [ok EXCEPT ![k] = TRUE]
  /\ job' = [job EXCEPT ![c] = Running(k, TRUE)]
  /\ UNCHANGED <<calls, slotOf, reqId, got, free, seq, waiter, expected,
                 respBuf, cq, unacked, requests, recvs, serverVars, qpUp, crashed>>

-----------------------------------------------------------------------------
(* The network between client and server.                                  *)

Report(c, cqe) == cq' = [cq EXCEPT ![c] = Append(@, cqe)]

(* The send of k is acknowledged, or flushed once the connection is down.  *)
ReportSend(k) ==
  /\ k \in unacked
  /\ unacked' = unacked \ {k}
  /\ Report(SendCq, [op |-> "send", who |-> k, good |-> qpUp])
  /\ UNCHANGED <<pc, calls, slotOf, reqId, ok, got, free, seq, waiter,
                 expected, respBuf, job, requests, recvs, serverVars, qpUp, crashed>>

(* The reply of a worker takes a receive of the client.  Unless AckFirst,  *)
(* it may be reported before the send it answers.                          *)
Deliver(w) ==
  LET id == outBuf[w] IN
  /\ qpUp
  /\ at[w] = "send"
  /\ recvs > 0
  /\ AckFirst => ~\E k \in unacked : reqId[k] = id
  /\ at' = [at EXCEPT ![w] = "sent"]
  /\ recvs' = recvs - 1
  /\ Report(RecvCq, [op |-> "recv", id |-> id])
  /\ UNCHANGED <<pc, calls, slotOf, reqId, ok, got, free, seq, waiter,
                 expected, respBuf, job, unacked, requests, inBuf, outBuf, qpUp,
                 crashed>>

(* The server's workers run in a process of their own.                     *)
ServerStep(w) == WorkerStep(w) /\ UNCHANGED clientVars

(* The connection fails: the posted receives are flushed and end their     *)
(* workers, and no reply comes any more.                                   *)
Disconnect ==
  /\ MayFail
  /\ qpUp
  /\ qpUp' = FALSE
  /\ recvs' = 0
  /\ requests' = {}
  /\ UNCHANGED <<pc, calls, slotOf, reqId, ok, got, free, seq, waiter,
                 expected, respBuf, cq, job, unacked, serverVars, crashed>>

-----------------------------------------------------------------------------
CallStep(k) == Acquire(k) \/ Send(k) \/ Finish(k)

PollerStep(c) == SendDone(c) \/ SendFailed(c) \/ Reply(c) \/ ResumeWaiter(c)

NetworkStep == \/ \E k \in Callers : ReportSend(k)
               \/ \E w \in Workers : Deliver(w)
               \/ Disconnect

(* Every call has returned and every completion is dispatched.  run_client *)
(* goes no further: ~RpcClient joins worker_, which waits for the receive  *)
(* workers, and as long as the connection is up each of them is suspended  *)
(* in its receive.  The pollers go on polling empty CQs.                   *)
AllDone ==
  /\ \A k \in Callers : pc[k] = "done"
  /\ \A c \in Cqs : cq[c] = <<>> /\ job[c] = Idle
  /\ qpUp => recvs = Cardinality(Slots)
  /\ UNCHANGED vars

Next ==
  \/ /\ ~crashed
     /\ \/ \E k \in Callers : CallStep(k)
        \/ \E c \in Cqs : PollerStep(c)
        \/ NetworkStep
        \/ \E w \in Workers : ServerStep(w)
  \/ AllDone

Spec == Init /\ [][Next]_vars

(* Threads run; the NIC reports every send and delivers every reply.       *)
(* Nothing forces a disconnection.  A spinning caller gets a slot if slots *)
(* keep coming back (the strong fairness of Acquire).                      *)
Fairness ==
  /\ \A k \in Callers :
       /\ SF_vars(~crashed /\ Acquire(k))
       /\ WF_vars(~crashed /\ (Send(k) \/ Finish(k)))
       /\ WF_vars(~crashed /\ ReportSend(k))
  /\ \A c \in Cqs : WF_vars(~crashed /\ PollerStep(c))
  /\ \A w \in Workers :
       WF_vars(~crashed /\ Deliver(w)) /\ WF_vars(~crashed /\ ServerStep(w))

FairSpec == Spec /\ Fairness

-----------------------------------------------------------------------------
(* Properties.                                                             *)

Holds(k) == pc[k] \in {"ready", "sending", "waiting", "finish"}

(* A call that succeeds returns the reply to its own request: no reply     *)
(* reaches another call through a reused slot, an old handle or an old     *)
(* buffer.                                                                 *)
OwnReply ==
  \A k \in Callers : pc[k] = "finish" /\ ok[k] => got[k] = reqId[k]

(* A slot belongs to one call at a time, also when replies come out of     *)
(* order and slots go back to the pool on a poller thread.                 *)
SlotExclusive ==
  \A k \in Callers : Holds(k) =>
    /\ slotOf[k] \notin free
    /\ \A j \in Callers \ {k} : Holds(j) => slotOf[j] # slotOf[k]

(* A reply is copied only into the buffer of a call that still runs, and   *)
(* the waiter a worker resumes is suspended in RpcResponseAwaitable.       *)
WorkerTouchesLiveCall ==
  \A c \in Cqs : job[c].at = "spin" =>
    LET s == job[c].slot IN
    /\ respBuf[s] # None /\ Holds(respBuf[s]) /\ slotOf[respBuf[s]] = s
    /\ waiter[s] # None => waiter[s] = respBuf[s] /\ pc[waiter[s]] = "waiting"

(* The reply a slot expects is the only one it gets: the worker never      *)
(* meets the mismatch on which it terminates the program.                  *)
NoBadPacket == ~crashed

(* A failed connection strands only the calls whose send had been          *)
(* acknowledged: every caller ends up done, or waiting in its slot for a   *)
(* reply that cannot come any more, or asking for a slot when all of them  *)
(* are held by such calls.                                                 *)
StrandedOnlyByFailure ==
  \A k \in Callers :
    \/ <>[](pc[k] = "done")
    \/ <>[](~qpUp /\ (pc[k] = "waiting" \/ (pc[k] = "call" /\ free = {})))

(* Every caller finishes its calls.                                        *)
CallsReturn == \A k \in Callers : <>(pc[k] = "done")

-----------------------------------------------------------------------------
(* The inductive invariant behind the safety properties.                   *)

(* No send is flushed, and its call ended, while the reply to it is        *)
(* already in another CQ: the connection does not fail, the NIC reports a  *)
(* send before its reply, or there is one CQ, as qp_connector makes it.    *)
NoLateFlush == ~MayFail \/ AckFirst \/ SendCq = RecvCq

(* What a call in progress and its slot know of each other.                *)
CallInv(k) ==
  /\ Holds(k) =>
       /\ slotOf[k] \in Slots \ free
       /\ respBuf[slotOf[k]] = k
       /\ reqId[k] \in ReqIds /\ reqId[k].slot = slotOf[k]
       /\ expected[slotOf[k]] = reqId[k]
       /\ waiter[slotOf[k]] = k \/ pc[k] # "waiting"
       /\ waiter[slotOf[k]] = None \/ pc[k] \notin {"ready", "sending"}
  /\ pc[k] = "finish" /\ ok[k] => got[k] = reqId[k]
  /\ pc[k] # "done" => calls[k] < MaxCalls
  /\ k \in unacked => pc[k] = "sending"

(* The call that sent the request id still waits for its reply.            *)
Asks(id) ==
  LET k == respBuf[id.slot] IN
  /\ k \in Callers
  /\ pc[k] \in {"sending", "waiting"}
  /\ reqId[k] = id

(* The workers that carry a request or its reply, and which.               *)
Serving == {w \in Workers : qpUp /\ at[w] \in {"work", "send"}}
Carried(w) == IF at[w] = "work" THEN inBuf[w] ELSE outBuf[w]

AtServer(id) == id \in requests \/ \E w \in Serving : Carried(w) = id

(* The completions waiting in c, and the replies among them.               *)
Entries(c) == {cq[c][i] : i \in 1..Len(cq[c])}
ReplyTo(id) == [op |-> "recv", id |-> id]
Replies == {e \in Entries(RecvCq) : e.op = "recv"}

(* The receive worker of id spins on its slot.                             *)
Spun(id) == job[RecvCq].at = "spin" /\ expected[job[RecvCq].slot] = id

Arrived(id) == ReplyTo(id) \in Entries(RecvCq) \/ Spun(id)

(* A request or its reply is in one place at most, and the call waits.     *)
OneReply ==
  \A id \in ReqIds :
    /\ AtServer(id) \/ Arrived(id) => Asks(id)
    /\ ~(AtServer(id) /\ Arrived(id))
    /\ ~(Spun(id) /\ ReplyTo(id) \in Entries(RecvCq))
    /\ AckFirst /\ Arrived(id) => respBuf[id.slot] \notin unacked

ServingInv ==
  /\ \A w \in Serving : Carried(w) \in ReqIds \ requests
  /\ \A v, w \in Serving : Carried(v) = Carried(w) => v = w
  /\ qpUp \/ requests = {}

(* f waits in c behind e.                                                  *)
Behind(c, e, f) ==
  \E i, j \in 1..Len(cq[c]) : i < j /\ cq[c][i] = e /\ cq[c][j] = f

(* Each completion waits once, in its own CQ.                              *)
Once(c) == \A i, j \in 1..Len(cq[c]) : cq[c][i] = cq[c][j] => i = j

PlacesInv ==
  \A c \in Cqs :
    /\ Once(c)
    /\ \A e \in Entries(c) : c = IF e.op = "send" THEN SendCq ELSE RecvCq

(* A send is reported, once, to a call suspended in it, and as a failure   *)
(* only if the reply has not come or is before it in the one CQ.           *)
SendsInv ==
  \A e \in Entries(SendCq) : e.op = "send" =>
    /\ pc[e.who] = "sending" /\ e.who \notin unacked
    /\ \A f \in Entries(SendCq) : f.op = "send" /\ f.who = e.who => f = e
    /\ \/ e.good
       \/ /\ ~qpUp
          /\ Arrived(reqId[e.who]) => SendCq = RecvCq
          /\ ~Behind(SendCq, e, ReplyTo(reqId[e.who]))

(* Only the poller of the receive CQ runs receive workers; one that spins  *)
(* has copied the reply.                                                   *)
JobInv ==
  /\ \A c \in Cqs :
       /\ job[c].at = "idle" => ~job[c].worker
       /\ c # RecvCq => job[c].at # "spin" /\ ~job[c].worker
  /\ job[RecvCq].at = "spin" =>
       LET s == job[RecvCq].slot IN
       /\ job[RecvCq].worker
       /\ s \in Slots /\ expected[s] \in ReqIds /\ expected[s].slot = s
       /\ got[respBuf[s]] = expected[s]

(* No receive worker has two receives posted.                              *)
CreditInv ==
  recvs + Cardinality(Replies) + (IF job[RecvCq].worker THEN 1 ELSE 0)
    <= Cardinality(Slots)

RpcInv ==
  /\ TypeOK
  /\ \A k \in Callers : CallInv(k)
  /\ OneReply /\ ServingInv /\ PlacesInv /\ SendsInv /\ JobInv /\ CreditInv
  /\ qpUp \/ MayFail
  /\ ~crashed
-----------------------------------------------------------------------------
(* After a disconnection, also where NoLateFlush does not hold.            *)

(* The send of k was acknowledged while the connection was up: the one     *)
(* kind of call that a reply can still reach.                              *)
Sound(k) ==
  \/ pc[k] = "waiting" \/ (pc[k] = "finish" /\ ok[k])
  \/ \E e \in Entries(SendCq) : e.op = "send" /\ e.who = k /\ e.good

(* A reply for slot s is in the CQ, or its receive worker spins on s.      *)
SpunAt(s) == job[RecvCq].at = "spin" /\ job[RecvCq].slot = s
Here(s) == SpunAt(s) \/ \E e \in Replies : e.id.slot = s

(* A reply that is here finds its call, if that can still succeed, and no  *)
(* handle but that of a call which waits for it; there is one for a slot.  *)
LateReply(s) ==
  /\ Here(s) =>
       /\ waiter[s] # None => waiter[s] = respBuf[s] /\ pc[waiter[s]] = "waiting"
       /\ \A k \in Callers : k = respBuf[s] /\ Sound(k) =>
            /\ slotOf[k] = s /\ pc[k] \in {"sending", "waiting"}
            /\ SpunAt(s) => got[k] = reqId[k]
  /\ \A e, f \in Replies : e.id.slot = s /\ f.id.slot = s => e = f /\ ~SpunAt(s)

(* A send is reported once, to a call suspended in it.                     *)
SendsOnce ==
  \A e \in Entries(SendCq) : e.op = "send" =>
    /\ pc[e.who] = "sending" /\ e.who \notin unacked
    /\ \A f \in Entries(SendCq) : f.op = "send" /\ f.who = e.who => f = e

(* What calls, slots and completions know of each other at any time.       *)
BaseInv ==
  /\ TypeOK
  /\ \A k \in Callers : CallInv(k)
  /\ PlacesInv /\ SendsOnce

LateInv ==
  /\ BaseInv /\ ~qpUp
  /\ \A c \in Cqs : job[c].at = "spin" => c = RecvCq /\ job[c].slot \in Slots
  /\ \A s \in Slots : LateReply(s)

(* What holds however late a send is flushed.                              *)
AnyFlushInv == (qpUp /\ RpcInv) \/ LateInv
=============================================================================
