------------------------------ MODULE Session ------------------------------
(***************************************************************************)
(* The conversations of the example programs over one connected pair of    *)
(* QPs.  What each coroutine awaits, in order, is its script; both sides   *)
(* run their scripts at their own pace over a reliable connection.         *)
(*                                                                         *)
(* The connection is external: requests of a side are executed by the      *)
(* other side's NIC in the order they were posted; one that consumes a     *)
(* receive waits until there is one (rnr_retry = 7: for ever); the         *)
(* acknowledgement completes the request later.  A QP that is gone answers *)
(* nothing: requests to it, executed or not, fail when retries run out.    *)
(***************************************************************************)
EXTENDS Naturals, Sequences, FiniteSets

CONSTANTS
  Programs,     \* the example programs to run
  Count,        \* kSendCount and kRpcCnt: how often the loops go round
  Concurrency,  \* kConcurrency: senders of send_bw_raw
  RecvDepth,    \* kRecvDepth: receivers of send_bw_raw
  None          \* no immediate, no memory region

ASSUME SessionAssumption ==
  /\ Programs \subseteq {"helloworld", "latency", "latency_raw", "rpc", "write_bw",
                         "send_bw_raw", "cancellation"}
  /\ Count \in Nat \ {0}
  /\ Concurrency \in Nat \ {0}
  /\ RecvDepth \in Nat \ {0}

Sides == {"client", "server"}
Peer(s) == IF s = "client" THEN "server" ELSE "client"

-----------------------------------------------------------------------------
(* What a coroutine may await, or do to its regions.  A remote access      *)
(* names the region by the position of its description among those the     *)
(* coroutine has received.                                                 *)

(* remote_mr::kSerializedSize                                              *)
DescrSize == 20

RegMr(r, n) == [op |-> "reg_mr", mr |-> r, length |-> n]
SendMr(r) == [op |-> "send", mr |-> r, length |-> DescrSize]
Send(n) == [op |-> "send", mr |-> None, length |-> n]
Read(k, n) == [op |-> "read", of |-> k, length |-> n]
Write(k, n) == [op |-> "write", of |-> k, length |-> n]
Atomic(k) == [op |-> "atomic", of |-> k, length |-> 8]
WriteImm(k, n, v) == [op |-> "write_with_imm", of |-> k, length |-> n, imm |-> v]

(* A receive, with what the coroutine checks of it: the immediates it      *)
(* expects, and whether the message must fill the buffer.                  *)
RecvImm(n, S) == [op |-> "recv", length |-> n, imms |-> S, exact |-> FALSE]
Recv(n) == RecvImm(n, None)
RecvMr == Recv(DescrSize)
RecvMrExactly == [op |-> "recv", length |-> DescrSize, imms |-> None, exact |-> TRUE]

Times(instr) == [i \in 1..Count |-> instr]

SomeImm == Nat
Magic == "0xDEADBEEF"

-----------------------------------------------------------------------------
(* The scripts.                                                            *)

(* kMessageSize of latency.cc and latency_raw.cc, kBufferSizeBytes of      *)
(* write_bw.cc and kMsgSize of send_bw_raw.cc.                             *)
MessageSize == 4096
BufferSizeBytes == 1048576
MsgSize == 2097152

HelloServer ==
  << Send(5), Recv(5),
     RegMr("buffer", 5), SendMr("buffer"), RecvImm(0, SomeImm),
     RegMr("counter", 8), SendMr("counter"), RecvImm(5, SomeImm), RecvImm(5, SomeImm),
     RegMr("large", 65536), SendMr("large"), RecvImm(0, SomeImm) >>

HelloClient ==
  << Recv(5), Send(5),
     RecvMr, Read(1, 5), WriteImm(1, 5, 1),
     RecvMr, Atomic(2), WriteImm(2, 8, 1), Atomic(2), WriteImm(2, 8, 1),
     RecvMr, Write(3, 2000), Read(3, 2000), WriteImm(3, 9987, 2099) >>

LatencyServer ==
  << RegMr("buffer", MessageSize), SendMr("buffer") >>
    \o Times(Recv(0)) \o Times(Recv(MessageSize))

LatencyClient ==
  << RecvMrExactly >>
    \o [i \in 1..Count |-> WriteImm(1, MessageSize, i - 1)] \o Times(Send(MessageSize))

(* The same operations, awaited natively.                                  *)
LatencyRawServer == LatencyServer
LatencyRawClient == LatencyClient

(* The keys of registered_rpc_fn.                                          *)
RpcFns == 0..Count-1

(* Mutant: the handler goes round once more.                               *)
RpcHandlerOneMore ==
  << RegMr("buffer", 42), SendMr("buffer") >>
    \o Times(RecvImm(0, RpcFns)) \o << RecvImm(0, RpcFns) >>

(* A function that is not registered cannot be called: an exception.       *)
RpcHandler ==
  << RegMr("buffer", 42), SendMr("buffer") >> \o Times(RecvImm(0, RpcFns))

(* Mutant: the client counts from 1.                                       *)
RpcCallerFromOne == << RecvMr >> \o [i \in 1..Count |-> WriteImm(1, 42, i)]

RpcCaller == << RecvMr >> \o [i \in 1..Count |-> WriteImm(1, 42, i - 1)]

WriteBwHandler ==
  << RegMr("buffer", BufferSizeBytes), SendMr("buffer"), RecvImm(0, {Magic}) >>

(* Mutant: the client notifies the server before its last write.           *)
WriteBwWorkerEarly ==
  << RecvMr >> \o << WriteImm(1, BufferSizeBytes, Magic) >> \o Times(Write(1, BufferSizeBytes))

WriteBwWorker ==
  << RecvMr >> \o Times(Write(1, BufferSizeBytes)) \o << WriteImm(1, BufferSizeBytes, Magic) >>

SendWorker == Times(Send(MsgSize))
ServerWorker == << Recv(MsgSize) >>

CancelClient == << Send(5) >>
CancelServer == << Recv(5), Recv(5) >>

(* The script of a coroutine of side s of program p.                       *)
Script(p, s) ==
  CASE p = "helloworld" -> IF s = "client" THEN HelloClient ELSE HelloServer
    [] p = "latency" -> IF s = "client" THEN LatencyClient ELSE LatencyServer
    [] p = "latency_raw" -> IF s = "client" THEN LatencyRawClient ELSE LatencyRawServer
    [] p = "rpc" -> IF s = "client" THEN RpcCaller ELSE RpcHandler
    [] p = "write_bw" -> IF s = "client" THEN WriteBwWorker ELSE WriteBwHandler
    [] p = "send_bw_raw" -> IF s = "client" THEN SendWorker ELSE ServerWorker
    [] p = "cancellation" -> IF s = "client" THEN CancelClient ELSE CancelServer

(* run_client and Server::run of send_bw_raw.cc start several coroutines.  *)
Senders == 1..Concurrency
Receivers == 1..RecvDepth

(* The coroutines of a side.                                               *)
Workers(p, s) ==
  IF p # "send_bw_raw" THEN {1} ELSE IF s = "client" THEN Senders ELSE Receivers

(* server_worker starts over when its script is through.                   *)
Repeats(p, s) == p = "send_bw_raw" /\ s = "server"

-----------------------------------------------------------------------------
VARIABLES
  prog,    \* the program both sides run
  pc,      \* the position of each coroutine in its script
  waits,   \* is it suspended in a co_await?
  known,   \* the descriptions of regions it has received
  regs,    \* of each side, its registered regions: their lengths
  sq,      \* requests posted and not executed, oldest first
  unacked, \* requests executed and not completed, oldest first
  rq,      \* receives posted and not consumed, oldest first
  qp,      \* does the QP of the side exist?
  fate     \* "running", "ended", "asserted" (a check failed) or "failed"

sessionVars == <<prog, pc, waits, known, regs, sq, unacked, rq, qp, fate>>

Regions == {"buffer", "counter", "large"}

(* A value for each coroutine of each side.                                *)
PerCoroutine(f) == f = [s \in Sides |-> [w \in Workers(prog, s) |-> f[s][w]]]

(* Coroutines of each side, in an order.                                   *)
IsQueue(q) ==
  /\ q = [s \in Sides |-> q[s]]
  /\ \A s \in Sides : q[s] \in Seq(Workers(prog, s))

SessionTypeOK ==
  /\ prog \in Programs
  /\ PerCoroutine(pc) /\ PerCoroutine(waits) /\ PerCoroutine(known)
  /\ \A s \in Sides : \A w \in Workers(prog, s) :
       /\ pc[s][w] \in 1..Len(Script(prog, s)) + 1
       /\ waits[s][w] \in BOOLEAN
       /\ known[s][w] \in Seq(Regions \cup {None})
  /\ regs = [s \in Sides |-> regs[s]]
  /\ \A s \in Sides : \E R \in SUBSET Regions : regs[s] \in [R -> Nat]
  /\ IsQueue(sq) /\ IsQueue(unacked) /\ IsQueue(rq)
  /\ qp \in [Sides -> BOOLEAN]
  /\ fate \in [Sides -> {"running", "ended", "asserted", "failed"}]

SessionInit ==
  /\ prog \in Programs
  /\ pc = [s \in Sides |-> [w \in Workers(prog, s) |-> 1]]
  /\ waits = [s \in Sides |-> [w \in Workers(prog, s) |-> FALSE]]
  /\ known = [s \in Sides |-> [w \in Workers(prog, s) |-> <<>>]]
  /\ regs = [s \in Sides |-> <<>>]
  /\ sq = [s \in Sides |-> <<>>]
  /\ unacked = [s \in Sides |-> <<>>]
  /\ rq = [s \in Sides |-> <<>>]
  /\ qp = [s \in Sides |-> TRUE]
  /\ fate = [s \in Sides |-> "running"]

Running(s) == fate[s] = "running"
Instr(s, w) == Script(prog, s)[pc[s][w]]
Through(s, w) == pc[s][w] > Len(Script(prog, s))

-----------------------------------------------------------------------------
(* A coroutine runs to its next co_await.                                  *)

Register(s, w) ==
  LET i == Instr(s, w) IN
  /\ i.op = "reg_mr"
  /\ regs' = [regs EXCEPT ![s] =
       [r \in DOMAIN @ \cup {i.mr} |-> IF r = i.mr THEN i.length ELSE @[r]]]
  /\ pc' = [pc EXCEPT ![s][w] = @ + 1]
  /\ UNCHANGED <<waits, sq, rq>>

(* Mutant: the coroutine posts and goes on to its next instruction without *)
(* waiting for the completion.                                             *)
PostRunsOn(s, w) ==
  LET i == Instr(s, w) IN
  /\ i.op # "reg_mr"
  /\ pc' = [pc EXCEPT ![s][w] = @ + 1]
  /\ IF i.op = "recv"
     THEN rq' = [rq EXCEPT ![s] = Append(@, w)] /\ UNCHANGED sq
     ELSE sq' = [sq EXCEPT ![s] = Append(@, w)] /\ UNCHANGED rq
  /\ UNCHANGED <<regs, waits>>

Post(s, w) ==
  LET i == Instr(s, w) IN
  /\ i.op # "reg_mr"
  /\ waits' = [waits EXCEPT ![s][w] = TRUE]
  /\ IF i.op = "recv"
     THEN rq' = [rq EXCEPT ![s] = Append(@, w)] /\ UNCHANGED sq
     ELSE sq' = [sq EXCEPT ![s] = Append(@, w)] /\ UNCHANGED rq
  /\ UNCHANGED <<regs, pc>>

Run(s, w) ==
  /\ Running(s)
  /\ ~waits[s][w]
  /\ ~Through(s, w)
  /\ Register(s, w) \/ Post(s, w)
  /\ UNCHANGED <<prog, known, unacked, qp, fate>>

(* All coroutines of the side have returned; their local_mr objects        *)
(* deregister its regions.                                                 *)
End(s) ==
  /\ Running(s)
  /\ \A w \in Workers(prog, s) : Through(s, w)
  /\ fate' = [fate EXCEPT ![s] = "ended"]
  /\ regs' = [regs EXCEPT ![s] = <<>>]
  /\ UNCHANGED <<prog, pc, waits, known, sq, unacked, rq, qp>>

(* The last shared_ptr to the QP of a side that has ended goes.            *)
DropQp(s) ==
  /\ fate[s] = "ended"
  /\ qp[s]
  /\ qp' = [qp EXCEPT ![s] = FALSE]
  /\ UNCHANGED <<prog, pc, waits, known, regs, sq, unacked, rq, fate>>

-----------------------------------------------------------------------------
(* The connection.                                                         *)

(* The position after an operation of w has completed.                     *)
Advance(s, w) ==
  IF Repeats(prog, s) /\ pc[s][w] = Len(Script(prog, s)) THEN 1 ELSE pc[s][w] + 1

(* A request that names no region, or one that is described and registered *)
(* and long enough.                                                        *)
Granted(s, w) ==
  LET i == Instr(s, w) IN
  i.op # "send" =>
    /\ i.of \in 1..Len(known[s][w])
    /\ known[s][w][i.of] \in DOMAIN regs[Peer(s)]
    /\ i.length <= regs[Peer(s)][known[s][w][i.of]]

(* What coroutine v finds when request i has consumed its receive: its     *)
(* checks hold, or an assertion fails (or an exception is thrown).         *)
Accepts(j, i) ==
  /\ j.imms # None => i.op = "write_with_imm" /\ i.imm \in j.imms
  /\ j.exact => i.op = "send" /\ i.length = j.length

Consuming(s) == Instr(s, Head(sq[s])).op \in {"send", "write_with_imm"}

(* The NIC of the other side executes the oldest request of s.  One that   *)
(* it refuses fails and takes both QPs to the error state.                 *)
Execute(s) ==
  LET w == Head(sq[s])
      i == Instr(s, w)
      v == Head(rq[Peer(s)])
      j == Instr(Peer(s), v)
      fits == i.op = "send" => i.length <= j.length
  IN
  /\ sq[s] # <<>>
  /\ qp[s] /\ qp[Peer(s)]
  /\ Consuming(s) => rq[Peer(s)] # <<>>
  /\ sq' = [sq EXCEPT ![s] = Tail(@)]
  /\ IF ~Granted(s, w) \/ (Consuming(s) /\ ~fits)
     THEN /\ fate' = [fate EXCEPT ![s] = "failed"]
          /\ qp' = [t \in Sides |-> FALSE]
          /\ UNCHANGED <<pc, waits, known, rq, unacked>>
     ELSE /\ unacked' = [unacked EXCEPT ![s] = Append(@, w)]
          /\ IF Consuming(s)
             THEN /\ rq' = [rq EXCEPT ![Peer(s)] = Tail(@)]
                  /\ waits' = [waits EXCEPT ![Peer(s)][v] = FALSE]
                  /\ pc' = [pc EXCEPT ![Peer(s)][v] = Advance(Peer(s), v)]
                  /\ known' = IF i.op = "send" /\ j.length = DescrSize
                              THEN [known EXCEPT ![Peer(s)][v] = Append(@, i.mr)]
                              ELSE known
                  /\ fate' = IF Accepts(j, i) THEN fate
                             ELSE [fate EXCEPT ![Peer(s)] = "asserted"]
             ELSE UNCHANGED <<pc, waits, known, rq, fate>>
          /\ UNCHANGED qp
  /\ UNCHANGED <<prog, regs>>

(* The acknowledgement of the oldest executed request arrives.             *)
Acknowledge(s) ==
  LET w == Head(unacked[s]) IN
  /\ unacked[s] # <<>>
  /\ Running(s)
  /\ unacked' = [unacked EXCEPT ![s] = Tail(@)]
  /\ waits' = [waits EXCEPT ![s][w] = FALSE]
  /\ pc' = [pc EXCEPT ![s][w] = Advance(s, w)]
  /\ UNCHANGED <<prog, known, regs, sq, rq, qp, fate>>

(* What is posted on a QP in the error state is flushed; requests to a QP  *)
(* that is gone, executed and not acknowledged or not executed, fail when  *)
(* retries run out.  The awaitable throws, or its executor terminates.     *)
Fail(s) ==
  /\ Running(s)
  /\ \/ ~qp[s] /\ \E w \in Workers(prog, s) : waits[s][w]
     \/ ~qp[Peer(s)] /\ (unacked[s] # <<>> \/ sq[s] # <<>>)
  /\ fate' = [fate EXCEPT ![s] = "failed"]
  /\ qp' = [qp EXCEPT ![s] = FALSE]
  /\ UNCHANGED <<prog, pc, waits, known, regs, sq, unacked, rq>>

SideStep(s) ==
  \/ \E w \in Workers(prog, s) : Run(s, w)
  \/ End(s) \/ Execute(s) \/ Acknowledge(s) \/ Fail(s)

-----------------------------------------------------------------------------
(* What holds of a coroutine and of the queues of its side.                *)

IsIn(q, w) == \E n \in 1..Len(q) : q[n] = w
Once(q) == \A m, n \in 1..Len(q) : q[m] = q[n] => m = n

(* Nothing of a coroutine that runs is in a queue, so its next completion  *)
(* is that of the operation it awaits: a queue holds a coroutine once, no  *)
(* two hold the same, and a coroutine that waits is in one of them, unless *)
(* its request was refused.                                                *)
AwaitsOne(s, w) ==
  /\ IsIn(rq[s], w) => waits[s][w] /\ Instr(s, w).op = "recv"
  /\ IsIn(sq[s], w) \/ IsIn(unacked[s], w) =>
       waits[s][w] /\ Instr(s, w).op \notin {"recv", "reg_mr"}
  /\ ~(IsIn(sq[s], w) /\ IsIn(unacked[s], w))
  /\ waits[s][w] => ~Through(s, w)
  /\ waits[s][w] /\ fate[s] # "failed" =>
       IsIn(rq[s], w) \/ IsIn(sq[s], w) \/ IsIn(unacked[s], w)

(* Who gives up in an error leaves the QP in the error state.              *)
SideInv(s) ==
  /\ Once(sq[s]) /\ Once(unacked[s]) /\ Once(rq[s])
  /\ \A w \in Workers(prog, s) : AwaitsOne(s, w)
  /\ fate[s] = "failed" => ~qp[s]

SessionInv == SessionTypeOK /\ \A s \in Sides : SideInv(s)

-----------------------------------------------------------------------------
(* How far the two sides of a program can be from each other.  All but     *)
(* send_bw_raw have one coroutine on each side.                            *)

(* The first instruction of the side that has had no effect yet: one that  *)
(* waits for its acknowledgement has.                                      *)
Effective(s) == IF unacked[s] = <<>> THEN pc[s][1] ELSE pc[s][1] + 1

(* Where the client, m, and the server, n, can be at the same time.        *)
LoopMeets(m, n) == IF n <= 2 THEN m = 1 ELSE m = n - 1

WriteBwMeets(m, n) ==
  \/ n \in 1..2 /\ m = 1
  \/ n = 3 /\ m \in 2..Count + 2
  \/ n = 4 /\ m = Count + 3

HelloMeets(m, n) ==
  \/ n \in 1..3 /\ m = n
  \/ n = 4 /\ m = 3
  \/ n = 5 /\ m \in 4..5
  \/ n \in 6..7 /\ m = 6
  \/ n = 8 /\ m \in 7..8
  \/ n = 9 /\ m \in 9..10
  \/ n \in 10..11 /\ m = 11
  \/ n = 12 /\ m \in 12..14
  \/ n = 13 /\ m = 15

Meets(p, m, n) ==
  \/ p \in {"latency", "latency_raw", "rpc"} /\ LoopMeets(m, n)
  \/ p = "write_bw" /\ WriteBwMeets(m, n)
  \/ p = "helloworld" /\ HelloMeets(m, n)
  \/ p = "cancellation" /\ n \in 1..2 /\ m = n

(* The regions described to the client before it is at m.                  *)
Described(p, m) ==
  IF p = "helloworld"
  THEN IF m <= 3 THEN <<>>
       ELSE IF m <= 6 THEN <<"buffer">>
       ELSE IF m <= 11 THEN <<"buffer", "counter">>
       ELSE <<"buffer", "counter", "large">>
  ELSE IF m = 1 \/ p = "cancellation" THEN <<>> ELSE <<"buffer">>

(* R has every region the server makes before it is at n.                  *)
HasMade(n, R) ==
  \A k \in 1..n - 1 :
    LET i == Script(prog, "server")[k] IN
    i.op = "reg_mr" => i.mr \in DOMAIN R /\ R[i.mr] = i.length

InStep ==
  /\ Meets(prog, Effective("client"), Effective("server"))
  /\ known["client"][1] = Described(prog, pc["client"][1])
  /\ fate["server"] # "ended" => HasMade(pc["server"][1], regs["server"])

(* The receivers of send_bw_raw stay at their receive.                     *)
StaysAtRecv ==
  /\ qp["server"] /\ fate["server"] = "running"
  /\ \A w \in Workers(prog, "server") : pc["server"][w] = 1

(* Nothing goes wrong but what FailsOnlyAfterTheEnd allows.                *)
FateInv(s) ==
  /\ fate[s] # "asserted"
  /\ fate[s] = "ended" => \A w \in Workers(prog, s) : Through(s, w)
  /\ ~qp[s] => fate[s] \in {"ended", "failed"}
  /\ fate[s] = "failed" =>
       /\ fate[Peer(s)] = "ended" /\ prog # "send_bw_raw"
       /\ sq[s] = <<>> /\ unacked[s] # <<>> /\ pc[s][1] = Len(Script(prog, s))

FitInv ==
  /\ SessionInv /\ \A s \in Sides : FateInv(s)
  /\ IF prog = "send_bw_raw" THEN StaysAtRecv ELSE InStep

-----------------------------------------------------------------------------
(* Properties.                                                             *)

(* An operation of a program fails only because the other side, having run *)
(* its whole script, destroyed its QP before the acknowledgement of the    *)
(* very last operation got through: no message is too long for its         *)
(* receive, no access hits a region that is not described, not registered  *)
(* any more or too short, and everything was executed.                     *)
FailsOnlyAfterTheEnd ==
  \A s \in Sides : fate[s] = "failed" =>
    /\ fate[Peer(s)] = "ended"
    /\ sq[s] = <<>> /\ unacked[s] # <<>> /\ Cardinality(Workers(prog, s)) = 1
    /\ pc[s][1] = Len(Script(prog, s))

(* The assertions and checks of the handlers hold: an immediate is there   *)
(* when they look for one, is one they know, and the first message of a    *)
(* latency test is the description of a region.                            *)
ChecksHold == \A s \in Sides : fate[s] # "asserted"

(* "waiting for another recv which will never come", "should not reach     *)
(* here" (cancellation.cc): the handler never gets past its second receive *)
(* and stays the only one to wait; all other programs end on both sides,   *)
(* except for the receivers of send_bw_raw, which go on for ever.          *)
EndsAsIntended ==
  /\ <>(fate["client"] # "running")
  /\ IF prog \in {"cancellation", "send_bw_raw"}
     THEN [](fate["server"] = "running")
     ELSE <>(fate["server"] # "running")
=============================================================================
