--------------------------- MODULE Session_proofs ---------------------------
(***************************************************************************)
(* Proofs about the conversations of the example programs: for any number  *)
(* of rounds, senders and receivers.                                       *)
(***************************************************************************)
EXTENDS Session, TLAPS

-----------------------------------------------------------------------------
(* The scripts are sequences of instructions.                              *)

Instrs ==
  [op : {"reg_mr"}, mr : Regions, length : Nat]
    \cup [op : {"send"}, mr : Regions \cup {None}, length : Nat]
    \cup [op : {"read", "write", "atomic"}, of : Nat, length : Nat]
    \cup [op : {"write_with_imm"}, of : Nat, length : Nat, imm : Nat \cup {Magic}]
    \cup [op : {"recv"}, length : Nat, imms : {None, Nat, RpcFns, {Magic}}, exact : BOOLEAN]

(* Every instruction the scripts are made of is one.                       *)
LEMMA InstrFacts ==
  /\ \A r \in Regions, n \in Nat : RegMr(r, n) \in Instrs
  /\ \A r \in Regions : SendMr(r) \in Instrs
  /\ \A n \in Nat : Send(n) \in Instrs
  /\ \A k, n \in Nat : Read(k, n) \in Instrs /\ Write(k, n) \in Instrs
  /\ \A k \in Nat : Atomic(k) \in Instrs
  /\ \A k, n, v \in Nat : WriteImm(k, n, v) \in Instrs
  /\ \A k, n \in Nat : WriteImm(k, n, Magic) \in Instrs
  /\ \A n \in Nat : RecvImm(n, Nat) \in Instrs /\ RecvImm(n, RpcFns) \in Instrs
  /\ \A n \in Nat : RecvImm(n, {Magic}) \in Instrs
  /\ \A n \in Nat : Recv(n) \in Instrs
  /\ RecvMr \in Instrs /\ RecvMrExactly \in Instrs
<1>1. \A r \in Regions, n \in Nat : RegMr(r, n) \in Instrs BY DEF RegMr, Instrs
<1>2. \A r \in Regions : SendMr(r) \in Instrs BY DEF SendMr, Instrs, DescrSize
<1>3. \A n \in Nat : Send(n) \in Instrs BY DEF Send, Instrs
<1>4. \A k, n \in Nat : Read(k, n) \in Instrs /\ Write(k, n) \in Instrs
  BY DEF Read, Write, Instrs
<1>5. \A k \in Nat : Atomic(k) \in Instrs BY DEF Atomic, Instrs
<1>6. /\ \A k, n, v \in Nat : WriteImm(k, n, v) \in Instrs
      /\ \A k, n \in Nat : WriteImm(k, n, Magic) \in Instrs
  BY DEF WriteImm, Instrs
<1>7. \A n \in Nat, S \in {None, Nat, RpcFns, {Magic}} : RecvImm(n, S) \in Instrs
  BY DEF RecvImm, Instrs
<1>8. \A n \in Nat : Recv(n) \in Instrs BY DEF Recv, RecvImm, Instrs
<1>9. RecvMr \in Instrs /\ RecvMrExactly \in Instrs
  BY DEF RecvMr, RecvMrExactly, Recv, RecvImm, Instrs, DescrSize
<1> QED BY <1>1, <1>2, <1>3, <1>4, <1>5, <1>6, <1>7, <1>8, <1>9

(* The sizes are numbers; which does not matter.                           *)
LEMMA SizeFacts == MessageSize \in Nat /\ BufferSizeBytes \in Nat /\ MsgSize \in Nat
BY SMT DEF MessageSize, BufferSizeBytes, MsgSize

(* So every script is a sequence of instructions.                          *)
LEMMA ScriptType ==
  ASSUME NEW p \in Programs, NEW s \in Sides
  PROVE  Script(p, s) \in Seq(Instrs)
<1> "buffer" \in Regions /\ "counter" \in Regions /\ "large" \in Regions BY DEF Regions
<1> USE SessionAssumption
<1>1. ASSUME NEW i \in Instrs PROVE Times(i) \in Seq(Instrs) BY DEF Times
<1>2. ASSUME NEW a \in Seq(Instrs), NEW b \in Seq(Instrs) PROVE a \o b \in Seq(Instrs)
  OBVIOUS
<1>3. ASSUME NEW i \in Instrs, NEW j \in Instrs
      PROVE <<i>> \in Seq(Instrs) /\ <<i, j>> \in Seq(Instrs)
  OBVIOUS
<1>4. HelloServer \in Seq(Instrs) /\ HelloClient \in Seq(Instrs)
  BY InstrFacts, SizeFacts, SMT DEF HelloServer, HelloClient, SomeImm
<1>5. LatencyServer \in Seq(Instrs) /\ LatencyClient \in Seq(Instrs)
  <2>1. [i \in 1..Count |-> WriteImm(1, MessageSize, i - 1)] \in Seq(Instrs)
     BY InstrFacts, SizeFacts, SMT
  <2>2. /\ RegMr("buffer", MessageSize) \in Instrs /\ SendMr("buffer") \in Instrs
        /\ Recv(0) \in Instrs /\ Recv(MessageSize) \in Instrs /\ Send(MessageSize) \in Instrs
        /\ RecvMrExactly \in Instrs
    BY InstrFacts, SizeFacts, SMT
  <2> QED BY <1>1, <1>2, <1>3, <2>1, <2>2, SMT DEF LatencyServer, LatencyClient
<1>6. RpcHandler \in Seq(Instrs) /\ RpcCaller \in Seq(Instrs)
  <2>1. [i \in 1..Count |-> WriteImm(1, 42, i - 1)] \in Seq(Instrs) BY InstrFacts, SizeFacts, SMT
  <2>2. /\ RegMr("buffer", 42) \in Instrs /\ SendMr("buffer") \in Instrs
        /\ RecvImm(0, RpcFns) \in Instrs /\ RecvMr \in Instrs
    BY InstrFacts, SizeFacts, SMT
  <2> QED BY <1>1, <1>2, <1>3, <2>1, <2>2, SMT DEF RpcHandler, RpcCaller
<1>7. WriteBwHandler \in Seq(Instrs) /\ WriteBwWorker \in Seq(Instrs)
  <2>1. /\ WriteImm(1, BufferSizeBytes, Magic) \in Instrs /\ Write(1, BufferSizeBytes) \in Instrs
        /\ RecvMr \in Instrs
    BY InstrFacts, SizeFacts, SMT
  <2>2. WriteBwWorker \in Seq(Instrs) BY <1>1, <1>2, <1>3, <2>1, SMT DEF WriteBwWorker
  <2>3. RegMr("buffer", BufferSizeBytes) \in Instrs /\ SendMr("buffer") \in Instrs
    BY InstrFacts, SizeFacts, SMT
  <2>4. RecvImm(0, {Magic}) \in Instrs BY InstrFacts, SizeFacts, 0 \in Nat, Zenon
  <2>5. WriteBwHandler \in Seq(Instrs) BY <2>3, <2>4, SMT DEF WriteBwHandler
  <2> QED BY <2>2, <2>5
<1>8. SendWorker \in Seq(Instrs) /\ ServerWorker \in Seq(Instrs)
  <2>1. Send(MsgSize) \in Instrs /\ Recv(MsgSize) \in Instrs BY InstrFacts, SizeFacts, SMT
  <2> QED BY <1>1, <1>3, <2>1, SMT DEF SendWorker, ServerWorker
<1>9. CancelClient \in Seq(Instrs) /\ CancelServer \in Seq(Instrs)
  BY InstrFacts, SizeFacts, SMT DEF CancelClient, CancelServer
<1> QED BY <1>4, <1>5, <1>6, <1>7, <1>8, <1>9, Zenon
        DEF Script, LatencyRawServer, LatencyRawClient, Sides

(* What a script says of its instructions.                                 *)
LEMMA InstrKinds ==
  ASSUME NEW p \in Programs, NEW s \in Sides
  PROVE  /\ Len(Script(p, s)) \in Nat
         /\ \A n \in 1..Len(Script(p, s)) :
              /\ Script(p, s)[n].op = "send" => Script(p, s)[n].mr \in Regions \cup {None}
              /\ Script(p, s)[n].op = "reg_mr" =>
                   Script(p, s)[n].mr \in Regions /\ Script(p, s)[n].length \in Nat
<1>1. Script(p, s) \in Seq(Instrs) BY ScriptType
<1>2. \A i \in Instrs : /\ i.op = "send" => i.mr \in Regions \cup {None}
                        /\ i.op = "reg_mr" => i.mr \in Regions /\ i.length \in Nat
  BY DEF Instrs
<1> QED BY <1>1, <1>2

-----------------------------------------------------------------------------
(* Queues of coroutines.                                                   *)

(* Appending one that is not there.                                        *)
LEMMA AppendOnce ==
  ASSUME NEW W, NEW q \in Seq(W), NEW w \in W
  PROVE  /\ Append(q, w) \in Seq(W)
         /\ \A v : IsIn(Append(q, w), v) <=> IsIn(q, v) \/ v = w
         /\ Once(q) /\ ~IsIn(q, w) => Once(Append(q, w))
<1>1. /\ Append(q, w) \in Seq(W) /\ Len(Append(q, w)) = Len(q) + 1
      /\ Append(q, w)[Len(q) + 1] = w
      /\ \A n \in 1..Len(q) : Append(q, w)[n] = q[n]
      /\ Len(q) \in Nat
  OBVIOUS
<1>2. \A v : IsIn(Append(q, w), v) <=> IsIn(q, v) \/ v = w
  <2> SUFFICES ASSUME NEW v PROVE IsIn(Append(q, w), v) <=> IsIn(q, v) \/ v = w
    OBVIOUS
  <2>1. ASSUME IsIn(Append(q, w), v) PROVE IsIn(q, v) \/ v = w
    <3>1. PICK n \in 1..Len(q) + 1 : Append(q, w)[n] = v BY <1>1, <2>1 DEF IsIn
    <3> QED BY <1>1, <3>1 DEF IsIn
  <2>2. ASSUME IsIn(q, v) PROVE IsIn(Append(q, w), v)
    <3>1. PICK n \in 1..Len(q) : q[n] = v BY <2>2 DEF IsIn
    <3>2. n \in 1..Len(Append(q, w)) /\ Append(q, w)[n] = v BY <1>1, <3>1
    <3> QED BY <3>2 DEF IsIn
  <2>3. IsIn(Append(q, w), w)
    <3>1. Len(q) + 1 \in 1..Len(Append(q, w)) BY <1>1
    <3> QED BY <1>1, <3>1 DEF IsIn
  <2> QED BY <2>1, <2>2, <2>3
<1>3. Once(q) /\ ~IsIn(q, w) => Once(Append(q, w)) BY <1>1 DEF IsIn, Once
<1> QED BY <1>1, <1>2, <1>3

(* Taking the oldest one away.                                             *)
LEMMA TailOnce ==
  ASSUME NEW W, NEW q \in Seq(W), q # <<>>
  PROVE  /\ Head(q) \in W /\ IsIn(q, Head(q))
         /\ Tail(q) \in Seq(W)
         /\ \A v : IsIn(Tail(q), v) => IsIn(q, v)
         /\ \A v : IsIn(q, v) => IsIn(Tail(q), v) \/ v = Head(q)
         /\ Once(q) => Once(Tail(q)) /\ ~IsIn(Tail(q), Head(q))
<1>1. /\ Len(q) \in Nat /\ Len(q) >= 1 /\ Head(q) = q[1] /\ Head(q) \in W
      /\ Tail(q) \in Seq(W) /\ Len(Tail(q)) = Len(q) - 1
      /\ \A n \in 1..Len(q) - 1 : Tail(q)[n] = q[n + 1]
  OBVIOUS
<1>2. IsIn(q, Head(q)) BY <1>1 DEF IsIn
<1>3. ASSUME NEW v, IsIn(Tail(q), v) PROVE IsIn(q, v)
  <2>1. PICK n \in 1..Len(q) - 1 : Tail(q)[n] = v BY <1>1, <1>3 DEF IsIn
  <2>2. n + 1 \in 1..Len(q) /\ q[n + 1] = v BY <1>1, <2>1
  <2> QED BY <2>2 DEF IsIn
<1>4. ASSUME NEW v, IsIn(q, v) PROVE IsIn(Tail(q), v) \/ v = Head(q)
  <2>1. PICK n \in 1..Len(q) : q[n] = v BY <1>4 DEF IsIn
  <2>2. CASE n = 1 BY <1>1, <2>1, <2>2
  <2>3. CASE n # 1
    <3>1. n - 1 \in 1..Len(Tail(q)) /\ Tail(q)[n - 1] = q[n - 1 + 1] /\ n - 1 + 1 = n
      BY <1>1, <2>3
    <3> QED BY <2>1, <3>1 DEF IsIn
  <2> QED BY <2>2, <2>3
<1>5. ASSUME Once(q) PROVE Once(Tail(q)) /\ ~IsIn(Tail(q), Head(q))
  <2>1. \A m, n \in 1..Len(q) : q[m] = q[n] => m = n BY <1>5 DEF Once
  <2>2. \A n \in 1..Len(q) - 1 : Tail(q)[n] # q[1] BY <1>1, <2>1
  <2>3. \A m, n \in 1..Len(q) - 1 : Tail(q)[m] = Tail(q)[n] => m = n BY <1>1, <2>1
  <2> QED BY <1>1, <2>2, <2>3 DEF Once, IsIn
<1> QED BY <1>1, <1>2, <1>3, <1>4, <1>5

-----------------------------------------------------------------------------
(* The conversation.                                                       *)

(* g is f with x as the entry of coroutine w of side s.                    *)
Updates(f, g, s, w, x) ==
  /\ PerCoroutine(g)
  /\ g[s][w] = x
  /\ \A t \in Sides : \A v \in Workers(prog, t) : t # s \/ v # w => g[t][v] = f[t][v]
  /\ \A t \in Sides : t # s => g[t] = f[t]

(* An EXCEPT on one coroutine changes its entry and no other.              *)
LEMMA OneEntry ==
  ASSUME NEW f, PerCoroutine(f), NEW s \in Sides, NEW w \in Workers(prog, s), NEW x
  PROVE  Updates(f, [f EXCEPT ![s][w] = x], s, w, x)
<1> DEFINE g == [f EXCEPT ![s][w] = x]
<1>1. f = [t \in Sides |-> [v \in Workers(prog, t) |-> f[t][v]]] BY DEF PerCoroutine
<1>2. f[s] = [v \in Workers(prog, s) |-> f[s][v]] BY <1>1
<1>3. g = [t \in Sides |-> IF t = s THEN [f[s] EXCEPT ![w] = x] ELSE f[t]] BY <1>1
<1>4. [f[s] EXCEPT ![w] = x] = [v \in Workers(prog, s) |-> IF v = w THEN x ELSE f[s][v]]
  BY <1>2
<1> HIDE DEF g
<1>5. \A t \in Sides :
        g[t] = [v \in Workers(prog, t) |-> IF t = s /\ v = w THEN x ELSE f[t][v]]
  BY <1>1, <1>3, <1>4
<1>6. \A t \in Sides : \A v \in Workers(prog, t) :
        g[t][v] = IF t = s /\ v = w THEN x ELSE f[t][v]
  BY <1>5
<1>7. g = [t \in Sides |-> g[t]] BY <1>3
<1>8. \A t \in Sides : g[t] = [v \in Workers(prog, t) |-> g[t][v]] BY <1>5
<1>9. PerCoroutine(g) BY <1>7, <1>8 DEF PerCoroutine
<1>10. Updates(f, g, s, w, x) BY <1>3, <1>6, <1>9 DEF Updates
<1> QED BY <1>10 DEF g

(* g is q with r as the queue of side s.                                   *)
Replaces(q, g, s, r) ==
  IsQueue(g) /\ g[s] = r /\ \A t \in Sides : t # s => g[t] = q[t]

(* An EXCEPT on one side replaces the queue of that side only.             *)
LEMMA OneQueue ==
  ASSUME NEW q, IsQueue(q), NEW s \in Sides, NEW r, r \in Seq(Workers(prog, s))
  PROVE  Replaces(q, [q EXCEPT ![s] = r], s, r)
BY DEF IsQueue, Replaces

(* What a step has to show of its types.                                   *)
LEMMA TypeStep ==
  ASSUME SessionTypeOK, prog' = prog,
         PerCoroutine(pc'), PerCoroutine(waits'), PerCoroutine(known'),
         \A s \in Sides : \A w \in Workers(prog, s) :
           /\ pc'[s][w] \in 1..Len(Script(prog, s)) + 1
           /\ waits'[s][w] \in BOOLEAN
           /\ known'[s][w] \in Seq(Regions \cup {None}),
         regs' = [s \in Sides |-> regs'[s]],
         \A s \in Sides : \E R \in SUBSET Regions : regs'[s] \in [R -> Nat],
         IsQueue(sq'), IsQueue(unacked'), IsQueue(rq'),
         qp' \in [Sides -> BOOLEAN],
         fate' \in [Sides -> {"running", "ended", "asserted", "failed"}]
  PROVE  SessionTypeOK'
<1>1. PerCoroutine(pc)' BY DEF PerCoroutine
<1>2. PerCoroutine(waits)' BY DEF PerCoroutine
<1>3. PerCoroutine(known)' BY DEF PerCoroutine
<1>4. IsQueue(sq)' /\ IsQueue(unacked)' /\ IsQueue(rq)' BY DEF IsQueue
<1>5. (\A s \in Sides : \A w \in Workers(prog, s) :
         /\ pc[s][w] \in 1..Len(Script(prog, s)) + 1
         /\ waits[s][w] \in BOOLEAN
         /\ known[s][w] \in Seq(Regions \cup {None}))'
  OBVIOUS
<1>6. prog' \in Programs BY DEF SessionTypeOK
<1> QED BY <1>1, <1>2, <1>3, <1>4, <1>5, <1>6 DEF SessionTypeOK

(* A step that leaves the coroutines and the queues of a side alone.       *)
LEMMA SideKept ==
  ASSUME NEW s \in Sides, SideInv(s), prog' = prog, pc'[s] = pc[s], waits'[s] = waits[s],
         sq'[s] = sq[s], unacked'[s] = unacked[s], rq'[s] = rq[s],
         fate[s] = "failed" => fate'[s] = "failed",
         fate'[s] = "failed" => ~qp'[s]
  PROVE  SideInv(s)'
BY DEF SideInv, AwaitsOne, Instr, Through, Once, IsIn

(* Nothing has been posted yet.                                            *)
LEMMA SessionInitInv == SessionInit => SessionInv
<1> SUFFICES ASSUME SessionInit PROVE SessionInv OBVIOUS
<1> USE DEF SessionInit
<1>1. \A s \in Sides : Len(Script(prog, s)) \in Nat BY InstrKinds
<1>2. SessionTypeOK
  <2>1. \A s \in Sides : \A w \in Workers(prog, s) :
          /\ pc[s][w] = 1 /\ waits[s][w] = FALSE /\ known[s][w] = <<>>
    OBVIOUS
  <2>2. \A s \in Sides : regs[s] \in [{} -> Nat] OBVIOUS
  <2>3. \A s \in Sides : \E R \in SUBSET Regions : regs[s] \in [R -> Nat] BY <2>2
  <2>4. IsQueue(sq) /\ IsQueue(unacked) /\ IsQueue(rq) BY DEF IsQueue
  <2>5. \A s \in Sides : \A w \in Workers(prog, s) :
          /\ pc[s][w] \in 1..Len(Script(prog, s)) + 1
          /\ waits[s][w] \in BOOLEAN /\ known[s][w] \in Seq(Regions \cup {None})
    BY <1>1, <2>1
  <2>6. PerCoroutine(pc) /\ PerCoroutine(waits) /\ PerCoroutine(known) BY DEF PerCoroutine
  <2> QED BY <2>3, <2>4, <2>5, <2>6 DEF SessionTypeOK
<1>3. \A s \in Sides : SideInv(s)
  BY DEF SideInv, AwaitsOne, Once, IsIn
<1> QED BY <1>2, <1>3 DEF SessionInv

(* A coroutine that makes a memory region.                                 *)
LEMMA RegisterInv ==
  ASSUME SessionInv, NEW s \in Sides, NEW w \in Workers(prog, s),
         ~waits[s][w], ~Through(s, w), Register(s, w),
         UNCHANGED <<prog, known, unacked, qp, fate>>
  PROVE  SessionInv'
<1> DEFINE i == Instr(s, w)
<1>1. /\ i.op = "reg_mr" /\ UNCHANGED <<prog, waits, known, sq, unacked, rq, qp, fate>>
      /\ pc' = [pc EXCEPT ![s][w] = pc[s][w] + 1]
      /\ regs' = [regs EXCEPT ![s] =
           [r \in DOMAIN regs[s] \cup {i.mr} |-> IF r = i.mr THEN i.length ELSE regs[s][r]]]
  BY DEF Register
<1>2. /\ pc[s][w] \in 1..Len(Script(prog, s)) /\ Len(Script(prog, s)) \in Nat
      /\ i.mr \in Regions /\ i.length \in Nat
  BY <1>1, InstrKinds DEF SessionInv, SessionTypeOK, Through, Instr
<1>3. /\ PerCoroutine(pc') /\ pc'[s][w] = pc[s][w] + 1
      /\ \A t \in Sides : \A v \in Workers(prog, t) : t # s \/ v # w => pc'[t][v] = pc[t][v]
      /\ \A t \in Sides : t # s => pc'[t] = pc[t]
  <2>1. Updates(pc, pc', s, w, pc[s][w] + 1) BY <1>1, OneEntry DEF SessionInv, SessionTypeOK
  <2> QED BY <2>1 DEF Updates
<1>4. regs' = [t \in Sides |-> regs'[t]] /\ \A t \in Sides : t # s => regs'[t] = regs[t]
  BY <1>1 DEF SessionInv, SessionTypeOK
<1>5. \A t \in Sides : \E R \in SUBSET Regions : regs'[t] \in [R -> Nat]
  <2> SUFFICES ASSUME NEW t \in Sides PROVE \E R \in SUBSET Regions : regs'[t] \in [R -> Nat]
    OBVIOUS
  <2>1. PICK R \in SUBSET Regions : regs[t] \in [R -> Nat] BY DEF SessionInv, SessionTypeOK
  <2>2. CASE t # s BY <1>4, <2>1, <2>2
  <2>3. CASE t = s
    <3>1. regs'[t] = [r \in R \cup {i.mr} |-> IF r = i.mr THEN i.length ELSE regs[s][r]]
      BY <1>1, <2>1, <2>3 DEF SessionInv, SessionTypeOK
    <3>2. regs'[t] \in [R \cup {i.mr} -> Nat] BY <1>2, <2>1, <2>3, <3>1
    <3> QED BY <1>2, <3>2
  <2> QED BY <2>2, <2>3
<1>6. SessionTypeOK'
  <2>1. \A t \in Sides : \A v \in Workers(prog, t) : pc'[t][v] \in 1..Len(Script(prog, t)) + 1
    BY <1>2, <1>3 DEF SessionInv, SessionTypeOK
  <2>2. UNCHANGED <<prog, waits, known, sq, unacked, rq, qp, fate>> BY <1>1
  <2> HIDE DEF i
  <2> QED BY <1>3, <1>4, <1>5, <2>1, <2>2, TypeStep DEF SessionInv, SessionTypeOK
<1>7. SideInv(s)'
  <2>1. \A v \in Workers(prog, s) : v # w => pc'[s][v] = pc[s][v] BY <1>3
  <2>2. SideInv(s) BY DEF SessionInv
  <2>3. ASSUME NEW v \in Workers(prog, s) PROVE AwaitsOne(s, v)'
    <3>1. AwaitsOne(s, v) BY <2>2 DEF SideInv
    <3>2. CASE v = w BY <1>1, <3>1, <3>2 DEF AwaitsOne
    <3>3. CASE v # w BY <1>1, <2>1, <3>1, <3>3 DEF AwaitsOne, Instr, Through
    <3> QED BY <3>2, <3>3
  <2> QED BY <1>1, <2>2, <2>3 DEF SideInv
<1>8. \A t \in Sides : SideInv(t)'
  <2> SUFFICES ASSUME NEW t \in Sides, t # s PROVE SideInv(t)' BY <1>7
  <2> QED BY <1>1, <1>3, SideKept DEF SessionInv, SideInv
<1> QED BY <1>6, <1>8 DEF SessionInv

(* A coroutine that posts a request and suspends: it was in no queue.      *)
LEMMA PostInv ==
  ASSUME SessionInv, NEW s \in Sides, NEW w \in Workers(prog, s),
         ~waits[s][w], ~Through(s, w), Post(s, w),
         UNCHANGED <<prog, known, unacked, qp, fate>>
  PROVE  SessionInv'
<1> DEFINE i == Instr(s, w)
<1>1. /\ i.op # "reg_mr" /\ UNCHANGED <<prog, pc, known, regs, unacked, qp, fate>>
      /\ waits' = [waits EXCEPT ![s][w] = TRUE]
  BY DEF Post
<1>2. /\ PerCoroutine(waits') /\ waits'[s][w] = TRUE
      /\ \A t \in Sides : \A v \in Workers(prog, t) : t # s \/ v # w => waits'[t][v] = waits[t][v]
      /\ \A t \in Sides : t # s => waits'[t] = waits[t]
  <2>1. Updates(waits, waits', s, w, TRUE) BY <1>1, OneEntry DEF SessionInv, SessionTypeOK
  <2> QED BY <2>1 DEF Updates
<1>3. /\ AwaitsOne(s, w) /\ ~IsIn(rq[s], w) /\ ~IsIn(sq[s], w) /\ ~IsIn(unacked[s], w)
      /\ Once(sq[s]) /\ Once(unacked[s]) /\ Once(rq[s])
  BY DEF SessionInv, SideInv, AwaitsOne
<1>4. /\ rq[s] \in Seq(Workers(prog, s)) /\ sq[s] \in Seq(Workers(prog, s))
      /\ IsQueue(rq) /\ IsQueue(sq)
  BY DEF SessionInv, SessionTypeOK, IsQueue
<1>5. /\ IsQueue(sq') /\ IsQueue(rq')
      /\ \A t \in Sides : t # s => sq'[t] = sq[t] /\ rq'[t] = rq[t]
      /\ Once(sq[s])' /\ Once(rq[s])'
      /\ i.op = "recv" =>
           /\ \A v : IsIn(rq[s], v)' <=> IsIn(rq[s], v) \/ v = w
           /\ sq' = sq
      /\ i.op # "recv" =>
           /\ \A v : IsIn(sq[s], v)' <=> IsIn(sq[s], v) \/ v = w
           /\ rq' = rq
  <2>1. CASE i.op = "recv"
    <3>1. rq' = [rq EXCEPT ![s] = Append(rq[s], w)] /\ sq' = sq BY <2>1 DEF Post
    <3>2. Append(rq[s], w) \in Seq(Workers(prog, s)) BY <1>4, AppendOnce
    <3>3. /\ IsQueue(rq') /\ rq'[s] = Append(rq[s], w)
          /\ \A t \in Sides : t # s => rq'[t] = rq[t]
      <4>1. Replaces(rq, rq', s, Append(rq[s], w)) BY <1>4, <3>1, <3>2, OneQueue
      <4> QED BY <4>1 DEF Replaces
    <3>4. IsQueue(sq') BY <1>4, <3>1
    <3>5. Once(rq[s])' /\ \A v : IsIn(rq[s], v)' <=> IsIn(rq[s], v) \/ v = w
      BY <1>3, <1>4, <3>3, AppendOnce
    <3> QED BY <1>3, <2>1, <3>1, <3>2, <3>3, <3>4, <3>5
  <2>2. CASE i.op # "recv"
    <3>1. sq' = [sq EXCEPT ![s] = Append(sq[s], w)] /\ rq' = rq BY <2>2 DEF Post
    <3>2. Append(sq[s], w) \in Seq(Workers(prog, s)) BY <1>4, AppendOnce
    <3>3. /\ IsQueue(sq') /\ sq'[s] = Append(sq[s], w)
          /\ \A t \in Sides : t # s => sq'[t] = sq[t]
      <4>1. Replaces(sq, sq', s, Append(sq[s], w)) BY <1>4, <3>1, <3>2, OneQueue
      <4> QED BY <4>1 DEF Replaces
    <3>4. IsQueue(rq') BY <1>4, <3>1
    <3>5. Once(sq[s])' /\ \A v : IsIn(sq[s], v)' <=> IsIn(sq[s], v) \/ v = w
      BY <1>3, <1>4, <3>3, AppendOnce
    <3> QED BY <1>3, <2>2, <3>1, <3>2, <3>3, <3>4, <3>5
  <2> QED BY <2>1, <2>2
<1>6. SessionTypeOK'
  <2>1. \A t \in Sides : \A v \in Workers(prog, t) : waits'[t][v] \in BOOLEAN
    BY <1>2 DEF SessionInv, SessionTypeOK
  <2> QED BY <1>1, <1>2, <1>5, <2>1, TypeStep DEF SessionInv, SessionTypeOK
<1>7. SideInv(s)'
  <2>1. SideInv(s) BY DEF SessionInv
  <2>2. ASSUME NEW v \in Workers(prog, s) PROVE AwaitsOne(s, v)'
    <3>1. AwaitsOne(s, v) BY <2>1 DEF SideInv
    <3>2. UNCHANGED <<Instr(s, v), Through(s, v)>> BY <1>1 DEF Instr, Through
    <3>3. CASE v = w /\ i.op = "recv" BY <1>1, <1>2, <1>3, <1>5, <3>1, <3>2, <3>3 DEF AwaitsOne
    <3>4. CASE v = w /\ i.op # "recv" BY <1>1, <1>2, <1>3, <1>5, <3>1, <3>2, <3>4 DEF AwaitsOne
    <3>5. CASE v # w BY <1>1, <1>2, <1>5, <3>1, <3>2, <3>5 DEF AwaitsOne
    <3> QED BY <3>3, <3>4, <3>5
  <2> QED BY <1>1, <1>3, <1>5, <2>1, <2>2 DEF SideInv
<1>8. \A t \in Sides : SideInv(t)'
  <2> SUFFICES ASSUME NEW t \in Sides, t # s PROVE SideInv(t)' BY <1>7
  <2> QED BY <1>1, <1>2, <1>5, SideKept DEF SessionInv, SideInv
<1> QED BY <1>6, <1>8 DEF SessionInv

(* The end of a side, of its QP, and an error: no coroutine moves.         *)
LEMMA EndInv ==
  ASSUME SessionInv, NEW s \in Sides, End(s) \/ DropQp(s) \/ Fail(s)
  PROVE  SessionInv'
<1>1. /\ UNCHANGED <<prog, pc, waits, known, sq, unacked, rq>>
      /\ \A t \in Sides : regs'[t] = regs[t] \/ regs'[t] = <<>>
      /\ regs' = [t \in Sides |-> regs'[t]]
      /\ qp' \in [Sides -> BOOLEAN] /\ \A t \in Sides : qp'[t] => qp[t]
      /\ fate' \in [Sides -> {"running", "ended", "asserted", "failed"}]
      /\ \A t \in Sides : fate[t] = "failed" => fate'[t] = "failed"
      /\ \A t \in Sides : fate'[t] = "failed" => ~qp'[t]
  <2> USE DEF SessionInv, SessionTypeOK, SideInv
  <2>1. CASE End(s) BY <2>1 DEF End, Running
  <2>2. CASE DropQp(s) BY <2>2 DEF DropQp
  <2>3. CASE Fail(s) BY <2>3 DEF Fail, Running
  <2> QED BY <2>1, <2>2, <2>3
<1>2. \A t \in Sides : \E R \in SUBSET Regions : regs'[t] \in [R -> Nat]
  <2>1. <<>> \in [{} -> Nat] OBVIOUS
  <2>2. \A t \in Sides : \E R \in SUBSET Regions : regs[t] \in [R -> Nat]
    BY DEF SessionInv, SessionTypeOK
  <2>3. {} \in SUBSET Regions OBVIOUS
  <2> QED BY <1>1, <2>1, <2>2, <2>3, Zenon
<1>3. SessionTypeOK' BY <1>1, <1>2, TypeStep DEF SessionInv, SessionTypeOK
<1>4. \A t \in Sides : SideInv(t)' BY <1>1, SideKept DEF SessionInv
<1> QED BY <1>3, <1>4 DEF SessionInv

(* An operation of coroutine v of side t completes: v leaves its queue,    *)
(* and the others stay where they are.                                     *)
LEMMA CompletedKept ==
  ASSUME SessionInv, NEW t \in Sides, NEW v \in Workers(prog, t), prog' = prog,
         waits'[t][v] = FALSE,
         \A u \in Workers(prog, t) : u # v => waits'[t][u] = waits[t][u] /\ pc'[t][u] = pc[t][u],
         ~IsIn(sq[t], v)', ~IsIn(unacked[t], v)', ~IsIn(rq[t], v)',
         \A u \in Workers(prog, t) : u # v =>
           /\ IsIn(sq[t], u)' <=> IsIn(sq[t], u)
           /\ IsIn(unacked[t], u)' <=> IsIn(unacked[t], u)
           /\ IsIn(rq[t], u)' <=> IsIn(rq[t], u),
         Once(sq[t])', Once(unacked[t])', Once(rq[t])',
         fate[t] = "failed" => fate'[t] = "failed", fate'[t] = "failed" => ~qp'[t]
  PROVE  SideInv(t)'
<1>1. SideInv(t) BY DEF SessionInv
<1>2. ASSUME NEW u \in Workers(prog, t) PROVE AwaitsOne(t, u)'
  <2>1. AwaitsOne(t, u) BY <1>1 DEF SideInv
  <2>2. CASE u = v BY <2>2 DEF AwaitsOne
  <2>3. CASE u # v
    <3>1. UNCHANGED <<Instr(t, u), Through(t, u)>> BY <2>3 DEF Instr, Through
    <3> QED BY <2>1, <2>3, <3>1 DEF AwaitsOne
  <2> QED BY <2>2, <2>3
<1> QED BY <1>2 DEF SideInv

(* The position after a completion is one of the script, or its end.       *)
LEMMA AdvanceFacts ==
  ASSUME SessionInv, NEW t \in Sides, NEW v \in Workers(prog, t), waits[t][v]
  PROVE  /\ pc[t][v] \in 1..Len(Script(prog, t))
         /\ Advance(t, v) \in 1..Len(Script(prog, t)) + 1
<1>1. Len(Script(prog, t)) \in Nat BY InstrKinds DEF SessionInv, SessionTypeOK
<1>2. pc[t][v] \in 1..Len(Script(prog, t)) + 1 /\ ~Through(t, v)
  BY DEF SessionInv, SessionTypeOK, SideInv, AwaitsOne
<1> QED BY <1>1, <1>2 DEF Through, Advance

(* An acknowledgement completes the oldest request executed.               *)
LEMMA AcknowledgeInv ==
  ASSUME SessionInv, NEW s \in Sides, Acknowledge(s)
  PROVE  SessionInv'
<1> DEFINE w == Head(unacked[s])
<1>1. /\ unacked[s] # <<>> /\ unacked' = [unacked EXCEPT ![s] = Tail(unacked[s])]
      /\ waits' = [waits EXCEPT ![s][w] = FALSE]
      /\ pc' = [pc EXCEPT ![s][w] = Advance(s, w)]
      /\ UNCHANGED <<prog, known, regs, sq, rq, qp, fate>>
  BY DEF Acknowledge
<1>2. /\ unacked[s] \in Seq(Workers(prog, s)) /\ IsQueue(unacked)
      /\ Once(unacked[s]) /\ Once(sq[s]) /\ Once(rq[s])
  BY DEF SessionInv, SessionTypeOK, IsQueue, SideInv
<1>3. /\ w \in Workers(prog, s) /\ IsIn(unacked[s], w)
      /\ Tail(unacked[s]) \in Seq(Workers(prog, s)) /\ Once(Tail(unacked[s]))
      /\ ~IsIn(Tail(unacked[s]), w)
      /\ \A u : u # w => (IsIn(Tail(unacked[s]), u) <=> IsIn(unacked[s], u))
  BY <1>1, <1>2, TailOnce
<1> HIDE DEF w
<1>4. waits[s][w] /\ ~IsIn(sq[s], w) /\ ~IsIn(rq[s], w)
  BY <1>3 DEF SessionInv, SideInv, AwaitsOne
<1>5. Updates(waits, waits', s, w, FALSE) BY <1>1, <1>3, OneEntry DEF SessionInv, SessionTypeOK
<1>6. Updates(pc, pc', s, w, Advance(s, w)) BY <1>1, <1>3, OneEntry DEF SessionInv, SessionTypeOK
<1>7. Replaces(unacked, unacked', s, Tail(unacked[s])) BY <1>1, <1>2, <1>3, OneQueue
<1>8. SessionTypeOK'
  <2>1. Advance(s, w) \in 1..Len(Script(prog, s)) + 1 BY <1>3, <1>4, AdvanceFacts
  <2>2. \A t \in Sides : \A v \in Workers(prog, t) :
          pc'[t][v] \in 1..Len(Script(prog, t)) + 1 /\ waits'[t][v] \in BOOLEAN
    BY <1>5, <1>6, <2>1 DEF Updates, SessionInv, SessionTypeOK
  <2>3. IsQueue(unacked') /\ PerCoroutine(pc') /\ PerCoroutine(waits')
    BY <1>5, <1>6, <1>7 DEF Updates, Replaces
  <2> QED BY <1>1, <2>2, <2>3, TypeStep DEF SessionInv, SessionTypeOK
<1>9. SideInv(s)'
  <2>1. \A u \in Workers(prog, s) : u # w => waits'[s][u] = waits[s][u] /\ pc'[s][u] = pc[s][u]
    BY <1>5, <1>6 DEF Updates
  <2>2. unacked'[s] = Tail(unacked[s]) /\ sq'[s] = sq[s] /\ rq'[s] = rq[s]
    BY <1>1, <1>7 DEF Replaces
  <2>3. waits'[s][w] = FALSE BY <1>5 DEF Updates
  <2>4. fate'[s] = "failed" => ~qp'[s] BY <1>1 DEF SessionInv, SideInv
  <2> QED BY <1>1, <1>2, <1>3, <1>4, <2>1, <2>2, <2>3, <2>4, CompletedKept
<1>10. \A t \in Sides : SideInv(t)'
  <2> SUFFICES ASSUME NEW t \in Sides, t # s PROVE SideInv(t)' BY <1>9
  <2>1. pc'[t] = pc[t] /\ waits'[t] = waits[t] /\ unacked'[t] = unacked[t]
    BY <1>5, <1>6, <1>7 DEF Updates, Replaces
  <2> QED BY <1>1, <2>1, SideKept DEF SessionInv, SideInv
<1> QED BY <1>8, <1>10 DEF SessionInv

(* There are two sides, each the peer of the other.                        *)
LEMMA PeerFacts ==
  \A s \in Sides :
    Peer(s) \in Sides /\ Peer(s) # s /\ \A t \in Sides : t = s \/ t = Peer(s)
BY DEF Sides, Peer

(* The request at the head of a send queue is that of a waiting coroutine. *)
LEMMA HeadOfSq ==
  ASSUME SessionInv, NEW s \in Sides, sq[s] # <<>>
  PROVE  LET w == Head(sq[s]) IN
         /\ w \in Workers(prog, s) /\ waits[s][w]
         /\ ~IsIn(unacked[s], w) /\ ~IsIn(rq[s], w)
         /\ Tail(sq[s]) \in Seq(Workers(prog, s)) /\ Once(Tail(sq[s]))
         /\ ~IsIn(Tail(sq[s]), w)
         /\ \A u : u # w => (IsIn(Tail(sq[s]), u) <=> IsIn(sq[s], u))
<1>1. sq[s] \in Seq(Workers(prog, s)) /\ Once(sq[s])
  BY DEF SessionInv, SessionTypeOK, IsQueue, SideInv
<1> DEFINE w == Head(sq[s])
<1>2. /\ w \in Workers(prog, s) /\ IsIn(sq[s], w)
      /\ Tail(sq[s]) \in Seq(Workers(prog, s)) /\ Once(Tail(sq[s]))
      /\ ~IsIn(Tail(sq[s]), w)
      /\ \A u : u # w => (IsIn(Tail(sq[s]), u) <=> IsIn(sq[s], u))
  BY <1>1, TailOnce
<1> HIDE DEF w
<1>3. waits[s][w] /\ ~IsIn(unacked[s], w) /\ ~IsIn(rq[s], w)
  BY <1>2 DEF SessionInv, SideInv, AwaitsOne
<1> QED BY <1>2, <1>3 DEF w

(* A request that is refused takes both QPs to the error state.            *)
LEMMA RefusedInv ==
  ASSUME SessionInv, NEW s \in Sides, sq[s] # <<>>,
         sq' = [sq EXCEPT ![s] = Tail(sq[s])],
         fate' = [fate EXCEPT ![s] = "failed"], qp' = [t \in Sides |-> FALSE],
         UNCHANGED <<prog, pc, waits, known, regs, rq, unacked>>
  PROVE  SessionInv'
<1>1. /\ Tail(sq[s]) \in Seq(Workers(prog, s)) /\ Once(Tail(sq[s]))
      /\ \A u : IsIn(Tail(sq[s]), u) => IsIn(sq[s], u)
  <2>1. sq[s] \in Seq(Workers(prog, s)) /\ Once(sq[s])
    BY DEF SessionInv, SessionTypeOK, IsQueue, SideInv
  <2> QED BY <2>1, TailOnce
<1>2. Replaces(sq, sq', s, Tail(sq[s])) BY <1>1, OneQueue DEF SessionInv, SessionTypeOK
<1>3. /\ sq'[s] = Tail(sq[s]) /\ IsQueue(sq') /\ \A t \in Sides : t # s => sq'[t] = sq[t]
  BY <1>2 DEF Replaces
<1>4. /\ fate' \in [Sides -> {"running", "ended", "asserted", "failed"}]
      /\ fate'[s] = "failed" /\ \A t \in Sides : t # s => fate'[t] = fate[t]
      /\ qp' \in [Sides -> BOOLEAN] /\ \A t \in Sides : ~qp'[t]
  BY DEF SessionInv, SessionTypeOK
<1>5. SessionTypeOK' BY <1>3, <1>4, TypeStep DEF SessionInv, SessionTypeOK
<1>6. SideInv(s)'
  <2>1. ASSUME NEW v \in Workers(prog, s) PROVE AwaitsOne(s, v)'
    <3>1. AwaitsOne(s, v) BY DEF SessionInv, SideInv
    <3>2. UNCHANGED <<Instr(s, v), Through(s, v)>> BY DEF Instr, Through
    <3>3. IsIn(sq[s], v)' => IsIn(sq[s], v) BY <1>1, <1>3
    <3> QED BY <1>4, <3>1, <3>2, <3>3 DEF AwaitsOne
  <2> QED BY <1>1, <1>3, <1>4, <2>1 DEF SideInv, SessionInv
<1>7. \A t \in Sides : SideInv(t)'
  <2> SUFFICES ASSUME NEW t \in Sides, t # s PROVE SideInv(t)' BY <1>6
  <2> QED BY <1>3, <1>4, SideKept DEF SessionInv
<1> QED BY <1>5, <1>7 DEF SessionInv

(* A request that is executed goes from one queue of its side to another.  *)
LEMMA ExecutedKept ==
  ASSUME SessionInv, NEW s \in Sides, sq[s] # <<>>, prog' = prog,
         sq' = [sq EXCEPT ![s] = Tail(sq[s])],
         unacked' = [unacked EXCEPT ![s] = Append(unacked[s], Head(sq[s]))],
         pc'[s] = pc[s], waits'[s] = waits[s], rq'[s] = rq[s], fate'[s] = fate[s], qp' = qp
  PROVE  /\ SideInv(s)' /\ IsQueue(sq') /\ IsQueue(unacked')
         /\ \A t \in Sides : t # s => sq'[t] = sq[t] /\ unacked'[t] = unacked[t]
<1> DEFINE w == Head(sq[s])
<1>1. /\ w \in Workers(prog, s) /\ waits[s][w]
      /\ ~IsIn(unacked[s], w) /\ ~IsIn(rq[s], w)
      /\ Tail(sq[s]) \in Seq(Workers(prog, s)) /\ Once(Tail(sq[s]))
      /\ ~IsIn(Tail(sq[s]), w)
      /\ \A u : u # w => (IsIn(Tail(sq[s]), u) <=> IsIn(sq[s], u))
  BY HeadOfSq
<1>2. IsIn(sq[s], w)
  <2>1. sq[s] \in Seq(Workers(prog, s)) BY DEF SessionInv, SessionTypeOK, IsQueue
  <2> QED BY <2>1, TailOnce
<1>3. unacked' = [unacked EXCEPT ![s] = Append(unacked[s], w)] OBVIOUS
<1> HIDE DEF w
<1>4. /\ unacked[s] \in Seq(Workers(prog, s)) /\ IsQueue(unacked)
      /\ Once(unacked[s]) /\ Once(rq[s])
  BY DEF SessionInv, SessionTypeOK, IsQueue, SideInv
<1>5. /\ Append(unacked[s], w) \in Seq(Workers(prog, s)) /\ Once(Append(unacked[s], w))
      /\ \A u : IsIn(Append(unacked[s], w), u) <=> IsIn(unacked[s], u) \/ u = w
  BY <1>1, <1>4, AppendOnce
<1>6. Replaces(sq, sq', s, Tail(sq[s])) BY <1>1, OneQueue DEF SessionInv, SessionTypeOK
<1>7. Replaces(unacked, unacked', s, Append(unacked[s], w))
  <2>1. Replaces(unacked, [unacked EXCEPT ![s] = Append(unacked[s], w)], s, Append(unacked[s], w))
    BY <1>4, <1>5, OneQueue, Zenon
  <2> QED BY <1>3, <2>1, Zenon
<1>8. sq'[s] = Tail(sq[s]) /\ unacked'[s] = Append(unacked[s], w) BY <1>6, <1>7 DEF Replaces
<1>9. ASSUME NEW v \in Workers(prog, s) PROVE AwaitsOne(s, v)'
  <2>1. AwaitsOne(s, v) BY DEF SessionInv, SideInv
  <2>2. UNCHANGED <<Instr(s, v), Through(s, v)>> BY DEF Instr, Through
  <2>3. CASE v = w BY <1>1, <1>2, <1>5, <1>8, <2>1, <2>2, <2>3 DEF AwaitsOne
  <2>4. CASE v # w BY <1>1, <1>5, <1>8, <2>1, <2>2, <2>4 DEF AwaitsOne
  <2> QED BY <2>3, <2>4
<1>10. SideInv(s)' BY <1>1, <1>4, <1>5, <1>8, <1>9 DEF SideInv, SessionInv
<1> QED BY <1>6, <1>7, <1>10 DEF Replaces

(* The other side executes the oldest request, and may complete a receive. *)
LEMMA ExecuteInv ==
  ASSUME SessionInv, NEW s \in Sides, Execute(s)
  PROVE  SessionInv'
<1> DEFINE P == Peer(s)
           w == Head(sq[s])
           i == Instr(s, w)
           v == Head(rq[P])
           j == Instr(P, v)
           fits == i.op = "send" => i.length <= j.length
           refused == ~Granted(s, w) \/ (Consuming(s) /\ ~fits)
<1>1. /\ sq[s] # <<>> /\ qp[P] /\ (Consuming(s) => rq[P] # <<>>)
      /\ sq' = [sq EXCEPT ![s] = Tail(sq[s])] /\ UNCHANGED <<prog, regs>>
  BY DEF Execute
<1>2. P \in Sides /\ P # s /\ \A t \in Sides : t = s \/ t = P BY PeerFacts
<1>3. CASE refused
  <2>1. /\ fate' = [fate EXCEPT ![s] = "failed"] /\ qp' = [t \in Sides |-> FALSE]
        /\ UNCHANGED <<pc, waits, known, rq, unacked>>
    BY <1>3 DEF Execute
  <2> QED BY <1>1, <2>1, RefusedInv
<1>4. CASE ~refused /\ ~Consuming(s)
  <2>1. /\ unacked' = [unacked EXCEPT ![s] = Append(unacked[s], w)]
        /\ UNCHANGED <<pc, waits, known, rq, fate, qp>>
    BY <1>4 DEF Execute
  <2>2. /\ SideInv(s)' /\ IsQueue(sq') /\ IsQueue(unacked')
        /\ sq'[P] = sq[P] /\ unacked'[P] = unacked[P]
    BY <1>1, <1>2, <2>1, ExecutedKept
  <2>3. SideInv(P)' BY <1>1, <1>2, <2>1, <2>2, SideKept DEF SessionInv, SideInv
  <2>4. SessionTypeOK' BY <1>1, <2>1, <2>2, TypeStep DEF SessionInv, SessionTypeOK
  <2> QED BY <1>2, <2>2, <2>3, <2>4 DEF SessionInv
<1>5. CASE ~refused /\ Consuming(s)
  <2>1. /\ unacked' = [unacked EXCEPT ![s] = Append(unacked[s], w)]
        /\ rq' = [rq EXCEPT ![P] = Tail(rq[P])]
        /\ waits' = [waits EXCEPT ![P][v] = FALSE]
        /\ pc' = [pc EXCEPT ![P][v] = Advance(P, v)]
        /\ \/ known' = known
           \/ i.op = "send" /\ known' = [known EXCEPT ![P][v] = Append(known[P][v], i.mr)]
        /\ fate' = fate \/ fate' = [fate EXCEPT ![P] = "asserted"]
        /\ qp' = qp
    BY <1>5 DEF Execute
  <2>2. /\ rq[P] \in Seq(Workers(prog, P)) /\ IsQueue(rq)
        /\ Once(rq[P]) /\ Once(sq[P]) /\ Once(unacked[P])
    BY <1>2 DEF SessionInv, SessionTypeOK, IsQueue, SideInv
  <2>3. /\ v \in Workers(prog, P) /\ IsIn(rq[P], v)
        /\ Tail(rq[P]) \in Seq(Workers(prog, P)) /\ Once(Tail(rq[P]))
        /\ ~IsIn(Tail(rq[P]), v)
        /\ \A u : u # v => (IsIn(Tail(rq[P]), u) <=> IsIn(rq[P], u))
    BY <1>1, <1>5, <2>2, TailOnce
  <2>4. w \in Workers(prog, s) /\ waits[s][w] BY <1>1, HeadOfSq
  <2>5. i.op = "send" => i.mr \in Regions \cup {None}
    <3>1. pc[s][w] \in 1..Len(Script(prog, s)) BY <2>4, AdvanceFacts
    <3> QED BY <3>1, InstrKinds DEF Instr, SessionInv, SessionTypeOK
  <2> HIDE DEF w, v, i, P
  <2>6. waits[P][v] /\ ~IsIn(sq[P], v) /\ ~IsIn(unacked[P], v)
    BY <1>2, <2>3 DEF SessionInv, SideInv, AwaitsOne
  <2>7. Updates(waits, waits', P, v, FALSE)
    BY <1>2, <2>1, <2>3, OneEntry DEF SessionInv, SessionTypeOK
  <2>8. Updates(pc, pc', P, v, Advance(P, v))
    BY <1>2, <2>1, <2>3, OneEntry DEF SessionInv, SessionTypeOK
  <2>9. Replaces(rq, rq', P, Tail(rq[P])) BY <1>2, <2>1, <2>2, <2>3, OneQueue
  <2>10. /\ pc'[s] = pc[s] /\ waits'[s] = waits[s] /\ rq'[s] = rq[s]
         /\ rq'[P] = Tail(rq[P]) /\ waits'[P][v] = FALSE
    BY <1>2, <2>7, <2>8, <2>9 DEF Updates, Replaces
  <2>11. /\ fate' \in [Sides -> {"running", "ended", "asserted", "failed"}]
         /\ fate'[s] = fate[s] /\ fate'[P] \in {fate[P], "asserted"} /\ fate[P] # "failed"
    BY <1>1, <1>2, <2>1 DEF SessionInv, SessionTypeOK, SideInv, P
  <2>12. /\ SideInv(s)' /\ IsQueue(sq') /\ IsQueue(unacked')
         /\ sq'[P] = sq[P] /\ unacked'[P] = unacked[P]
    BY <1>1, <1>2, <2>1, <2>10, <2>11, ExecutedKept DEF w
  <2>13. SideInv(P)'
    <3>1. \A u \in Workers(prog, P) : u # v => waits'[P][u] = waits[P][u] /\ pc'[P][u] = pc[P][u]
      BY <1>2, <2>7, <2>8 DEF Updates
    <3> QED BY <1>1, <1>2, <2>2, <2>3, <2>6, <2>10, <2>11, <2>12, <3>1, CompletedKept
  <2>14. SessionTypeOK'
    <3>1. Advance(P, v) \in 1..Len(Script(prog, P)) + 1 BY <1>2, <2>3, <2>6, AdvanceFacts
    <3>2. \A t \in Sides : \A u \in Workers(prog, t) :
            pc'[t][u] \in 1..Len(Script(prog, t)) + 1 /\ waits'[t][u] \in BOOLEAN
      BY <2>7, <2>8, <3>1 DEF Updates, SessionInv, SessionTypeOK
    <3>3. /\ PerCoroutine(known')
          /\ \A t \in Sides : \A u \in Workers(prog, t) :
               known'[t][u] \in Seq(Regions \cup {None})
      <4>1. CASE known' = known BY <4>1 DEF SessionInv, SessionTypeOK
      <4>2. CASE i.op = "send" /\ known' = [known EXCEPT ![P][v] = Append(known[P][v], i.mr)]
        <5>1. known[P][v] \in Seq(Regions \cup {None}) BY <1>2, <2>3 DEF SessionInv, SessionTypeOK
        <5>2. Append(known[P][v], i.mr) \in Seq(Regions \cup {None}) BY <2>5, <4>2, <5>1
        <5>3. Updates(known, known', P, v, Append(known[P][v], i.mr))
          BY <1>2, <2>3, <4>2, OneEntry DEF SessionInv, SessionTypeOK
        <5> QED BY <5>2, <5>3 DEF Updates, SessionInv, SessionTypeOK
      <4> QED BY <2>1, <4>1, <4>2
    <3>4. PerCoroutine(pc') /\ PerCoroutine(waits') /\ IsQueue(rq')
      BY <2>7, <2>8, <2>9 DEF Updates, Replaces
    <3> QED BY <1>1, <2>1, <2>11, <2>12, <3>2, <3>3, <3>4, TypeStep DEF SessionInv, SessionTypeOK
  <2> QED BY <1>2, <2>12, <2>13, <2>14 DEF SessionInv
<1> QED BY <1>3, <1>4, <1>5

-----------------------------------------------------------------------------
(* The scripts, instruction by instruction.                                *)

(* Times repeats one instruction Count times.                              *)
LEMMA TimesFacts ==
  ASSUME NEW i \in Instrs
  PROVE  /\ Times(i) \in Seq(Instrs) /\ Len(Times(i)) = Count
         /\ \A n \in 1..Count : Times(i)[n] = i
BY SessionAssumption DEF Times

(* Where the instructions of a concatenation come from.                    *)
LEMMA ConcatFacts ==
  ASSUME NEW a \in Seq(Instrs), NEW b \in Seq(Instrs)
  PROVE  /\ a \o b \in Seq(Instrs) /\ Len(a \o b) = Len(a) + Len(b)
         /\ Len(a) \in Nat /\ Len(b) \in Nat
         /\ \A n \in 1..Len(a) : (a \o b)[n] = a[n]
         /\ \A n \in Len(a) + 1..Len(a) + Len(b) : (a \o b)[n] = b[n - Len(a)]
OBVIOUS

(* d is the concatenation of a, b and c, of lengths k, l and m.            *)
Pieces(d, a, b, c, k, l, m) ==
  /\ k \in Nat /\ l \in Nat /\ m \in Nat
  /\ Len(d) = k + l + m
  /\ \A n \in 1..k : d[n] = a[n]
  /\ \A n \in k + 1..k + l : d[n] = b[n - k]
  /\ \A n \in k + l + 1..k + l + m : d[n] = c[n - (k + l)]

(* The same for an opening, a loop and what follows it.                    *)
LEMMA LoopFacts ==
  ASSUME NEW a \in Seq(Instrs), NEW b \in Seq(Instrs), NEW c \in Seq(Instrs)
  PROVE  Pieces((a \o b) \o c, a, b, c, Len(a), Len(b), Len(c))
<1> DEFINE e == a \o b
           d == e \o c
           k == Len(a)
           l == Len(b)
           m == Len(c)
<1>1. /\ e \in Seq(Instrs) /\ Len(e) = k + l /\ k \in Nat /\ l \in Nat /\ m \in Nat
      /\ \A n \in 1..k : e[n] = a[n]
      /\ \A n \in k + 1..k + l : e[n] = b[n - k]
  BY ConcatFacts
<1> HIDE DEF e
<1>2. /\ Len(d) = Len(e) + Len(c)
      /\ \A n \in 1..Len(e) : d[n] = e[n]
      /\ \A n \in Len(e) + 1..Len(e) + Len(c) : d[n] = c[n - Len(e)]
  BY <1>1, ConcatFacts
<1> HIDE DEF d, k, l
<1>3. /\ Len(d) = k + l + m
      /\ \A n \in 1..k + l : d[n] = e[n]
      /\ \A n \in k + l + 1..k + l + m : d[n] = c[n - (k + l)]
  BY <1>1, <1>2
<1> HIDE DEF m
<1>4. ASSUME NEW n \in 1..k PROVE d[n] = a[n]
  <2>1. n \in 1..k + l BY <1>1
  <2> QED BY <1>1, <1>3, <2>1, Zenon
<1>5. ASSUME NEW n \in k + 1..k + l PROVE d[n] = b[n - k]
  <2>1. n \in 1..k + l BY <1>1
  <2> QED BY <1>1, <1>3, <2>1, Zenon
<1>6. Pieces(d, a, b, c, k, l, m) BY <1>1, <1>3, <1>4, <1>5, Zenon DEF Pieces
<1> QED BY <1>6 DEF d, e, k, l, m

(* The scripts of the programs with loops, position by position.           *)
LEMMA LatencyScripts ==
  /\ Len(LatencyServer) = 2 * Count + 2 /\ Len(LatencyClient) = 2 * Count + 1
  /\ LatencyServer[1] = RegMr("buffer", MessageSize) /\ LatencyServer[2] = SendMr("buffer")
  /\ \A n \in 3..Count + 2 : LatencyServer[n] = Recv(0)
  /\ \A n \in Count + 3..2 * Count + 2 : LatencyServer[n] = Recv(MessageSize)
  /\ LatencyClient[1] = RecvMrExactly
  /\ \A n \in 2..Count + 1 : LatencyClient[n] = WriteImm(1, MessageSize, n - 2)
  /\ \A n \in Count + 2..2 * Count + 1 : LatencyClient[n] = Send(MessageSize)
<1> "buffer" \in Regions BY DEF Regions
<1>1. Count \in Nat BY SessionAssumption
<1>3. /\ Len(LatencyServer) = 2 * Count + 2
      /\ LatencyServer[1] = RegMr("buffer", MessageSize) /\ LatencyServer[2] = SendMr("buffer")
      /\ \A n \in 3..Count + 2 : LatencyServer[n] = Recv(0)
      /\ \A n \in Count + 3..2 * Count + 2 : LatencyServer[n] = Recv(MessageSize)
  <2> DEFINE a == << RegMr("buffer", MessageSize), SendMr("buffer") >>
             b == Times(Recv(0))
             c == Times(Recv(MessageSize))
  <2>1. /\ RegMr("buffer", MessageSize) \in Instrs /\ SendMr("buffer") \in Instrs
        /\ Recv(0) \in Instrs /\ Recv(MessageSize) \in Instrs
    BY InstrFacts, SizeFacts, SMT
  <2>2. /\ a \in Seq(Instrs) /\ Len(a) = 2
        /\ a[1] = RegMr("buffer", MessageSize) /\ a[2] = SendMr("buffer")
    BY <2>1, SMT
  <2>3. /\ b \in Seq(Instrs) /\ Len(b) = Count /\ \A n \in 1..Count : b[n] = Recv(0)
        /\ c \in Seq(Instrs) /\ Len(c) = Count /\ \A n \in 1..Count : c[n] = Recv(MessageSize)
    BY <2>1, TimesFacts, SMT
  <2>4. LatencyServer = (a \o b) \o c BY SMT DEF LatencyServer
  <2> HIDE DEF a, b, c
  <2>5. /\ Len(LatencyServer) = 2 + Count + Count
        /\ \A n \in 1..2 : LatencyServer[n] = a[n]
        /\ \A n \in 2 + 1..2 + Count : LatencyServer[n] = b[n - 2]
        /\ \A n \in 2 + Count + 1..2 + Count + Count : LatencyServer[n] = c[n - (2 + Count)]
    <3>1. Pieces(LatencyServer, a, b, c, Len(a), Len(b), Len(c))
      BY <2>2, <2>3, <2>4, LoopFacts, Zenon
    <3> QED BY <2>2, <2>3, <3>1, Zenon DEF Pieces
  <2>6. \A n \in 3..Count + 2 : LatencyServer[n] = Recv(0) BY <1>1, <2>3, <2>5, SMT
  <2>7. \A n \in Count + 3..2 * Count + 2 : LatencyServer[n] = Recv(MessageSize)
    BY <1>1, <2>3, <2>5, SMT
  <2>8. /\ Len(LatencyServer) = 2 * Count + 2
        /\ LatencyServer[1] = RegMr("buffer", MessageSize) /\ LatencyServer[2] = SendMr("buffer")
    BY <1>1, <2>2, <2>5, SMT
  <2> QED BY <2>6, <2>7, <2>8, SMT
<1>4. /\ Len(LatencyClient) = 2 * Count + 1
      /\ LatencyClient[1] = RecvMrExactly
      /\ \A n \in 2..Count + 1 : LatencyClient[n] = WriteImm(1, MessageSize, n - 2)
      /\ \A n \in Count + 2..2 * Count + 1 : LatencyClient[n] = Send(MessageSize)
  <2> DEFINE a == << RecvMrExactly >>
             b == [i \in 1..Count |-> WriteImm(1, MessageSize, i - 1)]
             c == Times(Send(MessageSize))
  <2>1. RecvMrExactly \in Instrs /\ Send(MessageSize) \in Instrs
    BY InstrFacts, SizeFacts, SMT
  <2>2. a \in Seq(Instrs) /\ Len(a) = 1 /\ a[1] = RecvMrExactly BY <2>1, SMT
  <2>3. /\ b \in Seq(Instrs) /\ Len(b) = Count
        /\ \A n \in 1..Count : b[n] = WriteImm(1, MessageSize, n - 1)
    BY <1>1, InstrFacts, SizeFacts, SMT
  <2>4. c \in Seq(Instrs) /\ Len(c) = Count /\ \A n \in 1..Count : c[n] = Send(MessageSize)
    BY <2>1, TimesFacts, SMT
  <2>5. LatencyClient = (a \o b) \o c BY SMT DEF LatencyClient
  <2> HIDE DEF a, b, c
  <2>6. /\ Len(LatencyClient) = 1 + Count + Count
        /\ \A n \in 1..1 : LatencyClient[n] = a[n]
        /\ \A n \in 1 + 1..1 + Count : LatencyClient[n] = b[n - 1]
        /\ \A n \in 1 + Count + 1..1 + Count + Count : LatencyClient[n] = c[n - (1 + Count)]
    <3>1. Pieces(LatencyClient, a, b, c, Len(a), Len(b), Len(c))
      BY <2>2, <2>3, <2>4, <2>5, LoopFacts, Zenon
    <3> QED BY <2>2, <2>3, <2>4, <3>1, Zenon DEF Pieces
  <2>7. ASSUME NEW n \in 2..Count + 1 PROVE LatencyClient[n] = WriteImm(1, MessageSize, n - 2)
    <3>1. n - 1 \in 1..Count /\ n \in 1 + 1..1 + Count /\ n - 1 - 1 = n - 2 BY <1>1
    <3> QED BY <2>3, <2>6, <3>1, SMT
  <2>8. \A n \in Count + 2..2 * Count + 1 : LatencyClient[n] = Send(MessageSize)
    BY <1>1, <2>4, <2>6, SMT
  <2>9. Len(LatencyClient) = 2 * Count + 1 /\ LatencyClient[1] = RecvMrExactly
    BY <1>1, <2>2, <2>6, SMT
  <2> QED BY <2>7, <2>8, <2>9, SMT
<1> QED BY <1>3, <1>4

(* The handler and the caller of rpc.cc, position by position.             *)
LEMMA RpcScripts ==
  /\ Len(RpcHandler) = Count + 2 /\ Len(RpcCaller) = Count + 1
  /\ RpcHandler[1] = RegMr("buffer", 42) /\ RpcHandler[2] = SendMr("buffer")
  /\ \A n \in 3..Count + 2 : RpcHandler[n] = RecvImm(0, RpcFns)
  /\ RpcCaller[1] = RecvMr
  /\ \A n \in 2..Count + 1 : RpcCaller[n] = WriteImm(1, 42, n - 2)
<1> "buffer" \in Regions BY DEF Regions
<1>1. Count \in Nat BY SessionAssumption
<1>2. /\ Len(RpcHandler) = Count + 2
      /\ RpcHandler[1] = RegMr("buffer", 42) /\ RpcHandler[2] = SendMr("buffer")
      /\ \A n \in 3..Count + 2 : RpcHandler[n] = RecvImm(0, RpcFns)
  <2> DEFINE a == << RegMr("buffer", 42), SendMr("buffer") >>
             b == Times(RecvImm(0, RpcFns))
  <2>1. /\ RegMr("buffer", 42) \in Instrs /\ SendMr("buffer") \in Instrs
        /\ RecvImm(0, RpcFns) \in Instrs
    BY InstrFacts, SMT
  <2>2. /\ a \in Seq(Instrs) /\ Len(a) = 2
        /\ a[1] = RegMr("buffer", 42) /\ a[2] = SendMr("buffer")
    BY <2>1, SMT
  <2>3. b \in Seq(Instrs) /\ Len(b) = Count /\ \A n \in 1..Count : b[n] = RecvImm(0, RpcFns)
    BY <2>1, TimesFacts, SMT
  <2>4. RpcHandler = a \o b BY SMT DEF RpcHandler
  <2> HIDE DEF a, b
  <2>5. /\ Len(RpcHandler) = 2 + Count
        /\ \A n \in 1..2 : RpcHandler[n] = a[n]
        /\ \A n \in 2 + 1..2 + Count : RpcHandler[n] = b[n - 2]
    <3>1. /\ Len(RpcHandler) = Len(a) + Len(b)
          /\ \A n \in 1..Len(a) : RpcHandler[n] = a[n]
          /\ \A n \in Len(a) + 1..Len(a) + Len(b) : RpcHandler[n] = b[n - Len(a)]
      BY <2>2, <2>3, <2>4, ConcatFacts, Zenon
    <3> QED BY <2>2, <2>3, <3>1, Zenon
  <2>6. \A n \in 3..Count + 2 : RpcHandler[n] = RecvImm(0, RpcFns) BY <1>1, <2>3, <2>5, SMT
  <2>7. /\ Len(RpcHandler) = Count + 2
        /\ RpcHandler[1] = RegMr("buffer", 42) /\ RpcHandler[2] = SendMr("buffer")
    BY <1>1, <2>2, <2>5, SMT
  <2> QED BY <2>6, <2>7, SMT
<1>3. /\ Len(RpcCaller) = Count + 1 /\ RpcCaller[1] = RecvMr
      /\ \A n \in 2..Count + 1 : RpcCaller[n] = WriteImm(1, 42, n - 2)
  <2> DEFINE a == << RecvMr >>
             b == [i \in 1..Count |-> WriteImm(1, 42, i - 1)]
  <2>1. RecvMr \in Instrs BY InstrFacts, SMT
  <2>2. a \in Seq(Instrs) /\ Len(a) = 1 /\ a[1] = RecvMr BY <2>1, SMT
  <2>3. /\ b \in Seq(Instrs) /\ Len(b) = Count
        /\ \A n \in 1..Count : b[n] = WriteImm(1, 42, n - 1)
    BY <1>1, InstrFacts, SMT
  <2>4. RpcCaller = a \o b BY SMT DEF RpcCaller
  <2> HIDE DEF a, b
  <2>5. /\ Len(RpcCaller) = 1 + Count
        /\ \A n \in 1..1 : RpcCaller[n] = a[n]
        /\ \A n \in 1 + 1..1 + Count : RpcCaller[n] = b[n - 1]
    <3>1. /\ Len(RpcCaller) = Len(a) + Len(b)
          /\ \A n \in 1..Len(a) : RpcCaller[n] = a[n]
          /\ \A n \in Len(a) + 1..Len(a) + Len(b) : RpcCaller[n] = b[n - Len(a)]
      BY <2>2, <2>3, <2>4, ConcatFacts, Zenon
    <3> QED BY <2>2, <2>3, <3>1, Zenon
  <2>6. ASSUME NEW n \in 2..Count + 1 PROVE RpcCaller[n] = WriteImm(1, 42, n - 2)
    <3>1. n - 1 \in 1..Count /\ n \in 1 + 1..1 + Count /\ n - 1 - 1 = n - 2 BY <1>1
    <3> QED BY <2>3, <2>5, <3>1, SMT
  <2>7. Len(RpcCaller) = Count + 1 /\ RpcCaller[1] = RecvMr BY <1>1, <2>2, <2>5, SMT
  <2> QED BY <2>6, <2>7, SMT
<1> QED BY <1>2, <1>3

(* The handler and the worker of write_bw.cc, position by position.        *)
LEMMA WriteBwScripts ==
  /\ Len(WriteBwHandler) = 3 /\ Len(WriteBwWorker) = Count + 2
  /\ WriteBwHandler[1] = RegMr("buffer", BufferSizeBytes)
  /\ WriteBwHandler[2] = SendMr("buffer")
  /\ WriteBwHandler[3] = RecvImm(0, {Magic})
  /\ WriteBwWorker[1] = RecvMr
  /\ \A n \in 2..Count + 1 : WriteBwWorker[n] = Write(1, BufferSizeBytes)
  /\ WriteBwWorker[Count + 2] = WriteImm(1, BufferSizeBytes, Magic)
<1> DEFINE a == << RecvMr >>
           b == Times(Write(1, BufferSizeBytes))
           c == << WriteImm(1, BufferSizeBytes, Magic) >>
<1>1. Count \in Nat BY SessionAssumption
<1>2. /\ RecvMr \in Instrs /\ Write(1, BufferSizeBytes) \in Instrs
      /\ WriteImm(1, BufferSizeBytes, Magic) \in Instrs
  BY InstrFacts, SizeFacts, SMT
<1>3. a \in Seq(Instrs) /\ Len(a) = 1 /\ a[1] = RecvMr BY <1>2, SMT
<1>4. /\ b \in Seq(Instrs) /\ Len(b) = Count
      /\ \A n \in 1..Count : b[n] = Write(1, BufferSizeBytes)
  BY <1>2, TimesFacts, SMT
<1>5. c \in Seq(Instrs) /\ Len(c) = 1 /\ c[1] = WriteImm(1, BufferSizeBytes, Magic)
  BY <1>2, SMT
<1>6. WriteBwWorker = (a \o b) \o c BY SMT DEF WriteBwWorker
<1> HIDE DEF a, b, c
<1>7. /\ Len(WriteBwWorker) = 1 + Count + 1
      /\ \A n \in 1..1 : WriteBwWorker[n] = a[n]
      /\ \A n \in 1 + 1..1 + Count : WriteBwWorker[n] = b[n - 1]
      /\ \A n \in 1 + Count + 1..1 + Count + 1 : WriteBwWorker[n] = c[n - (1 + Count)]
  <2>1. Pieces(WriteBwWorker, a, b, c, Len(a), Len(b), Len(c))
    BY <1>3, <1>4, <1>5, <1>6, LoopFacts, Zenon
  <2> QED BY <1>3, <1>4, <1>5, <2>1, Zenon DEF Pieces
<1>8. /\ Len(WriteBwWorker) = Count + 2 /\ WriteBwWorker[1] = RecvMr
      /\ \A n \in 2..Count + 1 : WriteBwWorker[n] = Write(1, BufferSizeBytes)
  BY <1>1, <1>3, <1>4, <1>7, SMT
<1>9. WriteBwWorker[Count + 2] = WriteImm(1, BufferSizeBytes, Magic)
  <2>1. PICK n \in 1 + Count + 1..1 + Count + 1 : n = Count + 2 BY <1>1
  <2>2. WriteBwWorker[n] = c[n - (1 + Count)] BY <1>7
  <2>3. n - (1 + Count) = 1 BY <1>1, <2>1
  <2>4. WriteBwWorker[n] = c[1] BY <2>2, <2>3, Zenon
  <2> QED BY <1>5, <2>1, <2>4, Zenon
<1>10. /\ Len(WriteBwHandler) = 3
       /\ WriteBwHandler[1] = RegMr("buffer", BufferSizeBytes)
       /\ WriteBwHandler[2] = SendMr("buffer")
       /\ WriteBwHandler[3] = RecvImm(0, {Magic})
  BY SMT DEF WriteBwHandler
<1> QED BY <1>8, <1>9, <1>10, SMT

(* The script of each side of each program.                                *)
LEMMA ScriptOf ==
  /\ Script("helloworld", "client") = HelloClient
  /\ Script("helloworld", "server") = HelloServer
  /\ Script("latency", "client") = LatencyClient
  /\ Script("latency", "server") = LatencyServer
  /\ Script("latency_raw", "client") = LatencyClient
  /\ Script("latency_raw", "server") = LatencyServer
  /\ Script("rpc", "client") = RpcCaller
  /\ Script("rpc", "server") = RpcHandler
  /\ Script("write_bw", "client") = WriteBwWorker
  /\ Script("write_bw", "server") = WriteBwHandler
  /\ Script("send_bw_raw", "client") = SendWorker
  /\ Script("send_bw_raw", "server") = ServerWorker
  /\ Script("cancellation", "client") = CancelClient
  /\ Script("cancellation", "server") = CancelServer
BY Zenon DEF Script, LatencyRawClient, LatencyRawServer

-----------------------------------------------------------------------------
(* The scripts C and S of client and server fit.                           *)

(* A message i can be taken by receive j, and j expects it.                *)
Delivers(j, i) == Accepts(j, i) /\ (i.op = "send" => i.length <= j.length)

Consumes(i) == i.op \in {"send", "write_with_imm"}

Shape(p, C, S) ==
  /\ Meets(p, 1, 1) /\ Described(p, 1) = <<>>
  /\ \A m \in 1..Len(C) :
       C[m].op # "reg_mr" /\ (C[m].op # "recv" => Described(p, m + 1) = Described(p, m))
  /\ \A n \in 1..Len(S) : S[n].op \in {"reg_mr", "send", "recv"}
  /\ \A k, n \in 1..Len(S) :
       S[k].op = "reg_mr" /\ S[n].op = "reg_mr" /\ S[k].mr = S[n].mr => k = n

(* A message from the client to the server, and the other way.             *)
ToServer(p, C, S, m, n) ==
  n \in 1..Len(S) /\ Consumes(C[m]) /\ S[n].op = "recv" =>
    Meets(p, m + 1, n + 1) /\ Delivers(S[n], C[m])

ToClient(p, C, S, m, n) ==
  n \in 1..Len(S) /\ Consumes(S[n]) /\ C[m].op = "recv" =>
    /\ Meets(p, m + 1, n + 1) /\ Delivers(C[m], S[n])
    /\ Described(p, m + 1) =
         IF S[n].op = "send" /\ C[m].length = DescrSize
         THEN Append(Described(p, m), S[n].mr) ELSE Described(p, m)

(* An access of the client to a region of the server, which has made it.   *)
Finds(p, C, S, m, n) ==
  /\ C[m].of \in 1..Len(Described(p, m))
  /\ \E k \in 1..n - 1 :
       /\ S[k].op = "reg_mr" /\ S[k].mr = Described(p, m)[C[m].of]
       /\ C[m].length <= S[k].length

Reaches(p, C, S, m, n) ==
  C[m].op \notin {"send", "recv"} =>
    /\ C[m].op \in {"read", "write", "atomic"} => Meets(p, m + 1, n)
    /\ Finds(p, C, S, m, n)

(* Who is through leaves the other side nothing to do.                     *)
Agree(p, C, S, m, n) ==
  /\ m \in 1..Len(C) => /\ ToServer(p, C, S, m, n) /\ ToClient(p, C, S, m, n)
                        /\ Reaches(p, C, S, m, n) /\ n <= Len(S)
  /\ n \in 1..Len(S) /\ S[n].op = "reg_mr" => Meets(p, m, n + 1)
  /\ m > Len(C) => n > Len(S) \/ \A k \in 1..Len(S) : S[k].op = "recv"

(* A client that receives the description of a region and goes round its   *)
(* loops, and a server that makes the region and goes round with it.       *)
LEMMA LoopFits ==
  ASSUME NEW p \in {"latency", "latency_raw", "rpc"}, NEW C, NEW S, NEW K \in Nat,
         Len(C) = K + 1, Len(S) = K + 2,
         S[1].op = "reg_mr", S[1].mr = "buffer",
         S[2].op = "send", S[2].mr = "buffer",
         C[1].op = "recv", C[1].length = DescrSize, Delivers(C[1], S[2]),
         \A n \in 3..K + 2 : S[n].op = "recv",
         \A m \in 2..K + 1 :
           /\ Consumes(C[m]) /\ Delivers(S[m + 1], C[m])
           /\ C[m].op = "write_with_imm" => C[m].of = 1 /\ C[m].length <= S[1].length
  PROVE  /\ Shape(p, C, S)
         /\ \A m \in 1..Len(C) + 1, n \in 1..Len(S) + 1 :
              Meets(p, m, n) => Agree(p, C, S, m, n)
<1>1. \A m, n : Meets(p, m, n) <=> LoopMeets(m, n) BY DEF Meets
<1>2. Described(p, 1) = <<>> /\ \A m : m # 1 => Described(p, m) = <<"buffer">>
  BY DEF Described
<1>3. \A m \in 2..K + 1 : C[m].op = "send" \/ C[m].op = "write_with_imm" BY DEF Consumes
<1>4. Append(<<>>, "buffer") = <<"buffer">> OBVIOUS
<1>5. Shape(p, C, S)
  <2>1. Meets(p, 1, 1) BY <1>1 DEF LoopMeets
  <2>2. \A m \in 1..Len(C) :
          C[m].op # "reg_mr" /\ (C[m].op # "recv" => Described(p, m + 1) = Described(p, m))
    BY <1>2, <1>3
  <2>3. \A n \in 1..Len(S) : S[n].op \in {"reg_mr", "send", "recv"} /\ (S[n].op = "reg_mr" => n = 1)
    OBVIOUS
  <2> QED BY <1>2, <2>1, <2>2, <2>3 DEF Shape
<1>6. ASSUME NEW m \in 1..Len(C) + 1, NEW n \in 1..Len(S) + 1, Meets(p, m, n)
      PROVE  Agree(p, C, S, m, n)
  <2>0. LoopMeets(m, n) BY <1>1, <1>6
  <2>1. CASE n = 1 \/ n = 2
    <3>1. m = 1 BY <2>0, <2>1 DEF LoopMeets
    <3>2. ToServer(p, C, S, m, n) /\ Reaches(p, C, S, m, n) BY <3>1 DEF ToServer, Consumes, Reaches
    <3>3. ToClient(p, C, S, m, n)
      <4>1. CASE n = 1 BY <4>1 DEF ToClient, Consumes
      <4>2. CASE n = 2
        <5>1. Meets(p, 2, 3) BY <1>1 DEF LoopMeets
        <5>2. Described(p, 2) = Append(Described(p, 1), S[2].mr) BY <1>2, <1>4
        <5>3. m + 1 = 2 /\ n + 1 = 3 BY <3>1, <4>2
        <5> QED BY <3>1, <4>2, <5>1, <5>2, <5>3, Zenon DEF ToClient
      <4> QED BY <2>1, <4>1, <4>2
    <3>4. S[n].op = "reg_mr" => Meets(p, m, n + 1) BY <1>1, <2>1, <3>1 DEF LoopMeets
    <3> QED BY <2>1, <3>1, <3>2, <3>3, <3>4 DEF Agree
  <2>2. CASE n \in 3..K + 2
    <3>1. m = n - 1 /\ m \in 2..K + 1 /\ m + 1 = n BY <2>0, <2>2 DEF LoopMeets
    <3>2. ToServer(p, C, S, m, n)
      <4>1. Meets(p, m + 1, n + 1) BY <1>1, <3>1 DEF LoopMeets
      <4> QED BY <3>1, <4>1 DEF ToServer
    <3>3. ToClient(p, C, S, m, n) BY <1>3, <3>1 DEF ToClient
    <3>4. Reaches(p, C, S, m, n)
      <4>1. CASE C[m].op = "send" BY <4>1 DEF Reaches
      <4>2. CASE C[m].op = "write_with_imm"
        <5>1. C[m].of = 1 /\ C[m].length <= S[1].length BY <3>1, <4>2
        <5>2. Described(p, m) = <<"buffer">> BY <1>2, <3>1
        <5>3. 1 \in 1..Len(Described(p, m)) /\ Described(p, m)[1] = "buffer" BY <5>2
        <5>4. 1 \in 1..n - 1 BY <3>1
        <5> QED BY <4>2, <5>1, <5>3, <5>4 DEF Reaches, Finds
      <4> QED BY <1>3, <3>1, <4>1, <4>2
    <3> QED BY <2>2, <3>1, <3>2, <3>3, <3>4 DEF Agree
  <2>3. CASE n = K + 3
    <3>1. m = K + 2 BY <2>0, <2>3 DEF LoopMeets
    <3> QED BY <2>3, <3>1 DEF Agree
  <2> QED BY <2>1, <2>2, <2>3
<1> QED BY <1>5, <1>6

(* The two sides of latency.cc and latency_raw.cc fit.                     *)
LEMMA LatencyFits ==
  ASSUME NEW p \in {"latency", "latency_raw"}
  PROVE  /\ Shape(p, LatencyClient, LatencyServer)
         /\ \A m \in 1..Len(LatencyClient) + 1, n \in 1..Len(LatencyServer) + 1 :
              Meets(p, m, n) => Agree(p, LatencyClient, LatencyServer, m, n)
<1> DEFINE C == LatencyClient
           S == LatencyServer
           K == 2 * Count
<1>0. Count \in Nat /\ Count >= 1 /\ K \in Nat BY SessionAssumption
<1>1. Len(C) = K + 1 /\ Len(S) = K + 2 BY LatencyScripts
<1>2. /\ S[1].op = "reg_mr" /\ S[1].mr = "buffer" /\ S[1].length = MessageSize
      /\ S[2].op = "send" /\ S[2].mr = "buffer"
      /\ C[1].op = "recv" /\ C[1].length = DescrSize /\ Delivers(C[1], S[2])
  BY LatencyScripts, SMT DEF RegMr, SendMr, RecvMrExactly, Delivers, Accepts, DescrSize
<1>3. \A n \in 3..K + 2 : S[n] = Recv(0) \/ S[n] = Recv(MessageSize)
  BY <1>0, LatencyScripts, SMT
<1>4. \A n \in 3..K + 2 : S[n].op = "recv" BY <1>3, SMT DEF Recv, RecvImm
<1>5. ASSUME NEW m \in 2..K + 1
      PROVE  /\ Consumes(C[m]) /\ Delivers(S[m + 1], C[m])
             /\ C[m].op = "write_with_imm" => C[m].of = 1 /\ C[m].length <= S[1].length
  <2>1. CASE m \in 2..Count + 1
    <3>1. m + 1 \in 3..Count + 2 BY <1>0, <2>1
    <3>2. C[m] = WriteImm(1, MessageSize, m - 2) /\ S[m + 1] = Recv(0)
      BY <2>1, <3>1, LatencyScripts, Zenon
    <3> QED BY <1>2, <3>2, SizeFacts, SMT
            DEF WriteImm, Recv, RecvImm, Consumes, Delivers, Accepts
  <2>2. CASE m \in Count + 2..2 * Count + 1
    <3>1. m + 1 \in Count + 3..2 * Count + 2 BY <1>0, <2>2
    <3>2. C[m] = Send(MessageSize) /\ S[m + 1] = Recv(MessageSize)
      BY <2>2, <3>1, LatencyScripts, Zenon
    <3> QED BY <3>2, SizeFacts, SMT DEF Send, Recv, RecvImm, Consumes, Delivers, Accepts
  <2> QED BY <1>0, <2>1, <2>2
<1> HIDE DEF C, S, K
<1>6. /\ Shape(p, C, S)
      /\ \A m \in 1..Len(C) + 1, n \in 1..Len(S) + 1 : Meets(p, m, n) => Agree(p, C, S, m, n)
  BY <1>0, <1>1, <1>2, <1>4, <1>5, LoopFits
<1> QED BY <1>6 DEF C, S

(* The two sides of rpc.cc fit.                                            *)
LEMMA RpcFits ==
  /\ Shape("rpc", RpcCaller, RpcHandler)
  /\ \A m \in 1..Len(RpcCaller) + 1, n \in 1..Len(RpcHandler) + 1 :
       Meets("rpc", m, n) => Agree("rpc", RpcCaller, RpcHandler, m, n)
<1> DEFINE C == RpcCaller
           S == RpcHandler
<1>0. Count \in Nat /\ Count >= 1 BY SessionAssumption
<1>1. Len(C) = Count + 1 /\ Len(S) = Count + 2 BY RpcScripts
<1>2. /\ S[1].op = "reg_mr" /\ S[1].mr = "buffer" /\ S[1].length = 42
      /\ S[2].op = "send" /\ S[2].mr = "buffer"
      /\ C[1].op = "recv" /\ C[1].length = DescrSize /\ Delivers(C[1], S[2])
  BY RpcScripts, SMT DEF RegMr, SendMr, RecvMr, Recv, RecvImm, Delivers, Accepts, DescrSize
<1>3. \A n \in 3..Count + 2 : S[n].op = "recv" BY RpcScripts, SMT DEF RecvImm
<1>4. ASSUME NEW m \in 2..Count + 1
      PROVE  /\ Consumes(C[m]) /\ Delivers(S[m + 1], C[m])
             /\ C[m].op = "write_with_imm" => C[m].of = 1 /\ C[m].length <= S[1].length
  <2>1. m + 1 \in 3..Count + 2 /\ m - 2 \in RpcFns BY <1>0 DEF RpcFns
  <2>2. C[m] = WriteImm(1, 42, m - 2) /\ S[m + 1] = RecvImm(0, RpcFns)
    BY <2>1, RpcScripts, Zenon
  <2> QED BY <1>2, <2>1, <2>2, SMT DEF WriteImm, RecvImm, Consumes, Delivers, Accepts
<1> HIDE DEF C, S
<1>5. /\ Shape("rpc", C, S)
      /\ \A m \in 1..Len(C) + 1, n \in 1..Len(S) + 1 :
           Meets("rpc", m, n) => Agree("rpc", C, S, m, n)
  BY <1>0, <1>1, <1>2, <1>3, <1>4, LoopFits
<1> QED BY <1>5 DEF C, S

(* The ways two positions agree: the server makes a region, sends to the   *)
(* client, lets it access a region, or takes its message.                  *)
LEMMA AgreeRegister ==
  ASSUME NEW p, NEW C, NEW S, NEW m \in 1..Len(C), NEW n \in 1..Len(S),
         C[m].op = "recv", S[n].op = "reg_mr", Meets(p, m, n + 1)
  PROVE  Agree(p, C, S, m, n)
BY DEF Agree, ToServer, ToClient, Reaches, Consumes

(* The same where the client awaits what the server sends.                 *)
LEMMA AgreeToClient ==
  ASSUME NEW p, NEW C, NEW S, NEW m \in 1..Len(C), NEW n \in 1..Len(S),
         C[m].op = "recv", S[n].op = "send", Meets(p, m + 1, n + 1), Delivers(C[m], S[n]),
         Described(p, m + 1) = IF C[m].length = DescrSize
                               THEN Append(Described(p, m), S[n].mr) ELSE Described(p, m)
  PROVE  Agree(p, C, S, m, n)
BY DEF Agree, ToServer, ToClient, Reaches, Consumes

(* The same where the client accesses a region of the server.              *)
LEMMA AgreeAccess ==
  ASSUME NEW p, NEW C, NEW S, NEW m \in 1..Len(C), NEW n \in 1..Len(S),
         C[m].op \in {"read", "write", "atomic"}, S[n].op = "recv", Meets(p, m + 1, n),
         Finds(p, C, S, m, n)
  PROVE  Agree(p, C, S, m, n)
BY DEF Agree, ToServer, ToClient, Reaches, Consumes

(* The same where the server awaits what the client sends.                 *)
LEMMA AgreeToServer ==
  ASSUME NEW p, NEW C, NEW S, NEW m \in 1..Len(C), NEW n \in 1..Len(S),
         Consumes(C[m]), S[n].op = "recv", Meets(p, m + 1, n + 1), Delivers(S[n], C[m]),
         C[m].op = "write_with_imm" => Finds(p, C, S, m, n)
  PROVE  Agree(p, C, S, m, n)
BY DEF Agree, ToServer, ToClient, Reaches, Consumes

(* The two sides of write_bw.cc fit.                                       *)
LEMMA WriteBwFits ==
  /\ Shape("write_bw", WriteBwWorker, WriteBwHandler)
  /\ \A m \in 1..Len(WriteBwWorker) + 1, n \in 1..Len(WriteBwHandler) + 1 :
       Meets("write_bw", m, n) => Agree("write_bw", WriteBwWorker, WriteBwHandler, m, n)
<1> DEFINE p == "write_bw"
           C == WriteBwWorker
           S == WriteBwHandler
<1>0. Count \in Nat /\ Count >= 1 BY SessionAssumption
<1>1. Len(C) = Count + 2 /\ Len(S) = 3 BY WriteBwScripts
<1>2. /\ S[1].op = "reg_mr" /\ S[1].mr = "buffer" /\ S[1].length = BufferSizeBytes
      /\ S[2].op = "send" /\ S[2].mr = "buffer" /\ S[3].op = "recv"
      /\ C[1].op = "recv" /\ C[1].length = DescrSize /\ Delivers(C[1], S[2])
  BY WriteBwScripts, SMT
     DEF RegMr, SendMr, RecvMr, Recv, RecvImm, Delivers, Accepts, DescrSize
<1>3. \A m \in 2..Count + 1 :
        C[m].op = "write" /\ C[m].of = 1 /\ C[m].length = BufferSizeBytes
  BY WriteBwScripts, SMT DEF Write
<1>4. /\ C[Count + 2].op = "write_with_imm" /\ C[Count + 2].of = 1
      /\ C[Count + 2].length = BufferSizeBytes /\ Delivers(S[3], C[Count + 2])
  BY WriteBwScripts, SMT DEF WriteImm, RecvImm, Delivers, Accepts
<1>5. \A m, n : Meets(p, m, n) <=> WriteBwMeets(m, n) BY DEF Meets
<1>6. Described(p, 1) = <<>> /\ \A m : m # 1 => Described(p, m) = <<"buffer">>
  BY DEF Described
<1> HIDE DEF p, C, S
<1>7. Shape(p, C, S)
  <2>1. Meets(p, 1, 1) BY <1>5 DEF WriteBwMeets
  <2>2. \A m \in 1..Len(C) :
          C[m].op # "reg_mr" /\ (C[m].op # "recv" => Described(p, m + 1) = Described(p, m))
    BY <1>0, <1>1, <1>2, <1>3, <1>4, <1>6
  <2>3. \A n \in 1..Len(S) : S[n].op \in {"reg_mr", "send", "recv"} /\ (S[n].op = "reg_mr" => n = 1)
    BY <1>1, <1>2
  <2> QED BY <1>6, <2>1, <2>2, <2>3 DEF Shape
<1>8. ASSUME NEW m \in 2..Count + 2 PROVE Finds(p, C, S, m, 3)
  <2>1. Described(p, m) = <<"buffer">> BY <1>6
  <2>2. 1 \in 1..Len(Described(p, m)) /\ Described(p, m)[1] = "buffer" BY <2>1
  <2>3. C[m].of = 1 /\ C[m].length = BufferSizeBytes
    <3>1. CASE m \in 2..Count + 1 BY <1>3, <3>1
    <3>2. CASE m = Count + 2 BY <1>4, <3>2
    <3> QED BY <1>0, <3>1, <3>2
  <2>4. 1 \in 1..3 - 1 /\ C[m].length <= S[1].length BY <1>2, <2>3, SizeFacts
  <2> QED BY <1>2, <2>2, <2>3, <2>4, Zenon DEF Finds
<1>9. ASSUME NEW m \in 1..Len(C) + 1, NEW n \in 1..Len(S) + 1, Meets(p, m, n)
      PROVE  Agree(p, C, S, m, n)
  <2>0. WriteBwMeets(m, n) BY <1>5, <1>9
  <2>1. CASE n = 1
    <3>1. m = 1 /\ Meets(p, 1, 1 + 1) BY <1>5, <2>0, <2>1 DEF WriteBwMeets
    <3>2. m \in 1..Len(C) /\ n \in 1..Len(S) BY <1>0, <1>1, <2>1, <3>1
    <3> QED BY <1>2, <2>1, <3>1, <3>2, AgreeRegister, Zenon
  <2>2. CASE n = 2
    <3>1. m = 1 /\ Meets(p, 1 + 1, 2 + 1) BY <1>0, <1>5, <2>0, <2>2 DEF WriteBwMeets
    <3>2. m \in 1..Len(C) /\ n \in 1..Len(S) BY <1>0, <1>1, <2>2, <3>1
    <3>3. Described(p, 1 + 1) = Append(Described(p, 1), S[2].mr)
      <4>1. Append(<<>>, "buffer") = <<"buffer">> /\ 1 + 1 # 1 OBVIOUS
      <4> QED BY <1>2, <1>6, <4>1, Zenon
    <3> QED BY <1>2, <2>2, <3>1, <3>2, <3>3, AgreeToClient, Zenon
  <2>3. CASE n = 3 /\ m \in 2..Count + 1
    <3>1. Meets(p, m + 1, 3) BY <1>0, <1>5, <2>3 DEF WriteBwMeets
    <3>2. m \in 1..Len(C) /\ n \in 1..Len(S) /\ m \in 2..Count + 2 BY <1>0, <1>1, <2>3
    <3> QED BY <1>2, <1>3, <1>8, <2>3, <3>1, <3>2, AgreeAccess, Zenon
  <2>4. CASE n = 3 /\ m = Count + 2
    <3>1. Meets(p, Count + 2 + 1, 3 + 1) BY <1>0, <1>5 DEF WriteBwMeets
    <3>2. m \in 1..Len(C) /\ n \in 1..Len(S) /\ m \in 2..Count + 2 BY <1>0, <1>1, <2>4
    <3>3. Consumes(C[m]) BY <1>4, <2>4 DEF Consumes
    <3> QED BY <1>2, <1>4, <1>8, <2>4, <3>1, <3>2, <3>3, AgreeToServer, Zenon
  <2>5. CASE n = 4 BY <1>0, <1>1, <2>0, <2>5 DEF Agree, WriteBwMeets
  <2> QED BY <1>0, <1>1, <2>0, <2>1, <2>2, <2>3, <2>4, <2>5 DEF WriteBwMeets
<1> QED BY <1>7, <1>9 DEF p, C, S

(* The two sides of cancellation.cc fit.                                   *)
LEMMA CancelFits ==
  /\ Shape("cancellation", CancelClient, CancelServer)
  /\ \A m \in 1..Len(CancelClient) + 1, n \in 1..Len(CancelServer) + 1 :
       Meets("cancellation", m, n) => Agree("cancellation", CancelClient, CancelServer, m, n)
<1> DEFINE p == "cancellation"
           C == CancelClient
           S == CancelServer
<1>1. /\ Len(C) = 1 /\ Len(S) = 2 /\ C[1].op = "send" /\ Delivers(S[1], C[1])
      /\ \A n \in 1..2 : S[n].op = "recv"
  BY SMT DEF CancelClient, CancelServer, Send, Recv, RecvImm, Delivers, Accepts
<1>2. \A m, n : Meets(p, m, n) <=> n \in 1..2 /\ m = n BY DEF Meets
<1>3. \A m : Described(p, m) = <<>> BY DEF Described
<1> HIDE DEF p, C, S
<1>4. Shape(p, C, S) BY <1>1, <1>2, <1>3 DEF Shape
<1>5. ASSUME NEW m \in 1..Len(C) + 1, NEW n \in 1..Len(S) + 1, Meets(p, m, n)
      PROVE  Agree(p, C, S, m, n)
  <2>1. CASE m = 1 /\ n = 1
    <3>1. Meets(p, 1 + 1, 1 + 1) /\ Consumes(C[1]) BY <1>1, <1>2 DEF Consumes
    <3>2. m \in 1..Len(C) /\ n \in 1..Len(S) BY <1>1, <2>1
    <3> QED BY <1>1, <2>1, <3>1, <3>2, AgreeToServer
  <2>2. CASE m = 2 /\ n = 2 BY <1>1, <2>2 DEF Agree
  <2> QED BY <1>2, <1>5, <2>1, <2>2
<1> QED BY <1>4, <1>5 DEF p, C, S

(* The scripts of helloworld, position by position.                        *)
LEMMA HelloFacts ==
  /\ Len(HelloServer) = 12 /\ Len(HelloClient) = 14
  /\ \A n \in {3, 6, 10} : HelloServer[n].op = "reg_mr"
  /\ HelloServer[3].mr = "buffer" /\ HelloServer[3].length = 5
  /\ HelloServer[6].mr = "counter" /\ HelloServer[6].length = 8
  /\ HelloServer[10].mr = "large" /\ HelloServer[10].length = 65536
  /\ \A n \in {1, 4, 7, 11} : HelloServer[n].op = "send"
  /\ HelloServer[4].mr = "buffer" /\ HelloServer[7].mr = "counter"
  /\ HelloServer[11].mr = "large"
  /\ \A n \in {2, 5, 8, 9, 12} : HelloServer[n].op = "recv"
  /\ \A m \in {1, 3, 6, 11} : HelloClient[m].op = "recv"
  /\ HelloClient[1].length = 5 /\ \A m \in {3, 6, 11} : HelloClient[m].length = DescrSize
  /\ \A m \in {4, 7, 9, 12, 13} : HelloClient[m].op \in {"read", "write", "atomic"}
  /\ HelloClient[2].op = "send"
  /\ \A m \in {5, 8, 10, 14} : HelloClient[m].op = "write_with_imm"
  /\ \A m \in {4, 5} : HelloClient[m].of = 1 /\ HelloClient[m].length = 5
  /\ \A m \in 7..10 : HelloClient[m].of = 2 /\ HelloClient[m].length = 8
  /\ \A m \in 12..14 : HelloClient[m].of = 3 /\ HelloClient[m].length <= 65536
<1>1. Len(HelloServer) = 12 /\ Len(HelloClient) = 14 BY DEF HelloServer, HelloClient
<1>2. /\ HelloServer[1] = Send(5) /\ HelloServer[2] = Recv(5)
      /\ HelloServer[3] = RegMr("buffer", 5) /\ HelloServer[4] = SendMr("buffer")
      /\ HelloServer[5] = RecvImm(0, SomeImm)
      /\ HelloServer[6] = RegMr("counter", 8) /\ HelloServer[7] = SendMr("counter")
      /\ HelloServer[8] = RecvImm(5, SomeImm) /\ HelloServer[9] = RecvImm(5, SomeImm)
      /\ HelloServer[10] = RegMr("large", 65536) /\ HelloServer[11] = SendMr("large")
      /\ HelloServer[12] = RecvImm(0, SomeImm)
  BY SMT DEF HelloServer
<1>3. /\ HelloClient[1] = Recv(5) /\ HelloClient[2] = Send(5)
      /\ HelloClient[3] = RecvMr /\ HelloClient[4] = Read(1, 5)
      /\ HelloClient[5] = WriteImm(1, 5, 1)
      /\ HelloClient[6] = RecvMr /\ HelloClient[7] = Atomic(2)
      /\ HelloClient[8] = WriteImm(2, 8, 1) /\ HelloClient[9] = Atomic(2)
      /\ HelloClient[10] = WriteImm(2, 8, 1)
      /\ HelloClient[11] = RecvMr /\ HelloClient[12] = Write(3, 2000)
      /\ HelloClient[13] = Read(3, 2000) /\ HelloClient[14] = WriteImm(3, 9987, 2099)
  BY SMT DEF HelloClient
<1>4. \A n \in {2, 5, 8, 9, 12} : HelloServer[n].op = "recv"
  BY <1>2, SMT DEF Recv, RecvImm
<1>5. /\ \A n \in {3, 6, 10} : HelloServer[n].op = "reg_mr"
      /\ HelloServer[3].mr = "buffer" /\ HelloServer[3].length = 5
      /\ HelloServer[6].mr = "counter" /\ HelloServer[6].length = 8
      /\ HelloServer[10].mr = "large" /\ HelloServer[10].length = 65536
  BY <1>2, SMT DEF RegMr
<1>6. /\ \A n \in {1, 4, 7, 11} : HelloServer[n].op = "send"
      /\ HelloServer[4].mr = "buffer" /\ HelloServer[7].mr = "counter"
      /\ HelloServer[11].mr = "large"
  BY <1>2, SMT DEF Send, SendMr
<1>7. /\ \A m \in {1, 3, 6, 11} : HelloClient[m].op = "recv"
      /\ HelloClient[1].length = 5 /\ \A m \in {3, 6, 11} : HelloClient[m].length = DescrSize
  BY <1>3, SMT DEF RecvMr, Recv, RecvImm
<1>8. /\ \A m \in {4, 7, 9, 12, 13} : HelloClient[m].op \in {"read", "write", "atomic"}
      /\ HelloClient[4].of = 1 /\ HelloClient[4].length = 5
      /\ \A m \in {7, 9} : HelloClient[m].of = 2 /\ HelloClient[m].length = 8
      /\ \A m \in {12, 13} : HelloClient[m].of = 3 /\ HelloClient[m].length = 2000
  BY <1>3, SMT DEF Read, Write, Atomic
<1>9. /\ HelloClient[2].op = "send"
      /\ \A m \in {5, 8, 10, 14} : HelloClient[m].op = "write_with_imm"
      /\ HelloClient[5].of = 1 /\ HelloClient[5].length = 5
      /\ \A m \in {8, 10} : HelloClient[m].of = 2 /\ HelloClient[m].length = 8
      /\ HelloClient[14].of = 3 /\ HelloClient[14].length = 9987
  BY <1>3, SMT DEF Send, WriteImm
<1> QED BY <1>1, <1>4, <1>5, <1>6, <1>7, <1>8, <1>9

(* Every message of helloworld is one its receive can take.                *)
LEMMA HelloDelivers ==
  /\ Delivers(HelloClient[1], HelloServer[1]) /\ Delivers(HelloClient[3], HelloServer[4])
  /\ Delivers(HelloClient[6], HelloServer[7]) /\ Delivers(HelloClient[11], HelloServer[11])
  /\ Delivers(HelloServer[2], HelloClient[2]) /\ Delivers(HelloServer[5], HelloClient[5])
  /\ Delivers(HelloServer[8], HelloClient[8]) /\ Delivers(HelloServer[9], HelloClient[10])
  /\ Delivers(HelloServer[12], HelloClient[14])
<1>1. /\ Delivers(Recv(5), Send(5)) /\ Delivers(RecvMr, SendMr("buffer"))
      /\ Delivers(RecvMr, SendMr("counter")) /\ Delivers(RecvMr, SendMr("large"))
  BY SMT DEF Delivers, Accepts, Recv, RecvImm, Send, SendMr, RecvMr, DescrSize
<1>2. \A n, v \in Nat, k, l \in Nat : Delivers(RecvImm(n, SomeImm), WriteImm(k, l, v))
  BY SMT DEF Delivers, Accepts, RecvImm, WriteImm, SomeImm
<1>3. /\ HelloServer[1] = Send(5) /\ HelloServer[2] = Recv(5)
      /\ HelloServer[4] = SendMr("buffer") /\ HelloServer[7] = SendMr("counter")
      /\ HelloServer[11] = SendMr("large")
      /\ HelloServer[5] = RecvImm(0, SomeImm) /\ HelloServer[8] = RecvImm(5, SomeImm)
      /\ HelloServer[9] = RecvImm(5, SomeImm) /\ HelloServer[12] = RecvImm(0, SomeImm)
  BY SMT DEF HelloServer
<1>4. /\ HelloClient[1] = Recv(5) /\ HelloClient[2] = Send(5)
      /\ HelloClient[3] = RecvMr /\ HelloClient[6] = RecvMr /\ HelloClient[11] = RecvMr
      /\ HelloClient[5] = WriteImm(1, 5, 1) /\ HelloClient[8] = WriteImm(2, 8, 1)
      /\ HelloClient[10] = WriteImm(2, 8, 1) /\ HelloClient[14] = WriteImm(3, 9987, 2099)
  BY SMT DEF HelloClient
<1> QED BY <1>1, <1>2, <1>3, <1>4, SMT

(* What the client of helloworld knows.                                    *)
LEMMA HelloDescribed ==
  LET D(m) == Described("helloworld", m) IN
  /\ \A m \in 1..3 : D(m) = <<>>
  /\ \A m \in 4..6 : D(m) = <<"buffer">>
  /\ \A m \in 7..11 : D(m) = <<"buffer", "counter">>
  /\ \A m \in 12..15 : D(m) = <<"buffer", "counter", "large">>
BY SMT DEF Described

(* A description after those of one or two regions.                        *)
LEMMA NextDescribed ==
  ASSUME NEW a, NEW b, NEW c
  PROVE  /\ Append(<<>>, a) = <<a>>
         /\ Append(<<a>>, b) = <<a, b>>
         /\ Append(<<a, b>>, c) = <<a, b, c>>
<1> DEFINE W == {a, b, c}
           q == <<a>>
           r == <<a, b>>
           t == <<a, b, c>>
<1>1. /\ q \in Seq(W) /\ r \in Seq(W) /\ t \in Seq(W)
      /\ Len(q) = 1 /\ Len(r) = 2 /\ Len(t) = 3
      /\ q[1] = a /\ r[1] = a /\ r[2] = b /\ t[1] = a /\ t[2] = b /\ t[3] = c
  OBVIOUS
<1>2. /\ Append(q, b) \in Seq(W) /\ Len(Append(q, b)) = 2
      /\ Append(q, b)[1] = a /\ Append(q, b)[2] = b
      /\ Append(r, c) \in Seq(W) /\ Len(Append(r, c)) = 3
      /\ Append(r, c)[1] = a /\ Append(r, c)[2] = b /\ Append(r, c)[3] = c
  BY <1>1
<1>3. Append(<<>>, a) = <<a>> OBVIOUS
<1> HIDE DEF q, r, t
<1>4. \A n \in 1..2 : Append(q, b)[n] = r[n] BY <1>1, <1>2
<1>5. \A n \in 1..3 : Append(r, c)[n] = t[n] BY <1>1, <1>2
<1>6. Append(q, b) = r BY <1>1, <1>2, <1>4, SMT
<1>7. Append(r, c) = t BY <1>1, <1>2, <1>5, SMT
<1> QED BY <1>3, <1>6, <1>7 DEF q, r, t

(* The two sides of helloworld.cc fit.                                     *)
LEMMA HelloFits ==
  /\ Shape("helloworld", HelloClient, HelloServer)
  /\ \A m \in 1..Len(HelloClient) + 1, n \in 1..Len(HelloServer) + 1 :
       Meets("helloworld", m, n) => Agree("helloworld", HelloClient, HelloServer, m, n)
<1> DEFINE p == "helloworld"
           C == HelloClient
           S == HelloServer
<1>1. \A m, n : Meets(p, m, n) <=> HelloMeets(m, n) BY DEF Meets
<1>2. /\ \A m \in 1..3 : Described(p, m) = <<>>
      /\ \A m \in 4..6 : Described(p, m) = <<"buffer">>
      /\ \A m \in 7..11 : Described(p, m) = <<"buffer", "counter">>
      /\ \A m \in 12..15 : Described(p, m) = <<"buffer", "counter", "large">>
  BY HelloDescribed
<1>3. Len(S) = 12 /\ Len(C) = 14 BY HelloFacts
<1> HIDE DEF p
<1>4. Shape(p, C, S)
  <2>1. Meets(p, 1, 1) BY <1>1 DEF HelloMeets
  <2>2. ASSUME NEW m \in 1..14
        PROVE  C[m].op # "reg_mr" /\ (C[m].op # "recv" => Described(p, m + 1) = Described(p, m))
    <3>1. CASE m \in {1, 3, 6, 11} BY <3>1, HelloFacts
    <3>2. CASE m \notin {1, 3, 6, 11}
      <4>1. C[m].op # "reg_mr" BY <3>2, HelloFacts
      <4>2. Described(p, m + 1) = Described(p, m)
        <5>1. CASE m = 2 BY <1>2, <5>1
        <5>2. CASE m \in {4, 5}
          <6>1. m \in 4..6 /\ m + 1 \in 4..6 BY <5>2
          <6> QED BY <1>2, <6>1, Zenon
        <5>3. CASE m \in {7, 8, 9, 10}
          <6>1. m \in 7..11 /\ m + 1 \in 7..11 BY <5>3
          <6> QED BY <1>2, <6>1, Zenon
        <5>4. CASE m \in {12, 13, 14}
          <6>1. m \in 12..15 /\ m + 1 \in 12..15 BY <5>4
          <6> QED BY <1>2, <6>1, Zenon
        <5> QED BY <3>2, <5>1, <5>2, <5>3, <5>4
      <4> QED BY <4>1, <4>2
    <3> QED BY <3>1, <3>2
  <2>3. \A n \in 1..12 : S[n].op \in {"reg_mr", "send", "recv"} BY HelloFacts
  <2>4. \A n \in 1..12 : S[n].op = "reg_mr" => n \in {3, 6, 10} BY HelloFacts
  <2>5. \A k, n \in {3, 6, 10} : S[k].mr = S[n].mr => k = n BY HelloFacts
  <2> HIDE DEF C, S
  <2> QED BY <1>2, <1>3, <2>1, <2>2, <2>3, <2>4, <2>5 DEF Shape
<1>5. ASSUME NEW m \in 1..Len(C) + 1, NEW n \in 1..Len(S) + 1, Meets(p, m, n)
      PROVE  Agree(p, C, S, m, n)
  <2>0. HelloMeets(m, n) BY <1>1, <1>5
  <2>1. CASE <<m, n>> \in {<<3, 3>>, <<6, 6>>, <<11, 10>>}
    <3>1. m \in 1..Len(C) /\ n \in 1..Len(S) BY <1>3, <2>1
    <3>2. C[m].op = "recv" /\ S[n].op = "reg_mr" BY <2>1, HelloFacts
    <3>3. Meets(p, m, n + 1) BY <1>1, <2>1 DEF HelloMeets
    <3> QED BY <3>1, <3>2, <3>3, AgreeRegister, Zenon
  <2>2. CASE <<m, n>> \in {<<1, 1>>, <<3, 4>>, <<6, 7>>, <<11, 11>>}
    <3>1. m \in 1..Len(C) /\ n \in 1..Len(S) BY <1>3, <2>2
    <3>2. C[m].op = "recv" /\ S[n].op = "send" BY <2>2, HelloFacts
    <3>3. Meets(p, m + 1, n + 1) BY <1>1, <2>2 DEF HelloMeets
    <3>4. Delivers(C[m], S[n]) BY <2>2, HelloDelivers
    <3>5. Described(p, m + 1) = IF C[m].length = DescrSize
                                THEN Append(Described(p, m), S[n].mr) ELSE Described(p, m)
      <4>1. CASE m = 1 /\ n = 1 BY <1>2, <4>1, HelloFacts DEF DescrSize
      <4>2. CASE m = 3 /\ n = 4
        <5>1. Described(p, 3) = <<>> /\ Described(p, 3 + 1) = <<"buffer">> BY <1>2
        <5>2. C[3].length = DescrSize /\ S[4].mr = "buffer" BY HelloFacts
        <5> QED BY <4>2, <5>1, <5>2, NextDescribed, Zenon
      <4>3. CASE m = 6 /\ n = 7
        <5>1. Described(p, 6) = <<"buffer">> /\ Described(p, 6 + 1) = <<"buffer", "counter">>
          BY <1>2
        <5>2. C[6].length = DescrSize /\ S[7].mr = "counter" BY HelloFacts
        <5> QED BY <4>3, <5>1, <5>2, NextDescribed, Zenon
      <4>4. CASE m = 11 /\ n = 11
        <5>1. /\ Described(p, 11) = <<"buffer", "counter">>
              /\ Described(p, 11 + 1) = <<"buffer", "counter", "large">>
          BY <1>2
        <5>2. C[11].length = DescrSize /\ S[11].mr = "large" BY HelloFacts
        <5> QED BY <4>4, <5>1, <5>2, NextDescribed, Zenon
      <4> QED BY <2>2, <4>1, <4>2, <4>3, <4>4
    <3> QED BY <3>1, <3>2, <3>3, <3>4, <3>5, AgreeToClient, Zenon
  <2>3. ASSUME m \in {4, 5, 7, 8, 9, 10, 12, 13, 14} PROVE Finds(p, C, S, m, n)
    <3>1. CASE m \in {4, 5}
      <4>1. Described(p, m) = <<"buffer">> BY <1>2, <3>1
      <4>2. /\ 1 \in 1..Len(Described(p, m)) /\ Described(p, m)[1] = "buffer"
            /\ 3 \in 1..n - 1
        BY <2>0, <3>1, <4>1 DEF HelloMeets
      <4>3. C[m].of = 1 /\ C[m].length <= S[3].length BY <3>1, HelloFacts
      <4>4. S[3].op = "reg_mr" /\ S[3].mr = "buffer" BY HelloFacts
      <4> QED BY <4>2, <4>3, <4>4, Zenon DEF Finds
    <3>2. CASE m \in {7, 8, 9, 10}
      <4>1. Described(p, m) = <<"buffer", "counter">> BY <1>2, <3>2
      <4>2. /\ 2 \in 1..Len(Described(p, m)) /\ Described(p, m)[2] = "counter"
            /\ 6 \in 1..n - 1
        BY <2>0, <3>2, <4>1 DEF HelloMeets
      <4>3. C[m].of = 2 /\ C[m].length <= S[6].length BY <3>2, HelloFacts
      <4>4. S[6].op = "reg_mr" /\ S[6].mr = "counter" BY HelloFacts
      <4> QED BY <4>2, <4>3, <4>4, Zenon DEF Finds
    <3>3. CASE m \in {12, 13, 14}
      <4>1. Described(p, m) = <<"buffer", "counter", "large">> BY <1>2, <3>3
      <4>2. /\ 3 \in 1..Len(Described(p, m)) /\ Described(p, m)[3] = "large"
            /\ 10 \in 1..n - 1
        BY <2>0, <3>3, <4>1 DEF HelloMeets
      <4>3. C[m].of = 3 /\ C[m].length <= S[10].length BY <3>3, HelloFacts
      <4>4. S[10].op = "reg_mr" /\ S[10].mr = "large" BY HelloFacts
      <4> QED BY <4>2, <4>3, <4>4, Zenon DEF Finds
    <3> QED BY <2>3, <3>1, <3>2, <3>3
  <2>4. CASE <<m, n>> \in {<<4, 5>>, <<7, 8>>, <<9, 9>>, <<12, 12>>, <<13, 12>>}
    <3>1. m \in 1..Len(C) /\ n \in 1..Len(S) BY <1>3, <2>4
    <3>2. C[m].op \in {"read", "write", "atomic"} /\ S[n].op = "recv" BY <2>4, HelloFacts
    <3>3. Meets(p, m + 1, n) BY <1>1, <2>4 DEF HelloMeets
    <3>4. Finds(p, C, S, m, n) BY <2>3, <2>4
    <3> QED BY <3>1, <3>2, <3>3, <3>4, AgreeAccess, Zenon
  <2>5. CASE <<m, n>> \in {<<2, 2>>, <<5, 5>>, <<8, 8>>, <<10, 9>>, <<14, 12>>}
    <3>1. m \in 1..Len(C) /\ n \in 1..Len(S) BY <1>3, <2>5
    <3>2. Consumes(C[m]) /\ S[n].op = "recv" BY <2>5, HelloFacts DEF Consumes
    <3>3. Meets(p, m + 1, n + 1) BY <1>1, <2>5 DEF HelloMeets
    <3>4. Delivers(S[n], C[m]) BY <2>5, HelloDelivers
    <3>5. C[m].op = "write_with_imm" => Finds(p, C, S, m, n)
      <4>1. CASE m = 2 BY <4>1, HelloFacts
      <4>2. CASE m # 2 BY <2>3, <2>5, <4>2
      <4> QED BY <4>1, <4>2
    <3> QED BY <3>1, <3>2, <3>3, <3>4, <3>5, AgreeToServer, Zenon
  <2>6. CASE m = 15 /\ n = 13 BY <1>3, <2>6 DEF Agree
  <2> QED BY <2>0, <2>1, <2>2, <2>4, <2>5, <2>6 DEF HelloMeets
<1> QED BY <1>4, <1>5 DEF p

(* The two scripts of a program fit, wherever its sides can be at the same *)
(* time.                                                                   *)
Fits(p, C, S) ==
  /\ Shape(p, C, S)
  /\ \A m \in 1..Len(C) + 1, n \in 1..Len(S) + 1 : Meets(p, m, n) => Agree(p, C, S, m, n)

(* So do those of every program with one coroutine on each side.           *)
LEMMA ScriptsFit ==
  ASSUME NEW p \in Programs, p # "send_bw_raw"
  PROVE  Fits(p, Script(p, "client"), Script(p, "server"))
<1>1. p \in {"helloworld", "latency", "latency_raw", "rpc", "write_bw", "cancellation"}
  BY SessionAssumption
<1>2. CASE p = "helloworld" BY <1>2, HelloFits, ScriptOf, Zenon DEF Fits
<1>3. CASE p = "latency" BY <1>3, LatencyFits, ScriptOf, Zenon DEF Fits
<1>4. CASE p = "latency_raw" BY <1>4, LatencyFits, ScriptOf, Zenon DEF Fits
<1>5. CASE p = "rpc" BY <1>5, RpcFits, ScriptOf, Zenon DEF Fits
<1>6. CASE p = "write_bw" BY <1>6, WriteBwFits, ScriptOf, Zenon DEF Fits
<1>7. CASE p = "cancellation" BY <1>7, CancelFits, ScriptOf, Zenon DEF Fits
<1> QED BY <1>1, <1>2, <1>3, <1>4, <1>5, <1>6, <1>7, Zenon

-----------------------------------------------------------------------------
(* The programs with one coroutine on each side.                           *)

(* A queue of one coroutine.                                               *)
LEMMA QueueOfOne ==
  ASSUME NEW q \in Seq({1}), Once(q), q # <<>>
  PROVE  Head(q) = 1 /\ Tail(q) = <<>> /\ IsIn(q, 1)
<1>1. Head(q) \in {1} /\ IsIn(q, Head(q)) BY TailOnce
<1>2. Tail(q) \in Seq({1}) /\ ~IsIn(Tail(q), Head(q)) BY TailOnce
<1>3. Tail(q) = <<>>
  <2> SUFFICES ASSUME Tail(q) # <<>> PROVE FALSE OBVIOUS
  <2> DEFINE r == Tail(q)
  <2>1. r \in Seq({1}) /\ r # <<>> BY <1>2
  <2> HIDE DEF r
  <2>2. Head(r) \in {1} /\ IsIn(r, Head(r)) BY <2>1, TailOnce, Zenon
  <2> QED BY <1>1, <1>2, <2>2 DEF r
<1> QED BY <1>1, <1>3

(* What coroutine 1, alone on its side, and its queues are like.           *)
Alone(s) ==
  /\ Workers(prog, s) = {1} /\ ~Repeats(prog, s)
  /\ Len(Script(prog, s)) \in Nat
  /\ pc[s][1] \in 1..Len(Script(prog, s)) + 1
  /\ Effective(s) \in 1..Len(Script(prog, s)) + 1
  /\ sq[s] # <<>> =>
       /\ Head(sq[s]) = 1 /\ Tail(sq[s]) = <<>> /\ unacked[s] = <<>>
       /\ waits[s][1] /\ ~Through(s, 1) /\ Instr(s, 1).op \notin {"recv", "reg_mr"}
  /\ unacked[s] # <<>> =>
       /\ Head(unacked[s]) = 1 /\ Tail(unacked[s]) = <<>> /\ sq[s] = <<>>
       /\ waits[s][1] /\ ~Through(s, 1) /\ Instr(s, 1).op \notin {"recv", "reg_mr"}
  /\ rq[s] # <<>> =>
       /\ Head(rq[s]) = 1 /\ unacked[s] = <<>>
       /\ waits[s][1] /\ ~Through(s, 1) /\ Instr(s, 1).op = "recv"

(* This is the case in every program but send_bw_raw.                      *)
LEMMA AloneFacts ==
  ASSUME SessionInv, prog # "send_bw_raw", NEW s \in Sides
  PROVE  Alone(s)
<1>1. Workers(prog, s) = {1} /\ ~Repeats(prog, s) BY DEF Workers, Repeats
<1>2. /\ sq[s] \in Seq({1}) /\ unacked[s] \in Seq({1}) /\ rq[s] \in Seq({1})
      /\ Once(sq[s]) /\ Once(unacked[s]) /\ Once(rq[s]) /\ AwaitsOne(s, 1)
  BY <1>1 DEF SessionInv, SessionTypeOK, IsQueue, SideInv
<1>3. Len(Script(prog, s)) \in Nat /\ pc[s][1] \in 1..Len(Script(prog, s)) + 1
  BY <1>1, InstrKinds DEF SessionInv, SessionTypeOK
<1>4. sq[s] # <<>> => Head(sq[s]) = 1 /\ Tail(sq[s]) = <<>> /\ IsIn(sq[s], 1)
  BY <1>2, QueueOfOne
<1>5. unacked[s] # <<>> => Head(unacked[s]) = 1 /\ Tail(unacked[s]) = <<>> /\ IsIn(unacked[s], 1)
  BY <1>2, QueueOfOne
<1>6. rq[s] # <<>> => Head(rq[s]) = 1 /\ IsIn(rq[s], 1) BY <1>2, QueueOfOne
<1>7. unacked[s] # <<>> => ~Through(s, 1) BY <1>2, <1>5 DEF AwaitsOne
<1>8. Effective(s) \in 1..Len(Script(prog, s)) + 1 BY <1>3, <1>7 DEF Effective, Through
<1> QED BY <1>1, <1>2, <1>3, <1>4, <1>5, <1>6, <1>8 DEF AwaitsOne, Alone

(* Where the sides are, their scripts agree.                               *)
LEMMA InStepAgree ==
  ASSUME SessionInv, InStep, prog # "send_bw_raw"
  PROVE  LET C == Script(prog, "client")
             S == Script(prog, "server")
         IN  Shape(prog, C, S) /\ Agree(prog, C, S, Effective("client"), Effective("server"))
<1>1. Alone("client") /\ Alone("server") BY AloneFacts DEF Sides
<1>2. Fits(prog, Script(prog, "client"), Script(prog, "server"))
  BY ScriptsFit DEF SessionInv, SessionTypeOK
<1> QED BY <1>1, <1>2, Zenon DEF Fits, Alone, InStep

(* What a step has to show of it.                                          *)
LEMMA InStepNow ==
  ASSUME prog' = prog, Meets(prog, Effective("client")', Effective("server")'),
         known'["client"][1] = Described(prog, pc'["client"][1]),
         fate'["server"] # "ended" => HasMade(pc'["server"][1], regs'["server"])
  PROVE  InStep'
<1>1. (fate["server"] # "ended" => HasMade(pc["server"][1], regs["server"]))'
  BY DEF HasMade
<1> QED BY <1>1 DEF InStep

(* A step that moves no coroutine and takes no region from a server that   *)
(* has not ended.                                                          *)
LEMMA InStepKept ==
  ASSUME InStep, UNCHANGED <<prog, pc, known, unacked>>,
         regs'["server"] = regs["server"] \/ fate'["server"] = "ended",
         fate["server"] = "ended" => fate'["server"] = "ended"
  PROVE  InStep'
<1>1. \A s \in Sides : Effective(s)' = Effective(s) BY DEF Effective
<1>2. fate'["server"] # "ended" => HasMade(pc'["server"][1], regs'["server"]) BY DEF InStep
<1>3. Meets(prog, Effective("client")', Effective("server")') BY <1>1 DEF InStep, Sides
<1> QED BY <1>2, <1>3, InStepNow DEF InStep

(* What it takes to have made them.                                        *)
LEMMA HasMadeIf ==
  ASSUME NEW n \in Nat, NEW R, NEW S, S = Script(prog, "server"),
         \A k \in 1..n : S[k].op = "reg_mr" => S[k].mr \in DOMAIN R /\ R[S[k].mr] = S[k].length
  PROVE  HasMade(n + 1, R)
BY DEF HasMade

(* No region comes with an instruction that does not make one.             *)
LEMMA HasMadeNext ==
  ASSUME NEW n \in Nat, NEW R, HasMade(n, R), Script(prog, "server")[n].op # "reg_mr"
  PROVE  HasMade(n + 1, R)
BY DEF HasMade

(* What a step that leaves the fates alone has to show of them.            *)
LEMMA FatesKept ==
  ASSUME \A s \in Sides : FateInv(s), UNCHANGED <<prog, qp, fate>>,
         \A s \in Sides :
           /\ fate[s] # "running" => pc'[s] = pc[s]
           /\ fate[s] = "failed" => sq'[s] = sq[s] /\ unacked'[s] = unacked[s]
  PROVE  \A s \in Sides : FateInv(s)'
<1> SUFFICES ASSUME NEW s \in Sides PROVE FateInv(s)' OBVIOUS
<1>1. FateInv(s) OBVIOUS
<1>2. CASE fate[s] # "running" BY <1>1, <1>2 DEF FateInv, Through
<1>3. CASE fate[s] = "running" BY <1>1, <1>3 DEF FateInv
<1> QED BY <1>2, <1>3

(* The server makes a region: only it does, and the client need not know.  *)
LEMMA RegisterInStep ==
  ASSUME FitInv, prog # "send_bw_raw", NEW s \in Sides, Running(s), ~waits[s][1],
         ~Through(s, 1), Register(s, 1), UNCHANGED <<prog, known, unacked, qp, fate>>
  PROVE  InStep'
<1> DEFINE C == Script(prog, "client")
           S == Script(prog, "server")
           i == Instr(s, 1)
           n == pc["server"][1]
<1>1. Alone(s) /\ SessionInv /\ InStep BY AloneFacts DEF FitInv
<1>2. Shape(prog, C, S) /\ Agree(prog, C, S, Effective("client"), Effective("server"))
  BY <1>1, InStepAgree
<1>3. /\ i.op = "reg_mr" /\ pc' = [pc EXCEPT ![s][1] = pc[s][1] + 1]
      /\ regs' = [regs EXCEPT ![s] =
           [r \in DOMAIN regs[s] \cup {i.mr} |-> IF r = i.mr THEN i.length ELSE regs[s][r]]]
  BY DEF Register
<1>4. pc[s][1] \in 1..Len(Script(prog, s)) BY <1>1 DEF Alone, Through
<1>5. s = "server"
  <2>1. s = "client" => C[pc[s][1]].op # "reg_mr" BY <1>2, <1>4 DEF Shape
  <2> QED BY <1>3, <2>1 DEF Sides, Instr
<1>6. Updates(pc, pc', "server", 1, n + 1)
  BY <1>1, <1>3, <1>5, OneEntry DEF SessionInv, SessionTypeOK, Alone
<1>7. pc'["server"][1] = n + 1 /\ pc'["client"] = pc["client"]
  BY <1>6 DEF Updates, Sides
<1>8. unacked["server"] = <<>> BY <1>1, <1>5 DEF Alone
<1>9. Effective("server") = n /\ Effective("server")' = n + 1
      /\ Effective("client")' = Effective("client")
  BY <1>7, <1>8 DEF Effective
<1>10. n \in 1..Len(S) /\ S[n] = i /\ n \in Nat BY <1>1, <1>4, <1>5 DEF Instr, Alone
<1>11. Meets(prog, Effective("client"), n + 1) BY <1>2, <1>3, <1>9, <1>10 DEF Agree
<1>12. regs'["server"] =
         [r \in DOMAIN regs["server"] \cup {i.mr} |->
            IF r = i.mr THEN i.length ELSE regs["server"][r]]
  BY <1>1, <1>3, <1>5 DEF SessionInv, SessionTypeOK
<1> HIDE DEF i, S, C
<1>13. HasMade(n + 1, regs'["server"])
  <2>1. ASSUME NEW k \in 1..n, S[k].op = "reg_mr"
        PROVE  S[k].mr \in DOMAIN regs'["server"] /\ regs'["server"][S[k].mr] = S[k].length
    <3>1. CASE k = n BY <1>10, <1>12, <3>1
    <3>2. CASE k # n
      <4>1. k \in 1..n - 1 /\ k \in 1..Len(S) BY <1>10, <3>2
      <4>2. S[k].mr \in DOMAIN regs["server"] /\ regs["server"][S[k].mr] = S[k].length
        BY <1>1, <1>5, <2>1, <4>1 DEF InStep, HasMade, Running, S
      <4>3. S[k].mr # i.mr BY <1>2, <1>3, <1>10, <2>1, <3>2, <4>1 DEF Shape
      <4> QED BY <1>12, <4>2, <4>3
    <3> QED BY <3>1, <3>2
  <2> DEFINE R == regs'["server"]
  <2>2. \A k \in 1..n : S[k].op = "reg_mr" => S[k].mr \in DOMAIN R /\ R[S[k].mr] = S[k].length
    BY <2>1
  <2>3. S = Script(prog, "server") /\ n \in Nat BY <1>10 DEF S
  <2> HIDE DEF R, n
  <2>4. HasMade(n + 1, R) BY <2>2, <2>3, HasMadeIf
  <2> QED BY <2>4 DEF R, n
<1>14. known'["client"][1] = Described(prog, pc'["client"][1]) BY <1>1, <1>7 DEF InStep
<1> QED BY <1>7, <1>9, <1>11, <1>13, <1>14, InStepNow

(* The acknowledgement tells a side that its request has had its effect.   *)
LEMMA AcknowledgeInStep ==
  ASSUME FitInv, prog # "send_bw_raw", NEW s \in Sides, Acknowledge(s)
  PROVE  InStep'
<1> DEFINE C == Script(prog, "client")
           S == Script(prog, "server")
           P == Peer(s)
<1>1. Alone(s) /\ SessionInv /\ InStep BY AloneFacts DEF FitInv
<1>2. Shape(prog, C, S) BY <1>1, InStepAgree
<1>3. /\ unacked[s] # <<>> /\ unacked' = [unacked EXCEPT ![s] = Tail(unacked[s])]
      /\ pc' = [pc EXCEPT ![s][Head(unacked[s])] = Advance(s, Head(unacked[s]))]
      /\ UNCHANGED <<prog, known, regs, sq, rq, qp, fate>>
  BY DEF Acknowledge
<1>4. /\ Head(unacked[s]) = 1 /\ Tail(unacked[s]) = <<>> /\ ~Through(s, 1)
      /\ Instr(s, 1).op \notin {"recv", "reg_mr"}
  BY <1>1, <1>3 DEF Alone
<1>5. Advance(s, 1) = pc[s][1] + 1 BY <1>1 DEF Advance, Alone
<1>6. Updates(pc, pc', s, 1, pc[s][1] + 1)
  BY <1>1, <1>3, <1>4, <1>5, OneEntry DEF SessionInv, SessionTypeOK, Alone
<1>7. pc'[s][1] = pc[s][1] + 1 /\ \A t \in Sides : t # s => pc'[t] = pc[t]
  BY <1>6 DEF Updates
<1>8. unacked'[s] = <<>> /\ \A t \in Sides : t # s => unacked'[t] = unacked[t]
  BY <1>1, <1>3, <1>4 DEF SessionInv, SessionTypeOK, IsQueue
<1>9. \A t \in Sides : Effective(t)' = Effective(t) BY <1>3, <1>7, <1>8 DEF Effective
<1>10. pc[s][1] \in 1..Len(Script(prog, s)) BY <1>1, <1>4 DEF Alone, Through
<1>11. known'["client"][1] = Described(prog, pc'["client"][1])
  <2>1. CASE s = "client"
    <3>1. Described(prog, pc[s][1] + 1) = Described(prog, pc[s][1])
      BY <1>2, <1>4, <1>10, <2>1 DEF Shape, Instr
    <3> QED BY <1>1, <1>3, <1>7, <2>1, <3>1 DEF InStep
  <2>2. CASE s # "client" BY <1>1, <1>3, <1>7, <2>2 DEF InStep, Sides
  <2> QED BY <2>1, <2>2
<1>12. fate'["server"] # "ended" => HasMade(pc'["server"][1], regs'["server"])
  <2>1. CASE s = "server"
    <3>1. S[pc[s][1]].op # "reg_mr" BY <1>4, <2>1 DEF Instr
    <3> QED BY <1>1, <1>3, <1>7, <1>10, <2>1, <3>1, HasMadeNext DEF InStep
  <2>2. CASE s # "server" BY <1>1, <1>3, <1>7, <2>2 DEF InStep, Sides
  <2> QED BY <2>1, <2>2
<1>13. Meets(prog, Effective("client")', Effective("server")')
  BY <1>1, <1>9 DEF InStep, Sides
<1> QED BY <1>3, <1>11, <1>12, <1>13, InStepNow

(* A side that has something to execute, or to receive, is running.        *)
LEMMA BusyRuns ==
  ASSUME FitInv, prog # "send_bw_raw", NEW s \in Sides, qp[s], ~Through(s, 1)
  PROVE  Running(s)
<1>1. FateInv(s) /\ SideInv(s) /\ Workers(prog, s) = {1}
  BY AloneFacts DEF FitInv, SessionInv, Alone
<1>2. fate[s] \in {"running", "ended", "asserted", "failed"}
  BY DEF FitInv, SessionInv, SessionTypeOK
<1> QED BY <1>1, <1>2 DEF FateInv, SideInv, Running

(* The oldest request of the client when the server executes it: it is     *)
(* granted, and a receive that it consumes expects it.                     *)
LEMMA ClientExecutes ==
  ASSUME FitInv, prog # "send_bw_raw", sq["client"] # <<>>, qp["client"], qp["server"],
         Consuming("client") => rq["server"] # <<>>
  PROVE  /\ Granted("client", 1) /\ Running("client") /\ Running("server")
         /\ Consuming("client") =>
              /\ Meets(prog, pc["client"][1] + 1, pc["server"][1] + 1)
              /\ Delivers(Instr("server", 1), Instr("client", 1))
         /\ ~Consuming("client") => Meets(prog, pc["client"][1] + 1, Effective("server"))
<1> DEFINE C == Script(prog, "client")
           S == Script(prog, "server")
           m == pc["client"][1]
           n == Effective("server")
<1>1. SessionInv /\ InStep /\ "client" \in Sides /\ "server" \in Sides BY DEF FitInv, Sides
<1>2. Alone("client") /\ Alone("server") BY <1>1, AloneFacts
<1>3. /\ Head(sq["client"]) = 1 /\ unacked["client"] = <<>> /\ ~Through("client", 1)
      /\ C[m].op \notin {"recv", "reg_mr"}
  BY <1>2 DEF Alone, Instr
<1>4. Effective("client") = m /\ m \in 1..Len(C) BY <1>2, <1>3 DEF Effective, Alone, Through
<1>5. Agree(prog, C, S, m, n) BY <1>1, <1>4, InStepAgree
<1>6. /\ ToServer(prog, C, S, m, n) /\ Reaches(prog, C, S, m, n) /\ n <= Len(S)
  BY <1>4, <1>5 DEF Agree
<1>7. ~Through("server", 1) BY <1>2, <1>6 DEF Alone, Effective, Through
<1>8. Running("client") /\ Running("server") BY <1>1, <1>3, <1>7, BusyRuns
<1>9. Consuming("client") <=> Consumes(C[m]) BY <1>3 DEF Consuming, Consumes, Instr
<1>10. C[m].op # "send" => Finds(prog, C, S, m, n) BY <1>3, <1>6 DEF Reaches
<1>11. C \in Seq(Instrs) BY <1>1, ScriptType DEF SessionInv, SessionTypeOK
<1>12. C[m].op \in {"send", "read", "write", "atomic", "write_with_imm"}
  <2>1. C[m] \in Instrs BY <1>4, <1>11
  <2> QED BY <1>3, <2>1 DEF Instrs
<1>13. Granted("client", 1)
  <2> SUFFICES ASSUME C[m].op # "send"
               PROVE  /\ C[m].of \in 1..Len(known["client"][1])
                      /\ known["client"][1][C[m].of] \in DOMAIN regs["server"]
                      /\ C[m].length <= regs["server"][known["client"][1][C[m].of]]
    BY DEF Granted, Instr, Peer
  <2>1. known["client"][1] = Described(prog, m) BY <1>1 DEF InStep
  <2>2. PICK k \in 1..n - 1 : /\ S[k].op = "reg_mr" /\ S[k].mr = Described(prog, m)[C[m].of]
                              /\ C[m].length <= S[k].length
    BY <1>10 DEF Finds
  <2>3. k \in 1..pc["server"][1] - 1
    <3>1. CASE unacked["server"] = <<>> BY <2>2, <3>1 DEF Effective
    <3>2. CASE unacked["server"] # <<>>
      <4>1. S[pc["server"][1]].op # "reg_mr" BY <1>2, <3>2 DEF Alone, Instr
      <4>2. n - 1 = pc["server"][1] /\ k # pc["server"][1] /\ pc["server"][1] \in Nat
        BY <1>2, <2>2, <3>2, <4>1 DEF Effective, Alone
      <4> QED BY <2>2, <4>2
    <3> QED BY <3>1, <3>2
  <2>4. HasMade(pc["server"][1], regs["server"]) BY <1>1, <1>8 DEF InStep, Running
  <2>5. S[k].mr \in DOMAIN regs["server"] /\ regs["server"][S[k].mr] = S[k].length
    BY <2>2, <2>3, <2>4 DEF HasMade
  <2> QED BY <1>10, <2>1, <2>2, <2>5 DEF Finds
<1>14. ASSUME Consuming("client")
       PROVE  /\ Meets(prog, m + 1, pc["server"][1] + 1)
              /\ Delivers(Instr("server", 1), Instr("client", 1))
  <2>1. n = pc["server"][1] /\ S[n].op = "recv" /\ n \in 1..Len(S)
    BY <1>2, <1>6, <1>14 DEF Alone, Effective, Instr
  <2> QED BY <1>6, <1>9, <1>14, <2>1 DEF ToServer, Instr
<1>15. ASSUME ~Consuming("client") PROVE Meets(prog, m + 1, n)
  BY <1>6, <1>9, <1>12, <1>15 DEF Reaches, Consumes
<1> QED BY <1>8, <1>13, <1>14, <1>15

(* The server only sends, and the client waits for it.                     *)
LEMMA ServerExecutes ==
  ASSUME FitInv, prog # "send_bw_raw", sq["server"] # <<>>, qp["client"], qp["server"],
         Consuming("server") => rq["client"] # <<>>
  PROVE  LET i == Instr("server", 1)
             j == Instr("client", 1)
             m == pc["client"][1]
         IN  /\ i.op = "send" /\ Consuming("server") /\ Granted("server", 1)
             /\ Running("client") /\ Running("server")
             /\ Meets(prog, m + 1, pc["server"][1] + 1) /\ Delivers(j, i)
             /\ Described(prog, m + 1) =
                  IF j.length = DescrSize THEN Append(known["client"][1], i.mr)
                  ELSE known["client"][1]
<1> DEFINE C == Script(prog, "client")
           S == Script(prog, "server")
           m == pc["client"][1]
           n == pc["server"][1]
<1>1. SessionInv /\ InStep /\ "client" \in Sides /\ "server" \in Sides BY DEF FitInv, Sides
<1>2. Alone("client") /\ Alone("server") BY <1>1, AloneFacts
<1>3. /\ Head(sq["server"]) = 1 /\ unacked["server"] = <<>> /\ ~Through("server", 1)
      /\ S[n].op \notin {"recv", "reg_mr"}
  BY <1>2 DEF Alone, Instr
<1>4. Effective("server") = n /\ n \in 1..Len(S) BY <1>2, <1>3 DEF Effective, Alone, Through
<1>5. S[n].op = "send"
  <2>1. Shape(prog, C, S) BY <1>1, InStepAgree
  <2> QED BY <1>3, <1>4, <2>1 DEF Shape
<1>6. Consuming("server") /\ Consumes(S[n]) BY <1>3, <1>5 DEF Consuming, Consumes, Instr
<1>7. unacked["client"] = <<>> /\ ~Through("client", 1) /\ C[m].op = "recv"
  BY <1>2, <1>6 DEF Alone, Instr
<1>8. Effective("client") = m /\ m \in 1..Len(C) BY <1>2, <1>7 DEF Effective, Alone, Through
<1>9. Agree(prog, C, S, m, n) BY <1>1, <1>4, <1>8, InStepAgree
<1>10. ToClient(prog, C, S, m, n) BY <1>8, <1>9 DEF Agree
<1>11. Running("client") /\ Running("server") BY <1>1, <1>3, <1>7, BusyRuns
<1>12. Granted("server", 1) BY <1>5 DEF Granted, Instr
<1>13. known["client"][1] = Described(prog, m) BY <1>1 DEF InStep
<1>14. /\ Meets(prog, m + 1, n + 1) /\ Delivers(C[m], S[n])
       /\ Described(prog, m + 1) =
            IF S[n].op = "send" /\ C[m].length = DescrSize
            THEN Append(Described(prog, m), S[n].mr) ELSE Described(prog, m)
  BY <1>4, <1>6, <1>7, <1>10 DEF ToClient
<1> QED BY <1>5, <1>6, <1>11, <1>12, <1>13, <1>14 DEF Instr

(* So nothing is refused and no check fails: the request of s takes effect *)
(* and, if it consumes a receive, the other side goes on.                  *)
LEMMA ExecuteEffect ==
  ASSUME FitInv, prog # "send_bw_raw", NEW s \in Sides, Execute(s)
  PROVE  LET P == Peer(s)
             i == Instr(s, 1)
             j == Instr(P, 1)
         IN  /\ Running(s) /\ Running(P) /\ UNCHANGED <<prog, regs, qp, fate>>
             /\ unacked[s] = <<>> /\ unacked'[s] # <<>> /\ unacked'[P] = unacked[P]
             /\ pc'[s] = pc[s]
             /\ Consuming(s) =>
                  /\ unacked[P] = <<>> /\ pc'[P][1] = pc[P][1] + 1 /\ j.op = "recv"
                  /\ known' = IF i.op = "send" /\ j.length = DescrSize
                              THEN [known EXCEPT ![P][1] = Append(known[P][1], i.mr)]
                              ELSE known
             /\ ~Consuming(s) => UNCHANGED <<pc, known>>
             /\ sq'[P] = sq[P]
<1> DEFINE P == Peer(s)
           i == Instr(s, 1)
           j == Instr(P, 1)
<1>1. SessionInv /\ P \in Sides /\ P # s BY PeerFacts DEF FitInv
<1>2. Alone(s) /\ Alone(P) BY <1>1, AloneFacts
<1>3. /\ sq[s] # <<>> /\ qp[s] /\ qp[P] /\ (Consuming(s) => rq[P] # <<>>)
      /\ sq' = [sq EXCEPT ![s] = Tail(sq[s])] /\ UNCHANGED <<prog, regs>>
  BY DEF Execute
<1>4. /\ Head(sq[s]) = 1 /\ unacked[s] = <<>>
      /\ Consuming(s) => Head(rq[P]) = 1 /\ unacked[P] = <<>> /\ j.op = "recv"
  BY <1>2, <1>3 DEF Alone
<1>5. Granted(s, 1) /\ Running(s) /\ Running(P) /\ (Consuming(s) => Delivers(j, i))
  <2>1. CASE s = "client" BY <1>3, <2>1, ClientExecutes DEF Peer
  <2>2. CASE s = "server" BY <1>3, <2>2, ServerExecutes DEF Peer
  <2> QED BY <2>1, <2>2 DEF Sides
<1>6. Consuming(s) => Accepts(j, i) /\ (i.op = "send" => i.length <= j.length)
  BY <1>5 DEF Delivers
<1>7. unacked' = [unacked EXCEPT ![s] = Append(unacked[s], 1)] /\ UNCHANGED qp
  BY <1>4, <1>5, <1>6 DEF Execute
<1>8. ASSUME Consuming(s)
      PROVE  /\ pc' = [pc EXCEPT ![P][1] = Advance(P, 1)]
             /\ known' = IF i.op = "send" /\ j.length = DescrSize
                         THEN [known EXCEPT ![P][1] = Append(known[P][1], i.mr)]
                         ELSE known
             /\ fate' = fate
  BY <1>4, <1>5, <1>6, <1>8 DEF Execute
<1>9. ~Consuming(s) => UNCHANGED <<pc, known, fate>> BY <1>4, <1>5, <1>6 DEF Execute
<1>10. unacked'[s] # <<>> /\ unacked'[P] = unacked[P] /\ sq'[P] = sq[P]
  <2>1. Append(<<>>, 1) # <<>> OBVIOUS
  <2> QED BY <1>1, <1>3, <1>4, <1>7, <2>1 DEF SessionInv, SessionTypeOK, IsQueue
<1>11. ASSUME Consuming(s) PROVE pc'[P][1] = pc[P][1] + 1 /\ pc'[s] = pc[s]
  <2>1. Advance(P, 1) = pc[P][1] + 1 BY <1>2 DEF Advance, Alone
  <2>2. pc' = [pc EXCEPT ![P][1] = pc[P][1] + 1] BY <1>8, <1>11, <2>1
  <2>3. PerCoroutine(pc) /\ 1 \in Workers(prog, P)
    BY <1>1, <1>2 DEF SessionInv, SessionTypeOK, Alone
  <2> HIDE DEF P
  <2>4. Updates(pc, pc', P, 1, pc[P][1] + 1) BY <1>1, <2>2, <2>3, OneEntry
  <2> QED BY <1>1, <2>4 DEF Updates
<1> QED BY <1>3, <1>4, <1>5, <1>7, <1>8, <1>9, <1>10, <1>11

(* Executing a request keeps the two sides in step.                        *)
LEMMA ExecuteInStep ==
  ASSUME FitInv, prog # "send_bw_raw", NEW s \in Sides, Execute(s)
  PROVE  InStep'
<1> DEFINE m == pc["client"][1]
           n == pc["server"][1]
<1>1. SessionInv /\ InStep /\ "client" \in Sides /\ "server" \in Sides BY DEF FitInv, Sides
<1>2. /\ sq[s] # <<>> /\ qp[s] /\ qp[Peer(s)] /\ (Consuming(s) => rq[Peer(s)] # <<>>)
  BY DEF Execute
<1>3. Alone("client") /\ Alone("server") BY <1>1, AloneFacts
<1>4. CASE s = "client"
  <2>1. /\ prog' = prog /\ regs' = regs /\ fate' = fate
        /\ unacked["client"] = <<>> /\ unacked'["client"] # <<>>
        /\ unacked'["server"] = unacked["server"] /\ pc'["client"] = pc["client"]
        /\ ~Consuming("client") => UNCHANGED <<pc, known>>
    BY <1>4, ExecuteEffect DEF Peer
  <2>2. ASSUME Consuming("client")
        PROVE  /\ unacked["server"] = <<>> /\ pc'["server"][1] = n + 1
               /\ Instr("server", 1).op = "recv" /\ known'["client"] = known["client"]
    <3>1. /\ unacked["server"] = <<>> /\ pc'["server"][1] = n + 1
          /\ Instr("server", 1).op = "recv"
          /\ known' = known \/ \E x : known' = [known EXCEPT !["server"][1] = x]
      BY <1>4, <2>2, ExecuteEffect DEF Peer
    <3>2. known'["client"] = known["client"]
      <4>1. ASSUME NEW x, known' = [known EXCEPT !["server"][1] = x]
            PROVE  known'["client"] = known["client"]
        <5>1. Updates(known, known', "server", 1, x)
          BY <1>1, <1>3, <4>1, OneEntry DEF SessionInv, SessionTypeOK, Alone
        <5> QED BY <1>1, <5>1 DEF Updates
      <4> QED BY <3>1, <4>1
    <3> QED BY <3>1, <3>2
  <2>3. /\ Consuming("client") => Meets(prog, m + 1, n + 1)
        /\ ~Consuming("client") => Meets(prog, m + 1, Effective("server"))
    BY <1>2, <1>4, ClientExecutes DEF Peer
  <2>4. Meets(prog, Effective("client")', Effective("server")')
    <3>1. Effective("client")' = m + 1 BY <2>1 DEF Effective
    <3>2. CASE Consuming("client")
      <4>1. Effective("server")' = n + 1 BY <2>1, <2>2, <3>2 DEF Effective
      <4> QED BY <2>3, <3>1, <3>2, <4>1
    <3>3. CASE ~Consuming("client")
      <4>1. Effective("server")' = Effective("server") BY <2>1, <3>3 DEF Effective
      <4> QED BY <2>3, <3>1, <3>3, <4>1
    <3> QED BY <3>2, <3>3
  <2>5. known'["client"][1] = Described(prog, pc'["client"][1])
    BY <1>1, <2>1, <2>2 DEF InStep
  <2>6. fate'["server"] # "ended" => HasMade(pc'["server"][1], regs'["server"])
    <3>1. CASE Consuming("client")
      <4>1. Script(prog, "server")[n].op # "reg_mr" /\ n \in Nat
        BY <1>3, <2>2, <3>1 DEF Instr, Alone
      <4> QED BY <1>1, <2>1, <2>2, <3>1, <4>1, HasMadeNext DEF InStep
    <3>2. CASE ~Consuming("client") BY <1>1, <2>1, <3>2 DEF InStep
    <3> QED BY <3>1, <3>2
  <2> QED BY <2>1, <2>4, <2>5, <2>6, InStepNow
<1>5. CASE s = "server"
  <2> DEFINE i == Instr("server", 1)
             j == Instr("client", 1)
  <2>1. /\ i.op = "send" /\ Consuming("server") /\ Meets(prog, m + 1, n + 1)
        /\ Described(prog, m + 1) =
             IF j.length = DescrSize THEN Append(known["client"][1], i.mr)
             ELSE known["client"][1]
    BY <1>2, <1>5, ServerExecutes DEF Peer
  <2>2. /\ prog' = prog /\ regs' = regs /\ fate' = fate
        /\ unacked'["server"] # <<>> /\ unacked["client"] = <<>>
        /\ unacked'["client"] = unacked["client"]
        /\ pc'["server"] = pc["server"] /\ pc'["client"][1] = m + 1
        /\ known' = IF j.length = DescrSize
                    THEN [known EXCEPT !["client"][1] = Append(known["client"][1], i.mr)]
                    ELSE known
    BY <1>5, <2>1, ExecuteEffect DEF Peer
  <2> HIDE DEF i, j
  <2>3. known'["client"][1] = Described(prog, m + 1)
    <3>1. CASE j.length = DescrSize
      <4>1. Updates(known, known', "client", 1, Append(known["client"][1], i.mr))
        BY <1>1, <1>3, <2>2, <3>1, OneEntry DEF SessionInv, SessionTypeOK, Alone
      <4> QED BY <2>1, <3>1, <4>1 DEF Updates
    <3>2. CASE j.length # DescrSize BY <2>1, <2>2, <3>2
    <3> QED BY <3>1, <3>2
  <2>4. Effective("client")' = m + 1 /\ Effective("server")' = n + 1 BY <2>2 DEF Effective
  <2>5. fate'["server"] # "ended" => HasMade(pc'["server"][1], regs'["server"])
    BY <1>1, <2>2 DEF InStep
  <2> QED BY <2>1, <2>2, <2>3, <2>4, <2>5, InStepNow
<1> QED BY <1>4, <1>5 DEF Sides

(* Who finds the other QP gone has been left with the acknowledgement of   *)
(* its last request: the other side has run its whole script.              *)
LEMMA FailLate ==
  ASSUME FitInv, prog # "send_bw_raw", NEW s \in Sides, Fail(s)
  PROVE  /\ fate[Peer(s)] = "ended" /\ sq[s] = <<>>
         /\ unacked[s] # <<>> /\ pc[s][1] = Len(Script(prog, s))
<1> DEFINE P == Peer(s)
           C == Script(prog, "client")
           S == Script(prog, "server")
<1>1. SessionInv /\ InStep /\ P \in Sides /\ P # s /\ Peer(P) = s
  BY PeerFacts DEF FitInv, Sides, Peer
<1>2. Alone(s) /\ Alone(P) BY <1>1, AloneFacts
<1>3. FateInv(s) /\ FateInv(P) BY <1>1 DEF FitInv
<1>4. fate[s] = "running" /\ ~qp[P] /\ (unacked[s] # <<>> \/ sq[s] # <<>>)
  BY <1>3 DEF Fail, Running, FateInv
<1>5. fate[P] = "ended" BY <1>1, <1>3, <1>4 DEF FateInv
<1>6. Through(P, 1) BY <1>2, <1>3, <1>5 DEF FateInv, Alone
<1>7. Effective(P) > Len(Script(prog, P)) BY <1>2, <1>6 DEF Alone, Effective, Through
<1>8. pc[s][1] \in 1..Len(Script(prog, s)) /\ Script(prog, s)[pc[s][1]].op # "recv"
  BY <1>2, <1>4 DEF Alone, Through, Instr
<1>9. Agree(prog, C, S, Effective("client"), Effective("server")) BY <1>1, InStepAgree
<1>10. Effective(s) > Len(Script(prog, s))
  <2>1. CASE s = "client"
    <3>1. P = "server" BY <2>1 DEF Peer
    <3>2. Effective("client") \notin 1..Len(C) BY <1>2, <1>7, <1>9, <3>1 DEF Agree, Alone
    <3> QED BY <1>2, <2>1, <3>2 DEF Alone
  <2>2. CASE s = "server"
    <3>1. P = "client" BY <2>2 DEF Peer
    <3> QED BY <1>7, <1>8, <1>9, <2>2, <3>1 DEF Agree
  <2> QED BY <2>1, <2>2 DEF Sides
<1>11. unacked[s] # <<>> /\ pc[s][1] = Len(Script(prog, s))
  BY <1>2, <1>8, <1>10 DEF Effective, Alone
<1> QED BY <1>2, <1>5, <1>11 DEF Alone

(* The step keeps the two sides together.                                  *)
LEMMA SingleStep ==
  ASSUME FitInv, prog # "send_bw_raw", NEW s \in Sides, SideStep(s) \/ DropQp(s)
  PROVE  prog' = prog /\ InStep' /\ \A t \in Sides : FateInv(t)'
<1>1. SessionInv /\ InStep /\ \A t \in Sides : FateInv(t) BY DEF FitInv
<1>2. Alone(s) /\ Workers(prog, s) = {1} BY <1>1, AloneFacts DEF Alone
<1>3. fate \in [Sides -> {"running", "ended", "asserted", "failed"}] /\ qp \in [Sides -> BOOLEAN]
  BY <1>1 DEF SessionInv, SessionTypeOK
<1>4. Running(s) => fate[Peer(s)] # "failed"
  <2>1. FateInv(Peer(s)) /\ Peer(Peer(s)) = s BY <1>1, PeerFacts DEF Sides, Peer
  <2> QED BY <2>1 DEF FateInv, Running
<1>5. ASSUME NEW w \in Workers(prog, s), Run(s, w)
      PROVE  prog' = prog /\ InStep' /\ \A t \in Sides : FateInv(t)'
  <2>1. /\ w = 1 /\ Running(s) /\ ~waits[s][1] /\ ~Through(s, 1)
        /\ Register(s, 1) \/ Post(s, 1)
    BY <1>2, <1>5 DEF Run
  <2>2. UNCHANGED <<prog, known, unacked, qp, fate>> BY <1>5 DEF Run
  <2>3. InStep'
    <3>1. CASE Register(s, 1) BY <2>1, <2>2, <3>1, RegisterInStep
    <3>2. CASE Post(s, 1) BY <1>1, <2>2, <3>2, InStepKept DEF Post
    <3> QED BY <2>1, <3>1, <3>2
  <2>4. \A t \in Sides : t # s => pc'[t] = pc[t] /\ sq'[t] = sq[t]
    <3>1. CASE Register(s, 1)
      <4>1. sq' = sq /\ pc' = [pc EXCEPT ![s][1] = pc[s][1] + 1] BY <3>1 DEF Register
      <4>2. Updates(pc, pc', s, 1, pc[s][1] + 1)
        BY <1>1, <1>2, <4>1, OneEntry DEF SessionInv, SessionTypeOK
      <4> QED BY <4>1, <4>2 DEF Updates
    <3>2. CASE Post(s, 1)
      <4>1. pc' = pc /\ (sq' = sq \/ sq' = [sq EXCEPT ![s] = Append(sq[s], 1)])
        BY <3>2 DEF Post
      <4> QED BY <1>1, <4>1 DEF SessionInv, SessionTypeOK, IsQueue
    <3> QED BY <2>1, <3>1, <3>2
  <2> QED BY <1>1, <2>1, <2>2, <2>3, <2>4, FatesKept DEF Running
<1>6. ASSUME End(s) PROVE prog' = prog /\ InStep' /\ \A t \in Sides : FateInv(t)'
  <2>1. /\ Running(s) /\ \A w \in Workers(prog, s) : Through(s, w)
        /\ fate' = [fate EXCEPT ![s] = "ended"] /\ regs' = [regs EXCEPT ![s] = <<>>]
        /\ UNCHANGED <<prog, pc, waits, known, sq, unacked, rq, qp>>
    BY <1>6 DEF End
  <2>2. fate'[s] = "ended" /\ \A t \in Sides : t # s => fate'[t] = fate[t] BY <1>3, <2>1
  <2>3. \A t \in Sides : t # s => regs'[t] = regs[t]
    BY <1>1, <2>1 DEF SessionInv, SessionTypeOK
  <2>4. InStep'
    <3>1. /\ regs'["server"] = regs["server"] \/ fate'["server"] = "ended"
          /\ fate["server"] = "ended" => fate'["server"] = "ended"
      BY <2>2, <2>3 DEF Sides
    <3> QED BY <1>1, <2>1, <3>1, InStepKept
  <2>5. ASSUME NEW t \in Sides PROVE FateInv(t)'
    <3>1. FateInv(t) BY <1>1
    <3>2. CASE t = s BY <2>1, <2>2, <3>1, <3>2 DEF FateInv, Through
    <3>3. CASE t # s
      <4>1. t = Peer(s) /\ fate[t] # "failed" BY <1>4, <2>1, <3>3, PeerFacts
      <4> QED BY <2>1, <2>2, <3>1, <3>3, <4>1 DEF FateInv, Through
    <3> QED BY <3>2, <3>3
  <2> QED BY <2>1, <2>4, <2>5
<1>7. ASSUME DropQp(s) PROVE prog' = prog /\ InStep' /\ \A t \in Sides : FateInv(t)'
  <2>1. /\ fate[s] = "ended" /\ qp' = [qp EXCEPT ![s] = FALSE]
        /\ UNCHANGED <<prog, pc, waits, known, regs, sq, unacked, rq, fate>>
    BY <1>7 DEF DropQp
  <2>2. InStep' BY <1>1, <2>1, InStepKept
  <2>3. ASSUME NEW t \in Sides PROVE FateInv(t)'
    <3>1. FateInv(t) BY <1>1
    <3>2. t # s => qp'[t] = qp[t] BY <1>3, <2>1
    <3> QED BY <2>1, <3>1, <3>2 DEF FateInv, Through
  <2> QED BY <2>1, <2>2, <2>3
<1>8. ASSUME Execute(s) PROVE prog' = prog /\ InStep' /\ \A t \in Sides : FateInv(t)'
  <2>1. Running(s) /\ Running(Peer(s)) /\ UNCHANGED <<prog, qp, fate>>
    BY <1>8, ExecuteEffect
  <2>2. \A t \in Sides : fate[t] = "running" BY <2>1, PeerFacts DEF Running
  <2>3. InStep' BY <1>8, ExecuteInStep
  <2> QED BY <1>1, <2>1, <2>2, <2>3, FatesKept
<1>9. ASSUME Acknowledge(s) PROVE prog' = prog /\ InStep' /\ \A t \in Sides : FateInv(t)'
  <2>1. /\ unacked[s] # <<>> /\ Running(s)
        /\ pc' = [pc EXCEPT ![s][Head(unacked[s])] = Advance(s, Head(unacked[s]))]
        /\ UNCHANGED <<prog, known, regs, sq, rq, qp, fate>>
    BY <1>9 DEF Acknowledge
  <2>2. Head(unacked[s]) = 1 BY <1>2, <2>1 DEF Alone
  <2>3. Updates(pc, pc', s, 1, Advance(s, 1))
    BY <1>1, <1>2, <2>1, <2>2, OneEntry DEF SessionInv, SessionTypeOK
  <2>4. /\ \A t \in Sides : fate[t] # "running" => pc'[t] = pc[t]
        /\ \A t \in Sides : fate[t] = "failed" => unacked'[t] = unacked[t]
    BY <1>4, <2>1, <2>3, PeerFacts DEF Updates, Running
  <2>5. InStep' BY <1>9, AcknowledgeInStep
  <2> QED BY <1>1, <2>1, <2>4, <2>5, FatesKept
<1>10. ASSUME Fail(s) PROVE prog' = prog /\ InStep' /\ \A t \in Sides : FateInv(t)'
  <2>1. /\ Running(s) /\ fate' = [fate EXCEPT ![s] = "failed"] /\ qp' = [qp EXCEPT ![s] = FALSE]
        /\ UNCHANGED <<prog, pc, waits, known, regs, sq, unacked, rq>>
    BY <1>10 DEF Fail
  <2>2. /\ fate'[s] = "failed" /\ ~qp'[s]
        /\ \A t \in Sides : t # s => fate'[t] = fate[t] /\ qp'[t] = qp[t]
    BY <1>3, <2>1
  <2>3. InStep'
    <3>1. fate["server"] = "ended" => fate'["server"] = "ended"
      BY <2>1, <2>2 DEF Running, Sides
    <3> QED BY <1>1, <2>1, <3>1, InStepKept
  <2>4. /\ fate[Peer(s)] = "ended" /\ sq[s] = <<>> /\ unacked[s] # <<>>
        /\ pc[s][1] = Len(Script(prog, s))
    BY <1>10, FailLate
  <2>5. ASSUME NEW t \in Sides PROVE FateInv(t)'
    <3>1. FateInv(t) BY <1>1
    <3>2. CASE t = s
      <4>1. fate'[Peer(s)] = "ended" BY <2>2, <2>4, PeerFacts
      <4> QED BY <2>1, <2>2, <2>4, <3>2, <4>1 DEF FateInv
    <3>3. CASE t # s
      <4>1. t = Peer(s) BY <3>3, PeerFacts
      <4> QED BY <2>1, <2>2, <2>4, <3>1, <3>3, <4>1 DEF FateInv, Through
    <3> QED BY <3>2, <3>3
  <2> QED BY <2>1, <2>3, <2>5
<1> QED BY <1>5, <1>6, <1>7, <1>8, <1>9, <1>10 DEF SideStep

-----------------------------------------------------------------------------
(* send_bw_raw, with any number of senders and receivers.                  *)

(* Senders only send, receivers only receive.                              *)
LEMMA RawScripts ==
  /\ Len(Script("send_bw_raw", "client")) = Count
  /\ \A n \in 1..Count : Script("send_bw_raw", "client")[n] = Send(MsgSize)
  /\ Len(Script("send_bw_raw", "server")) = 1
  /\ Script("send_bw_raw", "server")[1] = Recv(MsgSize)
  /\ Send(MsgSize).op = "send" /\ Recv(MsgSize).op = "recv"
  /\ Delivers(Recv(MsgSize), Send(MsgSize))
<1>1. Send(MsgSize) \in Instrs BY SizeFacts, InstrFacts
<1>2. /\ Len(SendWorker) = Count /\ \A n \in 1..Count : SendWorker[n] = Send(MsgSize)
  BY <1>1, TimesFacts DEF SendWorker
<1>3. Len(ServerWorker) = 1 /\ ServerWorker[1] = Recv(MsgSize) BY DEF ServerWorker
<1>4. /\ Send(MsgSize).op = "send" /\ Recv(MsgSize).op = "recv"
      /\ Delivers(Recv(MsgSize), Send(MsgSize))
  BY SizeFacts DEF Send, Recv, RecvImm, Delivers, Accepts
<1> QED BY <1>2, <1>3, <1>4, ScriptOf, Zenon

(* So a coroutine that waits is a sender in the send queue or among those  *)
(* not acknowledged, or a receiver in the receive queue.                   *)
LEMMA RawFacts ==
  ASSUME FitInv, prog = "send_bw_raw"
  PROVE  /\ SessionInv /\ FateInv("client") /\ FateInv("server") /\ StaysAtRecv
         /\ sq["server"] = <<>> /\ unacked["server"] = <<>>
         /\ fate["client"] # "failed" /\ fate["client"] # "asserted"
         /\ \A w \in Workers(prog, "client") :
              ~Through("client", w) => Instr("client", w) = Send(MsgSize)
         /\ \A v \in Workers(prog, "server") :
              ~Through("server", v) /\ Instr("server", v) = Recv(MsgSize)
         /\ Workers(prog, "server") # {}
<1>1. SessionInv /\ FateInv("client") /\ FateInv("server") /\ StaysAtRecv
  BY DEF FitInv, Sides
<1>2. ASSUME NEW v \in Workers(prog, "server")
      PROVE  ~Through("server", v) /\ Instr("server", v) = Recv(MsgSize)
  BY <1>1, RawScripts DEF StaysAtRecv, Through, Instr
<1>3. ASSUME NEW w \in Workers(prog, "client"), ~Through("client", w)
      PROVE  Instr("client", w) = Send(MsgSize)
  <2>1. pc["client"][w] \in 1..Count
    BY <1>1, <1>3, RawScripts, SessionAssumption DEF SessionInv, SessionTypeOK, Through, Sides
  <2> QED BY <2>1, RawScripts DEF Instr
<1>4. ASSUME NEW q, q \in {sq["server"], unacked["server"]} PROVE q = <<>>
  <2> SUFFICES ASSUME q # <<>> PROVE FALSE OBVIOUS
  <2>1. q \in Seq(Workers(prog, "server"))
    BY <1>1, <1>4 DEF SessionInv, SessionTypeOK, IsQueue, Sides
  <2>2. Head(q) \in Workers(prog, "server") /\ IsIn(q, Head(q)) BY <2>1, TailOnce
  <2>3. AwaitsOne("server", Head(q)) BY <1>1, <2>2 DEF SessionInv, SideInv, Sides
  <2>4. Instr("server", Head(q)).op # "recv" BY <1>4, <2>2, <2>3 DEF AwaitsOne
  <2> QED BY <1>2, <2>2, <2>4, RawScripts
<1>5. Workers(prog, "server") # {}
  <2>1. Workers(prog, "server") = Receivers BY DEF Workers
  <2>2. 1 \in Receivers BY SessionAssumption DEF Receivers
  <2> QED BY <2>1, <2>2
<1>6. fate["client"] # "failed" /\ fate["client"] # "asserted" BY <1>1 DEF FateInv
<1> QED BY <1>1, <1>2, <1>3, <1>4, <1>5, <1>6

(* No step of send_bw_raw moves a receiver or fails.                       *)
LEMMA RawStep ==
  ASSUME FitInv, prog = "send_bw_raw", NEW s \in Sides, SideStep(s) \/ DropQp(s)
  PROVE  prog' = prog /\ StaysAtRecv' /\ \A t \in Sides : FateInv(t)'
<1>1. /\ SessionInv /\ FateInv("client") /\ FateInv("server") /\ StaysAtRecv
      /\ sq["server"] = <<>> /\ unacked["server"] = <<>>
      /\ fate["client"] # "failed" /\ fate["client"] # "asserted"
      /\ \A w \in Workers(prog, "client") :
           ~Through("client", w) => Instr("client", w) = Send(MsgSize)
      /\ \A v \in Workers(prog, "server") :
           ~Through("server", v) /\ Instr("server", v) = Recv(MsgSize)
      /\ Workers(prog, "server") # {}
  BY RawFacts
<1>2. /\ fate \in [Sides -> {"running", "ended", "asserted", "failed"}] /\ qp \in [Sides -> BOOLEAN]
      /\ qp["server"] /\ fate["server"] = "running"
      /\ \A v \in Workers(prog, "server") : pc["server"][v] = 1
  BY <1>1 DEF SessionInv, SessionTypeOK, StaysAtRecv
<1>3. \A t \in Sides : FateInv(t) /\ t \in {"client", "server"} BY <1>1 DEF Sides
<1>4. ASSUME UNCHANGED <<prog, qp, fate>>, \A v \in Workers(prog, "server") : pc'["server"][v] = 1,
             fate["client"] # "running" => pc'["client"] = pc["client"]
      PROVE  prog' = prog /\ StaysAtRecv' /\ \A t \in Sides : FateInv(t)'
  <2>1. StaysAtRecv' BY <1>2, <1>4 DEF StaysAtRecv
  <2>2. \A t \in Sides : fate[t] # "failed" /\ (fate[t] # "running" => pc'[t] = pc[t])
    BY <1>1, <1>2, <1>3, <1>4
  <2> QED BY <1>3, <1>4, <2>1, <2>2, FatesKept
<1>5. ASSUME NEW w \in Workers(prog, s), Run(s, w)
      PROVE  prog' = prog /\ StaysAtRecv' /\ \A t \in Sides : FateInv(t)'
  <2>1. Running(s) /\ ~Through(s, w) /\ UNCHANGED <<prog, qp, fate>> BY <1>5 DEF Run
  <2>2. Instr(s, w).op # "reg_mr" BY <1>1, <1>3, <2>1, RawScripts
  <2>3. pc' = pc BY <1>5, <2>2 DEF Run, Register, Post
  <2> QED BY <1>2, <1>4, <2>1, <2>3
<1>6. ASSUME End(s) PROVE prog' = prog /\ StaysAtRecv' /\ \A t \in Sides : FateInv(t)'
  <2>1. /\ Running(s) /\ \A w \in Workers(prog, s) : Through(s, w)
        /\ fate' = [fate EXCEPT ![s] = "ended"]
        /\ UNCHANGED <<prog, pc, sq, qp>>
    BY <1>6 DEF End
  <2>2. s = "client" BY <1>1, <1>3, <2>1
  <2>3. fate'["client"] = "ended" /\ fate'["server"] = "running" BY <1>2, <2>1, <2>2 DEF Sides
  <2>4. StaysAtRecv' BY <1>2, <2>1, <2>3 DEF StaysAtRecv
  <2>5. FateInv("client")' BY <1>1, <2>1, <2>2, <2>3 DEF FateInv, Through
  <2>6. FateInv("server")' BY <1>1, <1>2, <2>1, <2>3 DEF FateInv
  <2> QED BY <2>1, <2>4, <2>5, <2>6 DEF Sides
<1>7. ASSUME DropQp(s) PROVE prog' = prog /\ StaysAtRecv' /\ \A t \in Sides : FateInv(t)'
  <2>1. /\ fate[s] = "ended" /\ qp' = [qp EXCEPT ![s] = FALSE]
        /\ UNCHANGED <<prog, pc, sq, fate>>
    BY <1>7 DEF DropQp
  <2>2. s = "client" BY <1>2, <1>3, <2>1
  <2>3. qp'["server"] = qp["server"] BY <1>2, <2>1, <2>2 DEF Sides
  <2>4. StaysAtRecv' BY <1>2, <2>1, <2>3 DEF StaysAtRecv
  <2>5. FateInv("client")' BY <1>1, <2>1, <2>2 DEF FateInv, Through
  <2>6. FateInv("server")' BY <1>2, <2>1, <2>3 DEF FateInv
  <2> QED BY <2>1, <2>4, <2>5, <2>6 DEF Sides
<1>8. ASSUME Execute(s) PROVE prog' = prog /\ StaysAtRecv' /\ \A t \in Sides : FateInv(t)'
  <2> DEFINE w == Head(sq["client"])
             v == Head(rq["server"])
  <2>1. s = "client" BY <1>1, <1>3, <1>8 DEF Execute
  <2>2. /\ sq["client"] # <<>> /\ (Consuming("client") => rq["server"] # <<>>)
        /\ UNCHANGED <<prog, regs>> /\ sq' = [sq EXCEPT !["client"] = Tail(sq["client"])]
    BY <1>8, <2>1 DEF Execute, Peer
  <2>3. w \in Workers(prog, "client") /\ waits["client"][w]
    BY <1>1, <2>2, HeadOfSq DEF Sides
  <2>4. ~Through("client", w) BY <1>1, <2>3 DEF SessionInv, SideInv, AwaitsOne, Sides
  <2>5. Instr("client", w) = Send(MsgSize) BY <1>1, <2>3, <2>4
  <2>6. Consuming("client") /\ Granted("client", w)
    BY <2>5, RawScripts DEF Consuming, Granted
  <2>7. v \in Workers(prog, "server")
    <3>1. rq["server"] \in Seq(Workers(prog, "server"))
      BY <1>1 DEF SessionInv, SessionTypeOK, IsQueue, Sides
    <3> QED BY <2>2, <2>6, <3>1, TailOnce
  <2>8. Instr("server", v) = Recv(MsgSize) /\ Advance("server", v) = 1
    BY <1>1, <1>2, <2>7, RawScripts DEF Advance, Repeats
  <2>9. /\ Accepts(Instr("server", v), Instr("client", w))
        /\ Instr("client", w).length <= Instr("server", v).length
    BY <2>5, <2>8, RawScripts DEF Delivers
  <2>10. fate' = fate /\ qp' = qp /\ pc' = [pc EXCEPT !["server"][v] = Advance("server", v)]
    BY <1>8, <2>1, <2>6, <2>9 DEF Execute, Peer
  <2> HIDE DEF w, v
  <2>11. Updates(pc, pc', "server", v, 1)
    BY <1>1, <2>7, <2>8, <2>10, OneEntry DEF SessionInv, SessionTypeOK, Sides
  <2>12. \A u \in Workers(prog, "server") : pc'["server"][u] = 1
    BY <1>2, <2>7, <2>11 DEF Updates, Sides
  <2>13. fate["client"] = "running"
    <3>1. fate["client"] # "ended" BY <1>1, <2>3, <2>4 DEF FateInv
    <3> QED BY <1>1, <1>2, <3>1 DEF Sides
  <2> QED BY <1>4, <2>2, <2>10, <2>12, <2>13
<1>9. ASSUME Acknowledge(s) PROVE prog' = prog /\ StaysAtRecv' /\ \A t \in Sides : FateInv(t)'
  <2> DEFINE w == Head(unacked["client"])
  <2>1. s = "client" BY <1>1, <1>3, <1>9 DEF Acknowledge
  <2>2. /\ unacked["client"] # <<>> /\ fate["client"] = "running"
        /\ pc' = [pc EXCEPT !["client"][w] = Advance("client", w)]
        /\ UNCHANGED <<prog, sq, qp, fate>>
    BY <1>9, <2>1 DEF Acknowledge, Running
  <2>3. w \in Workers(prog, "client")
    <3>1. unacked["client"] \in Seq(Workers(prog, "client"))
      BY <1>1 DEF SessionInv, SessionTypeOK, IsQueue, Sides
    <3> QED BY <2>2, <3>1, TailOnce
  <2> HIDE DEF w
  <2>4. Updates(pc, pc', "client", w, Advance("client", w))
    BY <1>1, <2>2, <2>3, OneEntry DEF SessionInv, SessionTypeOK, Sides
  <2>5. pc'["server"] = pc["server"] BY <2>4 DEF Updates, Sides
  <2> QED BY <1>2, <1>4, <2>2, <2>5
<1>10. ~Fail(s)
  <2>1. s = "server" => ~Fail(s) BY <1>1, <1>2 DEF Fail, Peer
  <2>2. s = "client" => ~Fail(s) BY <1>1, <1>2 DEF Fail, Peer, FateInv, Running
  <2> QED BY <1>3, <2>1, <2>2
<1> QED BY <1>5, <1>6, <1>7, <1>8, <1>9, <1>10 DEF SideStep

-----------------------------------------------------------------------------
(* All steps of a conversation.                                            *)

(* Every step leaves a coroutine in one queue at most.                     *)
LEMMA SessionInvStep ==
  ASSUME SessionInv, NEW s \in Sides, SideStep(s) \/ DropQp(s)
  PROVE  SessionInv'
<1>1. ASSUME NEW w \in Workers(prog, s), Run(s, w) PROVE SessionInv'
  BY <1>1, RegisterInv, PostInv DEF Run
<1> QED BY <1>1, EndInv, ExecuteInv, AcknowledgeInv DEF SideStep

(* Both sides start in step.                                               *)
LEMMA FitInvInit == SessionInit => FitInv
<1> SUFFICES ASSUME SessionInit PROVE FitInv OBVIOUS
<1>1. SessionInv BY SessionInitInv
<1>2. ASSUME NEW s \in Sides PROVE FateInv(s)
  BY DEF SessionInit, FateInv
<1>3. ASSUME prog = "send_bw_raw" PROVE StaysAtRecv BY DEF SessionInit, StaysAtRecv, Sides
<1>4. ASSUME prog # "send_bw_raw" PROVE InStep
  <2>1. Alone("client") /\ Alone("server") BY <1>1, <1>4, AloneFacts DEF Sides
  <2>2. /\ pc["client"][1] = 1 /\ pc["server"][1] = 1 /\ known["client"][1] = <<>>
        /\ unacked["client"] = <<>> /\ unacked["server"] = <<>>
    BY <2>1 DEF SessionInit, Sides, Alone
  <2>3. Shape(prog, Script(prog, "client"), Script(prog, "server"))
    BY <1>4, ScriptsFit DEF Fits, SessionInit
  <2>4. Meets(prog, 1, 1) /\ Described(prog, 1) = <<>> BY <2>3 DEF Shape
  <2>5. HasMade(1, regs["server"]) BY DEF HasMade
  <2> QED BY <2>2, <2>4, <2>5 DEF InStep, Effective
<1> QED BY <1>1, <1>2, <1>3, <1>4 DEF FitInv

(* No step of a conversation takes the sides out of step.                  *)
LEMMA FitInvStep ==
  ASSUME FitInv, NEW s \in Sides, SideStep(s) \/ DropQp(s)
  PROVE  FitInv'
<1>1. SessionInv' BY SessionInvStep DEF FitInv
<1>2. CASE prog = "send_bw_raw" BY <1>1, <1>2, RawStep DEF FitInv
<1>3. CASE prog # "send_bw_raw" BY <1>1, <1>3, SingleStep DEF FitInv
<1> QED BY <1>2, <1>3

(* Steps of the tasks leave the conversation alone.                        *)
LEMMA FitInvKept ==
  ASSUME FitInv, UNCHANGED sessionVars
  PROVE  FitInv'
<1> USE DEF sessionVars
<1>1. SessionInv'
  BY DEF FitInv, SessionInv, SessionTypeOK, PerCoroutine, IsQueue, SideInv, AwaitsOne, IsIn,
         Once, Instr, Through
<1>2. \A s \in Sides : FateInv(s)' BY DEF FitInv, FateInv, Through
<1>3. CASE prog = "send_bw_raw" BY <1>1, <1>2, <1>3 DEF FitInv, StaysAtRecv
<1>4. CASE prog # "send_bw_raw"
  <2>1. InStep' BY <1>4, InStepKept DEF FitInv
  <2> QED BY <1>1, <1>2, <1>4, <2>1 DEF FitInv
<1> QED BY <1>3, <1>4

(* The client of cancellation sends once, so the server waits for ever.    *)
LEMMA CancelServerStays ==
  ASSUME FitInv, prog = "cancellation"
  PROVE  fate["server"] = "running"
<1>1. SessionInv /\ InStep /\ FateInv("server") BY DEF FitInv, Sides
<1>2. Alone("server") /\ Alone("client") BY <1>1, AloneFacts DEF Sides
<1>3. Effective("server") \in 1..2 /\ Effective("client") = Effective("server")
  BY <1>1 DEF InStep, Meets
<1>4. Len(Script(prog, "server")) = 2 /\ Len(Script(prog, "client")) = 1
  BY ScriptOf DEF CancelServer, CancelClient
<1>5. ~Through("server", 1)
  <2>1. CASE unacked["server"] # <<>> BY <1>2, <2>1 DEF Alone
  <2>2. CASE unacked["server"] = <<>>
    <3>1. pc["server"][1] \in 1..2 BY <1>3, <2>2 DEF Effective
    <3> QED BY <1>4, <3>1 DEF Through
  <2> QED BY <2>1, <2>2
<1>6. \A n \in 1..2 : Script(prog, "server")[n].op = "recv"
  BY ScriptOf DEF CancelServer, Recv, RecvImm
<1>7. fate["server"] # "failed"
  <2> SUFFICES ASSUME fate["server"] = "failed" PROVE FALSE OBVIOUS
  <2>1. pc["server"][1] = 2 /\ unacked["server"] # <<>> BY <1>1, <1>4 DEF FateInv
  <2> QED BY <1>2, <1>6, <2>1 DEF Alone, Instr
<1> QED BY <1>1, <1>2, <1>5, <1>7 DEF FateInv, Alone, SessionInv, SessionTypeOK, Sides
=============================================================================
