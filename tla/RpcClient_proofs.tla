-------------------------- MODULE RpcClient_proofs --------------------------
(***************************************************************************)
(* Proofs that a slot of the RPC client belongs to one call at a time and  *)
(* that the reply a call returns is the reply to its own request, for any  *)
(* number of callers, slots, server workers and CQs, any width of the      *)
(* sequence number and any failure; and that a receive worker touches only *)
(* calls that still run, and never meets the mismatch on which it          *)
(* terminates the program, as long as NoLateFlush holds.                   *)
(***************************************************************************)
EXTENDS RpcClient, SequenceTheorems, FiniteSetTheorems, TLAPS

-----------------------------------------------------------------------------
(* The completions waiting in the CQs.                                     *)

(* They are finitely many, of the kinds the client knows.                  *)
LEMMA EntriesType ==
  ASSUME cq \in [Cqs -> Seq(Cqes)], NEW c \in Cqs
  PROVE  Entries(c) \subseteq Cqes /\ IsFiniteSet(Entries(c))
  <1>1. cq[c] \in Seq(Cqes) /\ Len(cq[c]) \in Nat
    BY LenProperties
  <1>2. \A i \in 1..Len(cq[c]) : cq[c][i] \in Cqes
    BY <1>1, ElementOfSeq
  <1> DEFINE g == [i \in 1..Len(cq[c]) |-> cq[c][i]]
  <1>3. g \in Surjection(1..Len(cq[c]), Entries(c))
    BY DEF Surjection, Entries
  <1>4. IsFiniteSet(1..Len(cq[c]))
    BY <1>1, FS_Interval
  <1> HIDE DEF g
  <1>5. IsFiniteSet(Entries(c))
    BY <1>3, <1>4, FS_Surjection
  <1>6. QED
    BY <1>2, <1>5 DEF Entries

(* A step that leaves the CQs alone.                                       *)
LEMMA SameEntries ==
  ASSUME UNCHANGED cq
  PROVE  /\ \A c : Entries(c)' = Entries(c)
         /\ \A c, e, f : Behind(c, e, f)' <=> Behind(c, e, f)
         /\ \A c : Once(c)' <=> Once(c)
  BY DEF Entries, Behind, Once

(* Dispatching the completion at the head of a CQ.                         *)
LEMMA TailEntries ==
  ASSUME cq \in [Cqs -> Seq(Cqes)], \A d \in Cqs : Once(d), NEW c \in Cqs, cq[c] # <<>>,
         cq' = [cq EXCEPT ![c] = Tail(@)]
  PROVE  /\ cq' \in [Cqs -> Seq(Cqes)]
         /\ Head(cq[c]) \in Entries(c)
         /\ \A d \in Cqs :
              /\ Once(d)'
              /\ Entries(d)' = IF d = c THEN Entries(c) \ {Head(cq[c])} ELSE Entries(d)
         /\ \A d \in Cqs : \A e, f : Behind(d, e, f)' => Behind(d, e, f)
         /\ \A f \in Entries(c) \ {Head(cq[c])} : Behind(c, Head(cq[c]), f)
  <1> DEFINE s == cq[c]
  <1> DEFINE t == Tail(cq[c])
  <1>1. s \in Seq(Cqes) /\ Len(s) \in Nat /\ Len(s) # 0 /\ s # <<>>
    BY EmptySeq, LenProperties
  <1>2. /\ t \in Seq(Cqes) /\ Len(t) = Len(s) - 1
        /\ \A i \in 1..Len(s) - 1 : t[i] = s[i + 1]
        /\ Head(s) = s[1]
    BY <1>1, HeadTailProperties
  <1>3. cq'[c] = t /\ \A d \in Cqs \ {c} : cq'[d] = cq[d]
    OBVIOUS
  <1>4. cq' \in [Cqs -> Seq(Cqes)]
    BY <1>2
  <1>5. \A i, j \in 1..Len(s) : s[i] = s[j] => i = j
    BY DEF Once
  <1> HIDE DEF s, t
  <1>6. {t[i] : i \in 1..Len(t)} = {s[i] : i \in 1..Len(s)} \ {s[1]}
    <2>1. ASSUME NEW i \in 1..Len(t) PROVE t[i] \in {s[j] : j \in 1..Len(s)} \ {s[1]}
      <3>1. i + 1 \in 1..Len(s) /\ 1 \in 1..Len(s) /\ i + 1 # 1
        BY <1>1, <1>2
      <3>2. t[i] = s[i + 1] /\ s[i + 1] # s[1]
        BY <1>1, <1>2, <1>5, <3>1
      <3>3. QED
        BY <3>1, <3>2
    <2>2. ASSUME NEW j \in 1..Len(s), s[j] # s[1] PROVE s[j] \in {t[i] : i \in 1..Len(t)}
      <3>1. j - 1 \in 1..Len(t) /\ t[j - 1] = s[j]
        BY <1>1, <1>2, <2>2
      <3>2. QED
        BY <3>1
    <2>3. QED
      BY <2>1, <2>2
  <1>7. \A i, j \in 1..Len(t) : t[i] = t[j] => i = j
    BY <1>1, <1>2, <1>5
  <1>8. ASSUME NEW d \in Cqs
        PROVE  /\ Once(d)'
               /\ Entries(d)' = IF d = c THEN Entries(c) \ {Head(cq[c])} ELSE Entries(d)
    <2>1. CASE d = c
      <3>1. Once(c)'
        BY <1>3, <1>7 DEF Once
      <3>2. Entries(c)' = {t[i] : i \in 1..Len(t)}
        BY <1>3 DEF Entries
      <3>3. Entries(c) = {s[i] : i \in 1..Len(s)} /\ Head(cq[c]) = s[1]
        BY <1>2 DEF Entries, s
      <3>4. QED
        BY <1>6, <2>1, <3>1, <3>2, <3>3
    <2>2. CASE d # c
      BY <1>3, <2>2 DEF Once, Entries
    <2>3. QED
      BY <2>1, <2>2
  <1>9. ASSUME NEW d \in Cqs, NEW e, NEW f, Behind(d, e, f)' PROVE Behind(d, e, f)
    <2>1. CASE d = c
      <3>1. PICK i \in 1..Len(t), j \in 1..Len(t) : i < j /\ t[i] = e /\ t[j] = f
        BY <1>3, <1>9, <2>1 DEF Behind
      <3>2. i + 1 \in 1..Len(s) /\ j + 1 \in 1..Len(s) /\ i + 1 < j + 1
        BY <1>1, <1>2, <3>1
      <3>3. s[i + 1] = e /\ s[j + 1] = f
        BY <1>1, <1>2, <3>1
      <3>4. QED
        BY <2>1, <3>2, <3>3 DEF Behind, s
    <2>2. CASE d # c
      BY <1>3, <1>9, <2>2 DEF Behind
    <2>3. QED
      BY <2>1, <2>2
  <1>10. Head(cq[c]) = s[1] /\ 1 \in 1..Len(s) /\ Head(cq[c]) \in Entries(c)
    BY <1>1, <1>2 DEF Entries, s
  <1>11. ASSUME NEW f \in Entries(c), f # Head(cq[c]) PROVE Behind(c, Head(cq[c]), f)
    <2>1. PICK j \in 1..Len(s) : s[j] = f
      BY DEF Entries, s
    <2>2. 1 < j
      BY <1>1, <1>10, <1>11, <2>1
    <2>3. QED
      BY <1>10, <2>1, <2>2 DEF Behind, s
  <1>12. QED
    BY <1>4, <1>8, <1>9, <1>10, <1>11

(* The NIC writes a completion that is not in the CQ yet.                  *)
LEMMA AppendEntries ==
  ASSUME cq \in [Cqs -> Seq(Cqes)], \A d \in Cqs : Once(d), NEW c \in Cqs,
         NEW x \in Cqes, x \notin Entries(c),
         cq' = [cq EXCEPT ![c] = Append(@, x)]
  PROVE  /\ cq' \in [Cqs -> Seq(Cqes)]
         /\ \A d \in Cqs :
              /\ Once(d)'
              /\ Entries(d)' = IF d = c THEN Entries(c) \cup {x} ELSE Entries(d)
         /\ \A d \in Cqs : \A e, f :
              Behind(d, e, f)' => Behind(d, e, f) \/ (d = c /\ f = x /\ e \in Entries(c))
  <1> DEFINE s == cq[c]
  <1> DEFINE t == Append(cq[c], x)
  <1>1. s \in Seq(Cqes) /\ Len(s) \in Nat
    BY LenProperties
  <1>2. /\ t \in Seq(Cqes) /\ Len(t) = Len(s) + 1
        /\ \A i \in 1..Len(s) : t[i] = s[i]
        /\ t[Len(s) + 1] = x
    BY <1>1, AppendProperties
  <1>3. cq'[c] = t /\ \A d \in Cqs \ {c} : cq'[d] = cq[d]
    OBVIOUS
  <1>4. cq' \in [Cqs -> Seq(Cqes)]
    BY <1>2
  <1>5. /\ \A i, j \in 1..Len(s) : s[i] = s[j] => i = j
        /\ \A i \in 1..Len(s) : s[i] # x
    BY DEF Once, Entries
  <1> HIDE DEF s, t
  <1>6. \A i \in 1..Len(t) : i \in 1..Len(s) \/ i = Len(s) + 1
    BY <1>1, <1>2
  <1>7. {t[i] : i \in 1..Len(t)} = {s[i] : i \in 1..Len(s)} \cup {x}
    <2>1. \A i \in 1..Len(s) : i \in 1..Len(t)
      BY <1>1, <1>2
    <2>2. Len(s) + 1 \in 1..Len(t)
      BY <1>1, <1>2
    <2>3. ASSUME NEW i \in 1..Len(t) PROVE t[i] \in {s[j] : j \in 1..Len(s)} \cup {x}
      BY <1>2, <1>6
    <2>4. ASSUME NEW i \in 1..Len(s) PROVE s[i] \in {t[j] : j \in 1..Len(t)}
      BY <1>2, <2>1
    <2>5. x \in {t[j] : j \in 1..Len(t)}
      BY <1>2, <2>2
    <2>6. QED
      BY <2>3, <2>4, <2>5
  <1>8. \A i, j \in 1..Len(t) : t[i] = t[j] => i = j
    BY <1>2, <1>5, <1>6
  <1>9. ASSUME NEW d \in Cqs
        PROVE  /\ Once(d)'
               /\ Entries(d)' = IF d = c THEN Entries(c) \cup {x} ELSE Entries(d)
    <2>1. CASE d = c
      BY <1>3, <1>7, <1>8, <2>1 DEF Once, Entries, s
    <2>2. CASE d # c
      BY <1>3, <2>2 DEF Once, Entries
    <2>3. QED
      BY <2>1, <2>2
  <1>10. ASSUME NEW d \in Cqs, NEW e, NEW f, Behind(d, e, f)'
         PROVE  Behind(d, e, f) \/ (d = c /\ f = x /\ e \in Entries(c))
    <2>1. CASE d = c
      <3>1. PICK i \in 1..Len(t), j \in 1..Len(t) : i < j /\ t[i] = e /\ t[j] = f
        BY <1>3, <1>10, <2>1 DEF Behind
      <3>2. i \in 1..Len(s)
        BY <1>1, <1>2, <3>1
      <3>3. s[i] = e /\ e \in Entries(c)
        BY <1>2, <3>1, <3>2 DEF Entries, s
      <3>4. CASE j \in 1..Len(s)
        <4>1. s[j] = f
          BY <1>2, <3>1, <3>4
        <4>2. QED
          BY <2>1, <3>1, <3>2, <3>3, <3>4, <4>1 DEF Behind, s
      <3>5. CASE j = Len(s) + 1
        BY <1>2, <2>1, <3>1, <3>3, <3>5
      <3>6. QED
        BY <1>6, <3>4, <3>5
    <2>2. CASE d # c
      BY <1>3, <1>10, <2>2 DEF Behind
    <2>3. QED
      BY <2>1, <2>2
  <1>11. QED
    BY <1>4, <1>9, <1>10

-----------------------------------------------------------------------------
(* Calls, their slots and the replies on their way.                        *)

(* A request on its way is that of the call that holds its slot.           *)
LEMMA AsksHolder ==
  ASSUME \A k \in Callers : CallInv(k), NEW id \in ReqIds, Asks(id)
  PROVE  /\ respBuf[id.slot] \in Callers
         /\ pc[respBuf[id.slot]] \in {"sending", "waiting"}
         /\ Holds(respBuf[id.slot])
         /\ slotOf[respBuf[id.slot]] = id.slot
         /\ reqId[respBuf[id.slot]] = id
         /\ id.slot \in Slots \ free
         /\ expected[id.slot] = id
  <1>1. PICK k \in Callers : k = respBuf[id.slot] /\ pc[k] \in {"sending", "waiting"}
                             /\ reqId[k] = id
    BY DEF Asks
  <1>2. CallInv(k) /\ Holds(k)
    BY <1>1 DEF Holds
  <1>3. QED
    BY <1>1, <1>2 DEF CallInv

(* The converse.                                                           *)
LEMMA HolderAsks ==
  ASSUME NEW k \in Callers, CallInv(k), pc[k] \in {"sending", "waiting"}
  PROVE  /\ reqId[k] \in ReqIds /\ Asks(reqId[k])
         /\ respBuf[reqId[k].slot] = k
         /\ reqId[k].slot = slotOf[k] /\ slotOf[k] \in Slots \ free
  BY DEF CallInv, Holds, Asks

(* No two calls hold one slot.                                             *)
LEMMA HoldersDiffer ==
  ASSUME NEW j \in Callers, NEW k \in Callers, CallInv(j), CallInv(k),
         Holds(j), Holds(k), slotOf[j] = slotOf[k]
  PROVE  j = k
  BY DEF CallInv

(* The part of the invariant that does not speak of replies.               *)
LEMMA RpcBase ==
  ASSUME RpcInv
  PROVE  BaseInv
  BY DEF RpcInv, BaseInv, SendsInv, SendsOnce

(* What a receive worker that spins knows.                                 *)
LEMMA SpinFacts ==
  ASSUME RpcInv, job[RecvCq].at = "spin"
  PROVE  LET s == job[RecvCq].slot IN
         /\ s \in Slots \ free /\ expected[s] \in ReqIds /\ expected[s].slot = s
         /\ Spun(expected[s]) /\ Asks(expected[s])
         /\ respBuf[s] \in Callers /\ pc[respBuf[s]] \in {"sending", "waiting"}
         /\ slotOf[respBuf[s]] = s /\ reqId[respBuf[s]] = expected[s]
         /\ got[respBuf[s]] = expected[s]
         /\ waiter[s] # None => waiter[s] = respBuf[s] /\ pc[respBuf[s]] = "waiting"
  <1>1. PICK s \in Slots : /\ s = job[RecvCq].slot /\ expected[s] \in ReqIds
                           /\ expected[s].slot = s /\ got[respBuf[s]] = expected[s]
    BY DEF RpcInv, JobInv
  <1>2. Spun(expected[s]) /\ Asks(expected[s])
    BY <1>1 DEF RpcInv, OneReply, Spun, Arrived
  <1>3. \A k \in Callers : CallInv(k)
    BY DEF RpcInv
  <1>4. /\ respBuf[s] \in Callers /\ pc[respBuf[s]] \in {"sending", "waiting"}
        /\ slotOf[respBuf[s]] = s /\ reqId[respBuf[s]] = expected[s]
        /\ s \in Slots \ free /\ Holds(respBuf[s])
    BY <1>1, <1>2, <1>3, AsksHolder
  <1>5. waiter[s] # None => waiter[s] = respBuf[s] /\ pc[respBuf[s]] = "waiting"
    BY <1>3, <1>4 DEF CallInv
  <1>6. QED
    BY <1>1, <1>2, <1>4, <1>5

(* The head of a CQ is an entry of it, in its place.                       *)
LEMMA HeadEntry ==
  ASSUME BaseInv, NEW c \in Cqs, cq[c] # <<>>
  PROVE  /\ Head(cq[c]) \in Entries(c) /\ Head(cq[c]) \in Cqes
         /\ c = IF Head(cq[c]).op = "send" THEN SendCq ELSE RecvCq
  <1>1. cq \in [Cqs -> Seq(Cqes)] /\ PlacesInv
    BY DEF BaseInv, TypeOK
  <1>2. cq[c] \in Seq(Cqes) /\ Len(cq[c]) \in Nat /\ Len(cq[c]) # 0
    BY <1>1, EmptySeq, LenProperties
  <1>3. 1 \in 1..Len(cq[c]) /\ Head(cq[c]) = cq[c][1]
    BY <1>2, HeadTailProperties
  <1>4. Head(cq[c]) \in Entries(c)
    BY <1>3 DEF Entries
  <1>5. QED
    BY <1>1, <1>4, EntriesType DEF PlacesInv

(* A completion of a send and one of a receive.                            *)
LEMMA CqeFacts ==
  ASSUME NEW e \in Cqes
  PROVE  /\ e.op \in {"send", "recv"}
         /\ e.op = "send" => e.who \in Callers /\ e.good \in BOOLEAN
         /\ e.op = "recv" => e.id \in ReqIds /\ e = ReplyTo(e.id)
  BY DEF Cqes, ReplyTo

(* A step that puts no request and no reply anywhere keeps OneReply, if    *)
(* the calls that ask go on asking.                                        *)
LEMMA KeepReplies ==
  ASSUME OneReply,
         \A id \in ReqIds :
           /\ AtServer(id)' => AtServer(id)
           /\ Spun(id)' => Spun(id)
           /\ ReplyTo(id) \in Entries(RecvCq)' => ReplyTo(id) \in Entries(RecvCq)
           /\ Asks(id) /\ (AtServer(id)' \/ Arrived(id)') =>
                /\ Asks(id)'
                /\ respBuf'[id.slot] \in unacked' => respBuf[id.slot] \in unacked
  PROVE  OneReply'
  <1> SUFFICES ASSUME NEW id \in ReqIds
               PROVE  /\ AtServer(id)' \/ Arrived(id)' => Asks(id)'
                      /\ ~(AtServer(id)' /\ Arrived(id)')
                      /\ ~(Spun(id)' /\ ReplyTo(id) \in Entries(RecvCq)')
                      /\ AckFirst /\ Arrived(id)' => respBuf'[id.slot] \notin unacked'
    BY DEF OneReply, ReplyTo
  <1>1. Arrived(id)' => Arrived(id)
    BY DEF Arrived, ReplyTo
  <1>2. QED
    BY <1>1 DEF OneReply

(* Workers that carry no more than before.                                 *)
LEMMA KeepServing ==
  ASSUME ServingInv, requests' \subseteq requests, qpUp' \/ requests' = {},
         \A w \in Serving' : w \in Serving /\ Carried(w)' = Carried(w)
  PROVE  /\ ServingInv'
         /\ \A id : AtServer(id)' => AtServer(id)
  <1>1. ServingInv'
    BY DEF ServingInv
  <1>2. ASSUME NEW id, AtServer(id)' PROVE AtServer(id)
    BY <1>2 DEF AtServer
  <1>3. QED
    BY <1>1, <1>2

(* The step adds no completion to a CQ.                                    *)
FewerEntries ==
  \A d \in Cqs :
    /\ Once(d)'
    /\ Entries(d)' \subseteq Entries(d)
    /\ \A e, f : Behind(d, e, f)' => Behind(d, e, f)

(* Such a step keeps what is known of the completions, if it leaves the    *)
(* calls alone whose sends still wait to be dispatched.                    *)
LEMMA KeepCompletions ==
  ASSUME cq \in [Cqs -> Seq(Cqes)], PlacesInv, SendsInv, FewerEntries, qpUp' => qpUp,
         \A e \in Entries(SendCq)' :
           e.op = "send" /\ e.who \in Callers /\ pc[e.who] = "sending" =>
             /\ pc'[e.who] = "sending" /\ reqId'[e.who] = reqId[e.who]
             /\ e.who \in unacked' => e.who \in unacked
             /\ Arrived(reqId[e.who])' => Arrived(reqId[e.who])
  PROVE  PlacesInv' /\ SendsInv'
  <1>0. SendCq \in Cqs /\ RecvCq \in Cqs
    BY RpcAssumption
  <1>1. PlacesInv'
    BY DEF PlacesInv, FewerEntries
  <1>2. ASSUME NEW e \in Entries(SendCq)', e.op = "send"
        PROVE  /\ pc'[e.who] = "sending" /\ e.who \notin unacked'
               /\ \A f \in Entries(SendCq)' : f.op = "send" /\ f.who = e.who => f = e
               /\ \/ e.good
                  \/ /\ ~qpUp'
                     /\ Arrived(reqId[e.who])' => SendCq = RecvCq
                     /\ ~Behind(SendCq, e, ReplyTo(reqId[e.who]))'
    <2>1. e \in Entries(SendCq) /\ pc[e.who] = "sending"
      BY <1>0, <1>2 DEF SendsInv, FewerEntries
    <2>2. e.who \in Callers
      BY <1>0, <1>2, <2>1, EntriesType, CqeFacts
    <2>3. reqId'[e.who] = reqId[e.who]
      BY <1>2, <2>1, <2>2
    <2>4. Behind(SendCq, e, ReplyTo(reqId[e.who]))' => Behind(SendCq, e, ReplyTo(reqId[e.who]))
      BY <1>0, <2>3 DEF FewerEntries, ReplyTo
    <2>5. Entries(SendCq)' \subseteq Entries(SendCq)
      BY <1>0 DEF FewerEntries
    <2>6. QED
      BY <1>2, <2>1, <2>2, <2>3, <2>4, <2>5 DEF SendsInv
  <1>3. SendsInv'
    BY <1>2 DEF SendsInv
  <1>4. QED
    BY <1>1, <1>3

LEMMA KeepSends ==
  ASSUME BaseInv, FewerEntries,
         \A e \in Entries(SendCq)' :
           e.op = "send" /\ e.who \in Callers /\ pc[e.who] = "sending" =>
             /\ pc'[e.who] = "sending"
             /\ e.who \in unacked' => e.who \in unacked
  PROVE  PlacesInv' /\ SendsOnce'
  <1>0. SendCq \in Cqs /\ RecvCq \in Cqs
    BY RpcAssumption
  <1>1. PlacesInv'
    BY DEF BaseInv, PlacesInv, FewerEntries
  <1>2. Entries(SendCq)' \subseteq Entries(SendCq)
    BY <1>0 DEF FewerEntries
  <1>3. \A e \in Entries(SendCq) : e.op = "send" => e.who \in Callers
    BY <1>0, EntriesType, CqeFacts DEF BaseInv, TypeOK
  <1>4. SendsOnce'
    BY <1>2, <1>3 DEF BaseInv, SendsOnce
  <1>5. QED
    BY <1>1, <1>4

LEMMA SameIsFewer ==
  ASSUME PlacesInv, UNCHANGED cq
  PROVE  FewerEntries
  BY SameEntries DEF FewerEntries, PlacesInv

-----------------------------------------------------------------------------
(* The steps of the server.                                                *)

(* They leave the client alone.                                            *)
LEMMA KeepClient ==
  ASSUME RpcInv, UNCHANGED <<clientVars, qpUp>>
  PROVE  /\ \A k \in Callers : CallInv(k)'
         /\ PlacesInv' /\ SendsInv' /\ JobInv' /\ CreditInv'
         /\ \A id : /\ Asks(id)' <=> Asks(id)
                    /\ Arrived(id)' <=> Arrived(id)
                    /\ Spun(id)' <=> Spun(id)
         /\ Entries(RecvCq)' = Entries(RecvCq)
         /\ ~crashed' /\ (qpUp' \/ MayFail)
  <1>0. UNCHANGED <<pc, calls, slotOf, reqId, ok, got, free, waiter, expected, respBuf,
                    cq, job, unacked, recvs, crashed, qpUp>>
    BY DEF clientVars
  <1>1. Entries(RecvCq)' = Entries(RecvCq)
    BY <1>0, SameEntries
  <1>2. \A id : /\ Asks(id)' <=> Asks(id)
                /\ Spun(id)' <=> Spun(id)
                /\ Arrived(id)' <=> Arrived(id)
    BY <1>0, <1>1 DEF Asks, Spun, Arrived, ReplyTo
  <1>3. \A k \in Callers : CallInv(k)'
    BY <1>0 DEF RpcInv, CallInv, Holds
  <1>4. JobInv' /\ CreditInv'
    BY <1>0, <1>1 DEF RpcInv, JobInv, CreditInv, Replies
  <1>5. PlacesInv' /\ SendsInv'
    BY <1>0, <1>2, KeepCompletions, SameIsFewer DEF RpcInv, TypeOK
  <1>6. QED
    BY <1>0, <1>1, <1>2, <1>3, <1>4, <1>5 DEF RpcInv

LEMMA ServerType ==
  ASSUME TypeOK, NEW w \in Workers, ServerStep(w)
  PROVE  TypeOK'
  <1>1. UNCHANGED <<clientVars, qpUp>>
    BY DEF ServerStep, WorkerStep, Receive, Handle, SendReported, WorkerEnds
  <1>2. /\ requests \subseteq ReqIds /\ at \in [Workers -> WorkerStates]
        /\ inBuf \in [Workers -> ReqIds \cup {None}]
        /\ outBuf \in [Workers -> ReqIds \cup {None}]
    BY DEF TypeOK
  <1>3. /\ requests' \subseteq ReqIds /\ at' \in [Workers -> WorkerStates]
        /\ inBuf' \in [Workers -> ReqIds \cup {None}]
        /\ outBuf' \in [Workers -> ReqIds \cup {None}]
    BY <1>2 DEF ServerStep, WorkerStep, Receive, Handle, SendReported, WorkerEnds,
       WorkerStates
  <1>4. QED
    BY <1>1, <1>3 DEF TypeOK, clientVars

LEMMA ServerStepInv ==
  ASSUME RpcInv, NEW w \in Workers, ServerStep(w)
  PROVE  RpcInv'
  <1>0. UNCHANGED <<clientVars, qpUp>>
    BY DEF ServerStep, WorkerStep, Receive, Handle, SendReported, WorkerEnds
  <1>1. /\ \A k \in Callers : CallInv(k)'
        /\ PlacesInv' /\ SendsInv' /\ JobInv' /\ CreditInv'
        /\ Entries(RecvCq)' = Entries(RecvCq)
        /\ ~crashed' /\ (qpUp' \/ MayFail)
    BY <1>0, KeepClient
  <1>2. ASSUME NEW id
        PROVE  /\ Asks(id)' <=> Asks(id)
               /\ Arrived(id)' <=> Arrived(id)
               /\ Spun(id)' <=> Spun(id)
    BY <1>0, KeepClient
  <1>3. /\ requests \subseteq ReqIds /\ at \in [Workers -> WorkerStates]
        /\ inBuf \in [Workers -> ReqIds \cup {None}]
        /\ outBuf \in [Workers -> ReqIds \cup {None}]
        /\ OneReply /\ ServingInv
    BY DEF RpcInv, TypeOK
  <1>5. TypeOK'
    BY ServerType DEF RpcInv
  <1>6. respBuf' = respBuf /\ unacked' = unacked
    BY <1>0 DEF clientVars
  <1>7. ASSUME \A id : AtServer(id)' => AtServer(id) PROVE OneReply'
    BY <1>1, <1>2, <1>3, <1>6, <1>7, KeepReplies
  <1>8. ServingInv' /\ \A id : AtServer(id)' => AtServer(id)
    <2>1. CASE Receive(w)
      <3>1. PICK x \in requests : requests' = requests \ {x} /\ inBuf' = [inBuf EXCEPT ![w] = x]
        BY <2>1 DEF Receive
      <3>2. /\ at[w] = "recv" /\ at' = [at EXCEPT ![w] = "work"] /\ qpUp
            /\ UNCHANGED <<outBuf, qpUp>>
        BY <2>1 DEF Receive
      <3>3. Serving' = Serving \cup {w} /\ w \notin Serving
        BY <1>3, <3>2 DEF Serving
      <3>4. Carried(w)' = x /\ \A v \in Serving : Carried(v)' = Carried(v)
        BY <1>3, <3>1, <3>2, <3>3 DEF Carried, Serving
      <3>5. ServingInv'
        BY <1>3, <3>1, <3>2, <3>3, <3>4 DEF ServingInv
      <3>6. ASSUME NEW id, AtServer(id)' PROVE AtServer(id)
        BY <3>1, <3>3, <3>4, <3>6 DEF AtServer
      <3>7. QED
        BY <3>5, <3>6
    <2>2. CASE Handle(w)
      <3>1. \A v \in Serving' : v \in Serving /\ Carried(v)' = Carried(v)
        BY <1>3, <2>2 DEF Handle, Serving, Carried
      <3>2. QED
        BY <1>3, <2>2, <3>1, KeepServing DEF Handle, ServingInv
    <2>3. CASE SendReported(w) \/ WorkerEnds(w)
      <3>1. \A v \in Serving' : v \in Serving /\ Carried(v)' = Carried(v)
        BY <1>3, <2>3 DEF SendReported, WorkerEnds, Serving, Carried
      <3>2. QED
        BY <1>3, <2>3, <3>1, KeepServing DEF SendReported, WorkerEnds, ServingInv
    <2>4. QED
      BY <2>1, <2>2, <2>3 DEF ServerStep, WorkerStep
  <1>9. QED
    BY <1>1, <1>5, <1>7, <1>8 DEF RpcInv

-----------------------------------------------------------------------------
(* The network.                                                            *)

LEMMA BehindEntries ==
  ASSUME NEW c, NEW e, NEW f, Behind(c, e, f)
  PROVE  e \in Entries(c) /\ f \in Entries(c)
  BY DEF Behind, Entries

(* The receives a client has posted, or will post again, are counted.      *)
LEMMA CreditType ==
  ASSUME TypeOK
  PROVE  /\ IsFiniteSet(Replies) /\ Cardinality(Replies) \in Nat
         /\ Cardinality(Slots) \in Nat
  <1>1. IsFiniteSet(Entries(RecvCq))
    BY RpcAssumption, EntriesType DEF TypeOK
  <1>2. IsFiniteSet(Replies)
    BY <1>1, FS_Subset DEF Replies
  <1>3. QED
    BY <1>2, RpcAssumption, FS_CardinalityType

(* The connection fails.                                                   *)
LEMMA DisconnectInv ==
  ASSUME RpcInv, Disconnect
  PROVE  RpcInv'
  <1>0. /\ UNCHANGED <<pc, calls, slotOf, reqId, ok, got, free, seq, waiter, expected,
                       respBuf, cq, job, unacked, at, inBuf, outBuf, crashed>>
        /\ ~qpUp' /\ recvs' = 0 /\ requests' = {} /\ MayFail
    BY DEF Disconnect, serverVars
  <1>1. Entries(RecvCq)' = Entries(RecvCq)
    BY <1>0, SameEntries
  <1>2. CreditInv'
    <2>1. Replies' = Replies /\ recvs \in Nat
      BY <1>1 DEF Replies, RpcInv, TypeOK
    <2>2. Cardinality(Replies) \in Nat /\ Cardinality(Slots) \in Nat
      BY CreditType DEF RpcInv
    <2>3. QED
      BY <1>0, <2>1, <2>2 DEF RpcInv, CreditInv
  <1>3. TypeOK'
    <2>1. TypeOK /\ Cardinality(Slots) \in Nat
      BY CreditType DEF RpcInv
    <2>2. qpUp' \in BOOLEAN
      BY DEF Disconnect
    <2>3. QED
      BY <1>0, <2>1, <2>2 DEF TypeOK
  <1>4. \A k \in Callers : CallInv(k)'
    BY <1>0 DEF RpcInv, CallInv, Holds
  <1>5. JobInv'
    BY <1>0 DEF RpcInv, JobInv
  <1>6. ServingInv' /\ \A id : AtServer(id)' => AtServer(id)
    BY <1>0, KeepServing DEF RpcInv, Serving
  <1>7. \A id : /\ Asks(id)' <=> Asks(id)
                /\ Spun(id)' <=> Spun(id)
                /\ Arrived(id)' <=> Arrived(id)
    BY <1>0, <1>1 DEF Asks, Spun, Arrived, ReplyTo
  <1>8. OneReply'
    BY <1>0, <1>1, <1>6, <1>7, KeepReplies DEF RpcInv
  <1>9. PlacesInv' /\ SendsInv'
    BY <1>0, <1>7, KeepCompletions, SameIsFewer DEF RpcInv, TypeOK
  <1>10. QED
    BY <1>0, <1>2, <1>3, <1>4, <1>5, <1>6, <1>8, <1>9 DEF RpcInv

(* A send is reported.                                                     *)
LEMMA ReportSendInv ==
  ASSUME RpcInv, NoLateFlush \/ qpUp, NEW k \in Callers, ReportSend(k)
  PROVE  RpcInv'
  <1>x. PICK x : x = [op |-> "send", who |-> k, good |-> qpUp]
    OBVIOUS
  <1>0. /\ UNCHANGED <<pc, calls, slotOf, reqId, ok, got, free, seq, waiter, expected,
                       respBuf, job, requests, recvs, at, inBuf, outBuf, qpUp, crashed>>
        /\ k \in unacked /\ unacked' = unacked \ {k}
        /\ cq' = [cq EXCEPT ![SendCq] = Append(@, x)]
    BY <1>x DEF ReportSend, Report, serverVars
  <1>1. x \in Cqes /\ x.op = "send" /\ x.who = k /\ x.good = qpUp
    BY <1>x DEF Cqes, RpcInv, TypeOK
  <1>2. \A e \in Entries(SendCq) : e.op = "send" => e.who # k
    BY <1>0 DEF RpcInv, SendsInv
  <1>3. x \notin Entries(SendCq)
    BY <1>1, <1>2
  <1>4. cq \in [Cqs -> Seq(Cqes)] /\ (\A d \in Cqs : Once(d)) /\ SendCq \in Cqs
    BY RpcAssumption DEF RpcInv, TypeOK, PlacesInv
  <1>5. \A id : ReplyTo(id) # x
    BY <1>1 DEF ReplyTo
  <1>6. /\ cq' \in [Cqs -> Seq(Cqes)]
        /\ \A d \in Cqs :
             /\ Once(d)'
             /\ Entries(d)' = IF d = SendCq THEN Entries(SendCq) \cup {x} ELSE Entries(d)
        /\ \A d \in Cqs : \A e, f :
             Behind(d, e, f)' =>
               Behind(d, e, f) \/ (d = SendCq /\ f = x /\ e \in Entries(SendCq))
    BY <1>0, <1>1, <1>3, <1>4, AppendEntries
  <1>7. \A e \in Entries(RecvCq)' : e \in Entries(RecvCq) \/ e = x
    BY <1>6, RpcAssumption
  <1>8. /\ \A id : ReplyTo(id) \in Entries(RecvCq)' <=> ReplyTo(id) \in Entries(RecvCq)
        /\ Replies' = Replies
    <2>1. \A e \in Entries(RecvCq) : e \in Entries(RecvCq)'
      BY <1>6, RpcAssumption
    <2>2. QED
      BY <1>1, <1>5, <1>7, <2>1 DEF Replies
  <1>9. TypeOK'
    BY <1>0, <1>6 DEF RpcInv, TypeOK
  <1>10. \A j \in Callers : CallInv(j)'
    BY <1>0 DEF RpcInv, CallInv, Holds
  <1>11. JobInv' /\ CreditInv'
    BY <1>0, <1>8 DEF RpcInv, JobInv, CreditInv
  <1>12. ServingInv' /\ \A id : AtServer(id)' => AtServer(id)
    BY <1>0 DEF RpcInv, ServingInv, Serving, Carried, AtServer
  <1>13. \A id : /\ Asks(id)' <=> Asks(id)
                 /\ Spun(id)' <=> Spun(id)
                 /\ Arrived(id)' <=> Arrived(id)
    BY <1>0, <1>8 DEF Asks, Spun, Arrived, ReplyTo
  <1>14. OneReply'
    BY <1>0, <1>8, <1>12, <1>13, KeepReplies DEF RpcInv
  <1>15. PlacesInv'
    BY <1>1, <1>6 DEF RpcInv, PlacesInv
  <1>16. ASSUME NEW e \in Entries(SendCq)', e.op = "send"
         PROVE  /\ pc'[e.who] = "sending" /\ e.who \notin unacked'
                /\ \A f \in Entries(SendCq)' : f.op = "send" /\ f.who = e.who => f = e
                /\ \/ e.good
                   \/ /\ ~qpUp'
                      /\ Arrived(reqId[e.who])' => SendCq = RecvCq
                      /\ ~Behind(SendCq, e, ReplyTo(reqId[e.who]))'
    <2>1. Entries(SendCq)' = Entries(SendCq) \cup {x}
      BY <1>4, <1>6
    <2>2. CASE e = x
      <3>1. pc[k] = "sending" /\ CallInv(k)
        BY <1>0 DEF RpcInv, CallInv
      <3>2. \A f \in Entries(SendCq)' : f.op = "send" /\ f.who = e.who => f = e
        BY <1>1, <1>2, <2>1, <2>2
      <3>3. CASE ~qpUp
        <4>1. Arrived(reqId[k]) => SendCq = RecvCq
          <5>1. reqId[k] \in ReqIds /\ respBuf[reqId[k].slot] = k
            BY <3>1, HolderAsks
          <5>2. AckFirst => ~Arrived(reqId[k])
            BY <1>0, <5>1 DEF RpcInv, OneReply
          <5>3. QED
            BY <3>3, <5>2 DEF RpcInv, NoLateFlush
        <4>2. ~Behind(SendCq, x, ReplyTo(reqId[k]))'
          BY <1>3, <1>4, <1>5, <1>6, BehindEntries, <1>0 DEF ReplyTo
        <4>3. QED
          BY <1>0, <1>1, <1>13, <2>2, <3>1, <3>2, <3>3, <4>1, <4>2
      <3>4. QED
        BY <1>0, <1>1, <2>2, <3>1, <3>2, <3>3
    <2>3. CASE e \in Entries(SendCq)
      <3>1. e.who # k
        BY <1>2, <1>16, <2>3
      <3>2. Behind(SendCq, e, ReplyTo(reqId[e.who]))' => Behind(SendCq, e, ReplyTo(reqId[e.who]))
        BY <1>0, <1>4, <1>5, <1>6 DEF ReplyTo
      <3>3. QED
        BY <1>0, <1>1, <1>13, <1>16, <2>1, <2>3, <3>1, <3>2 DEF RpcInv, SendsInv
    <2>4. QED
      BY <1>16, <2>1, <2>2, <2>3
  <1>17. SendsInv'
    BY <1>16 DEF SendsInv
  <1>18. QED
    BY <1>0, <1>9, <1>10, <1>11, <1>12, <1>14, <1>15, <1>17 DEF RpcInv

(* A reply reaches the client.                                             *)
LEMMA DeliverInv ==
  ASSUME RpcInv, NEW w \in Workers, Deliver(w)
  PROVE  RpcInv'
  <1>1. PICK id \in ReqIds : id = outBuf[w] /\ id = Carried(w) /\ w \in Serving
                             /\ id \notin requests
    <2>1. w \in Serving /\ Carried(w) = outBuf[w]
      BY DEF Deliver, Serving, Carried
    <2>2. QED
      BY <2>1 DEF RpcInv, ServingInv
  <1> DEFINE x == ReplyTo(id)
  <1>0. /\ UNCHANGED <<pc, calls, slotOf, reqId, ok, got, free, seq, waiter, expected,
                       respBuf, job, unacked, requests, inBuf, outBuf, qpUp, crashed>>
        /\ qpUp /\ recvs > 0 /\ recvs' = recvs - 1
        /\ AckFirst => \A k \in unacked : reqId[k] # id
        /\ at' = [at EXCEPT ![w] = "sent"]
        /\ cq' = [cq EXCEPT ![RecvCq] = Append(@, x)]
    BY <1>1 DEF Deliver, Report, ReplyTo
  <1>2. x \in Cqes /\ x.op = "recv" /\ x.id = id
    BY DEF Cqes, ReplyTo
  <1>3. AtServer(id) /\ ~Arrived(id) /\ Asks(id)
    BY <1>1 DEF AtServer, RpcInv, OneReply
  <1>4. x \notin Entries(RecvCq) /\ ~Spun(id)
    BY <1>3 DEF Arrived
  <1>5. cq \in [Cqs -> Seq(Cqes)] /\ (\A d \in Cqs : Once(d)) /\ RecvCq \in Cqs /\ SendCq \in Cqs
    BY RpcAssumption DEF RpcInv, TypeOK, PlacesInv
  <1>6. \A y \in ReqIds : ReplyTo(y) = x => y = id
    BY DEF ReplyTo
  <1> HIDE DEF x
  <1>7. /\ cq' \in [Cqs -> Seq(Cqes)]
        /\ \A d \in Cqs :
             /\ Once(d)'
             /\ Entries(d)' = IF d = RecvCq THEN Entries(RecvCq) \cup {x} ELSE Entries(d)
    BY <1>0, <1>2, <1>4, <1>5, AppendEntries
  <1>8. Entries(RecvCq)' = Entries(RecvCq) \cup {x}
    BY <1>5, <1>7
  <1>9. CreditInv' /\ recvs' \in 0..Cardinality(Slots)
    <2>1. Replies' = Replies \cup {x} /\ x \notin Replies
      BY <1>2, <1>4, <1>8 DEF Replies
    <2>2. /\ IsFiniteSet(Replies) /\ Cardinality(Replies) \in Nat
          /\ Cardinality(Slots) \in Nat
      BY CreditType DEF RpcInv
    <2>3. Cardinality(Replies') = Cardinality(Replies) + 1
      BY <2>1, <2>2, FS_AddElement
    <2>4. recvs \in 0..Cardinality(Slots)
      BY DEF RpcInv, TypeOK
    <2>5. QED
      BY <1>0, <2>2, <2>3, <2>4 DEF RpcInv, CreditInv
  <1>10. at \in [Workers -> WorkerStates] /\ at' \in [Workers -> WorkerStates]
    BY <1>0 DEF RpcInv, TypeOK, WorkerStates
  <1>11. TypeOK'
    BY <1>0, <1>7, <1>9, <1>10 DEF RpcInv, TypeOK
  <1>12. \A j \in Callers : CallInv(j)'
    BY <1>0 DEF RpcInv, CallInv, Holds
  <1>13. JobInv'
    BY <1>0 DEF RpcInv, JobInv
  <1>14. Serving' = Serving \ {w} /\ \A v \in Serving' : Carried(v)' = Carried(v)
    BY <1>0, <1>10 DEF Serving, Carried
  <1>15. ServingInv' /\ \A y : AtServer(y)' => AtServer(y)
    BY <1>0, <1>14, KeepServing DEF RpcInv
  <1>16. ~AtServer(id)'
    BY <1>0, <1>1, <1>14 DEF AtServer, RpcInv, ServingInv
  <1>17. \A y : /\ Asks(y)' <=> Asks(y)
                /\ Spun(y)' <=> Spun(y)
    BY <1>0 DEF Asks, Spun
  <1>18. OneReply'
    <2> SUFFICES ASSUME NEW y \in ReqIds
                 PROVE  /\ AtServer(y)' \/ Arrived(y)' => Asks(y)'
                        /\ ~(AtServer(y)' /\ Arrived(y)')
                        /\ ~(Spun(y)' /\ ReplyTo(y) \in Entries(RecvCq)')
                        /\ AckFirst /\ Arrived(y)' => respBuf'[y.slot] \notin unacked'
      BY DEF OneReply, ReplyTo
    <2>1. CASE y = id
      <3>1. AckFirst => respBuf[id.slot] \notin unacked
        BY <1>0, <1>3 DEF Asks
      <3>2. QED
        BY <1>0, <1>3, <1>4, <1>16, <1>17, <2>1, <3>1
    <2>2. CASE y # id
      <3>1. ReplyTo(y) \in Entries(RecvCq)' => ReplyTo(y) \in Entries(RecvCq)
        BY <1>6, <1>8, <2>2
      <3>2. Arrived(y)' => Arrived(y)
        BY <1>17, <3>1 DEF Arrived, ReplyTo
      <3>3. QED
        BY <1>0, <1>15, <1>17, <3>1, <3>2 DEF RpcInv, OneReply
    <2>3. QED
      BY <2>1, <2>2
  <1>19. PlacesInv'
    BY <1>2, <1>7 DEF RpcInv, PlacesInv
  <1>20. SendsInv'
    <2>1. \A e \in Entries(SendCq)' : e.op = "send" => e \in Entries(SendCq) /\ e.good
      BY <1>0, <1>2, <1>5, <1>7 DEF RpcInv, SendsInv
    <2>2. QED
      BY <1>0, <2>1 DEF RpcInv, SendsInv
  <1>21. QED
    BY <1>0, <1>9, <1>11, <1>12, <1>13, <1>15, <1>18, <1>19, <1>20 DEF RpcInv

-----------------------------------------------------------------------------
(* The calls.                                                              *)

LEMMA IdleType == Idle \in Jobs /\ Idle.at = "idle" /\ Idle.worker = FALSE
  BY DEF Idle, Jobs

(* A poller that is given back runs no worker any more, and its receive is *)
(* posted again.                                                           *)
LEMMA YieldFacts ==
  ASSUME RpcInv, NEW k \in Callers, Yield(k) \/ UNCHANGED <<job, recvs>>,
         Replies' = Replies
  PROVE  /\ job' \in [Cqs -> Jobs] /\ recvs' \in 0..Cardinality(Slots)
         /\ \A c \in Cqs : job'[c] = job[c] \/ (job'[c] = Idle /\ job[c].at = "run")
         /\ CreditInv'
  <1>0. /\ job \in [Cqs -> Jobs] /\ recvs \in 0..Cardinality(Slots) /\ RecvCq \in Cqs
        /\ \A c \in Cqs : c # RecvCq => ~job[c].worker
    BY RpcAssumption DEF RpcInv, TypeOK, JobInv
  <1>1. Cardinality(Replies) \in Nat /\ Cardinality(Slots) \in Nat
    BY CreditType DEF RpcInv
  <1>2. recvs + Cardinality(Replies) + (IF job[RecvCq].worker THEN 1 ELSE 0)
          <= Cardinality(Slots)
    BY DEF RpcInv, CreditInv
  <1>3. CASE UNCHANGED <<job, recvs>>
    BY <1>0, <1>2, <1>3 DEF CreditInv
  <1>4. CASE Yield(k)
    <2>1. \A c \in Cqs : job'[c] = job[c] \/ (job'[c] = Idle /\ job[c].at = "run")
      BY <1>4 DEF Yield, RunBy
    <2>2. job' \in [Cqs -> Jobs]
      BY <1>0, <1>4, IdleType DEF Yield
    <2>3. CASE qpUp /\ \E c \in RunBy(k) : job[c].worker
      <3>1. PICK c \in RunBy(k) : job[c].worker
        BY <2>3
      <3>2. c = RecvCq
        BY <1>0, <3>1 DEF RunBy
      <3>3. job[RecvCq].worker /\ job'[RecvCq] = Idle
        BY <1>0, <1>4, <3>1, <3>2 DEF Yield
      <3>4. recvs' = recvs + 1
        BY <1>4, <2>3 DEF Yield
      <3>5. QED
        BY <1>0, <1>1, <1>2, <2>1, <2>2, <3>3, <3>4, IdleType DEF CreditInv
    <2>4. CASE ~(qpUp /\ \E c \in RunBy(k) : job[c].worker)
      <3>1. recvs' = recvs
        BY <1>4, <2>4 DEF Yield
      <3>2. job'[RecvCq].worker => job[RecvCq].worker
        BY <1>0, <2>1, IdleType
      <3>3. QED
        BY <1>0, <1>1, <1>2, <2>1, <2>2, <3>1, <3>2 DEF CreditInv
    <2>5. QED
      BY <2>3, <2>4
  <1>5. QED
    BY <1>3, <1>4

(* Pollers that are given back, and one that spins on as before.           *)
LEMMA KeepJobs ==
  ASSUME JobInv,
         \A c \in Cqs : job'[c] = job[c] \/ job'[c] = Idle,
         job[RecvCq].at = "spin" =>
           LET s == job[RecvCq].slot IN
           expected'[s] = expected[s] /\ got'[respBuf'[s]] = got[respBuf[s]]
  PROVE  JobInv'
  <1>1. RecvCq \in Cqs
    BY RpcAssumption
  <1>2. \A c \in Cqs : /\ job'[c].at = "idle" => ~job'[c].worker
                       /\ c # RecvCq => job'[c].at # "spin" /\ ~job'[c].worker
    BY IdleType DEF JobInv
  <1>3. job'[RecvCq].at = "spin" => job'[RecvCq] = job[RecvCq]
    BY <1>1, IdleType
  <1>4. QED
    BY <1>2, <1>3 DEF JobInv

(* A call takes a slot.                                                    *)
LEMMA AcquireBase ==
  ASSUME BaseInv, NEW k \in Callers, Acquire(k)
  PROVE  BaseInv'
  <1>1. PICK s \in free :
          /\ free' = free \ {s}
          /\ slotOf' = [slotOf EXCEPT ![k] = s]
          /\ reqId' = [reqId EXCEPT ![k] = MakeReqId(seq, s)]
          /\ FillSlot(s, k, MakeReqId(seq, s))
    BY DEF Acquire
  <1>2. PICK id : id = MakeReqId(seq, s)
    OBVIOUS
  <1>3. id \in ReqIds /\ id.slot = s /\ s \in Slots
    BY <1>1, <1>2, RpcAssumption DEF ReqIds, MakeReqId, BaseInv, TypeOK
  <1>4. /\ pc[k] = "call" /\ pc' = [pc EXCEPT ![k] = "ready"]
        /\ reqId' = [reqId EXCEPT ![k] = id]
        /\ waiter' = [waiter EXCEPT ![s] = None]
        /\ respBuf' = [respBuf EXCEPT ![s] = k]
        /\ expected' = [expected EXCEPT ![s] = id]
        /\ seq' = seq + 1
        /\ UNCHANGED <<calls, ok, got, cq, job, unacked, requests, recvs, at, inBuf,
                       outBuf, qpUp, crashed>>
    BY <1>1, <1>2 DEF Acquire, FillSlot, serverVars
  <1> USE <1>3
  <1>5. /\ pc \in [Callers -> CallStates] /\ slotOf \in [Callers -> Slots \cup {None}]
        /\ reqId \in [Callers -> ReqIds \cup {None}] /\ free \subseteq Slots
        /\ waiter \in [Slots -> Callers \cup {None}]
        /\ expected \in [Slots -> ReqIds \cup {None}]
        /\ respBuf \in [Slots -> Callers \cup {None}] /\ seq \in Nat
        /\ \A j \in Callers : CallInv(j)
    BY DEF BaseInv, TypeOK
  <1>6. TypeOK'
    <2>1. seq' \in Nat
      BY <1>4, <1>5, RpcAssumption
    <2>2. /\ pc' \in [Callers -> CallStates] /\ slotOf' \in [Callers -> Slots \cup {None}]
          /\ reqId' \in [Callers -> ReqIds \cup {None}] /\ free' \subseteq Slots
      BY <1>1, <1>4, <1>5 DEF CallStates
    <2>3. /\ waiter' \in [Slots -> Callers \cup {None}]
          /\ expected' \in [Slots -> ReqIds \cup {None}]
          /\ respBuf' \in [Slots -> Callers \cup {None}]
      BY <1>4, <1>5
    <2>4. QED
      BY <1>4, <2>1, <2>2, <2>3 DEF BaseInv, TypeOK
  <1>7. ASSUME NEW j \in Callers PROVE CallInv(j)'
    <2>1. CASE j = k
      <3>1. /\ pc'[k] = "ready" /\ slotOf'[k] = s /\ reqId'[k] = id
            /\ respBuf'[s] = k /\ expected'[s] = id /\ waiter'[s] = None
            /\ s \notin free' /\ k \notin unacked' /\ calls'[k] < MaxCalls
        BY <1>1, <1>4, <1>5 DEF CallInv
      <3>2. QED
        BY <2>1, <3>1 DEF CallInv, Holds
    <2>2. CASE j # k
      <3>1. pc'[j] = pc[j] /\ slotOf'[j] = slotOf[j] /\ reqId'[j] = reqId[j]
        BY <1>1, <1>4, <1>5, <2>2
      <3>2. Holds(j) => /\ slotOf[j] \in Slots \ free' /\ slotOf[j] # s
                        /\ respBuf'[slotOf[j]] = respBuf[slotOf[j]]
                        /\ expected'[slotOf[j]] = expected[slotOf[j]]
                        /\ waiter'[slotOf[j]] = waiter[slotOf[j]]
        BY <1>1, <1>4, <1>5 DEF CallInv
      <3>3. CallInv(j)
        BY <1>5
      <3>4. QED
        BY <1>4, <3>1, <3>2, <3>3 DEF CallInv, Holds
    <2>3. QED
      BY <2>1, <2>2
  <1>8. PlacesInv' /\ SendsOnce'
    <2>1. \A j \in Callers : pc[j] = "sending" => pc'[j] = "sending"
      BY <1>4, <1>5
    <2>2. QED
      BY <1>4, <2>1, KeepSends, SameIsFewer DEF BaseInv
  <1>9. QED
    BY <1>6, <1>7, <1>8 DEF BaseInv

LEMMA AcquireInv ==
  ASSUME RpcInv, NEW k \in Callers, Acquire(k)
  PROVE  RpcInv'
  <1>1. PICK s \in free :
          /\ free' = free \ {s}
          /\ slotOf' = [slotOf EXCEPT ![k] = s]
          /\ reqId' = [reqId EXCEPT ![k] = MakeReqId(seq, s)]
          /\ FillSlot(s, k, MakeReqId(seq, s))
    BY DEF Acquire
  <1>2. PICK id : id = MakeReqId(seq, s)
    OBVIOUS
  <1>3. id \in ReqIds /\ id.slot = s /\ s \in Slots
    BY <1>1, <1>2, RpcAssumption DEF ReqIds, MakeReqId, RpcInv, TypeOK
  <1>4. /\ pc[k] = "call" /\ pc' = [pc EXCEPT ![k] = "ready"]
        /\ reqId' = [reqId EXCEPT ![k] = id]
        /\ waiter' = [waiter EXCEPT ![s] = None]
        /\ respBuf' = [respBuf EXCEPT ![s] = k]
        /\ expected' = [expected EXCEPT ![s] = id]
        /\ seq' = seq + 1
        /\ UNCHANGED <<calls, ok, got, cq, job, unacked, requests, recvs, at, inBuf,
                       outBuf, qpUp, crashed>>
    BY <1>1, <1>2 DEF Acquire, FillSlot, serverVars
  <1> USE <1>3
  <1>5. /\ pc \in [Callers -> CallStates] /\ slotOf \in [Callers -> Slots \cup {None}]
        /\ reqId \in [Callers -> ReqIds \cup {None}] /\ free \subseteq Slots
        /\ waiter \in [Slots -> Callers \cup {None}]
        /\ expected \in [Slots -> ReqIds \cup {None}]
        /\ respBuf \in [Slots -> Callers \cup {None}] /\ seq \in Nat
        /\ \A j \in Callers : CallInv(j)
    BY DEF RpcInv, TypeOK
  <1>6. TypeOK' /\ \A j \in Callers : CallInv(j)'
    BY AcquireBase, RpcBase DEF BaseInv
  <1>8. ASSUME NEW y \in ReqIds, Asks(y)
        PROVE  Asks(y)' /\ respBuf'[y.slot] = respBuf[y.slot]
    <2>1. /\ y.slot \in Slots \ free /\ respBuf[y.slot] \in Callers
          /\ pc[respBuf[y.slot]] \in {"sending", "waiting"} /\ reqId[respBuf[y.slot]] = y
      BY <1>5, <1>8, AsksHolder
    <2>2. y.slot # s /\ respBuf[y.slot] # k
      BY <1>1, <1>4, <2>1
    <2>3. /\ respBuf'[y.slot] = respBuf[y.slot]
          /\ pc'[respBuf[y.slot]] = pc[respBuf[y.slot]]
          /\ reqId'[respBuf[y.slot]] = reqId[respBuf[y.slot]]
      BY <1>4, <1>5, <2>1, <2>2
    <2>4. QED
      BY <2>1, <2>3 DEF Asks
  <1>9. job[RecvCq].at = "spin" =>
          LET t == job[RecvCq].slot IN
          t \in Slots /\ expected'[t] = expected[t] /\ respBuf'[t] = respBuf[t]
    BY <1>1, <1>4, <1>5, SpinFacts
  <1>10. Entries(RecvCq)' = Entries(RecvCq) /\ Replies' = Replies
    BY <1>4, SameEntries DEF Replies
  <1>11. JobInv' /\ CreditInv'
    <2>1. JobInv'
      BY <1>4, <1>9, KeepJobs DEF RpcInv
    <2>2. QED
      BY <1>4, <1>10, <2>1 DEF RpcInv, CreditInv
  <1>12. ServingInv' /\ \A y : AtServer(y)' => AtServer(y)
    BY <1>4 DEF RpcInv, ServingInv, Serving, Carried, AtServer
  <1>13. \A y : Spun(y)' => Spun(y)
    BY <1>4, <1>9 DEF Spun
  <1>14. OneReply'
    BY <1>4, <1>8, <1>10, <1>12, <1>13, KeepReplies DEF RpcInv
  <1>15. PlacesInv' /\ SendsInv'
    <2>1. \A j \in Callers : pc[j] = "sending" =>
            /\ pc'[j] = "sending" /\ reqId'[j] = reqId[j]
            /\ Arrived(reqId[j])' => Arrived(reqId[j])
      <3>1. \A j \in Callers : pc[j] = "sending" =>
              pc'[j] = "sending" /\ reqId'[j] = reqId[j]
        BY <1>4, <1>5
      <3>2. \A j \in Callers : pc[j] = "sending" =>
              (Arrived(reqId[j])' => Arrived(reqId[j]))
        BY <1>10, <1>13, <3>1 DEF Arrived, ReplyTo
      <3>3. QED
        BY <3>1, <3>2
    <2>2. QED
      BY <1>4, <2>1, KeepCompletions, SameIsFewer DEF RpcInv, TypeOK
  <1>16. QED
    BY <1>4, <1>6, <1>11, <1>12, <1>14, <1>15 DEF RpcInv

(* The request is sent; the poller that ran the call is given back.        *)
LEMMA SendBase ==
  ASSUME BaseInv, NEW k \in Callers, Send(k),
         job' \in [Cqs -> Jobs], recvs' \in 0..Cardinality(Slots)
  PROVE  BaseInv'
  <1>1. /\ pc[k] = "ready" /\ pc' = [pc EXCEPT ![k] = "sending"]
        /\ unacked' = unacked \cup {k}
        /\ requests' = IF qpUp THEN requests \cup {reqId[k]} ELSE requests
        /\ UNCHANGED <<calls, slotOf, reqId, ok, got, free, seq, waiter, expected,
                       respBuf, cq, at, inBuf, outBuf, qpUp, crashed>>
    BY DEF Send, serverVars
  <1>2. /\ pc \in [Callers -> CallStates] /\ requests \subseteq ReqIds
        /\ unacked \subseteq Callers /\ \A j \in Callers : CallInv(j)
    BY DEF BaseInv, TypeOK
  <1>3. reqId[k] \in ReqIds
    BY <1>1, <1>2 DEF CallInv, Holds
  <1>4. TypeOK'
    BY <1>1, <1>2, <1>3 DEF BaseInv, TypeOK, CallStates
  <1>5. ASSUME NEW j \in Callers PROVE CallInv(j)'
    <2>1. CallInv(j)
      BY <1>2
    <2>2. CASE j = k
      BY <1>1, <1>2, <2>1, <2>2 DEF CallInv, Holds
    <2>3. CASE j # k
      <3>1. pc'[j] = pc[j] /\ (j \in unacked' <=> j \in unacked)
        BY <1>1, <1>2, <2>3
      <3>2. QED
        BY <1>1, <2>1, <3>1 DEF CallInv, Holds
    <2>4. QED
      BY <2>2, <2>3
  <1>6. PlacesInv' /\ SendsOnce'
    <2>1. \A j \in Callers : pc[j] = "sending" =>
            pc'[j] = "sending" /\ (j \in unacked' => j \in unacked)
      BY <1>1, <1>2
    <2>2. QED
      BY <1>1, <2>1, KeepSends, SameIsFewer DEF BaseInv
  <1>7. QED
    BY <1>4, <1>5, <1>6 DEF BaseInv

LEMMA SendInv ==
  ASSUME RpcInv, NEW k \in Callers, Send(k)
  PROVE  RpcInv'
  <1>1. /\ pc[k] = "ready" /\ pc' = [pc EXCEPT ![k] = "sending"]
        /\ unacked' = unacked \cup {k}
        /\ requests' = IF qpUp THEN requests \cup {reqId[k]} ELSE requests
        /\ Yield(k)
        /\ UNCHANGED <<calls, slotOf, reqId, ok, got, free, seq, waiter, expected,
                       respBuf, cq, at, inBuf, outBuf, qpUp, crashed>>
    BY DEF Send, serverVars
  <1>2. /\ pc \in [Callers -> CallStates] /\ requests \subseteq ReqIds
        /\ unacked \subseteq Callers /\ \A j \in Callers : CallInv(j)
    BY DEF RpcInv, TypeOK
  <1>3. /\ reqId[k] \in ReqIds /\ respBuf[reqId[k].slot] = k
    BY <1>1, <1>2 DEF CallInv, Holds
  <1>4. PICK id \in ReqIds : id = reqId[k] /\ respBuf[id.slot] = k
    BY <1>3
  <1>5. ~Asks(id) /\ ~AtServer(id) /\ ~Arrived(id)
    <2>1. ~Asks(id)
      BY <1>1, <1>4 DEF Asks
    <2>2. QED
      BY <2>1 DEF RpcInv, OneReply
  <1>6. Entries(RecvCq)' = Entries(RecvCq) /\ Replies' = Replies
    BY <1>1, SameEntries DEF Replies
  <1>7. /\ job' \in [Cqs -> Jobs] /\ recvs' \in 0..Cardinality(Slots)
        /\ \A c \in Cqs : job'[c] = job[c] \/ (job'[c] = Idle /\ job[c].at = "run")
        /\ CreditInv'
    BY <1>1, <1>6, YieldFacts
  <1>8. TypeOK' /\ \A j \in Callers : CallInv(j)'
    BY <1>7, SendBase, RpcBase DEF BaseInv
  <1>10. JobInv'
    BY <1>1, <1>7, KeepJobs DEF RpcInv
  <1>11. \A y : Spun(y)' => Spun(y)
    BY <1>1, <1>7, IdleType, RpcAssumption DEF Spun
  <1>12. \A y : Arrived(y)' => Arrived(y)
    BY <1>6, <1>11 DEF Arrived, ReplyTo
  <1>13. Serving' = Serving /\ \A w \in Serving : Carried(w)' = Carried(w)
    BY <1>1 DEF Serving, Carried
  <1>14. \A y \in ReqIds \ {id} : AtServer(y)' => AtServer(y)
    BY <1>1, <1>4, <1>13 DEF AtServer
  <1>15. ServingInv'
    <2>1. \A w \in Serving : Carried(w) # id
      BY <1>5 DEF AtServer
    <2>2. QED
      BY <1>1, <1>4, <1>13, <2>1 DEF RpcInv, ServingInv
  <1>16. ASSUME NEW y \in ReqIds
         PROVE  /\ AtServer(y)' \/ Arrived(y)' => Asks(y)'
                /\ ~(AtServer(y)' /\ Arrived(y)')
                /\ ~(Spun(y)' /\ ReplyTo(y) \in Entries(RecvCq)')
                /\ AckFirst /\ Arrived(y)' => respBuf'[y.slot] \notin unacked'
    <2>1. CASE y = id
      <3>1. Asks(y)'
        BY <1>1, <1>2, <1>4, <2>1 DEF Asks
      <3>2. ~Arrived(y)'
        BY <1>5, <1>12, <2>1
      <3>3. ~Spun(y)'
        BY <3>2 DEF Arrived
      <3>4. QED
        BY <3>1, <3>2, <3>3
    <2>2. CASE y # id
      <3>1. Asks(y) => Asks(y)' /\ respBuf[y.slot] # k
        BY <1>1, <1>2, <1>4, <2>2 DEF Asks
      <3>2. Arrived(y) /\ AckFirst => respBuf[y.slot] \notin unacked
        BY DEF RpcInv, OneReply
      <3>3. /\ AtServer(y) \/ Arrived(y) => Asks(y)
            /\ ~(AtServer(y) /\ Arrived(y))
            /\ ~(Spun(y) /\ ReplyTo(y) \in Entries(RecvCq))
        BY DEF RpcInv, OneReply
      <3>4. AtServer(y)' => AtServer(y)
        BY <1>14, <2>2
      <3>5. QED
        BY <1>1, <1>6, <1>11, <1>12, <3>1, <3>2, <3>3, <3>4
    <2>3. QED
      BY <2>1, <2>2
  <1>17. OneReply'
    BY <1>16 DEF OneReply, ReplyTo
  <1>18. PlacesInv' /\ SendsInv'
    <2>1. \A j \in Callers : pc[j] = "sending" =>
            /\ pc'[j] = "sending" /\ reqId'[j] = reqId[j]
            /\ j \in unacked' => j \in unacked
            /\ Arrived(reqId[j])' => Arrived(reqId[j])
      BY <1>1, <1>2, <1>12
    <2>2. QED
      BY <1>1, <2>1, KeepCompletions, SameIsFewer DEF RpcInv, TypeOK
  <1>19. QED
    BY <1>1, <1>7, <1>8, <1>10, <1>15, <1>17, <1>18 DEF RpcInv

(* A call returns its slot.                                                *)
LEMMA FinishBase ==
  ASSUME BaseInv, NEW k \in Callers, Finish(k),
         job' \in [Cqs -> Jobs], recvs' \in 0..Cardinality(Slots)
  PROVE  BaseInv'
  <1>1. /\ pc[k] = "finish" /\ free' = free \cup {slotOf[k]}
        /\ calls' = [calls EXCEPT ![k] = @ + 1]
        /\ pc' = [pc EXCEPT ![k] = IF LastCall(k) THEN "done" ELSE "call"]
        /\ UNCHANGED <<slotOf, reqId, ok, got, seq, waiter, expected, respBuf, cq,
                       unacked, requests, at, inBuf, outBuf, qpUp, crashed>>
    BY DEF Finish, serverVars
  <1>2. /\ pc \in [Callers -> CallStates] /\ calls \in [Callers -> 0..MaxCalls]
        /\ free \subseteq Slots /\ \A j \in Callers : CallInv(j)
    BY DEF BaseInv, TypeOK
  <1>3. slotOf[k] \in Slots \ free /\ calls[k] < MaxCalls /\ k \notin unacked /\ Holds(k)
    BY <1>1, <1>2 DEF CallInv, Holds
  <1>6. TypeOK'
    <2>1. calls' \in [Callers -> 0..MaxCalls]
      BY <1>1, <1>2, <1>3, RpcAssumption
    <2>2. pc' \in [Callers -> CallStates] /\ free' \subseteq Slots
      BY <1>1, <1>2, <1>3 DEF CallStates
    <2>3. QED
      BY <1>1, <2>1, <2>2 DEF BaseInv, TypeOK
  <1>7. ASSUME NEW j \in Callers PROVE CallInv(j)'
    <2>1. CallInv(j)
      BY <1>2
    <2>2. CASE j = k
      <3>1. pc'[k] \in {"done", "call"} /\ (pc'[k] # "done" => calls'[k] < MaxCalls)
        BY <1>1, <1>2, <1>3, RpcAssumption DEF LastCall
      <3>2. QED
        BY <1>1, <1>3, <2>2, <3>1 DEF CallInv, Holds
    <2>3. CASE j # k
      <3>1. pc'[j] = pc[j] /\ calls'[j] = calls[j]
        BY <1>1, <1>2, <2>3
      <3>2. Holds(j) => slotOf[j] # slotOf[k]
        BY <1>2, <1>3, <2>3, HoldersDiffer
      <3>3. QED
        BY <1>1, <2>1, <3>1, <3>2 DEF CallInv, Holds
    <2>4. QED
      BY <2>2, <2>3
  <1>8. PlacesInv' /\ SendsOnce'
    <2>1. \A j \in Callers : pc[j] = "sending" => pc'[j] = "sending"
      BY <1>1, <1>2
    <2>2. QED
      BY <1>1, <2>1, KeepSends, SameIsFewer DEF BaseInv
  <1>9. QED
    BY <1>6, <1>7, <1>8 DEF BaseInv

LEMMA FinishInv ==
  ASSUME RpcInv, NEW k \in Callers, Finish(k)
  PROVE  RpcInv'
  <1>1. /\ pc[k] = "finish" /\ free' = free \cup {slotOf[k]}
        /\ calls' = [calls EXCEPT ![k] = @ + 1]
        /\ pc' = [pc EXCEPT ![k] = IF LastCall(k) THEN "done" ELSE "call"]
        /\ Yield(k) \/ UNCHANGED <<job, recvs>>
        /\ UNCHANGED <<slotOf, reqId, ok, got, seq, waiter, expected, respBuf, cq,
                       unacked, requests, at, inBuf, outBuf, qpUp, crashed>>
    BY DEF Finish, serverVars
  <1>2. pc \in [Callers -> CallStates]
    BY DEF RpcInv, TypeOK
  <1>4. Entries(RecvCq)' = Entries(RecvCq) /\ Replies' = Replies
    BY <1>1, SameEntries DEF Replies
  <1>5. /\ job' \in [Cqs -> Jobs] /\ recvs' \in 0..Cardinality(Slots)
        /\ \A c \in Cqs : job'[c] = job[c] \/ (job'[c] = Idle /\ job[c].at = "run")
        /\ CreditInv'
    BY <1>1, <1>4, YieldFacts
  <1>6. TypeOK' /\ \A j \in Callers : CallInv(j)'
    BY <1>5, FinishBase, RpcBase DEF BaseInv
  <1>8. JobInv'
    BY <1>1, <1>5, KeepJobs DEF RpcInv
  <1>9. \A y : Spun(y)' => Spun(y)
    BY <1>1, <1>5, IdleType, RpcAssumption DEF Spun
  <1>10. \A y : Arrived(y)' => Arrived(y)
    BY <1>4, <1>9 DEF Arrived, ReplyTo
  <1>11. ServingInv' /\ \A y : AtServer(y)' => AtServer(y)
    BY <1>1 DEF RpcInv, ServingInv, Serving, Carried, AtServer
  <1>12. \A y \in ReqIds : Asks(y) => Asks(y)'
    BY <1>1, <1>2 DEF Asks
  <1>13. OneReply'
    BY <1>1, <1>4, <1>9, <1>11, <1>12, KeepReplies DEF RpcInv
  <1>14. PlacesInv' /\ SendsInv'
    <2>1. \A j \in Callers : pc[j] = "sending" =>
            /\ pc'[j] = "sending" /\ reqId'[j] = reqId[j]
            /\ Arrived(reqId[j])' => Arrived(reqId[j])
      BY <1>1, <1>2, <1>10
    <2>2. QED
      BY <1>1, <2>1, KeepCompletions, SameIsFewer DEF RpcInv, TypeOK
  <1>15. QED
    BY <1>1, <1>5, <1>6, <1>8, <1>11, <1>13, <1>14 DEF RpcInv

-----------------------------------------------------------------------------
(* The pollers.                                                            *)

(* Dispatching the head of c takes it from c and adds nothing.             *)
LEMMA DispatchFacts ==
  ASSUME BaseInv, NEW c \in Cqs, cq[c] # <<>>, cq' = [cq EXCEPT ![c] = Tail(@)]
  PROVE  /\ cq' \in [Cqs -> Seq(Cqes)]
         /\ FewerEntries
         /\ Entries(c)' = Entries(c) \ {Head(cq[c])}
         /\ \A d \in Cqs \ {c} : Entries(d)' = Entries(d)
         /\ \A f \in Entries(c) \ {Head(cq[c])} : Behind(c, Head(cq[c]), f)
  <1>1. cq \in [Cqs -> Seq(Cqes)] /\ \A d \in Cqs : Once(d)
    BY DEF BaseInv, TypeOK, PlacesInv
  <1>2. /\ cq' \in [Cqs -> Seq(Cqes)]
        /\ \A d \in Cqs :
             /\ Once(d)'
             /\ Entries(d)' = IF d = c THEN Entries(c) \ {Head(cq[c])} ELSE Entries(d)
        /\ \A d \in Cqs : \A e, f : Behind(d, e, f)' => Behind(d, e, f)
        /\ \A f \in Entries(c) \ {Head(cq[c])} : Behind(c, Head(cq[c]), f)
    BY <1>1, TailEntries
  <1>3. \A d \in Cqs : Entries(d)' \subseteq Entries(d)
    BY <1>2
  <1>4. FewerEntries
    BY <1>2, <1>3 DEF FewerEntries
  <1>5. QED
    BY <1>2, <1>4

(* The completion of a send is dispatched: what its call is, and that no   *)
(* other completion of it is left.                                         *)
LEMMA SendHead ==
  ASSUME BaseInv, NEW c \in Cqs, Head1(c, "send"), cq' = [cq EXCEPT ![c] = Tail(@)]
  PROVE  LET k == Head(cq[c]).who IN
         /\ c = SendCq /\ k \in Callers /\ pc[k] = "sending" /\ k \notin unacked
         /\ slotOf[k] \in Slots \ free /\ waiter[slotOf[k]] = None
         /\ \A e \in Entries(SendCq)' : e.op = "send" => e.who # k
         /\ Replies' = Replies
         /\ \A id : ReplyTo(id) \in Entries(RecvCq)' <=> ReplyTo(id) \in Entries(RecvCq)
  <1>1. PICK h \in Cqes : h = Head(cq[c]) /\ h \in Entries(c) /\ h.op = "send" /\ c = SendCq
                          /\ cq[c] # <<>>
    BY HeadEntry DEF Head1
  <1>2. h.who \in Callers
    BY <1>1, CqeFacts
  <1>3. PICK k \in Callers : k = h.who
    BY <1>2
  <1>4. /\ pc[k] = "sending" /\ k \notin unacked
        /\ \A f \in Entries(SendCq) : f.op = "send" /\ f.who = k => f = h
    BY <1>1, <1>3 DEF BaseInv, SendsOnce
  <1>5. CallInv(k) /\ Holds(k)
    BY <1>4 DEF BaseInv, Holds
  <1>6. slotOf[k] \in Slots \ free /\ waiter[slotOf[k]] = None
    BY <1>4, <1>5 DEF CallInv
  <1>7. /\ Entries(c)' = Entries(c) \ {h}
        /\ \A d \in Cqs \ {c} : Entries(d)' = Entries(d)
    BY <1>1, DispatchFacts
  <1>8. \A e \in Entries(SendCq)' : e.op = "send" => e.who # k
    BY <1>1, <1>4, <1>7
  <1>9. \A e : e.op = "recv" => (e \in Entries(RecvCq)' <=> e \in Entries(RecvCq))
    BY <1>1, <1>7, RpcAssumption
  <1>10. Replies' = Replies
    BY <1>9 DEF Replies
  <1>11. \A id : ReplyTo(id).op = "recv"
    BY DEF ReplyTo
  <1>12. \A id : ReplyTo(id) \in Entries(RecvCq)' <=> ReplyTo(id) \in Entries(RecvCq)
    BY <1>9, <1>11
  <1>13. QED
    BY <1>1, <1>3, <1>4, <1>6, <1>8, <1>10, <1>12

(* A send succeeded.                                                       *)
LEMMA SendDoneBase ==
  ASSUME BaseInv, NEW c \in Cqs, SendDone(c)
  PROVE  BaseInv'
  <1>1. Head1(c, "send") /\ cq[c] # <<>> /\ cq' = [cq EXCEPT ![c] = Tail(@)]
    BY DEF SendDone, Head1
  <1>2. PICK k \in Callers :
          /\ k = Head(cq[c]).who /\ pc[k] = "sending" /\ k \notin unacked
          /\ slotOf[k] \in Slots \ free
          /\ \A e \in Entries(SendCq)' : e.op = "send" => e.who # k
          /\ Replies' = Replies
          /\ \A id : ReplyTo(id) \in Entries(RecvCq)' <=> ReplyTo(id) \in Entries(RecvCq)
    BY <1>1, SendHead
  <1>3. /\ waiter' = [waiter EXCEPT ![slotOf[k]] = k]
        /\ pc' = [pc EXCEPT ![k] = "waiting"]
        /\ UNCHANGED <<calls, slotOf, reqId, ok, got, free, seq, expected, respBuf, job,
                       unacked, requests, recvs, at, inBuf, outBuf, qpUp, crashed>>
    BY <1>2 DEF SendDone, serverVars
  <1>4. /\ pc \in [Callers -> CallStates] /\ waiter \in [Slots -> Callers \cup {None}]
        /\ \A j \in Callers : CallInv(j)
    BY DEF BaseInv, TypeOK
  <1>5. cq' \in [Cqs -> Seq(Cqes)] /\ FewerEntries
    BY <1>1, DispatchFacts
  <1>6. TypeOK'
    <2>1. /\ pc' \in [Callers -> CallStates]
          /\ waiter' \in [Slots -> Callers \cup {None}]
      BY <1>2, <1>3, <1>4 DEF CallStates
    <2>2. QED
      BY <1>3, <1>5, <2>1 DEF BaseInv, TypeOK
  <1>7. ASSUME NEW j \in Callers PROVE CallInv(j)'
    <2>1. CallInv(j)
      BY <1>4
    <2>2. CASE j = k
      <3>1. pc'[k] = "waiting" /\ waiter'[slotOf[k]] = k
        BY <1>2, <1>3, <1>4
      <3>2. QED
        BY <1>2, <1>3, <2>1, <2>2, <3>1 DEF CallInv, Holds
    <2>3. CASE j # k
      <3>1. pc'[j] = pc[j]
        BY <1>3, <1>4, <2>3
      <3>2. Holds(j) => slotOf[j] # slotOf[k]
        BY <1>2, <1>4, <2>3, HoldersDiffer DEF Holds
      <3>3. Holds(j) => waiter'[slotOf[j]] = waiter[slotOf[j]]
        BY <1>2, <1>3, <1>4, <2>1, <3>2 DEF CallInv
      <3>4. QED
        BY <1>3, <2>1, <3>1, <3>3 DEF CallInv, Holds
    <2>4. QED
      BY <2>2, <2>3
  <1>8. PlacesInv' /\ SendsOnce'
    <2>1. \A j \in Callers \ {k} : pc'[j] = pc[j]
      BY <1>3, <1>4
    <2>2. QED
      BY <1>2, <1>3, <1>5, <2>1, KeepSends
  <1>9. QED
    BY <1>6, <1>7, <1>8 DEF BaseInv

LEMMA SendDoneInv ==
  ASSUME RpcInv, NEW c \in Cqs, SendDone(c)
  PROVE  RpcInv'
  <1>0. BaseInv
    BY RpcBase
  <1>1. Head1(c, "send") /\ cq[c] # <<>> /\ cq' = [cq EXCEPT ![c] = Tail(@)]
    BY DEF SendDone, Head1
  <1>2. PICK k \in Callers :
          /\ k = Head(cq[c]).who /\ pc[k] = "sending" /\ k \notin unacked
          /\ slotOf[k] \in Slots \ free
          /\ \A e \in Entries(SendCq)' : e.op = "send" => e.who # k
          /\ Replies' = Replies
          /\ \A id : ReplyTo(id) \in Entries(RecvCq)' <=> ReplyTo(id) \in Entries(RecvCq)
    BY <1>0, <1>1, SendHead
  <1>3. /\ waiter' = [waiter EXCEPT ![slotOf[k]] = k]
        /\ pc' = [pc EXCEPT ![k] = "waiting"]
        /\ UNCHANGED <<calls, slotOf, reqId, ok, got, free, seq, expected, respBuf, job,
                       unacked, requests, recvs, at, inBuf, outBuf, qpUp, crashed>>
    BY <1>2 DEF SendDone, serverVars
  <1>4. /\ pc \in [Callers -> CallStates] /\ waiter \in [Slots -> Callers \cup {None}]
        /\ \A j \in Callers : CallInv(j)
    BY DEF RpcInv, TypeOK
  <1>5. cq' \in [Cqs -> Seq(Cqes)] /\ FewerEntries
    BY <1>0, <1>1, DispatchFacts
  <1>6. TypeOK' /\ \A j \in Callers : CallInv(j)'
    BY <1>0, SendDoneBase DEF BaseInv
  <1>8. JobInv' /\ CreditInv'
    BY <1>2, <1>3 DEF RpcInv, JobInv, CreditInv
  <1>9. \A y : Spun(y)' <=> Spun(y)
    BY <1>3 DEF Spun
  <1>10. \A y : Arrived(y)' => Arrived(y)
    BY <1>2, <1>9 DEF Arrived, ReplyTo
  <1>11. ServingInv' /\ \A y : AtServer(y)' => AtServer(y)
    BY <1>3 DEF RpcInv, ServingInv, Serving, Carried, AtServer
  <1>12. \A y \in ReqIds : Asks(y) => Asks(y)'
    BY <1>3, <1>4 DEF Asks
  <1>13. OneReply'
    BY <1>2, <1>3, <1>9, <1>11, <1>12, KeepReplies DEF RpcInv
  <1>14. PlacesInv' /\ SendsInv'
    <2>1. \A j \in Callers \ {k} : pc'[j] = pc[j]
      BY <1>3, <1>4
    <2>2. \A y : Arrived(reqId[y])' => Arrived(reqId[y])
      BY <1>3, <1>10
    <2>3. QED
      BY <1>2, <1>3, <1>5, <2>1, <2>2, KeepCompletions DEF RpcInv, TypeOK
  <1>15. QED
    BY <1>3, <1>6, <1>8, <1>11, <1>13, <1>14 DEF RpcInv

(* A caller that runs on a poller.                                         *)
LEMMA RunningType ==
  ASSUME TypeOK, NEW k \in Callers, NEW b \in BOOLEAN
  PROVE  /\ Running(k, b) \in Jobs /\ Running(k, b).at = "run"
         /\ Running(k, b).worker = b
  BY DEF TypeOK, Running, Jobs

(* A send failed.                                                          *)
LEMMA SendFailedBase ==
  ASSUME BaseInv, NEW c \in Cqs, SendFailed(c)
  PROVE  BaseInv'
  <1>1. Head1(c, "send") /\ cq[c] # <<>> /\ cq' = [cq EXCEPT ![c] = Tail(@)]
        /\ job[c].at = "idle"
    BY DEF SendFailed, Head1
  <1>2. PICK k \in Callers :
          /\ k = Head(cq[c]).who /\ pc[k] = "sending" /\ k \notin unacked /\ c = SendCq
          /\ \A e \in Entries(SendCq)' : e.op = "send" => e.who # k
          /\ Replies' = Replies
          /\ \A id : ReplyTo(id) \in Entries(RecvCq)' <=> ReplyTo(id) \in Entries(RecvCq)
    BY <1>1, SendHead
  <1>3. /\ ok' = [ok EXCEPT ![k] = FALSE]
        /\ pc' = [pc EXCEPT ![k] = "finish"]
        /\ job' = [job EXCEPT ![c] = Running(k, FALSE)]
        /\ UNCHANGED <<calls, slotOf, reqId, got, free, seq, waiter, expected, respBuf,
                       unacked, requests, recvs, at, inBuf, outBuf, qpUp, crashed>>
    BY <1>2 DEF SendFailed, serverVars
  <1>4. /\ pc \in [Callers -> CallStates] /\ ok \in [Callers -> BOOLEAN]
        /\ job \in [Cqs -> Jobs] /\ TypeOK
        /\ \A j \in Callers : CallInv(j)
    BY DEF BaseInv, TypeOK
  <1>5. cq' \in [Cqs -> Seq(Cqes)] /\ FewerEntries
    BY <1>1, DispatchFacts
  <1>6. PICK r \in Jobs : r = Running(k, FALSE) /\ r.at = "run" /\ r.worker = FALSE
    BY <1>4, RunningType
  <1>7. TypeOK'
    <2>1. pc' \in [Callers -> CallStates]
      BY <1>3, <1>4 DEF CallStates
    <2>2. ok' \in [Callers -> BOOLEAN]
      BY <1>3, <1>4
    <2>3. job' \in [Cqs -> Jobs]
      BY <1>3, <1>4, <1>6
    <2>4. QED
      BY <1>3, <1>4, <1>5, <2>1, <2>2, <2>3 DEF TypeOK
  <1>8. ASSUME NEW j \in Callers PROVE CallInv(j)'
    <2>1. CallInv(j)
      BY <1>4
    <2>2. CASE j = k
      <3>1. pc'[k] = "finish" /\ ~ok'[k]
        BY <1>3, <1>4
      <3>2. QED
        BY <1>2, <1>3, <2>1, <2>2, <3>1 DEF CallInv, Holds
    <2>3. CASE j # k
      <3>1. pc'[j] = pc[j] /\ ok'[j] = ok[j]
        BY <1>3, <1>4, <2>3
      <3>2. QED
        BY <1>3, <2>1, <3>1 DEF CallInv, Holds
    <2>4. QED
      BY <2>2, <2>3
  <1>9. PlacesInv' /\ SendsOnce'
    <2>1. \A j \in Callers \ {k} : pc'[j] = pc[j]
      BY <1>3, <1>4
    <2>2. QED
      BY <1>2, <1>3, <1>5, <2>1, KeepSends
  <1>10. QED
    BY <1>7, <1>8, <1>9 DEF BaseInv

(* No reply to a failed send is left: it would be before it in the one    *)
(* CQ.                                                                     *)
LEMMA SendFailedInv ==
  ASSUME RpcInv, NEW c \in Cqs, SendFailed(c)
  PROVE  RpcInv'
  <1>0. BaseInv
    BY RpcBase
  <1>1. Head1(c, "send") /\ cq[c] # <<>> /\ cq' = [cq EXCEPT ![c] = Tail(@)]
        /\ job[c].at = "idle"
    BY DEF SendFailed, Head1
  <1>2. PICK k \in Callers :
          /\ k = Head(cq[c]).who /\ pc[k] = "sending" /\ k \notin unacked /\ c = SendCq
          /\ \A e \in Entries(SendCq)' : e.op = "send" => e.who # k
          /\ Replies' = Replies
          /\ \A id : ReplyTo(id) \in Entries(RecvCq)' <=> ReplyTo(id) \in Entries(RecvCq)
    BY <1>0, <1>1, SendHead
  <1>3. /\ ok' = [ok EXCEPT ![k] = FALSE]
        /\ pc' = [pc EXCEPT ![k] = "finish"]
        /\ job' = [job EXCEPT ![c] = Running(k, FALSE)]
        /\ UNCHANGED <<calls, slotOf, reqId, got, free, seq, waiter, expected, respBuf,
                       unacked, requests, recvs, at, inBuf, outBuf, qpUp, crashed>>
    BY <1>2 DEF SendFailed, serverVars
  <1>4. /\ pc \in [Callers -> CallStates] /\ ok \in [Callers -> BOOLEAN]
        /\ job \in [Cqs -> Jobs] /\ TypeOK
        /\ \A j \in Callers : CallInv(j)
    BY DEF RpcInv, TypeOK
  <1>5. cq' \in [Cqs -> Seq(Cqes)] /\ FewerEntries
    BY <1>0, <1>1, DispatchFacts
  <1>6. PICK r \in Jobs : r = Running(k, FALSE) /\ r.at = "run" /\ r.worker = FALSE
    BY <1>4, RunningType
  <1>7. TypeOK' /\ \A j \in Callers : CallInv(j)'
    BY <1>0, SendFailedBase DEF BaseInv
  <1>9. RecvCq \in Cqs /\ (c = RecvCq => ~job[c].worker)
        /\ \A d \in Cqs : job'[d] = IF d = c THEN r ELSE job[d]
    BY <1>1, <1>3, <1>4, <1>6, RpcAssumption DEF RpcInv, JobInv
  <1>10. JobInv'
    <2>1. \A d \in Cqs : /\ job'[d].at = "idle" => ~job'[d].worker
                         /\ d # RecvCq => job'[d].at # "spin" /\ ~job'[d].worker
      BY <1>6, <1>9 DEF RpcInv, JobInv
    <2>2. job'[RecvCq].at = "spin" => job'[RecvCq] = job[RecvCq]
      BY <1>6, <1>9
    <2>3. QED
      BY <1>3, <2>1, <2>2 DEF RpcInv, JobInv
  <1>11. CreditInv'
    <2>1. job'[RecvCq].worker <=> job[RecvCq].worker
      BY <1>6, <1>9
    <2>2. QED
      BY <1>2, <1>3, <2>1 DEF RpcInv, CreditInv
  <1>12. \A y : Spun(y)' => Spun(y)
    BY <1>3, <1>6, <1>9 DEF Spun
  <1>13. \A y : Arrived(y)' => Arrived(y)
    BY <1>2, <1>12 DEF Arrived, ReplyTo
  <1>14. ServingInv' /\ \A y : AtServer(y)' => AtServer(y)
    BY <1>3 DEF RpcInv, ServingInv, Serving, Carried, AtServer
  <1>15. ~AtServer(reqId[k]) /\ ~Arrived(reqId[k])
    <2>1. PICK h \in Entries(SendCq) : h = Head(cq[c]) /\ h.op = "send" /\ ~h.good
      BY <1>0, <1>1, <1>2, HeadEntry DEF SendFailed, Head1
    <2>2. /\ ~qpUp
          /\ Arrived(reqId[k]) => SendCq = RecvCq
          /\ ~Behind(SendCq, h, ReplyTo(reqId[k]))
      BY <1>2, <2>1 DEF RpcInv, SendsInv
    <2>3. ~AtServer(reqId[k])
      BY <2>2 DEF AtServer, Serving, RpcInv, ServingInv
    <2>4. ReplyTo(reqId[k]) # h
      BY <2>1 DEF ReplyTo
    <2>5. ReplyTo(reqId[k]) \notin Entries(SendCq)
      BY <1>0, <1>1, <1>2, <2>1, <2>2, <2>4, DispatchFacts
    <2>6. SendCq = RecvCq => ~Spun(reqId[k])
      BY <1>1, <1>2 DEF Spun
    <2>7. QED
      BY <2>2, <2>3, <2>5, <2>6 DEF Arrived
  <1>16. \A y \in ReqIds : Asks(y) /\ (AtServer(y)' \/ Arrived(y)') => Asks(y)'
    <2>1. ASSUME NEW y \in ReqIds, Asks(y), AtServer(y)' \/ Arrived(y)' PROVE Asks(y)'
      <3>1. y # reqId[k]
        BY <1>13, <1>14, <1>15, <2>1
      <3>2. respBuf[y.slot] \in Callers /\ respBuf[y.slot] # k
        BY <2>1, <3>1 DEF Asks
      <3>3. pc'[respBuf[y.slot]] = pc[respBuf[y.slot]]
        BY <1>3, <1>4, <3>2
      <3>4. QED
        BY <1>3, <2>1, <3>3 DEF Asks
    <2>2. QED
      BY <2>1
  <1>17. OneReply'
    BY <1>2, <1>3, <1>12, <1>14, <1>16, KeepReplies DEF RpcInv
  <1>18. PlacesInv' /\ SendsInv'
    <2>1. \A j \in Callers \ {k} : pc'[j] = pc[j]
      BY <1>3, <1>4
    <2>2. \A y : Arrived(reqId[y])' => Arrived(reqId[y])
      BY <1>3, <1>13
    <2>3. QED
      BY <1>2, <1>3, <1>5, <2>1, <2>2, KeepCompletions DEF RpcInv, TypeOK
  <1>19. QED
    BY <1>3, <1>7, <1>10, <1>11, <1>14, <1>17, <1>18 DEF RpcInv

(* A receive worker gets a reply: it is the one its slot expects.          *)
LEMMA ReplyInv ==
  ASSUME RpcInv, NEW c \in Cqs, Reply(c)
  PROVE  RpcInv'
  <1>0. BaseInv
    BY RpcBase
  <1>1. /\ cq[c] # <<>> /\ cq' = [cq EXCEPT ![c] = Tail(@)] /\ job[c].at = "idle"
        /\ Head(cq[c]).op = "recv"
    BY DEF Reply, Head1
  <1>2. PICK h \in Entries(c) : h = Head(cq[c]) /\ h \in Cqes /\ c = RecvCq /\ h.op = "recv"
    BY <1>0, <1>1, HeadEntry
  <1>3. PICK id \in ReqIds : id = h.id /\ h = ReplyTo(id)
    BY <1>2, CqeFacts
  <1>4. /\ pc \in [Callers -> CallStates] /\ got \in [Callers -> ReqIds \cup {None}]
        /\ job \in [Cqs -> Jobs] /\ TypeOK
        /\ \A j \in Callers : CallInv(j)
    BY DEF RpcInv, TypeOK
  <1>5. Arrived(id) /\ Asks(id) /\ ~AtServer(id)
    BY <1>2, <1>3 DEF Arrived, RpcInv, OneReply
  <1>6. PICK k \in Callers :
          /\ k = respBuf[id.slot] /\ pc[k] \in {"sending", "waiting"}
          /\ id.slot \in Slots /\ expected[id.slot] = id
    BY <1>4, <1>5, AsksHolder
  <1>7. PICK r : r = [at |-> "spin", slot |-> id.slot, who |-> None, worker |-> TRUE]
    OBVIOUS
  <1>8. r \in Jobs /\ r.at = "spin" /\ r.slot = id.slot /\ r.worker
    BY <1>6, <1>7 DEF Jobs
  <1>9. /\ got' = [got EXCEPT ![k] = id] /\ job' = [job EXCEPT ![c] = r]
        /\ UNCHANGED <<pc, calls, slotOf, reqId, ok, free, seq, waiter, expected, respBuf,
                       unacked, requests, recvs, at, inBuf, outBuf, qpUp, crashed>>
    BY <1>2, <1>3, <1>6, <1>7 DEF Reply, serverVars
  <1>10. /\ cq' \in [Cqs -> Seq(Cqes)] /\ FewerEntries
         /\ Entries(RecvCq)' = Entries(RecvCq) \ {h}
    BY <1>0, <1>1, <1>2, DispatchFacts
  <1>11. /\ \A d \in Cqs : job'[d] = IF d = RecvCq THEN r ELSE job[d]
         /\ RecvCq \in Cqs /\ job'[RecvCq] = r /\ ~job[RecvCq].worker
    BY <1>1, <1>2, <1>4, <1>9, RpcAssumption DEF RpcInv, JobInv
  <1>12. TypeOK'
    <2>1. got' \in [Callers -> ReqIds \cup {None}]
      BY <1>4, <1>9
    <2>2. job' \in [Cqs -> Jobs]
      BY <1>4, <1>8, <1>9
    <2>3. QED
      BY <1>4, <1>9, <1>10, <2>1, <2>2 DEF TypeOK
  <1>13. ASSUME NEW j \in Callers PROVE CallInv(j)'
    <2>1. CallInv(j)
      BY <1>4
    <2>2. pc[j] = "finish" => got'[j] = got[j]
      BY <1>4, <1>6, <1>9
    <2>3. QED
      BY <1>9, <2>1, <2>2 DEF CallInv, Holds
  <1>14. JobInv'
    <2>1. \A d \in Cqs : /\ job'[d].at = "idle" => ~job'[d].worker
                         /\ d # RecvCq => job'[d].at # "spin" /\ ~job'[d].worker
      BY <1>8, <1>11 DEF RpcInv, JobInv
    <2>2. got'[respBuf'[id.slot]] = id /\ expected'[id.slot] = id
      BY <1>4, <1>6, <1>9
    <2>3. QED
      BY <1>6, <1>8, <1>11, <2>1, <2>2 DEF JobInv
  <1>15. CreditInv'
    <2>1. Replies' = Replies \ {h} /\ h \in Replies
      BY <1>2, <1>10 DEF Replies
    <2>2. /\ IsFiniteSet(Replies) /\ Cardinality(Replies) \in Nat
          /\ Cardinality(Slots) \in Nat
      BY <1>4, CreditType
    <2>3. Cardinality(Replies') = Cardinality(Replies) - 1
      BY <2>1, <2>2, FS_RemoveElement
    <2>4. recvs \in 0..Cardinality(Slots)
      BY <1>4 DEF TypeOK
    <2>5. recvs + Cardinality(Replies) + 0 <= Cardinality(Slots)
      BY <1>11 DEF RpcInv, CreditInv
    <2>6. recvs' + Cardinality(Replies') + 1 <= Cardinality(Slots)
      BY <1>9, <2>2, <2>3, <2>4, <2>5
    <2>7. QED
      BY <1>8, <1>11, <2>6 DEF CreditInv
  <1>16. /\ ReplyTo(id) \notin Entries(RecvCq)'
         /\ \A y \in ReqIds : Spun(y)' => y = id
    <2>1. ASSUME NEW y \in ReqIds, Spun(y)' PROVE y = id
      BY <1>6, <1>8, <1>9, <1>11, <2>1 DEF Spun
    <2>2. QED
      BY <1>3, <1>10, <2>1
  <1>17. \A y \in ReqIds : Arrived(y)' => Arrived(y)
    BY <1>5, <1>10, <1>16 DEF Arrived, ReplyTo
  <1>18. ServingInv' /\ \A y : AtServer(y)' => AtServer(y)
    BY <1>9 DEF RpcInv, ServingInv, Serving, Carried, AtServer
  <1>19. \A y : Asks(y)' <=> Asks(y)
    BY <1>9 DEF Asks
  <1>20. OneReply'
    <2>1. ASSUME NEW y \in ReqIds
          PROVE  /\ AtServer(y)' \/ Arrived(y)' => Asks(y)'
                 /\ ~(AtServer(y)' /\ Arrived(y)')
                 /\ ~(Spun(y)' /\ ReplyTo(y) \in Entries(RecvCq)')
                 /\ AckFirst /\ Arrived(y)' => respBuf'[y.slot] \notin unacked'
      BY <1>9, <1>16, <1>17, <1>18, <1>19 DEF RpcInv, OneReply
    <2>2. QED
      BY <2>1 DEF OneReply, ReplyTo
  <1>21. PlacesInv' /\ SendsInv'
    <2>1. \A j \in Callers : pc[j] = "sending" =>
            (Arrived(reqId[j])' => Arrived(reqId[j]))
      BY <1>4, <1>9, <1>17, HolderAsks
    <2>2. QED
      BY <1>4, <1>9, <1>10, <2>1, KeepCompletions DEF RpcInv, TypeOK
  <1>22. QED
    BY <1>9, <1>12, <1>13, <1>14, <1>15, <1>18, <1>20, <1>21 DEF RpcInv

(* ... and resumes the call that waits in the slot.                        *)
LEMMA ResumeWaiterInv ==
  ASSUME RpcInv, NEW c \in Cqs, ResumeWaiter(c)
  PROVE  RpcInv'
  <1>1. c = RecvCq /\ job[RecvCq].at = "spin" /\ waiter[job[RecvCq].slot] # None
    BY DEF ResumeWaiter, RpcInv, JobInv
  <1>2. PICK s \in Slots :
          /\ s = job[RecvCq].slot
          /\ expected[s] \in ReqIds /\ expected[s].slot = s /\ Spun(expected[s])
          /\ respBuf[s] \in Callers /\ reqId[respBuf[s]] = expected[s]
          /\ got[respBuf[s]] = expected[s]
          /\ waiter[s] = respBuf[s] /\ pc[respBuf[s]] = "waiting"
    BY <1>1, SpinFacts
  <1>3. PICK k \in Callers : k = waiter[s] /\ k = respBuf[s]
    BY <1>2
  <1>4. /\ pc' = [pc EXCEPT ![k] = "finish"] /\ ok' = [ok EXCEPT ![k] = TRUE]
        /\ job' = [job EXCEPT ![RecvCq] = Running(k, TRUE)]
        /\ UNCHANGED <<calls, slotOf, reqId, got, free, seq, waiter, expected, respBuf, cq,
                       unacked, requests, recvs, at, inBuf, outBuf, qpUp, crashed>>
    BY <1>1, <1>2, <1>3 DEF ResumeWaiter, serverVars
  <1>5. /\ pc \in [Callers -> CallStates] /\ ok \in [Callers -> BOOLEAN]
        /\ job \in [Cqs -> Jobs] /\ TypeOK
        /\ \A j \in Callers : CallInv(j)
    BY DEF RpcInv, TypeOK
  <1>6. PICK r \in Jobs : r = Running(k, TRUE) /\ r.at = "run" /\ r.worker = TRUE
    BY <1>5, RunningType
  <1>7. TypeOK'
    <2>1. pc' \in [Callers -> CallStates]
      BY <1>4, <1>5 DEF CallStates
    <2>2. ok' \in [Callers -> BOOLEAN]
      BY <1>4, <1>5
    <2>3. job' \in [Cqs -> Jobs]
      BY <1>4, <1>5, <1>6
    <2>4. QED
      BY <1>4, <1>5, <2>1, <2>2, <2>3 DEF TypeOK
  <1>8. k \notin unacked /\ got[k] = reqId[k] /\ pc[k] = "waiting"
    BY <1>2, <1>3, <1>5 DEF CallInv
  <1>9. ASSUME NEW j \in Callers PROVE CallInv(j)'
    <2>1. CallInv(j)
      BY <1>5
    <2>2. CASE j = k
      <3>1. pc'[k] = "finish"
        BY <1>4, <1>5
      <3>2. QED
        BY <1>4, <1>8, <2>1, <2>2, <3>1 DEF CallInv, Holds
    <2>3. CASE j # k
      <3>1. pc'[j] = pc[j] /\ ok'[j] = ok[j]
        BY <1>4, <1>5, <2>3
      <3>2. QED
        BY <1>4, <2>1, <3>1 DEF CallInv, Holds
    <2>4. QED
      BY <2>2, <2>3
  <1>10. /\ \A d \in Cqs : job'[d] = IF d = RecvCq THEN r ELSE job[d]
         /\ RecvCq \in Cqs /\ job'[RecvCq] = r /\ job[RecvCq].worker
    BY <1>1, <1>4, <1>5, <1>6, RpcAssumption DEF RpcInv, JobInv
  <1>11. JobInv'
    BY <1>6, <1>10 DEF RpcInv, JobInv
  <1>12. Entries(RecvCq)' = Entries(RecvCq) /\ Replies' = Replies
    BY <1>4, SameEntries DEF Replies
  <1>13. CreditInv'
    BY <1>4, <1>6, <1>10, <1>12 DEF RpcInv, CreditInv
  <1>14. \A y : ~Spun(y)'
    BY <1>6, <1>10 DEF Spun
  <1>15. \A y : Arrived(y)' => Arrived(y)
    BY <1>12, <1>14 DEF Arrived, ReplyTo
  <1>16. ServingInv' /\ \A y : AtServer(y)' => AtServer(y)
    BY <1>4 DEF RpcInv, ServingInv, Serving, Carried, AtServer
  <1>17. ~AtServer(reqId[k]) /\ ReplyTo(reqId[k]) \notin Entries(RecvCq)
    BY <1>2, <1>3 DEF RpcInv, OneReply, Arrived
  <1>18. \A y \in ReqIds : Asks(y) /\ (AtServer(y)' \/ Arrived(y)') => Asks(y)'
    <2>1. ASSUME NEW y \in ReqIds, Asks(y), AtServer(y)' \/ Arrived(y)' PROVE Asks(y)'
      <3>1. y # reqId[k]
        BY <1>12, <1>14, <1>16, <1>17, <2>1 DEF Arrived, ReplyTo
      <3>2. respBuf[y.slot] \in Callers /\ respBuf[y.slot] # k
        BY <2>1, <3>1 DEF Asks
      <3>3. pc'[respBuf[y.slot]] = pc[respBuf[y.slot]]
        BY <1>4, <1>5, <3>2
      <3>4. QED
        BY <1>4, <2>1, <3>3 DEF Asks
    <2>2. QED
      BY <2>1
  <1>19. OneReply'
    BY <1>4, <1>12, <1>14, <1>16, <1>18, KeepReplies DEF RpcInv
  <1>20. PlacesInv' /\ SendsInv'
    <2>1. \A j \in Callers : pc[j] = "sending" =>
            /\ pc'[j] = "sending" /\ reqId'[j] = reqId[j]
            /\ Arrived(reqId[j])' => Arrived(reqId[j])
      BY <1>4, <1>5, <1>8, <1>15
    <2>2. QED
      BY <1>4, <2>1, KeepCompletions, SameIsFewer DEF RpcInv, TypeOK
  <1>21. QED
    BY <1>4, <1>7, <1>9, <1>11, <1>13, <1>16, <1>19, <1>20 DEF RpcInv

-----------------------------------------------------------------------------
(* The invariant.                                                          *)

(* It holds initially.                                                     *)
LEMMA InitRpc == Init => RpcInv
  <1> SUFFICES ASSUME Init PROVE RpcInv
    OBVIOUS
  <1>1. SendCq \in Cqs /\ RecvCq \in Cqs /\ Cardinality(Slots) \in Nat
        /\ MaxCalls \in Nat \ {0} /\ SeqMod \in Nat \ {0}
    BY RpcAssumption, FS_CardinalityType
  <1>2. \A c \in Cqs : Len(cq[c]) = 0 /\ Entries(c) = {}
    BY DEF Init, Entries
  <1>3. TypeOK
    <2>1. <<>> \in Seq(Cqes)
      BY EmptySeq
    <2>2. ok \in [Callers -> BOOLEAN]
      BY Zenon DEF Init
    <2>3. /\ pc \in [Callers -> CallStates] /\ calls \in [Callers -> 0..MaxCalls]
          /\ slotOf \in [Callers -> Slots \cup {None}]
          /\ reqId \in [Callers -> ReqIds \cup {None}]
          /\ got \in [Callers -> ReqIds \cup {None}]
          /\ free \subseteq Slots /\ seq \in Nat
      BY <1>1 DEF Init, CallStates
    <2>4. /\ waiter \in [Slots -> Callers \cup {None}]
          /\ expected \in [Slots -> ReqIds \cup {None}]
          /\ respBuf \in [Slots -> Callers \cup {None}]
          /\ cq \in [Cqs -> Seq(Cqes)] /\ job \in [Cqs -> Jobs]
      BY <2>1, IdleType DEF Init
    <2>5. /\ unacked \subseteq Callers /\ requests \subseteq ReqIds
          /\ at \in [Workers -> WorkerStates]
          /\ inBuf \in [Workers -> ReqIds \cup {None}]
          /\ outBuf \in [Workers -> ReqIds \cup {None}]
          /\ recvs \in 0..Cardinality(Slots)
      BY <1>1 DEF Init, ServerInit, WorkerStates
    <2>6. qpUp \in BOOLEAN /\ crashed \in BOOLEAN
      BY DEF Init
    <2>7. QED
      BY <2>2, <2>3, <2>4, <2>5, <2>6 DEF TypeOK
  <1>4. \A k \in Callers : CallInv(k)
    BY <1>1 DEF Init, CallInv, Holds
  <1>5. \A c \in Cqs : job[c].at = "idle" /\ ~job[c].worker
    BY IdleType DEF Init
  <1>6. JobInv
    BY <1>1, <1>5 DEF JobInv
  <1>7. Serving = {} /\ requests = {} /\ qpUp /\ ~crashed
    BY DEF Init, ServerInit, Serving
  <1>8. ServingInv
    BY <1>7 DEF ServingInv
  <1>9. OneReply
    BY <1>1, <1>2, <1>5, <1>7 DEF OneReply, AtServer, Arrived, Spun
  <1>10. PlacesInv /\ SendsInv
    BY <1>1, <1>2 DEF PlacesInv, SendsInv, Once
  <1>11. CreditInv
    <2>1. Replies = {}
      BY <1>1, <1>2 DEF Replies
    <2>2. Cardinality(Replies) = 0
      BY <2>1, FS_EmptySet
    <2>3. recvs = Cardinality(Slots)
      BY DEF Init
    <2>4. QED
      BY <1>1, <1>5, <2>2, <2>3 DEF CreditInv
  <1>12. QED
    BY <1>3, <1>4, <1>6, <1>7, <1>8, <1>9, <1>10, <1>11 DEF RpcInv

(* Every step keeps it.                                                    *)
LEMMA StepRpc ==
  ASSUME NoLateFlush \/ qpUp, RpcInv, [Next]_vars
  PROVE  RpcInv'
  <1>1. CASE UNCHANGED vars
    <2>1. /\ UNCHANGED <<clientVars, qpUp, requests, at, inBuf, outBuf>>
      BY <1>1 DEF vars, serverVars
    <2>2. TypeOK'
      BY <2>1 DEF RpcInv, TypeOK, clientVars
    <2>3. ServingInv' /\ \A y : AtServer(y)' => AtServer(y)
      BY <2>1 DEF RpcInv, ServingInv, Serving, Carried, AtServer
    <2>4. respBuf' = respBuf /\ unacked' = unacked
      BY <2>1 DEF clientVars
    <2>5. OneReply'
      BY <2>1, <2>3, <2>4, KeepClient, KeepReplies DEF RpcInv
    <2>6. QED
      BY <2>1, <2>2, <2>3, <2>5, KeepClient DEF RpcInv
  <1>2. ASSUME NEW k \in Callers, CallStep(k) PROVE RpcInv'
    BY <1>2, AcquireInv, SendInv, FinishInv DEF CallStep
  <1>3. ASSUME NEW c \in Cqs, PollerStep(c) PROVE RpcInv'
    BY <1>3, SendDoneInv, SendFailedInv, ReplyInv, ResumeWaiterInv DEF PollerStep
  <1>4. CASE NetworkStep
    BY <1>4, ReportSendInv, DeliverInv, DisconnectInv DEF NetworkStep
  <1>5. ASSUME NEW w \in Workers, ServerStep(w) PROVE RpcInv'
    BY <1>5, ServerStepInv
  <1>6. QED
    BY <1>1, <1>2, <1>3, <1>4, <1>5 DEF Next, AllDone

-----------------------------------------------------------------------------
(* After a disconnection, however late the sends are flushed.              *)

(* As long as the connection is up, or flushes come in time, every reply   *)
(* that is here belongs to a call that still waits for it.                 *)
LEMMA LateFromRpc ==
  ASSUME RpcInv, ~qpUp
  PROVE  LateInv
  <1>1. BaseInv
    BY RpcBase
  <1>2. \A c \in Cqs : job[c].at = "spin" => c = RecvCq /\ job[c].slot \in Slots
    BY DEF RpcInv, JobInv
  <1>3. RecvCq \in Cqs /\ cq \in [Cqs -> Seq(Cqes)] /\ \A k \in Callers : CallInv(k)
    BY RpcAssumption DEF RpcInv, TypeOK
  <1>4. ASSUME NEW e \in Replies
        PROVE  e.id \in ReqIds /\ e = ReplyTo(e.id) /\ Asks(e.id) /\ ~Spun(e.id)
    <2>1. e \in Cqes /\ e.op = "recv"
      BY <1>3, EntriesType DEF Replies
    <2>2. e.id \in ReqIds /\ e = ReplyTo(e.id)
      BY <2>1, CqeFacts
    <2>3. ReplyTo(e.id) \in Entries(RecvCq)
      BY <2>2 DEF Replies
    <2>4. QED
      BY <2>2, <2>3 DEF RpcInv, OneReply, Arrived
  <1>5. ASSUME NEW s \in Slots PROVE LateReply(s)
    <2>1. ASSUME Here(s)
          PROVE  /\ respBuf[s] \in Callers /\ pc[respBuf[s]] \in {"sending", "waiting"}
                 /\ slotOf[respBuf[s]] = s
                 /\ SpunAt(s) => got[respBuf[s]] = reqId[respBuf[s]]
      <3>1. CASE SpunAt(s)
        BY <3>1, SpinFacts DEF SpunAt
      <3>2. CASE ~SpunAt(s)
        <4>1. PICK e \in Replies : e.id.slot = s
          BY <2>1, <3>2 DEF Here
        <4>2. QED
          BY <1>3, <1>4, <3>2, <4>1, AsksHolder
      <3>3. QED
        BY <3>1, <3>2
    <2>2. ASSUME Here(s), waiter[s] # None
          PROVE  waiter[s] = respBuf[s] /\ pc[waiter[s]] = "waiting"
      <3>1. CallInv(respBuf[s]) /\ Holds(respBuf[s])
        BY <1>3, <2>1, <2>2 DEF Holds
      <3>2. QED
        BY <2>1, <2>2, <3>1 DEF CallInv
    <2>3. ASSUME NEW e \in Replies, NEW f \in Replies, e.id.slot = s, f.id.slot = s
          PROVE  e = f /\ ~SpunAt(s)
      <3>1. e.id = reqId[respBuf[s]] /\ f.id = reqId[respBuf[s]] /\ expected[s] = e.id
        BY <1>3, <1>4, <2>3, AsksHolder
      <3>2. e = f
        BY <1>4, <3>1
      <3>3. ~SpunAt(s)
        BY <1>4, <3>1 DEF SpunAt, Spun
      <3>4. QED
        BY <3>2, <3>3
    <2>4. QED
      BY <2>1, <2>2, <2>3 DEF LateReply
  <1>6. QED
    BY <1>1, <1>2, <1>5 DEF LateInv

(* A step of a call that has no reply to come, before or after it, keeps   *)
(* the replies of the others in their places.                              *)
LEMMA LateOwn ==
  ASSUME LateInv, NEW k \in Callers, pc[k] # "waiting", ~Sound(k)',
         Replies' = Replies,
         \A s \in Slots : SpunAt(s)' => SpunAt(s),
         \A j \in Callers \ {k} :
           /\ pc'[j] = pc[j] /\ slotOf'[j] = slotOf[j] /\ reqId'[j] = reqId[j]
           /\ got'[j] = got[j] /\ (Sound(j)' => Sound(j)),
         \A s \in Slots : \/ waiter'[s] = waiter[s] /\ respBuf'[s] = respBuf[s]
                          \/ waiter'[s] = None /\ respBuf'[s] = k
  PROVE  \A s \in Slots : LateReply(s)'
  <1> SUFFICES ASSUME NEW s \in Slots PROVE LateReply(s)'
    OBVIOUS
  <1>1. LateReply(s) /\ waiter[s] \in Callers \cup {None}
    BY DEF LateInv, BaseInv, TypeOK
  <1>2. Here(s)' => Here(s)
    BY DEF Here
  <1>3. ASSUME Here(s)', waiter'[s] # None
        PROVE  waiter'[s] = respBuf'[s] /\ pc'[waiter'[s]] = "waiting"
    <2>1. /\ waiter'[s] = waiter[s] /\ respBuf'[s] = respBuf[s]
          /\ waiter[s] = respBuf[s] /\ pc[waiter[s]] = "waiting"
      BY <1>1, <1>2, <1>3 DEF LateReply
    <2>2. QED
      BY <1>1, <1>3, <2>1
  <1>4. ASSUME Here(s)', NEW j \in Callers, j = respBuf'[s], Sound(j)'
        PROVE  /\ slotOf'[j] = s /\ pc'[j] \in {"sending", "waiting"}
               /\ SpunAt(s)' => got'[j] = reqId'[j]
    <2>1. j # k /\ j = respBuf[s] /\ Sound(j)
      BY <1>4
    <2>2. QED
      BY <1>1, <1>2, <1>4, <2>1 DEF LateReply
  <1>5. \A e, f \in Replies' : e.id.slot = s /\ f.id.slot = s => e = f /\ ~SpunAt(s)'
    BY <1>1 DEF LateReply
  <1>6. QED
    BY <1>3, <1>4, <1>5 DEF LateReply

(* The calls.                                                              *)
LEMMA LateAcquire ==
  ASSUME LateInv, NEW k \in Callers, Acquire(k)
  PROVE  LateInv'
  <1>1. BaseInv /\ BaseInv' /\ SendsOnce'
    BY AcquireBase DEF LateInv, BaseInv
  <1>2. PICK s \in free :
          /\ slotOf' = [slotOf EXCEPT ![k] = s]
          /\ reqId' = [reqId EXCEPT ![k] = MakeReqId(seq, s)]
          /\ FillSlot(s, k, MakeReqId(seq, s))
    BY DEF Acquire
  <1>3. /\ pc[k] = "call" /\ pc' = [pc EXCEPT ![k] = "ready"]
        /\ waiter' = [waiter EXCEPT ![s] = None] /\ respBuf' = [respBuf EXCEPT ![s] = k]
        /\ UNCHANGED <<ok, got, cq, job, qpUp>>
    BY <1>2 DEF Acquire, FillSlot
  <1>4. /\ pc \in [Callers -> CallStates] /\ slotOf \in [Callers -> Slots \cup {None}]
        /\ reqId \in [Callers -> ReqIds \cup {None}]
        /\ waiter \in [Slots -> Callers \cup {None}]
        /\ respBuf \in [Slots -> Callers \cup {None}]
    BY <1>1 DEF BaseInv, TypeOK
  <1>5. (\A c : Entries(c)' = Entries(c)) /\ Replies' = Replies
    BY <1>3, SameEntries DEF Replies
  <1>6. ~Sound(k)'
    <2>1. pc'[k] = "ready"
      BY <1>3, <1>4
    <2>2. QED
      BY <1>1, <2>1 DEF Sound, SendsOnce
  <1>7. \A j \in Callers \ {k} :
          /\ pc'[j] = pc[j] /\ slotOf'[j] = slotOf[j] /\ reqId'[j] = reqId[j]
          /\ got'[j] = got[j] /\ (Sound(j)' => Sound(j))
    BY <1>2, <1>3, <1>4, <1>5 DEF Sound
  <1>8. \A t \in Slots : \/ waiter'[t] = waiter[t] /\ respBuf'[t] = respBuf[t]
                         \/ waiter'[t] = None /\ respBuf'[t] = k
    BY <1>3, <1>4
  <1>9. \A t \in Slots : LateReply(t)'
    BY <1>3, <1>5, <1>6, <1>7, <1>8, LateOwn DEF SpunAt
  <1>10. QED
    BY <1>1, <1>3, <1>9 DEF LateInv

(* Once the connection is down a poller that is given back posts nothing.  *)
LEMMA LateYield ==
  ASSUME LateInv, NEW k \in Callers, Yield(k) \/ UNCHANGED <<job, recvs>>
  PROVE  /\ job' \in [Cqs -> Jobs] /\ recvs' \in 0..Cardinality(Slots)
         /\ \A c \in Cqs : job'[c].at = "spin" => c = RecvCq /\ job'[c].slot \in Slots
         /\ \A s \in Slots : SpunAt(s)' => SpunAt(s)
  <1>1. /\ job \in [Cqs -> Jobs] /\ recvs \in 0..Cardinality(Slots) /\ RecvCq \in Cqs
        /\ \A c \in Cqs : job[c].at = "spin" => c = RecvCq /\ job[c].slot \in Slots
        /\ ~qpUp
    BY RpcAssumption DEF LateInv, BaseInv, TypeOK
  <1>2. job' \in [Cqs -> Jobs] /\ \A c \in Cqs : job'[c] = job[c] \/ job'[c] = Idle
    BY <1>1, IdleType DEF Yield
  <1>3. recvs' = recvs
    BY <1>1 DEF Yield
  <1>4. QED
    BY <1>1, <1>2, <1>3, IdleType DEF SpunAt

LEMMA LateSend ==
  ASSUME LateInv, NEW k \in Callers, Send(k)
  PROVE  LateInv'
  <1>1. /\ pc[k] = "ready" /\ pc' = [pc EXCEPT ![k] = "sending"] /\ Yield(k)
        /\ UNCHANGED <<slotOf, reqId, ok, got, waiter, respBuf, cq, qpUp>>
    BY DEF Send
  <1>2. /\ job' \in [Cqs -> Jobs] /\ recvs' \in 0..Cardinality(Slots)
        /\ \A c \in Cqs : job'[c].at = "spin" => c = RecvCq /\ job'[c].slot \in Slots
        /\ \A s \in Slots : SpunAt(s)' => SpunAt(s)
    BY <1>1, LateYield
  <1>3. BaseInv /\ BaseInv' /\ SendsOnce /\ pc \in [Callers -> CallStates]
    BY <1>2, SendBase DEF LateInv, BaseInv, TypeOK
  <1>4. (\A c : Entries(c)' = Entries(c)) /\ Replies' = Replies
    BY <1>1, SameEntries DEF Replies
  <1>5. ~Sound(k)'
    <2>1. pc'[k] = "sending"
      BY <1>1, <1>3
    <2>2. QED
      BY <1>1, <1>3, <1>4, <2>1 DEF Sound, SendsOnce
  <1>6. \A j \in Callers \ {k} : pc'[j] = pc[j] /\ (Sound(j)' => Sound(j))
    BY <1>1, <1>3, <1>4 DEF Sound
  <1>7. \A s \in Slots : LateReply(s)'
    BY <1>1, <1>2, <1>4, <1>5, <1>6, LateOwn
  <1>8. QED
    BY <1>1, <1>2, <1>3, <1>7 DEF LateInv

LEMMA LateFinish ==
  ASSUME LateInv, NEW k \in Callers, Finish(k)
  PROVE  LateInv'
  <1>1. /\ pc[k] = "finish"
        /\ Yield(k) \/ UNCHANGED <<job, recvs>>
        /\ pc' = [pc EXCEPT ![k] = IF LastCall(k) THEN "done" ELSE "call"]
        /\ UNCHANGED <<slotOf, reqId, ok, got, waiter, respBuf, cq, qpUp>>
    BY DEF Finish
  <1>2. /\ job' \in [Cqs -> Jobs] /\ recvs' \in 0..Cardinality(Slots)
        /\ \A c \in Cqs : job'[c].at = "spin" => c = RecvCq /\ job'[c].slot \in Slots
        /\ \A s \in Slots : SpunAt(s)' => SpunAt(s)
    BY <1>1, LateYield
  <1>3. BaseInv /\ BaseInv' /\ SendsOnce' /\ pc \in [Callers -> CallStates]
    BY <1>2, FinishBase DEF LateInv, BaseInv, TypeOK
  <1>4. (\A c : Entries(c)' = Entries(c)) /\ Replies' = Replies
    BY <1>1, SameEntries DEF Replies
  <1>5. ~Sound(k)'
    <2>1. pc'[k] \in {"done", "call"}
      BY <1>1, <1>3
    <2>2. QED
      BY <1>3, <2>1 DEF Sound, SendsOnce
  <1>6. \A j \in Callers \ {k} : pc'[j] = pc[j] /\ (Sound(j)' => Sound(j))
    BY <1>1, <1>3, <1>4 DEF Sound
  <1>7. \A s \in Slots : LateReply(s)'
    BY <1>1, <1>2, <1>4, <1>5, <1>6, LateOwn
  <1>8. QED
    BY <1>1, <1>2, <1>3, <1>7 DEF LateInv

(* The pollers.                                                            *)
LEMMA LateSendFailed ==
  ASSUME LateInv, NEW c \in Cqs, SendFailed(c)
  PROVE  LateInv'
  <1>1. Head1(c, "send") /\ cq[c] # <<>> /\ cq' = [cq EXCEPT ![c] = Tail(@)]
    BY DEF SendFailed, Head1
  <1>2. BaseInv /\ BaseInv' /\ SendsOnce' /\ SendCq \in Cqs /\ RecvCq \in Cqs
    BY SendFailedBase, RpcAssumption DEF LateInv, BaseInv
  <1>3. PICK k \in Callers :
          /\ k = Head(cq[c]).who /\ pc[k] = "sending"
          /\ \A e \in Entries(SendCq)' : e.op = "send" => e.who # k
          /\ Replies' = Replies
    BY <1>1, <1>2, SendHead
  <1>4. /\ ok' = [ok EXCEPT ![k] = FALSE] /\ pc' = [pc EXCEPT ![k] = "finish"]
        /\ job' = [job EXCEPT ![c] = Running(k, FALSE)]
        /\ UNCHANGED <<slotOf, reqId, got, waiter, respBuf, qpUp>>
    BY <1>3 DEF SendFailed
  <1>5. /\ TypeOK /\ pc \in [Callers -> CallStates] /\ ok \in [Callers -> BOOLEAN]
        /\ job \in [Cqs -> Jobs]
    BY <1>2 DEF BaseInv, TypeOK
  <1>6. /\ \A d \in Cqs : job'[d] = job[d] \/ job'[d].at = "run"
        /\ \A s \in Slots : SpunAt(s)' => SpunAt(s)
    BY <1>2, <1>4, <1>5, RunningType DEF SpunAt
  <1>7. Entries(SendCq)' \subseteq Entries(SendCq)
    BY <1>1, <1>2, DispatchFacts DEF FewerEntries
  <1>8. ~Sound(k)'
    <2>1. pc'[k] = "finish" /\ ~ok'[k]
      BY <1>4, <1>5
    <2>2. QED
      BY <1>3, <2>1 DEF Sound
  <1>9. \A j \in Callers \ {k} : pc'[j] = pc[j] /\ (Sound(j)' => Sound(j))
    BY <1>4, <1>5, <1>7 DEF Sound
  <1>10. \A s \in Slots : LateReply(s)'
    BY <1>3, <1>4, <1>6, <1>8, <1>9, LateOwn
  <1>11. QED
    BY <1>2, <1>4, <1>6, <1>10 DEF LateInv

(* A send that was acknowledged in time: its call, not an older one of the *)
(* slot, stores its handle.                                                *)
LEMMA LateSendDone ==
  ASSUME LateInv, NEW c \in Cqs, SendDone(c)
  PROVE  LateInv'
  <1>1. Head1(c, "send") /\ cq[c] # <<>> /\ cq' = [cq EXCEPT ![c] = Tail(@)]
        /\ Head(cq[c]).good /\ Head(cq[c]).op = "send"
    BY DEF SendDone, Head1
  <1>2. /\ BaseInv /\ BaseInv' /\ SendCq \in Cqs /\ RecvCq \in Cqs /\ TypeOK
        /\ \A j \in Callers : CallInv(j)
    BY SendDoneBase, RpcAssumption DEF LateInv, BaseInv
  <1>3. PICK k \in Callers :
          /\ k = Head(cq[c]).who /\ pc[k] = "sending" /\ slotOf[k] \in Slots
          /\ c = SendCq /\ Replies' = Replies
    BY <1>1, <1>2, SendHead
  <1>4. /\ waiter' = [waiter EXCEPT ![slotOf[k]] = k] /\ pc' = [pc EXCEPT ![k] = "waiting"]
        /\ UNCHANGED <<slotOf, reqId, ok, got, respBuf, job, qpUp>>
    BY <1>3 DEF SendDone
  <1>5. /\ pc \in [Callers -> CallStates] /\ waiter \in [Slots -> Callers \cup {None}]
        /\ respBuf[slotOf[k]] = k
    BY <1>2, <1>3 DEF TypeOK, CallInv, Holds
  <1>6. Entries(SendCq)' \subseteq Entries(SendCq) /\ Head(cq[c]) \in Entries(SendCq)
    BY <1>1, <1>2, <1>3, DispatchFacts, HeadEntry DEF FewerEntries
  <1>7. Sound(k)
    BY <1>1, <1>3, <1>6 DEF Sound
  <1>8. pc'[k] = "waiting" /\ \A j \in Callers \ {k} : pc'[j] = pc[j] /\ (Sound(j)' => Sound(j))
    BY <1>4, <1>5, <1>6 DEF Sound
  <1>9. ASSUME NEW s \in Slots PROVE LateReply(s)'
    <2>1. LateReply(s) /\ (SpunAt(s)' <=> SpunAt(s)) /\ (Here(s)' <=> Here(s))
      BY <1>3, <1>4 DEF LateInv, SpunAt, Here
    <2>2. ASSUME Here(s)', waiter'[s] # None
          PROVE  waiter'[s] = respBuf'[s] /\ pc'[waiter'[s]] = "waiting"
      <3>1. CASE s = slotOf[k]
        BY <1>3, <1>4, <1>5, <1>8, <3>1
      <3>2. CASE s # slotOf[k]
        BY <1>3, <1>4, <1>5, <1>8, <2>1, <2>2, <3>2 DEF LateReply
      <3>3. QED
        BY <3>1, <3>2
    <2>3. ASSUME Here(s)', NEW j \in Callers, j = respBuf'[s], Sound(j)'
          PROVE  /\ slotOf'[j] = s /\ pc'[j] \in {"sending", "waiting"}
                 /\ SpunAt(s)' => got'[j] = reqId'[j]
      BY <1>4, <1>7, <1>8, <2>1, <2>3 DEF LateReply
    <2>4. \A e, f \in Replies' : e.id.slot = s /\ f.id.slot = s => e = f /\ ~SpunAt(s)'
      BY <1>3, <2>1 DEF LateReply
    <2>5. QED
      BY <2>2, <2>3, <2>4 DEF LateReply
  <1>10. QED
    BY <1>2, <1>4, <1>9 DEF LateInv

(* A receive worker gets a reply: the mismatch ends the program, else the  *)
(* call of the slot, if it can still succeed, is the one that asked.       *)
LEMMA LateReplyStep ==
  ASSUME LateInv, NEW c \in Cqs, Reply(c)
  PROVE  LateInv'
  <1>1. /\ cq[c] # <<>> /\ cq' = [cq EXCEPT ![c] = Tail(@)] /\ job[c].at = "idle"
        /\ Head(cq[c]).op = "recv"
        /\ UNCHANGED <<pc, calls, slotOf, reqId, ok, free, seq, waiter, expected, respBuf,
                       unacked, requests, recvs, at, inBuf, outBuf, qpUp>>
    BY DEF Reply, Head1, serverVars
  <1>2. /\ BaseInv /\ TypeOK /\ SendCq \in Cqs /\ RecvCq \in Cqs
        /\ \A j \in Callers : CallInv(j)
        /\ got \in [Callers -> ReqIds \cup {None}] /\ job \in [Cqs -> Jobs]
        /\ respBuf \in [Slots -> Callers \cup {None}]
    BY RpcAssumption DEF LateInv, BaseInv, TypeOK
  <1>3. PICK h \in Entries(c) : h = Head(cq[c]) /\ h \in Cqes /\ c = RecvCq /\ h.op = "recv"
    BY <1>1, <1>2, HeadEntry
  <1>4. PICK id \in ReqIds : id = h.id /\ id.slot \in Slots
    BY <1>3, CqeFacts DEF ReqIds
  <1>5. PICK r : r = [at |-> "spin", slot |-> id.slot, who |-> None, worker |-> TRUE]
    OBVIOUS
  <1>6. r \in Jobs /\ r.at = "spin" /\ r.slot = id.slot
    BY <1>4, <1>5 DEF Jobs
  <1>7. \/ crashed' = TRUE /\ UNCHANGED <<got, job>>
        \/ /\ expected[id.slot] = id /\ crashed' = crashed
           /\ got' = [got EXCEPT ![respBuf[id.slot]] = id]
           /\ job' = [job EXCEPT ![RecvCq] = r]
    BY <1>3, <1>4, <1>5 DEF Reply
  <1>8. /\ cq' \in [Cqs -> Seq(Cqes)] /\ FewerEntries
        /\ Entries(RecvCq)' = Entries(RecvCq) \ {h}
        /\ Replies' = Replies \ {h} /\ h \in Replies
        /\ Entries(SendCq)' \subseteq Entries(SendCq)
    BY <1>1, <1>2, <1>3, DispatchFacts DEF FewerEntries, Replies
  <1>9. TypeOK'
    <2>1. got' \in [Callers -> ReqIds \cup {None}] /\ job' \in [Cqs -> Jobs]
      BY <1>2, <1>4, <1>6, <1>7
    <2>2. crashed' \in BOOLEAN
      BY <1>2, <1>7 DEF TypeOK
    <2>3. QED
      BY <1>1, <1>2, <1>8, <2>1, <2>2 DEF TypeOK
  <1>10. \A j \in Callers : Sound(j)' => Sound(j)
    BY <1>1, <1>8 DEF Sound
  <1>11. LateReply(id.slot) /\ Here(id.slot)
    BY <1>4, <1>8 DEF LateInv, Here
  <1>12. ASSUME NEW j \in Callers, Sound(j), j = respBuf[id.slot]
         PROVE  /\ slotOf[j] = id.slot /\ pc[j] \in {"sending", "waiting"}
                /\ expected[id.slot] = reqId[j]
    <2>1. slotOf[j] = id.slot /\ pc[j] \in {"sending", "waiting"}
      BY <1>11, <1>12 DEF LateReply
    <2>2. QED
      BY <1>2, <2>1 DEF CallInv, Holds
  <1>13. ASSUME NEW j \in Callers PROVE CallInv(j)'
    <2>1. CallInv(j)
      BY <1>2
    <2>2. pc[j] = "finish" /\ ok[j] => got'[j] = got[j]
      <3>1. pc[j] = "finish" /\ ok[j] => Sound(j) /\ j # respBuf[id.slot]
        BY <1>12 DEF Sound
      <3>2. QED
        BY <1>2, <1>7, <3>1
    <2>3. QED
      BY <1>1, <2>1, <2>2 DEF CallInv, Holds
  <1>14. BaseInv'
    BY <1>1, <1>2, <1>8, <1>9, <1>13, KeepSends DEF BaseInv
  <1>15. \A d \in Cqs : job'[d].at = "spin" => d = RecvCq /\ job'[d].slot \in Slots
    BY <1>2, <1>4, <1>6, <1>7 DEF LateInv
  <1>16. ASSUME NEW s \in Slots PROVE LateReply(s)'
    <2>1. LateReply(s)
      BY DEF LateInv
    <2>2. /\ SpunAt(s)' => s = id.slot /\ job'[RecvCq] = r /\ expected[id.slot] = id
                           /\ got' = [got EXCEPT ![respBuf[id.slot]] = id]
          /\ Here(s)' => Here(s)
      <3>1. SpunAt(s)' => s = id.slot /\ job'[RecvCq] = r /\ expected[id.slot] = id
                          /\ got' = [got EXCEPT ![respBuf[id.slot]] = id]
        BY <1>1, <1>2, <1>3, <1>6, <1>7 DEF SpunAt
      <3>2. QED
        BY <1>8, <1>11, <3>1 DEF Here
    <2>3. ASSUME Here(s)', waiter'[s] # None
          PROVE  waiter'[s] = respBuf'[s] /\ pc'[waiter'[s]] = "waiting"
      BY <1>1, <2>1, <2>2, <2>3 DEF LateReply
    <2>4. ASSUME Here(s)', NEW j \in Callers, j = respBuf'[s], Sound(j)'
          PROVE  /\ slotOf'[j] = s /\ pc'[j] \in {"sending", "waiting"}
                 /\ SpunAt(s)' => got'[j] = reqId'[j]
      <3>1. slotOf[j] = s /\ pc[j] \in {"sending", "waiting"}
        BY <1>1, <1>10, <2>1, <2>2, <2>4 DEF LateReply
      <3>2. SpunAt(s)' => got'[j] = reqId[j]
        BY <1>1, <1>2, <1>10, <1>12, <2>2, <2>4
      <3>3. QED
        BY <1>1, <3>1, <3>2
    <2>5. ASSUME NEW e \in Replies', NEW f \in Replies', e.id.slot = s, f.id.slot = s
          PROVE  e = f /\ ~SpunAt(s)'
      <3>1. e \in Replies /\ f \in Replies /\ e # h
        BY <1>8
      <3>2. e = f
        BY <2>1, <2>5, <3>1 DEF LateReply
      <3>3. s # id.slot
        BY <1>3, <1>4, <1>8, <2>1, <2>5, <3>1 DEF LateReply
      <3>4. QED
        BY <2>2, <3>2, <3>3
    <2>6. QED
      BY <2>3, <2>4, <2>5 DEF LateReply
  <1>17. QED
    BY <1>1, <1>14, <1>15, <1>16 DEF LateInv

(* ... and resumes the waiter it finds, which is the call that asked.      *)
LEMMA LateResume ==
  ASSUME LateInv, NEW c \in Cqs, ResumeWaiter(c)
  PROVE  LateInv'
  <1>1. /\ TypeOK /\ RecvCq \in Cqs /\ BaseInv
        /\ \A j \in Callers : CallInv(j)
        /\ pc \in [Callers -> CallStates] /\ ok \in [Callers -> BOOLEAN]
        /\ job \in [Cqs -> Jobs] /\ waiter \in [Slots -> Callers \cup {None}]
    BY RpcAssumption DEF LateInv, BaseInv, TypeOK
  <1>2. PICK s \in Slots : /\ c = RecvCq /\ s = job[RecvCq].slot /\ waiter[s] # None
                           /\ SpunAt(s) /\ Here(s) /\ LateReply(s)
    BY DEF ResumeWaiter, LateInv, SpunAt, Here
  <1>3. PICK k \in Callers : /\ k = waiter[s] /\ k = respBuf[s] /\ pc[k] = "waiting"
                             /\ Sound(k) /\ slotOf[k] = s /\ got[k] = reqId[k]
    BY <1>1, <1>2 DEF LateReply, Sound
  <1>4. /\ pc' = [pc EXCEPT ![k] = "finish"] /\ ok' = [ok EXCEPT ![k] = TRUE]
        /\ job' = [job EXCEPT ![RecvCq] = Running(k, TRUE)]
        /\ UNCHANGED <<calls, slotOf, reqId, got, free, seq, waiter, expected, respBuf, cq,
                       unacked, requests, recvs, at, inBuf, outBuf, qpUp, crashed>>
    BY <1>2, <1>3 DEF ResumeWaiter, serverVars
  <1>5. PICK r \in Jobs : r = Running(k, TRUE) /\ r.at = "run"
    BY <1>1, RunningType
  <1>6. TypeOK'
    <2>1. pc' \in [Callers -> CallStates]
      BY <1>1, <1>4 DEF CallStates
    <2>2. ok' \in [Callers -> BOOLEAN]
      BY <1>1, <1>4
    <2>3. job' \in [Cqs -> Jobs]
      BY <1>1, <1>4, <1>5
    <2>4. QED
      BY <1>1, <1>4, <2>1, <2>2, <2>3 DEF TypeOK
  <1>7. pc'[k] = "finish" /\ \A j \in Callers \ {k} : pc'[j] = pc[j] /\ ok'[j] = ok[j]
    BY <1>1, <1>4
  <1>8. ASSUME NEW j \in Callers PROVE CallInv(j)'
    <2>1. CallInv(j)
      BY <1>1
    <2>2. CASE j = k
      BY <1>3, <1>4, <1>7, <2>1, <2>2 DEF CallInv, Holds
    <2>3. CASE j # k
      BY <1>4, <1>7, <2>1, <2>3 DEF CallInv, Holds
    <2>4. QED
      BY <2>2, <2>3
  <1>9. (\A d : Entries(d)' = Entries(d)) /\ Replies' = Replies
    BY <1>4, SameEntries DEF Replies
  <1>10. BaseInv'
    <2>1. \A j \in Callers : pc[j] = "sending" => pc'[j] = "sending"
      BY <1>3, <1>7
    <2>2. PlacesInv' /\ SendsOnce'
      BY <1>1, <1>4, <2>1, KeepSends, SameIsFewer DEF BaseInv
    <2>3. QED
      BY <1>6, <1>8, <2>2 DEF BaseInv
  <1>11. /\ \A d \in Cqs : job'[d] = IF d = RecvCq THEN r ELSE job[d]
         /\ \A t : ~SpunAt(t)'
    BY <1>1, <1>4, <1>5 DEF SpunAt
  <1>12. \A j \in Callers \ {k} : Sound(j)' => Sound(j)
    BY <1>7, <1>9 DEF Sound
  <1>13. ASSUME NEW t \in Slots PROVE LateReply(t)'
    <2>1. LateReply(t) /\ (Here(t)' => Here(t) /\ t # s)
      <3>1. Here(t)' => \E e \in Replies : e.id.slot = t
        BY <1>9, <1>11 DEF Here
      <3>2. \A e \in Replies : e.id.slot # s
        BY <1>2 DEF LateReply
      <3>3. QED
        BY <3>1, <3>2 DEF Here, LateInv
    <2>2. Here(t)' => respBuf[t] # k
      BY <1>3, <2>1 DEF LateReply
    <2>3. ASSUME Here(t)', waiter'[t] # None
          PROVE  waiter'[t] = respBuf'[t] /\ pc'[waiter'[t]] = "waiting"
      BY <1>1, <1>4, <1>7, <2>1, <2>2, <2>3 DEF LateReply
    <2>4. ASSUME Here(t)', NEW j \in Callers, j = respBuf'[t], Sound(j)'
          PROVE  slotOf'[j] = t /\ pc'[j] \in {"sending", "waiting"}
      BY <1>4, <1>7, <1>12, <2>1, <2>2, <2>4 DEF LateReply
    <2>5. \A e, f \in Replies' : e.id.slot = t /\ f.id.slot = t => e = f
      BY <1>9, <2>1 DEF LateReply
    <2>6. QED
      BY <1>11, <2>3, <2>4, <2>5 DEF LateReply
  <1>14. QED
    BY <1>4, <1>5, <1>10, <1>11, <1>13 DEF LateInv

(* The network: a send is flushed.                                         *)
LEMMA LateReport ==
  ASSUME LateInv, NEW k \in Callers, ReportSend(k)
  PROVE  LateInv'
  <1>x. PICK x : x = [op |-> "send", who |-> k, good |-> FALSE]
    OBVIOUS
  <1>0. /\ UNCHANGED <<pc, calls, slotOf, reqId, ok, got, free, seq, waiter, expected,
                       respBuf, job, requests, recvs, at, inBuf, outBuf, qpUp, crashed>>
        /\ k \in unacked /\ unacked' = unacked \ {k}
        /\ cq' = [cq EXCEPT ![SendCq] = Append(@, [op |-> "send", who |-> k, good |-> qpUp])]
        /\ ~qpUp
    BY DEF ReportSend, Report, serverVars, LateInv
  <1>1. /\ BaseInv /\ TypeOK /\ PlacesInv /\ SendsOnce /\ SendCq \in Cqs /\ RecvCq \in Cqs
        /\ \A j \in Callers : CallInv(j)
        /\ cq \in [Cqs -> Seq(Cqes)] /\ \A d \in Cqs : Once(d)
    BY RpcAssumption DEF LateInv, BaseInv, TypeOK, PlacesInv
  <1>2. x \in Cqes /\ x.op = "send" /\ x.who = k /\ ~x.good
    BY <1>x DEF Cqes
  <1>3. cq' = [cq EXCEPT ![SendCq] = Append(@, x)]
    <2>1. qpUp = FALSE
      BY <1>0, <1>1 DEF TypeOK
    <2>2. QED
      BY <1>x, <1>0, <2>1
  <1>4. pc[k] = "sending" /\ \A e \in Entries(SendCq) : e.op = "send" => e.who # k
    BY <1>0, <1>1 DEF CallInv, SendsOnce
  <1>5. /\ cq' \in [Cqs -> Seq(Cqes)]
        /\ \A d \in Cqs :
             /\ Once(d)'
             /\ Entries(d)' = IF d = SendCq THEN Entries(SendCq) \cup {x} ELSE Entries(d)
    BY <1>1, <1>2, <1>3, <1>4, AppendEntries
  <1>6. Entries(SendCq)' = Entries(SendCq) \cup {x} /\ Replies' = Replies
    BY <1>1, <1>2, <1>5 DEF Replies
  <1>7. TypeOK'
    BY <1>0, <1>1, <1>5 DEF TypeOK
  <1>8. \A j \in Callers : CallInv(j)'
    BY <1>0, <1>1 DEF CallInv, Holds
  <1>9. PlacesInv'
    BY <1>1, <1>2, <1>5 DEF PlacesInv
  <1>10. SendsOnce'
    BY <1>0, <1>1, <1>2, <1>4, <1>6 DEF SendsOnce
  <1>11. BaseInv'
    BY <1>7, <1>8, <1>9, <1>10 DEF BaseInv
  <1>12. \A j \in Callers : Sound(j)' => Sound(j)
    BY <1>0, <1>2, <1>6 DEF Sound
  <1>13. ~Sound(k)
    BY <1>4 DEF Sound
  <1>14. \A s \in Slots : LateReply(s)'
    BY <1>0, <1>4, <1>6, <1>12, <1>13, LateOwn DEF SpunAt
  <1>15. QED
    BY <1>0, <1>11, <1>14 DEF LateInv

(* The server, and steps that change nothing.                              *)
LEMMA LateKept ==
  ASSUME LateInv, UNCHANGED <<clientVars, qpUp>>, TypeOK'
  PROVE  LateInv'
  <1>1. UNCHANGED <<pc, calls, slotOf, reqId, ok, got, free, waiter, expected, respBuf,
                    cq, job, unacked, qpUp>>
    BY DEF clientVars
  <1>2. (\A c : Entries(c)' = Entries(c)) /\ Replies' = Replies
    BY <1>1, SameEntries DEF Replies
  <1>3. \A k \in Callers : CallInv(k)'
    BY <1>1 DEF LateInv, BaseInv, CallInv, Holds
  <1>4. PlacesInv' /\ SendsOnce'
    BY <1>1, KeepSends, SameIsFewer DEF LateInv, BaseInv
  <1>5. \A s \in Slots : LateReply(s)'
    <2>1. \A k \in Callers : Sound(k)' <=> Sound(k)
      BY <1>1, <1>2 DEF Sound
    <2>2. \A s \in Slots : (SpunAt(s)' <=> SpunAt(s)) /\ (Here(s)' <=> Here(s))
      BY <1>1, <1>2 DEF SpunAt, Here
    <2>3. QED
      BY <1>1, <1>2, <2>1, <2>2 DEF LateInv, LateReply
  <1>6. QED
    BY <1>1, <1>3, <1>4, <1>5 DEF LateInv, BaseInv

LEMMA LateServer ==
  ASSUME LateInv, NEW w \in Workers, ServerStep(w)
  PROVE  LateInv'
  <1>1. UNCHANGED <<clientVars, qpUp>>
    BY DEF ServerStep, WorkerStep, Receive, Handle, SendReported, WorkerEnds
  <1>2. TypeOK'
    BY <1>1, ServerType DEF LateInv, BaseInv
  <1>3. QED
    BY <1>1, <1>2, LateKept

LEMMA StepLate ==
  ASSUME LateInv, [Next]_vars
  PROVE  LateInv'
  <1>1. CASE UNCHANGED vars
    <2>1. TypeOK'
      BY <1>1 DEF LateInv, BaseInv, TypeOK, vars, clientVars, serverVars
    <2>2. QED
      BY <1>1, <2>1, LateKept DEF vars
  <1>2. ASSUME NEW k \in Callers, CallStep(k) PROVE LateInv'
    BY <1>2, LateAcquire, LateSend, LateFinish DEF CallStep
  <1>3. ASSUME NEW c \in Cqs, PollerStep(c) PROVE LateInv'
    BY <1>3, LateSendDone, LateSendFailed, LateReplyStep, LateResume DEF PollerStep
  <1>4. CASE NetworkStep
    BY <1>4, LateReport DEF NetworkStep, Deliver, Disconnect, LateInv
  <1>5. ASSUME NEW w \in Workers, ServerStep(w) PROVE LateInv'
    BY <1>5, LateServer
  <1>6. QED
    BY <1>1, <1>2, <1>3, <1>4, <1>5 DEF Next, AllDone

-----------------------------------------------------------------------------
(* The theorems.                                                           *)

(* The invariant holds in every reachable state: a request or its reply is *)
(* in one place at most, the call that sent it holds its slot and waits    *)
(* for it, and no send of it is flushed any more.                          *)
THEOREM RpcInvAlways == ASSUME NoLateFlush PROVE Spec => []RpcInv
  <1>1. RpcInv /\ [Next]_vars => RpcInv'
    BY StepRpc
  <1>2. QED
    BY <1>1, InitRpc, PTL DEF Spec

(* Whatever the NIC does with the sends of a broken connection, every      *)
(* reachable state satisfies RpcInv, or, after the disconnection, LateInv: *)
(* a reply that comes too late finds a call that asked for it, or none     *)
(* that it could resume.                                                   *)
THEOREM AnyFlushInvAlways == Spec => []AnyFlushInv
  <1>1. Init => AnyFlushInv
    BY InitRpc DEF AnyFlushInv, Init
  <1>2. qpUp /\ RpcInv /\ [Next]_vars => RpcInv'
    BY StepRpc
  <1>3. RpcInv /\ ~qpUp => LateInv
    BY LateFromRpc
  <1>4. LateInv /\ [Next]_vars => LateInv'
    BY StepLate
  <1>5. QED
    BY <1>1, <1>2, <1>3, <1>4, PTL DEF Spec, AnyFlushInv

(* The variables of the RPC client and server always have their types; in  *)
(* particular no more receives are posted than there are receive workers.  *)
THEOREM TypeOKAlways == Spec => []TypeOK
  <1>1. AnyFlushInv => TypeOK
    BY DEF AnyFlushInv, RpcInv, LateInv, BaseInv
  <1>2. QED
    BY <1>1, AnyFlushInvAlways, PTL

(* A slot belongs to one call at a time, whatever the order of replies and *)
(* whatever fails.                                                         *)
THEOREM SlotExclusiveAlways == Spec => []SlotExclusive
  <1>1. AnyFlushInv => SlotExclusive
    <2>1. AnyFlushInv => \A k \in Callers : CallInv(k)
      BY DEF AnyFlushInv, RpcInv, LateInv, BaseInv
    <2>2. QED
      BY <2>1, HoldersDiffer DEF CallInv, SlotExclusive
  <1>2. QED
    BY <1>1, AnyFlushInvAlways, PTL

(* A call that succeeds returns the reply to its own request, whatever the *)
(* width of the sequence number that tags it, and even when late replies   *)
(* meet reused slots.                                                      *)
THEOREM OwnReplyAlways == Spec => []OwnReply
  <1>1. AnyFlushInv => OwnReply
    BY DEF AnyFlushInv, RpcInv, LateInv, BaseInv, CallInv, OwnReply
  <1>2. QED
    BY <1>1, AnyFlushInvAlways, PTL

(* A receive worker copies the reply to a call that still runs, and        *)
(* resumes only a call suspended in RpcResponseAwaitable.                  *)
THEOREM WorkerTouchesLiveCallAlways ==
  ASSUME NoLateFlush PROVE Spec => []WorkerTouchesLiveCall
  <1>1. ASSUME RpcInv PROVE WorkerTouchesLiveCall
    <2> SUFFICES ASSUME NEW c \in Cqs, job[c].at = "spin"
                 PROVE  LET s == job[c].slot IN
                        /\ respBuf[s] # None /\ Holds(respBuf[s]) /\ slotOf[respBuf[s]] = s
                        /\ waiter[s] # None =>
                             waiter[s] = respBuf[s] /\ pc[waiter[s]] = "waiting"
      BY DEF WorkerTouchesLiveCall
    <2>1. c = RecvCq
      BY <1>1 DEF RpcInv, JobInv
    <2>2. None \notin Callers
      BY RpcAssumption
    <2>3. QED
      BY <1>1, <2>1, <2>2, SpinFacts DEF Holds
  <1>2. QED
    BY <1>1, RpcInvAlways, PTL

(* A receive worker never meets the mismatch between a reply and the       *)
(* expectation of its slot on which it calls std::terminate.               *)
THEOREM NoBadPacketAlways == ASSUME NoLateFlush PROVE Spec => []NoBadPacket
  <1>1. RpcInv => NoBadPacket
    BY DEF RpcInv, NoBadPacket
  <1>2. QED
    BY <1>1, RpcInvAlways, PTL
=============================================================================
