--------------------------- MODULE CqPoller_proofs ---------------------------
(***************************************************************************)
(* Proofs about the QP, its CQs and their pollers that do not depend on    *)
(* the completion token: what the queues hold, and that they are never     *)
(* overrun when they are large enough.  AsioAwaitable_proofs and           *)
(* NativeAwaitable_proofs build on them.                                   *)
(***************************************************************************)
EXTENDS CqPoller, SequenceTheorems, FiniteSetTheorems, TLAPS

-----------------------------------------------------------------------------
(* What the sequence operators of the queues do, index by index.           *)

(* Writing a completion to a CQ.                                           *)
LEMMA AppendFacts ==
  ASSUME NEW S, NEW s \in Seq(S), NEW e \in S
  PROVE  /\ Append(s, e) \in Seq(S)
         /\ Len(Append(s, e)) = Len(s) + 1
         /\ \A i \in 1..Len(s) : Append(s, e)[i] = s[i]
         /\ Append(s, e)[Len(s) + 1] = e
  BY AppendProperties

(* Removing the dispatched completion from a batch.                        *)
LEMMA TailFacts ==
  ASSUME NEW S, NEW s \in Seq(S), s # <<>>
  PROVE  /\ Tail(s) \in Seq(S)
         /\ Len(s) \in Nat /\ Len(s) >= 1
         /\ Len(Tail(s)) = Len(s) - 1
         /\ \A i \in 1..Len(s) - 1 : Tail(s)[i] = s[i + 1]
         /\ Head(s) = s[1] /\ Head(s) \in S
  <1>1. Len(s) \in Nat /\ Len(s) # 0
    BY EmptySeq, LenProperties
  <1>2. QED
    BY <1>1, HeadTailProperties

(* Splitting a CQ into the polled completions and the others.              *)
LEMMA SplitFacts ==
  ASSUME NEW S, NEW s \in Seq(S), NEW n \in 0..Len(s)
  PROVE  /\ SubSeq(s, 1, n) \in Seq(S)
         /\ Len(SubSeq(s, 1, n)) = n
         /\ \A i \in 1..n : SubSeq(s, 1, n)[i] = s[i]
         /\ SubSeq(s, n + 1, Len(s)) \in Seq(S)
         /\ Len(SubSeq(s, n + 1, Len(s))) = Len(s) - n
         /\ \A i \in 1..Len(s) - n : SubSeq(s, n + 1, Len(s))[i] = s[n + i]
  <1>1. Len(s) \in Nat /\ \A i \in 1..Len(s) : s[i] \in S
    BY LenProperties, ElementOfSeq
  <1>2. QED
    BY <1>1, SubSeqProperties

-----------------------------------------------------------------------------
(* The queues.                                                             *)

LEMMA CqOfType == ASSUME NEW o \in Ops PROVE CqOf(o) \in Cqs
  BY CqsAssumption DEF CqOf

(* The operation a poller dispatches is one of the operations of its CQ    *)
(* and its completion has been polled.                                     *)
LEMMA HeadFacts ==
  ASSUME VerbsTypeOK, PollerTypeOK, QueuesInv, NEW c \in Cqs,
         poller[c] \in {"process", "won", "invoked"}
  PROVE  /\ batch[c] \in Seq(Ops) /\ batch[c] # <<>>
         /\ Head(batch[c]) \in Ops
         /\ Head(batch[c]) = batch[c][1]
         /\ CqOf(Head(batch[c])) = c
         /\ wr[Head(batch[c])] = "polled"
  <1>1. batch[c] \in Seq(Ops) /\ batch[c] # <<>>
    BY DEF PollerTypeOK, QueuesInv
  <1>2. Head(batch[c]) = batch[c][1] /\ Head(batch[c]) \in Ops /\ 1 \in 1..Len(batch[c])
    BY <1>1, TailFacts
  <1>3. wr[batch[c][1]] = "polled" /\ CqOf(batch[c][1]) = c
    BY <1>2 DEF QueuesInv, HoldsOnce
  <1>4. QED
    BY <1>1, <1>2, <1>3

(* How many completions a poll takes is between none and all of them.      *)
LEMMA PolledCountType ==
  ASSUME VerbsTypeOK, PollerTypeOK, NEW c \in Cqs
  PROVE  cq[c] \in Seq(Ops) /\ PolledCount(c) \in 0..Len(cq[c])
  <1>1. cq[c] \in Seq(Ops) /\ Len(cq[c]) \in Nat
    BY LenProperties DEF VerbsTypeOK
  <1>2. QED
    BY <1>1, SizesAssumption DEF PolledCount

LEMMA InitQueues == VerbsInit /\ PollerInit => QueuesInv
  <1>1. Len(<<>>) = 0 /\ \A i : i \notin 1..0
    OBVIOUS
  <1>2. QED
    BY <1>1 DEF VerbsInit, PollerInit, QueuesInv, HoldsOnce, Distinct

(* The elements of a queue are operations.                                 *)
LEMMA QueueElems ==
  ASSUME VerbsTypeOK, PollerTypeOK, NEW c \in Cqs
  PROVE  /\ cq[c] \in Seq(Ops) /\ Len(cq[c]) \in Nat
         /\ \A i \in 1..Len(cq[c]) : cq[c][i] \in Ops
         /\ batch[c] \in Seq(Ops) /\ Len(batch[c]) \in Nat
         /\ \A i \in 1..Len(batch[c]) : batch[c][i] \in Ops
  <1>1. cq[c] \in Seq(Ops) /\ batch[c] \in Seq(Ops)
    BY DEF VerbsTypeOK, PollerTypeOK
  <1>2. QED
    BY <1>1, ElementOfSeq, LenProperties

(* A step that moves no completion and dispatches nothing out of turn      *)
(* keeps the queues as they are.                                           *)
LEMMA KeepQueues ==
  ASSUME VerbsTypeOK, PollerTypeOK, QueuesInv, UNCHANGED <<cq, batch>>,
         \A o \in Ops : wr[o] \in {"cqe", "polled"} => wr'[o] = wr[o],
         \A c \in Cqs : poller'[c] \in {"process", "won", "invoked"} =>
                          batch[c] # <<>>
  PROVE  QueuesInv'
  <1>1. SUFFICES ASSUME NEW c \in Cqs
                 PROVE  /\ HoldsOnce(cq[c], c, "cqe")'
                        /\ HoldsOnce(batch[c], c, "polled")'
                        /\ poller'[c] \in {"process", "won", "invoked"} =>
                             batch'[c] # <<>>
    BY DEF QueuesInv
  <1>2. HoldsOnce(cq[c], c, "cqe")'
    BY QueueElems DEF QueuesInv, HoldsOnce, Distinct, CqOf
  <1>3. HoldsOnce(batch[c], c, "polled")'
    BY QueueElems DEF QueuesInv, HoldsOnce, Distinct, CqOf
  <1>4. QED
    BY <1>2, <1>3

(* The NIC appends an operation that was in no queue, or loses it.         *)
LEMMA NicQueues ==
  ASSUME VerbsTypeOK, PollerTypeOK, QueuesInv, NEW o \in Ops,
         NicSucceed(o) \/ NicFail(o), UNCHANGED <<poller, batch>>
  PROVE  QueuesInv'
  <1> DEFINE d == CqOf(o)
             fits == Len(cq[d]) < CqDepth /\ ~overrun[d]
  <1>1. d \in Cqs
    BY CqOfType
  <1>2. wr[o] = "posted" /\ UNCHANGED <<poller, batch>>
    BY DEF NicSucceed, NicFail
  <1>3. /\ wr' = [wr EXCEPT ![o] = IF fits THEN "cqe" ELSE "lost"]
        /\ cq' = IF fits THEN [cq EXCEPT ![d] = Append(@, o)] ELSE cq
    BY DEF NicSucceed, NicFail, WriteCqe
  <1>4. wr \in [Ops -> WrPlaces] /\ cq \in [Cqs -> Seq(Ops)]
    BY DEF VerbsTypeOK
  <1> HIDE DEF d, fits
  <1>5. ASSUME NEW c \in Cqs PROVE HoldsOnce(batch[c], c, "polled")'
    <2>1. /\ \A i \in 1..Len(batch[c]) : wr[batch[c][i]] = "polled" /\ CqOf(batch[c][i]) = c
          /\ Distinct(batch[c])
      BY DEF QueuesInv, HoldsOnce
    <2>2. \A i \in 1..Len(batch[c]) : batch[c][i] \in Ops
      BY QueueElems
    <2>3. \A x \in Ops : x # o => wr'[x] = wr[x]
      BY <1>3, <1>4
    <2>4. \A i \in 1..Len(batch[c]) : wr'[batch[c][i]] = "polled"
      BY <1>2, <2>1, <2>2, <2>3
    <2>5. batch'[c] = batch[c]
      BY <1>2
    <2> QED
      BY <2>1, <2>4, <2>5 DEF HoldsOnce, Distinct, CqOf
  <1>6. ASSUME NEW c \in Cqs PROVE HoldsOnce(cq[c], c, "cqe")'
    <2>1. CASE ~(fits /\ c = d)
      <3>1. cq'[c] = cq[c]
        BY <2>1, <1>1, <1>3, <1>4
      <3>2. /\ \A i \in 1..Len(cq[c]) : wr[cq[c][i]] = "cqe" /\ CqOf(cq[c][i]) = c
            /\ Distinct(cq[c])
        BY DEF QueuesInv, HoldsOnce
      <3>3. \A i \in 1..Len(cq[c]) : wr'[cq[c][i]] = "cqe"
        BY <3>2, <1>2, <1>3, <1>4, QueueElems
      <3>4. QED
        BY <3>1, <3>2, <3>3 DEF HoldsOnce, Distinct, CqOf
    <2>2. CASE fits /\ c = d
      <3>1. cq'[c] = Append(cq[c], o)
        BY <2>2, <1>1, <1>3, <1>4
      <3>2. /\ Len(cq'[c]) = Len(cq[c]) + 1
            /\ \A i \in 1..Len(cq[c]) : cq'[c][i] = cq[c][i]
            /\ cq'[c][Len(cq[c]) + 1] = o
        BY <3>1, QueueElems, AppendFacts
      <3>3. wr'[o] = "cqe" /\ CqOf(o) = c
        BY <2>2, <1>3, <1>4 DEF d
      <3>4. \A i \in 1..Len(cq[c]) : /\ wr'[cq[c][i]] = "cqe"
                                     /\ cq[c][i] # o
                                     /\ CqOf(cq[c][i]) = c
        BY <1>2, <1>3, <1>4, QueueElems DEF QueuesInv, HoldsOnce
      <3>5. \A i \in 1..Len(cq'[c]) : wr'[cq'[c][i]] = "cqe" /\ CqOf(cq'[c][i]) = c
        BY <3>2, <3>3, <3>4, QueueElems
      <3>6. Distinct(cq[c])
        BY DEF QueuesInv, HoldsOnce
      <3>7. Distinct(cq[c])'
        <4>1. SUFFICES ASSUME NEW i \in 1..Len(cq'[c]), NEW j \in 1..Len(cq'[c]),
                              cq'[c][i] = cq'[c][j]
                       PROVE  i = j
          BY DEF Distinct
        <4>2. Len(cq[c]) \in Nat
          BY QueueElems
        <4>3. /\ i \in 1..Len(cq[c]) \/ i = Len(cq[c]) + 1
              /\ j \in 1..Len(cq[c]) \/ j = Len(cq[c]) + 1
          BY <3>2, <4>2
        <4>4. CASE i \in 1..Len(cq[c]) /\ j \in 1..Len(cq[c])
          BY <3>2, <3>6, <4>1, <4>4 DEF Distinct
        <4>5. QED
          BY <3>2, <3>4, <4>1, <4>3, <4>4
      <3>8. QED
        BY <3>5, <3>7 DEF HoldsOnce, CqOf
    <2>3. QED
      BY <2>1, <2>2
  <1>7. QED
    BY <1>2, <1>5, <1>6 DEF QueuesInv

(* A poll moves the first completions of a CQ to the batch.                *)
LEMMA PollQueues ==
  ASSUME VerbsTypeOK, PollerTypeOK, QueuesInv, NEW c \in Cqs, Poll(c)
  PROVE  QueuesInv'
  <1> DEFINE n == PolledCount(c)
  <1>1. n \in 0..Len(cq[c])
    BY PolledCountType
  <1>2. /\ cq' = [cq EXCEPT ![c] = SubSeq(@, n + 1, Len(@))]
        /\ batch' = [batch EXCEPT ![c] = SubSeq(cq[c], 1, n)]
        /\ wr' = [o \in Ops |-> IF o \in Heads(cq[c], n) THEN "polled" ELSE wr[o]]
        /\ poller' = [poller EXCEPT ![c] = IF n = 0 THEN "check" ELSE "process"]
    BY DEF Poll
  <1>3. /\ wr \in [Ops -> WrPlaces]
        /\ cq \in [Cqs -> Seq(Ops)] /\ batch \in [Cqs -> Seq(Ops)]
        /\ poller \in [Cqs -> PollerStates]
    BY DEF VerbsTypeOK, PollerTypeOK
  <1> HIDE DEF n
  <1>4. /\ Len(cq'[c]) = Len(cq[c]) - n
        /\ \A i \in 1..Len(cq[c]) - n : cq'[c][i] = cq[c][n + i]
        /\ Len(batch'[c]) = n
        /\ \A i \in 1..n : batch'[c][i] = cq[c][i]
    BY <1>1, <1>2, <1>3, QueueElems, SplitFacts
  <1>5. \A o \in Ops : wr'[o] = IF \E i \in 1..n : o = cq[c][i] THEN "polled" ELSE wr[o]
    BY <1>2 DEF Heads
  <1>6. /\ \A i \in 1..Len(cq[c]) : wr[cq[c][i]] = "cqe" /\ CqOf(cq[c][i]) = c
        /\ \A i, j \in 1..Len(cq[c]) : cq[c][i] = cq[c][j] => i = j
    BY DEF QueuesInv, HoldsOnce, Distinct
  <1>7. HoldsOnce(cq[c], c, "cqe")'
    <2>1. \A i \in 1..Len(cq[c]) - n : n + i \in 1..Len(cq[c]) /\ n + i \notin 1..n
      BY <1>1, QueueElems
    <2>2. \A i \in 1..Len(cq[c]) - n : wr'[cq[c][n + i]] = "cqe" /\ CqOf(cq[c][n + i]) = c
      BY <2>1, <1>1, <1>5, <1>6, QueueElems
    <2>3. \A i, j \in 1..Len(cq[c]) - n : cq[c][n + i] = cq[c][n + j] => i = j
      BY <2>1, <1>1, <1>6, QueueElems
    <2>4. ASSUME NEW i \in 1..Len(cq'[c])
          PROVE  /\ i \in 1..Len(cq[c]) - n
                 /\ cq'[c][i] = cq[c][n + i]
      <3>1. i \in 1..Len(cq[c]) - n
        BY <2>4, <1>4
      <3>2. QED
        BY <3>1, <1>4
    <2>5. \A i \in 1..Len(cq'[c]) : wr'[cq'[c][i]] = "cqe" /\ CqOf(cq'[c][i]) = c
      <3>1. SUFFICES ASSUME NEW i \in 1..Len(cq'[c])
                     PROVE  wr'[cq'[c][i]] = "cqe" /\ CqOf(cq'[c][i]) = c
        OBVIOUS
      <3>2. i \in 1..Len(cq[c]) - n /\ cq'[c][i] = cq[c][n + i]
        BY <2>4
      <3>3. wr'[cq[c][n + i]] = "cqe" /\ CqOf(cq[c][n + i]) = c
        BY <3>2, <2>2
      <3>4. QED
        BY <3>2, <3>3
    <2>6. Distinct(cq[c])'
      <3>1. SUFFICES ASSUME NEW i \in 1..Len(cq'[c]), NEW j \in 1..Len(cq'[c]),
                            cq'[c][i] = cq'[c][j]
                     PROVE  i = j
        BY DEF Distinct
      <3>2. /\ i \in 1..Len(cq[c]) - n /\ cq'[c][i] = cq[c][n + i]
            /\ j \in 1..Len(cq[c]) - n /\ cq'[c][j] = cq[c][n + j]
        BY <2>4
      <3>3. QED
        BY <3>1, <3>2, <2>3
    <2>7. QED
      BY <2>5, <2>6 DEF HoldsOnce, CqOf
  <1>8. HoldsOnce(batch[c], c, "polled")'
    <2>1. \A i \in 1..n : i \in 1..Len(cq[c]) /\ cq[c][i] \in Ops
      BY <1>1, QueueElems
    <2>2. \A i \in 1..n : wr'[cq[c][i]] = "polled" /\ CqOf(cq[c][i]) = c
      BY <2>1, <1>5, <1>6
    <2>3. QED
      BY <2>1, <2>2, <1>4, <1>6 DEF HoldsOnce, Distinct, CqOf
  <1>9. ASSUME NEW e \in Cqs, e # c
        PROVE  HoldsOnce(cq[e], e, "cqe")' /\ HoldsOnce(batch[e], e, "polled")'
    <2>1. cq'[e] = cq[e] /\ batch'[e] = batch[e]
      BY <1>2, <1>3, <1>9
    <2>2. \A o \in Ops : CqOf(o) = e => wr'[o] = wr[o]
      BY <1>1, <1>5, <1>6, <1>9, QueueElems
    <2>3. QED
      BY <2>1, <2>2, <1>9, QueueElems DEF QueuesInv, HoldsOnce, Distinct, CqOf
  <1>10. ASSUME NEW e \in Cqs, poller'[e] \in {"process", "won", "invoked"}
         PROVE  batch'[e] # <<>>
    <2>1. CASE e # c
      BY <2>1, <1>2, <1>3, <1>10 DEF QueuesInv
    <2>2. CASE e = c
      <3>1. n # 0
        BY <2>2, <1>2, <1>3, <1>10
      <3>2. Len(batch'[c]) # 0
        BY <3>1, <1>4
      <3>3. QED
        BY <2>2, <3>2
    <2>3. QED
      BY <2>1, <2>2
  <1>11. QED
    BY <1>7, <1>8, <1>9, <1>10 DEF QueuesInv

(* The dispatched operation leaves its batch, in which it was once.        *)
LEMMA DispatchedQueues ==
  ASSUME VerbsTypeOK, PollerTypeOK, QueuesInv, NEW c \in Cqs,
         poller[c] \in {"process", "won", "invoked"}, Dispatched(c), UNCHANGED cq
  PROVE  QueuesInv'
  <1> DEFINE h == Head(batch[c])
  <1>1. /\ batch[c] \in Seq(Ops) /\ batch[c] # <<>>
        /\ h \in Ops /\ h = batch[c][1] /\ CqOf(h) = c /\ wr[h] = "polled"
    BY HeadFacts
  <1>2. /\ cq' = cq
        /\ batch' = [batch EXCEPT ![c] = Tail(@)]
        /\ wr' = [wr EXCEPT ![h] = "done"]
        /\ poller' = [poller EXCEPT ![c] =
                        IF Len(batch[c]) = 1 THEN "check" ELSE "process"]
    BY DEF Dispatched
  <1>3. /\ wr \in [Ops -> WrPlaces]
        /\ batch \in [Cqs -> Seq(Ops)]
        /\ poller \in [Cqs -> PollerStates]
    BY DEF VerbsTypeOK, PollerTypeOK
  <1> HIDE DEF h
  <1>4. /\ Len(batch[c]) \in Nat /\ Len(batch[c]) >= 1
        /\ Len(batch'[c]) = Len(batch[c]) - 1
        /\ \A i \in 1..Len(batch[c]) - 1 : batch'[c][i] = batch[c][i + 1]
    BY <1>1, <1>2, <1>3, TailFacts
  <1>5. ASSUME NEW e \in Cqs PROVE HoldsOnce(cq[e], e, "cqe")'
    <2>1. /\ \A i \in 1..Len(cq[e]) : wr[cq[e][i]] = "cqe" /\ CqOf(cq[e][i]) = e
          /\ Distinct(cq[e])
      BY <1>5 DEF QueuesInv, HoldsOnce
    <2>2. \A i \in 1..Len(cq[e]) : wr'[cq[e][i]] = "cqe"
      BY <2>1, <1>1, <1>2, <1>3, <1>5, QueueElems
    <2>3. QED
      BY <2>1, <2>2, <1>2 DEF HoldsOnce, Distinct, CqOf
  <1>6. ASSUME NEW e \in Cqs, e # c PROVE HoldsOnce(batch[e], e, "polled")'
    <2>1. /\ \A i \in 1..Len(batch[e]) : wr[batch[e][i]] = "polled" /\ CqOf(batch[e][i]) = e
          /\ Distinct(batch[e])
      BY <1>6 DEF QueuesInv, HoldsOnce
    <2>2. \A i \in 1..Len(batch[e]) : wr'[batch[e][i]] = "polled"
      BY <2>1, <1>1, <1>2, <1>3, <1>6, QueueElems
    <2>3. batch'[e] = batch[e]
      BY <1>2, <1>3, <1>6
    <2>4. QED
      BY <2>1, <2>2, <2>3 DEF HoldsOnce, Distinct, CqOf
  <1>7. HoldsOnce(batch[c], c, "polled")'
    <2>1. /\ \A i \in 1..Len(batch[c]) : wr[batch[c][i]] = "polled" /\ CqOf(batch[c][i]) = c
          /\ \A i, j \in 1..Len(batch[c]) : batch[c][i] = batch[c][j] => i = j
      BY DEF QueuesInv, HoldsOnce, Distinct
    <2>2. \A i \in 1..Len(batch[c]) - 1 :
             /\ i + 1 \in 1..Len(batch[c])
             /\ batch[c][i + 1] \in Ops
             /\ batch[c][i + 1] # h
      BY <2>1, <1>1, <1>4, QueueElems
    <2>3. \A i \in 1..Len(batch[c]) - 1 :
             wr'[batch[c][i + 1]] = "polled" /\ CqOf(batch[c][i + 1]) = c
      BY <2>1, <2>2, <1>2, <1>3
    <2>4. \A i \in 1..Len(batch'[c]) : wr'[batch'[c][i]] = "polled" /\ CqOf(batch'[c][i]) = c
      BY <2>3, <1>4
    <2>5. Distinct(batch[c])'
      BY <2>1, <2>2, <1>4 DEF Distinct
    <2>6. QED
      BY <2>4, <2>5 DEF HoldsOnce, CqOf
  <1>8. ASSUME NEW e \in Cqs, poller'[e] \in {"process", "won", "invoked"}
        PROVE  batch'[e] # <<>>
    <2>1. CASE e # c
      BY <2>1, <1>2, <1>3, <1>8 DEF QueuesInv
    <2>2. CASE e = c
      <3>1. Len(batch[c]) # 1
        BY <2>2, <1>2, <1>3, <1>8
      <3>2. Len(batch'[c]) # 0
        BY <3>1, <1>4
      <3>3. QED
        BY <2>2, <3>2
    <2>3. QED
      BY <2>1, <2>2
  <1>9. QED
    BY <1>5, <1>6, <1>7, <1>8 DEF QueuesInv

(* Destroying the QP empties the CQs and leaves the batches alone.         *)
LEMMA DestroyQueues ==
  ASSUME VerbsTypeOK, PollerTypeOK, QueuesInv, Destroy, UNCHANGED <<poller, batch>>
  PROVE  QueuesInv'
  <1>1. /\ \A c \in Cqs : cq'[c] = <<>>
        /\ wr' = [o \in Ops |-> IF wr[o] \in {"posted", "cqe"} THEN "lost" ELSE wr[o]]
        /\ UNCHANGED <<poller, batch>>
    BY DEF Destroy
  <1>2. SUFFICES ASSUME NEW c \in Cqs
                 PROVE  /\ HoldsOnce(cq[c], c, "cqe")'
                        /\ HoldsOnce(batch[c], c, "polled")'
    BY <1>1 DEF QueuesInv
  <1>3. HoldsOnce(cq[c], c, "cqe")'
    <2>1. Len(cq'[c]) = 0 /\ \A i : i \notin 1..0
      BY <1>1
    <2>2. QED
      BY <2>1 DEF HoldsOnce, Distinct
  <1>4. HoldsOnce(batch[c], c, "polled")'
    <2>1. /\ \A i \in 1..Len(batch[c]) : wr[batch[c][i]] = "polled" /\ CqOf(batch[c][i]) = c
          /\ Distinct(batch[c])
      BY DEF QueuesInv, HoldsOnce
    <2>2. \A i \in 1..Len(batch[c]) : wr'[batch[c][i]] = "polled"
      BY <2>1, <1>1, QueueElems
    <2>3. QED
      BY <2>1, <2>2, <1>1 DEF HoldsOnce, Distinct, CqOf
  <1>5. QED
    BY <1>3, <1>4


-----------------------------------------------------------------------------
(* The sizes of the queues.                                                *)

(* The requests in a work queue are finitely many.                         *)
LEMMA OutstandingFinite ==
  ASSUME NEW S \in {SendOps, RecvOps}, NEW T \in SUBSET S
  PROVE  IsFiniteSet(T) /\ Cardinality(T) \in Nat
  BY OpsAssumption, FS_Subset, FS_CardinalityType

(* Requests that leave their work queues make room.                        *)
LEMMA FewerOutstanding ==
  ASSUME WithinLimits, \A o \in Ops : wr'[o] \in {"posted", "cqe"} => wr[o] \in {"posted", "cqe"}
  PROVE  WithinLimits'
  <1>1. /\ Outstanding(SendOps)' \subseteq Outstanding(SendOps)
        /\ Outstanding(RecvOps)' \subseteq Outstanding(RecvOps)
    BY DEF Outstanding, Ops
  <1>2. /\ IsFiniteSet(Outstanding(SendOps)) /\ IsFiniteSet(Outstanding(RecvOps))
        /\ Cardinality(Outstanding(SendOps)) \in Nat
        /\ Cardinality(Outstanding(RecvOps)) \in Nat
    BY OutstandingFinite DEF Outstanding
  <1>3. /\ Cardinality(Outstanding(SendOps)') <= Cardinality(Outstanding(SendOps))
        /\ Cardinality(Outstanding(RecvOps)') <= Cardinality(Outstanding(RecvOps))
    BY <1>1, <1>2, FS_Subset
  <1>4. /\ Cardinality(Outstanding(SendOps)') \in Nat
        /\ Cardinality(Outstanding(RecvOps)') \in Nat
    BY <1>1, <1>2, FS_Subset, FS_CardinalityType
  <1>5. QED
    BY <1>2, <1>3, <1>4, SizesAssumption DEF WithinLimits

(* A request is posted only when there is room.                            *)
LEMMA PostLimits ==
  ASSUME VerbsTypeOK, WithinLimits, NEW o \in Ops, PostWr(o)
  PROVE  WithinLimits'
  <1> DEFINE A == Outstanding(SendOps)
             B == Outstanding(RecvOps)
  <1>1. /\ IsFiniteSet(A) /\ IsFiniteSet(B)
        /\ Cardinality(A) \in Nat /\ Cardinality(B) \in Nat
    BY OutstandingFinite DEF Outstanding
  <1>2. \A q \in Ops : wr'[q] = IF q = o THEN "posted" ELSE wr[q]
    BY DEF PostWr, VerbsTypeOK
  <1>3. CASE o \in SendOps
    <2>1. A' = A \cup {o} /\ B' = B
      BY <1>2, <1>3, OpsAssumption DEF Outstanding, Ops
    <2>2. Cardinality(A) < MaxSendWr
      BY <1>3 DEF PostWr, Room
    <2>3. Cardinality(A \cup {o}) = IF o \in A THEN Cardinality(A) ELSE Cardinality(A) + 1
      BY <1>1, FS_AddElement
    <2> HIDE DEF A, B
    <2>4. QED
      BY <1>1, <2>1, <2>2, <2>3, SizesAssumption DEF WithinLimits, A, B
  <1>4. CASE o \notin SendOps
    <2>1. A' = A /\ B' = B \cup {o}
      BY <1>2, <1>4, OpsAssumption DEF Outstanding, Ops
    <2>2. Cardinality(B) < MaxRecvWr
      BY <1>4 DEF PostWr, Room
    <2>3. Cardinality(B \cup {o}) = IF o \in B THEN Cardinality(B) ELSE Cardinality(B) + 1
      BY <1>1, FS_AddElement
    <2> HIDE DEF A, B
    <2>4. QED
      BY <1>1, <2>1, <2>2, <2>3, SizesAssumption DEF WithinLimits, A, B
  <1>5. QED
    BY <1>3, <1>4

(* The outstanding requests whose completions go to c.                     *)
Bound(c) == {o \in Ops : CqOf(o) = c /\ wr[o] \in {"posted", "cqe"}}

(* They are at most as many as the work queues bound to c hold.            *)
LEMMA BoundLoad ==
  ASSUME WithinLimits, NEW c \in Cqs
  PROVE  /\ IsFiniteSet(Bound(c))
         /\ Cardinality(Bound(c)) \in Nat
         /\ Cardinality(Bound(c)) <= Load(c)
  <1> DEFINE A == Outstanding(SendOps)
             B == Outstanding(RecvOps)
             X == IF c = SendCq THEN A ELSE {}
             Y == IF c = RecvCq THEN B ELSE {}
  <1>1. /\ IsFiniteSet(A) /\ IsFiniteSet(B)
        /\ Cardinality(A) \in Nat /\ Cardinality(B) \in Nat
    BY OutstandingFinite DEF Outstanding
  <1>2. Bound(c) \subseteq X \cup Y
    BY DEF Bound, CqOf, Ops, Outstanding
  <1>3. IsFiniteSet({}) /\ Cardinality({}) = 0
    BY FS_EmptySet
  <1>4. IsFiniteSet(X) /\ IsFiniteSet(Y)
    BY <1>1, <1>3
  <1>5. /\ Cardinality(X) \in Nat
        /\ Cardinality(X) <= IF c = SendCq THEN MaxSendWr ELSE 0
    BY <1>1, <1>3 DEF WithinLimits
  <1>6. /\ Cardinality(Y) \in Nat
        /\ Cardinality(Y) <= IF c = RecvCq THEN MaxRecvWr ELSE 0
    BY <1>1, <1>3 DEF WithinLimits
  <1> HIDE DEF A, B, X, Y
  <1>7. /\ IsFiniteSet(X \cup Y)
        /\ Cardinality(X \cup Y) = Cardinality(X) + Cardinality(Y) - Cardinality(X \cap Y)
    BY <1>4, FS_Union
  <1>8. Cardinality(X \cap Y) \in Nat /\ Cardinality(X \cup Y) \in Nat
    BY <1>4, <1>7, FS_Subset, FS_CardinalityType
  <1>9. /\ IsFiniteSet(Bound(c)) /\ Cardinality(Bound(c)) \in Nat
        /\ Cardinality(Bound(c)) <= Cardinality(X \cup Y)
    BY <1>2, <1>7, FS_Subset, FS_CardinalityType
  <1>10. QED
    BY <1>5, <1>6, <1>7, <1>8, <1>9, SizesAssumption DEF Load

(* The completions in a CQ are of that many requests, those posted not     *)
(* counted.                                                                *)
LEMMA QueueInBound ==
  ASSUME VerbsTypeOK, PollerTypeOK, QueuesInv, WithinLimits, NEW c \in Cqs,
         NEW o \in Ops, CqOf(o) = c, wr[o] = "posted"
  PROVE  Len(cq[c]) + 1 <= Load(c)
  <1> DEFINE n == Len(cq[c])
             f == [i \in 1..n |-> cq[c][i]]
             B == Bound(c) \ {o}
  <1>1. n \in Nat /\ \A i \in 1..n : cq[c][i] \in Ops
    BY QueueElems
  <1>2. /\ \A i \in 1..n : wr[cq[c][i]] = "cqe" /\ CqOf(cq[c][i]) = c
        /\ \A i, j \in 1..n : cq[c][i] = cq[c][j] => i = j
    BY DEF QueuesInv, HoldsOnce, Distinct
  <1>3. /\ IsFiniteSet(Bound(c)) /\ Cardinality(Bound(c)) \in Nat
        /\ Cardinality(Bound(c)) <= Load(c) /\ o \in Bound(c)
    BY BoundLoad DEF Bound
  <1>4. IsFiniteSet(B) /\ Cardinality(B) = Cardinality(Bound(c)) - 1
    BY <1>3, FS_RemoveElement
  <1>5. \A i \in 1..n : cq[c][i] \in B
    BY <1>1, <1>2 DEF Bound
  <1>6. Cardinality(1..n) = n
    BY <1>1, FS_Interval
  <1> HIDE DEF n, B
  <1>7. f \in [1..n -> B] /\ \A i, j \in 1..n : f[i] = f[j] => i = j
    BY <1>2, <1>5
  <1>8. Cardinality(1..n) <= Cardinality(B)
    <2>1. f \in Injection(1..n, B)
      BY <1>7 DEF Injection, IsInjective
    <2> HIDE DEF f
    <2>2. QED
      BY <1>4, <2>1, FS_Injection
  <1>9. Load(c) \in Nat
    BY SizesAssumption DEF Load
  <1>10. QED
    BY <1>1, <1>3, <1>4, <1>6, <1>8, <1>9 DEF n

(* The NIC overruns no CQ that has room for the work queues bound to it.   *)
LEMMA NicNoOverrun ==
  ASSUME VerbsTypeOK, PollerTypeOK, QueuesInv, WithinLimits, NoOverrunIfSized,
         NEW o \in Ops, NicSucceed(o) \/ NicFail(o)
  PROVE  NoOverrunIfSized'
  <1> DEFINE d == CqOf(o)
  <1>1. d \in Cqs
    BY CqOfType
  <1>2. /\ wr[o] = "posted"
        /\ overrun' = [overrun EXCEPT ![d] = @ \/ ~(Len(cq[d]) < CqDepth /\ ~overrun[d])]
    BY DEF NicSucceed, NicFail, WriteCqe
  <1>3. Len(cq[d]) + 1 <= Load(d)
    BY <1>1, <1>2, QueueInBound
  <1>4. Len(cq[d]) \in Nat /\ Load(d) \in Nat /\ CqDepth \in Nat
    BY <1>1, QueueElems, SizesAssumption DEF Load
  <1>5. overrun \in [Cqs -> BOOLEAN]
    BY DEF VerbsTypeOK
  <1>6. ASSUME NEW c \in Cqs, Load(c) <= CqDepth PROVE ~overrun'[c]
    <2>1. ~overrun[c]
      BY <1>6 DEF NoOverrunIfSized
    <2>2. CASE c # d
      <3>1. overrun'[c] = overrun[c]
        BY <1>1, <1>2, <1>5, <2>2
      <3>2. QED
        BY <2>1, <3>1
    <2>3. CASE c = d
      <3>1. Len(cq[d]) < CqDepth
        BY <1>3, <1>4, <1>6, <2>3
      <3>2. QED
        BY <1>1, <1>2, <1>5, <2>1, <2>3, <3>1
    <2>4. QED
      BY <2>2, <2>3
  <1>7. QED
    BY <1>6 DEF NoOverrunIfSized, Load

-----------------------------------------------------------------------------
(* Every step of the QP and of the pollers keeps QpInv: the types, the     *)
(* contents of the queues and their sizes.                                 *)

LEMMA InitQp == VerbsInit /\ PollerInit => QpInv
  <1> SUFFICES ASSUME VerbsInit, PollerInit PROVE QpInv
    OBVIOUS
  <1>1. <<>> \in Seq(Ops)
    BY EmptySeq
  <1>2. VerbsTypeOK
    <2>1. overrun \in [Cqs -> BOOLEAN]
      BY Zenon DEF VerbsInit
    <2>2. QED
      BY <1>1, <2>1 DEF VerbsInit, VerbsTypeOK, WrPlaces
  <1>3. PollerTypeOK
    <2>1. stop \in [Cqs -> BOOLEAN]
      BY Zenon DEF PollerInit
    <2>2. QED
      BY <1>1, <2>1 DEF PollerInit, PollerTypeOK, PollerStates
  <1>4. WithinLimits
    <2>1. Outstanding(SendOps) = {} /\ Outstanding(RecvOps) = {}
      BY DEF VerbsInit, Outstanding, Ops
    <2>2. QED
      BY <2>1, FS_EmptySet, SizesAssumption DEF WithinLimits
  <1>5. NoOverrunIfSized
    BY DEF VerbsInit, NoOverrunIfSized
  <1>6. Reported
    BY DEF VerbsInit, Reported
  <1>7. QED
    BY <1>2, <1>3, <1>4, <1>5, <1>6, InitQueues DEF QpInv

(* A step that moves no request keeps them.                                *)
LEMMA KeepQp ==
  ASSUME QpInv, UNCHANGED <<wr, status, cq, overrun, poller, batch, stop>>,
         qpState' \in {"RTS", "ERR", "gone"}, userRef' \in BOOLEAN,
         dtor' \in {"no", "err", "destroy", "done"}
  PROVE  QpInv'
  <1>1. VerbsTypeOK' /\ PollerTypeOK'
    BY DEF QpInv, VerbsTypeOK, PollerTypeOK
  <1>2. QueuesInv'
    BY KeepQueues DEF QpInv, QueuesInv
  <1>3. WithinLimits' /\ NoOverrunIfSized' /\ Reported'
    BY DEF QpInv, WithinLimits, Outstanding, NoOverrunIfSized, Load, Reported
  <1>4. QED
    BY <1>1, <1>2, <1>3 DEF QpInv

(* Dropping a reference starts the destructor or changes nothing.          *)
LEMMA AfterDropType ==
  ASSUME VerbsTypeOK, NEW u, NEW R
  PROVE  AfterDrop(u, R) \in {"no", "err", "destroy", "done"}
  BY DEF AfterDrop, VerbsTypeOK

(* Posting a request that is in no queue.                                  *)
LEMMA PostQp ==
  ASSUME QpInv, NEW o \in Ops, wr[o] = "idle", PostWr(o),
         UNCHANGED <<qpState, userRef, status, cq, overrun, pollerVars>>,
         dtor' \in {"no", "err", "destroy", "done"}
  PROVE  QpInv'
  <1>1. /\ wr' = [wr EXCEPT ![o] = "posted"]
        /\ UNCHANGED <<poller, batch, stop>>
    BY DEF PostWr, pollerVars
  <1>2. VerbsTypeOK' /\ PollerTypeOK'
    BY <1>1 DEF QpInv, VerbsTypeOK, PollerTypeOK, WrPlaces
  <1>3. QueuesInv'
    <2>1. \A q \in Ops : wr[q] \in {"cqe", "polled"} => wr'[q] = wr[q]
      BY <1>1 DEF QpInv, VerbsTypeOK
    <2>2. QED
      BY <1>1, <2>1, KeepQueues DEF QpInv, QueuesInv
  <1>4. WithinLimits'
    BY PostLimits DEF QpInv
  <1>5. NoOverrunIfSized' /\ Reported'
    BY <1>1 DEF QpInv, NoOverrunIfSized, Load, Reported, VerbsTypeOK
  <1>6. QED
    BY <1>2, <1>3, <1>4, <1>5 DEF QpInv

(* A completion by the NIC.                                                *)
LEMMA NicQp ==
  ASSUME QpInv, NEW o \in Ops, NicSucceed(o) \/ NicFail(o), UNCHANGED pollerVars
  PROVE  QpInv'
  <1> DEFINE c == CqOf(o)
  <1>1. c \in Cqs
    BY CqOfType
  <1>2. cq[c] \in Seq(Ops) /\ Append(cq[c], o) \in Seq(Ops)
    BY <1>1, AppendFacts DEF QpInv, VerbsTypeOK
  <1>3. PICK st \in {"ok", "err"} : WriteCqe(o, st)
    BY DEF NicSucceed, NicFail
  <1>4. /\ wr' \in [Ops -> WrPlaces]
        /\ status' \in [Ops -> {"none", "ok", "err"}]
        /\ cq' \in [Cqs -> Seq(Ops)]
        /\ overrun' \in [Cqs -> BOOLEAN]
    BY <1>1, <1>2, <1>3 DEF WriteCqe, QpInv, VerbsTypeOK, WrPlaces
  <1>5. /\ qpState' \in {"RTS", "ERR", "gone"}
        /\ UNCHANGED <<userRef, dtor, poller, batch, stop>>
    BY DEF NicSucceed, NicFail, pollerVars
  <1>6. VerbsTypeOK' /\ PollerTypeOK'
    BY <1>4, <1>5 DEF QpInv, VerbsTypeOK, PollerTypeOK
  <1>7. QueuesInv'
    BY <1>5, NicQueues DEF QpInv
  <1>8. WithinLimits'
    <2>1. \A q \in Ops : wr'[q] \in {"posted", "cqe"} => wr[q] \in {"posted", "cqe"}
      BY DEF NicSucceed, NicFail, WriteCqe, QpInv, VerbsTypeOK
    <2>2. QED
      BY <2>1, FewerOutstanding DEF QpInv
  <1>9. NoOverrunIfSized'
    BY NicNoOverrun DEF QpInv
  <1>10. Reported'
    BY <1>3 DEF WriteCqe, QpInv, Reported, VerbsTypeOK
  <1>11. QED
    BY <1>6, <1>7, <1>8, <1>9, <1>10 DEF QpInv

(* The pollers, up to the dispatch.                                        *)
LEMMA PollQp ==
  ASSUME QpInv, NEW c \in Cqs, Check(c) \/ Poll(c) \/ PollThrows(c) \/ RequestStop(c)
  PROVE  QpInv'
  <1> USE DEF QpInv
  <1>1. CASE Poll(c)
    <2> DEFINE n == PolledCount(c)
    <2>1. SubSeq(cq[c], n + 1, Len(cq[c])) \in Seq(Ops) /\ SubSeq(cq[c], 1, n) \in Seq(Ops)
      BY PolledCountType, SplitFacts
    <2> HIDE DEF n
    <2>2. VerbsTypeOK' /\ PollerTypeOK'
      BY <1>1, <2>1 DEF Poll, n, VerbsTypeOK, PollerTypeOK, WrPlaces, PollerStates
    <2>3. \A q \in Ops : wr'[q] \in {"posted", "cqe"} => wr[q] \in {"posted", "cqe"}
      BY <1>1 DEF Poll
    <2>4. WithinLimits'
      BY <2>3, FewerOutstanding
    <2>5. NoOverrunIfSized'
      BY <1>1 DEF Poll, NoOverrunIfSized, Load
    <2>6. Reported'
      <3>1. /\ \A q \in Ops : wr'[q] = IF q \in Heads(cq[c], PolledCount(c)) THEN "polled"
                                                                       ELSE wr[q]
            /\ UNCHANGED status
        BY <1>1 DEF Poll
      <3>2. \A q \in Ops : q \in Heads(cq[c], PolledCount(c)) => wr[q] = "cqe"
        BY PolledCountType, QueueElems DEF Heads, QueuesInv, HoldsOnce
      <3>3. QED
        BY <3>1, <3>2 DEF Reported
    <2>7. QED
      BY <1>1, <2>2, <2>4, <2>5, <2>6, PollQueues
  <1>2. CASE Check(c) \/ PollThrows(c) \/ RequestStop(c)
    <2>1. UNCHANGED <<batch, qpState, userRef, dtor, wr, status, cq, overrun>>
      BY <1>2 DEF Check, PollThrows, RequestStop, verbsVars
    <2>2. poller' \in [Cqs -> PollerStates] /\ stop' \in [Cqs -> BOOLEAN]
      BY <1>2 DEF Check, PollThrows, RequestStop, PollerTypeOK, PollerStates
    <2>3. VerbsTypeOK' /\ PollerTypeOK'
      BY <2>1, <2>2 DEF VerbsTypeOK, PollerTypeOK
    <2>4. \A e \in Cqs : poller'[e] \in {"process", "won", "invoked"} => poller'[e] = poller[e]
      BY <1>2 DEF Check, PollThrows, RequestStop, PollerTypeOK
    <2>5. QueuesInv'
      BY <2>1, <2>4, KeepQueues DEF QueuesInv
    <2>6. WithinLimits' /\ NoOverrunIfSized' /\ Reported'
      BY <2>1 DEF WithinLimits, Outstanding, NoOverrunIfSized, Load, Reported
    <2>7. QED
      BY <2>3, <2>5, <2>6
  <1>3. QED
    BY <1>1, <1>2

(* A poller goes on inside the dispatch of the head of its batch.          *)
LEMMA InDispatchQp ==
  ASSUME QpInv, NEW c \in Cqs, poller[c] \in {"process", "won", "invoked"},
         NEW p \in {"process", "won", "invoked"}, poller' = [poller EXCEPT ![c] = p],
         UNCHANGED <<batch, stop, verbsVars>>
  PROVE  QpInv'
  <1> USE DEF QpInv
  <1>1. UNCHANGED <<batch, stop, qpState, userRef, dtor, wr, status, cq, overrun>>
    BY DEF verbsVars
  <1>2. VerbsTypeOK' /\ PollerTypeOK'
    BY <1>1 DEF VerbsTypeOK, PollerTypeOK, PollerStates
  <1>3. \A e \in Cqs : poller'[e] \in {"process", "won", "invoked"} => batch[e] # <<>>
    BY DEF PollerTypeOK, QueuesInv
  <1>4. QueuesInv'
    BY <1>1, <1>3, KeepQueues
  <1>5. WithinLimits' /\ NoOverrunIfSized' /\ Reported'
    BY <1>1 DEF WithinLimits, Outstanding, NoOverrunIfSized, Load, Reported
  <1>6. QED
    BY <1>2, <1>4, <1>5

(* A completion has been dispatched.                                       *)
LEMMA DispatchedQp ==
  ASSUME QpInv, NEW c \in Cqs, poller[c] \in {"process", "won", "invoked"},
         Dispatched(c), UNCHANGED <<qpState, userRef, dtor, status, cq, overrun, stop>>
  PROVE  QpInv'
  <1> USE DEF QpInv
  <1>1. Head(batch[c]) \in Ops /\ Tail(batch[c]) \in Seq(Ops) /\ wr[Head(batch[c])] = "polled"
    BY HeadFacts, TailFacts
  <1>2. VerbsTypeOK' /\ PollerTypeOK'
    BY <1>1 DEF Dispatched, VerbsTypeOK, PollerTypeOK, WrPlaces, PollerStates
  <1>3. QueuesInv'
    BY DispatchedQueues
  <1>4. WithinLimits'
    <2>1. \A q \in Ops : wr'[q] \in {"posted", "cqe"} => wr[q] \in {"posted", "cqe"}
      BY <1>1 DEF Dispatched, VerbsTypeOK
    <2>2. QED
      BY <2>1, FewerOutstanding
  <1>5. NoOverrunIfSized' /\ Reported'
    BY <1>1 DEF Dispatched, NoOverrunIfSized, Load, Reported, VerbsTypeOK
  <1>6. QED
    BY <1>2, <1>3, <1>4, <1>5

(* The end of the QP.                                                      *)
LEMMA EndQp ==
  ASSUME QpInv, UNCHANGED pollerVars, (\E R : DropUserRef(R)) \/ Err \/ Destroy
  PROVE  QpInv'
  <1>1. UNCHANGED <<poller, batch, stop>>
    BY DEF pollerVars
  <1>2. CASE \E R : DropUserRef(R)
    <2>1. PICK R : DropUserRef(R)
      BY <1>2
    <2>2. dtor' \in {"no", "err", "destroy", "done"}
      BY <2>1, AfterDropType DEF DropUserRef, QpInv
    <2>3. QED
      BY <1>1, <2>1, <2>2, KeepQp DEF DropUserRef, QpInv, VerbsTypeOK
  <1>3. CASE Err
    BY <1>1, <1>3, KeepQp DEF Err, QpInv, VerbsTypeOK
  <1>4. CASE Destroy
    <2>1. VerbsTypeOK' /\ PollerTypeOK'
      BY <1>1, <1>4, EmptySeq DEF Destroy, QpInv, VerbsTypeOK, PollerTypeOK, WrPlaces
    <2>2. QueuesInv'
      BY <1>1, <1>4, DestroyQueues DEF QpInv
    <2>3. WithinLimits'
      <3>1. \A q \in Ops : wr'[q] \in {"posted", "cqe"} => wr[q] \in {"posted", "cqe"}
        BY <1>4 DEF Destroy
      <3>2. QED
        BY <3>1, FewerOutstanding DEF QpInv
    <2>4. NoOverrunIfSized' /\ Reported'
      BY <1>4 DEF Destroy, QpInv, NoOverrunIfSized, Load, Reported
    <2>5. QED
      BY <2>1, <2>2, <2>3, <2>4 DEF QpInv
  <1>5. QED
    BY <1>2, <1>3, <1>4

-----------------------------------------------------------------------------
(* What the steps do to Wire, the view OpContract has of a request.        *)

(* A step that leaves the request alone.                                   *)
LEMMA WireKeep ==
  ASSUME NEW o \in Ops, wr'[o] = wr[o], status'[o] = status[o]
  PROVE  Wire(o)' = Wire(o)
  BY DEF Wire

(* Posting hands it to the NIC.                                            *)
LEMMA WirePost ==
  ASSUME QpInv, NEW o \in Ops, wr[o] = "idle", PostWr(o), UNCHANGED status
  PROVE  /\ Wire(o) = "none" /\ Wire(o)' = "owned"
         /\ \A q \in Ops \ {o} : Wire(q)' = Wire(q)
  <1>1. wr'[o] = "posted" /\ \A q \in Ops \ {o} : wr'[q] = wr[q]
    BY DEF PostWr, QpInv, VerbsTypeOK
  <1>2. status[o] = "none"
    BY DEF QpInv, Reported
  <1>3. QED
    BY <1>1, <1>2, WireKeep DEF Wire

(* The NIC decides its fate, be the completion lost afterwards or not.     *)
LEMMA WireNic ==
  ASSUME QpInv, NEW o \in Ops, NicSucceed(o) \/ NicFail(o)
  PROVE  /\ Wire(o) = "owned" /\ Wire(o)' \in {"succeeded", "failed"}
         /\ \A q \in Ops \ {o} : Wire(q)' = Wire(q)
  <1>1. /\ wr[o] = "posted" /\ status'[o] \in {"ok", "err"}
        /\ \A q \in Ops \ {o} : wr'[q] = wr[q] /\ status'[q] = status[q]
    BY DEF NicSucceed, NicFail, WriteCqe, QpInv, VerbsTypeOK
  <1>2. status[o] = "none"
    BY <1>1 DEF QpInv, Reported
  <1>3. QED
    BY <1>1, <1>2, WireKeep DEF Wire

(* Pollers change nothing of it: the status is there.                      *)
LEMMA WirePolled ==
  ASSUME NEW o \in Ops, status'[o] = status[o], status[o] \in {"ok", "err"}
  PROVE  Wire(o)' = Wire(o)
  BY DEF Wire

LEMMA WirePoll ==
  ASSUME QpInv, NEW c \in Cqs, Check(c) \/ Poll(c) \/ PollThrows(c) \/ RequestStop(c)
  PROVE  \A q \in Ops : Wire(q)' = Wire(q)
  <1>1. CASE Poll(c)
    <2>1. /\ \A q \in Ops : wr'[q] = IF q \in Heads(cq[c], PolledCount(c)) THEN "polled"
                                                                         ELSE wr[q]
          /\ UNCHANGED status
      BY <1>1 DEF Poll
    <2>2. \A q \in Ops : q \in Heads(cq[c], PolledCount(c)) => wr[q] = "cqe"
      BY PolledCountType, QueueElems DEF QpInv, Heads, QueuesInv, HoldsOnce
    <2>3. \A q \in Ops : wr[q] = "cqe" => status[q] \in {"ok", "err"}
      BY DEF QpInv, VerbsTypeOK, Reported
    <2>4. QED
      BY <2>1, <2>2, <2>3, WireKeep, WirePolled
  <1>2. CASE Check(c) \/ PollThrows(c) \/ RequestStop(c)
    BY <1>2, WireKeep DEF Check, PollThrows, RequestStop, verbsVars
  <1>3. QED
    BY <1>1, <1>2

LEMMA WireDispatched ==
  ASSUME QpInv, NEW c \in Cqs, poller[c] \in {"process", "won", "invoked"},
         Dispatched(c), UNCHANGED status
  PROVE  \A q \in Ops : Wire(q)' = Wire(q)
  <1> DEFINE h == Head(batch[c])
  <1>1. h \in Ops /\ wr[h] = "polled"
    BY HeadFacts DEF QpInv
  <1>2. status[h] \in {"ok", "err"}
    BY <1>1 DEF QpInv, VerbsTypeOK, Reported
  <1>3. \A q \in Ops \ {h} : wr'[q] = wr[q]
    BY DEF Dispatched, QpInv, VerbsTypeOK
  <1> HIDE DEF h
  <1>4. QED
    BY <1>1, <1>2, <1>3, WireKeep, WirePolled

(* Destroying the QP forgets the requests the NIC still owns.              *)
LEMMA WireDestroy ==
  ASSUME QpInv, Destroy
  PROVE  \A q \in Ops : Wire(q)' = IF Wire(q) = "owned" THEN "lost" ELSE Wire(q)
  <1> SUFFICES ASSUME NEW q \in Ops
               PROVE  Wire(q)' = IF Wire(q) = "owned" THEN "lost" ELSE Wire(q)
    OBVIOUS
  <1>1. /\ wr'[q] = IF wr[q] \in {"posted", "cqe"} THEN "lost" ELSE wr[q]
        /\ status'[q] = status[q]
    BY DEF Destroy
  <1>2. /\ status[q] \in {"none", "ok", "err"}
        /\ wr[q] = "cqe" => status[q] # "none"
    BY DEF QpInv, VerbsTypeOK, Reported
  <1>3. CASE status[q] # "none"
    BY <1>1, <1>2, <1>3 DEF Wire
  <1>4. CASE status[q] = "none" /\ wr[q] = "posted"
    BY <1>1, <1>4 DEF Wire
  <1>5. CASE status[q] = "none" /\ wr[q] # "posted"
    BY <1>1, <1>2, <1>5 DEF Wire
  <1>6. QED
    BY <1>3, <1>4, <1>5
=============================================================================
