------------------------ MODULE MemoryRegions_proofs ------------------------
(***************************************************************************)
(* Proofs about the ownership of verbs resources and memory regions        *)
(* (MemoryRegions): for any number of local_mr objects and regions, of any *)
(* lengths.                                                                *)
(***************************************************************************)
EXTENDS MemoryRegions, TLAPS

-----------------------------------------------------------------------------
(* What keeps what alive.                                                  *)

(* What owners in S keep alive, kind by kind.                              *)
LEMMA KeptIs ==
  ASSUME NEW S \in SUBSET Kinds, withSrq \in BOOLEAN
  PROVE  /\ Kept(S) \subseteq Kinds
         /\ "qp" \in Kept(S) <=> "qp" \in S
         /\ "poller" \in Kept(S) <=> "poller" \in S
         /\ "srq" \in Kept(S) <=> "srq" \in S \/ (withSrq /\ "qp" \in S)
         /\ "cq" \in Kept(S) <=> "cq" \in S \/ "qp" \in S \/ "poller" \in S
         /\ "pd" \in Kept(S) <=> "pd" \in S \/ "srq" \in S \/ "qp" \in S
         /\ "device" \in Kept(S) <=> S # {}
<1> DEFINE more(T) == T \cup UNION {Members(o) : o \in T}
           MoreIs(T) ==
             /\ more(T) \in SUBSET Kinds
             /\ "qp" \in more(T) <=> "qp" \in T
             /\ "poller" \in more(T) <=> "poller" \in T
             /\ "srq" \in more(T) <=> "srq" \in T \/ (withSrq /\ "qp" \in T)
             /\ "cq" \in more(T) <=> "cq" \in T \/ "qp" \in T \/ "poller" \in T
             /\ "pd" \in more(T) <=> "pd" \in T \/ "srq" \in T \/ "qp" \in T
             /\ "device" \in more(T) <=> "device" \in T \/ "pd" \in T \/ "cq" \in T
<1>1. \A T \in SUBSET Kinds : MoreIs(T)
  BY DEF Kinds, Members
<1> HIDE DEF more
<1>2. Kept(S) = more(more(more(S))) BY DEF Kept, more
<1>3. MoreIs(S) BY <1>1
<1>4. MoreIs(more(S)) BY <1>1, <1>3
<1>5. MoreIs(more(more(S))) BY <1>1, <1>4
<1>6. S # {} <=> \/ "device" \in S \/ "pd" \in S \/ "cq" \in S \/ "srq" \in S
                 \/ "qp" \in S \/ "poller" \in S
  BY DEF Kinds
<1> QED BY <1>2, <1>3, <1>4, <1>5, <1>6

(* The kernel needs of an object what its shared_ptr members hold.         *)
LEMMA NeedsIsKept == \A S : Needs(S) = Kept(S)
BY DEF Needs, Kept, Uses, Members

(* What is kept keeps, in turn, all that it needs.                         *)
LEMMA KeptClosed ==
  ASSUME NEW S \in SUBSET Kinds, withSrq \in BOOLEAN,
         NEW u \in Kept(S), NEW o \in Needs(Uses(u))
  PROVE  o \in Kept(S)
<1>1. u \in Kinds /\ Uses(u) \in SUBSET Kinds BY KeptIs DEF Uses, Kinds
<1>2. o \in Kept(Uses(u)) BY NeedsIsKept
<1>3. o \in Kinds BY <1>1, <1>2, KeptIs
<1> HIDE DEF Kept
<1>4. CASE u = "device" BY <1>1, <1>2, <1>3, <1>4, KeptIs DEF Uses, Kinds
<1>5. CASE u = "pd" BY <1>1, <1>2, <1>3, <1>5, KeptIs DEF Uses, Kinds
<1>6. CASE u = "cq" BY <1>1, <1>2, <1>3, <1>6, KeptIs DEF Uses, Kinds
<1>7. CASE u = "srq" BY <1>1, <1>2, <1>3, <1>7, KeptIs DEF Uses, Kinds
<1>8. CASE u = "poller" BY <1>1, <1>2, <1>3, <1>8, KeptIs DEF Uses, Kinds
<1>9. CASE u = "qp" BY <1>1, <1>2, <1>3, <1>9, KeptIs DEF Uses, Kinds
<1> QED BY <1>1, <1>4, <1>5, <1>6, <1>7, <1>8, <1>9 DEF Kinds

(* A resource and the object that owns it come and go together.            *)
Linked ==
  \A o \in Kinds :
    (made[o] = "none" <=> raw[o] = "none") /\ (made[o] = "alive" <=> raw[o] = "live")

(* The destructors that run when the owners in S are left: what S keeps is *)
(* alive afterwards, and a resource is found in use only by one that was   *)
(* found so before, by a leaked ibv_qp, or by a registered region whose pd *)
(* nobody keeps.                                                           *)
LEMMA ReleaseFacts ==
  ASSUME ResourcesTypeOK, Linked,
         NEW S \in SUBSET Kinds, NEW regions \in BOOLEAN,
         \A o \in Kept(S) : made[o] = "alive",
         Release(S, regions)
  PROVE  /\ made' \in [Kinds -> {"none", "alive", "dead"}]
         /\ raw' \in [Kinds -> {"none", "live", "gone", "busy"}]
         /\ {o \in Kinds : made'[o] = "alive"} = Kept(S)
         /\ Linked'
         /\ \A o \in Kinds : raw'[o] = "busy" =>
              \/ raw[o] = "busy"
              \/ "qp" \in leaked /\ o \in Needs(Uses("qp"))
              \/ \E u \in Kinds : raw[u] = "busy" /\ o \in Needs(Uses(u))
              \/ regions /\ o \in {"pd", "device"} /\ "pd" \notin Kept(S)
<1> DEFINE dying == {o \in Kinds : made[o] = "alive"} \ Kept(S)
           users == {o \in Kinds \ dying : raw[o] \in {"live", "busy"}}
                    \cup (leaked \cap {"qp"})
           inUse == (UNION {Needs(Uses(o)) : o \in users})
                    \cup (IF regions THEN Needs({"pd"}) ELSE {})
<1>1. /\ made' = [o \in Kinds |-> IF o \in dying THEN "dead" ELSE made[o]]
      /\ raw' = [o \in Kinds |->
           IF o \notin dying THEN raw[o] ELSE IF o \in inUse THEN "busy" ELSE "gone"]
  BY DEF Release
<1>2. Kept(S) \subseteq Kinds /\ withSrq \in BOOLEAN
  BY KeptIs DEF ResourcesTypeOK
<1> HIDE DEF inUse
<1>3. /\ made' \in [Kinds -> {"none", "alive", "dead"}]
      /\ raw' \in [Kinds -> {"none", "live", "gone", "busy"}]
  BY <1>1 DEF ResourcesTypeOK
<1>4. {o \in Kinds : made'[o] = "alive"} = Kept(S)
  BY <1>1, <1>2 DEF ResourcesTypeOK
<1>5. Linked'
  BY <1>1 DEF Linked, ResourcesTypeOK
<1>6. ASSUME NEW o \in Kinds, raw'[o] = "busy", raw[o] # "busy"
      PROVE  \/ "qp" \in leaked /\ o \in Needs(Uses("qp"))
             \/ \E u \in Kinds : raw[u] = "busy" /\ o \in Needs(Uses(u))
             \/ regions /\ o \in {"pd", "device"} /\ "pd" \notin Kept(S)
  <2>1. o \in dying /\ o \in inUse BY <1>1, <1>6
  <2>2. CASE regions /\ o \in Needs({"pd"})
    <3>1. o \in Kept({"pd"}) BY <2>2, NeedsIsKept
    <3>2. {"pd"} \in SUBSET Kinds BY DEF Kinds
    <3>3. o \in {"pd", "device"} BY <1>2, <3>1, <3>2, KeptIs DEF Kinds
    <3>4. "pd" \in Kept(S) => "device" \in Kept(S) BY <1>2, KeptIs
    <3> QED BY <2>1, <2>2, <3>3, <3>4
  <2>3. ASSUME NEW u \in users, o \in Needs(Uses(u))
        PROVE  \/ "qp" \in leaked /\ o \in Needs(Uses("qp"))
               \/ \E v \in Kinds : raw[v] = "busy" /\ o \in Needs(Uses(v))
    <3>1. CASE u \in leaked \cap {"qp"} BY <2>3, <3>1
    <3>2. CASE u \in Kinds \ dying /\ raw[u] = "busy" BY <2>3, <3>2
    <3>3. CASE u \in Kinds \ dying /\ raw[u] = "live"
      <4>1. u \in Kept(S) BY <3>3 DEF Linked
      <4>2. o \in Kept(S) BY <1>2, <2>3, <4>1, KeptClosed
      <4> QED BY <2>1, <4>2
    <3> QED BY <3>1, <3>2, <3>3
  <2>4. \/ \E u \in users : o \in Needs(Uses(u))
        \/ regions /\ o \in Needs({"pd"})
    BY <2>1 DEF inUse
  <2> QED BY <2>2, <2>3, <2>4
<1> QED BY <1>3, <1>4, <1>5, <1>6

(* Whether the QP has an SRQ is decided once, so what needs what is fixed. *)
LEMMA KeptFixed ==
  ASSUME UNCHANGED withSrq
  PROVE  (\A S : Kept(S)' = Kept(S)) /\ Needs(Uses("qp"))' = Needs(Uses("qp"))
<1>1. \A o : Members(o)' = Members(o) /\ Uses(o)' = Uses(o)
  BY DEF Members, Uses
<1> QED BY <1>1 DEF Kept, Needs

(* Owners are objects of the model's kinds, and are alive.                 *)
LEMMA OwnersAlive ==
  ASSUME MrInv
  PROVE  /\ Owners(held, obj) \in SUBSET Kinds
         /\ \A o \in Kinds : o \in Kept(Owners(held, obj)) <=> made[o] = "alive"
         /\ \A o \in Owners(held, obj) : made[o] = "alive"
<1>1. Owners(held, obj) \in SUBSET Kinds
  BY DEF MrInv, TypeOK, ResourcesTypeOK, Owners, Kinds
<1>2. \A o \in Kinds : o \in Kept(Owners(held, obj)) <=> made[o] = "alive"
  BY DEF MrInv, Ownership
<1>3. Owners(held, obj) \subseteq Kept(Owners(held, obj)) BY DEF Kept
<1> QED BY <1>1, <1>2, <1>3

(* What is needed by what a leaked ibv_qp needs is needed by it, too; and  *)
(* below the pd there is only the device.                                  *)
LEMMA NeedsOfNeeded ==
  ASSUME withSrq \in BOOLEAN, NEW u, NEW o \in Needs(Uses(u))
  PROVE  /\ u \in Needs(Uses("qp")) => o \in Needs(Uses("qp"))
         /\ u \in {"pd", "device"} => o = "device"
<1>1. Uses("qp") \in SUBSET Kinds BY DEF Uses, Kinds
<1>2. u \in Needs(Uses("qp")) => o \in Needs(Uses("qp"))
  BY <1>1, KeptClosed, NeedsIsKept
<1>3. ASSUME u \in {"pd", "device"} PROVE o = "device"
  <2>1. o \in Kept(Uses(u)) /\ Uses(u) \in SUBSET {"device"}
    BY <1>3, NeedsIsKept DEF Uses
  <2>2. Uses(u) \in SUBSET Kinds BY <2>1 DEF Kinds
  <2> QED BY <2>1, <2>2, KeptIs DEF Kinds
<1> QED BY <1>2, <1>3

(* A step after which S and objects are left as owners, and nothing new is *)
(* owned: destructors run, in an order in which each finds its resource    *)
(* unused, or for a reason that ReleasedInOrder names.                     *)
LEMMA SettleInv ==
  ASSUME MrInv, NEW S, NEW objects, NEW regions,
         Owners(S, objects) \subseteq Owners(held, obj),
         Settle(S, objects, regions),
         held' = S, obj' = objects, UNCHANGED <<leaked, withSrq>>,
         dropped \subseteq dropped',
         (\E r \in Regions : regions[r] = "registered") /\ dropped' = {}
           => "pd" \in Owners(S, objects)
  PROVE  /\ made' \in [Kinds -> {"none", "alive", "dead"}]
         /\ raw' \in [Kinds -> {"none", "live", "gone", "busy"}]
         /\ {o \in Kinds : made'[o] = "alive"} = Kept(Owners(held, obj))'
         /\ Linked'
         /\ ReleasedInOrder'
<1> DEFINE left == Owners(S, objects)
           still == \E r \in Regions : regions[r] = "registered"
<1>1. left \in SUBSET Kinds /\ \A o \in Kept(left) : made[o] = "alive"
  <2>1. left \in SUBSET Kinds BY OwnersAlive
  <2>2. Kept(left) \subseteq Kept(Owners(held, obj)) BY DEF Kept
  <2>3. Kept(left) \subseteq Kinds BY <2>1, KeptIs DEF MrInv, TypeOK, ResourcesTypeOK
  <2> QED BY <2>1, <2>2, <2>3, OwnersAlive
<1>2. ResourcesTypeOK /\ Linked /\ still \in BOOLEAN
  BY DEF MrInv, TypeOK, Ownership, Linked
<1>3. Release(left, still) BY DEF Settle
<1> HIDE DEF left, still
<1>4. /\ made' \in [Kinds -> {"none", "alive", "dead"}]
      /\ raw' \in [Kinds -> {"none", "live", "gone", "busy"}]
      /\ {o \in Kinds : made'[o] = "alive"} = Kept(left)
      /\ Linked'
      /\ \A o \in Kinds : raw'[o] = "busy" =>
           \/ raw[o] = "busy"
           \/ "qp" \in leaked /\ o \in Needs(Uses("qp"))
           \/ \E u \in Kinds : raw[u] = "busy" /\ o \in Needs(Uses(u))
           \/ still /\ o \in {"pd", "device"} /\ "pd" \notin Kept(left)
  BY <1>1, <1>2, <1>3, ReleaseFacts
<1>5. Kept(Owners(held, obj))' = Kept(left)
  BY KeptFixed DEF left, Owners
<1>6. ReleasedInOrder'
  <2> SUFFICES ASSUME NEW o \in Kinds, raw'[o] = "busy"
               PROVE  \/ "qp" \in leaked /\ o \in Needs(Uses("qp"))
                      \/ dropped' # {} /\ o \in {"pd", "device"}
    BY KeptFixed DEF ReleasedInOrder, UsedByLost
  <2>1. ASSUME NEW u \in Kinds, raw[u] = "busy"
        PROVE  \/ "qp" \in leaked /\ u \in Needs(Uses("qp"))
               \/ dropped' # {} /\ u \in {"pd", "device"}
    BY <2>1 DEF MrInv, ReleasedInOrder, UsedByLost
  <2>2. ASSUME NEW u \in Kinds, raw[u] = "busy", o \in Needs(Uses(u))
        PROVE  \/ "qp" \in leaked /\ o \in Needs(Uses("qp"))
               \/ dropped' # {} /\ o \in {"pd", "device"}
    BY <2>1, <2>2, <1>2, NeedsOfNeeded DEF ResourcesTypeOK
  <2>3. ASSUME still, "pd" \notin Kept(left) PROVE dropped' # {}
    BY <2>3 DEF still, left, Kept
  <2> QED BY <1>4, <2>1, <2>2, <2>3
<1> QED BY <1>4, <1>5, <1>6

-----------------------------------------------------------------------------
(* The operations.                                                         *)

(* An object that is given what it uses adds itself to what is kept.       *)
LEMMA KeptPlus ==
  ASSUME withSrq \in BOOLEAN, NEW T \in SUBSET Kinds, NEW o \in Kinds,
         Uses(o) \subseteq T
  PROVE  Kept(T \cup {o}) = Kept(T) \cup {o}
<1> DEFINE U == T \cup {o}
<1>1. U \in SUBSET Kinds OBVIOUS
<1>2. \A k \in Kinds : k \in Kept(U) <=> k \in Kept(T) \/ k = o
  <2> HIDE DEF U
  <2>1. \A k : k \in U <=> k \in T \/ k = o BY DEF U
  <2>2. U # {} BY DEF U
  <2>3. CASE o = "device" BY <1>1, <2>1, <2>2, <2>3, KeptIs DEF Uses, Kinds
  <2>4. CASE o = "pd" BY <1>1, <2>1, <2>2, <2>4, KeptIs DEF Uses, Kinds
  <2>5. CASE o = "cq" BY <1>1, <2>1, <2>2, <2>5, KeptIs DEF Uses, Kinds
  <2>6. CASE o = "srq" BY <1>1, <2>1, <2>2, <2>6, KeptIs DEF Uses, Kinds
  <2>7. CASE o = "poller" BY <1>1, <2>1, <2>2, <2>7, KeptIs DEF Uses, Kinds
  <2>8. CASE o = "qp" BY <1>1, <2>1, <2>2, <2>8, KeptIs DEF Uses, Kinds
  <2> QED BY <2>3, <2>4, <2>5, <2>6, <2>7, <2>8 DEF Kinds
<1>3. Kept(U) \subseteq Kinds /\ Kept(T) \subseteq Kinds BY <1>1, KeptIs
<1> QED BY <1>2, <1>3

(* A constructor that succeeds keeps the invariant.                        *)
LEMMA MakeInv ==
  ASSUME MrInv, NEW o \in Kinds, Uses(o) \subseteq held, Make(o), UNCHANGED mrVars
  PROVE  MrInv'
<1> DEFINE T == Owners(held, obj)
<1>1. T \in SUBSET Kinds /\ held \subseteq T BY OwnersAlive DEF Owners
<1>2. TypeOK'
  BY DEF MrInv, TypeOK, ResourcesTypeOK, Make, mrVars
<1>3. OwnedOnce'
  BY DEF MrInv, OwnedOnce, mrVars, Exists
<1>4. ReleasedInOrder'
  BY KeptFixed DEF MrInv, TypeOK, ResourcesTypeOK, ReleasedInOrder, UsedByLost, Make, mrVars
<1>5. {k \in Kinds : made'[k] = "alive"} = Kept(Owners(held, obj))'
  <2>1. Owners(held, obj)' = T \cup {o} BY DEF Owners, Make, mrVars
  <2>2. Kept(T \cup {o}) = Kept(T) \cup {o}
    BY <1>1, KeptPlus DEF MrInv, TypeOK, ResourcesTypeOK
  <2>3. Kept(Owners(held, obj))' = Kept(T) \cup {o}
    BY <2>1, <2>2, KeptFixed DEF Make
  <2>4. {k \in Kinds : made'[k] = "alive"} = {k \in Kinds : made[k] = "alive"} \cup {o}
    BY DEF MrInv, TypeOK, ResourcesTypeOK, Make
  <2> QED BY <2>3, <2>4 DEF MrInv, Ownership
<1>6. Linked'
  BY DEF MrInv, TypeOK, ResourcesTypeOK, Ownership, Linked, Make
<1>7. Ownership'
  BY <1>5, <1>6 DEF MrInv, Ownership, Linked, Exists, mrVars
<1> QED BY <1>2, <1>3, <1>4, <1>7 DEF MrInv

(* So does any constructor, be it that it leaks what it has made.          *)
LEMMA MakeStepInv ==
  ASSUME MrInv, MakeStep, UNCHANGED mrVars
  PROVE  MrInv'
<1>1. ASSUME UNCHANGED <<made, raw, held, withSrq>>, leaked \subseteq leaked',
             leaked' \subseteq {"device", "qp"}
      PROVE  MrInv'
  <2>1. TypeOK' /\ OwnedOnce'
    BY <1>1 DEF MrInv, TypeOK, ResourcesTypeOK, OwnedOnce, Exists, mrVars
  <2>2. ReleasedInOrder'
    BY <1>1, KeptFixed DEF MrInv, ReleasedInOrder, UsedByLost, mrVars
  <2>3. Ownership'
    BY <1>1, KeptFixed DEF MrInv, Ownership, Owners, Exists, mrVars
  <2> QED BY <2>1, <2>2, <2>3 DEF MrInv
<1>2. CASE OpenDeviceFails
  BY <1>1, <1>2 DEF OpenDeviceFails, MrInv, TypeOK, ResourcesTypeOK
<1>3. CASE CreateQpFails
  BY <1>1, <1>3 DEF CreateQpFails, MrInv, TypeOK, ResourcesTypeOK
<1>4. CASE OpenDevice
  BY <1>4, MakeInv DEF OpenDevice, Uses, Kinds
<1>5. ASSUME NEW o \in Kinds, Create(o) PROVE MrInv'
  BY <1>5, MakeInv DEF Create
<1> QED BY <1>2, <1>3, <1>4, <1>5
        DEF MakeStep, CreatePd, CreateCq, CreateSrq, StartPoller, CreateQp, Kinds

(* pd::reg_mr keeps it: the pd of the new region is alive.                 *)
LEMMA RegisterInv ==
  ASSUME MrInv, NEW h \in Handles, NEW r \in Regions, NEW n \in Lengths,
         Register(h, r, n)
  PROVE  MrInv'
<1> DEFINE new == [mr |-> r, pd |-> TRUE]
<1>1. new \in Objects /\ new # None /\ new.mr = r /\ new.pd /\ r # None
  <2>1. new \in Objects BY DEF Objects
  <2>2. None \notin Objects /\ None \notin Regions BY SizesAssumption DEF Objects
  <2>3. new.mr = r /\ new.pd = TRUE OBVIOUS
  <2> QED BY <2>1, <2>2, <2>3
<1> HIDE DEF new
<1>2. /\ ~Exists(h) /\ region[r] = "free" /\ obj' = [obj EXCEPT ![h] = new]
      /\ region' = [region EXCEPT ![r] = "registered"]
      /\ len' = [len EXCEPT ![r] = n]
      /\ UNCHANGED <<made, raw, held, leaked, withSrq, dropped>>
  BY DEF Register, new, resourceVars
<1>3. TypeOK'
  BY <1>1, <1>2 DEF MrInv, TypeOK, ResourcesTypeOK
<1>4. OwnedOnce'
  BY <1>1, <1>2 DEF MrInv, TypeOK, OwnedOnce, Exists
<1>5. ReleasedInOrder'
  BY <1>2, KeptFixed DEF MrInv, ReleasedInOrder, UsedByLost
<1>6. Kept(Owners(held, obj))' = Kept(Owners(held, obj))
  <2> DEFINE T == Owners(held, obj)
  <2>1. Owners(held, obj)' = T \cup {"pd"}
    BY <1>1, <1>2 DEF Owners, MrInv, TypeOK, Exists
  <2>2. held \cap {"pd", "qp"} # {} /\ held \subseteq T BY DEF Register, Owners
  <2>3. T \in SUBSET Kinds /\ T \cup {"pd"} \in SUBSET Kinds
    BY OwnersAlive DEF Kinds
  <2>4. Kept(T \cup {"pd"}) = Kept(T)
    <3> HIDE DEF T
    <3>1. \A k \in Kinds : k \in Kept(T \cup {"pd"}) <=> k \in Kept(T)
      BY <2>2, <2>3, KeptIs DEF MrInv, TypeOK, ResourcesTypeOK, Kinds
    <3>2. Kept(T) \subseteq Kinds /\ Kept(T \cup {"pd"}) \subseteq Kinds
      BY <2>3, KeptIs DEF MrInv, TypeOK, ResourcesTypeOK
    <3> QED BY <3>1, <3>2
  <2> QED BY <1>2, <2>1, <2>4, KeptFixed
<1>7. \A q \in Regions \ dropped' : region'[q] = "registered" =>
        \E g \in Handles : obj'[g] # None /\ obj'[g].mr = q
  <2> SUFFICES ASSUME NEW q \in Regions \ dropped', region'[q] = "registered"
               PROVE  \E g \in Handles : obj'[g] # None /\ obj'[g].mr = q
    OBVIOUS
  <2>1. CASE q = r
    BY <1>1, <1>2, <2>1 DEF MrInv, TypeOK
  <2>2. CASE q # r
    <3>1. PICK g \in Handles : Exists(g) /\ obj[g].mr = q
      BY <1>2, <2>2 DEF MrInv, TypeOK, Ownership
    <3> QED BY <1>2, <3>1 DEF Exists, MrInv, TypeOK
  <2> QED BY <2>1, <2>2
<1>8. Ownership'
  BY <1>1, <1>2, <1>6, <1>7 DEF MrInv, TypeOK, Ownership, Exists
<1> QED BY <1>3, <1>4, <1>5, <1>8 DEF MrInv

(* A moved-from local_mr is an object that owns nothing.                   *)
LEMMA MovedFacts ==
  Moved \in Objects /\ Moved # None /\ Moved.mr = None /\ Moved.pd = FALSE
<1>1. Moved \in Objects BY DEF Moved, Objects
<1>2. None \notin Objects BY SizesAssumption DEF Objects
<1>3. Moved.mr = None /\ Moved.pd = FALSE BY DEF Moved
<1> QED BY <1>1, <1>2, <1>3

(* A place after obj[g] was moved to h: h has what g had, g has Moved, the *)
(* other places are as before.                                             *)
MovedTo(h, g, after) ==
  /\ after \in [Handles -> Objects \cup {None}]
  /\ after[h] = obj[g] /\ after[g] = Moved
  /\ \A x \in Handles \ {h, g} : after[x] = obj[x]

(* Moving keeps ownership exclusive, and what g owned is owned by h.       *)
LEMMA MoveFacts ==
  ASSUME MrInv, NEW h \in Handles, NEW g \in Handles, h # g, Exists(g),
         NEW after, MovedTo(h, g, after), obj' = after, UNCHANGED region
  PROVE  /\ OwnedOnce'
         /\ \A x \in Handles : after[x] # None /\ after[x].mr # None => after[x].pd
         /\ \A r \in Regions : r # None /\ (~Exists(h) \/ r # obj[h].mr)
                /\ (\E x \in Handles : Exists(x) /\ obj[x].mr = r) =>
              \E x \in Handles : after[x] # None /\ after[x].mr = r
         /\ \A x \in Handles : after[x] # None /\ after[x].pd =>
              \E y \in Handles : Exists(y) /\ obj[y].pd
<1> USE MovedFacts
<1>1. OwnedOnce'
  <2> SUFFICES ASSUME NEW x \in Handles, after[x] # None, after[x].mr # None
               PROVE  /\ region[after[x].mr] = "registered"
                      /\ \A y \in Handles \ {x} :
                           after[y] # None => after[y].mr # after[x].mr
    BY DEF OwnedOnce, Exists
  <2>1. \A y \in Handles : after[y] # None /\ after[y].mr # None =>
          y # g /\ Exists(IF y = h THEN g ELSE y)
                /\ after[y] = obj[IF y = h THEN g ELSE y]
    BY DEF MovedTo, Exists
  <2> QED BY <2>1 DEF MrInv, OwnedOnce
<1>2. \A x \in Handles : after[x] # None /\ after[x].mr # None => after[x].pd
  BY DEF MovedTo, MrInv, Ownership, Exists
<1>3. ASSUME NEW r \in Regions, ~Exists(h) \/ r # obj[h].mr,
             NEW x \in Handles, Exists(x), obj[x].mr = r
      PROVE  \E y \in Handles : after[y] # None /\ after[y].mr = r
  <2>1. CASE x = g BY <1>3, <2>1 DEF MovedTo, Exists
  <2>2. CASE x # g BY <1>3, <2>2 DEF MovedTo, Exists
  <2> QED BY <2>1, <2>2
<1>4. \A x \in Handles : after[x] # None /\ after[x].pd =>
        \E y \in Handles : Exists(y) /\ obj[y].pd
  BY DEF MovedTo, Exists
<1> QED BY <1>1, <1>2, <1>3, <1>4

(* The move constructor keeps the invariant.                               *)
LEMMA MoveConstructInv ==
  ASSUME MrInv, NEW h \in Handles, NEW g \in Handles, MoveConstruct(h, g)
  PROVE  MrInv'
<1> DEFINE after == [obj EXCEPT ![h] = obj[g], ![g] = Moved]
<1>1. /\ ~Exists(h) /\ Exists(g) /\ h # g /\ obj' = after
      /\ UNCHANGED <<made, raw, held, leaked, withSrq, region, len, dropped>>
  BY DEF MoveConstruct, resourceVars, Exists
<1>2. MovedTo(h, g, after)
  BY <1>1, MovedFacts DEF MovedTo, MrInv, TypeOK
<1> HIDE DEF after
<1>3. TypeOK'
  BY <1>1, <1>2 DEF MrInv, TypeOK, ResourcesTypeOK, MovedTo
<1>4. ReleasedInOrder'
  BY <1>1, KeptFixed DEF MrInv, ReleasedInOrder, UsedByLost
<1>5. /\ OwnedOnce'
      /\ \A x \in Handles : after[x] # None /\ after[x].mr # None => after[x].pd
      /\ \A x \in Handles : after[x] # None /\ after[x].pd =>
           \E y \in Handles : Exists(y) /\ obj[y].pd
  BY <1>1, <1>2, MoveFacts
<1>6. Owners(held, obj)' = Owners(held, obj)
  <2>1. ASSUME NEW y \in Handles, Exists(y), obj[y].pd
        PROVE  \E x \in Handles : after[x] # None /\ after[x].pd
    <3>1. CASE y = g BY <1>1, <1>2, <2>1, <3>1 DEF MovedTo, Exists
    <3>2. CASE y # g BY <1>1, <1>2, <2>1, <3>2 DEF MovedTo, Exists
    <3> QED BY <3>1, <3>2
  <2> QED BY <1>1, <1>5, <2>1 DEF Owners, Exists
<1>7. \A r \in Regions \ dropped : region[r] = "registered" =>
        \E x \in Handles : after[x] # None /\ after[x].mr = r
  <2> SUFFICES ASSUME NEW r \in Regions \ dropped, region[r] = "registered"
               PROVE  \E x \in Handles : after[x] # None /\ after[x].mr = r
    OBVIOUS
  <2>1. r # None /\ \E x \in Handles : Exists(x) /\ obj[x].mr = r
    BY SizesAssumption DEF MrInv, Ownership
  <2> QED BY <1>1, <1>2, <2>1, MoveFacts
<1>8. Ownership'
  BY <1>1, <1>5, <1>6, <1>7, KeptFixed DEF MrInv, Ownership, Exists
<1> QED BY <1>3, <1>4, <1>5, <1>8 DEF MrInv

(* Move assignment keeps it: what it overwrites is dropped, be it still    *)
(* registered, and the pd goes if that was its last reference.             *)
LEMMA MoveAssignInv ==
  ASSUME MrInv, NEW h \in Handles, NEW g \in Handles, MoveAssign(h, g)
  PROVE  MrInv'
<1> DEFINE after == IF h = g THEN [obj EXCEPT ![h].mr = None]
                    ELSE [obj EXCEPT ![h] = obj[g], ![g] = Moved]
<1>1. /\ Exists(h) /\ Exists(g) /\ obj' = after
      /\ dropped' = dropped \cup ({obj[h].mr} \ {None})
      /\ Settle(held, after, region)
      /\ UNCHANGED <<held, leaked, withSrq, region, len>>
  BY DEF MoveAssign
<1>2. obj[h] \in Objects /\ obj[g] \in Objects
  BY <1>1 DEF MrInv, TypeOK, Exists
<1>3. /\ after \in [Handles -> Objects \cup {None}]
      /\ OwnedOnce'
      /\ \A x \in Handles : after[x] # None /\ after[x].mr # None => after[x].pd
      /\ \A r \in Regions : r # obj[h].mr /\ (\E x \in Handles : Exists(x) /\ obj[x].mr = r) =>
           \E x \in Handles : after[x] # None /\ after[x].mr = r
      /\ \A x \in Handles : after[x] # None /\ after[x].pd =>
           \E y \in Handles : Exists(y) /\ obj[y].pd
  <2>1. CASE h # g
    <3>1. after = [obj EXCEPT ![h] = obj[g], ![g] = Moved] BY <2>1
    <3>2. MovedTo(h, g, after)
      BY <1>2, <2>1, <3>1, MovedFacts DEF MovedTo, MrInv, TypeOK
    <3> HIDE DEF after
    <3>3. \A r \in Regions : r # None BY SizesAssumption
    <3>4. /\ OwnedOnce'
          /\ \A x \in Handles : after[x] # None /\ after[x].mr # None => after[x].pd
          /\ \A r \in Regions : r # None /\ (~Exists(h) \/ r # obj[h].mr)
                 /\ (\E x \in Handles : Exists(x) /\ obj[x].mr = r) =>
               \E x \in Handles : after[x] # None /\ after[x].mr = r
          /\ \A x \in Handles : after[x] # None /\ after[x].pd =>
               \E y \in Handles : Exists(y) /\ obj[y].pd
      BY <1>1, <2>1, <3>2, MoveFacts
    <3>5. after \in [Handles -> Objects \cup {None}] BY <3>2 DEF MovedTo
    <3> QED BY <3>3, <3>4, <3>5
  <2>2. CASE h = g
    <3> DEFINE self == [obj[h] EXCEPT !.mr = None]
    <3>1. self \in Objects /\ self.mr = None /\ self.pd = obj[h].pd
      BY <1>2 DEF Objects
    <3>2. after = [obj EXCEPT ![h] = self] BY <2>2
    <3> HIDE DEF after, self
    <3>3. /\ after \in [Handles -> Objects \cup {None}]
          /\ after[h] = self
          /\ \A x \in Handles \ {h} : after[x] = obj[x]
      BY <3>1, <3>2 DEF MrInv, TypeOK
    <3>4. OwnedOnce'
      BY <1>1, <3>1, <3>3 DEF MrInv, OwnedOnce, Exists
    <3>5. \A x \in Handles : after[x] # None /\ after[x].mr # None => after[x].pd
      BY <3>1, <3>3 DEF MrInv, Ownership, Exists
    <3>6. ASSUME NEW r \in Regions, r # obj[h].mr,
                 \E x \in Handles : Exists(x) /\ obj[x].mr = r
          PROVE  \E x \in Handles : after[x] # None /\ after[x].mr = r
      BY <3>3, <3>6 DEF Exists
    <3>7. \A x \in Handles : after[x] # None /\ after[x].pd =>
            \E y \in Handles : Exists(y) /\ obj[y].pd
      BY <1>1, <3>1, <3>3 DEF Exists
    <3> QED BY <3>3, <3>4, <3>5, <3>6, <3>7
  <2> QED BY <2>1, <2>2
<1> HIDE DEF after
<1>4. \A r \in Regions \ dropped' : region[r] = "registered" =>
        \E x \in Handles : after[x] # None /\ after[x].mr = r
  <2> SUFFICES ASSUME NEW r \in Regions \ dropped', region[r] = "registered"
               PROVE  \E x \in Handles : after[x] # None /\ after[x].mr = r
    OBVIOUS
  <2>1. r \notin dropped /\ r # obj[h].mr /\ r # None
    BY <1>1, SizesAssumption
  <2>2. \E x \in Handles : Exists(x) /\ obj[x].mr = r
    BY <2>1 DEF MrInv, Ownership
  <2> QED BY <1>3, <2>1, <2>2
<1>5. Owners(held, after) \subseteq Owners(held, obj)
  BY <1>3 DEF Owners, Exists
<1>6. (\E r \in Regions : region[r] = "registered") /\ dropped' = {}
        => "pd" \in Owners(held, after)
  <2> SUFFICES ASSUME NEW r \in Regions, region[r] = "registered", dropped' = {}
               PROVE  "pd" \in Owners(held, after)
    OBVIOUS
  <2>1. PICK x \in Handles : after[x] # None /\ after[x].mr = r BY <1>4
  <2>2. after[x].pd BY <1>3, <2>1, SizesAssumption
  <2> QED BY <2>1, <2>2 DEF Owners
<1>7. /\ made' \in [Kinds -> {"none", "alive", "dead"}]
      /\ raw' \in [Kinds -> {"none", "live", "gone", "busy"}]
      /\ {o \in Kinds : made'[o] = "alive"} = Kept(Owners(held, obj))'
      /\ Linked'
      /\ ReleasedInOrder'
  BY <1>1, <1>5, <1>6, SettleInv
<1>8. TypeOK'
  BY <1>1, <1>2, <1>3, <1>7 DEF MrInv, TypeOK, ResourcesTypeOK, Objects
<1>9. Ownership'
  BY <1>1, <1>3, <1>4, <1>7 DEF Ownership, Linked, Exists
<1> QED BY <1>3, <1>7, <1>8, <1>9 DEF MrInv

(* ~local_mr keeps it: it deregisters what only it owned.                  *)
LEMMA DestructInv ==
  ASSUME MrInv, NEW h \in Handles, Destruct(h)
  PROVE  MrInv'
<1> DEFINE r == obj[h].mr
           after == [obj EXCEPT ![h] = None]
           regions == IF r = None THEN region ELSE [region EXCEPT ![r] = "gone"]
<1>1. /\ Exists(h) /\ obj' = after /\ region' = regions
      /\ Settle(held, after, regions)
      /\ UNCHANGED <<held, leaked, withSrq, len, dropped>>
  BY DEF Destruct
<1>2. obj[h] \in Objects /\ r \in Regions \cup {None}
  BY <1>1 DEF MrInv, TypeOK, Exists, Objects
<1>3. /\ after \in [Handles -> Objects \cup {None}] /\ after[h] = None
      /\ \A x \in Handles \ {h} : after[x] = obj[x]
  BY DEF MrInv, TypeOK
<1>4. /\ regions \in [Regions -> {"free", "registered", "gone"}]
      /\ \A q \in Regions : q # r => regions[q] = region[q]
      /\ r \in Regions => regions[r] = "gone"
  BY <1>2, SizesAssumption DEF MrInv, TypeOK
<1> HIDE DEF after, regions, r
<1>5. OwnedOnce'
  <2> SUFFICES ASSUME NEW x \in Handles, after[x] # None, after[x].mr # None
               PROVE  /\ regions[after[x].mr] = "registered"
                      /\ \A y \in Handles \ {x} :
                           after[y] # None => after[y].mr # after[x].mr
    BY <1>1 DEF OwnedOnce, Exists
  <2>1. x # h /\ after[x] = obj[x] BY <1>3
  <2>2. obj[x].mr # r /\ obj[x].mr \in Regions
    BY <1>1, <2>1 DEF MrInv, TypeOK, OwnedOnce, Exists, r, Objects
  <2>3. region[obj[x].mr] = "registered"
    BY <2>1 DEF MrInv, OwnedOnce, Exists
  <2>4. \A y \in Handles \ {x} : after[y] # None => after[y].mr # after[x].mr
    BY <1>3, <2>1 DEF MrInv, OwnedOnce, Exists
  <2> QED BY <1>4, <2>1, <2>2, <2>3, <2>4
<1>6. \A q \in Regions \ dropped : regions[q] = "registered" =>
        \E x \in Handles : after[x] # None /\ after[x].mr = q
  <2> SUFFICES ASSUME NEW q \in Regions \ dropped, regions[q] = "registered"
               PROVE  \E x \in Handles : after[x] # None /\ after[x].mr = q
    OBVIOUS
  <2>1. q # r /\ region[q] = "registered" BY <1>4
  <2>2. PICK x \in Handles : Exists(x) /\ obj[x].mr = q
    BY <2>1 DEF MrInv, Ownership
  <2> QED BY <1>3, <2>1, <2>2 DEF Exists, r
<1>7. \A x \in Handles : after[x] # None /\ after[x].mr # None => after[x].pd
  BY <1>3 DEF MrInv, Ownership, Exists
<1>8. Owners(held, after) \subseteq Owners(held, obj)
  BY <1>3 DEF Owners, Exists
<1>9. (\E q \in Regions : regions[q] = "registered") /\ dropped' = {}
        => "pd" \in Owners(held, after)
  <2> SUFFICES ASSUME NEW q \in Regions, regions[q] = "registered", dropped = {}
               PROVE  "pd" \in Owners(held, after)
    BY <1>1
  <2>1. PICK x \in Handles : after[x] # None /\ after[x].mr = q BY <1>6
  <2>2. after[x].pd BY <1>7, <2>1, SizesAssumption
  <2> QED BY <2>1, <2>2 DEF Owners
<1>10. /\ made' \in [Kinds -> {"none", "alive", "dead"}]
       /\ raw' \in [Kinds -> {"none", "live", "gone", "busy"}]
       /\ {o \in Kinds : made'[o] = "alive"} = Kept(Owners(held, obj))'
       /\ Linked'
       /\ ReleasedInOrder'
  BY <1>1, <1>8, <1>9, SettleInv
<1>11. TypeOK'
  BY <1>1, <1>3, <1>4, <1>10 DEF MrInv, TypeOK, ResourcesTypeOK
<1>12. Ownership'
  BY <1>1, <1>6, <1>7, <1>10 DEF Ownership, Linked, Exists
<1> QED BY <1>5, <1>10, <1>11, <1>12 DEF MrInv

(* So does letting go of an object.                                        *)
LEMMA DropInv ==
  ASSUME MrInv, NEW o \in Kinds, Drop(o)
  PROVE  MrInv'
<1>1. /\ o \in held /\ held' = held \ {o} /\ Settle(held \ {o}, obj, region)
      /\ UNCHANGED <<leaked, withSrq, region, len, obj, dropped>>
  BY DEF Drop, mrVars
<1>2. Owners(held \ {o}, obj) \subseteq Owners(held, obj) BY DEF Owners
<1>3. (\E q \in Regions : region[q] = "registered") /\ dropped' = {}
        => "pd" \in Owners(held \ {o}, obj)
  <2> SUFFICES ASSUME NEW q \in Regions, region[q] = "registered", dropped = {}
               PROVE  "pd" \in Owners(held \ {o}, obj)
    BY <1>1
  <2>1. PICK x \in Handles : Exists(x) /\ obj[x].mr = q BY DEF MrInv, Ownership
  <2>2. obj[x].pd BY <2>1, SizesAssumption DEF MrInv, Ownership
  <2> QED BY <2>1, <2>2 DEF Owners, Exists
<1>4. /\ made' \in [Kinds -> {"none", "alive", "dead"}]
      /\ raw' \in [Kinds -> {"none", "live", "gone", "busy"}]
      /\ {k \in Kinds : made'[k] = "alive"} = Kept(Owners(held, obj))'
      /\ Linked'
      /\ ReleasedInOrder'
  BY <1>1, <1>2, <1>3, SettleInv
<1>5. TypeOK' /\ OwnedOnce'
  BY <1>1, <1>4 DEF MrInv, TypeOK, ResourcesTypeOK, OwnedOnce, Exists
<1>6. Ownership'
  BY <1>1, <1>4 DEF MrInv, Ownership, Linked, Exists
<1> QED BY <1>4, <1>5, <1>6 DEF MrInv

(* At first there is nothing.                                              *)
LEMMA InitInv == Init => MrInv
<1> SUFFICES ASSUME Init PROVE MrInv OBVIOUS
<1> USE DEF Init, ResourcesInit
<1>1. TypeOK BY DEF TypeOK, ResourcesTypeOK
<1>2. OwnedOnce BY DEF OwnedOnce, Exists
<1>3. ReleasedInOrder BY DEF ReleasedInOrder, UsedByLost
<1>4. Owners(held, obj) = {} BY DEF Owners
<1>5. Kept({}) = {} BY DEF Kept
<1>6. Ownership BY <1>4, <1>5 DEF Ownership, Exists
<1> QED BY <1>1, <1>2, <1>3, <1>6 DEF MrInv

(* Every operation keeps the invariant.                                    *)
LEMMA NextInv == MrInv /\ [Next]_vars => MrInv'
<1> SUFFICES ASSUME MrInv, [Next]_vars PROVE MrInv' OBVIOUS
<1>1. CASE UNCHANGED vars
  <2>1. UNCHANGED <<made, raw, held, leaked, withSrq, region, len, obj, dropped>>
    BY <1>1 DEF vars, resourceVars, mrVars
  <2>2. TypeOK' /\ OwnedOnce'
    BY <2>1 DEF MrInv, TypeOK, ResourcesTypeOK, OwnedOnce, Exists
  <2>3. ReleasedInOrder' BY <2>1, KeptFixed DEF MrInv, ReleasedInOrder, UsedByLost
  <2>4. Ownership' BY <2>1, KeptFixed DEF MrInv, Ownership, Owners, Exists
  <2> QED BY <2>2, <2>3, <2>4 DEF MrInv
<1> QED BY <1>1, MakeStepInv, DropInv, RegisterInv, MoveConstructInv,
           MoveAssignInv, DestructInv DEF Next

-----------------------------------------------------------------------------
(* The theorems.                                                           *)

(* The invariant holds in every reachable state; with it the variables     *)
(* keep their types.                                                       *)
THEOREM MrInvAlways == Spec => []MrInv
BY InitInv, NextInv, PTL DEF Spec

(* The variables keep their types.                                         *)
THEOREM TypeOKAlways == Spec => []TypeOK
<1>1. MrInv => TypeOK BY DEF MrInv
<1> QED BY <1>1, MrInvAlways, PTL

(* However local_mr objects are moved, no region is deregistered twice or  *)
(* under an object that still uses it (the move operations and the         *)
(* destructor of src/mr.cc).                                               *)
THEOREM OwnedOnceAlways == Spec => []OwnedOnce
<1>1. MrInv => OwnedOnce BY DEF MrInv
<1> QED BY <1>1, MrInvAlways, PTL

(* In whatever order the user lets go of device, pd, CQ, SRQ, QP, poller   *)
(* and regions, each resource is released after all that use it, except    *)
(* where a failed transition or a move assignment lost one.                *)
THEOREM ReleasedInOrderAlways == Spec => []ReleasedInOrder
<1>1. MrInv => ReleasedInOrder BY DEF MrInv
<1> QED BY <1>1, MrInvAlways, PTL

(* Alive is what the owners keep, a local_mr with a region keeps the pd,   *)
(* and only a dropped region is registered without a local_mr.             *)
THEOREM OwnershipAlways == Spec => []Ownership
<1>1. MrInv => Ownership BY DEF MrInv
<1> QED BY <1>1, MrInvAlways, PTL

-----------------------------------------------------------------------------
(* What is lost, and what is left in the end.                              *)

(* A destructor cannot release what something lost uses.                   *)
LEMMA ReleaseKeepsLost ==
  ASSUME ResourcesTypeOK, NEW S, NEW regions \in BOOLEAN, Release(S, regions),
         NEW o \in Kinds, raw[o] \in {"live", "busy"},
         \/ "qp" \in leaked /\ o \in Needs(Uses("qp"))
         \/ regions /\ o \in {"pd", "device"}
  PROVE  raw'[o] \in {"live", "busy"}
<1> DEFINE dying == {k \in Kinds : made[k] = "alive"} \ Kept(S)
           users == {k \in Kinds \ dying : raw[k] \in {"live", "busy"}}
                    \cup (leaked \cap {"qp"})
           inUse == (UNION {Needs(Uses(k)) : k \in users})
                    \cup (IF regions THEN Needs({"pd"}) ELSE {})
<1>1. raw'[o] = IF o \notin dying THEN raw[o] ELSE IF o \in inUse THEN "busy" ELSE "gone"
  BY DEF Release
<1>2. {"pd", "device"} \subseteq Needs({"pd"}) BY DEF Needs, Uses
<1>3. "qp" \in leaked => Needs(Uses("qp")) \subseteq inUse OBVIOUS
<1>4. o \in inUse BY <1>2, <1>3
<1> QED BY <1>1, <1>4

(* A step that lets go and loses nothing new but a region whose pd is      *)
(* still alive keeps what was lost in use.                                 *)
LEMMA SettleLost ==
  ASSUME MrInv, LostForGood, NEW S, NEW objects, NEW regions,
         Settle(S, objects, regions), UNCHANGED <<leaked, withSrq>>,
         dropped' # {} => \E r \in Regions : regions[r] = "registered",
         dropped' # dropped => made["pd"] = "alive"
  PROVE  \A o \in Kinds : UsedByLost(o)' => raw'[o] \in {"live", "busy"}
<1> SUFFICES ASSUME NEW o \in Kinds, UsedByLost(o)' PROVE raw'[o] \in {"live", "busy"}
  OBVIOUS
<1> DEFINE still == \E r \in Regions : regions[r] = "registered"
<1>1. ResourcesTypeOK /\ still \in BOOLEAN BY DEF MrInv, TypeOK
<1>2. Release(Owners(S, objects), still) BY DEF Settle
<1>3. \/ "qp" \in leaked /\ o \in Needs(Uses("qp"))
      \/ dropped' # {} /\ o \in {"pd", "device"}
  BY KeptFixed DEF UsedByLost
<1>4. raw[o] \in {"live", "busy"}
  <2>1. CASE UsedByLost(o) BY <2>1 DEF LostForGood
  <2>2. CASE made["pd"] = "alive" /\ o \in {"pd", "device"}
    <3>1. "pd" \in Kept(Owners(held, obj)) BY <2>2, OwnersAlive DEF Kinds
    <3>2. "device" \in Kept(Owners(held, obj))
      BY <3>1, OwnersAlive, KeptIs DEF MrInv, TypeOK, ResourcesTypeOK
    <3>3. made[o] = "alive" BY <2>2, <3>2, OwnersAlive
    <3> QED BY <3>3 DEF MrInv, Ownership
  <2> QED BY <1>3, <2>1, <2>2 DEF UsedByLost
<1> HIDE DEF still
<1>5. dropped' # {} => still BY DEF still
<1> QED BY <1>1, <1>2, <1>3, <1>4, <1>5, ReleaseKeepsLost

(* What an object owns has not been dropped, wherever it is moved to.      *)
LEMMA MoveAssignLost ==
  ASSUME MrInv, LostForGood, NEW h \in Handles, NEW g \in Handles, MoveAssign(h, g)
  PROVE  LostForGood'
<1> DEFINE after == IF h = g THEN [obj EXCEPT ![h].mr = None]
                    ELSE [obj EXCEPT ![h] = obj[g], ![g] = Moved]
<1>1. /\ Exists(h) /\ Exists(g) /\ obj' = after
      /\ dropped' = dropped \cup ({obj[h].mr} \ {None})
      /\ Settle(held, after, region)
      /\ UNCHANGED <<held, leaked, withSrq, region, len>>
  BY DEF MoveAssign
<1>2. /\ obj \in [Handles -> Objects \cup {None}]
      /\ obj[h] \in Objects /\ obj[g] \in Objects /\ dropped \subseteq Regions
  BY <1>1 DEF MrInv, TypeOK, Exists
<1>3. ASSUME NEW r \in dropped', NEW x \in Handles, after[x] # None
      PROVE  after[x].mr # r
  <2>1. r # None BY <1>1, <1>2, <1>3, SizesAssumption
  <2>2. CASE h = g
    <3>1. x = h => after[x].mr = None BY <1>2, <2>2 DEF Objects
    <3>2. x # h => after[x] = obj[x] BY <1>2, <2>2
    <3> QED BY <1>1, <1>3, <2>1, <3>1, <3>2 DEF MrInv, OwnedOnce, LostForGood, Exists
  <2>3. CASE h # g
    <3>1. /\ x = g => after[x].mr = None
          /\ x = h => after[x] = obj[g]
          /\ x \notin {g, h} => after[x] = obj[x]
      BY <1>2, <2>3, MovedFacts
    <3> QED BY <1>1, <1>3, <2>1, <2>3, <3>1 DEF MrInv, OwnedOnce, LostForGood, Exists
  <2> QED BY <2>2, <2>3
<1>4. \A r \in dropped' : region[r] = "registered"
  BY <1>1 DEF MrInv, OwnedOnce, LostForGood
<1>5. dropped' # dropped => made["pd"] = "alive"
  <2>1. ASSUME obj[h].mr # None PROVE "pd" \in Owners(held, obj)
    BY <1>1, <2>1 DEF MrInv, Ownership, Owners, Exists
  <2> QED BY <1>1, <2>1, OwnersAlive
<1> HIDE DEF after
<1>6. dropped' \subseteq Regions
  BY <1>1, <1>2 DEF Objects
<1>7. \A o \in Kinds : UsedByLost(o)' => raw'[o] \in {"live", "busy"}
  BY <1>1, <1>4, <1>5, <1>6, SettleLost
<1> QED BY <1>1, <1>3, <1>4, <1>7 DEF LostForGood, Exists

(* Every step keeps what was lost in use.                                  *)
LEMMA NextLost == MrInv /\ LostForGood /\ [Next]_vars => LostForGood'
<1> SUFFICES ASSUME MrInv, LostForGood, [Next]_vars PROVE LostForGood' OBVIOUS
<1>1. ASSUME UNCHANGED <<raw, leaked, withSrq, region, obj, dropped>> PROVE LostForGood'
  BY <1>1, KeptFixed DEF LostForGood, UsedByLost, Exists
<1>2. ASSUME NEW o \in Kinds, Make(o), UNCHANGED mrVars PROVE LostForGood'
  <2>1. /\ raw' = [raw EXCEPT ![o] = "live"]
        /\ UNCHANGED <<leaked, withSrq, region, obj, dropped>>
    BY <1>2 DEF Make, mrVars
  <2> QED BY <2>1, KeptFixed DEF LostForGood, UsedByLost, Exists, MrInv, TypeOK,
             ResourcesTypeOK
<1>3. CASE OpenDeviceFails /\ UNCHANGED mrVars
  BY <1>3, KeptFixed DEF OpenDeviceFails, mrVars, LostForGood, UsedByLost, Exists
<1>4. CASE CreateQpFails /\ UNCHANGED mrVars
  <2>1. UNCHANGED <<raw, withSrq, region, obj, dropped>> /\ Uses("qp") \subseteq held
    BY <1>4 DEF CreateQpFails, mrVars
  <2>2. ASSUME NEW o \in Kinds, o \in Needs(Uses("qp")) PROVE raw[o] = "live"
    <3>1. Needs(Uses("qp")) \subseteq Kept(Owners(held, obj))
      BY <2>1, NeedsIsKept DEF Kept, Owners, Needs
    <3> QED BY <2>2, <3>1, OwnersAlive DEF MrInv, Ownership
  <2>3. dropped # {} => \A o \in {"pd", "device"} : raw[o] \in {"live", "busy"}
    BY DEF LostForGood, UsedByLost, Kinds
  <2> QED BY <2>1, <2>2, <2>3, KeptFixed DEF LostForGood, UsedByLost, Exists
<1>5. CASE MakeStep /\ UNCHANGED mrVars
  BY <1>2, <1>3, <1>4, <1>5 DEF MakeStep, OpenDevice, CreatePd, CreateCq, CreateSrq,
     StartPoller, CreateQp, Create, Kinds
<1>6. ASSUME NEW o \in Kinds, Drop(o) PROVE LostForGood'
  <2>1. /\ Settle(held \ {o}, obj, region)
        /\ UNCHANGED <<leaked, withSrq, region, obj, dropped>>
    BY <1>6 DEF Drop, mrVars
  <2>2. \A k \in Kinds : UsedByLost(k)' => raw'[k] \in {"live", "busy"}
    BY <2>1, SettleLost DEF LostForGood, MrInv, TypeOK
  <2> QED BY <2>1, <2>2 DEF LostForGood, Exists
<1>7. ASSUME NEW h \in Handles, NEW r \in Regions, NEW n \in Lengths, Register(h, r, n)
      PROVE  LostForGood'
  <2>1. /\ region[r] = "free" /\ region' = [region EXCEPT ![r] = "registered"]
        /\ obj' = [obj EXCEPT ![h] = [mr |-> r, pd |-> TRUE]]
        /\ UNCHANGED <<raw, leaked, withSrq, dropped>>
    BY <1>7 DEF Register, resourceVars
  <2>2. r \notin dropped BY <2>1 DEF LostForGood
  <2>3. \A q \in dropped :
          /\ region'[q] = "registered"
          /\ \A x \in Handles : obj'[x] # None => obj'[x].mr # q
    BY <2>1, <2>2 DEF LostForGood, Exists, MrInv, TypeOK
  <2> QED BY <2>1, <2>3, KeptFixed DEF LostForGood, UsedByLost, Exists
<1>8. ASSUME NEW h \in Handles, NEW g \in Handles, MoveConstruct(h, g)
      PROVE  LostForGood'
  <2>1. /\ Exists(g) /\ h # g /\ obj' = [obj EXCEPT ![h] = obj[g], ![g] = Moved]
        /\ UNCHANGED <<raw, leaked, withSrq, region, dropped>>
    BY <1>8 DEF MoveConstruct, resourceVars, Exists
  <2>2. None \notin dropped BY SizesAssumption DEF MrInv, TypeOK
  <2>3. \A q \in dropped, x \in Handles : obj'[x] # None => obj'[x].mr # q
    BY <2>1, <2>2, MovedFacts DEF LostForGood, Exists, MrInv, TypeOK
  <2> QED BY <2>1, <2>3, KeptFixed DEF LostForGood, UsedByLost, Exists
<1>9. ASSUME NEW h \in Handles, Destruct(h) PROVE LostForGood'
  <2> DEFINE r == obj[h].mr
             after == [obj EXCEPT ![h] = None]
             regions == IF r = None THEN region ELSE [region EXCEPT ![r] = "gone"]
  <2>1. /\ Exists(h) /\ obj' = after /\ region' = regions
        /\ Settle(held, after, regions) /\ UNCHANGED <<leaked, withSrq, dropped>>
    BY <1>9 DEF Destruct
  <2>2. dropped \subseteq Regions /\ r \notin dropped
    BY <2>1 DEF LostForGood, MrInv, TypeOK, Exists
  <2>3. \A q \in dropped : regions[q] = "registered"
    BY <2>2 DEF LostForGood, MrInv, TypeOK
  <2>4. \A q \in dropped, x \in Handles : after[x] # None => after[x].mr # q
    BY DEF LostForGood, Exists, MrInv, TypeOK
  <2> HIDE DEF r, after, regions
  <2>5. \A k \in Kinds : UsedByLost(k)' => raw'[k] \in {"live", "busy"}
    BY <2>1, <2>2, <2>3, SettleLost
  <2> QED BY <2>1, <2>3, <2>4, <2>5 DEF LostForGood, Exists
<1>10. CASE UNCHANGED vars
  BY <1>1, <1>10 DEF vars, resourceVars, mrVars
<1> QED BY <1>5, <1>6, <1>7, <1>8, <1>9, <1>10, MoveAssignLost DEF Next

(* When the user has let go of everything, the regions and resources that  *)
(* are left are exactly those that a move assignment or a failed           *)
(* transition lost and what these use.                                     *)
THEOREM NothingLeftAlways == Spec => []NothingLeft
<1>1. Init => MrInv /\ LostForGood
  BY InitInv DEF Init, ResourcesInit, LostForGood, UsedByLost
<1>2. MrInv /\ LostForGood /\ [Next]_vars => MrInv' /\ LostForGood'
  BY NextInv, NextLost
<1>3. ASSUME MrInv, LostForGood PROVE NothingLeft
  <2> SUFFICES ASSUME held = {}, \A h \in Handles : ~Exists(h)
               PROVE  /\ {r \in Regions : region[r] = "registered"} = dropped
                      /\ \A o \in Kinds :
                           raw[o] = IF made[o] = "none" THEN "none"
                                    ELSE IF UsedByLost(o) THEN "busy" ELSE "gone"
    BY DEF NothingLeft
  <2>1. Owners(held, obj) = {} BY DEF Owners, Exists
  <2>2. Kept({}) = {} BY DEF Kept
  <2>3. \A o \in Kinds : made[o] # "alive" BY <1>3, <2>1, <2>2, OwnersAlive
  <2>4. {r \in Regions : region[r] = "registered"} = dropped
    BY <1>3 DEF MrInv, TypeOK, Ownership, LostForGood
  <2>5. ASSUME NEW o \in Kinds
        PROVE  raw[o] = IF made[o] = "none" THEN "none"
                        ELSE IF UsedByLost(o) THEN "busy" ELSE "gone"
    BY <1>3, <2>3 DEF MrInv, TypeOK, ResourcesTypeOK, Ownership, ReleasedInOrder, LostForGood
  <2> QED BY <2>4, <2>5
<1> QED BY <1>1, <1>2, <1>3, PTL DEF Spec

-----------------------------------------------------------------------------
(* Views.                                                                  *)

(* Min of two numbers is one of them, and at most the second.              *)
LEMMA MinOfTwo ==
  ASSUME NEW a \in Nat, NEW b \in Nat
  PROVE  Min({a, b}) \in {a, b} /\ Min({a, b}) <= b
<1>1. \E x \in {a, b} : \A y \in {a, b} : x =< y OBVIOUS
<1>2. Min({a, b}) \in {a, b} /\ \A y \in {a, b} : Min({a, b}) =< y
  BY <1>1 DEF Min
<1> QED BY <1>2

(* size_t subtraction of an offset that is not past the end is exact.      *)
LEMMA MinusExact ==
  ASSUME NEW a \in Sizes, NEW b \in 0..a
  PROVE  Minus(a, b) = a - b
<1>1. a \in Nat /\ b \in Nat /\ a - b \in 0..SizeMod-1 /\ SizeMod \in Nat \ {0}
  BY SizesAssumption DEF Sizes
<1>2. ASSUME NEW x \in Nat, NEW M \in Nat \ {0}, x < M PROVE (x + M) % M = x
  BY <1>2
<1>3. a + SizeMod - b = (a - b) + SizeMod BY <1>1
<1> QED BY <1>1, <1>2, <1>3 DEF Minus

(* A view, local or remote, lies inside its region: the size_t arithmetic  *)
(* of mr_view and the 32-bit length of remote_mr never lead past its end.  *)
THEOREM ViewsInsideAlways == Spec => []ViewsInside
<1>1. TypeOK => ViewsInside
  <2> SUFFICES ASSUME TypeOK, NEW r \in Regions,
                      NEW told \in {len[r], RemoteLength(Describe(r))},
                      NEW length \in Sizes, NEW offset \in 0..told
               PROVE  offset + Cut(told, offset, length) <= len[r]
    BY DEF ViewsInside
  <2>1. len[r] \in Sizes /\ len[r] \in Nat
    BY SizesAssumption DEF TypeOK, Sizes
  <2>2. ASSUME NEW x \in Nat, NEW M \in Nat \ {0} PROVE x % M \in Nat /\ x % M <= x
    BY <2>2
  <2>3. RemoteLength(Describe(r)) = len[r] % WordMod
    BY DEF RemoteLength, Describe
  <2>4. told \in Sizes /\ told \in Nat /\ told <= len[r]
    BY <2>1, <2>2, <2>3, SizesAssumption DEF Sizes
  <2>5. Minus(told, offset) = told - offset BY <2>4, MinusExact
  <2>6. told - offset \in Nat /\ length \in Nat BY <2>4 DEF Sizes
  <2>7. /\ Cut(told, offset, length) \in {length, told - offset}
        /\ Cut(told, offset, length) <= told - offset
    BY <2>5, <2>6, MinOfTwo DEF Cut
  <2> QED BY <2>1, <2>4, <2>6, <2>7
<1> QED BY <1>1, TypeOKAlways, PTL
=============================================================================
