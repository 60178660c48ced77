--------------------------- MODULE MemoryRegions ---------------------------
(***************************************************************************)
(* Memory regions (src/mr.cc, src/pd.cc): local_mr objects own registered  *)
(* regions and share the protection domain, which the other objects of     *)
(* Resources share too; they are moved about like any C++ object.  A view  *)
(* is a part of a region, cut with size_t arithmetic.  A region is         *)
(* described to the peer, which cuts views of its own from the remote_mr   *)
(* it reads.                                                               *)
(***************************************************************************)
EXTENDS Resources, FiniteSets, FiniteSetsExt

CONSTANTS
  Handles,   \* the places where a local_mr object may live
  Regions,   \* the ibv_mr that may be registered
  SizeMod,   \* 2^64: size_t
  WordMod,   \* 2^32: uint32_t, the type remote_mr::length() returns
  Lengths,   \* the lengths a region may have
  None       \* a null pointer, no object

ASSUME SizesAssumption ==
  /\ IsFiniteSet(Handles) /\ IsFiniteSet(Regions)
  /\ WordMod \in Nat \ {0} /\ SizeMod \in Nat /\ WordMod < SizeMod
  /\ Lengths \subseteq 0..SizeMod-1
  /\ None \notin Handles \cup Regions \cup [mr : Regions \cup {None}, pd : BOOLEAN]

VARIABLES
  region,    \* of each ibv_mr: "free", "registered", "gone"
  len,       \* its length
  obj,       \* of each place: the local_mr there, or None
  dropped    \* the regions whose owner was overwritten

mrVars == <<region, len, obj, dropped>>
vars == <<resourceVars, mrVars>>

Sizes == 0..SizeMod-1
Objects == [mr : Regions \cup {None}, pd : BOOLEAN]

(* The variables range over the states of the code they model.             *)
TypeOK ==
  /\ ResourcesTypeOK
  /\ region \in [Regions -> {"free", "registered", "gone"}]
  /\ len \in [Regions -> Lengths \cup {0}]
  /\ obj \in [Handles -> Objects \cup {None}]
  /\ dropped \subseteq Regions

Init ==
  /\ ResourcesInit
  /\ region = [r \in Regions |-> "free"]
  /\ len = [r \in Regions |-> 0]
  /\ obj = [h \in Handles |-> None]
  /\ dropped = {}

Exists(h) == obj[h] # None
Moved == [mr |-> None, pd |-> FALSE]

-----------------------------------------------------------------------------
(* Ownership.                                                              *)

(* Who is left when the user holds S and the local_mr objects are objects. *)
Owners(S, objects) ==
  S \cup (IF \E h \in Handles : objects[h] # None /\ objects[h].pd THEN {"pd"} ELSE {})

(* Every object without an owner goes.                                     *)
Settle(S, objects, regions) ==
  Release(Owners(S, objects), \E r \in Regions : regions[r] = "registered")

(* pd::reg_mr, by a user of the pd or of a QP.  A failed registration      *)
(* throws and leaves nothing.                                              *)
Register(h, r, n) ==
  /\ held \cap {"pd", "qp"} # {}
  /\ ~Exists(h)
  /\ region[r] = "free"
  /\ region' = [region EXCEPT ![r] = "registered"]
  /\ len' = [len EXCEPT ![r] = n]
  /\ obj' = [obj EXCEPT ![h] = [mr |-> r, pd |-> TRUE]]
  /\ UNCHANGED <<resourceVars, dropped>>

(* Mutant: the moved-from object keeps mr_.                                *)
MoveConstructKeeps(h, g) ==
  /\ ~Exists(h) /\ Exists(g)
  /\ obj' = [obj EXCEPT ![h] = obj[g], ![g] = [obj[g] EXCEPT !.pd = FALSE]]
  /\ UNCHANGED <<resourceVars, region, len, dropped>>

(* The move constructor.                                                   *)
MoveConstruct(h, g) ==
  /\ ~Exists(h) /\ Exists(g)
  /\ obj' = [obj EXCEPT ![h] = obj[g], ![g] = Moved]
  /\ UNCHANGED <<resourceVars, region, len, dropped>>

(* Mutant: move assignment takes mr_ and leaves pd_ where it is.           *)
MoveAssignForgetsPd(h, g) ==
  LET after == IF h = g THEN [obj EXCEPT ![h].mr = None]
               ELSE [obj EXCEPT ![h].mr = obj[g].mr, ![g].mr = None]
  IN
  /\ Exists(h) /\ Exists(g)
  /\ obj' = after
  /\ dropped' = dropped \cup ({obj[h].mr} \ {None})
  /\ Settle(held, after, region)
  /\ UNCHANGED <<held, leaked, withSrq, region, len>>

(* Move assignment overwrites mr_ and pd_; what they held is not released  *)
(* but the reference to the pd is.  Assigning an object to itself keeps    *)
(* the pd and clears mr_.                                                  *)
MoveAssign(h, g) ==
  LET after == IF h = g THEN [obj EXCEPT ![h].mr = None]
               ELSE [obj EXCEPT ![h] = obj[g], ![g] = Moved]
  IN
  /\ Exists(h) /\ Exists(g)
  /\ obj' = after
  /\ dropped' = dropped \cup ({obj[h].mr} \ {None})
  /\ Settle(held, after, region)
  /\ UNCHANGED <<held, leaked, withSrq, region, len>>

(* Mutant: the destructor forgets the region of a pd the user has let go.  *)
DestructSkips(h) ==
  LET r == obj[h].mr
      after == [obj EXCEPT ![h] = None]
      regions == IF r = None \/ "pd" \notin held THEN region
                 ELSE [region EXCEPT ![r] = "gone"]
  IN
  /\ Exists(h)
  /\ obj' = after
  /\ region' = regions
  /\ Settle(held, after, regions)
  /\ UNCHANGED <<held, leaked, withSrq, len, dropped>>

(* ~local_mr: ibv_dereg_mr unless mr_ was moved away, then the pd goes.    *)
Destruct(h) ==
  LET r == obj[h].mr
      after == [obj EXCEPT ![h] = None]
      regions == IF r = None THEN region ELSE [region EXCEPT ![r] = "gone"]
  IN
  /\ Exists(h)
  /\ obj' = after
  /\ region' = regions
  /\ Settle(held, after, regions)
  /\ UNCHANGED <<held, leaked, withSrq, len, dropped>>

(* The user lets go of o.                                                  *)
Drop(o) ==
  /\ o \in held
  /\ held' = held \ {o}
  /\ Settle(held \ {o}, obj, region)
  /\ UNCHANGED <<leaked, withSrq, mrVars>>

Next ==
  \/ MakeStep /\ UNCHANGED mrVars
  \/ \E o \in Kinds : Drop(o)
  \/ \E h \in Handles :
       \/ \E r \in Regions, n \in Lengths : Register(h, r, n)
       \/ \E g \in Handles : MoveConstruct(h, g) \/ MoveAssign(h, g)
       \/ Destruct(h)

Spec == Init /\ [][Next]_vars

-----------------------------------------------------------------------------
(* Views.                                                                  *)

(* a - b in size_t                                                         *)
Minus(a, b) == (a + SizeMod - b) % SizeMod

(* Mutant: the offset is forgotten when the length is cut.                 *)
CutWithoutOffset(total, offset, length) == Min({length, total})

(* mr_view(mr, offset, length): std::min(length, total - offset), total    *)
(* being what the local_mr or the remote_mr says its length is.            *)
Cut(total, offset, length) == Min({length, Minus(total, offset)})

(* local_mr::serialize and remote_mr::deserialize, field by field.         *)
Describe(r) == [addr |-> r, length |-> len[r], rkey |-> r]

(* remote_mr::length() cuts the size_t it returns to 32 bits.              *)
RemoteLength(w) == w.length % WordMod

-----------------------------------------------------------------------------
(* Properties.                                                             *)

(* However objects are moved, an object that is not moved-from owns a      *)
(* registered region, and owns it alone: no region is deregistered twice   *)
(* or under an object that still uses it.                                  *)
OwnedOnce ==
  \A h \in Handles : Exists(h) /\ obj[h].mr # None =>
    /\ region[obj[h].mr] = "registered"
    /\ \A g \in Handles \ {h} : Exists(g) => obj[g].mr # obj[h].mr

(* A resource that no destructor will release uses o: the ibv_qp that a    *)
(* failed transition left, or a region that a move assignment dropped.     *)
UsedByLost(o) ==
  \/ "qp" \in leaked /\ o \in Needs(Uses("qp"))
  \/ dropped # {} /\ o \in {"pd", "device"}

(* In whatever order the user lets go, a resource is released after all    *)
(* that use it: ibv_dealloc_pd, ibv_destroy_cq, ibv_destroy_srq and        *)
(* ibv_close_device find it unused, unless what uses it was lost.          *)
ReleasedInOrder == \A o \in Kinds : raw[o] = "busy" => UsedByLost(o)

(* However objects are made, moved and destroyed: alive is what the owners *)
(* keep, no more and no less; an object owns its resource as long as it is *)
(* alive; a local_mr that has its region keeps the pd alive with it, and a *)
(* region that is registered has its local_mr, unless a move assignment    *)
(* dropped it.                                                             *)
Ownership ==
  /\ {o \in Kinds : made[o] = "alive"} = Kept(Owners(held, obj))
  /\ \A o \in Kinds :
       (made[o] = "none" <=> raw[o] = "none") /\ (made[o] = "alive" <=> raw[o] = "live")
  /\ \A h \in Handles : Exists(h) /\ obj[h].mr # None => obj[h].pd
  /\ \A r \in Regions \ dropped : region[r] = "registered" =>
       \E h \in Handles : Exists(h) /\ obj[h].mr = r

(* The inductive invariant.                                                *)
MrInv == TypeOK /\ OwnedOnce /\ Ownership /\ ReleasedInOrder

(* What was lost stays in use for good: no object owns a dropped region,   *)
(* so it stays registered, and nothing that a lost resource uses can be    *)
(* released.                                                               *)
LostForGood ==
  /\ \A r \in dropped :
       region[r] = "registered" /\ \A h \in Handles : Exists(h) => obj[h].mr # r
  /\ \A o \in Kinds : UsedByLost(o) => raw[o] \in {"live", "busy"}

(* When the user has let go of everything, what the code has lost is left, *)
(* and nothing else: a region stays registered exactly if a move           *)
(* assignment dropped it, and a resource could not be released exactly if  *)
(* a lost one uses it.  (The ibv_qp of a failed transition and the context *)
(* of a failed open_device have no owner to release them at all: they are  *)
(* leaked, and no object of Kinds.)                                        *)
NothingLeft ==
  held = {} /\ (\A h \in Handles : ~Exists(h)) =>
    /\ {r \in Regions : region[r] = "registered"} = dropped
    /\ \A o \in Kinds :
         raw[o] = IF made[o] = "none" THEN "none"
                  ELSE IF UsedByLost(o) THEN "busy" ELSE "gone"

(* A view, local or the peer's, lies inside the region it was cut from,    *)
(* whatever length was asked for, when its offset is not past the end that *)
(* its maker was told of.                                                  *)
ViewsInside ==
  \A r \in Regions : region[r] = "registered" =>
    \A told \in {len[r], RemoteLength(Describe(r))}, length \in Sizes :
      \A offset \in 0..told : offset + Cut(told, offset, length) <= len[r]
=============================================================================
