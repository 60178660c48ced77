----------------------------- MODULE Resources -----------------------------
(***************************************************************************)
(* The objects that own verbs resources and keep each other alive through  *)
(* shared_ptr members: device, pd, cq, srq, basic_qp, and cq_poller, whose *)
(* thread polls a cq.  The user makes them, holds them and lets go of them *)
(* in any order; a destructor runs when the last owner goes.               *)
(***************************************************************************)
EXTENDS Naturals

Kinds == {"device", "pd", "cq", "srq", "qp", "poller"}

VARIABLES
  made,     \* the C++ object: "none", "alive", "dead"
  raw,      \* what it owns: "none", "live", "gone", or "busy" when it could
            \* not be released because something still used it
  held,     \* the objects the user has a shared_ptr to
  leaked,   \* the kinds of which a failed constructor left a resource behind
  withSrq   \* is the QP given a shared receive queue?

resourceVars == <<made, raw, held, leaked, withSrq>>

ResourcesTypeOK ==
  /\ made \in [Kinds -> {"none", "alive", "dead"}]
  /\ raw \in [Kinds -> {"none", "live", "gone", "busy"}]
  /\ held \subseteq Kinds
  /\ leaked \subseteq {"device", "qp"}
  /\ withSrq \in BOOLEAN

ResourcesInit ==
  /\ made = [o \in Kinds |-> "none"]
  /\ raw = [o \in Kinds |-> "none"]
  /\ held = {}
  /\ leaked = {}
  /\ withSrq \in BOOLEAN

(* What the kernel, or a running thread, needs for o to exist.             *)
Uses(o) ==
  CASE o = "device" -> {}
    [] o \in {"pd", "cq"} -> {"device"}
    [] o = "srq" -> {"pd"}
    [] o = "poller" -> {"cq"}
    [] o = "qp" -> {"pd", "cq"} \cup (IF withSrq THEN {"srq"} ELSE {})

(* Mutant: the QP knows its CQs by their address only.                     *)
MembersWithoutCq(o) == IF o = "qp" THEN Uses(o) \ {"cq"} ELSE Uses(o)

(* The shared_ptr members of o: device_, pd_, cq_, recv_cq_ and send_cq_,  *)
(* srq_.                                                                   *)
Members(o) ==
  CASE o = "device" -> {}
    [] o \in {"pd", "cq"} -> {"device"}
    [] o = "srq" -> {"pd"}
    [] o = "poller" -> {"cq"}
    [] o = "qp" -> {"pd", "cq"} \cup (IF withSrq THEN {"srq"} ELSE {})

(* Everything S needs, itself or through what it needs: qp, srq, pd,       *)
(* device is the longest chain.                                            *)
Needs(S) ==
  LET more(T) == T \cup UNION {Uses(o) : o \in T} IN more(more(more(S)))

(* The objects that owners in S keep alive.                                *)
Kept(S) ==
  LET more(T) == T \cup UNION {Members(o) : o \in T} IN more(more(more(S)))

-----------------------------------------------------------------------------
(* The owners left are those in S; regions tells whether memory is still   *)
(* registered.  Every other object is destructed, users before what they   *)
(* use.  A release that fails because something still uses the resource is *)
(* only logged.                                                            *)
Release(S, regions) ==
  LET dying == {o \in Kinds : made[o] = "alive"} \ Kept(S)
      users == {o \in Kinds \ dying : raw[o] \in {"live", "busy"}}
               \cup (leaked \cap {"qp"})
      inUse == (UNION {Needs(Uses(o)) : o \in users})
               \cup (IF regions THEN Needs({"pd"}) ELSE {})
  IN
  /\ made' = [o \in Kinds |-> IF o \in dying THEN "dead" ELSE made[o]]
  /\ raw' = [o \in Kinds |->
       IF o \notin dying THEN raw[o] ELSE IF o \in inUse THEN "busy" ELSE "gone"]

(* A constructor succeeds.  One that fails before it owns anything throws  *)
(* and leaves nothing.                                                     *)
Make(o) ==
  /\ made[o] = "none"
  /\ made' = [made EXCEPT ![o] = "alive"]
  /\ raw' = [raw EXCEPT ![o] = "live"]
  /\ held' = held \cup {o}
  /\ UNCHANGED <<leaked, withSrq>>

(* device::device, by number, by name or for a given ibv_device.           *)
OpenDevice == Make("device")

(* open_device fails after ibv_open_device: the exception leaves the       *)
(* constructor, so ~device does not run and the context stays open.        *)
OpenDeviceFails ==
  /\ made["device"] = "none"
  /\ leaked' = leaked \cup {"device"}
  /\ UNCHANGED <<made, raw, held, withSrq>>

(* The constructor of o is given what it needs.                            *)
Create(o) == Uses(o) \subseteq held /\ Make(o)

CreatePd == Create("pd")
CreateCq == Create("cq")
CreateSrq == Create("srq")
StartPoller == Create("poller")
CreateQp == Create("qp")

(* A transition fails: qp_ is null when destroy() looks, the ibv_qp stays. *)
CreateQpFails ==
  /\ Uses("qp") \subseteq held
  /\ made["qp"] = "none"
  /\ leaked' = leaked \cup {"qp"}
  /\ UNCHANGED <<made, raw, held, withSrq>>

MakeStep ==
  \/ OpenDevice \/ OpenDeviceFails
  \/ CreatePd \/ CreateCq \/ CreateSrq \/ StartPoller
  \/ CreateQp \/ CreateQpFails
=============================================================================
