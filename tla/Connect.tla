------------------------------ MODULE Connect ------------------------------
(***************************************************************************)
(* How a connected pair of QPs comes to be: the life cycle of basic_qp     *)
(* (create, init, rtr, rts, destroy; src/qp.cc) driven by the TCP          *)
(* handshake of qp_connector::connect and qp_acceptor::accept (examples/). *)
(*                                                                         *)
(* Any number of clients connect; the server calls accept() in a loop and  *)
(* so serves them one at a time.  Every verbs call and every socket        *)
(* operation may fail, and a side that gives up closes its socket; clients *)
(* may also fall silent.  Some servers test what accept() returns.         *)
(***************************************************************************)
EXTENDS Naturals, Sequences, FiniteSets

CONSTANTS
  Clients,   \* the connection attempts, one connect() each
  PsnMod,    \* 2^32: the values of the atomic next_sq_psn
  MayFail,   \* may verbs calls and socket operations fail?
  MayStall,  \* the clients that may fall silent
  None       \* no client, no address

ASSUME ConnectAssumption ==
  /\ IsFiniteSet(Clients)
  /\ PsnMod \in Nat \ {0, 1}
  /\ MayFail \in BOOLEAN
  /\ MayStall \subseteq Clients
  /\ None \notin Clients

Sides == {"connector", "acceptor"}
Qps == Sides \X Clients
Cn(k) == <<"connector", k>>
Ac(k) == <<"acceptor", k>>
Other(x) == IF x[1] = "connector" THEN Ac(x[2]) ELSE Cn(x[2])

VARIABLES
  ibv,      \* the ibv_qp of each basic_qp, as the kernel knows it
  handle,   \* is basic_qp::qp_ set?
  obj,      \* the basic_qp object: "none", "alive", "dead" (destructed)
  psn,      \* its sq_psn_
  peer,     \* what rtr was given: the address of the remote QP
  nextPsn,  \* next_sq_psn of each side's process
  pollers,  \* pollers_ of each connector, and of the acceptor for each client
  wire,     \* the bytes on their way to each side of each TCP connection
  closed,   \* has that side closed the connection?
  cpc,      \* where each connect() is
  apc, cur, \* where accept() is, and the client it serves
  checks,   \* does the server test the result of accept()?
  nullQp,   \* has a handler been given nullptr?
  silent,   \* the clients that may stop where they are
  faults    \* the clients whose own connection has met with a failure

qpVars == <<ibv, handle, obj, psn, peer, nextPsn, pollers>>
netVars == <<wire, closed>>
server == <<apc, cur, nullQp>>
choices == <<checks, silent>>
vars == <<qpVars, netVars, cpc, server, choices, faults>>

ConnectorStates == {"start", "queued", "send", "recv", "done", "failed"}

(* A serialized QP: lid, qp_num, sq_psn, size of the user data, gid.  The  *)
(* lid and the gid identify the device of a side, the number the QP.       *)
Serialize(x) == <<x[1], x, psn[x], 0, x[1]>>

(* Mutant: the reader has sq_psn and user_data_size the other way round.   *)
DeserializeSwapped(m) ==
  [lid |-> m[1], qp_num |-> m[2], sq_psn |-> m[4], size |-> m[3], gid |-> m[5]]

(* deserialized_qp::deserialize reads the fields in the same order.        *)
Deserialize(m) ==
  [lid |-> m[1], qp_num |-> m[2], sq_psn |-> m[3], size |-> m[4], gid |-> m[5]]

(* What may be on the wire, and what is read from it.                      *)
Packets == Sides \X Qps \X (0..PsnMod-1) \X {0} \X Sides
Headers == [lid : Sides, qp_num : Qps, sq_psn : 0..PsnMod-1, size : {0}, gid : Sides]

ASSUME NoneAssumption == None \notin Packets \cup Headers

(* The variables range over the states of the code they model.             *)
TypeOK ==
  /\ ibv \in [Qps -> {"none", "RESET", "INIT", "RTR", "RTS", "ERR", "gone"}]
  /\ handle \in [Qps -> BOOLEAN]
  /\ obj \in [Qps -> {"none", "alive", "dead"}]
  /\ psn \in [Qps -> 0..PsnMod-1]
  /\ peer \in [Qps -> Headers \cup {None}]
  /\ nextPsn \in [Sides -> 0..PsnMod-1]
  /\ pollers \in [Qps -> 0..2]
  /\ \A x \in Qps : wire[x] # None => Deserialize(wire[x]) \in Headers
  /\ closed \in [Qps -> BOOLEAN]
  /\ cpc \in [Clients -> ConnectorStates]
  /\ apc \in {"accept", "recv", "send", "return", "down"}
  /\ cur \in Clients \cup {None}
  /\ checks \in BOOLEAN /\ nullQp \in BOOLEAN
  /\ silent \subseteq MayStall /\ faults \subseteq Clients

Init ==
  /\ ibv = [x \in Qps |-> "none"]
  /\ handle = [x \in Qps |-> FALSE]
  /\ obj = [x \in Qps |-> "none"]
  /\ psn = [x \in Qps |-> 0]
  /\ peer = [x \in Qps |-> None]
  /\ nextPsn = [s \in Sides |-> 1]
  /\ pollers = [x \in Qps |-> 0]
  /\ wire = [x \in Qps |-> None]
  /\ closed = [x \in Qps |-> FALSE]
  /\ cpc = [k \in Clients |-> "start"]
  /\ apc = "accept" /\ cur = None
  /\ checks \in BOOLEAN /\ nullQp = FALSE
  /\ silent \in SUBSET MayStall /\ faults = {}

-----------------------------------------------------------------------------
(* basic_qp.                                                               *)

(* Something of the connection of client k fails by itself.                *)
Fault(k) == MayFail /\ faults' = faults \cup {k}

(* next_sq_psn.fetch_add(1), by a QP that has been created.                *)
TakePsn(x) ==
  /\ psn' = [psn EXCEPT ![x] = nextPsn[x[1]]]
  /\ nextPsn' = [nextPsn EXCEPT ![x[1]] = (@ + 1) % PsnMod]

(* create fails: ibv_create_qp returns null, nothing exists.               *)
CreateFails(x) ==
  /\ Fault(x[2])
  /\ UNCHANGED <<ibv, handle, obj, psn, peer, nextPsn>>

(* destroy() of a QP in state s, h telling whether qp_ is set: err(), then *)
(* ibv_destroy_qp; if that fails the code logs it and carries on.          *)
AfterDestroy(h, s) ==
  IF ~h THEN {s} ELSE {"gone"} \cup (IF MayFail THEN {"ERR"} ELSE {})

(* init, rtr or rts fails with the QP in state s: qp_ is set to null, then *)
(* destroy() is called, and again by the destructor if the constructor     *)
(* that init ends (the one the acceptor's delegates to) had completed.     *)
TransitionFails(x, s) ==
  /\ Fault(x[2])
  /\ handle' = [handle EXCEPT ![x] = FALSE]
  /\ \E t \in AfterDestroy(FALSE, s) : ibv' = [ibv EXCEPT ![x] = t]
  /\ obj' = [obj EXCEPT ![x] = IF s = "RESET" THEN "none" ELSE "dead"]

(* The constructor that leaves the QP in INIT.                             *)
Construct(x) ==
  /\ ibv' = [ibv EXCEPT ![x] = "INIT"]
  /\ handle' = [handle EXCEPT ![x] = TRUE]
  /\ obj' = [obj EXCEPT ![x] = "alive"]

(* Mutant: rtr is given the local sq_psn as the remote one.                *)
ToRtsOwnPsn(x, r) ==
  /\ ibv' = [ibv EXCEPT ![x] = "RTS"]
  /\ handle' = [handle EXCEPT ![x] = TRUE]
  /\ obj' = [obj EXCEPT ![x] = "alive"]
  /\ peer' = [peer EXCEPT ![x] = [r EXCEPT !.sq_psn = psn[x]]]

(* rtr(r) and rts() both succeed.                                          *)
ToRts(x, r) ==
  /\ ibv' = [ibv EXCEPT ![x] = "RTS"]
  /\ handle' = [handle EXCEPT ![x] = TRUE]
  /\ obj' = [obj EXCEPT ![x] = "alive"]
  /\ peer' = [peer EXCEPT ![x] = r]

(* ~basic_qp.                                                              *)
DestroyQp(x) ==
  /\ obj' = [obj EXCEPT ![x] = "dead"]
  /\ \E t \in AfterDestroy(handle[x], ibv[x]) : ibv' = [ibv EXCEPT ![x] = t]

-----------------------------------------------------------------------------
(* The TCP connection.                                                     *)

(* async_write: the bytes reach the other side, or are lost if it has      *)
(* closed already.                                                         *)
Write(x) ==
  wire' = IF closed[Other(x)] THEN wire ELSE [wire EXCEPT ![Other(x)] = Serialize(x)]

(* Reading or writing on side x fails: the other side has closed without   *)
(* leaving anything to read, or the network fails.                         *)
SocketFails(x) ==
  \/ Fault(x[2])
  \/ closed[Other(x)] /\ wire[x] = None /\ UNCHANGED faults

(* A read on side x ends by itself, without a failure of the network.      *)
Readable(x) == wire[x] # None \/ closed[Other(x)]

Close(x) == closed' = [closed EXCEPT ![x] = TRUE]

-----------------------------------------------------------------------------
(* qp_connector::connect.                                                  *)

(* connect() gives up: its QP, if any, is destroyed and the socket closed. *)
Abandon(k) ==
  /\ cpc' = [cpc EXCEPT ![k] = "failed"]
  /\ Close(Cn(k))

(* async_connect.                                                          *)
Dial(k) ==
  /\ cpc[k] = "start"
  /\ \/ cpc' = [cpc EXCEPT ![k] = "queued"] /\ UNCHANGED <<closed, faults>>
     \/ Fault(k) /\ Abandon(k)
     \/ apc = "down" /\ Abandon(k) /\ UNCHANGED faults
  /\ UNCHANGED <<qpVars, wire, server, choices>>

(* from_socket: one CQ with its poller, then the QP, left in INIT.         *)
MakeQp(k) ==
  LET x == Cn(k) IN
  /\ cpc[k] = "queued"
  /\ \/ Fault(k) /\ Abandon(k) /\ UNCHANGED qpVars
     \/ /\ pollers' = [pollers EXCEPT ![x] = 1]
        /\ \/ CreateFails(x) /\ Abandon(k)
           \/ /\ TakePsn(x)
              /\ \/ TransitionFails(x, "RESET") /\ Abandon(k)
                 \/ /\ Construct(x)
                    /\ cpc' = [cpc EXCEPT ![k] = "send"]
                    /\ UNCHANGED <<closed, faults>>
              /\ UNCHANGED peer
  /\ UNCHANGED <<wire, server, choices>>

(* send_qp.                                                                *)
SendQp(k) ==
  LET x == Cn(k) IN
  /\ cpc[k] = "send"
  /\ \/ /\ Write(x)
        /\ cpc' = [cpc EXCEPT ![k] = "recv"]
        /\ UNCHANGED <<ibv, obj, closed, faults>>
     \/ SocketFails(x) /\ DestroyQp(x) /\ Abandon(k) /\ UNCHANGED wire
  /\ UNCHANGED <<handle, psn, peer, nextPsn, pollers, server, choices>>

(* Mutant: connect does not wait for the acceptor's QP.                    *)
RecvQpEagerly(k) ==
  LET x == Cn(k) IN
  /\ cpc[k] = "recv"
  /\ ToRts(x, Deserialize(Serialize(Ac(k))))
  /\ cpc' = [cpc EXCEPT ![k] = "done"]
  /\ Close(x)
  /\ UNCHANGED faults
  /\ UNCHANGED <<psn, nextPsn, pollers, wire, server, choices>>

(* Mutant: the reader tries again at the end of the stream.                *)
RecvQpIgnoresEof(k) ==
  LET x == Cn(k) IN
  /\ cpc[k] = "recv"
  /\ \/ /\ wire[x] # None
        /\ ToRts(x, Deserialize(wire[x]))
        /\ cpc' = [cpc EXCEPT ![k] = "done"]
        /\ Close(x)
     \/ /\ wire[x] = None /\ closed[Other(x)]
        /\ UNCHANGED <<ibv, handle, obj, peer, cpc, closed>>
  /\ UNCHANGED faults
  /\ UNCHANGED <<psn, nextPsn, pollers, wire, server, choices>>

(* recv_qp, rtr, rts; connect returns the QP and its socket goes.          *)
RecvQp(k) ==
  LET x == Cn(k) IN
  /\ cpc[k] = "recv"
  /\ \/ /\ wire[x] # None
        /\ \/ /\ ToRts(x, Deserialize(wire[x]))
              /\ cpc' = [cpc EXCEPT ![k] = "done"]
              /\ Close(x)
              /\ UNCHANGED faults
           \/ \E s \in {"INIT", "RTR"} :
                TransitionFails(x, s) /\ Abandon(k) /\ UNCHANGED peer
     \/ SocketFails(x) /\ DestroyQp(x) /\ Abandon(k) /\ UNCHANGED <<handle, peer>>
  /\ UNCHANGED <<psn, nextPsn, pollers, wire, server, choices>>

-----------------------------------------------------------------------------
(* qp_acceptor::accept, called in a loop.                                  *)

(* Mutant: the server hands what it got to a handler, whatever it is.      *)
LeaveUnchecked(null) ==
  /\ apc' = "accept"
  /\ cur' = None
  /\ Close(Ac(cur))
  /\ nullQp' = (nullQp \/ null)

(* accept() returns, with a QP or with nullptr, and the socket goes.  The  *)
(* server starts a handler, unless it sees that there is no QP, and calls  *)
(* accept() again.                                                         *)
Leave(null) ==
  /\ apc' = "accept"
  /\ cur' = None
  /\ Close(Ac(cur))
  /\ nullQp' = (nullQp \/ (null /\ ~checks))

(* async_accept.                                                           *)
Accept(k) ==
  /\ apc = "accept"
  /\ cpc[k] # "start"
  /\ ~closed[Ac(k)]
  /\ apc' = "recv"
  /\ cur' = k
  /\ UNCHANGED <<qpVars, netVars, cpc, nullQp, choices, faults>>

(* recv_qp fails.                                                          *)
RecvFails ==
  /\ apc = "recv"
  /\ SocketFails(Ac(cur))
  /\ Leave(TRUE)
  /\ UNCHANGED <<qpVars, wire, cpc, choices>>

(* recv_qp, then two CQs with their pollers, then the QP, created,         *)
(* initialised and connected by its constructor.                           *)
AnswerQp ==
  LET x == Ac(cur) IN
  /\ apc = "recv"
  /\ wire[x] # None
  /\ \/ /\ Fault(cur)
        /\ \E n \in 0..1 : pollers' = [pollers EXCEPT ![x] = n]
        /\ Leave(TRUE)
        /\ UNCHANGED <<ibv, handle, obj, psn, peer, nextPsn>>
     \/ /\ pollers' = [pollers EXCEPT ![x] = 2]
        /\ \/ CreateFails(x) /\ Leave(TRUE)
           \/ /\ TakePsn(x)
              /\ \/ /\ ToRts(x, Deserialize(wire[x]))
                    /\ apc' = "send"
                    /\ UNCHANGED <<cur, closed, nullQp, faults>>
                 \/ \E s \in {"RESET", "INIT", "RTR"} :
                      TransitionFails(x, s) /\ Leave(TRUE) /\ UNCHANGED peer
  /\ UNCHANGED <<wire, cpc, choices>>

(* send_qp.                                                                *)
SendAnswer ==
  LET x == Ac(cur) IN
  /\ apc = "send"
  /\ \/ /\ Write(x)
        /\ apc' = "return"
        /\ UNCHANGED <<ibv, obj, closed, cur, nullQp, faults>>
     \/ /\ Fault(cur) \/ (closed[Cn(cur)] /\ UNCHANGED faults)
        /\ DestroyQp(x)
        /\ Leave(TRUE)
        /\ UNCHANGED wire
  /\ UNCHANGED <<handle, psn, peer, nextPsn, pollers, cpc, choices>>

(* accept() hands the QP to its caller.                                    *)
ReturnQp ==
  /\ apc = "return"
  /\ Leave(FALSE)
  /\ UNCHANGED <<qpVars, wire, cpc, choices, faults>>

(* A handler uses the QP it does not have: the process dies, and with it   *)
(* its sockets, its QPs and their pollers.                                 *)
Crash ==
  LET dies(x) == x[1] = "acceptor" IN
  /\ nullQp
  /\ apc # "down"
  /\ apc' = "down" /\ cur' = None
  /\ closed' = [x \in Qps |-> closed[x] \/ dies(x)]
  /\ ibv' = [x \in Qps |-> IF dies(x) /\ ibv[x] # "none" THEN "gone" ELSE ibv[x]]
  /\ obj' = [x \in Qps |-> IF dies(x) /\ obj[x] # "none" THEN "dead" ELSE obj[x]]
  /\ pollers' = [x \in Qps |-> IF dies(x) THEN 0 ELSE pollers[x]]
  /\ UNCHANGED <<handle, psn, peer, nextPsn, wire, cpc, nullQp, choices, faults>>

-----------------------------------------------------------------------------
(* The user drops a QP connect() or accept() returned.                     *)
HandedOut(x) ==
  IF x[1] = "connector" THEN cpc[x[2]] = "done" ELSE closed[x]

Drop(x) ==
  /\ obj[x] = "alive"
  /\ HandedOut(x)
  /\ DestroyQp(x)
  /\ UNCHANGED <<handle, psn, peer, nextPsn, pollers, netVars, cpc, server, choices, faults>>

ConnectorStep(k) == Dial(k) \/ MakeQp(k) \/ SendQp(k) \/ RecvQp(k)

AcceptorStep ==
  \/ \E k \in Clients : Accept(k)
  \/ RecvFails \/ AnswerQp \/ SendAnswer \/ ReturnQp \/ Crash

(* Every client is served: the acceptor waits for more, if it still can.   *)
AllServed ==
  /\ apc \in {"accept", "down"}
  /\ \A k \in Clients : cpc[k] \in {"done", "failed"}
  /\ UNCHANGED vars

Next ==
  \/ \E k \in Clients : ConnectorStep(k)
  \/ AcceptorStep
  \/ \E x \in Qps : Drop(x)
  \/ AllServed

Spec == Init /\ [][Next]_vars

(* Programs keep running, silent clients excepted, and TCP delivers what   *)
(* was written and the end of the stream; no failure is owed to a reader   *)
(* that has neither.                                                       *)
Fairness ==
  /\ \A k \in Clients :
       WF_vars(/\ k \notin silent
               /\ cpc[k] = "recv" => Readable(Cn(k))
               /\ ConnectorStep(k))
  /\ WF_vars((apc = "recv" => Readable(Ac(cur))) /\ AcceptorStep)

FairSpec == Spec /\ Fairness

-----------------------------------------------------------------------------
(* Properties.                                                             *)

Address(x) == [lid |-> x[1], qp_num |-> x, sq_psn |-> psn[x], size |-> 0, gid |-> x[1]]

(* A QP that can receive is connected to the QP the other side made for    *)
(* the same TCP connection, and expects the packet number that QP starts   *)
(* with, however the attempts of several clients interleave.               *)
Paired ==
  \A x \in Qps : ibv[x] = "RTS" => peer[x] = Address(Other(x)) /\ ibv[Other(x)] # "none"

(* When connect() returns, the acceptor's QP is ready to receive: it is in *)
(* RTS, or was and its user has dropped it.  The client may send at once.  *)
AcceptorReadyFirst ==
  \A k \in Clients : cpc[k] = "done" =>
    ibv[Ac(k)] = "RTS" \/ (obj[Ac(k)] = "dead" /\ peer[Ac(k)] # None)

(* connect() returns or throws, whatever fails on either side, and the     *)
(* server is done with every client that goes on, unless it waits for ever *)
(* for a client that has fallen silent.                                    *)
ConnectReturns ==
  LET stuck == apc = "recv" /\ cur \in silent IN
  \A k \in Clients :
    /\ <>(cpc[k] \in {"done", "failed"}) \/ k \in silent \/ <>[]stuck
    /\ cur = k /\ k \notin silent ~> apc \in {"accept", "down"}

(* A client's connect() fails only because something of its own connection *)
(* did, unless the server uses what accept() returns without a test: then  *)
(* one failed connection takes the server down, for all clients.           *)
FailsAlone ==
  /\ \A k \in Clients : cpc[k] = "failed" => k \in faults \/ apc = "down"
  /\ apc = "down" => ~checks /\ faults # {}

-----------------------------------------------------------------------------
(* The inductive invariant behind these properties.                        *)

(* The acceptor has made the QP of k, or has given up.                     *)
Served(k) == closed[Ac(k)] \/ (cur = k /\ apc \in {"send", "return"})

(* The acceptor's QP can receive, or could before its user dropped it.     *)
Ready(k) == ibv[Ac(k)] = "RTS" \/ (obj[Ac(k)] = "dead" /\ peer[Ac(k)] # None)

(* What is on the wire, and what a QP was given, is the address of the QP  *)
(* on the other side as it is now; a QP in RTS was given one.              *)
AddressesInv ==
  /\ wire \in [Qps -> Packets \cup {None}]
  /\ \A x \in Qps :
       /\ wire[x] # None => wire[x] = Serialize(Other(x)) /\ ibv[Other(x)] # "none"
       /\ peer[x] # None => peer[x] = Address(Other(x)) /\ ibv[Other(x)] # "none"
       /\ ibv[x] = "RTS" => peer[x] # None /\ obj[x] = "alive" /\ handle[x]

(* connect() of k has a QP, and a socket, between creating and giving up.  *)
ConnectorInv(k) ==
  /\ cpc[k] \in {"start", "queued"} =>
       ibv[Cn(k)] = "none" /\ peer[Cn(k)] = None /\ peer[Ac(k)] = None /\ wire[Ac(k)] = None
  /\ cpc[k] \in {"send", "recv"} => ibv[Cn(k)] # "none"
  /\ closed[Cn(k)] => cpc[k] \in {"done", "failed"}
  /\ cpc[k] = "done" => wire[Cn(k)] # None
  /\ cpc[k] = "failed" => k \in faults \/ apc = "down"

(* The acceptor touches nothing of k before it serves k; it closes the     *)
(* connection with an answer on it, or after a failure of that connection. *)
AcceptorInv(k) ==
  /\ ~Served(k) => ibv[Ac(k)] = "none" /\ obj[Ac(k)] = "none" /\ peer[Ac(k)] = None
  /\ cur = k => ~closed[Ac(k)]
  /\ cur = k /\ apc \in {"send", "return"} => ibv[Ac(k)] = "RTS"
  /\ cur = k /\ apc = "send" => wire[Cn(k)] = None
  /\ cur = k /\ apc = "return" => wire[Cn(k)] # None \/ k \in faults
  /\ closed[Ac(k)] => wire[Cn(k)] # None \/ k \in faults \/ apc = "down"
  /\ wire[Cn(k)] # None \/ peer[Cn(k)] # None => Ready(k)

(* accept() serves one client at a time; a handler without a QP is the     *)
(* fault of some connection and of a server that does not look.            *)
ServerInv ==
  /\ cur = None <=> apc \in {"accept", "down"}
  /\ nullQp => ~checks /\ faults # {}
  /\ apc = "down" => nullQp

ConnectInv ==
  /\ TypeOK /\ AddressesInv /\ ServerInv
  /\ \A k \in Clients : ConnectorInv(k) /\ AcceptorInv(k)

-----------------------------------------------------------------------------
(* "Destroys the Queue Pair and releases all associated `ibverbs`          *)
(* resources." (~basic_qp in include/rdmapp/qp.h): no ibv_qp outlives the  *)
(* basic_qp that owned it, unless ibv_destroy_qp itself fails.             *)
ReleasesResources ==
  \A x \in Qps : obj[x] = "dead" => ibv[x] \in {"gone", "ERR"}
=============================================================================
