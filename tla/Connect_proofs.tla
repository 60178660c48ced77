--------------------------- MODULE Connect_proofs ---------------------------
(***************************************************************************)
(* Proofs about the handshake that connects QPs (Connect): for any number  *)
(* of clients, packet numbers of any width, with or without failures.      *)
(***************************************************************************)
EXTENDS Connect, TLAPS

-----------------------------------------------------------------------------
(* QPs and their addresses.                                                *)

(* The QPs are the connector's and the acceptor's of each client.          *)
LEMMA QpFacts ==
  /\ \A k \in Clients :
       /\ Cn(k) \in Qps /\ Ac(k) \in Qps
       /\ Other(Cn(k)) = Ac(k) /\ Other(Ac(k)) = Cn(k)
       /\ Cn(k)[1] = "connector" /\ Ac(k)[1] = "acceptor"
       /\ Cn(k)[2] = k /\ Ac(k)[2] = k
  /\ \A k, j \in Clients : /\ Cn(k) # Ac(j)
                           /\ k # j => Cn(k) # Cn(j) /\ Ac(k) # Ac(j)
  /\ \A x \in Qps : /\ x[1] \in Sides /\ x[2] \in Clients
                    /\ x = Cn(x[2]) \/ x = Ac(x[2])
BY DEF Qps, Sides, Cn, Ac, Other

(* What is written of a QP is a packet, which is read as its address.      *)
LEMMA AddressFacts ==
  ASSUME TypeOK, NEW x \in Qps
  PROVE  /\ Serialize(x) \in Packets /\ Serialize(x) # None
         /\ Deserialize(Serialize(x)) = Address(x)
         /\ Address(x) \in Headers /\ Address(x) # None
<1>1. psn[x] \in 0..PsnMod-1 /\ x[1] \in Sides
  BY QpFacts DEF TypeOK
<1>2. Serialize(x) \in Packets BY <1>1 DEF Serialize, Packets
<1>3. Deserialize(Serialize(x)) = Address(x) BY DEF Deserialize, Serialize, Address
<1>4. Address(x) \in Headers BY <1>1 DEF Address, Headers
<1> QED BY <1>2, <1>3, <1>4, NoneAssumption

-----------------------------------------------------------------------------
(* The invariant, client by client.                                        *)

(* The addresses of the two QPs of client k.                               *)
AddressesOf(k) ==
  /\ wire[Cn(k)] # None => wire[Cn(k)] = Serialize(Ac(k)) /\ ibv[Ac(k)] # "none"
  /\ wire[Ac(k)] # None => wire[Ac(k)] = Serialize(Cn(k)) /\ ibv[Cn(k)] # "none"
  /\ peer[Cn(k)] # None => peer[Cn(k)] = Address(Ac(k)) /\ ibv[Ac(k)] # "none"
  /\ peer[Ac(k)] # None => peer[Ac(k)] = Address(Cn(k)) /\ ibv[Cn(k)] # "none"
  /\ ibv[Cn(k)] = "RTS" => peer[Cn(k)] # None /\ obj[Cn(k)] = "alive" /\ handle[Cn(k)]
  /\ ibv[Ac(k)] = "RTS" => peer[Ac(k)] # None /\ obj[Ac(k)] = "alive" /\ handle[Ac(k)]

ClientInv(k) == AddressesOf(k) /\ ConnectorInv(k) /\ AcceptorInv(k)

WireType == wire \in [Qps -> Packets \cup {None}]

(* The types without that of the wire, which WireType gives.               *)
Types ==
  /\ ibv \in [Qps -> {"none", "RESET", "INIT", "RTR", "RTS", "ERR", "gone"}]
  /\ handle \in [Qps -> BOOLEAN]
  /\ obj \in [Qps -> {"none", "alive", "dead"}]
  /\ psn \in [Qps -> 0..PsnMod-1]
  /\ peer \in [Qps -> Headers \cup {None}]
  /\ nextPsn \in [Sides -> 0..PsnMod-1]
  /\ pollers \in [Qps -> 0..2]
  /\ closed \in [Qps -> BOOLEAN]
  /\ cpc \in [Clients -> ConnectorStates]
  /\ apc \in {"accept", "recv", "send", "return", "down"}
  /\ cur \in Clients \cup {None}
  /\ checks \in BOOLEAN /\ nullQp \in BOOLEAN
  /\ silent \subseteq MayStall /\ faults \subseteq Clients

ClientsInv == \A k \in Clients : ClientInv(k)

(* The invariant holds when it does for each client ...                    *)
LEMMA Assemble == Types /\ WireType /\ ServerInv /\ ClientsInv => ConnectInv
<1> SUFFICES ASSUME Types, WireType, ServerInv, \A k \in Clients : ClientInv(k)
             PROVE  ConnectInv
  BY DEF ClientsInv
<1>1. \A m \in Packets : Deserialize(m) \in Headers
  BY DEF Packets, Deserialize, Headers
<1>2. TypeOK BY <1>1 DEF TypeOK, Types, WireType
<1>3. AddressesInv
  <2> SUFFICES ASSUME NEW x \in Qps
               PROVE /\ wire[x] # None => wire[x] = Serialize(Other(x)) /\ ibv[Other(x)] # "none"
                     /\ peer[x] # None => peer[x] = Address(Other(x)) /\ ibv[Other(x)] # "none"
                     /\ ibv[x] = "RTS" => peer[x] # None /\ obj[x] = "alive" /\ handle[x]
    BY DEF AddressesInv, WireType
  <2>1. PICK k \in Clients : x = Cn(k) \/ x = Ac(k) BY QpFacts
  <2>2. Other(Cn(k)) = Ac(k) /\ Other(Ac(k)) = Cn(k) BY QpFacts
  <2> QED BY <2>1, <2>2 DEF ClientInv, AddressesOf
<1> QED BY <1>2, <1>3 DEF ConnectInv, ClientInv

(* ... and then only.                                                      *)
LEMMA Disassemble ==
  ConnectInv => /\ Types /\ WireType /\ ServerInv
                /\ \A k \in Clients : ClientInv(k)
<1> SUFFICES ASSUME ConnectInv
             PROVE  /\ Types /\ WireType /\ ServerInv
                    /\ \A k \in Clients : ClientInv(k)
  OBVIOUS
<1>1. Types /\ WireType /\ ServerInv
  BY DEF ConnectInv, TypeOK, Types, WireType, AddressesInv
<1>2. ASSUME NEW k \in Clients PROVE AddressesOf(k)
  <2>1. /\ Cn(k) \in Qps /\ Ac(k) \in Qps
        /\ Other(Cn(k)) = Ac(k) /\ Other(Ac(k)) = Cn(k)
    BY QpFacts
  <2> QED BY <2>1 DEF ConnectInv, AddressesInv, AddressesOf
<1> QED BY <1>1, <1>2 DEF ConnectInv, ClientInv

(* Nothing of client j changes.                                            *)
Untouched(j) ==
  /\ \A x \in {Cn(j), Ac(j)} :
       /\ ibv'[x] = ibv[x] /\ handle'[x] = handle[x] /\ obj'[x] = obj[x]
       /\ psn'[x] = psn[x] /\ peer'[x] = peer[x]
       /\ wire'[x] = wire[x] /\ closed'[x] = closed[x]
  /\ cpc'[j] = cpc[j]
  /\ (cur' = j <=> cur = j) /\ (cur = j => apc' = apc)
  /\ faults \subseteq faults' /\ (apc = "down" => apc' = "down")

(* What others do keeps the invariant of a client.                         *)
LEMMA KeepClient ==
  ASSUME NEW j \in Clients, ClientInv(j), Untouched(j)
  PROVE  ClientInv(j)'
<1>1. AddressesOf(j)'
  BY DEF ClientInv, AddressesOf, Untouched, Serialize, Address
<1>2. ConnectorInv(j)'
  BY DEF ClientInv, ConnectorInv, Untouched
<1>3. AcceptorInv(j)'
  BY DEF ClientInv, AcceptorInv, Untouched, Served, Ready
<1> QED BY <1>1, <1>2, <1>3 DEF ClientInv

(* A step that touches client k only keeps the invariant when it keeps     *)
(* that of k.                                                              *)
LEMMA Combine ==
  ASSUME ConnectInv, NEW k \in Clients,
         Types', WireType', ServerInv', ClientInv(k)',
         \A j \in Clients \ {k} : Untouched(j)
  PROVE  ConnectInv'
<1>1. \A j \in Clients : ClientInv(j)
  BY Disassemble
<1>2. \A j \in Clients \ {k} : ClientInv(j)'
  BY <1>1, KeepClient
<1>3. ClientsInv' BY <1>2 DEF ClientsInv
<1> QED BY <1>3, Assemble, PTL

-----------------------------------------------------------------------------
(* The life of a QP.                                                       *)

(* A QP that is destroyed is not created again, and not left in RTS when   *)
(* its basic_qp had it.                                                    *)
LEMMA DestroyFacts ==
  ASSUME Types, NEW x \in Qps, DestroyQp(x)
  PROVE  /\ obj' = [obj EXCEPT ![x] = "dead"]
         /\ \E t \in {"none", "RESET", "INIT", "RTR", "RTS", "ERR", "gone"} :
              /\ ibv' = [ibv EXCEPT ![x] = t]
              /\ t = "none" => ibv[x] = "none"
              /\ t = "RTS" => ibv[x] = "RTS" /\ ~handle[x]
<1>1. PICK t \in AfterDestroy(handle[x], ibv[x]) : ibv' = [ibv EXCEPT ![x] = t]
  BY DEF DestroyQp
<1>2. CASE handle[x] BY <1>1, <1>2 DEF AfterDestroy, DestroyQp
<1>3. CASE ~handle[x] BY <1>1, <1>3 DEF AfterDestroy, DestroyQp, Types
<1> QED BY <1>2, <1>3

(* A transition that fails leaves the ibv_qp where it was.                 *)
LEMMA TransitionFacts ==
  ASSUME NEW x, NEW s, TransitionFails(x, s)
  PROVE  /\ MayFail /\ faults' = faults \cup {x[2]}
         /\ handle' = [handle EXCEPT ![x] = FALSE]
         /\ ibv' = [ibv EXCEPT ![x] = s]
         /\ obj' = [obj EXCEPT ![x] = IF s = "RESET" THEN "none" ELSE "dead"]
BY DEF TransitionFails, AfterDestroy, Fault

(* A packet number is taken.                                               *)
LEMMA TakePsnFacts ==
  ASSUME Types, NEW x \in Qps, TakePsn(x)
  PROVE  /\ psn' \in [Qps -> 0..PsnMod-1]
         /\ nextPsn' \in [Sides -> 0..PsnMod-1]
         /\ \A z \in Qps \ {x} : psn'[z] = psn[z]
<1>1. x[1] \in Sides /\ nextPsn[x[1]] \in 0..PsnMod-1 BY QpFacts DEF Types
<1>2. PsnMod \in Nat \ {0, 1} BY ConnectAssumption
<1>3. (nextPsn[x[1]] + 1) % PsnMod \in 0..PsnMod-1 BY <1>1, <1>2
<1> QED BY <1>1, <1>3 DEF TakePsn, Types

-----------------------------------------------------------------------------
(* qp_connector::connect.                                                  *)

(* async_connect keeps the invariant.                                      *)
LEMMA DialInv ==
  ASSUME ConnectInv, NEW k \in Clients, Dial(k)
  PROVE  ConnectInv'
<1>1. Types /\ WireType /\ ServerInv /\ ClientInv(k) BY Disassemble
<1>2. /\ cpc[k] = "start"
      /\ UNCHANGED <<ibv, handle, obj, psn, peer, nextPsn, pollers, wire,
                     apc, cur, nullQp, checks, silent>>
  BY DEF Dial, qpVars, server, choices
<1>3. \/ cpc' = [cpc EXCEPT ![k] = "queued"] /\ UNCHANGED <<closed, faults>>
      \/ /\ cpc' = [cpc EXCEPT ![k] = "failed"]
         /\ closed' = [closed EXCEPT ![Cn(k)] = TRUE]
         /\ \/ faults' = faults \cup {k}
            \/ apc = "down" /\ faults' = faults
  BY DEF Dial, Fault, Abandon, Close
<1>4. Types' /\ WireType' /\ ServerInv'
  BY <1>1, <1>2, <1>3 DEF Types, WireType, ServerInv, ConnectorStates
<1>5. ClientInv(k)'
  BY <1>1, <1>2, <1>3, QpFacts DEF Types, ClientInv, AddressesOf, ConnectorInv,
     AcceptorInv, Served, Ready, Serialize, Address
<1>6. \A j \in Clients \ {k} : Untouched(j)
  BY <1>1, <1>2, <1>3, QpFacts DEF Types, Untouched
<1> QED BY <1>4, <1>5, <1>6, Combine

(* from_socket keeps it: nobody has the address of a QP that is created.   *)
LEMMA MakeQpInv ==
  ASSUME ConnectInv, NEW k \in Clients, MakeQp(k)
  PROVE  ConnectInv'
<1> DEFINE x == Cn(k)
<1>1. Types /\ WireType /\ ServerInv /\ ClientInv(k) BY Disassemble
<1>2. /\ cpc[k] = "queued"
      /\ UNCHANGED <<wire, apc, cur, nullQp, checks, silent>>
  BY DEF MakeQp, server, choices
<1>3. x \in Qps /\ x[2] = k BY QpFacts
<1>4. \/ /\ UNCHANGED <<ibv, handle, obj, psn, peer, nextPsn, pollers>>
         /\ faults' = faults \cup {k} /\ Abandon(k)
      \/ /\ pollers' = [pollers EXCEPT ![x] = 1]
         /\ UNCHANGED <<ibv, handle, obj, psn, peer, nextPsn>>
         /\ faults' = faults \cup {k} /\ Abandon(k)
      \/ /\ pollers' = [pollers EXCEPT ![x] = 1]
         /\ TakePsn(x) /\ UNCHANGED peer
         /\ TransitionFails(x, "RESET") /\ Abandon(k)
      \/ /\ pollers' = [pollers EXCEPT ![x] = 1]
         /\ TakePsn(x) /\ UNCHANGED peer
         /\ Construct(x)
         /\ cpc' = [cpc EXCEPT ![k] = "send"]
         /\ UNCHANGED <<closed, faults>>
  BY <1>3 DEF MakeQp, Fault, qpVars, CreateFails
<1>5. \/ UNCHANGED <<ibv, handle, obj>>
      \/ \E t \in {"RESET", "INIT"}, b \in BOOLEAN, s \in {"none", "alive"} :
           /\ ibv' = [ibv EXCEPT ![x] = t]
           /\ handle' = [handle EXCEPT ![x] = b]
           /\ obj' = [obj EXCEPT ![x] = s]
  BY <1>4, TransitionFacts DEF Construct
<1>6. /\ psn' \in [Qps -> 0..PsnMod-1] /\ nextPsn' \in [Sides -> 0..PsnMod-1]
      /\ \A z \in Qps \ {x} : psn'[z] = psn[z]
  BY <1>1, <1>3, <1>4, TakePsnFacts DEF Types
<1>7. /\ UNCHANGED peer
      /\ pollers' = pollers \/ pollers' = [pollers EXCEPT ![x] = 1]
  BY <1>4
<1>8. \/ /\ cpc' = [cpc EXCEPT ![k] = "failed"]
         /\ closed' = [closed EXCEPT ![x] = TRUE]
         /\ faults' = faults \cup {k}
      \/ /\ cpc' = [cpc EXCEPT ![k] = "send"] /\ UNCHANGED <<closed, faults>>
         /\ ibv' = [ibv EXCEPT ![x] = "INIT"]
  BY <1>3, <1>4, TransitionFacts DEF Abandon, Close, Construct
<1> HIDE DEF x
<1>9. Types' /\ WireType' /\ ServerInv'
  <2>1. /\ ibv' \in [Qps -> {"none", "RESET", "INIT", "RTR", "RTS", "ERR", "gone"}]
        /\ handle' \in [Qps -> BOOLEAN]
        /\ obj' \in [Qps -> {"none", "alive", "dead"}]
    BY <1>1, <1>3, <1>5 DEF Types
  <2>2. /\ closed' \in [Qps -> BOOLEAN] /\ cpc' \in [Clients -> ConnectorStates]
        /\ faults' \subseteq Clients /\ faults \subseteq faults'
    BY <1>1, <1>3, <1>8 DEF Types, ConnectorStates
  <2>3. pollers' \in [Qps -> 0..2] BY <1>1, <1>3, <1>7 DEF Types
  <2> QED BY <1>1, <1>2, <1>6, <1>7, <2>1, <2>2, <2>3 DEF Types, WireType, ServerInv
<1>10. ClientInv(k)'
  <2>1. Ac(k) \in Qps /\ Ac(k) # x BY QpFacts DEF x
  <2>2. /\ wire[Ac(k)] = None /\ peer[Ac(k)] = None /\ peer[x] = None
        /\ ibv[x] = "none"
    BY <1>1, <1>2 DEF ClientInv, ConnectorInv, x
  <2>3. /\ ibv'[x] # "RTS"
        /\ ibv'[Ac(k)] = ibv[Ac(k)] /\ obj'[Ac(k)] = obj[Ac(k)]
        /\ handle'[Ac(k)] = handle[Ac(k)] /\ psn'[Ac(k)] = psn[Ac(k)]
        /\ closed'[Ac(k)] = closed[Ac(k)]
    BY <1>1, <1>3, <1>5, <1>6, <1>8, <2>1, <2>2 DEF Types
  <2>4. AddressesOf(k)'
    BY <1>1, <1>2, <1>7, <2>2, <2>3 DEF ClientInv, AddressesOf, Serialize, x
  <2>5. ConnectorInv(k)'
    BY <1>1, <1>2, <1>3, <1>8 DEF Types, ClientInv, ConnectorInv, x
  <2>6. AcceptorInv(k)'
    BY <1>1, <1>2, <1>7, <1>8, <2>3 DEF ClientInv, AcceptorInv, Served, Ready, x
  <2> QED BY <2>4, <2>5, <2>6 DEF ClientInv
<1>11. \A j \in Clients \ {k} : Untouched(j)
  BY <1>1, <1>2, <1>3, <1>5, <1>6, <1>7, <1>8, QpFacts DEF Types, Untouched, x
<1> QED BY <1>9, <1>10, <1>11, Combine

(* connect() gives up, for a reason of its own connection or because the   *)
(* server is down, and its QP with it.                                     *)
LEMMA GiveUpInv ==
  ASSUME ConnectInv, NEW k \in Clients, cpc[k] \in {"send", "recv"}, Abandon(k),
         NEW t \in {"RESET", "INIT", "RTR", "ERR", "gone"},
         ibv' = [ibv EXCEPT ![Cn(k)] = t],
         obj' = [obj EXCEPT ![Cn(k)] = "dead"],
         handle' = handle \/ handle' = [handle EXCEPT ![Cn(k)] = FALSE],
         faults' = faults \/ faults' = faults \cup {k},
         k \in faults' \/ apc = "down",
         UNCHANGED <<psn, peer, nextPsn, pollers, wire, server, choices>>
  PROVE  ConnectInv'
<1> DEFINE x == Cn(k)
           y == Ac(k)
<1>1. Types /\ WireType /\ ServerInv /\ ClientInv(k)
  BY Disassemble
<1>2. /\ UNCHANGED <<psn, peer, nextPsn, pollers, wire, apc, cur, nullQp, checks, silent>>
      /\ cpc' = [cpc EXCEPT ![k] = "failed"]
      /\ closed' = [closed EXCEPT ![x] = TRUE]
  BY DEF server, choices, Abandon, Close
<1>3. x \in Qps /\ y \in Qps /\ x # y BY QpFacts
<1>4. ibv' = [ibv EXCEPT ![x] = t] /\ obj' = [obj EXCEPT ![x] = "dead"]
  OBVIOUS
<1>8. handle' \in [Qps -> BOOLEAN] /\ \A z \in Qps \ {x} : handle'[z] = handle[z]
  <2>1. handle \in [Qps -> BOOLEAN] BY <1>1 DEF Types
  <2> QED BY <1>3, <2>1
<1> HIDE DEF x, y
<1>5. Types' /\ WireType' /\ ServerInv'
  <2>1. ibv' \in [Qps -> {"none", "RESET", "INIT", "RTR", "RTS", "ERR", "gone"}]
    <3>1. ibv \in [Qps -> {"none", "RESET", "INIT", "RTR", "RTS", "ERR", "gone"}]
      BY <1>1 DEF Types
    <3> QED BY <1>3, <1>4, <3>1
  <2>4. obj' \in [Qps -> {"none", "alive", "dead"}]
    BY <1>1, <1>3, <1>4 DEF Types
  <2>2. /\ closed' \in [Qps -> BOOLEAN] /\ cpc' \in [Clients -> ConnectorStates]
    BY <1>1, <1>2, <1>3 DEF Types, ConnectorStates
  <2>3. faults' \subseteq Clients /\ faults \subseteq faults' BY <1>1 DEF Types
  <2> QED BY <1>1, <1>2, <2>1, <2>2, <2>3, <2>4, <1>8 DEF Types, WireType, ServerInv
<1>6. ClientInv(k)'
  <2>1. /\ ibv'[y] = ibv[y] /\ obj'[y] = obj[y] /\ closed'[y] = closed[y]
        /\ handle'[y] = handle[y] /\ ibv'[x] # "none" /\ ibv'[x] # "RTS"
    BY <1>1, <1>2, <1>3, <1>4, <1>8 DEF Types
  <2>2. AddressesOf(k)'
    BY <1>1, <1>2, <2>1 DEF ClientInv, AddressesOf, Serialize, Address, x, y
  <2>3. ConnectorInv(k)'
    BY <1>1, <1>2, <1>3 DEF Types, ConnectorInv, x, y
  <2>4. AcceptorInv(k)'
    BY <1>1, <1>2, <2>1 DEF ClientInv, AcceptorInv, Served, Ready, x, y
  <2> QED BY <2>2, <2>3, <2>4 DEF ClientInv
<1>7. \A j \in Clients \ {k} : Untouched(j)
  <2>1. \A z \in Qps \ {x} :
          /\ ibv'[z] = ibv[z] /\ obj'[z] = obj[z] /\ closed'[z] = closed[z]
          /\ handle'[z] = handle[z]
    BY <1>1, <1>2, <1>3, <1>4, <1>8 DEF Types
  <2>2. \A j \in Clients \ {k} : Cn(j) \in Qps \ {x} /\ Ac(j) \in Qps \ {x}
    BY QpFacts DEF x
  <2>3. \A j \in Clients \ {k} : cpc'[j] = cpc[j] BY <1>1, <1>2 DEF Types
  <2> QED BY <1>2, <2>1, <2>2, <2>3 DEF Untouched
<1> QED BY <1>5, <1>6, <1>7, Combine

(* A socket operation of connect() fails: it gives up.                     *)
LEMMA SocketFailsInv ==
  ASSUME ConnectInv, NEW k \in Clients, cpc[k] \in {"send", "recv"},
         SocketFails(Cn(k)), DestroyQp(Cn(k)), Abandon(k),
         UNCHANGED <<handle, psn, peer, nextPsn, pollers, wire, server, choices>>
  PROVE  ConnectInv'
<1>1. Types /\ ClientInv(k) BY Disassemble
<1>2. Cn(k) \in Qps /\ Cn(k)[2] = k /\ Other(Cn(k)) = Ac(k) BY QpFacts
<1>3. PICK t \in {"none", "RESET", "INIT", "RTR", "RTS", "ERR", "gone"} :
        /\ ibv' = [ibv EXCEPT ![Cn(k)] = t]
        /\ t = "none" => ibv[Cn(k)] = "none"
        /\ t = "RTS" => ibv[Cn(k)] = "RTS" /\ ~handle[Cn(k)]
  BY <1>1, <1>2, DestroyFacts
<1>4. t # "none" /\ t # "RTS"
  BY <1>1, <1>3 DEF ClientInv, ConnectorInv, AddressesOf
<1>5. /\ faults' = faults \/ faults' = faults \cup {k}
      /\ k \in faults' \/ apc = "down"
  BY <1>1, <1>2 DEF SocketFails, Fault, ClientInv, AcceptorInv
<1>6. obj' = [obj EXCEPT ![Cn(k)] = "dead"] BY DEF DestroyQp
<1> QED BY <1>3, <1>4, <1>5, <1>6, GiveUpInv

(* send_qp of the connector keeps it: the packet holds the address of a QP *)
(* that exists.                                                            *)
LEMMA SendQpInv ==
  ASSUME ConnectInv, NEW k \in Clients, SendQp(k)
  PROVE  ConnectInv'
<1> DEFINE x == Cn(k)
           y == Ac(k)
<1>1. Types /\ WireType /\ ServerInv /\ ClientInv(k) /\ TypeOK
  BY Disassemble DEF ConnectInv
<1>2. /\ cpc[k] = "send"
      /\ UNCHANGED <<handle, psn, peer, nextPsn, pollers, apc, cur, nullQp,
                     checks, silent>>
  BY DEF SendQp, server, choices
<1>3. /\ x \in Qps /\ y \in Qps /\ x # y /\ x[2] = k
      /\ Other(x) = y /\ Other(y) = x
  BY QpFacts
<1>4. CASE /\ Write(x) /\ cpc' = [cpc EXCEPT ![k] = "recv"]
           /\ UNCHANGED <<ibv, obj, closed, faults>>
  <2>1. wire' = wire \/ wire' = [wire EXCEPT ![y] = Serialize(x)]
    BY <1>3, <1>4 DEF Write
  <2>2. Serialize(x) \in Packets /\ ibv[x] # "none"
    BY <1>1, <1>2, <1>3, AddressFacts DEF ClientInv, ConnectorInv
  <2> HIDE DEF x, y
  <2>3. Types' /\ WireType' /\ ServerInv'
    BY <1>1, <1>2, <1>3, <1>4, <2>1, <2>2
       DEF Types, WireType, ServerInv, ConnectorStates
  <2>4. wire'[x] = wire[x] /\ (wire'[y] = wire[y] \/ wire'[y] = Serialize(x))
    BY <1>1, <1>3, <2>1 DEF WireType
  <2>5. AddressesOf(k)'
    BY <1>1, <1>2, <1>3, <1>4, <2>2, <2>4
       DEF ClientInv, AddressesOf, Serialize, Address, x, y
  <2>6. ConnectorInv(k)'
    BY <1>1, <1>2, <1>3, <1>4, <2>2, <2>4 DEF Types, ClientInv, ConnectorInv, x, y
  <2>7. AcceptorInv(k)'
    BY <1>1, <1>2, <1>4, <2>4 DEF ClientInv, AcceptorInv, Served, Ready, x, y
  <2>8. \A j \in Clients \ {k} : Untouched(j)
    BY <1>1, <1>2, <1>4, <2>1, QpFacts DEF Types, WireType, Untouched, y
  <2> QED BY <2>3, <2>5, <2>6, <2>7, <2>8, Combine DEF ClientInv
<1>5. CASE SocketFails(x) /\ DestroyQp(x) /\ Abandon(k) /\ UNCHANGED wire
  BY <1>2, <1>5, SocketFailsInv DEF SendQp
<1> QED BY <1>4, <1>5 DEF SendQp

(* recv_qp, rtr and rts of the connector keep it: the address it reads is  *)
(* that of a QP of the acceptor that is ready.                             *)
LEMMA RecvQpInv ==
  ASSUME ConnectInv, NEW k \in Clients, RecvQp(k)
  PROVE  ConnectInv'
<1> DEFINE x == Cn(k)
           y == Ac(k)
<1>1. Types /\ WireType /\ ServerInv /\ ClientInv(k) /\ TypeOK
  BY Disassemble DEF ConnectInv
<1>2. /\ cpc[k] = "recv"
      /\ UNCHANGED <<psn, nextPsn, pollers, wire, server, choices>>
      /\ UNCHANGED <<apc, cur, nullQp, checks, silent>>
  BY DEF RecvQp, server, choices
<1>3. /\ x \in Qps /\ y \in Qps /\ x # y /\ x[2] = k
      /\ Other(x) = y /\ Other(y) = x
  BY QpFacts
<1>4. CASE SocketFails(x) /\ DestroyQp(x) /\ Abandon(k) /\ UNCHANGED <<handle, peer>>
  BY <1>2, <1>4, SocketFailsInv
<1>5. CASE \E s \in {"INIT", "RTR"} :
             TransitionFails(x, s) /\ Abandon(k) /\ UNCHANGED peer
  <2>1. PICK s \in {"INIT", "RTR"} :
          TransitionFails(x, s) /\ Abandon(k) /\ UNCHANGED peer
    BY <1>5
  <2>2. /\ faults' = faults \cup {k} /\ handle' = [handle EXCEPT ![x] = FALSE]
        /\ ibv' = [ibv EXCEPT ![x] = s] /\ obj' = [obj EXCEPT ![x] = "dead"]
    BY <1>3, <2>1, TransitionFacts
  <2> QED BY <1>2, <2>1, <2>2, GiveUpInv
<1>6. CASE /\ wire[x] # None /\ ToRts(x, Deserialize(wire[x]))
           /\ cpc' = [cpc EXCEPT ![k] = "done"] /\ Close(x) /\ UNCHANGED faults
  <2>1. /\ Deserialize(wire[x]) = Address(y) /\ ibv[y] # "none" /\ Ready(k)
        /\ Address(y) \in Headers /\ Address(y) # None
    BY <1>1, <1>3, <1>6, AddressFacts DEF ClientInv, AddressesOf, AcceptorInv
  <2>2. /\ ibv' = [ibv EXCEPT ![x] = "RTS"] /\ handle' = [handle EXCEPT ![x] = TRUE]
        /\ obj' = [obj EXCEPT ![x] = "alive"] /\ peer' = [peer EXCEPT ![x] = Address(y)]
        /\ closed' = [closed EXCEPT ![x] = TRUE]
    BY <1>6, <2>1 DEF ToRts, Close
  <2> HIDE DEF x, y
  <2>3. Types' /\ WireType' /\ ServerInv'
    BY <1>1, <1>2, <1>3, <1>6, <2>1, <2>2
       DEF Types, WireType, ServerInv, ConnectorStates
  <2>4. /\ ibv'[y] = ibv[y] /\ obj'[y] = obj[y] /\ closed'[y] = closed[y]
        /\ handle'[y] = handle[y] /\ peer'[y] = peer[y]
        /\ ibv'[x] = "RTS" /\ obj'[x] = "alive" /\ handle'[x] /\ peer'[x] = Address(y)
    BY <1>1, <1>3, <2>2 DEF Types
  <2>5. AddressesOf(k)'
    BY <1>1, <1>2, <1>3, <2>1, <2>4
       DEF ClientInv, AddressesOf, Serialize, Address, x, y
  <2>6. ConnectorInv(k)'
    BY <1>1, <1>2, <1>6, <2>2 DEF Types, ConnectorInv, x, y
  <2>7. AcceptorInv(k)'
    BY <1>1, <1>2, <1>6, <2>1, <2>4 DEF ClientInv, AcceptorInv, Served, Ready, x, y
  <2>8. \A j \in Clients \ {k} : Untouched(j)
    <3>1. \A z \in Qps \ {x} :
            /\ ibv'[z] = ibv[z] /\ obj'[z] = obj[z] /\ closed'[z] = closed[z]
            /\ handle'[z] = handle[z] /\ peer'[z] = peer[z]
      BY <1>1, <1>3, <2>2 DEF Types
    <3>2. \A j \in Clients \ {k} : Cn(j) \in Qps \ {x} /\ Ac(j) \in Qps \ {x}
      BY QpFacts DEF x
    <3>3. \A j \in Clients \ {k} : cpc'[j] = cpc[j] BY <1>1, <1>6 DEF Types
    <3> QED BY <1>2, <1>6, <3>1, <3>2, <3>3 DEF Untouched
  <2> QED BY <2>3, <2>5, <2>6, <2>7, <2>8, Combine DEF ClientInv
<1> QED BY <1>4, <1>5, <1>6 DEF RecvQp

-----------------------------------------------------------------------------
(* qp_acceptor::accept.                                                    *)

(* accept() is serving a client.                                           *)
LEMMA Serving ==
  ASSUME ConnectInv, apc \in {"recv", "send", "return"}
  PROVE  /\ cur \in Clients /\ cur # None
         /\ closed[Cn(cur)] /\ wire[Cn(cur)] = None => cur \in faults
<1>1. cur \in Clients /\ cur # None
  BY Disassemble DEF Types, ServerInv
<1> QED BY <1>1, Disassemble DEF ClientInv, ConnectorInv

(* accept() returns.  It may have made, and lost, the QP of its client,    *)
(* but has touched no other; when it has no QP to return, its own          *)
(* connection has failed; and if it leaves no answer behind, so it has.    *)
LEMMA LeaveInv ==
  ASSUME ConnectInv, apc \in {"recv", "send", "return"}, NEW k \in Clients, cur = k,
         NEW null \in BOOLEAN, Leave(null), UNCHANGED <<peer, wire, cpc, choices>>,
         ibv' \in [Qps -> {"none", "RESET", "INIT", "RTR", "RTS", "ERR", "gone"}],
         handle' \in [Qps -> BOOLEAN],
         obj' \in [Qps -> {"none", "alive", "dead"}],
         psn' \in [Qps -> 0..PsnMod-1], nextPsn' \in [Sides -> 0..PsnMod-1],
         pollers' \in [Qps -> 0..2],
         faults' = faults \/ faults' = faults \cup {k},
         null => k \in faults',
         wire[Cn(k)] # None \/ k \in faults',
         \A z \in Qps \ {Ac(k)} : /\ ibv'[z] = ibv[z] /\ handle'[z] = handle[z]
                                  /\ obj'[z] = obj[z] /\ psn'[z] = psn[z],
         ibv'[Ac(k)] = "none" => ibv[Ac(k)] = "none",
         ibv'[Ac(k)] = "RTS" => /\ ibv[Ac(k)] = "RTS"
                                /\ obj'[Ac(k)] = "alive" /\ handle'[Ac(k)],
         Ready(k) => /\ psn'[Ac(k)] = psn[Ac(k)]
                     /\ ibv'[Ac(k)] = "RTS" \/ obj'[Ac(k)] = "dead"
  PROVE  ConnectInv'
<1> DEFINE x == Cn(k)
           y == Ac(k)
<1>1. Types /\ WireType /\ ServerInv BY Disassemble
<1>2. k \in Clients /\ k # None BY Serving
<1>3. ClientInv(k) BY <1>2, Disassemble
<1>4. /\ apc' = "accept" /\ cur' = None /\ closed' = [closed EXCEPT ![y] = TRUE]
      /\ nullQp' = (nullQp \/ (null /\ ~checks))
      /\ UNCHANGED <<peer, wire, cpc, checks, silent>>
  BY DEF Leave, Close, choices
<1>5. x \in Qps /\ y \in Qps /\ x # y BY <1>2, QpFacts
<1>6. Types' /\ WireType' /\ ServerInv'
  <2>1. Types' /\ WireType'
    BY <1>1, <1>2, <1>4, <1>5 DEF Types, WireType
  <2>2. ServerInv'
    BY <1>1, <1>4 DEF Types, ServerInv
  <2> QED BY <2>1, <2>2
<1>7. ClientInv(k)'
  <2>1. /\ ibv'[x] = ibv[x] /\ handle'[x] = handle[x] /\ obj'[x] = obj[x]
        /\ psn'[x] = psn[x] /\ closed'[x] = closed[x] /\ closed'[y]
    BY <1>1, <1>4, <1>5 DEF Types
  <2>2. /\ wire[x] # None \/ peer[x] # None => Ready(k)
        /\ ibv[y] = "RTS" => peer[y] # None
    BY <1>3 DEF ClientInv, AcceptorInv, AddressesOf
  <2>3. Ready(k) => peer[y] # None
    BY <2>2 DEF Ready
  <2>4. AddressesOf(k)'
    <3>1. Serialize(x)' = Serialize(x) /\ Address(x)' = Address(x)
      BY <2>1 DEF Serialize, Address
    <3>2. ASSUME Ready(k)
          PROVE  Serialize(y)' = Serialize(y) /\ Address(y)' = Address(y)
      <4>1. psn'[y] = psn[y] BY <3>2
      <4> QED BY <4>1 DEF Serialize, Address
    <3> QED BY <1>3, <1>4, <2>1, <2>2, <3>1, <3>2 DEF ClientInv, AddressesOf
  <2>5. ConnectorInv(k)'
    BY <1>3, <1>4, <2>1 DEF ClientInv, ConnectorInv
  <2>6. AcceptorInv(k)'
    BY <1>2, <1>3, <1>4, <2>1, <2>2, <2>3 DEF ClientInv, AcceptorInv, Served, Ready
  <2> QED BY <2>4, <2>5, <2>6 DEF ClientInv
<1>8. \A j \in Clients \ {k} : Untouched(j)
  <2>1. \A z \in Qps \ {y} : closed'[z] = closed[z]
    BY <1>1, <1>4, <1>5 DEF Types
  <2>2. \A j \in Clients \ {k} : Cn(j) \in Qps \ {y} /\ Ac(j) \in Qps \ {y} /\ j # None
    BY <1>2, QpFacts, ConnectAssumption
  <2> QED BY <1>1, <1>2, <1>4, <2>1, <2>2 DEF Untouched
<1> QED BY <1>2, <1>6, <1>7, <1>8, Combine

(* async_accept keeps the invariant.                                       *)
LEMMA AcceptInv ==
  ASSUME ConnectInv, NEW k \in Clients, Accept(k)
  PROVE  ConnectInv'
<1>1. Types /\ WireType /\ ServerInv /\ ClientInv(k) BY Disassemble
<1>2. /\ apc = "accept" /\ ~closed[Ac(k)] /\ apc' = "recv" /\ cur' = k /\ cur = None
      /\ UNCHANGED <<ibv, handle, obj, psn, peer, nextPsn, pollers, wire, closed,
                     cpc, nullQp, checks, silent, faults>>
  BY <1>1 DEF Accept, qpVars, netVars, choices, ServerInv
<1>3. k # None /\ \A j \in Clients : j # None BY ConnectAssumption
<1>4. Types' /\ WireType' /\ ServerInv'
  BY <1>1, <1>2, <1>3 DEF Types, WireType, ServerInv
<1>5. ClientInv(k)'
  BY <1>1, <1>2, <1>3 DEF ClientInv, AddressesOf, ConnectorInv, AcceptorInv,
     Served, Ready, Serialize, Address
<1>6. \A j \in Clients \ {k} : Untouched(j)
  BY <1>2, <1>3 DEF Untouched
<1> QED BY <1>4, <1>5, <1>6, Combine

(* A recv_qp that fails keeps it.                                          *)
LEMMA RecvFailsInv ==
  ASSUME ConnectInv, RecvFails
  PROVE  ConnectInv'
<1>1. Types BY Disassemble
<1>2. PICK k \in Clients : cur = k BY Serving DEF RecvFails
<1>3. ClientInv(k) BY Disassemble
<1>4. /\ apc = "recv" /\ Leave(TRUE) /\ UNCHANGED <<peer, wire, cpc, choices>>
      /\ UNCHANGED <<ibv, handle, obj, psn, nextPsn, pollers>>
  BY DEF RecvFails, qpVars
<1>5. ~Ready(k) /\ wire[Cn(k)] = None
  BY <1>2, <1>3, <1>4 DEF ClientInv, AcceptorInv, Served, Ready
<1>6. /\ faults' = faults \/ faults' = faults \cup {k}
      /\ k \in faults'
  <2>1. Ac(k)[2] = k /\ Other(Ac(k)) = Cn(k) BY QpFacts
  <2> QED BY <1>2, <1>4, <1>5, <2>1, Serving DEF RecvFails, SocketFails, Fault
<1>7. ibv[Ac(k)] # "RTS" BY <1>5 DEF Ready
<1> QED BY <1>1, <1>2, <1>4, <1>5, <1>6, <1>7, LeaveInv DEF Types

(* The acceptor's answer keeps it: its QP, in RTS or lost on the way there,*)
(* is made once and given the address that is on the wire.                 *)
LEMMA AnswerQpInv ==
  ASSUME ConnectInv, AnswerQp
  PROVE  ConnectInv'
<1>1. Types /\ WireType /\ ServerInv /\ TypeOK BY Disassemble DEF ConnectInv
<1>2. PICK k \in Clients : cur = k BY Serving DEF AnswerQp
<1> DEFINE x == Cn(k)
           y == Ac(k)
<1>3. ClientInv(k) BY Disassemble
<1>4. /\ apc = "recv" /\ wire[y] # None
      /\ UNCHANGED <<wire, cpc, choices, checks, silent>>
  BY <1>2 DEF AnswerQp, choices
<1>5. /\ x \in Qps /\ y \in Qps /\ x # y /\ y[2] = k
  BY QpFacts
<1>6. /\ ~Ready(k) /\ wire[x] = None /\ peer[x] = None
      /\ ibv[y] = "none" /\ obj[y] = "none" /\ peer[y] = None /\ ~closed[y]
  BY <1>2, <1>3, <1>4 DEF ClientInv, AcceptorInv, Served, Ready
<1>7. CASE /\ Fault(cur) /\ Leave(TRUE)
           /\ \E n \in 0..2 : pollers' = [pollers EXCEPT ![y] = n]
           /\ UNCHANGED <<ibv, handle, obj, psn, peer, nextPsn>>
  <2>1. pollers' \in [Qps -> 0..2] BY <1>1, <1>5, <1>7 DEF Types
  <2>2. faults' = faults \cup {k} BY <1>2, <1>7 DEF Fault
  <2> QED BY <1>1, <1>2, <1>4, <1>6, <1>7, <2>1, <2>2, LeaveInv DEF Types
<1>8. ASSUME NEW s \in {"RESET", "INIT", "RTR"}, TakePsn(y),
             pollers' = [pollers EXCEPT ![y] = 2],
             TransitionFails(y, s), Leave(TRUE), UNCHANGED peer
      PROVE  ConnectInv'
  <2>1. /\ faults' = faults \cup {k} /\ handle' = [handle EXCEPT ![y] = FALSE]
        /\ ibv' = [ibv EXCEPT ![y] = s]
        /\ obj' = [obj EXCEPT ![y] = IF s = "RESET" THEN "none" ELSE "dead"]
    BY <1>5, <1>8, TransitionFacts
  <2>2. /\ psn' \in [Qps -> 0..PsnMod-1] /\ nextPsn' \in [Sides -> 0..PsnMod-1]
        /\ \A z \in Qps \ {y} : psn'[z] = psn[z]
    BY <1>1, <1>5, <1>8, TakePsnFacts
  <2>3. /\ pollers' \in [Qps -> 0..2]
        /\ ibv' \in [Qps -> {"none", "RESET", "INIT", "RTR", "RTS", "ERR", "gone"}]
        /\ obj' \in [Qps -> {"none", "alive", "dead"}]
    BY <1>1, <1>5, <1>8, <2>1 DEF Types
  <2>4. handle' \in [Qps -> BOOLEAN] BY <1>1, <1>5, <2>1 DEF Types
  <2>5. \A z \in Qps \ {y} :
          ibv'[z] = ibv[z] /\ handle'[z] = handle[z] /\ obj'[z] = obj[z]
    BY <1>1, <1>5, <2>1 DEF Types
  <2>6. ibv'[y] # "none" /\ ibv'[y] # "RTS" BY <1>1, <1>5, <2>1 DEF Types
  <2> HIDE DEF x, y
  <2> QED BY <1>2, <1>4, <1>6, <1>8, <2>1, <2>2, <2>3, <2>4, <2>5, <2>6, LeaveInv
          DEF x, y
<1>9. ASSUME TakePsn(y), pollers' = [pollers EXCEPT ![y] = 2],
             ToRts(y, Deserialize(wire[y])), apc' = "send",
             UNCHANGED <<cur, closed, nullQp, faults>>
      PROVE  ConnectInv'
  <2>1. /\ Deserialize(wire[y]) = Address(x) /\ ibv[x] # "none"
        /\ Address(x) \in Headers /\ Address(x) # None
    BY <1>1, <1>3, <1>4, <1>5, AddressFacts DEF ClientInv, AddressesOf
  <2>2. /\ ibv' = [ibv EXCEPT ![y] = "RTS"] /\ handle' = [handle EXCEPT ![y] = TRUE]
        /\ obj' = [obj EXCEPT ![y] = "alive"] /\ peer' = [peer EXCEPT ![y] = Address(x)]
    BY <1>9, <2>1 DEF ToRts
  <2>3. /\ psn' \in [Qps -> 0..PsnMod-1] /\ nextPsn' \in [Sides -> 0..PsnMod-1]
        /\ \A z \in Qps \ {y} : psn'[z] = psn[z]
    BY <1>1, <1>5, <1>9, TakePsnFacts
  <2> HIDE DEF x, y
  <2>4. Types' /\ WireType' /\ ServerInv'
    <3>1. /\ ibv' \in [Qps -> {"none", "RESET", "INIT", "RTR", "RTS", "ERR", "gone"}]
          /\ obj' \in [Qps -> {"none", "alive", "dead"}]
          /\ handle' \in [Qps -> BOOLEAN]
      BY <1>1, <1>5, <2>2 DEF Types
    <3>2. peer' \in [Qps -> Headers \cup {None}] /\ pollers' \in [Qps -> 0..2]
      BY <1>1, <1>5, <1>9, <2>1, <2>2 DEF Types
    <3> QED BY <1>1, <1>4, <1>9, <2>3, <3>1, <3>2 DEF Types, WireType, ServerInv
  <2>5. /\ \A z \in Qps \ {y} : /\ ibv'[z] = ibv[z] /\ handle'[z] = handle[z]
                                /\ obj'[z] = obj[z] /\ peer'[z] = peer[z]
        /\ ibv'[y] = "RTS" /\ handle'[y] /\ obj'[y] = "alive" /\ peer'[y] = Address(x)
    BY <1>1, <1>5, <2>2 DEF Types
  <2>6. ClientInv(k)'
    <3>1. Address(x)' = Address(x) /\ Serialize(x)' = Serialize(x)
      BY <1>5, <2>3 DEF Address, Serialize
    <3>2. AddressesOf(k)'
      BY <1>3, <1>4, <1>5, <1>6, <2>1, <2>5, <3>1 DEF ClientInv, AddressesOf, x, y
    <3>3. ConnectorInv(k)'
      BY <1>3, <1>4, <1>5, <1>9, <2>5, <1>2 DEF ClientInv, ConnectorInv, x, y
    <3>4. AcceptorInv(k)'
      BY <1>2, <1>3, <1>4, <1>5, <1>6, <1>9, <2>5
         DEF ClientInv, AcceptorInv, Served, Ready, x, y
    <3> QED BY <3>2, <3>3, <3>4 DEF ClientInv
  <2>7. \A j \in Clients \ {k} : Untouched(j)
    <3>1. \A j \in Clients \ {k} : Cn(j) \in Qps \ {y} /\ Ac(j) \in Qps \ {y}
      BY QpFacts DEF y
    <3> QED BY <1>2, <1>4, <1>9, <2>3, <2>5, <3>1 DEF Untouched
  <2> QED BY <2>4, <2>6, <2>7, Combine
<1> QED
  <2>1. CASE /\ Fault(cur) /\ \E n \in 0..1 : pollers' = [pollers EXCEPT ![y] = n]
             /\ Leave(TRUE) /\ UNCHANGED <<ibv, handle, obj, psn, peer, nextPsn>>
    <3>1. PICK n \in 0..1 : pollers' = [pollers EXCEPT ![y] = n] BY <2>1
    <3>2. n \in 0..2 OBVIOUS
    <3> QED BY <1>7, <2>1, <3>1, <3>2
  <2>2. CASE /\ pollers' = [pollers EXCEPT ![y] = 2]
             /\ CreateFails(y) /\ Leave(TRUE)
    BY <1>2, <1>5, <1>7, <2>2 DEF CreateFails
  <2> QED BY <1>2, <1>8, <1>9, <2>1, <2>2 DEF AnswerQp

(* The acceptor's send_qp keeps it: the answer holds the address of the QP *)
(* that is ready; when the client has gone, its connection has failed.     *)
LEMMA SendAnswerInv ==
  ASSUME ConnectInv, SendAnswer
  PROVE  ConnectInv'
<1>1. Types /\ WireType /\ ServerInv /\ TypeOK BY Disassemble DEF ConnectInv
<1>2. PICK k \in Clients : cur = k BY Serving DEF SendAnswer
<1> DEFINE x == Cn(k)
           y == Ac(k)
<1>3. ClientInv(k) BY Disassemble
<1>4. /\ apc = "send"
      /\ UNCHANGED <<handle, psn, peer, nextPsn, pollers, cpc, choices>>
      /\ UNCHANGED <<checks, silent>>
  BY DEF SendAnswer, choices
<1>5. /\ x \in Qps /\ y \in Qps /\ x # y /\ Other(y) = x
  BY QpFacts
<1>6. /\ ibv[y] = "RTS" /\ wire[x] = None /\ handle[y] /\ obj[y] = "alive"
      /\ peer[y] # None /\ ~closed[y]
      /\ closed[x] => k \in faults
  <2>1. ibv[y] = "RTS" /\ wire[x] = None /\ ~closed[y]
    BY <1>2, <1>3, <1>4 DEF ClientInv, AcceptorInv
  <2> QED BY <1>2, <1>3, <1>4, <2>1, Serving DEF ClientInv, AddressesOf
<1>7. CASE /\ Fault(k) \/ (closed[x] /\ UNCHANGED faults)
           /\ DestroyQp(y) /\ Leave(TRUE) /\ UNCHANGED wire
  <2>1. /\ faults' = faults \/ faults' = faults \cup {k}
        /\ k \in faults'
    BY <1>6, <1>7 DEF Fault
  <2>2. obj' = [obj EXCEPT ![y] = "dead"] BY <1>7 DEF DestroyQp
  <2>3. PICK t \in {"none", "RESET", "INIT", "RTR", "RTS", "ERR", "gone"} :
          /\ ibv' = [ibv EXCEPT ![y] = t]
          /\ t = "none" => ibv[y] = "none"
          /\ t = "RTS" => ibv[y] = "RTS" /\ ~handle[y]
    BY <1>1, <1>5, <1>7, DestroyFacts
  <2>4. t # "none" /\ t # "RTS" BY <1>6, <2>3
  <2>5. /\ ibv' \in [Qps -> {"none", "RESET", "INIT", "RTR", "RTS", "ERR", "gone"}]
        /\ \A z \in Qps \ {y} : ibv'[z] = ibv[z]
        /\ ibv'[y] = t
    BY <1>1, <1>5, <2>3 DEF Types
  <2>6. /\ obj' \in [Qps -> {"none", "alive", "dead"}]
        /\ \A z \in Qps \ {y} : obj'[z] = obj[z]
        /\ obj'[y] = "dead"
    BY <1>1, <1>5, <2>2 DEF Types
  <2> QED BY <1>1, <1>2, <1>4, <1>7, <2>1, <2>4, <2>5, <2>6, LeaveInv DEF Types
<1>8. CASE /\ Write(y) /\ apc' = "return"
           /\ UNCHANGED <<ibv, obj, closed, cur, nullQp, faults>>
  <2>1. /\ \A z \in Qps \ {x} : wire'[z] = wire[z]
        /\ wire'[x] # None \/ k \in faults'
        /\ wire'[x] # None => wire'[x] = Serialize(y)
        /\ WireType'
    <3>1. Serialize(y) \in Packets BY <1>1, <1>5, AddressFacts
    <3>2. CASE closed[x] BY <1>1, <1>5, <1>6, <1>8, <3>2 DEF Write, WireType
    <3>3. CASE ~closed[x]
      <4>1. wire' = [wire EXCEPT ![x] = Serialize(y)] BY <1>5, <1>8, <3>3 DEF Write
      <4>2. Serialize(y) # None BY <3>1, NoneAssumption
      <4> HIDE DEF x, y
      <4> QED BY <1>1, <1>5, <3>1, <4>1, <4>2 DEF WireType
    <3> QED BY <3>2, <3>3
  <2>2. Types' /\ ServerInv'
    BY <1>1, <1>2, <1>4, <1>8 DEF Types, ServerInv
  <2>3. Ready(k)' /\ Ready(k) BY <1>6, <1>8 DEF Ready
  <2>4. Serialize(y)' = Serialize(y) /\ Serialize(x)' = Serialize(x)
        /\ Address(y)' = Address(y) /\ Address(x)' = Address(x)
    BY <1>4 DEF Serialize, Address
  <2>5. ClientInv(k)'
    <3>1. AddressesOf(k)'
      BY <1>3, <1>4, <1>5, <1>6, <1>8, <2>1, <2>4 DEF ClientInv, AddressesOf
    <3>2. ConnectorInv(k)'
      BY <1>2, <1>3, <1>4, <1>5, <1>6, <1>8, <2>1 DEF ClientInv, ConnectorInv
    <3>3. AcceptorInv(k)'
      BY <1>2, <1>3, <1>4, <1>6, <1>8, <2>1, <2>3 DEF ClientInv, AcceptorInv, Served
    <3> QED BY <3>1, <3>2, <3>3 DEF ClientInv
  <2>6. \A j \in Clients \ {k} : Untouched(j)
    <3>1. \A j \in Clients \ {k} : Cn(j) \in Qps \ {x} /\ Ac(j) \in Qps \ {x}
      BY QpFacts
    <3> QED BY <1>2, <1>4, <1>8, <2>1, <3>1 DEF Untouched
  <2> QED BY <2>1, <2>2, <2>5, <2>6, Combine
<1> QED BY <1>2, <1>7, <1>8 DEF SendAnswer

(* accept() returning the QP keeps it.                                     *)
LEMMA ReturnQpInv ==
  ASSUME ConnectInv, ReturnQp
  PROVE  ConnectInv'
<1>1. Types BY Disassemble
<1>2. PICK k \in Clients : cur = k BY Serving DEF ReturnQp
<1>3. ClientInv(k) BY Disassemble
<1>4. /\ apc = "return" /\ Leave(FALSE) /\ UNCHANGED <<peer, wire, cpc, choices>>
      /\ UNCHANGED <<ibv, handle, obj, psn, nextPsn, pollers, faults>>
  BY DEF ReturnQp, qpVars
<1>5. /\ ibv[Ac(k)] = "RTS"
      /\ wire[Cn(k)] # None \/ k \in faults
      /\ obj[Ac(k)] = "alive" /\ handle[Ac(k)]
  BY <1>2, <1>3, <1>4 DEF ClientInv, AcceptorInv, AddressesOf
<1> QED BY <1>1, <1>2, <1>4, <1>5, LeaveInv DEF Types

(* The server dying keeps it.                                              *)
LEMMA CrashInv ==
  ASSUME ConnectInv, Crash
  PROVE  ConnectInv'
<1>1. Types /\ WireType /\ ServerInv BY Disassemble
<1>2. /\ nullQp /\ apc' = "down" /\ cur' = None
      /\ UNCHANGED <<handle, psn, peer, nextPsn, wire, cpc, nullQp, checks, silent, faults>>
  BY DEF Crash, choices
<1>3. /\ closed' = [z \in Qps |-> closed[z] \/ z[1] = "acceptor"]
      /\ ibv' = [z \in Qps |-> IF z[1] = "acceptor" /\ ibv[z] # "none" THEN "gone" ELSE ibv[z]]
      /\ obj' = [z \in Qps |-> IF z[1] = "acceptor" /\ obj[z] # "none" THEN "dead" ELSE obj[z]]
      /\ pollers' = [z \in Qps |-> IF z[1] = "acceptor" THEN 0 ELSE pollers[z]]
  BY DEF Crash
<1>4. Types' /\ WireType' /\ ServerInv'
  <2>1. /\ ibv' \in [Qps -> {"none", "RESET", "INIT", "RTR", "RTS", "ERR", "gone"}]
        /\ obj' \in [Qps -> {"none", "alive", "dead"}]
    BY <1>1, <1>3 DEF Types
  <2>2. closed' \in [Qps -> BOOLEAN] BY <1>1, <1>3, Zenon DEF Types
  <2>3. pollers' \in [Qps -> 0..2] BY <1>1, <1>3 DEF Types
  <2> QED BY <1>1, <1>2, <2>1, <2>2, <2>3 DEF Types, WireType, ServerInv
<1>5. ASSUME NEW k \in Clients PROVE ClientInv(k)'
  <2> DEFINE x == Cn(k)
             y == Ac(k)
  <2>1. /\ x \in Qps /\ y \in Qps /\ x[1] = "connector" /\ y[1] = "acceptor"
    BY QpFacts
  <2>2. ClientInv(k) /\ k # None BY Disassemble, ConnectAssumption
  <2>3. /\ ibv'[x] = ibv[x] /\ obj'[x] = obj[x] /\ closed'[x] = closed[x]
        /\ closed'[y]
        /\ ibv'[y] = (IF ibv[y] # "none" THEN "gone" ELSE "none")
        /\ obj'[y] = (IF obj[y] # "none" THEN "dead" ELSE "none")
    BY <1>1, <1>3, <2>1 DEF Types
  <2>4. AddressesOf(k)'
    BY <1>2, <2>2, <2>3 DEF ClientInv, AddressesOf, Serialize, Address
  <2>5. ConnectorInv(k)'
    BY <1>2, <2>2, <2>3 DEF ClientInv, ConnectorInv
  <2>6. Ready(k) => Ready(k)'
    BY <1>2, <2>2, <2>3 DEF ClientInv, AddressesOf, Ready
  <2>7. AcceptorInv(k)'
    BY <1>2, <2>2, <2>3, <2>6 DEF ClientInv, AcceptorInv, Served
  <2> QED BY <2>4, <2>5, <2>7 DEF ClientInv
<1>6. ClientsInv' BY <1>5 DEF ClientsInv
<1> QED BY <1>4, <1>6, Assemble, PTL

(* Dropping a QP that was handed out keeps it.                             *)
LEMMA DropInv ==
  ASSUME ConnectInv, NEW z \in Qps, Drop(z)
  PROVE  ConnectInv'
<1>1. Types /\ WireType /\ ServerInv BY Disassemble
<1>2. PICK k \in Clients : z = Cn(k) \/ z = Ac(k) BY QpFacts
<1> DEFINE x == Cn(k)
           y == Ac(k)
<1>3. ClientInv(k) BY Disassemble
<1>4. /\ obj[z] = "alive" /\ obj' = [obj EXCEPT ![z] = "dead"]
      /\ UNCHANGED <<handle, psn, peer, nextPsn, pollers, wire, closed, cpc,
                     apc, cur, nullQp, checks, silent, faults>>
  BY DEF Drop, DestroyQp, netVars, server, choices
<1>5. PICK t \in {"none", "RESET", "INIT", "RTR", "RTS", "ERR", "gone"} :
        /\ ibv' = [ibv EXCEPT ![z] = t]
        /\ t = "none" => ibv[z] = "none"
        /\ t = "RTS" => ibv[z] = "RTS" /\ ~handle[z]
  BY <1>1, DestroyFacts DEF Drop
<1>6. x \in Qps /\ y \in Qps /\ x # y BY QpFacts
<1>7. t # "RTS" BY <1>2, <1>3, <1>5 DEF ClientInv, AddressesOf
<1>8. Types' /\ WireType' /\ ServerInv'
  <2>1. ibv' \in [Qps -> {"none", "RESET", "INIT", "RTR", "RTS", "ERR", "gone"}]
    BY <1>1, <1>5 DEF Types
  <2>2. obj' \in [Qps -> {"none", "alive", "dead"}]
    BY <1>1, <1>4 DEF Types
  <2> QED BY <1>1, <1>4, <2>1, <2>2 DEF Types, WireType, ServerInv
<1>9. /\ \A w \in Qps \ {z} : ibv'[w] = ibv[w] /\ obj'[w] = obj[w]
      /\ ibv'[z] = t /\ obj'[z] = "dead"
  BY <1>1, <1>4, <1>5 DEF Types
<1>10. ClientInv(k)'
  <2>1. \A w \in {x, y} : /\ ibv'[w] = "none" => ibv[w] = "none"
                          /\ ibv'[w] = "RTS" => ibv[w] = "RTS" /\ obj'[w] = obj[w]
    BY <1>2, <1>5, <1>6, <1>7, <1>9
  <2>2. AddressesOf(k)'
    BY <1>3, <1>4, <2>1 DEF ClientInv, AddressesOf, Serialize, Address
  <2>3. cpc[k] \in {"start", "queued"} => ibv'[x] = ibv[x]
    BY <1>2, <1>6, <1>9 DEF Drop, HandedOut, Cn
  <2>4. ConnectorInv(k)'
    BY <1>3, <1>4, <2>1, <2>3 DEF ClientInv, ConnectorInv
  <2>5. CASE z = x
    BY <1>3, <1>4, <1>6, <1>9, <2>5, <2>4, <2>2 DEF ClientInv, AcceptorInv, Served, Ready
  <2>6. CASE z = y
    <3>1. closed[y] /\ cur # k
      BY <1>3, <2>6 DEF Drop, HandedOut, ClientInv, AcceptorInv, Ac
    <3>2. Ready(k) => Ready(k)'
      BY <1>3, <1>4, <1>9, <2>6 DEF Ready, ClientInv, AddressesOf
    <3> QED BY <1>3, <1>4, <1>6, <1>9, <2>4, <2>2, <3>1, <3>2
            DEF ClientInv, AcceptorInv, Served
  <2> QED BY <1>2, <2>5, <2>6
<1>11. \A j \in Clients \ {k} : Untouched(j)
  <2>1. \A j \in Clients \ {k} : Cn(j) \in Qps \ {z} /\ Ac(j) \in Qps \ {z}
    BY <1>2, QpFacts
  <2> QED BY <1>4, <1>9, <2>1 DEF Untouched
<1> QED BY <1>8, <1>10, <1>11, Combine

-----------------------------------------------------------------------------
(* The invariant of the handshake, and what follows from it.               *)

(* It holds before the first connection ...                                *)
LEMMA InitInv == Init => ConnectInv
<1> SUFFICES ASSUME Init PROVE ConnectInv OBVIOUS
<1>1. Types /\ WireType /\ ServerInv
  <2>1. 1 \in 0..PsnMod-1 /\ 0 \in 0..PsnMod-1 BY ConnectAssumption
  <2>2. handle \in [Qps -> BOOLEAN] /\ closed \in [Qps -> BOOLEAN]
    BY Zenon DEF Init
  <2>3. ibv \in [Qps -> {"none", "RESET", "INIT", "RTR", "RTS", "ERR", "gone"}]
    BY DEF Init
  <2>4. /\ obj \in [Qps -> {"none", "alive", "dead"}]
        /\ peer \in [Qps -> Headers \cup {None}]
        /\ WireType
    BY DEF Init, WireType
  <2>5. /\ psn \in [Qps -> 0..PsnMod-1] /\ nextPsn \in [Sides -> 0..PsnMod-1]
        /\ pollers \in [Qps -> 0..2]
    BY <2>1 DEF Init
  <2>6. cpc \in [Clients -> ConnectorStates] BY DEF Init, ConnectorStates
  <2>7. ServerInv BY DEF Init, ServerInv
  <2> QED BY <2>2, <2>3, <2>4, <2>5, <2>6, <2>7 DEF Init, Types
<1>2. ASSUME NEW k \in Clients PROVE ClientInv(k)
  <2>1. Cn(k) \in Qps /\ Ac(k) \in Qps /\ k # None BY QpFacts, ConnectAssumption
  <2> QED BY <2>1 DEF Init, ClientInv, AddressesOf, ConnectorInv, AcceptorInv, Served, Ready
<1>3. ClientsInv BY <1>2 DEF ClientsInv
<1> QED BY <1>1, <1>3, Assemble

(* ... a step that changes nothing keeps it ...                            *)
LEMMA StutterInv ==
  ASSUME ConnectInv, UNCHANGED vars
  PROVE  ConnectInv'
<1>1. Types /\ WireType /\ ServerInv /\ \A k \in Clients : ClientInv(k)
  BY Disassemble
<1>2. UNCHANGED <<ibv, handle, obj, psn, peer, nextPsn, pollers, wire, closed, cpc,
                  apc, cur, nullQp, checks, silent, faults>>
  BY DEF vars, qpVars, netVars, server, choices
<1>3. Types' /\ WireType' /\ ServerInv'
  BY <1>1, <1>2 DEF Types, WireType, ServerInv
<1>4. \A j \in Clients : Untouched(j) BY <1>2 DEF Untouched
<1>5. ClientsInv' BY <1>1, <1>4, KeepClient DEF ClientsInv
<1> QED BY <1>3, <1>5, Assemble, PTL

(* ... and so does every step of a connector, the acceptor or a user.      *)
LEMMA NextInv == ConnectInv /\ [Next]_vars => ConnectInv'
<1> SUFFICES ASSUME ConnectInv, [Next]_vars PROVE ConnectInv' OBVIOUS
<1>1. CASE UNCHANGED vars BY <1>1, StutterInv
<1>2. ASSUME NEW k \in Clients, ConnectorStep(k) PROVE ConnectInv'
  BY <1>2, DialInv, MakeQpInv, SendQpInv, RecvQpInv DEF ConnectorStep
<1>3. CASE AcceptorStep
  BY <1>3, AcceptInv, RecvFailsInv, AnswerQpInv, SendAnswerInv, ReturnQpInv, CrashInv
     DEF AcceptorStep
<1>4. ASSUME NEW x \in Qps, Drop(x) PROVE ConnectInv' BY <1>4, DropInv
<1>5. CASE AllServed BY <1>1, <1>5 DEF AllServed
<1> QED BY <1>1, <1>2, <1>3, <1>4, <1>5 DEF Next

(* The inductive invariant: for every set of clients, every width of       *)
(* sq_psn and with any pattern of failing verbs calls, sockets and a dying *)
(* server, addresses in flight are those of the QPs as they are, and each  *)
(* side of a connection is where the other believes it to be.              *)
THEOREM ConnectInvAlways == Spec => []ConnectInv
BY InitInv, NextInv, PTL DEF Spec

(* The variables keep their types; next_sq_psn wraps at its width.         *)
THEOREM TypeOKAlways == Spec => []TypeOK
<1>1. ConnectInv => TypeOK BY DEF ConnectInv
<1> QED BY <1>1, ConnectInvAlways, PTL

(* A QP in RTS is connected to the QP made for the same TCP connection,    *)
(* with the packet number that one starts with: rtr (src/qp.cc) is never   *)
(* given a stale or a foreign address.                                     *)
THEOREM PairedAlways == Spec => []Paired
<1>1. ConnectInv => Paired BY DEF ConnectInv, AddressesInv, Paired
<1> QED BY <1>1, ConnectInvAlways, PTL

(* When qp_connector::connect returns, the acceptor's QP can receive.      *)
THEOREM AcceptorReadyFirstAlways == Spec => []AcceptorReadyFirst
<1>1. ConnectInv => AcceptorReadyFirst
  BY DEF ConnectInv, ConnectorInv, AcceptorInv, Ready, AcceptorReadyFirst
<1> QED BY <1>1, ConnectInvAlways, PTL

(* A connect() fails through its own connection only, unless the server    *)
(* used what a failed accept() returned.                                   *)
THEOREM FailsAloneAlways == Spec => []FailsAlone
<1>1. ConnectInv => FailsAlone
  BY DEF ConnectInv, ConnectorInv, ServerInv, FailsAlone
<1> QED BY <1>1, ConnectInvAlways, PTL
=============================================================================
