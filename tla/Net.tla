-------------------------------- MODULE Net ---------------------------------
(***************************************************************************)
(* Sockets, kernel/src/net/net.c, over the IP layer,                       *)
(* kernel/src/core/drivers/net/ip.c: the pool of sockets, the queue of     *)
(* received packets and the table of TCP connections.                      *)
(*                                                                         *)
(* The users of the sockets are FdTable (system calls) and WebClients      *)
(* (HTTP, HTTPS, DNS); the calls they make are operators on the pool here, *)
(* because a call of theirs makes several of these.  A packet keeps what   *)
(* ip_receive_packet looks at.  Its address is lost on the way up: every   *)
(* queued packet is from and to 0.0.0.0:0, so the queue is a number.       *)
(***************************************************************************)
EXTENDS Integers, FiniteSets

CONSTANTS
  NET_MAX_SOCKETS,     \* sockets, and packets that can be queued
  MAX_IP_CONNECTIONS,
  Peers,               \* remote address and port, with the local port
  Handles              \* kernel code that uses sockets directly, one each

ASSUME NetAssumption ==
  /\ NET_MAX_SOCKETS \in Nat \ {0} /\ MAX_IP_CONNECTIONS \in Nat
  /\ IsFiniteSet(Peers) /\ "nobody" \notin Peers

VARIABLES
  pool,    \* socket_pool
  queued,  \* packet_queue_count
  conns,   \* ip_connections
  handles  \* the socket each direct user has

netVars == <<pool, queued, conns, handles>>

Slots == 0..(NET_MAX_SOCKETS - 1)
NoSlot == -1
Conns == 1..MAX_IP_CONNECTIONS
Types == {"TCP", "UDP", "RAW"}

(* A socket after memset: type 0 is SOCKET_TCP.  pdata: protocol_data.     *)
Zeroed == [fd |-> 0, type |-> "TCP", state |-> "CLOSED", pdata |-> FALSE, bound |-> FALSE]

NetInit ==
  /\ pool = [i \in Slots |-> Zeroed]
  /\ queued = 0
  /\ conns = [c \in Conns |-> [state |-> "CLOSED", peer |-> "nobody"]]
  /\ handles = [h \in Handles |-> NoSlot]

First(S) == CHOOSE i \in S : \A j \in S : i <= j

----------------------------------------------------------------------------
(* Calls on a pool p.                                                      *)

(* A socket that was created is still CLOSED: until it is connected, or    *)
(* listens, the same one is found again.                                   *)
allocate_socket_fd(p) ==
  LET free == {i \in Slots : p[i].state = "CLOSED"}
  IN IF free = {} THEN NoSlot ELSE First(free)

(* mem: malloc works for the TCP data.                                     *)
net_socket_create(p, type, mem) ==
  LET i == allocate_socket_fd(p)
  IN IF i = NoSlot THEN [pool |-> p, fd |-> NoSlot]
     ELSE IF type = "TCP" /\ ~mem THEN [pool |-> [p EXCEPT ![i] = Zeroed], fd |-> NoSlot]
     ELSE [pool |-> [p EXCEPT ![i].fd = i, ![i].type = type,
                              ![i].pdata = @ \/ type = "TCP"], fd |-> i]

(* Only a TCP socket can connect; that the SYN could not be sent does not  *)
(* change the state again.  No code ever makes a socket ESTABLISHED.       *)
net_socket_connect(p, i) ==
  IF i \in Slots /\ p[i].type = "TCP" THEN [p EXCEPT ![i].state = "SYN_SENT"] ELSE p

Connects(p, i, sent) == i \in Slots /\ p[i].type = "TCP" /\ sent

net_socket_send(p, i) == i \in Slots /\ p[i].state = "ESTABLISHED"

(* A packet is for whoever is bound to 0.0.0.0:0, the address of a socket  *)
(* that was never bound.                                                   *)
net_socket_receive(p, i) == i \in Slots /\ queued > 0 /\ ~p[i].bound

net_socket_close(p, i) == IF i \in Slots THEN [p EXCEPT ![i] = Zeroed] ELSE p

----------------------------------------------------------------------------
(* Packets.                                                                *)

find_connection_never(peer) == {}

find_connection(peer) == {c \in Conns : conns[c].state # "CLOSED" /\ conns[c].peer = peer}

allocate_connection == {c \in Conns : conns[c].state = "CLOSED"}

(* A TCP segment for connection c.  One that does not start a connection   *)
(* leaves a new entry without a peer, in LISTEN or as the flags say.       *)
Segment(c, peer, flags) ==
  LET old == IF conns[c].state = "CLOSED" THEN [conns[c] EXCEPT !.state = "LISTEN"] ELSE conns[c]
  IN CASE flags = "SYN" -> [state |-> "SYN_RECEIVED", peer |-> peer]
       [] flags = "ACK" -> [old EXCEPT !.state = "ESTABLISHED"]
       [] flags = "FIN-ACK" -> [old EXCEPT !.state = "CLOSE_WAIT"]
       [] OTHER -> old

TcpReceive(peer, flags) ==
  LET known == find_connection(peer)
      free == allocate_connection
      c == First(IF known # {} THEN known ELSE free)
  IN IF known = {} /\ free = {} THEN UNCHANGED conns
     ELSE conns' = [conns EXCEPT ![c] = Segment(c, peer, flags)]

(* net_process_packets, one round.  up: the packet is passed on, which     *)
(* needs memory for its data and, for a SYN or an echo, for the reply; a   *)
(* packet that finds the queue full is dropped.                            *)
Enqueue(up) == queued' = IF up /\ queued < NET_MAX_SOCKETS THEN queued + 1 ELSE queued

net_process_packets(protocol, peer, flags, mem) ==
  /\ IF protocol = "TCP" THEN TcpReceive(peer, flags) ELSE UNCHANGED conns
  /\ Enqueue(/\ mem /\ protocol \in {"TCP", "UDP", "ICMP"}
             /\ protocol = "TCP" => find_connection(peer) \cup allocate_connection # {})
  /\ UNCHANGED <<pool, handles>>

----------------------------------------------------------------------------
(* A RST stands for any other segment, UDP for ICMP too, and "other" for   *)
(* every packet that is not passed on.                                     *)
TcpPacket ==
  \E peer \in Peers, flags \in {"SYN", "ACK", "FIN-ACK", "RST"}, mem \in BOOLEAN :
    net_process_packets("TCP", peer, flags, mem)

OtherPacket ==
  \E protocol \in {"UDP", "other"} : net_process_packets(protocol, "nobody", "none", TRUE)

(* The calls of a direct user.                                             *)

Create(h, type, mem) ==
  LET r == net_socket_create(pool, type, mem)
  IN /\ handles[h] = NoSlot
     /\ pool' = r.pool /\ handles' = [handles EXCEPT ![h] = r.fd]
     /\ UNCHANGED <<queued, conns>>

net_socket_bind(h) ==
  /\ handles[h] # NoSlot
  /\ pool' = [pool EXCEPT ![handles[h]].bound = TRUE]
  /\ UNCHANGED <<queued, conns, handles>>

net_socket_listen(h) ==
  /\ handles[h] # NoSlot /\ pool[handles[h]].type = "TCP"
  /\ pool' = [pool EXCEPT ![handles[h]].state = "LISTEN"]
  /\ UNCHANGED <<queued, conns, handles>>

(* Takes the first packet for this port as the SYN; its data is not freed. *)
net_socket_accept(h, new, mem) ==
  LET i == handles[h]
      r == net_socket_create(pool, "TCP", mem)
  IN /\ i # NoSlot /\ handles[new] = NoSlot
     /\ pool[i].state = "LISTEN" /\ queued > 0 /\ ~pool[i].bound
     /\ IF r.fd = NoSlot THEN pool' = r.pool /\ UNCHANGED <<queued, handles>>
        ELSE /\ pool' = [r.pool EXCEPT ![r.fd].state = "SYN_RECEIVED", ![r.fd].bound = FALSE]
             /\ queued' = queued - 1
             /\ handles' = [handles EXCEPT ![new] = r.fd]
     /\ UNCHANGED conns

Receive(h) ==
  /\ net_socket_receive(pool, handles[h])
  /\ queued' = queued - 1
  /\ UNCHANGED <<pool, conns, handles>>

Close(h) ==
  /\ handles[h] # NoSlot
  /\ pool' = net_socket_close(pool, handles[h])
  /\ handles' = [handles EXCEPT ![h] = NoSlot]
  /\ UNCHANGED <<queued, conns>>

----------------------------------------------------------------------------
NetTypeOK ==
  /\ pool \in [Slots -> [fd : Slots, type : Types, pdata : BOOLEAN, bound : BOOLEAN,
                         state : {"CLOSED", "LISTEN", "SYN_SENT", "SYN_RECEIVED"}]]
  /\ queued \in 0..NET_MAX_SOCKETS
  /\ handles \in [Handles -> Slots \cup {NoSlot}]
  /\ conns \in [Conns -> [state : {"CLOSED", "LISTEN", "SYN_RECEIVED", "ESTABLISHED", "CLOSE_WAIT"},
                          peer : Peers \cup {"nobody"}]]

(* However segments arrive, repeated and out of order, a peer has at most  *)
(* one entry in the connection table, so find_connection is unambiguous.   *)
TuplesUnique ==
  \A c, d \in Conns :
    conns[c].peer # "nobody" /\ conns[c].peer = conns[d].peer => c = d
=============================================================================
