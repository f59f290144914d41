--------------------------- MODULE NetworkProofs ----------------------------
(***************************************************************************)
(* Sockets, descriptors and the clients in the kernel, for every size of   *)
(* every table and every set of users.                                     *)
(*                                                                         *)
(* TuplesUnique needs that a free connection has no peer; the properties   *)
(* of descriptors need that a pipe's or socket's descriptor points to a    *)
(* pipe or socket; SlotsOwned, that the socket a client or a handle holds  *)
(* is its own, carries its number and is no socket allocate_socket_fd can  *)
(* find without the model noting it, and that of a descriptor that its     *)
(* memory has not been freed (NoDangling).                                 *)
(***************************************************************************)
EXTENDS MCNetwork, FiniteSetTheorems, TLAPS

----------------------------------------------------------------------------
(* The connection table.                                                   *)

NetInv ==
  /\ NetTypeOK /\ TuplesUnique
  /\ \A c \in Conns : conns[c].state = "CLOSED" => conns[c].peer = "nobody"

----------------------------------------------------------------------------
(* Descriptors.                                                            *)

Entries ==
  {e \in [open : BOOLEAN, type : {"FILE", "PIPE", "SOCKET"}, ref : Nat,
          obj : Pipes \cup Socks \cup {None}, off : 0..(MaxFile + MaxCount - 1)] :
     /\ e.open <=> e.ref > 0
     /\ e.type = "PIPE" => e.obj \in Pipes
     /\ e.type = "SOCKET" => e.obj \in Socks}

(* The ring of a pipe, with the positions in step with what is in it.      *)
PipeStates ==
  {r \in [read : 0..(BufferSize - 1), write : 0..(BufferSize - 1), data : 0..BufferSize] :
     r.write = (r.read + r.data) % BufferSize}

Memories == {"live", "left", "gone"}
FdTroubles == {"dup", "lost", "alias", "twice", "wild"}

FdBooks ==
  /\ fd_table \in [Fds -> Entries] /\ pipe \in [Pipes -> PipeStates]
  /\ sock \in [Socks -> Slots \cup {NoSlot}] /\ memory \in [Objects -> Memories]
  /\ size \in FileSize..MaxFile /\ procs \in 0..MaxProcs
  /\ fdTrouble \subseteq FdTroubles

FdInv == FdBooks /\ RefsBounded /\ NoOrphans /\ NoDangling

----------------------------------------------------------------------------
(* Clients.                                                                *)

ClientStates == [live : BOOLEAN, user : BOOLEAN, ctx : BOOLEAN, connected : BOOLEAN,
                 sock : Slots \cup {NoSlot}]

WebBooks ==
  /\ up \subseteq {"http", "https", "tls"} /\ webTrouble \subseteq {"lost"}
  /\ active_clients \in [Places -> Clients \cup {"none"}] /\ client_count \in Nat
  /\ client \in [Clients -> ClientStates]
  /\ num_dns_servers \in 0..MAX_DNS_SERVERS

WebInv == WebBooks /\ TableLive

----------------------------------------------------------------------------
(* Who has which socket.                                                   *)

(* The handle of a net_socket that is in use.                              *)
held == [s \in Socks |-> IF memory[s] = "live" THEN sock[s] ELSE NoSlot]

(* Only one kind of users moves.                                           *)
Apart ==
  /\ focus \in {"pipes", "sockets", "clients", "segments"}
  /\ focus # "clients" => /\ \A c \in Clients : ~client[c].connected
                          /\ \A h \in Handles : handles[h] = NoSlot
  /\ focus \notin {"pipes", "sockets"} => \A s \in Socks : held[s] = NoSlot

InUse(i) == pool[i].state # "CLOSED" \/ pool[i].pdata

(* A socket in use has a user.                                             *)
HasUser ==
  \A i \in Slots : InUse(i) => \/ \E c \in Clients : client[c].connected /\ client[c].sock = i
                               \/ \E h \in Handles : handles[h] = i
                               \/ \E s \in Socks : held[s] = i

(* No two users have the same.                                             *)
OneUser ==
  /\ \A c, d \in Clients : client[c].connected /\ client[d].connected /\ client[c].sock = client[d].sock => c = d
  /\ \A h, k \in Handles : handles[h] = handles[k] /\ handles[h] # NoSlot => h = k
  /\ \A s, t \in Socks : held[s] = held[t] /\ held[s] # NoSlot => s = t
  /\ \A c \in Clients, h \in Handles : client[c].connected => client[c].sock # handles[h]

Connected ==
  \A c \in Clients : client[c].connected =>
    /\ ~client[c].ctx /\ client[c].sock \in Slots
    /\ pool[client[c].sock].state = "SYN_SENT" /\ pool[client[c].sock].fd = client[c].sock

Owned == HasUser /\ OneUser /\ Connected

(* A client that is used has memory; no HTTPS client has ever connected.   *)
Sane ==
  \A c \in Clients : /\ client[c].user \/ client[c].connected => client[c].live
                     /\ client[c].ctx => ~client[c].connected

(* Double frees of pipes leave the sockets alone.                          *)
Unshared == fdTrouble \subseteq {"twice", "wild"} /\ webTrouble = {}

OwnInv == Apart /\ Sane /\ (Unshared => Owned)

NetworkInv == NetInv /\ FdInv /\ WebInv /\ OwnInv

----------------------------------------------------------------------------
(* First is the least element.                                             *)
LEMMA FirstIs ==
  ASSUME NEW S, S \subseteq Nat, S # {}
  PROVE  First(S) \in S /\ \A j \in S : First(S) <= j
<1> DEFINE R == OpToRel(<, Nat)
<1>1. \A x, y \in Nat : x < y => <<x, y>> \in R
  BY DEF OpToRel
<1>2. IsWellFoundedOn(R, Nat)
  BY NatLessThanWellFounded
<1> HIDE DEF R
<1>3. PICK x \in S : \A y \in S : ~(<<y, x>> \in R)
  BY <1>2, WFMin
<1>4. \A y \in S : x <= y
  <2> TAKE y \in S
  <2>1. x \in Nat /\ y \in Nat
    OBVIOUS
  <2>2. ~(<<y, x>> \in R)
    BY <1>3
  <2>3. ~(y < x)
    BY <1>1, <2>1, <2>2
  <2> QED BY <2>1, <2>3
<1> QED BY <1>4 DEF First

----------------------------------------------------------------------------
(* The calls on the pool.                                                  *)

States == {"CLOSED", "LISTEN", "SYN_SENT", "SYN_RECEIVED"}
Sockets == [fd : Slots, type : Types, pdata : BOOLEAN, bound : BOOLEAN, state : States]
Pools == [Slots -> Sockets]

(* From pool p to pool q nothing changes but socket i.                     *)
Only(i, p, q) == \A j \in Slots : j # i => q[j] = p[j]

(* Slots are numbers; a zeroed socket is closed and holds nothing.         *)
LEMMA SlotsAre == Slots \subseteq Nat /\ 0 \in Slots /\ NoSlot \notin Slots /\ Zeroed \in Sockets
                  /\ Zeroed.state = "CLOSED" /\ Zeroed.pdata = FALSE
<1>1. Slots \subseteq Nat /\ 0 \in Slots /\ NoSlot \notin Slots
  BY NetAssumption DEF Slots, NoSlot
<1> QED BY <1>1 DEF Zeroed, Sockets, Types, States

(* allocate_socket_fd finds a closed socket, or none.                      *)
LEMMA AllocateIs ==
  ASSUME NEW p \in Pools
  PROVE  LET i == allocate_socket_fd(p)
         IN  i = NoSlot \/ (i \in Slots /\ p[i].state = "CLOSED")
<1> DEFINE free == {i \in Slots : p[i].state = "CLOSED"}
<1>1. CASE free = {}
  BY <1>1 DEF allocate_socket_fd
<1>2. CASE free # {}
  <2>1. free \subseteq Nat
    BY SlotsAre
  <2> HIDE DEF free
  <2>2. First(free) \in free
    BY <1>2, <2>1, FirstIs
  <2>3. allocate_socket_fd(p) = First(free)
    BY <1>2 DEF allocate_socket_fd, free
  <2> QED BY <2>2, <2>3 DEF free
<1> QED BY <1>1, <1>2

(* What net_socket_create does to the pool, succeeding or not.             *)
LEMMA CreateIs ==
  ASSUME NEW p \in Pools, NEW type \in Types, NEW mem \in BOOLEAN
  PROVE  LET i == allocate_socket_fd(p)
             r == net_socket_create(p, type, mem)
         IN  /\ r.pool \in Pools
             /\ r.fd = NoSlot =>
                  r.pool = p \/ (i \in Slots /\ p[i].state = "CLOSED" /\ r.pool = [p EXCEPT ![i] = Zeroed])
             /\ r.fd # NoSlot =>
                  /\ i \in Slots /\ r.fd = i /\ Only(i, p, r.pool) /\ p[i].state = "CLOSED"
                  /\ r.pool[i].state = "CLOSED" /\ r.pool[i].fd = i /\ r.pool[i].type = type
<1> DEFINE i == allocate_socket_fd(p)
           r == net_socket_create(p, type, mem)
           q == [p EXCEPT ![i].fd = i, ![i].type = type, ![i].pdata = @ \/ type = "TCP"]
<1>1. i = NoSlot \/ (i \in Slots /\ p[i].state = "CLOSED")
  BY AllocateIs
<1>2. r = IF i = NoSlot THEN [pool |-> p, fd |-> NoSlot]
          ELSE IF type = "TCP" /\ ~mem THEN [pool |-> [p EXCEPT ![i] = Zeroed], fd |-> NoSlot]
          ELSE [pool |-> q, fd |-> i]
  BY DEF net_socket_create
<1> HIDE DEF i, r
<1>3. CASE i = NoSlot
  <2>1. r.pool = p /\ r.fd = NoSlot
    BY <1>2, <1>3
  <2> QED BY <2>1 DEF i, r
<1>4. CASE i # NoSlot
  <2>1. i \in Slots /\ p[i].state = "CLOSED" /\ p[i] \in Sockets
    BY <1>1, <1>4 DEF Pools
  <2>2. [p EXCEPT ![i] = Zeroed] \in Pools
    BY <2>1, SlotsAre DEF Pools
  <2>3. /\ q[i] = [p[i] EXCEPT !.fd = i, !.type = type, !.pdata = p[i].pdata \/ type = "TCP"]
        /\ DOMAIN q = Slots /\ \A j \in Slots : j # i => q[j] = p[j]
        /\ q = [j \in Slots |-> q[j]]
    BY <2>1 DEF Pools, Sockets
  <2>4. q[i] \in Sockets /\ q[i].state = "CLOSED" /\ q[i].fd = i /\ q[i].type = type
    BY <2>1, <2>3 DEF Sockets
  <2> HIDE DEF q
  <2>5. q \in Pools
    <3>1. \A j \in Slots : q[j] \in Sockets
      BY <2>3, <2>4 DEF Pools
    <3> QED BY <2>3, <3>1 DEF Pools
  <2>6. CASE type = "TCP" /\ ~mem
    <3>1. r = [pool |-> [p EXCEPT ![i] = Zeroed], fd |-> NoSlot]
      BY <1>2, <1>4, <2>6
    <3> QED BY <2>1, <2>2, <3>1 DEF i, r
  <2>7. CASE ~(type = "TCP" /\ ~mem)
    <3>1. r = [pool |-> q, fd |-> i]
      BY <1>2, <1>4, <2>7
    <3>2. r.pool = q /\ r.fd = i
      BY <3>1
    <3> QED BY <1>4, <2>1, <2>3, <2>4, <2>5, <3>2 DEF Only, i, r
  <2> QED BY <2>6, <2>7
<1> QED BY <1>3, <1>4 DEF i, r

(* The same, as far as types go.                                           *)
LEMMA CreateTypes ==
  ASSUME NEW p \in Pools, NEW type \in Types, NEW mem \in BOOLEAN
  PROVE  LET r == net_socket_create(p, type, mem) IN r.pool \in Pools /\ r.fd \in Slots \cup {NoSlot}
<1> DEFINE i == allocate_socket_fd(p)
           r == net_socket_create(p, type, mem)
<1>1. /\ r.pool \in Pools
      /\ r.fd = NoSlot =>
           r.pool = p \/ (i \in Slots /\ p[i].state = "CLOSED" /\ r.pool = [p EXCEPT ![i] = Zeroed])
      /\ r.fd # NoSlot =>
           /\ i \in Slots /\ r.fd = i /\ Only(i, p, r.pool) /\ p[i].state = "CLOSED"
           /\ r.pool[i].state = "CLOSED" /\ r.pool[i].fd = i /\ r.pool[i].type = type
  BY CreateIs
<1>2. r.pool \in Pools /\ r.fd \in Slots \cup {NoSlot}
  <2> HIDE DEF i, r
  <2> QED BY <1>1
<1> QED BY <1>2

(* net_socket_close changes one socket: it is closed and holds nothing.    *)
LEMMA CloseIs ==
  ASSUME NEW p \in Pools, NEW i
  PROVE  LET q == net_socket_close(p, i)
         IN  q \in Pools /\ Only(i, p, q) /\ (i \in Slots => q[i] = Zeroed)
             /\ (i \notin Slots => q = p)
<1>1. CASE i \in Slots
  <2>1. net_socket_close(p, i) = [p EXCEPT ![i] = Zeroed]
    BY <1>1 DEF net_socket_close
  <2> QED BY <1>1, <2>1, SlotsAre DEF Pools, Only
<1>2. CASE i \notin Slots
  BY <1>2 DEF net_socket_close, Only
<1> QED BY <1>1, <1>2

(* net_socket_connect changes one socket: it is waiting for an answer.     *)
LEMMA ConnectIs ==
  ASSUME NEW p \in Pools, NEW i
  PROVE  LET q == net_socket_connect(p, i)
         IN  /\ q \in Pools /\ Only(i, p, q)
             /\ i \in Slots => q[i] = p[i] \/ q[i] = [p[i] EXCEPT !.state = "SYN_SENT"]
             /\ i \in Slots /\ p[i].type = "TCP" => q[i] = [p[i] EXCEPT !.state = "SYN_SENT"]
             /\ i \notin Slots => q = p
<1>1. CASE i \in Slots /\ p[i].type = "TCP"
  <2>1. net_socket_connect(p, i) = [p EXCEPT ![i].state = "SYN_SENT"]
    BY <1>1 DEF net_socket_connect
  <2>2. [p[i] EXCEPT !.state = "SYN_SENT"] \in Sockets
    BY <1>1 DEF Pools, Sockets, States
  <2> QED BY <1>1, <2>1, <2>2 DEF Pools, Only
<1>2. CASE ~(i \in Slots /\ p[i].type = "TCP")
  BY <1>2 DEF net_socket_connect, Only
<1> QED BY <1>1, <1>2

(* Creating a socket, connecting it and closing it on failure, as the      *)
(* clients do.                                                             *)
LEMMA DialledIs ==
  ASSUME pool \in Pools, NEW out
  PROVE  LET i == allocate_socket_fd(pool)
             r == Dialled(out)
         IN  /\ r.pool \in Pools /\ Only(i, pool, r.pool)
             /\ i \in Slots => pool[i].state = "CLOSED"
             /\ r.fd = NoSlot /\ i \in Slots => r.pool[i] \in {Zeroed, pool[i]}
             /\ r.fd # NoSlot => /\ i \in Slots /\ r.fd = i
                                 /\ r.pool[i].state = "SYN_SENT" /\ r.pool[i].fd = i
<1> DEFINE i == allocate_socket_fd(pool)
           n == net_socket_create(pool, "TCP", out # "memory")
           p == net_socket_connect(n.pool, n.fd)
           r == Dialled(out)
<1>0. "TCP" \in Types /\ (out # "memory") \in BOOLEAN
  BY DEF Types
<1>1. i \in Slots => pool[i].state = "CLOSED"
  BY AllocateIs, SlotsAre
<1>2. /\ n.pool \in Pools
      /\ n.fd = NoSlot =>
           n.pool = pool \/ (i \in Slots /\ pool[i].state = "CLOSED" /\ n.pool = [pool EXCEPT ![i] = Zeroed])
      /\ n.fd # NoSlot =>
           /\ i \in Slots /\ n.fd = i /\ Only(i, pool, n.pool) /\ pool[i].state = "CLOSED"
           /\ n.pool[i].state = "CLOSED" /\ n.pool[i].fd = i /\ n.pool[i].type = "TCP"
  BY <1>0, CreateIs, ZenonT(30)
<1>3. r = IF n.fd = NoSlot THEN n
          ELSE IF out = "host" THEN [pool |-> net_socket_close(n.pool, n.fd), fd |-> NoSlot]
          ELSE IF ~Connects(n.pool, n.fd, out = "fine") THEN [pool |-> net_socket_close(p, n.fd), fd |-> NoSlot]
          ELSE [pool |-> p, fd |-> n.fd]
  BY DEF Dialled
<1> HIDE DEF i, n, r
<1>4. CASE n.fd = NoSlot
  <2>1. r = n
    BY <1>3, <1>4
  <2>2. Only(i, pool, n.pool) /\ (i \in Slots => n.pool[i] \in {Zeroed, pool[i]})
    BY <1>2, <1>4 DEF Only, Pools
  <2> QED BY <1>1, <1>2, <1>4, <2>1, <2>2 DEF i, r
<1>5. CASE n.fd # NoSlot
  <2>1. /\ i \in Slots /\ n.fd = i /\ Only(i, pool, n.pool) /\ pool[i].state = "CLOSED"
        /\ n.pool[i].fd = i /\ n.pool[i].type = "TCP" /\ n.pool[i] \in Sockets
    BY <1>2, <1>5 DEF Pools
  <2>2. /\ p \in Pools /\ Only(i, n.pool, p) /\ p[i] = [n.pool[i] EXCEPT !.state = "SYN_SENT"]
    BY <1>2, <2>1, ConnectIs
  <2>3. p[i].state = "SYN_SENT" /\ p[i].fd = i
    BY <2>1, <2>2 DEF Sockets
  <2>4. Only(i, pool, p)
    BY <2>1, <2>2 DEF Only
  <2> HIDE DEF p
  <2>5. \A q \in {n.pool, p} : LET z == net_socket_close(q, i)
                               IN z \in Pools /\ Only(i, pool, z) /\ z[i] = Zeroed
    <3> TAKE q \in {n.pool, p}
    <3>1. q \in Pools /\ Only(i, pool, q)
      BY <1>2, <2>1, <2>2, <2>4
    <3>2. net_socket_close(q, i) \in Pools /\ Only(i, q, net_socket_close(q, i))
          /\ net_socket_close(q, i)[i] = Zeroed
      BY <2>1, <3>1, CloseIs
    <3>3. Only(i, pool, net_socket_close(q, i))
      BY <3>1, <3>2 DEF Only
    <3> QED BY <3>2, <3>3
  <2>6. CASE r.fd = NoSlot /\ \E q \in {n.pool, p} : r.pool = net_socket_close(q, i)
    BY <2>1, <2>5, <2>6 DEF i, r
  <2>7. CASE r = [pool |-> p, fd |-> i]
    <3>1. r.pool = p /\ r.fd = i
      BY <2>7
    <3> QED BY <1>5, <2>1, <2>2, <2>3, <2>4, <3>1 DEF i, r
  <2>8. \/ r = [pool |-> p, fd |-> i] \/ r = [pool |-> net_socket_close(n.pool, i), fd |-> NoSlot]
        \/ r = [pool |-> net_socket_close(p, i), fd |-> NoSlot]
    BY <1>3, <1>5, <2>1
  <2> QED BY <2>6, <2>7, <2>8
<1> QED BY <1>4, <1>5

----------------------------------------------------------------------------
(* The connection table.                                                   *)

(* A segment from a peer changes its entry, or makes one if it has none.   *)
LEMMA TcpKeeps ==
  ASSUME NetInv, NEW peer \in Peers, NEW flags, TcpReceive(peer, flags)
  PROVE  /\ conns' \in [Conns -> [state : {"CLOSED", "LISTEN", "SYN_RECEIVED", "ESTABLISHED", "CLOSE_WAIT"},
                                  peer : Peers \cup {"nobody"}]]
         /\ TuplesUnique'
         /\ \A c \in Conns : conns'[c].state = "CLOSED" => conns'[c].peer = "nobody"
<1> DEFINE known == find_connection(peer)
           free == allocate_connection
           S == IF known # {} THEN known ELSE free
           c == First(S)
           new == Segment(c, peer, flags)
           CS == [state : {"CLOSED", "LISTEN", "SYN_RECEIVED", "ESTABLISHED", "CLOSE_WAIT"},
                  peer : Peers \cup {"nobody"}]
<1>0. conns \in [Conns -> CS] /\ peer # "nobody"
  BY NetAssumption DEF NetInv, NetTypeOK
<1>1. CASE known = {} /\ free = {}
  <2>1. conns' = conns
    BY <1>1 DEF TcpReceive
  <2> QED BY <1>0, <2>1 DEF NetInv, TuplesUnique
<1>2. CASE ~(known = {} /\ free = {})
  <2>1. conns' = [conns EXCEPT ![c] = new]
    BY <1>2 DEF TcpReceive
  <2>2. known = {d \in Conns : conns[d].state # "CLOSED" /\ conns[d].peer = peer}
        /\ free = {d \in Conns : conns[d].state = "CLOSED"}
    BY DEF find_connection, allocate_connection
  <2>3. S \subseteq Nat /\ S # {} /\ S \subseteq Conns
    <3>1. Conns \subseteq Nat
      BY NetAssumption DEF Conns
    <3> QED BY <1>2, <2>2, <3>1
  <2>4. c \in S
    <3> HIDE DEF S
    <3> QED BY <2>3, FirstIs
  <2>5. new \in CS /\ new.state # "CLOSED" /\ (new.peer = conns[c].peer \/ new.peer = peer)
    <3>1. c \in Conns /\ conns[c] \in CS
      BY <1>0, <2>3, <2>4
    <3> HIDE DEF c, CS
    <3>2. CASE flags = "SYN"
      BY <3>2 DEF Segment, CS
    <3>3. CASE flags # "SYN"
      BY <3>1, <3>3 DEF Segment, CS
    <3> QED BY <3>2, <3>3
  <2>6. \A d \in Conns : conns[d].peer = peer => d = c \/ known # {}
    BY <1>0, <2>2 DEF NetInv
  <2>7. \A d \in Conns : conns[d].peer = peer => d = c
    <3> SUFFICES ASSUME NEW d \in Conns, conns[d].peer = peer, known # {} PROVE d = c
      BY <2>6
    <3>1. c \in Conns /\ conns[c].peer = peer
      BY <2>2, <2>4
    <3> QED BY <1>0, <3>1 DEF NetInv, TuplesUnique
  <2>8. c \in Conns
    BY <2>3, <2>4
  <2> HIDE DEF c, new, CS, S, known, free
  <2>9. conns' \in [Conns -> CS] /\ conns'[c] = new /\ \A d \in Conns : d # c => conns'[d] = conns[d]
    BY <1>0, <2>1, <2>5, <2>8
  <2>10. TuplesUnique'
    <3> SUFFICES ASSUME NEW d \in Conns, NEW e \in Conns, d # e,
                        conns'[d].peer # "nobody", conns'[d].peer = conns'[e].peer
                 PROVE  FALSE
      BY DEF TuplesUnique
    <3>1. CASE d # c /\ e # c
      BY <2>9, <3>1 DEF NetInv, TuplesUnique
    <3>2. ASSUME NEW x \in Conns, x # c, conns'[x].peer # "nobody", new.peer = conns'[x].peer PROVE FALSE
      BY <2>5, <2>7, <2>8, <2>9, <3>2 DEF NetInv, TuplesUnique
    <3> QED BY <2>9, <3>1, <3>2
  <2>11. \A d \in Conns : conns'[d].state = "CLOSED" => conns'[d].peer = "nobody"
    BY <2>5, <2>9 DEF NetInv
  <2> QED BY <2>9, <2>10, <2>11 DEF CS
<1> QED BY <1>1, <1>2

----------------------------------------------------------------------------
(* Descriptors and what they point to.                                     *)

Tables == [Fds -> Entries]

(* Closed and newly opened descriptors are well-typed.                     *)
LEMMA EntriesAre ==
  /\ Closed \in Entries /\ ~Closed.open
  /\ Opened("FILE", None) \in Entries
  /\ \A p \in Pipes : Opened("PIPE", p) \in Entries
  /\ \A s \in Socks : Opened("SOCKET", s) \in Entries
  /\ \A type, obj : Opened(type, obj).open /\ Opened(type, obj).ref = 1
                    /\ Opened(type, obj).type = type /\ Opened(type, obj).obj = obj
<1>1. 0 \in 0..(MaxFile + MaxCount - 1)
  BY FdAssumption
<1> QED BY <1>1 DEF Closed, Opened, Entries

(* References and offsets of an open descriptor move within their type.    *)
LEMMA EntryMoves ==
  ASSUME NEW e \in Entries, e.open
  PROVE  /\ [e EXCEPT !.ref = @ + 1] \in Entries
         /\ e.ref # 1 => [e EXCEPT !.ref = @ - 1] \in Entries
         /\ \A off \in 0..(MaxFile + MaxCount - 1) : [e EXCEPT !.off = off] \in Entries
<1> DEFINE R == [open : BOOLEAN, type : {"FILE", "PIPE", "SOCKET"}, ref : Nat,
                 obj : Pipes \cup Socks \cup {None}, off : 0..(MaxFile + MaxCount - 1)]
           Good(x) == /\ x.open <=> x.ref > 0
                      /\ x.type = "PIPE" => x.obj \in Pipes
                      /\ x.type = "SOCKET" => x.obj \in Socks
<1>1. e \in R /\ Good(e) /\ \A x \in R : Good(x) => x \in Entries
  BY DEF Entries
<1>2. [e EXCEPT !.ref = e.ref + 1] \in R /\ Good([e EXCEPT !.ref = e.ref + 1])
  BY <1>1
<1>3. ASSUME e.ref # 1 PROVE [e EXCEPT !.ref = e.ref - 1] \in R /\ Good([e EXCEPT !.ref = e.ref - 1])
  BY <1>1, <1>3
<1>4. \A off \in 0..(MaxFile + MaxCount - 1) : [e EXCEPT !.off = off] \in R /\ Good([e EXCEPT !.off = off])
  BY <1>1
<1>5. [e EXCEPT !.ref = @ + 1] = [e EXCEPT !.ref = e.ref + 1] /\ [e EXCEPT !.ref = @ - 1] = [e EXCEPT !.ref = e.ref - 1]
  BY <1>1
<1> HIDE DEF R, Good
<1> QED BY <1>1, <1>2, <1>3, <1>4, <1>5

(* What the fields of a descriptor may hold.                               *)
LEMMA EntryIs ==
  ASSUME NEW e \in Entries
  PROVE  /\ e.open \in BOOLEAN /\ e.ref \in Nat /\ (e.open <=> e.ref > 0)
         /\ e.off \in 0..(MaxFile + MaxCount - 1) /\ e.type \in {"FILE", "PIPE", "SOCKET"}
         /\ e.type = "PIPE" => e.obj \in Pipes
         /\ e.type = "SOCKET" => e.obj \in Socks
BY DEF Entries

(* The first free descriptor is closed, and so is the first after another  *)
(* free one.                                                               *)
LEMMA FreeFdsAre ==
  ASSUME NEW t \in Tables
  PROVE  /\ FreeFds(t) # {} => First(FreeFds(t)) \in Fds /\ ~t[First(FreeFds(t))].open
         /\ \A r \in FreeFds(t) : ~(Cardinality(FreeFds(t)) < 2) =>
              LET w == First(FreeFds(t) \ {r}) IN w \in Fds /\ w # r /\ ~t[w].open
<1> DEFINE F == FreeFds(t)
<1>1. F \subseteq Fds /\ Fds \subseteq Nat /\ IsFiniteSet(Fds) /\ \A fd \in F : ~t[fd].open
  BY FdAssumption, FS_Interval DEF FreeFds, Fds
<1>2. IsFiniteSet(F)
  BY <1>1, FS_Subset
<1> HIDE DEF F
<1>3. ASSUME F # {} PROVE First(F) \in F
  BY <1>1, <1>3, FirstIs
<1>4. ASSUME NEW r \in F, ~(Cardinality(F) < 2) PROVE First(F \ {r}) \in F \ {r}
  <2>1. Cardinality(F) \in Nat
    BY <1>2, FS_CardinalityType
  <2>2. F # {r}
    BY <1>4, <2>1, FS_Singleton
  <2>3. F \ {r} # {} /\ F \ {r} \subseteq Nat
    BY <1>1, <1>4, <2>2
  <2> QED BY <2>3, FirstIs
<1> QED BY <1>1, <1>3, <1>4 DEF F

(* free_fd takes a reference off and closes a descriptor with the last     *)
(* one.                                                                    *)
LEMMA FreeFdIs ==
  ASSUME NEW t \in Tables, NEW fd \in Fds
  PROVE  LET u == free_fd(t, fd)
         IN  /\ u \in Tables /\ \A x \in Fds : x # fd => u[x] = t[x]
             /\ ~t[fd].open => u[fd] = t[fd]
             /\ t[fd].open /\ t[fd].ref = 1 => u[fd] = Closed
             /\ t[fd].open /\ t[fd].ref # 1 => u[fd] = [t[fd] EXCEPT !.ref = @ - 1]
<1>0. t[fd] \in Entries
  BY DEF Tables
<1>1. CASE ~t[fd].open
  BY <1>1 DEF free_fd
<1>2. CASE t[fd].open /\ t[fd].ref = 1
  <2>1. free_fd(t, fd) = [t EXCEPT ![fd] = Closed]
    BY <1>2 DEF free_fd
  <2> QED BY <1>2, <2>1, EntriesAre DEF Tables
<1>3. CASE t[fd].open /\ t[fd].ref # 1
  <2>1. free_fd(t, fd) = [t EXCEPT ![fd] = [t[fd] EXCEPT !.ref = @ - 1]]
    BY <1>3 DEF free_fd, Tables
  <2>2. [t[fd] EXCEPT !.ref = @ - 1] \in Entries
    BY <1>0, <1>3, EntryMoves
  <2> QED BY <1>3, <2>1, <2>2 DEF Tables
<1> QED BY <1>1, <1>2, <1>3

(* The ring of a pipe.                                                     *)
LEMMA Wraps ==
  ASSUME NEW n \in Nat \ {0}, NEW a \in 0..2 * n - 1
  PROVE  a % n = IF a < n THEN a ELSE a - n
<1>1. CASE a < n
  BY <1>1
<1>2. CASE ~(a < n)
  <2>1. a = 1 * n + (a - n) /\ a - n \in 0..n - 1
    BY <1>2
  <2> QED BY <1>2, <2>1
<1> QED BY <1>1, <1>2

(* Reading and writing a pipe keep its positions and its count in          *)
(* agreement.                                                              *)
LEMMA PipeMoves ==
  ASSUME NEW r \in PipeStates, NEW k \in Nat
  PROVE  /\ NewPipe \in PipeStates
         /\ k <= r.data => [r EXCEPT !.read = (@ + k) % BufferSize, !.data = @ - k] \in PipeStates
         /\ k <= BufferSize - r.data => [r EXCEPT !.write = (@ + k) % BufferSize, !.data = @ + k] \in PipeStates
<1> DEFINE B == BufferSize
           R == [read : 0..(B - 1), write : 0..(B - 1), data : 0..B]
<1>0. /\ B \in Nat \ {0} /\ r \in R /\ r.write = (r.read + r.data) % B
      /\ r.read \in 0..B - 1 /\ r.data \in 0..B /\ r.write \in 0..B - 1
  BY FdAssumption DEF PipeStates
<1>a. \A x \in R : x.write = (x.read + x.data) % B => x \in PipeStates
  BY DEF PipeStates
<1>1. NewPipe \in PipeStates
  <2> DEFINE z == 0 + 0
  <2>1. z \in 0..2 * B - 1 /\ z < B /\ z = 0
    BY <1>0
  <2>2. 0 \in 0..B - 1 /\ 0 \in 0..B
    BY <1>0
  <2>3. z % B = 0
    <3> HIDE DEF z
    <3> QED BY <1>0, <2>1, Wraps
  <2>4. NewPipe \in R
    BY <2>2 DEF NewPipe
  <2>5. NewPipe.read = 0 /\ NewPipe.data = 0 /\ NewPipe.write = 0
    BY DEF NewPipe
  <2>6. NewPipe.write = (NewPipe.read + NewPipe.data) % B
    BY <2>3, <2>5
  <2> QED BY <1>a, <2>4, <2>6
<1> HIDE DEF B
<1>2. ASSUME k <= r.data
      PROVE  [r EXCEPT !.read = (r.read + k) % B, !.data = r.data - k] \in PipeStates
  <2> DEFINE read == (r.read + k) % B
             x == [r EXCEPT !.read = read, !.data = r.data - k]
  <2>1. r.read + k \in 0..2 * B - 1 /\ r.read + r.data \in 0..2 * B - 1
    BY <1>0, <1>2
  <2>2. read = (IF r.read + k < B THEN r.read + k ELSE r.read + k - B)
    <3> DEFINE a == r.read + k
    <3>1. a \in 0..2 * B - 1 /\ read = a % B
      BY <2>1
    <3> HIDE DEF a, read
    <3>2. read = IF a < B THEN a ELSE a - B
      BY <1>0, <3>1, Wraps
    <3> QED BY <1>0, <3>1, <3>2 DEF a
  <2>3. r.write = (IF r.read + r.data < B THEN r.read + r.data ELSE r.read + r.data - B)
    <3> DEFINE a == r.read + r.data
    <3>1. a \in 0..2 * B - 1 /\ r.write = a % B
      BY <1>0, <2>1
    <3> HIDE DEF a
    <3>2. r.write = IF a < B THEN a ELSE a - B
      BY <1>0, <3>1, Wraps
    <3> QED BY <1>0, <3>1, <3>2 DEF a
  <2> HIDE DEF read
  <2>4. read \in 0..B - 1 /\ r.data - k \in 0..B /\ read + (r.data - k) \in 0..2 * B - 1
    BY <1>0, <1>2, <2>2
  <2>5. (read + (r.data - k)) % B = (IF read + (r.data - k) < B THEN read + (r.data - k) ELSE read + (r.data - k) - B)
    <3> DEFINE a == read + (r.data - k)
    <3>1. a \in 0..2 * B - 1
      BY <2>4
    <3> HIDE DEF a
    <3>2. a % B = IF a < B THEN a ELSE a - B
      BY <1>0, <3>1, Wraps
    <3> QED BY <1>0, <2>4, <3>1, <3>2 DEF a
  <2>6. r.write = (read + (r.data - k)) % B
    BY <1>0, <1>2, <2>2, <2>3, <2>5
  <2>7. x \in R /\ x.read = read /\ x.data = r.data - k /\ x.write = r.write
    BY <1>0, <2>4
  <2> HIDE DEF x
  <2>8. x \in PipeStates
    BY <1>a, <2>6, <2>7
  <2> QED BY <2>8 DEF x, read
<1>3. ASSUME k <= B - r.data
      PROVE  [r EXCEPT !.write = (r.write + k) % B, !.data = r.data + k] \in PipeStates
  <2> DEFINE write == (r.write + k) % B
             x == [r EXCEPT !.write = write, !.data = r.data + k]
  <2>1. r.write + k \in 0..2 * B - 1 /\ r.read + r.data \in 0..2 * B - 1
        /\ r.data + k \in 0..B /\ r.read + (r.data + k) \in 0..2 * B - 1
    BY <1>0, <1>3
  <2>2. write = (IF r.write + k < B THEN r.write + k ELSE r.write + k - B)
    <3> DEFINE a == r.write + k
    <3>1. a \in 0..2 * B - 1 /\ write = a % B
      BY <2>1
    <3> HIDE DEF a, write
    <3>2. write = IF a < B THEN a ELSE a - B
      BY <1>0, <3>1, Wraps
    <3> QED BY <1>0, <3>1, <3>2 DEF a
  <2>3. r.write = (IF r.read + r.data < B THEN r.read + r.data ELSE r.read + r.data - B)
    <3> DEFINE a == r.read + r.data
    <3>1. a \in 0..2 * B - 1 /\ r.write = a % B
      BY <1>0, <2>1
    <3> HIDE DEF a
    <3>2. r.write = IF a < B THEN a ELSE a - B
      BY <1>0, <3>1, Wraps
    <3> QED BY <1>0, <3>1, <3>2 DEF a
  <2>4. (r.read + (r.data + k)) % B = (IF r.read + (r.data + k) < B THEN r.read + (r.data + k) ELSE r.read + (r.data + k) - B)
    <3> DEFINE a == r.read + (r.data + k)
    <3>1. a \in 0..2 * B - 1
      BY <2>1
    <3> HIDE DEF a
    <3>2. a % B = IF a < B THEN a ELSE a - B
      BY <1>0, <3>1, Wraps
    <3> QED BY <1>0, <3>1, <3>2 DEF a
  <2> HIDE DEF write
  <2>a. write \in 0..B - 1
    BY <1>0, <2>1, <2>2
  <2>b. write = (r.read + (r.data + k)) % B
    <3>1. CASE r.read + r.data < B
      BY <1>0, <1>3, <2>2, <2>3, <2>4, <3>1
    <3>2. CASE ~(r.read + r.data < B)
      BY <1>0, <1>3, <2>2, <2>3, <2>4, <3>2
    <3> QED BY <3>1, <3>2
  <2>5. write \in 0..B - 1 /\ write = (r.read + (r.data + k)) % B
    BY <2>a, <2>b
  <2>7. x \in R /\ x.read = r.read /\ x.data = r.data + k /\ x.write = write
    BY <1>0, <2>1, <2>5
  <2> HIDE DEF x
  <2>8. x \in PipeStates
    BY <1>a, <2>5, <2>7
  <2> QED BY <2>8 DEF x, write
<1>4. /\ [r EXCEPT !.read = (@ + k) % B, !.data = @ - k] = [r EXCEPT !.read = (r.read + k) % B, !.data = r.data - k]
      /\ [r EXCEPT !.write = (@ + k) % B, !.data = @ + k] = [r EXCEPT !.write = (r.write + k) % B, !.data = r.data + k]
  BY <1>0
<1> QED BY <1>1, <1>2, <1>3, <1>4 DEF B

----------------------------------------------------------------------------
(* The system calls.                                                       *)
(* Pipes and sockets in use that lose their descriptors in a step go too.  *)
LEMMA OrphansKept ==
  ASSUME NoOrphans, fdTrouble \subseteq fdTrouble', NEW D \in SUBSET Fds,
         "lost" \notin fdTrouble' =>
           \A fd \in Fds : fd_table[fd].open /\ ~(fd \in D /\ Dropped(fd)) =>
             /\ fd_table'[fd].open
             /\ fd_table'[fd].type = fd_table[fd].type /\ fd_table'[fd].obj = fd_table[fd].obj,
         \A p \in Pipes : memory'[p] = "live" =>
           \/ memory[p] = "live" /\ p \notin FreedBy(D)
           \/ \E fd \in Fds : fd_table'[fd].open /\ fd_table'[fd].type = "PIPE" /\ fd_table'[fd].obj = p,
         \A s \in Socks : memory'[s] = "live" =>
           \/ memory[s] = "live" /\ s \notin FreedBy(D)
           \/ \E fd \in Fds : fd_table'[fd].open /\ fd_table'[fd].type = "SOCKET" /\ fd_table'[fd].obj = s
  PROVE  NoOrphans'
<1> SUFFICES ASSUME "lost" \notin fdTrouble' PROVE NoOrphans'
  BY DEF NoOrphans
<1>0. "lost" \notin fdTrouble
  OBVIOUS
<1>1. \A fd : fd \in Fds /\ fd_table[fd].open /\ fd_table[fd].type # "FILE" /\ fd_table[fd].obj \in Objects
              /\ fd_table[fd].obj \notin FreedBy(D) => ~(fd \in D /\ Dropped(fd))
  BY DEF FreedBy, Frees
<1>2. ASSUME NEW p \in Pipes, memory'[p] = "live"
      PROVE  \E fd \in Fds : fd_table'[fd].open /\ fd_table'[fd].type = "PIPE" /\ fd_table'[fd].obj = p
  <2> SUFFICES ASSUME memory[p] = "live", p \notin FreedBy(D)
               PROVE  \E fd \in Fds : fd_table'[fd].open /\ fd_table'[fd].type = "PIPE" /\ fd_table'[fd].obj = p
    BY <1>2
  <2>1. PICK fd \in Fds : fd_table[fd].open /\ fd_table[fd].type = "PIPE" /\ fd_table[fd].obj = p
    BY <1>0 DEF NoOrphans, Open
  <2>2. p \in Objects
    BY DEF Objects
  <2> QED BY <1>1, <2>1, <2>2
<1>3. ASSUME NEW s \in Socks, memory'[s] = "live"
      PROVE  \E fd \in Fds : fd_table'[fd].open /\ fd_table'[fd].type = "SOCKET" /\ fd_table'[fd].obj = s
  <2> SUFFICES ASSUME memory[s] = "live", s \notin FreedBy(D)
               PROVE  \E fd \in Fds : fd_table'[fd].open /\ fd_table'[fd].type = "SOCKET" /\ fd_table'[fd].obj = s
    BY <1>3
  <2>1. PICK fd \in Fds : fd_table[fd].open /\ fd_table[fd].type = "SOCKET" /\ fd_table[fd].obj = s
    BY <1>0 DEF NoOrphans, Open
  <2>2. s \in Objects
    BY DEF Objects
  <2> QED BY <1>1, <2>1, <2>2
<1> QED BY <1>2, <1>3 DEF NoOrphans, Open

(* Descriptors of sockets that were there before, on memory that stays.    *)
LEMMA DanglingKept ==
  ASSUME NoDangling, fdTrouble \subseteq fdTrouble',
         "dup" \notin fdTrouble' =>
           \A fd \in Fds : fd_table'[fd].open /\ fd_table'[fd].type = "SOCKET" =>
             /\ fd_table[fd].open /\ fd_table[fd].type = "SOCKET" /\ fd_table'[fd].obj = fd_table[fd].obj
             /\ memory[fd_table[fd].obj] = "live" => memory'[fd_table[fd].obj] = "live"
  PROVE  NoDangling'
<1> SUFFICES ASSUME "dup" \notin fdTrouble', NEW fd \in Fds, fd_table'[fd].open, fd_table'[fd].type = "SOCKET"
             PROVE  /\ memory'[fd_table'[fd].obj] = "live"
                    /\ \A other \in Fds : fd_table'[other].open /\ fd_table'[other].type = "SOCKET"
                                          /\ fd_table'[other].obj = fd_table'[fd].obj => other = fd
  BY DEF NoDangling, Open
<1>1. /\ fd_table[fd].open /\ fd_table[fd].type = "SOCKET" /\ fd_table'[fd].obj = fd_table[fd].obj
      /\ memory[fd_table[fd].obj] = "live" => memory'[fd_table[fd].obj] = "live"
  OBVIOUS
<1>2. /\ memory[fd_table[fd].obj] = "live"
      /\ \A other \in Fds : fd_table[other].open /\ fd_table[other].type = "SOCKET"
                            /\ fd_table[other].obj = fd_table[fd].obj => other = fd
  BY <1>1 DEF NoDangling, Open
<1> QED BY <1>1, <1>2

(* Closing descriptors leaves the sockets of the others alone.             *)
LEMMA ClosingKeepsSockets ==
  ASSUME fd_table \in Tables, NoDangling, "dup" \notin fdTrouble, NEW D \in SUBSET Fds,
         NEW fd \in Fds, fd_table[fd].open, fd_table[fd].type = "SOCKET", ~(fd \in D /\ Dropped(fd))
  PROVE  fd_table[fd].obj \notin FreedBy(D)
<1> SUFFICES ASSUME fd_table[fd].obj \in FreedBy(D) PROVE FALSE
  OBVIOUS
<1>1. PICK other \in D : Dropped(other) /\ fd_table[other].type # "FILE" /\ fd_table[other].obj = fd_table[fd].obj
  BY DEF FreedBy, Frees
<1>2. other \in Fds /\ fd_table[other].open
  BY <1>1 DEF Dropped
<1>3. /\ fd_table[other].type \in {"PIPE", "SOCKET"} /\ fd_table[fd].obj \in Socks
      /\ fd_table[other].type = "PIPE" => fd_table[other].obj \in Pipes
  BY <1>1, <1>2, EntryIs DEF Tables
<1>4. fd_table[other].type = "SOCKET"
  BY <1>1, <1>3, FdAssumption
<1>5. other = fd
  BY <1>1, <1>2, <1>4 DEF NoDangling, Open
<1> QED BY <1>1, <1>5

(* Freeing the objects behind descriptors frees these and no other.        *)
LEMMA FreeObjectsIs ==
  ASSUME FdBooks, pool \in Pools, NEW D \in SUBSET Fds, FreeObjects(D)
  PROVE  /\ pipe' = pipe /\ sock' = sock /\ memory' \in [Objects -> Memories] /\ pool' \in Pools
         /\ \A o \in Objects : /\ memory'[o] = IF o \in FreedBy(D) /\ memory[o] = "live" THEN "left" ELSE memory[o]
                               /\ memory'[o] = "live" => memory[o] = "live" /\ o \notin FreedBy(D)
         /\ \A i \in Slots : pool'[i] = IF \E s \in FreedBy(D) \cap Socks : sock[s] = i
                                        THEN Zeroed ELSE pool[i]
<1>1. /\ memory' = [o \in Objects |-> IF o \in FreedBy(D) /\ memory[o] = "live" THEN "left" ELSE memory[o]]
      /\ pool' = [i \in Slots |-> IF \E s \in FreedBy(D) \cap Socks : sock[s] = i THEN Zeroed ELSE pool[i]]
      /\ pipe' = pipe /\ sock' = sock
  BY DEF FreeObjects
<1>2. memory \in [Objects -> Memories]
  BY DEF FdBooks
<1>3. \A o \in Objects : /\ memory'[o] = IF o \in FreedBy(D) /\ memory[o] = "live" THEN "left" ELSE memory[o]
                         /\ memory'[o] = "live" => memory[o] = "live" /\ o \notin FreedBy(D)
  BY <1>1
<1>4. memory' \in [Objects -> Memories]
  BY <1>1, <1>2 DEF Memories
<1>5. pool' \in Pools
  BY <1>1, SlotsAre DEF Pools
<1> QED BY <1>1, <1>3, <1>4, <1>5

(* What freeing again does to the heap is noted.                           *)
LEMMA HarmIs ==
  ASSUME NEW D, NEW harm \in Harm(D)
  PROVE  harm \subseteq {"twice", "wild"}
BY DEF Harm

(* What every call does.                                                   *)
FdKept ==
  /\ FdInv' /\ pool' \in Pools /\ queued' \in 0..NET_MAX_SOCKETS /\ UNCHANGED <<conns, handles>>
  /\ fdTrouble \subseteq fdTrouble'

(* A new table that keeps the open descriptors and adds new ones with one  *)
(* reference.                                                              *)
LEMMA OpenKeeps ==
  ASSUME FdInv, procs > 0, fd_table' \in Tables, UNCHANGED <<size, procs>>,
         fdTrouble' \in SUBSET FdTroubles, fdTrouble \subseteq fdTrouble',
         \A fd \in Fds : fd_table'[fd] = fd_table[fd] \/ (~fd_table[fd].open /\ fd_table'[fd].ref = 1),
         pipe' \in [Pipes -> PipeStates], sock' \in [Socks -> Slots \cup {NoSlot}],
         memory' \in [Objects -> Memories], NoDangling',
         \A p \in Pipes : memory'[p] = "live" =>
           \/ memory[p] = "live"
           \/ \E fd \in Fds : fd_table'[fd].open /\ fd_table'[fd].type = "PIPE" /\ fd_table'[fd].obj = p,
         \A s \in Socks : memory'[s] = "live" =>
           \/ memory[s] = "live"
           \/ \E fd \in Fds : fd_table'[fd].open /\ fd_table'[fd].type = "SOCKET" /\ fd_table'[fd].obj = s
  PROVE  FdInv'
<1>1. FdBooks'
  BY DEF FdInv, FdBooks, Tables
<1>2. NoOrphans'
  <2>1. {} \in SUBSET Fds /\ FreedBy({}) = {}
    BY DEF FreedBy, Frees
  <2>2. NoOrphans
    BY DEF FdInv
  <2> QED BY <2>1, <2>2, OrphansKept
<1>3. RefsBounded'
  <2>1. procs \in Nat /\ 1 \in 1..procs
    BY FdAssumption DEF FdInv, FdBooks
  <2>2. "dup" \notin fdTrouble' => "dup" \notin fdTrouble
    OBVIOUS
  <2> QED BY <2>1, <2>2 DEF FdInv, RefsBounded
<1> QED BY <1>1, <1>2, <1>3 DEF FdInv

(* The calls that make descriptors, and their failures, keep the           *)
(* descriptors' invariant.                                                 *)
LEMMA OpenCallsKeep ==
  ASSUME FdInv, pool \in Pools, queued \in 0..NET_MAX_SOCKETS, procs > 0
  PROVE  /\ sys_open => FdKept
         /\ \A p \in Pipes, mem \in BOOLEAN : sys_pipe(p, mem) => FdKept
         /\ \A s \in Socks, type \in Types, tcp, mem \in BOOLEAN :
              sys_socket(s, type, tcp, mem) => FdKept
<1>0. /\ fd_table \in Tables /\ pipe \in [Pipes -> PipeStates] /\ sock \in [Socks -> Slots \cup {NoSlot}]
      /\ fdTrouble \subseteq FdTroubles /\ memory \in [Objects -> Memories] /\ NoDangling
  BY DEF FdInv, FdBooks, Tables
<1>1. ASSUME sys_open PROVE FdKept
  <2> DEFINE n == First(FreeFds(fd_table))
  <2>1. n \in Fds /\ ~fd_table[n].open
    BY <1>0, <1>1, FreeFdsAre DEF sys_open
  <2>2. /\ fd_table' = [fd_table EXCEPT ![n] = Opened("FILE", None)]
        /\ UNCHANGED <<pool, queued, conns, handles, pipe, sock, memory, size, procs, fdTrouble>>
    BY <1>1 DEF sys_open, netVars, objects
  <2> HIDE DEF n
  <2>3. fd_table' \in Tables
        /\ \A fd \in Fds : fd_table'[fd] = fd_table[fd] \/ (~fd_table[fd].open /\ fd_table'[fd].ref = 1)
    BY <1>0, <2>1, <2>2, EntriesAre DEF Tables
  <2>a. \A fd \in Fds : fd_table'[fd] = IF fd = n THEN Opened("FILE", None) ELSE fd_table[fd]
    BY <1>0, <2>2 DEF Tables
  <2>b. NoDangling'
    BY <1>0, <2>2, <2>a, EntriesAre, DanglingKept
  <2>4. FdInv'
    BY <1>0, <2>2, <2>3, <2>b, OpenKeeps
  <2> QED BY <2>2, <2>4 DEF FdKept
<1>2. ASSUME NEW p \in Pipes, NEW mem \in BOOLEAN, sys_pipe(p, mem) PROVE FdKept
  <2> DEFINE F == FreeFds(fd_table)
             r == First(F)
             w == First(F \ {r})
  <2>0. UNCHANGED <<pool, queued, conns, handles, sock, size, procs, fdTrouble>>
    BY <1>2 DEF sys_pipe, netVars
  <2>a. pipe' \in [Pipes -> PipeStates]
    <3>1. pipe[p] \in PipeStates /\ 0 \in Nat
      BY <1>0
    <3>2. pipe' = [pipe EXCEPT ![p] = NewPipe] /\ NewPipe \in PipeStates
      BY <1>2, <3>1, PipeMoves DEF sys_pipe
    <3> QED BY <1>0, <3>2
  <2>b. p \in Objects /\ p \notin Socks
    BY FdAssumption DEF Objects
  <2>1. CASE memory' = [memory EXCEPT ![p] = "left"] /\ UNCHANGED fd_table
    <3>1. memory' \in [Objects -> Memories] /\ \A o \in Objects : memory'[o] = IF o = p THEN "left" ELSE memory[o]
      BY <1>0, <2>1 DEF Memories
    <3>2. \A o \in Objects : memory'[o] = "live" => memory[o] = "live"
      BY <3>1
    <3>3. \A o \in Socks : o \in Objects /\ memory'[o] = memory[o]
      BY <2>b, <3>1 DEF Objects
    <3>4. \A fd \in Fds : fd_table[fd].type = "SOCKET" => fd_table[fd].obj \in Socks
      BY <1>0, EntryIs DEF Tables
    <3>5. NoDangling'
      BY <1>0, <2>0, <2>1, <3>3, <3>4, DanglingKept
    <3>6. FdInv'
      BY <1>0, <2>0, <2>1, <2>a, <3>1, <3>2, <3>5, OpenKeeps DEF Objects
    <3> QED BY <2>0, <3>6 DEF FdKept
  <2>2. CASE ~(Cardinality(F) < 2)
             /\ memory' = [memory EXCEPT ![p] = "live"]
             /\ fd_table' = [fd_table EXCEPT ![r] = Opened("PIPE", p), ![w] = Opened("PIPE", p)]
    <3>1. F # {}
      BY <2>2, FS_EmptySet
    <3>2. r \in F /\ r \in Fds /\ ~fd_table[r].open
      BY <1>0, <3>1, FreeFdsAre DEF FreeFds
    <3>3. w \in Fds /\ w # r /\ ~fd_table[w].open
      BY <1>0, <2>2, <3>2, FreeFdsAre
    <3> HIDE DEF F, r, w
    <3>4. Opened("PIPE", p) \in Entries /\ Opened("PIPE", p).ref = 1 /\ Opened("PIPE", p).open
          /\ Opened("PIPE", p).type = "PIPE" /\ Opened("PIPE", p).obj = p
      BY EntriesAre
    <3>5. /\ fd_table' \in Tables /\ fd_table'[r] = Opened("PIPE", p)
          /\ \A fd \in Fds : fd_table'[fd] = fd_table[fd] \/ (~fd_table[fd].open /\ fd_table'[fd].ref = 1)
          /\ \A fd \in Fds : fd_table'[fd] = fd_table[fd] \/ fd_table'[fd] = Opened("PIPE", p)
      BY <1>0, <2>2, <3>2, <3>3, <3>4 DEF Tables
    <3>6. memory' \in [Objects -> Memories] /\ \A o \in Objects : memory'[o] = IF o = p THEN "live" ELSE memory[o]
      BY <1>0, <2>2 DEF Memories
    <3>7. \A o \in Socks : o \in Objects /\ memory'[o] = memory[o]
      BY <2>b, <3>6 DEF Objects
    <3>8. \A fd \in Fds : fd_table[fd].type = "SOCKET" => fd_table[fd].obj \in Socks
      BY <1>0, EntryIs DEF Tables
    <3>9. \A fd \in Fds : fd_table'[fd].type = "SOCKET" => fd_table'[fd] = fd_table[fd]
      BY <3>4, <3>5
    <3>10. NoDangling'
      BY <1>0, <2>0, <3>7, <3>8, <3>9, DanglingKept
    <3>11. \A q \in Pipes : memory'[q] = "live" =>
             \/ memory[q] = "live"
             \/ \E fd \in Fds : fd_table'[fd].open /\ fd_table'[fd].type = "PIPE" /\ fd_table'[fd].obj = q
      <4>1. \A q \in Pipes : q # p => memory'[q] = memory[q]
        BY <3>6 DEF Objects
      <4> QED BY <3>2, <3>4, <3>5, <4>1
    <3>12. FdInv'
      BY <1>0, <2>0, <2>a, <3>5, <3>6, <3>7, <3>10, <3>11, OpenKeeps
    <3> QED BY <2>0, <3>12 DEF FdKept
  <2> QED BY <1>2, <2>1, <2>2 DEF sys_pipe
<1>3. ASSUME NEW s \in Socks, NEW type \in Types, NEW tcp \in BOOLEAN, NEW mem \in BOOLEAN,
             sys_socket(s, type, tcp, mem)
      PROVE  FdKept
  <2> DEFINE r == net_socket_create(pool, type, tcp)
             n == First(FreeFds(fd_table))
  <2>0. /\ UNCHANGED <<queued, conns, handles, pipe, size, procs>>
        /\ fdTrouble \subseteq fdTrouble' /\ fdTrouble' \in SUBSET FdTroubles
    BY <1>0, <1>3 DEF sys_socket, FdNote, FdTroubles
  <2>1. /\ r.pool \in Pools /\ r.fd \in Slots \cup {NoSlot}
    BY CreateTypes
  <2>2. n \in Fds /\ ~fd_table[n].open
    BY <1>0, <1>3, FreeFdsAre DEF sys_socket
  <2>3. CASE pool' = net_socket_close(r.pool, r.fd) /\ UNCHANGED <<fd_table, sock, memory>>
    <3>1. pool' \in Pools
      BY <2>1, <2>3, CloseIs
    <3>2. NoDangling'
      BY <1>0, <2>0, <2>3, DanglingKept
    <3>3. FdInv'
      BY <1>0, <2>0, <2>3, <3>2, OpenKeeps
    <3> QED BY <2>0, <3>1, <3>3 DEF FdKept
  <2>4. CASE /\ pool' = r.pool /\ sock' = [sock EXCEPT ![s] = r.fd] /\ memory' = [memory EXCEPT ![s] = "live"]
             /\ fd_table' = [fd_table EXCEPT ![n] = Opened("SOCKET", s)]
    <3> HIDE DEF r, n
    <3>1. Opened("SOCKET", s) \in Entries /\ Opened("SOCKET", s).ref = 1 /\ Opened("SOCKET", s).open
          /\ Opened("SOCKET", s).type = "SOCKET" /\ Opened("SOCKET", s).obj = s
      BY EntriesAre
    <3>2. /\ fd_table' \in Tables /\ fd_table'[n] = Opened("SOCKET", s)
          /\ \A fd \in Fds : fd_table'[fd] = fd_table[fd] \/ (~fd_table[fd].open /\ fd_table'[fd].ref = 1)
          /\ \A fd \in Fds : fd # n => fd_table'[fd] = fd_table[fd]
      BY <1>0, <2>2, <2>4, <3>1 DEF Tables
    <3>3. sock' \in [Socks -> Slots \cup {NoSlot}]
      BY <1>0, <2>1, <2>4
    <3>4. s \in Objects /\ memory[s] # "live" /\ s \notin Pipes
      BY <1>3, FdAssumption DEF sys_socket, Objects
    <3>5. memory' \in [Objects -> Memories] /\ \A o \in Objects : memory'[o] = IF o = s THEN "live" ELSE memory[o]
      BY <1>0, <2>4, <3>4 DEF Memories
    <3>6. \A fd \in Fds : fd_table[fd].type = "SOCKET" => fd_table[fd].obj \in Objects
      BY <1>0, EntryIs DEF Tables, Objects
    <3>7. NoDangling'
      <4> SUFFICES ASSUME "dup" \notin fdTrouble', NEW fd \in Fds, fd_table'[fd].open, fd_table'[fd].type = "SOCKET"
                   PROVE  /\ memory'[fd_table'[fd].obj] = "live"
                          /\ \A other \in Fds : fd_table'[other].open /\ fd_table'[other].type = "SOCKET"
                                                /\ fd_table'[other].obj = fd_table'[fd].obj => other = fd
        BY DEF NoDangling, Open
      <4>1. "dup" \notin fdTrouble
        BY <2>0
      <4>2. \A x \in Fds : fd_table[x].open /\ fd_table[x].type = "SOCKET" =>
              /\ memory[fd_table[x].obj] = "live" /\ fd_table[x].obj # s
              /\ \A y \in Fds : fd_table[y].open /\ fd_table[y].type = "SOCKET"
                                /\ fd_table[y].obj = fd_table[x].obj => y = x
        BY <1>0, <3>4, <4>1 DEF NoDangling, Open
      <4>3. CASE fd = n
        <5>1. fd_table'[fd].obj = s
          BY <3>1, <3>2, <4>3
        <5>2. \A other \in Fds : other # n /\ fd_table'[other].open /\ fd_table'[other].type = "SOCKET"
                                 => fd_table'[other].obj # s
          BY <3>2, <4>2
        <5> QED BY <3>4, <3>5, <4>3, <5>1, <5>2
      <4>4. CASE fd # n
        <5>1. fd_table'[fd] = fd_table[fd] /\ fd_table[fd].obj # s /\ memory[fd_table[fd].obj] = "live"
              /\ fd_table[fd].open /\ fd_table[fd].type = "SOCKET"
          BY <3>2, <4>2, <4>4
        <5>2. memory'[fd_table[fd].obj] = "live"
          BY <3>5, <3>6, <5>1
        <5>3. fd_table'[n].obj = s
          BY <3>1, <3>2
        <5> QED BY <3>2, <4>2, <5>1, <5>2, <5>3
      <4> QED BY <4>3, <4>4
    <3>8. \A t \in Socks : memory'[t] = "live" =>
            \/ memory[t] = "live"
            \/ \E fd \in Fds : fd_table'[fd].open /\ fd_table'[fd].type = "SOCKET" /\ fd_table'[fd].obj = t
      <4>1. \A t \in Socks : t # s => memory'[t] = memory[t]
        BY <3>5 DEF Objects
      <4> QED BY <2>2, <3>1, <3>2, <4>1
    <3>9. \A p \in Pipes : memory'[p] = "live" => memory[p] = "live"
      BY <3>4, <3>5 DEF Objects
    <3>10. FdInv'
      BY <1>0, <2>0, <3>2, <3>3, <3>5, <3>7, <3>8, <3>9, OpenKeeps
    <3> QED BY <2>0, <2>1, <2>4, <3>10 DEF FdKept
  <2> QED BY <1>3, <2>3, <2>4 DEF sys_socket
<1> QED BY <1>1, <1>2, <1>3

(* Calls that close descriptors: D, and perhaps then something else.       *)
LEMMA CloseKeeps ==
  ASSUME FdInv, pool \in Pools, queued \in 0..NET_MAX_SOCKETS, procs > 0
  PROVE  /\ \A fd \in Fds : sys_close(fd) => FdKept
         /\ sys_exit => FdKept
         /\ \A old, new \in Fds, mem \in BOOLEAN : sys_dup2(old, new, mem) => FdKept
<1>0. /\ fd_table \in Tables /\ fdTrouble \subseteq FdTroubles
      /\ \A x \in Fds : /\ fd_table[x] \in Entries /\ fd_table[x].ref \in Nat
                        /\ fd_table[x].open <=> fd_table[x].ref > 0
      /\ size \in FileSize..MaxFile /\ procs \in 0..MaxProcs /\ procs \in Nat /\ FdBooks /\ NoOrphans
      /\ NoDangling /\ pipe \in [Pipes -> PipeStates] /\ sock \in [Socks -> Slots \cup {NoSlot}]
  <2>1. /\ fd_table \in Tables /\ fdTrouble \subseteq FdTroubles
        /\ size \in FileSize..MaxFile /\ procs \in 0..MaxProcs /\ FdBooks /\ NoOrphans
        /\ NoDangling /\ pipe \in [Pipes -> PipeStates] /\ sock \in [Socks -> Slots \cup {NoSlot}]
    BY DEF FdInv, FdBooks, Tables
  <2>2. procs \in Nat
    BY <2>1, FdAssumption
  <2> QED BY <2>1, <2>2, EntryIs DEF Tables
<1>a. \A x \in Fds : fd_table[x].open /\ fd_table[x].ref # 1 =>
        LET e == [fd_table[x] EXCEPT !.ref = @ - 1]
        IN e.open /\ e.type = fd_table[x].type /\ e.obj = fd_table[x].obj /\ e.ref = fd_table[x].ref - 1
  BY <1>0 DEF Entries
<1>b. ~Closed.open
  BY EntriesAre
<1>c. \A o \in Pipes \cup Socks : o \in Objects
  BY DEF Objects
<1>d. \A x \in Fds : fd_table[x].type = "SOCKET" => fd_table[x].obj \in Objects
  BY <1>0, EntryIs DEF Objects
<1>1. ASSUME NEW fd \in Fds, sys_close(fd) PROVE FdKept
  <2>1. /\ fd_table' = free_fd(fd_table, fd) /\ FreeObjects({fd}) /\ fd_table[fd].open
        /\ UNCHANGED <<queued, conns, handles, size, procs>>
    BY <1>1 DEF sys_close, Open
  <2>d. PICK harm \in Harm({fd}) : fdTrouble' = fdTrouble \cup harm
    BY <1>1 DEF sys_close, FdNote
  <2>a. harm \subseteq {"twice", "wild"} /\ fdTrouble' = fdTrouble \cup harm
    BY <2>d, HarmIs
  <2>b. fdTrouble' \subseteq FdTroubles /\ fdTrouble \subseteq fdTrouble' /\ ("dup" \in fdTrouble' => "dup" \in fdTrouble)
    BY <1>0, <2>a DEF FdTroubles
  <2>2. /\ fd_table' \in Tables /\ \A x \in Fds : x # fd => fd_table'[x] = fd_table[x]
        /\ fd_table[fd].open /\ fd_table[fd].ref = 1 => fd_table'[fd] = Closed
        /\ fd_table[fd].open /\ fd_table[fd].ref # 1 => fd_table'[fd] = [fd_table[fd] EXCEPT !.ref = @ - 1]
    BY <1>0, <2>1, FreeFdIs
  <2>3. /\ pipe' = pipe /\ sock' = sock /\ memory' \in [Objects -> Memories] /\ pool' \in Pools
        /\ \A o \in Objects : /\ memory'[o] = IF o \in FreedBy({fd}) /\ memory[o] = "live" THEN "left" ELSE memory[o]
                              /\ memory'[o] = "live" => memory[o] = "live" /\ o \notin FreedBy({fd})
    BY <1>0, <2>1, FreeObjectsIs
  <2>4. FdBooks'
    BY <1>0, <2>1, <2>2, <2>3, <2>b DEF FdBooks, Tables
  <2>5. \A x \in Fds : fd_table[x].open /\ ~(x \in {fd} /\ Dropped(x)) =>
             /\ fd_table'[x].open
             /\ fd_table'[x].type = fd_table[x].type /\ fd_table'[x].obj = fd_table[x].obj
    BY <1>a, <2>2, ZenonT(30) DEF Dropped
  <2>6. NoOrphans'
    BY <1>0, <1>c, <2>3, <2>5, <2>b, OrphansKept
  <2>c. NoDangling'
    <3>1. ASSUME "dup" \notin fdTrouble', NEW x \in Fds, fd_table'[x].open, fd_table'[x].type = "SOCKET"
          PROVE  /\ fd_table[x].open /\ fd_table[x].type = "SOCKET" /\ fd_table'[x].obj = fd_table[x].obj
                 /\ memory[fd_table[x].obj] = "live" => memory'[fd_table[x].obj] = "live"
      <4>1. fd_table[x].open /\ ~(x \in {fd} /\ Dropped(x))
        BY <1>b, <2>1, <2>2, <3>1 DEF Dropped
      <4>2. fd_table[x].type = "SOCKET" /\ fd_table'[x].obj = fd_table[x].obj
        BY <2>5, <3>1, <4>1
      <4>3. fd_table[x].obj \notin FreedBy({fd})
        BY <1>0, <2>b, <3>1, <4>1, <4>2, ClosingKeepsSockets
      <4> QED BY <1>d, <2>3, <4>1, <4>2, <4>3
    <3> QED BY <1>0, <2>b, <3>1, DanglingKept
  <2>7. RefsBounded'
    <3> SUFFICES ASSUME "dup" \notin fdTrouble, NEW x \in Fds, fd_table'[x].open
                 PROVE  fd_table'[x].ref \in 1..procs
      BY <2>1, <2>b DEF RefsBounded
    <3>1. fd_table[x].open => fd_table[x].ref \in 1..procs
      BY DEF FdInv, RefsBounded
    <3>2. CASE x # fd
      BY <2>2, <3>1, <3>2
    <3>3. CASE x = fd
      <4>1. fd_table[x].ref # 1 /\ fd_table'[x].ref = fd_table[x].ref - 1
        BY <1>a, <1>b, <2>1, <2>2, <3>3
      <4> QED BY <1>0, <2>1, <3>1, <3>3, <4>1
    <3> QED BY <3>2, <3>3
  <2> QED BY <2>1, <2>3, <2>4, <2>6, <2>7, <2>b, <2>c DEF FdInv, FdKept
<1>2. ASSUME sys_exit PROVE FdKept
  <2>1. /\ procs' = procs - 1 /\ fd_table' = [fd \in Fds |-> free_fd(fd_table, fd)[fd]]
        /\ FreeObjects(Fds) /\ UNCHANGED <<queued, conns, handles, size>>
    BY <1>2 DEF sys_exit
  <2>d. PICK harm \in Harm(Fds) : fdTrouble' = fdTrouble \cup harm
    BY <1>2 DEF sys_exit, FdNote
  <2>a. harm \subseteq {"twice", "wild"} /\ fdTrouble' = fdTrouble \cup harm
    BY <2>d, HarmIs
  <2>b. fdTrouble' \subseteq FdTroubles /\ fdTrouble \subseteq fdTrouble' /\ ("dup" \in fdTrouble' => "dup" \in fdTrouble)
    BY <1>0, <2>a DEF FdTroubles
  <2>2. \A fd \in Fds :
          /\ fd_table'[fd] \in Entries
          /\ ~fd_table[fd].open => ~fd_table'[fd].open
          /\ fd_table[fd].open /\ fd_table[fd].ref = 1 => fd_table'[fd] = Closed
          /\ fd_table[fd].open /\ fd_table[fd].ref # 1 => fd_table'[fd] = [fd_table[fd] EXCEPT !.ref = @ - 1]
    <3> TAKE fd \in Fds
    <3> DEFINE u == free_fd(fd_table, fd)
    <3>1. /\ u \in Tables /\ (~fd_table[fd].open => u[fd] = fd_table[fd])
          /\ fd_table[fd].open /\ fd_table[fd].ref = 1 => u[fd] = Closed
          /\ fd_table[fd].open /\ fd_table[fd].ref # 1 => u[fd] = [fd_table[fd] EXCEPT !.ref = @ - 1]
      BY <1>0, FreeFdIs
    <3>2. fd_table'[fd] = u[fd]
      BY <2>1
    <3>3. u[fd] \in Entries
      BY <3>1 DEF Tables
    <3> HIDE DEF u
    <3> QED BY <3>1, <3>2, <3>3
  <2>3. /\ pipe' = pipe /\ sock' = sock /\ memory' \in [Objects -> Memories] /\ pool' \in Pools
        /\ \A o \in Objects : /\ memory'[o] = IF o \in FreedBy(Fds) /\ memory[o] = "live" THEN "left" ELSE memory[o]
                              /\ memory'[o] = "live" => memory[o] = "live" /\ o \notin FreedBy(Fds)
    BY <1>0, <2>1, FreeObjectsIs
  <2>4. fd_table' \in [Fds -> Entries] /\ procs' \in 0..MaxProcs
    <3>1. fd_table' = [fd \in Fds |-> fd_table'[fd]]
      BY <2>1
    <3>2. fd_table' \in [Fds -> Entries]
      BY <2>2, <3>1
    <3> QED BY <1>0, <2>1, <3>2, FdAssumption
  <2>5. FdBooks'
    BY <1>0, <2>1, <2>3, <2>4, <2>b DEF FdBooks
  <2>6. \A x \in Fds : fd_table[x].open /\ ~(x \in Fds /\ Dropped(x)) =>
             /\ fd_table'[x].open
             /\ fd_table'[x].type = fd_table[x].type /\ fd_table'[x].obj = fd_table[x].obj
    BY <1>a, <2>2 DEF Dropped
  <2>7. NoOrphans'
    BY <1>0, <1>c, <2>3, <2>6, <2>b, OrphansKept
  <2>c. NoDangling'
    <3>1. ASSUME "dup" \notin fdTrouble', NEW x \in Fds, fd_table'[x].open, fd_table'[x].type = "SOCKET"
          PROVE  /\ fd_table[x].open /\ fd_table[x].type = "SOCKET" /\ fd_table'[x].obj = fd_table[x].obj
                 /\ memory[fd_table[x].obj] = "live" => memory'[fd_table[x].obj] = "live"
      <4>1. fd_table[x].open /\ ~(x \in Fds /\ Dropped(x))
        BY <1>b, <2>2, <3>1 DEF Dropped
      <4>2. fd_table[x].type = "SOCKET" /\ fd_table'[x].obj = fd_table[x].obj
        BY <2>6, <3>1, <4>1
      <4>3. fd_table[x].obj \notin FreedBy(Fds)
        BY <1>0, <2>b, <3>1, <4>1, <4>2, ClosingKeepsSockets
      <4> QED BY <1>d, <2>3, <4>1, <4>2, <4>3
    <3> QED BY <1>0, <2>b, <3>1, DanglingKept
  <2>8. RefsBounded'
    <3> SUFFICES ASSUME "dup" \notin fdTrouble, NEW x \in Fds, fd_table'[x].open
                 PROVE  fd_table'[x].ref \in 1..procs'
      BY <2>1, <2>b DEF RefsBounded
    <3>1. fd_table[x].open /\ fd_table[x].ref # 1 /\ fd_table'[x].ref = fd_table[x].ref - 1
      BY <1>a, <1>b, <2>2
    <3>2. fd_table[x].ref \in 1..procs
      BY <3>1 DEF FdInv, RefsBounded
    <3> QED BY <1>0, <2>1, <3>1, <3>2
  <2> QED BY <2>1, <2>3, <2>5, <2>7, <2>8, <2>b, <2>c DEF FdInv, FdKept
<1>3. ASSUME NEW old \in Fds, NEW new \in Fds, NEW mem \in BOOLEAN, sys_dup2(old, new, mem) PROVE FdKept
  <2> DEFINE t == free_fd(fd_table, new)
  <2>1. /\ FreeObjects({new}) /\ UNCHANGED <<queued, conns, handles, size, procs>>
    BY <1>3 DEF sys_dup2
  <2>a. PICK harm \in Harm({new}) :
          fdTrouble' = fdTrouble \cup ({"dup"} \cup harm \cup IF t[old].open /\ t[new].open THEN {"lost"} ELSE {})
    BY <1>3 DEF sys_dup2, FdNote
  <2>2. /\ t \in Tables /\ \A x \in Fds : x # new => t[x] = fd_table[x]
        /\ ~fd_table[new].open => t[new] = fd_table[new]
        /\ fd_table[new].open /\ fd_table[new].ref = 1 => t[new] = Closed
        /\ fd_table[new].open /\ fd_table[new].ref # 1 => t[new] = [fd_table[new] EXCEPT !.ref = @ - 1]
    BY <1>0, FreeFdIs
  <2>3. \/ ~t[old].open /\ fd_table' = t
        \/ t[old].open /\ fd_table' = [t EXCEPT ![new] = Closed]
        \/ t[old].open /\ old = new /\ \E g \in Garbage : fd_table' = [t EXCEPT ![new] = g]
        \/ t[old].open /\ old # new /\ fd_table' = [t EXCEPT ![old].ref = @ + 1, ![new] = t[old]]
    BY <1>3 DEF sys_dup2
  <2> HIDE DEF t
  <2>4. \A g \in Garbage : g \in Entries
    <3>1. ASSUME NEW r \in 1..MaxRef PROVE [Opened("FILE", None) EXCEPT !.ref = r] \in Entries
      <4>1. 0 \in 0..(MaxFile + MaxCount - 1) /\ r \in Nat /\ r > 0
        BY FdAssumption
      <4> QED BY <4>1 DEF Opened, Entries
    <3> QED BY <3>1, EntriesAre DEF Garbage
  <2>5. fd_table' \in Tables
    <3>1. CASE t[old].open /\ old # new /\ fd_table' = [t EXCEPT ![old].ref = @ + 1, ![new] = t[old]]
      <4>1. t[old] \in Entries /\ [t[old] EXCEPT !.ref = @ + 1] \in Entries
        BY <2>2, <3>1, EntryMoves DEF Tables
      <4>2. fd_table' = [t EXCEPT ![old] = [t[old] EXCEPT !.ref = @ + 1], ![new] = t[old]]
        BY <2>2, <3>1 DEF Tables
      <4> QED BY <2>2, <4>1, <4>2 DEF Tables
    <3> QED BY <2>2, <2>3, <2>4, <3>1, EntriesAre DEF Tables
  <2>6. /\ pipe' = pipe /\ sock' = sock /\ memory' \in [Objects -> Memories] /\ pool' \in Pools
        /\ \A o \in Objects : /\ memory'[o] = IF o \in FreedBy({new}) /\ memory[o] = "live" THEN "left" ELSE memory[o]
                              /\ memory'[o] = "live" => memory[o] = "live" /\ o \notin FreedBy({new})
    BY <1>0, <2>1, FreeObjectsIs
  <2>7. fdTrouble' \subseteq FdTroubles /\ fdTrouble \subseteq fdTrouble' /\ "dup" \in fdTrouble'
    BY <1>0, <2>a, HarmIs DEF FdTroubles
  <2>8. FdBooks'
    BY <1>0, <2>1, <2>5, <2>6, <2>7 DEF FdBooks, Tables
  <2>9. ASSUME "lost" \notin fdTrouble', NEW x \in Fds, fd_table[x].open, ~(x \in {new} /\ Dropped(x))
        PROVE  /\ fd_table'[x].open
               /\ fd_table'[x].type = fd_table[x].type /\ fd_table'[x].obj = fd_table[x].obj
    <3>1. t[x].open /\ t[x].type = fd_table[x].type /\ t[x].obj = fd_table[x].obj
      BY <1>a, <2>2, <2>9, ZenonT(30) DEF Dropped
    <3>2. ~(t[old].open /\ t[new].open)
      BY <2>a, <2>9
    <3>3. t[old].open => x # new
      BY <3>1, <3>2
    <3>4. CASE t[old].open /\ old # new /\ fd_table' = [t EXCEPT ![old].ref = @ + 1, ![new] = t[old]]
      <4>1. t[old] \in Entries
        BY <2>2 DEF Tables
      <4>2. x = old => fd_table'[x] = [t[old] EXCEPT !.ref = @ + 1]
        BY <2>2, <3>4 DEF Tables
      <4>3. x # old => fd_table'[x] = t[x]
        BY <2>2, <3>3, <3>4 DEF Tables
      <4> QED BY <3>1, <4>1, <4>2, <4>3 DEF Entries
    <3>5. CASE ~t[old].open /\ fd_table' = t
      BY <3>1, <3>5
    <3>6. CASE t[old].open /\ fd_table' = [t EXCEPT ![new] = Closed]
      BY <2>2, <3>1, <3>3, <3>6 DEF Tables
    <3>7. CASE t[old].open /\ old = new
      BY <3>2, <3>7
    <3> QED BY <2>3, <3>4, <3>5, <3>6, <3>7
  <2>10. NoOrphans'
    BY <1>0, <1>c, <2>6, <2>7, <2>9, OrphansKept
  <2>11. RefsBounded' /\ NoDangling'
    BY <2>7 DEF RefsBounded, NoDangling
  <2> QED BY <2>1, <2>6, <2>7, <2>8, <2>10, <2>11 DEF FdInv, FdKept
<1> QED BY <1>1, <1>2, <1>3

(* Calls that keep the table of open descriptors.                          *)
LEMMA UseKeeps ==
  ASSUME FdInv, pool \in Pools, queued \in 0..NET_MAX_SOCKETS, procs > 0
  PROVE  /\ \A fd \in Fds, n \in 0..MaxCount : sys_read(fd, n) \/ sys_write(fd, n) => FdKept
         /\ \A fd \in Fds, off \in 0..MaxFile : sys_lseek(fd, off) => FdKept
         /\ \A fd \in Fds : sys_connect(fd) \/ sys_recv(fd) \/ sys_dup(fd) => FdKept
         /\ sys_fork => FdKept
         /\ \A o \in Objects : Reused(o) => FdKept
<1> USE FdAssumption
<1>0. /\ fd_table \in Tables /\ fdTrouble \subseteq FdTroubles
      /\ pipe \in [Pipes -> PipeStates] /\ sock \in [Socks -> Slots \cup {NoSlot}]
      /\ size \in FileSize..MaxFile /\ procs \in 0..MaxProcs /\ FdBooks /\ NoOrphans /\ RefsBounded
      /\ NoDangling /\ memory \in [Objects -> Memories]
  BY DEF FdInv, FdBooks, Tables
<1>1. \A x \in Fds : fd_table[x] \in Entries /\ fd_table[x].off \in 0..(MaxFile + MaxCount - 1)
                     /\ fd_table[x].ref \in Nat /\ (fd_table[x].open <=> fd_table[x].ref > 0)
  BY <1>0, EntryIs DEF Tables
<1>2. ASSUME fd_table' \in Tables, pipe' \in [Pipes -> PipeStates],
             UNCHANGED <<sock, memory, conns, handles, procs>>, fdTrouble' \in {fdTrouble, fdTrouble \cup {"wild"}},
             \A x \in Fds : \/ fd_table'[x] = fd_table[x]
                            \/ \E off : fd_table'[x] = [fd_table[x] EXCEPT !.off = off],
             size' \in FileSize..MaxFile, pool' \in Pools, queued' \in 0..NET_MAX_SOCKETS
      PROVE  FdKept
  <2>0. fdTrouble \subseteq fdTrouble' /\ fdTrouble' \subseteq FdTroubles /\ ("dup" \in fdTrouble' => "dup" \in fdTrouble)
    BY <1>0, <1>2 DEF FdTroubles
  <2>1. FdBooks'
    BY <1>0, <1>2, <2>0 DEF FdBooks, Tables
  <2>2. \A x \in Fds : fd_table'[x].open = fd_table[x].open /\ fd_table'[x].type = fd_table[x].type
                       /\ fd_table'[x].obj = fd_table[x].obj /\ fd_table'[x].ref = fd_table[x].ref
    BY <1>1, <1>2, ZenonT(30) DEF Entries
  <2>3. NoOrphans'
    <3>1. {} \in SUBSET Fds /\ FreedBy({}) = {}
      BY DEF FreedBy, Frees
    <3> QED BY <1>0, <1>2, <2>0, <2>2, <3>1, OrphansKept
  <2>4. RefsBounded'
    BY <1>0, <1>2, <2>0, <2>2 DEF RefsBounded
  <2>5. NoDangling'
    BY <1>0, <1>2, <2>0, <2>2, DanglingKept
  <2> QED BY <1>2, <2>0, <2>1, <2>3, <2>4, <2>5 DEF FdInv, FdKept
<1>3. ASSUME NEW fd \in Fds, NEW n \in 0..MaxCount, sys_read(fd, n) PROVE FdKept
  <2>1. fd_table[fd].open /\ UNCHANGED <<pool, conns, handles, sock, memory, size, procs>>
    BY <1>3 DEF sys_read, Open
  <2>2. CASE fd_table[fd].type = "PIPE" /\ PipeRead(fd_table[fd].obj, n) /\ UNCHANGED <<fd_table, queued>>
    <3> DEFINE p == fd_table[fd].obj
               k == Least(n, pipe[p].data)
    <3>1. p \in Pipes /\ pipe[p] \in PipeStates /\ pipe[p].data \in 0..BufferSize
      BY <1>0, <1>1, <2>2, EntryIs DEF PipeStates
    <3>2. k \in Nat /\ k <= pipe[p].data
      BY <3>1 DEF Least
    <3>a. fdTrouble' \in {fdTrouble, fdTrouble \cup {"wild"}}
      BY <2>2 DEF PipeRead, PipeWrite, FdNote
    <3>3. CASE pipe' = pipe
      BY <1>0, <1>2, <2>1, <2>2, <3>3, <3>a
    <3>4. CASE pipe' = [pipe EXCEPT ![p].read = (@ + k) % BufferSize, ![p].data = @ - k]
      <4> DEFINE r == [pipe[p] EXCEPT !.read = (@ + k) % BufferSize, !.data = @ - k]
      <4>1. r \in PipeStates
        BY <3>1, <3>2, PipeMoves
      <4>2. pipe' = [pipe EXCEPT ![p] = r]
        BY <1>0, <3>1, <3>4 DEF PipeStates
      <4> HIDE DEF r, p, k
      <4>3. pipe' \in [Pipes -> PipeStates]
        BY <1>0, <3>1, <4>1, <4>2
      <4> QED BY <1>0, <1>2, <2>1, <2>2, <3>a, <4>3
    <3> QED BY <2>2, <3>3, <3>4, <3>a DEF PipeRead
  <2>3. CASE fd_table[fd].type = "SOCKET" /\ UNCHANGED <<fd_table, pipe, fdTrouble>>
    <3>1. \E i : queued' = IF net_socket_receive(pool, i) THEN queued - 1 ELSE queued
      BY <1>3, <2>3 DEF sys_read
    <3>2. queued' \in 0..NET_MAX_SOCKETS
      BY <3>1, NetAssumption DEF net_socket_receive
    <3> QED BY <1>0, <1>2, <2>1, <2>3, <3>2
  <2>4. CASE /\ fd_table[fd].off < size /\ n > 0
             /\ fd_table' = [fd_table EXCEPT ![fd].off = @ + n] /\ UNCHANGED <<pipe, queued, fdTrouble>>
    <3> DEFINE e == [fd_table[fd] EXCEPT !.off = fd_table[fd].off + n]
    <3>1. fd_table[fd].off + n \in 0..(MaxFile + MaxCount - 1)
      BY <1>0, <1>1, <2>4
    <3>2. e \in Entries
      BY <1>1, <2>1, <3>1, EntryMoves
    <3>3. fd_table' = [fd_table EXCEPT ![fd] = e]
      BY <1>0, <1>1, <2>4 DEF Tables, Entries
    <3>4. fd_table' \in Tables /\ \A x \in Fds : fd_table'[x] = IF x = fd THEN e ELSE fd_table[x]
      <4> HIDE DEF e
      <4> QED BY <1>0, <3>2, <3>3 DEF Tables
    <3> QED BY <1>0, <1>2, <2>1, <2>4, <3>4
  <2>5. \/ fd_table[fd].type = "PIPE" /\ PipeRead(fd_table[fd].obj, n) /\ UNCHANGED <<fd_table, queued>>
        \/ fd_table[fd].type = "SOCKET" /\ UNCHANGED <<fd_table, pipe, fdTrouble>>
        \/ /\ fd_table[fd].off < size /\ n > 0
           /\ fd_table' = [fd_table EXCEPT ![fd].off = @ + n] /\ UNCHANGED <<pipe, queued, fdTrouble>>
    BY <1>3 DEF sys_read
  <2> QED BY <2>2, <2>3, <2>4, <2>5
<1>4. ASSUME NEW fd \in Fds, NEW n \in 0..MaxCount, sys_write(fd, n) PROVE FdKept
  <2>1. fd_table[fd].open /\ UNCHANGED <<pool, queued, conns, handles, sock, memory, procs>>
    BY <1>4 DEF sys_write, Open, netVars
  <2>2. CASE fd_table[fd].type = "PIPE" /\ PipeWrite(fd_table[fd].obj, n) /\ UNCHANGED <<fd_table, size>>
    <3> DEFINE p == fd_table[fd].obj
               k == Least(n, BufferSize - pipe[p].data)
    <3>1. p \in Pipes /\ pipe[p] \in PipeStates /\ pipe[p].data \in 0..BufferSize
      BY <1>0, <1>1, <2>2, EntryIs DEF PipeStates
    <3>2. k \in Nat /\ k <= BufferSize - pipe[p].data
      BY <3>1 DEF Least
    <3>a. fdTrouble' \in {fdTrouble, fdTrouble \cup {"wild"}}
      BY <2>2 DEF PipeRead, PipeWrite, FdNote
    <3>3. CASE pipe' = pipe
      BY <1>0, <1>2, <2>1, <2>2, <3>3, <3>a
    <3>4. CASE pipe' = [pipe EXCEPT ![p].write = (@ + k) % BufferSize, ![p].data = @ + k]
      <4> DEFINE r == [pipe[p] EXCEPT !.write = (@ + k) % BufferSize, !.data = @ + k]
      <4>1. r \in PipeStates
        BY <3>1, <3>2, PipeMoves
      <4>2. pipe' = [pipe EXCEPT ![p] = r]
        BY <1>0, <3>1, <3>4 DEF PipeStates
      <4> HIDE DEF r, p, k
      <4>3. pipe' \in [Pipes -> PipeStates]
        BY <1>0, <3>1, <4>1, <4>2
      <4> QED BY <1>0, <1>2, <2>1, <2>2, <3>a, <4>3
    <3> QED BY <2>2, <3>3, <3>4, <3>a DEF PipeWrite
  <2>3. CASE fd_table[fd].type # "PIPE"
    <3> DEFINE end == fd_table[fd].off + n
               e == [fd_table[fd] EXCEPT !.off = end]
    <3>0. end <= MaxFile /\ fd_table' = [fd_table EXCEPT ![fd].off = end]
          /\ size' = (IF end > size THEN end ELSE size) /\ UNCHANGED <<pipe, fdTrouble>>
      BY <1>4, <2>3 DEF sys_write
    <3>1. end \in 0..(MaxFile + MaxCount - 1) /\ size' \in FileSize..MaxFile
      BY <1>0, <1>1, <3>0
    <3> HIDE DEF end
    <3>2. e \in Entries
      BY <1>1, <2>1, <3>1, EntryMoves
    <3>3. fd_table' = [fd_table EXCEPT ![fd] = e]
      BY <1>0, <1>1, <3>0 DEF Tables, Entries
    <3>4. fd_table' \in Tables /\ \A x \in Fds : fd_table'[x] = IF x = fd THEN e ELSE fd_table[x]
      <4> HIDE DEF e
      <4> QED BY <1>0, <3>2, <3>3 DEF Tables
    <3> QED BY <1>0, <1>2, <2>1, <3>0, <3>1, <3>4
  <2> QED BY <1>4, <2>2, <2>3 DEF sys_write
<1>5. ASSUME NEW fd \in Fds, NEW off \in 0..MaxFile, sys_lseek(fd, off) PROVE FdKept
  <2>1. /\ fd_table[fd].open /\ fd_table' = [fd_table EXCEPT ![fd].off = off]
        /\ UNCHANGED <<pool, queued, conns, handles, pipe, sock, memory, size, procs, fdTrouble>>
    BY <1>5 DEF sys_lseek, Open, netVars, objects
  <2> DEFINE e == [fd_table[fd] EXCEPT !.off = off]
  <2>2. off \in 0..(MaxFile + MaxCount - 1)
    OBVIOUS
  <2>3. e \in Entries
    BY <1>1, <2>1, <2>2, EntryMoves
  <2>4. fd_table' = [fd_table EXCEPT ![fd] = e]
    BY <1>0, <1>1, <2>1 DEF Tables, Entries
  <2>5. fd_table' \in Tables /\ \A x \in Fds : fd_table'[x] = IF x = fd THEN e ELSE fd_table[x]
    <3> HIDE DEF e
    <3> QED BY <1>0, <2>3, <2>4 DEF Tables
  <2> QED BY <1>0, <1>2, <2>1, <2>5
<1>6. ASSUME NEW fd \in Fds, sys_connect(fd) PROVE FdKept
  <2>1. /\ \E i : pool' = net_socket_connect(pool, i)
        /\ UNCHANGED <<queued, conns, handles, fd_table, pipe, sock, memory, size, procs, fdTrouble>>
    BY <1>6 DEF sys_connect, fdVars
  <2>2. pool' \in Pools
    BY <2>1, ConnectIs
  <2> QED BY <1>0, <1>2, <2>1, <2>2
<1>7. ASSUME NEW fd \in Fds, sys_recv(fd) PROVE FdKept
  <2>1. queued' = queued - 1 /\ queued > 0
        /\ UNCHANGED <<pool, conns, handles, fd_table, pipe, sock, memory, size, procs, fdTrouble>>
    BY <1>7 DEF sys_recv, net_socket_receive, fdVars
  <2>2. queued' \in 0..NET_MAX_SOCKETS
    BY <2>1, NetAssumption
  <2> QED BY <1>0, <1>2, <2>1, <2>2
<1>8. ASSUME NEW fd \in Fds, sys_dup(fd) PROVE FdKept
  <2> DEFINE n == First(FreeFds(fd_table))
  <2>1. /\ fd_table[fd].open /\ n \in Fds /\ ~fd_table[n].open
        /\ fd_table' = [fd_table EXCEPT ![fd].ref = @ + 1, ![n] = fd_table[fd]]
        /\ fdTrouble' = fdTrouble \cup {"dup"}
        /\ UNCHANGED <<pool, queued, conns, handles, pipe, sock, memory, size, procs>>
    BY <1>0, <1>8, FreeFdsAre DEF sys_dup, Open, Copied, FdNote, netVars, objects
  <2> HIDE DEF n
  <2> DEFINE e == [fd_table[fd] EXCEPT !.ref = @ + 1]
  <2>2. e \in Entries /\ e.open /\ e.type = fd_table[fd].type /\ e.obj = fd_table[fd].obj
    <3>1. e \in Entries
      BY <1>1, <2>1, EntryMoves
    <3> QED BY <1>1, <2>1, <3>1 DEF Entries
  <2>3. fd_table' = [fd_table EXCEPT ![fd] = e, ![n] = fd_table[fd]]
    BY <1>0, <1>1, <2>1 DEF Tables, Entries
  <2> HIDE DEF e
  <2>4. fd_table' \in Tables
    BY <1>0, <1>1, <2>1, <2>2, <2>3 DEF Tables
  <2>5. \A x \in Fds : fd_table[x].open => fd_table'[x] = IF x = fd THEN e ELSE fd_table[x]
    BY <1>0, <2>1, <2>3 DEF Tables
  <2>6. \A x \in Fds : fd_table[x].open => /\ fd_table'[x].open /\ fd_table'[x].type = fd_table[x].type
                                           /\ fd_table'[x].obj = fd_table[x].obj
    BY <2>2, <2>5
  <2>7. FdBooks'
    <3>1. fdTrouble' \subseteq FdTroubles
      BY <1>0, <2>1 DEF FdTroubles
    <3> QED BY <1>0, <2>1, <2>4, <3>1 DEF FdBooks, Tables
  <2>8. NoOrphans'
    <3>1. {} \in SUBSET Fds /\ FreedBy({}) = {}
      BY DEF FreedBy, Frees
    <3> QED BY <1>0, <2>1, <2>6, <3>1, OrphansKept
  <2>9. RefsBounded' /\ NoDangling'
    BY <2>1 DEF RefsBounded, NoDangling
  <2> QED BY <2>1, <2>7, <2>8, <2>9 DEF FdInv, FdKept
<1>9. ASSUME sys_fork PROVE FdKept
  <2>1. /\ procs \in 1..(MaxProcs - 1) /\ procs' = procs + 1
        /\ fd_table' = [fd \in Fds |-> IF fd_table[fd].open THEN [fd_table[fd] EXCEPT !.ref = @ + 1]
                                       ELSE fd_table[fd]]
        /\ UNCHANGED <<pool, queued, conns, handles, pipe, sock, memory, size, fdTrouble>>
    BY <1>9 DEF sys_fork, netVars, objects
  <2>2. \A x \in Fds : fd_table[x].open =>
          /\ fd_table'[x] \in Entries /\ fd_table'[x].open /\ fd_table'[x].type = fd_table[x].type
          /\ fd_table'[x].obj = fd_table[x].obj /\ fd_table'[x].ref = fd_table[x].ref + 1
    <3> TAKE x \in Fds
    <3> HAVE fd_table[x].open
    <3>1. fd_table'[x] = [fd_table[x] EXCEPT !.ref = @ + 1]
      BY <2>1
    <3>2. fd_table'[x] \in Entries
      BY <1>1, <3>1, EntryMoves
    <3> QED BY <1>1, <3>1, <3>2 DEF Entries
  <2>3. \A x \in Fds : ~fd_table[x].open => fd_table'[x] = fd_table[x]
    BY <2>1
  <2>4. fd_table' \in Tables /\ procs' \in 0..MaxProcs
    BY <1>1, <2>1, <2>2, <2>3 DEF Tables
  <2>5. FdBooks'
    BY <1>0, <2>1, <2>4 DEF FdBooks, Tables
  <2>6. NoOrphans'
    <3>1. {} \in SUBSET Fds /\ FreedBy({}) = {}
      BY DEF FreedBy, Frees
    <3> QED BY <1>0, <2>1, <2>2, <3>1, OrphansKept
  <2>7. RefsBounded'
    <3> SUFFICES ASSUME "dup" \notin fdTrouble, NEW x \in Fds, fd_table'[x].open
                 PROVE  fd_table'[x].ref \in 1..procs'
      BY <2>1 DEF RefsBounded
    <3>1. fd_table[x].open /\ fd_table'[x].ref = fd_table[x].ref + 1
      BY <2>2, <2>3
    <3>2. fd_table[x].ref \in 1..procs
      BY <1>0, <3>1 DEF RefsBounded
    <3> QED BY <2>1, <3>1, <3>2
  <2>8. NoDangling'
    BY <1>0, <2>1, <2>2, <2>3, DanglingKept
  <2> QED BY <2>1, <2>5, <2>6, <2>7, <2>8 DEF FdInv, FdKept
<1>10. ASSUME NEW o \in Objects, Reused(o) PROVE FdKept
  <2>1. /\ memory[o] = "left" /\ memory' = [memory EXCEPT ![o] = "gone"]
        /\ UNCHANGED <<pool, queued, conns, handles, fd_table, pipe, sock, size, procs, fdTrouble>>
    BY <1>10 DEF Reused, netVars
  <2>2. memory' \in [Objects -> Memories] /\ \A x \in Objects : memory'[x] = IF x = o THEN "gone" ELSE memory[x]
    BY <1>0, <2>1 DEF Memories
  <2>3. \A x \in Objects : memory'[x] = "live" <=> memory[x] = "live"
    BY <2>1, <2>2
  <2>4. FdBooks' /\ RefsBounded'
    BY <1>0, <2>1, <2>2 DEF FdBooks, RefsBounded
  <2>5. NoOrphans'
    <3>1. \A x \in Pipes \cup Socks : memory'[x] = "live" => memory[x] = "live"
      BY <2>3 DEF Objects
    <3>2. \A x : x \in Open' <=> x \in Open
      BY <2>1 DEF Open
    <3> QED BY <1>0, <2>1, <3>1, <3>2 DEF NoOrphans
  <2>6. NoDangling'
    <3>1. \A x \in Fds : fd_table[x].type = "SOCKET" => fd_table[x].obj \in Objects
      BY <1>0, <1>1, EntryIs DEF Objects
    <3> QED BY <1>0, <2>1, <2>3, <3>1, DanglingKept
  <2> QED BY <2>1, <2>4, <2>5, <2>6 DEF FdInv, FdKept
<1> QED BY <1>3, <1>4, <1>5, <1>6, <1>7, <1>8, <1>9, <1>10
----------------------------------------------------------------------------
(* The clients in the kernel.                                              *)

Taken == {k \in Places : active_clients[k] # "none"}

(* The client table is finite, so its entries can be counted.              *)
LEMMA TakenIs ==
  /\ IsFiniteSet(Places) /\ Cardinality(Places) = HTTP_MAX_CLIENTS /\ Places \subseteq Nat
  /\ IsFiniteSet(Taken) /\ Cardinality(Taken) \in Nat /\ Taken \subseteq Places
<1>1. IsFiniteSet(Places) /\ Cardinality(Places) = HTTP_MAX_CLIENTS /\ Places \subseteq Nat
  BY WebAssumption, FS_Interval DEF Places
<1>2. Taken \subseteq Places
  BY DEF Taken
<1>3. IsFiniteSet(Taken)
  BY <1>1, <1>2, FS_Subset
<1>4. Cardinality(Taken) \in Nat
  BY <1>3, FS_CardinalityType
<1> QED BY <1>1, <1>2, <1>3, <1>4

(* A step that leaves the table and the clients' lives alone.              *)
LEMMA TableSame ==
  ASSUME TableLive, UNCHANGED <<active_clients, client_count>>,
         \A c \in Clients : client'[c].live = client[c].live,
         active_clients \in [Places -> Clients \cup {"none"}]
  PROVE  TableLive'
BY DEF TableLive

(* http_shutdown leaves an empty table.                                    *)
LEMMA TableCleared ==
  ASSUME active_clients' = [k \in Places |-> "none"], client_count' = 0
  PROVE  /\ TableLive' /\ active_clients' \in [Places -> Clients \cup {"none"}] /\ client_count' \in Nat
<1>1. {k \in Places : active_clients'[k] # "none"} = {} /\ \A k \in Places : active_clients'[k] = "none"
  OBVIOUS
<1>2. Cardinality({k \in Places : active_clients'[k] # "none"}) = 0
  BY <1>1, FS_EmptySet
<1> QED BY <1>1, <1>2 DEF TableLive

(* A new client enters the table once.                                     *)
LEMMA RegisteredKeeps ==
  ASSUME WebInv, NEW c \in Clients, Registered(c), NEW state \in ClientStates, state.live,
         client' = [client EXCEPT ![c] = state]
  PROVE  /\ active_clients' \in [Places -> Clients \cup {"none"}] /\ client_count' \in Nat
         /\ client' \in [Clients -> ClientStates] /\ TableLive'
<1> DEFINE F == {j \in Places : active_clients[j] = "none"}
           k == First(F)
<1>0. /\ active_clients \in [Places -> Clients \cup {"none"}] /\ client_count \in Nat
      /\ client \in [Clients -> ClientStates] /\ "none" \notin Clients
      /\ client_count = Cardinality(Taken) /\ HTTP_MAX_CLIENTS \in Nat
  BY WebAssumption DEF WebInv, WebBooks, TableLive, Taken
<1>1. /\ ~client[c].live /\ client_count < HTTP_MAX_CLIENTS
      /\ active_clients' = [active_clients EXCEPT ![k] = c] /\ client_count' = client_count + 1
  BY DEF Registered, CanCreate
<1>2. F # {}
  <2>1. Taken # Places
    BY <1>0, <1>1, TakenIs
  <2> QED BY <2>1 DEF Taken
<1>3. k \in Places /\ active_clients[k] = "none"
  <2>1. F \subseteq Nat
    BY TakenIs
  <2> HIDE DEF F
  <2>2. k \in F
    BY <1>2, <2>1, FirstIs
  <2> QED BY <2>2 DEF F
<1> HIDE DEF k, F
<1>4. /\ active_clients' \in [Places -> Clients \cup {"none"}] /\ client_count' \in Nat
      /\ client' \in [Clients -> ClientStates]
      /\ active_clients'[k] = c /\ \A j \in Places : j # k => active_clients'[j] = active_clients[j]
      /\ client'[c].live /\ \A d \in Clients : d # c => client'[d] = client[d]
  BY <1>0, <1>1, <1>3
<1>5. Taken' = Taken \cup {k} /\ k \notin Taken
  BY <1>0, <1>3, <1>4 DEF Taken
<1>6. client_count' = Cardinality(Taken')
  BY <1>0, <1>1, <1>5, TakenIs, FS_AddElement
<1>7. \A j \in Places : active_clients[j] # c
  BY <1>0, <1>1 DEF WebInv, TableLive
<1>8. ASSUME NEW j \in Places, active_clients'[j] # "none"
      PROVE  /\ client'[active_clients'[j]].live
             /\ \A i \in Places : active_clients'[i] = active_clients'[j] => i = j
  <2>1. CASE j = k
    BY <1>4, <1>7, <2>1
  <2>2. CASE j # k
    <3>1. /\ active_clients'[j] = active_clients[j] /\ active_clients[j] \in Clients /\ active_clients[j] # c
          /\ client[active_clients[j]].live
          /\ \A i \in Places : active_clients[i] = active_clients[j] => i = j
      BY <1>0, <1>4, <1>7, <1>8, <2>2 DEF WebInv, TableLive
    <3> QED BY <1>4, <3>1
  <2> QED BY <2>1, <2>2
<1> QED BY <1>4, <1>6, <1>8 DEF TableLive, Taken

(* A destroyed client leaves the table, if it was in it.                   *)
LEMMA UnregisterKeeps ==
  ASSUME WebInv, NEW c \in Clients, Unregister(c), NEW state \in ClientStates,
         client' = [client EXCEPT ![c] = state]
  PROVE  /\ active_clients' \in [Places -> Clients \cup {"none"}] /\ client_count' \in Nat
         /\ client' \in [Clients -> ClientStates] /\ TableLive'
<1> DEFINE mine == {k \in Places : active_clients[k] = c}
<1>0. /\ active_clients \in [Places -> Clients \cup {"none"}] /\ client_count \in Nat
      /\ client \in [Clients -> ClientStates] /\ "none" \notin Clients
      /\ client_count = Cardinality(Taken)
  BY WebAssumption DEF WebInv, WebBooks, TableLive, Taken
<1>1. /\ active_clients' = [k \in Places |-> IF active_clients[k] = c THEN "none" ELSE active_clients[k]]
      /\ client_count' = client_count - Cardinality(mine)
  BY DEF Unregister
<1>2. Taken' = Taken \ mine /\ Taken \cap mine = mine
  BY <1>0, <1>1 DEF Taken
<1>3. Cardinality(Taken') = Cardinality(Taken) - Cardinality(mine) /\ Cardinality(Taken') \in Nat
  <2>1. IsFiniteSet(Taken \ mine) /\ Cardinality(Taken \ mine) = Cardinality(Taken) - Cardinality(Taken \cap mine)
    BY TakenIs, FS_Difference
  <2> QED BY <1>2, <2>1, FS_CardinalityType
<1>4. client_count' = Cardinality(Taken') /\ client_count' \in Nat
  BY <1>0, <1>1, <1>3
<1>5. /\ active_clients' \in [Places -> Clients \cup {"none"}]
      /\ client' \in [Clients -> ClientStates] /\ \A d \in Clients : d # c => client'[d] = client[d]
  BY <1>0, <1>1
<1>6. ASSUME NEW j \in Places, active_clients'[j] # "none"
      PROVE  /\ client'[active_clients'[j]].live
             /\ \A i \in Places : active_clients'[i] = active_clients'[j] => i = j
  <2>1. /\ active_clients'[j] = active_clients[j] /\ active_clients[j] \in Clients /\ active_clients[j] # c
        /\ client[active_clients[j]].live
        /\ \A i \in Places : active_clients[i] = active_clients[j] => i = j
    BY <1>0, <1>1, <1>6 DEF WebInv, TableLive
  <2>2. \A i \in Places : active_clients'[i] = active_clients[i] \/ active_clients'[i] = "none"
    BY <1>1
  <2> QED BY <1>5, <1>6, <2>1, <2>2
<1> QED BY <1>4, <1>5, <1>6 DEF TableLive, Taken

(* What every step of the clients does.                                    *)
WebKept ==
  /\ WebInv' /\ pool' \in Pools /\ queued' \in 0..NET_MAX_SOCKETS
  /\ handles' \in [Handles -> Slots \cup {NoSlot}] /\ UNCHANGED conns
  /\ webTrouble \subseteq webTrouble'

(* http_shutdown destroys exactly the clients of the table.                *)
LEMMA ShutdownKeeps ==
  ASSUME WebInv, pool \in Pools, http_shutdown
  PROVE  /\ pool' \in Pools /\ TableLive' /\ active_clients' \in [Places -> Clients \cup {"none"}]
         /\ client_count' \in Nat /\ client' \in [Clients -> ClientStates]
         /\ webTrouble \subseteq webTrouble' /\ webTrouble' \subseteq {"lost"}
<1> DEFINE gone == {active_clients[k] : k \in Places} \ {"none"}
           closed == {SocketOf(c) : c \in gone} \ {NoSlot}
<1>1. /\ active_clients' = [k \in Places |-> "none"] /\ client_count' = 0
      /\ pool' = [i \in Slots |-> IF i \in closed THEN Zeroed ELSE pool[i]]
      /\ client' = [c \in Clients |-> IF c \in gone THEN Freed ELSE client[c]]
      /\ WebNote("lost", \E c \in gone : client[c].ctx)
  BY DEF http_shutdown
<1> HIDE DEF gone, closed
<1>2. pool' \in Pools
  BY <1>1, SlotsAre DEF Pools
<1>3. client' \in [Clients -> ClientStates]
  BY <1>1 DEF WebInv, WebBooks, ClientStates, Freed
<1>4. webTrouble \subseteq webTrouble' /\ webTrouble' \subseteq {"lost"}
  BY <1>1 DEF WebNote, WebInv, WebBooks
<1> QED BY <1>1, <1>2, <1>3, <1>4, TableCleared

(* Every step of the clients and of the direct users keeps the clients'    *)
(* invariant.                                                              *)
LEMMA WebNextKeeps ==
  ASSUME WebInv, pool \in Pools, queued \in 0..NET_MAX_SOCKETS,
         handles \in [Handles -> Slots \cup {NoSlot}], WebNext
  PROVE  WebKept
<1>0. /\ up \subseteq {"http", "https", "tls"} /\ webTrouble \subseteq {"lost"}
      /\ active_clients \in [Places -> Clients \cup {"none"}] /\ client_count \in Nat
      /\ client \in [Clients -> ClientStates]
      /\ num_dns_servers \in 0..MAX_DNS_SERVERS /\ TableLive
  BY DEF WebInv, WebBooks
<1>a. \A what, holds : what = "lost" /\ WebNote(what, holds) =>
        webTrouble \subseteq webTrouble' /\ webTrouble' \subseteq {"lost"}
  BY <1>0 DEF WebNote
<1>b. Freed \in ClientStates
  BY DEF Freed, ClientStates
<1>c. ASSUME pool' \in Pools, queued' \in 0..NET_MAX_SOCKETS, handles' \in [Handles -> Slots \cup {NoSlot}],
             webTrouble \subseteq webTrouble', webTrouble' \subseteq {"lost"},
             UNCHANGED <<up, active_clients, client_count, conns, num_dns_servers>>,
             client' \in [Clients -> ClientStates],
             \A c \in Clients : client'[c].live = client[c].live
      PROVE  WebKept
  <2>1. TableLive'
    BY <1>0, <1>c, TableSame
  <2> QED BY <1>0, <1>c, <2>1 DEF WebKept, WebInv, WebBooks
<1>1. CASE http_init \/ https_init
  <2>1. /\ UNCHANGED <<pool, queued, conns, handles, client, num_dns_servers, webTrouble>>
        /\ up' \subseteq {"http", "https", "tls"}
    BY <1>0, <1>1 DEF http_init, https_init, netVars
  <2>2. CASE active_clients' = [k \in Places |-> "none"] /\ client_count' = 0
    BY <1>0, <2>1, <2>2, TableCleared DEF WebKept, WebInv, WebBooks
  <2>3. CASE UNCHANGED <<active_clients, client_count>>
    <3>1. TableLive'
      BY <1>0, <2>1, <2>3, TableSame
    <3> QED BY <1>0, <2>1, <2>3, <3>1 DEF WebKept, WebInv, WebBooks
  <2> QED BY <1>1, <2>2, <2>3 DEF http_init, https_init
<1>2. CASE Shutdown \/ https_shutdown
  <2>1. /\ UNCHANGED <<queued, conns, handles, num_dns_servers>>
        /\ up' \subseteq {"http", "https", "tls"}
    BY <1>0, <1>2 DEF Shutdown, https_shutdown
  <2>2. CASE http_shutdown
    BY <1>0, <2>1, <2>2, ShutdownKeeps DEF WebKept, WebInv, WebBooks
  <2>3. CASE UNCHANGED <<pool, active_clients, client_count, client, webTrouble>>
    <3>1. TableLive'
      BY <1>0, <2>3, TableSame
    <3> QED BY <1>0, <2>1, <2>3, <3>1 DEF WebKept, WebInv, WebBooks
  <2> QED BY <1>2, <2>2, <2>3 DEF Shutdown, https_shutdown
<1>3. CASE tls_init \/ tls_cleanup
  <2>1. /\ UNCHANGED <<pool, queued, conns, handles, active_clients, client_count, client, num_dns_servers, webTrouble>>
        /\ up' \subseteq {"http", "https", "tls"}
    BY <1>0, <1>3 DEF tls_init, tls_cleanup, netVars
  <2>2. TableLive'
    BY <1>0, <2>1, TableSame
  <2> QED BY <1>0, <2>1, <2>2 DEF WebKept, WebInv, WebBooks
<1>4. ASSUME NEW c \in Clients, http_client_create(c) \/ https_client_create(c) PROVE WebKept
  <2>1. Registered(c) /\ UNCHANGED <<pool, queued, conns, handles, up, num_dns_servers, webTrouble>>
    BY <1>4 DEF http_client_create, https_client_create, netVars
  <2>2. \E state \in ClientStates : state.live /\ client' = [client EXCEPT ![c] = state]
    <3>1. /\ [Freed EXCEPT !.live = TRUE, !.user = TRUE] \in ClientStates
          /\ [Freed EXCEPT !.live = TRUE, !.user = TRUE].live
          /\ [Freed EXCEPT !.live = TRUE, !.user = TRUE, !.ctx = TRUE] \in ClientStates
          /\ [Freed EXCEPT !.live = TRUE, !.user = TRUE, !.ctx = TRUE].live
      BY DEF Freed, ClientStates
    <3> QED BY <1>4, <3>1 DEF http_client_create, https_client_create
  <2>3. /\ active_clients' \in [Places -> Clients \cup {"none"}] /\ client_count' \in Nat
        /\ client' \in [Clients -> ClientStates] /\ TableLive'
    BY <2>1, <2>2, RegisteredKeeps
  <2> QED BY <1>0, <2>1, <2>3 DEF WebKept, WebInv, WebBooks
<1>5. ASSUME NEW c \in Clients, http_client_destroy(c) PROVE WebKept
  <2>1. /\ Unregister(c) /\ client' = [client EXCEPT ![c] = Freed] /\ pool' = net_socket_close(pool, SocketOf(c))
        /\ UNCHANGED <<queued, conns, handles, up, num_dns_servers, webTrouble>>
    BY <1>5 DEF http_client_destroy
  <2>2. pool' \in Pools
    BY <2>1, CloseIs
  <2>3. /\ active_clients' \in [Places -> Clients \cup {"none"}] /\ client_count' \in Nat
        /\ client' \in [Clients -> ClientStates] /\ TableLive'
    BY <1>b, <2>1, UnregisterKeeps
  <2> QED BY <1>0, <2>1, <2>2, <2>3 DEF WebKept, WebInv, WebBooks
<1>d. ASSUME NEW c \in Clients, HttpsDestroyed(c)
      PROVE  /\ active_clients' \in [Places -> Clients \cup {"none"}] /\ client_count' \in Nat
             /\ client' \in [Clients -> ClientStates] /\ TableLive'
  <2>1. CASE Unregister(c) /\ client' = [client EXCEPT ![c] = Freed]
    BY <1>b, <2>1, UnregisterKeeps
  <2>2. CASE client' = [client EXCEPT ![c].user = FALSE] /\ UNCHANGED <<active_clients, client_count>>
    <3>1. client' \in [Clients -> ClientStates] /\ \A d \in Clients : client'[d].live = client[d].live
      BY <1>0, <2>2, ZenonT(30) DEF ClientStates
    <3> QED BY <1>0, <2>2, <3>1, TableSame
  <2> QED BY <1>d, <2>1, <2>2 DEF HttpsDestroyed
<1>6. ASSUME NEW c \in Clients, https_client_destroy(c) PROVE WebKept
  <2>1. /\ pool' \in {pool, net_socket_close(pool, client[c].sock)} /\ HttpsDestroyed(c)
        /\ UNCHANGED <<queued, conns, handles, up, num_dns_servers, webTrouble>>
    BY <1>6 DEF https_client_destroy
  <2>2. pool' \in Pools
    BY <2>1, CloseIs
  <2>3. /\ active_clients' \in [Places -> Clients \cup {"none"}] /\ client_count' \in Nat
        /\ client' \in [Clients -> ClientStates] /\ TableLive'
    BY <1>d, <2>1
  <2> QED BY <1>0, <2>1, <2>2, <2>3 DEF WebKept, WebInv, WebBooks
<1>7. ASSUME NEW c \in Clients, http_client_disconnect(c) PROVE WebKept
  <2>1. /\ client' = [client EXCEPT ![c].connected = FALSE, ![c].sock = NoSlot]
        /\ pool' = net_socket_close(pool, SocketOf(c))
        /\ UNCHANGED <<queued, conns, handles, up, active_clients, client_count, num_dns_servers, webTrouble>>
    BY <1>7 DEF http_client_disconnect
  <2>2. pool' \in Pools
    BY <2>1, CloseIs
  <2>3. client' \in [Clients -> ClientStates] /\ \A d \in Clients : client'[d].live = client[d].live
    <3>1. \A r \in ClientStates :
            LET q == [r EXCEPT !.connected = FALSE, !.sock = NoSlot]
            IN  q \in ClientStates /\ q.live = r.live
      BY DEF ClientStates
    <3>2. client' = [client EXCEPT ![c] = [client[c] EXCEPT !.connected = FALSE, !.sock = NoSlot]]
      BY <1>0, <2>1
    <3> QED BY <1>0, <3>1, <3>2
  <2> QED BY <1>0, <1>c, <2>1, <2>2, <2>3
<1>8. ASSUME NEW c \in Clients, http_send_request(c) PROVE WebKept
  <2>1. /\ queued' = queued \/ (queued > 0 /\ queued' = queued - 1)
        /\ UNCHANGED <<pool, conns, handles, up, active_clients, client_count, client, num_dns_servers, webTrouble>>
    BY <1>8 DEF http_send_request, net_socket_receive
  <2>2. queued' \in 0..NET_MAX_SOCKETS
    BY <2>1, NetAssumption
  <2> QED BY <1>0, <1>c, <2>1, <2>2
<1>9. ASSUME NEW c \in Clients, NEW out, http_client_connect(c, out) PROVE WebKept
  <2> DEFINE r == Dialled(out)
  <2>1. /\ pool' = r.pool
        /\ client' = IF r.fd = NoSlot THEN client
                     ELSE [client EXCEPT ![c].sock = r.fd, ![c].connected = TRUE]
        /\ webTrouble \subseteq webTrouble' /\ webTrouble' \subseteq {"lost"}
        /\ UNCHANGED <<queued, conns, handles, up, active_clients, client_count, num_dns_servers>>
    BY <1>9, <1>a DEF http_client_connect
  <2>2. r.pool \in Pools /\ (r.fd # NoSlot => r.fd \in Slots)
    BY DialledIs
  <2> HIDE DEF r
  <2>3. client' \in [Clients -> ClientStates] /\ \A d \in Clients : client'[d].live = client[d].live
    <3>1. CASE r.fd = NoSlot
      BY <1>0, <2>1, <3>1
    <3>2. CASE r.fd # NoSlot
      <4>1. client' = [client EXCEPT ![c].sock = r.fd, ![c].connected = TRUE] /\ r.fd \in Slots
        BY <2>1, <2>2, <3>2
      <4> DEFINE x == [client[c] EXCEPT !.sock = r.fd, !.connected = TRUE]
      <4>2. x \in ClientStates /\ x.live = client[c].live
        BY <1>0, <4>1, ZenonT(30) DEF ClientStates
      <4>3. client' = [client EXCEPT ![c] = x]
        BY <1>0, <4>1 DEF ClientStates
      <4> HIDE DEF x
      <4> QED BY <1>0, <4>2, <4>3
    <3> QED BY <3>1, <3>2
  <2> QED BY <1>0, <1>c, <2>1, <2>2, <2>3
<1>10. ASSUME NEW c \in Clients, NEW out, https_client_connect(c, out) PROVE WebKept
  <2> DEFINE r == Dialled(out)
  <2>1. /\ pool' = r.pool
        /\ \/ r.fd = NoSlot /\ UNCHANGED <<active_clients, client_count, client>>
           \/ r.fd # NoSlot /\ tls_handshake(r.pool, r.fd)
           \/ HttpsDestroyed(c)
        /\ queued' = IF r.fd # NoSlot /\ tls_client_hello(r.pool, r.fd)
                     THEN queued - tls_receive_record(r.pool, r.fd) ELSE queued
        /\ webTrouble \subseteq webTrouble' /\ webTrouble' \subseteq {"lost"}
        /\ UNCHANGED <<conns, handles, up, num_dns_servers>>
    BY <1>10, <1>a DEF https_client_connect
  <2>2. r.pool \in Pools
    BY DialledIs
  <2>3. ~tls_client_hello(r.pool, r.fd) /\ ~tls_handshake(r.pool, r.fd)
    BY <2>2 DEF tls_client_hello, tls_send_record, tls_handshake, net_socket_send, Pools, Sockets, States
  <2> HIDE DEF r
  <2>4. queued' = queued
    BY <2>1, <2>3
  <2>5. CASE UNCHANGED <<active_clients, client_count, client>>
    BY <1>0, <1>c, <2>1, <2>2, <2>4, <2>5
  <2>6. CASE HttpsDestroyed(c)
    <3>1. /\ active_clients' \in [Places -> Clients \cup {"none"}] /\ client_count' \in Nat
          /\ client' \in [Clients -> ClientStates] /\ TableLive'
      BY <1>d, <2>6
    <3> QED BY <1>0, <2>1, <2>2, <2>4, <3>1 DEF WebKept, WebInv, WebBooks
  <2> QED BY <2>1, <2>3, <2>5, <2>6
<1>11. CASE dns_init \/ dns_reset_servers \/ dns_set_server
  <2>1. /\ UNCHANGED <<pool, queued, conns, handles, up, active_clients, client_count, client, webTrouble>>
        /\ num_dns_servers' \in 0..MAX_DNS_SERVERS
    BY <1>0, <1>11, WebAssumption DEF dns_init, dns_reset_servers, dns_set_server, netVars, clientVars
  <2>2. TableLive'
    BY <1>0, <2>1, TableSame
  <2> QED BY <1>0, <2>1, <2>2 DEF WebKept, WebInv, WebBooks
<1>12. CASE net_resolve_dns
  <2> DEFINE r == net_socket_create(pool, "UDP", TRUE)
  <2>1. /\ pool' = net_socket_close(r.pool, r.fd)
        /\ webTrouble \subseteq webTrouble' /\ webTrouble' \subseteq {"lost"}
        /\ UNCHANGED <<queued, conns, handles, up, active_clients, client_count, client, num_dns_servers>>
    BY <1>12, <1>a DEF net_resolve_dns, clientVars
  <2>2. r.pool \in Pools
    <3>1. "UDP" \in Types /\ TRUE \in BOOLEAN
      BY DEF Types
    <3> QED BY <3>1, CreateIs
  <2>3. pool' \in Pools
    BY <2>1, <2>2, CloseIs
  <2> QED BY <1>0, <1>c, <2>1, <2>3
<1>13. CASE Direct /\ UNCHANGED <<clientVars, num_dns_servers>>
  <2>0. UNCHANGED <<up, active_clients, client_count, client, num_dns_servers>>
    BY <1>13 DEF clientVars
  <2>1. webTrouble \subseteq webTrouble' /\ webTrouble' \subseteq {"lost"}
    BY <1>0, <1>13, <1>a DEF Direct
  <2>2. UNCHANGED conns
    BY <1>13 DEF Direct, Create, net_socket_accept, net_socket_bind, net_socket_listen, Receive, Close
  <2>3. pool' \in Pools /\ queued' \in 0..NET_MAX_SOCKETS /\ handles' \in [Handles -> Slots \cup {NoSlot}]
    <3>1. ASSUME NEW h \in Handles, NEW type \in Types, NEW mem \in BOOLEAN, Create(h, type, mem)
          PROVE  <2>3!:
      <4> DEFINE r == net_socket_create(pool, type, mem)
      <4>1. pool' = r.pool /\ handles' = [handles EXCEPT ![h] = r.fd] /\ queued' = queued
        BY <3>1 DEF Create
      <4>2. r.pool \in Pools /\ r.fd \in Slots \cup {NoSlot}
        BY CreateTypes
      <4> HIDE DEF r
      <4> QED BY <4>1, <4>2
    <3>2. ASSUME NEW h \in Handles, NEW new \in Handles, NEW mem \in BOOLEAN, net_socket_accept(h, new, mem)
          PROVE  <2>3!:
      <4> DEFINE r == net_socket_create(pool, "TCP", mem)
      <4>0. "TCP" \in Types
        BY DEF Types
      <4>1. r.pool \in Pools /\ r.fd \in Slots \cup {NoSlot}
        BY <4>0, CreateTypes
      <4>2. queued > 0 /\ \/ pool' = r.pool /\ UNCHANGED <<queued, handles>>
                          \/ /\ r.fd # NoSlot
                             /\ pool' = [r.pool EXCEPT ![r.fd].state = "SYN_RECEIVED", ![r.fd].bound = FALSE]
                             /\ queued' = queued - 1 /\ handles' = [handles EXCEPT ![new] = r.fd]
        BY <3>2 DEF net_socket_accept
      <4> HIDE DEF r
      <4>3. CASE pool' = r.pool /\ UNCHANGED <<queued, handles>>
        BY <4>1, <4>3
      <4>4. CASE /\ r.fd # NoSlot
                 /\ pool' = [r.pool EXCEPT ![r.fd].state = "SYN_RECEIVED", ![r.fd].bound = FALSE]
                 /\ queued' = queued - 1 /\ handles' = [handles EXCEPT ![new] = r.fd]
        <5>1. r.fd \in Slots
          BY <4>1, <4>4
        <5>2. pool' \in Pools
          BY <4>1, <4>4, <5>1 DEF Pools, Sockets, States
        <5>3. queued' \in 0..NET_MAX_SOCKETS
          BY <4>2, <4>4, NetAssumption
        <5> QED BY <4>4, <5>1, <5>2, <5>3
      <4> QED BY <4>2, <4>3, <4>4
    <3>3. ASSUME NEW h \in Handles, net_socket_bind(h) \/ net_socket_listen(h) PROVE <2>3!:
      <4>1. handles[h] \in Slots /\ UNCHANGED <<queued, handles>>
        BY <3>3 DEF net_socket_bind, net_socket_listen
      <4>2. \/ pool' = [pool EXCEPT ![handles[h]].bound = TRUE]
            \/ pool' = [pool EXCEPT ![handles[h]].state = "LISTEN"]
        BY <3>3 DEF net_socket_bind, net_socket_listen
      <4>3. pool' \in Pools
        <5>1. CASE pool' = [pool EXCEPT ![handles[h]].bound = TRUE]
          BY <4>1, <5>1 DEF Pools, Sockets
        <5>2. CASE pool' = [pool EXCEPT ![handles[h]].state = "LISTEN"]
          BY <4>1, <5>2 DEF Pools, Sockets, States
        <5> QED BY <4>2, <5>1, <5>2
      <4> QED BY <4>1, <4>3
    <3>4. ASSUME NEW h \in Handles, Receive(h) PROVE <2>3!:
      <4>1. queued > 0 /\ queued' = queued - 1 /\ UNCHANGED <<pool, handles>>
        BY <3>4 DEF Receive, net_socket_receive
      <4>2. queued' \in 0..NET_MAX_SOCKETS
        BY <4>1, NetAssumption
      <4> QED BY <4>1, <4>2
    <3>5. ASSUME NEW h \in Handles, Close(h) PROVE <2>3!:
      BY <3>5, CloseIs DEF Close
    <3> QED BY <1>13, <3>1, <3>2, <3>3, <3>4, <3>5 DEF Direct
  <2> QED BY <1>0, <1>c, <2>0, <2>1, <2>2, <2>3
<1>14. CASE OtherPacket /\ UNCHANGED <<clientVars, num_dns_servers, webTrouble>>
  <2>1. UNCHANGED <<pool, handles, conns, up, active_clients, client_count, client, num_dns_servers, webTrouble>>
    BY <1>14 DEF OtherPacket, net_process_packets, clientVars
  <2>2. queued' \in 0..NET_MAX_SOCKETS
    BY <1>14, NetAssumption DEF OtherPacket, net_process_packets, Enqueue
  <2> QED BY <1>0, <1>c, <2>1, <2>2
<1> QED BY <1>1, <1>2, <1>3, <1>4, <1>5, <1>6, <1>7, <1>8, <1>9, <1>10, <1>11, <1>12, <1>13, <1>14 DEF WebNext

----------------------------------------------------------------------------
(* Who has which socket: the steps of the system calls.                    *)
(* Sockets that stay in use with the handle they have keep it.             *)
LEMMA HeldKept ==
  ASSUME UNCHANGED sock, \A s \in Socks : memory'[s] = "live" <=> memory[s] = "live"
  PROVE  held' = held
BY DEF held

(* As long as no socket is shared or duplicated a system call leaves every *)
(* socket with one user.                                                   *)
LEMMA CallsOwn ==
  ASSUME FdInv, pool \in Pools, Apart, focus \in {"pipes", "sockets"}, Owned,
         fdTrouble \subseteq {"twice", "wild"}, fdTrouble' \subseteq {"twice", "wild"},
         Calls \/ \E o \in Objects : Reused(o), UNCHANGED <<client, handles>>
  PROVE  Owned'
<1>0. /\ \A c \in Clients : ~client[c].connected
      /\ \A h \in Handles : handles[h] = NoSlot
      /\ sock \in [Socks -> Slots \cup {NoSlot}] /\ fd_table \in Tables /\ FdBooks /\ NoDangling
      /\ memory \in [Objects -> Memories] /\ Socks \subseteq Objects /\ Pipes \subseteq Objects
  BY DEF Apart, FdInv, FdBooks, Tables, Objects
<1>1. /\ \A i \in Slots : InUse(i) => \E s \in Socks : held[s] = i
      /\ \A s, t \in Socks : held[s] = held[t] /\ held[s] # NoSlot => s = t
  BY <1>0, SlotsAre DEF Owned, HasUser, OneUser
<1>2. ASSUME /\ \A i \in Slots : InUse(i)' => \E s \in Socks : held'[s] = i
             /\ \A s, t \in Socks : held'[s] = held'[t] /\ held'[s] # NoSlot => s = t
      PROVE  Owned'
  BY <1>0, <1>2 DEF Owned, HasUser, OneUser, Connected
<1>b. ASSUME UNCHANGED <<pool, held>> PROVE Owned'
  BY <1>1, <1>2, <1>b DEF InUse
<1>3. ASSUME UNCHANGED <<pool, sock>>, \A s \in Socks : memory'[s] = "live" <=> memory[s] = "live" PROVE Owned'
  BY <1>3, <1>b, HeldKept
<1>4. ASSUME NEW D \in SUBSET Fds, FreeObjects(D) PROVE Owned'
  <2>1. /\ sock' = sock
        /\ \A o \in Objects : /\ memory'[o] = IF o \in FreedBy(D) /\ memory[o] = "live" THEN "left" ELSE memory[o]
                              /\ memory'[o] = "live" => memory[o] = "live" /\ o \notin FreedBy(D)
        /\ \A i \in Slots : pool'[i] = IF \E s \in FreedBy(D) \cap Socks : sock[s] = i
                                       THEN Zeroed ELSE pool[i]
    BY <1>0, <1>4, FreeObjectsIs
  <2>a. \A s \in Socks : held'[s] = IF s \in FreedBy(D) THEN NoSlot ELSE held[s]
    BY <1>0, <2>1 DEF held
  <2>2. ASSUME NEW i \in Slots, InUse(i)' PROVE \E s \in Socks : held'[s] = i
    <3>1. ~\E s \in FreedBy(D) \cap Socks : sock[s] = i
      BY <2>1, <2>2, SlotsAre DEF InUse
    <3>2. pool'[i] = pool[i]
      BY <2>1, <3>1
    <3>3. PICK s \in Socks : held[s] = i
      BY <1>1, <2>2, <3>2 DEF InUse
    <3>4. s \notin FreedBy(D)
      BY <3>1, <3>3, SlotsAre DEF held
    <3> QED BY <2>a, <3>3, <3>4
  <2>3. \A s, t \in Socks : held'[s] = held'[t] /\ held'[s] # NoSlot => s = t
    BY <1>1, <2>a
  <2> QED BY <1>2, <2>2, <2>3
<1>5. CASE sys_open \/ sys_fork
  BY <1>3, <1>5 DEF sys_open, sys_fork, netVars, objects
<1>6. CASE sys_exit
  <2>1. Fds \in SUBSET Fds /\ FreeObjects(Fds)
    BY <1>6 DEF sys_exit
  <2> QED BY <1>4, <2>1
<1>7. ASSUME NEW p \in Pipes, NEW mem \in BOOLEAN, sys_pipe(p, mem) PROVE Owned'
  <2>1. UNCHANGED <<pool, sock>> /\ \E m : memory' = [memory EXCEPT ![p] = m]
    BY <1>7 DEF sys_pipe, netVars
  <2>2. \A s \in Socks : s # p
    BY FdAssumption
  <2>3. \A s \in Socks : memory'[s] = memory[s]
    BY <1>0, <2>1, <2>2
  <2> QED BY <1>3, <2>1, <2>3
<1>8. ASSUME NEW s \in Socks, NEW type \in Types, NEW tcp \in BOOLEAN, NEW mem \in BOOLEAN,
             sys_socket(s, type, tcp, mem)
      PROVE  Owned'
  <2> DEFINE i == allocate_socket_fd(pool)
             r == net_socket_create(pool, type, tcp)
  <2>1. /\ r.pool \in Pools
        /\ r.fd = NoSlot =>
             r.pool = pool \/ (i \in Slots /\ pool[i].state = "CLOSED" /\ r.pool = [pool EXCEPT ![i] = Zeroed])
        /\ r.fd # NoSlot =>
             /\ i \in Slots /\ r.fd = i /\ Only(i, pool, r.pool) /\ pool[i].state = "CLOSED"
             /\ r.pool[i].state = "CLOSED" /\ r.pool[i].fd = i /\ r.pool[i].type = type
    BY CreateIs
  <2>2. ~SharedSock(i)
    BY <1>8 DEF sys_socket, FdNote
  <2>3. memory[s] # "live" /\ \/ /\ pool' = r.pool /\ sock' = [sock EXCEPT ![s] = r.fd] /\ r.fd # NoSlot
                                 /\ memory' = [memory EXCEPT ![s] = "live"]
                              \/ pool' = net_socket_close(r.pool, r.fd) /\ sock' = sock /\ memory' = memory
    BY <1>8 DEF sys_socket
  <2> HIDE DEF i, r
  <2>4. CASE pool' = r.pool /\ sock' = [sock EXCEPT ![s] = r.fd] /\ r.fd # NoSlot
             /\ memory' = [memory EXCEPT ![s] = "live"]
    <3>1. i \in Slots /\ r.fd = i /\ Only(i, pool, pool') /\ i # NoSlot
      BY <2>1, <2>4, SlotsAre
    <3>2. \A t \in Socks : held[t] # i
      BY <2>2, <3>1 DEF SharedSock, held
    <3>3. held'[s] = i /\ \A t \in Socks : t # s => held'[t] = held[t]
      BY <1>0, <2>4, <3>1 DEF held
    <3>6. held[s] = NoSlot
      BY <2>3 DEF held
    <3>4. \A t, u \in Socks : held'[t] = held'[u] /\ held'[t] # NoSlot => t = u
      BY <1>1, <3>2, <3>3
    <3>5. ASSUME NEW j \in Slots, InUse(j)' PROVE \E t \in Socks : held'[t] = j
      <4>1. CASE j = i
        BY <3>3, <4>1
      <4>2. CASE j # i
        <5>1. pool'[j] = pool[j]
          BY <3>1, <4>2 DEF Only
        <5>2. PICK t \in Socks : held[t] = j
          BY <1>1, <3>5, <5>1 DEF InUse
        <5> QED BY <3>3, <3>6, <5>2, SlotsAre
      <4> QED BY <4>1, <4>2
    <3> QED BY <1>2, <3>4, <3>5
  <2>5. CASE pool' = net_socket_close(r.pool, r.fd) /\ sock' = sock /\ memory' = memory
    <3>0. held' = held
      BY <2>5, HeldKept
    <3>1. ASSUME NEW j \in Slots, InUse(j)' PROVE InUse(j)
      <4>1. CASE r.fd = NoSlot
        <5>1. pool' = r.pool
          BY <2>1, <2>5, <4>1, CloseIs, SlotsAre
        <5> QED BY <2>1, <3>1, <4>1, <5>1, SlotsAre DEF InUse, Pools
      <4>2. CASE r.fd # NoSlot
        <5>1. i \in Slots /\ r.fd = i /\ Only(i, pool, r.pool)
          BY <2>1, <4>2
        <5>2. Only(i, r.pool, pool') /\ pool'[i] = Zeroed
          BY <2>1, <2>5, <5>1, CloseIs
        <5>3. j # i
          BY <3>1, <5>2, SlotsAre DEF InUse
        <5> QED BY <3>1, <5>1, <5>2, <5>3 DEF InUse, Only
      <4> QED BY <4>1, <4>2
    <3> QED BY <1>1, <1>2, <3>0, <3>1
  <2> QED BY <2>3, <2>4, <2>5
<1>9. ASSUME NEW fd \in Fds, sys_dup(fd) PROVE Owned'
  BY <1>9 DEF sys_dup, FdNote
<1>10. ASSUME NEW fd \in Fds, sys_close(fd) PROVE Owned'
  <2>1. {fd} \in SUBSET Fds
    OBVIOUS
  <2> QED BY <1>4, <1>10, <2>1 DEF sys_close
<1>11. ASSUME NEW fd \in Fds, sys_connect(fd) PROVE Owned'
  <2> DEFINE o == fd_table[fd].obj
             i == sock[o]
  <2>0. /\ fd \in Open /\ fd_table[fd].type = "SOCKET" /\ \E j \in HandleOf(o) : pool' = net_socket_connect(pool, j)
        /\ sock' = sock /\ memory' = memory
    BY <1>11 DEF sys_connect, fdVars
  <2>2. o \in Socks
    BY <1>0, <2>0, EntryIs DEF Tables
  <2>a. memory[o] = "live"
    BY <1>0, <2>0 DEF NoDangling
  <2>1. pool' = net_socket_connect(pool, i)
    BY <2>0, <2>a DEF HandleOf
  <2>b. held[o] = i /\ held' = held
    BY <2>0, <2>2, <2>a, HeldKept DEF held
  <2> HIDE DEF o, i
  <2>3. Only(i, pool, pool')
    BY <2>1, ConnectIs
  <2>4. ASSUME NEW j \in Slots, InUse(j)' PROVE \E t \in Socks : held'[t] = j
    <3>1. CASE j = i
      BY <2>2, <2>b, <3>1
    <3>2. CASE j # i
      BY <1>1, <2>b, <2>3, <2>4, <3>2 DEF Only, InUse
    <3> QED BY <3>1, <3>2
  <2> QED BY <1>1, <1>2, <2>b, <2>4
<1>12. ASSUME NEW fd \in Fds, sys_recv(fd) PROVE Owned'
  BY <1>3, <1>12 DEF sys_recv, fdVars
<1>13. ASSUME NEW old \in Fds, NEW new \in Fds, NEW mem \in BOOLEAN, sys_dup2(old, new, mem) PROVE Owned'
  BY <1>13 DEF sys_dup2, FdNote
<1>14. ASSUME NEW fd \in Fds, NEW n \in 0..MaxCount, sys_read(fd, n) \/ sys_write(fd, n) PROVE Owned'
  BY <1>3, <1>14 DEF sys_read, sys_write, netVars
<1>15. ASSUME NEW fd \in Fds, NEW off \in 0..MaxFile, sys_lseek(fd, off) PROVE Owned'
  BY <1>3, <1>15 DEF sys_lseek, netVars, objects
<1>16. ASSUME NEW o \in Objects, Reused(o) PROVE Owned'
  <2>1. UNCHANGED <<pool, sock>> /\ memory[o] = "left" /\ memory' = [memory EXCEPT ![o] = "gone"]
    BY <1>16 DEF Reused, netVars
  <2>2. \A s \in Socks : memory'[s] = "live" <=> memory[s] = "live"
    BY <1>0, <2>1
  <2> QED BY <1>3, <2>1, <2>2
<1> QED BY <1>5, <1>6, <1>7, <1>8, <1>9, <1>10, <1>11, <1>12, <1>13, <1>14, <1>15, <1>16 DEF Calls
----------------------------------------------------------------------------
(* The steps of the clients in the kernel.                                 *)

(* A client's view of its socket.                                          *)
SameClient(c) ==
  /\ client'[c].connected = client[c].connected /\ client'[c].sock = client[c].sock
  /\ client'[c].ctx = client[c].ctx

(* A free socket is looked at, and perhaps cleared.                        *)
LEMMA OwnTouch ==
  ASSUME Owned, UNCHANGED <<handles, held>>, \A c \in Clients : SameClient(c),
         NEW i, Only(i, pool, pool'),
         i \in Slots => pool[i].state = "CLOSED" /\ pool'[i] \in {Zeroed, pool[i]}
  PROVE  Owned'
<1>1. \A j \in Slots : InUse(j)' => InUse(j)
  BY SlotsAre DEF Only, InUse
<1>2. Connected'
  <2> SUFFICES ASSUME NEW c \in Clients, client'[c].connected
               PROVE  /\ ~client'[c].ctx /\ client'[c].sock \in Slots
                      /\ pool'[client'[c].sock].state = "SYN_SENT" /\ pool'[client'[c].sock].fd = client'[c].sock
    BY DEF Connected
  <2>1. /\ client[c].connected /\ ~client[c].ctx /\ client[c].sock \in Slots
        /\ pool[client[c].sock].state = "SYN_SENT" /\ pool[client[c].sock].fd = client[c].sock
    BY DEF Owned, Connected, SameClient
  <2>2. client[c].sock # i
    BY <2>1
  <2> QED BY <2>1, <2>2 DEF Only, SameClient
<1>3. OneUser'
  BY DEF Owned, OneUser, SameClient
<1>4. HasUser'
  BY <1>1 DEF Owned, HasUser, SameClient
<1> QED BY <1>2, <1>3, <1>4 DEF Owned

(* Client c gives its socket back, if it has one.                          *)
LEMMA OwnRelease ==
  ASSUME Owned, UNCHANGED <<handles, held>>, \A s \in Socks : held[s] = NoSlot, NEW c \in Clients,
         \A d \in Clients : d # c => client'[d] = client[d], ~client'[c].connected,
         pool \in Pools,
         IF client[c].connected
         THEN Only(client[c].sock, pool, pool') /\ pool'[client[c].sock] = Zeroed
         ELSE pool' = pool
  PROVE  Owned'
<1>0. \A d \in Clients : client'[d].connected => d # c /\ client[d].connected /\ client'[d] = client[d]
  OBVIOUS
<1>1. OneUser'
  BY <1>0 DEF Owned, OneUser
<1>2. Connected'
  BY <1>0 DEF Owned, Connected, OneUser, Only
<1>3. ASSUME NEW i \in Slots, InUse(i)'
      PROVE  \/ \E d \in Clients : client'[d].connected /\ client'[d].sock = i
             \/ \E h \in Handles : handles'[h] = i
             \/ \E s \in Socks : held'[s] = i
  <2>1. ~(client[c].connected /\ i = client[c].sock)
    BY <1>3, SlotsAre DEF InUse
  <2>2. InUse(i)
    BY <1>3, <2>1 DEF InUse, Only
  <2> QED BY <2>1, <2>2 DEF Owned, HasUser
<1> QED BY <1>1, <1>2, <1>3 DEF Owned, HasUser

(* A free socket i goes to client c, or to handle h.                       *)
LEMMA OwnNewClient ==
  ASSUME Owned, Sane, UNCHANGED <<handles, held>>, NEW c \in Clients, ~client[c].connected,
         \A d \in Clients : d # c => client'[d] = client[d],
         NEW i \in Slots, pool[i].state = "CLOSED", \A h \in Handles : handles[h] # i,
         client'[c].connected, client'[c].sock = i, ~client'[c].ctx,
         Only(i, pool, pool'), pool'[i].state = "SYN_SENT", pool'[i].fd = i
  PROVE  Owned'
<1>1. \A d \in Clients : client[d].connected => client[d].sock # i
  BY DEF Owned, Connected
<1>2. Connected'
  <2> SUFFICES ASSUME NEW d \in Clients, client'[d].connected
               PROVE  /\ ~client'[d].ctx /\ client'[d].sock \in Slots
                      /\ pool'[client'[d].sock].state = "SYN_SENT" /\ pool'[client'[d].sock].fd = client'[d].sock
    BY DEF Connected
  <2>1. CASE d = c
    BY <2>1
  <2>2. CASE d # c
    <3>1. client'[d] = client[d] /\ client[d].connected /\ client[d].sock # i
      BY <1>1, <2>2
    <3> QED BY <3>1 DEF Owned, Connected, Only
  <2> QED BY <2>1, <2>2
<1>3. OneUser'
  <2>1. \A d \in Clients : client'[d].connected /\ client'[d].sock = i => d = c
    BY <1>1
  <2>2. ASSUME NEW d \in Clients, NEW e \in Clients, client'[d].connected, client'[e].connected,
               client'[d].sock = client'[e].sock
        PROVE  d = e
    <3>1. CASE d = c \/ e = c
      BY <2>1, <2>2, <3>1
    <3>2. CASE d # c /\ e # c
      BY <2>2, <3>2 DEF Owned, OneUser
    <3> QED BY <3>1, <3>2
  <2>3. ASSUME NEW d \in Clients, NEW h \in Handles, client'[d].connected PROVE client'[d].sock # handles'[h]
    BY <2>3 DEF Owned, OneUser
  <2> QED BY <2>2, <2>3 DEF Owned, OneUser
<1>4. ASSUME NEW j \in Slots, InUse(j)'
      PROVE  \/ \E d \in Clients : client'[d].connected /\ client'[d].sock = j
             \/ \E h \in Handles : handles'[h] = j
             \/ \E s \in Socks : held'[s] = j
  <2>1. CASE j = i
    BY <2>1
  <2>2. CASE j # i
    <3>1. InUse(j)
      BY <1>4, <2>2 DEF InUse, Only
    <3>2. \A d \in Clients : client[d].connected => d # c
      OBVIOUS
    <3> QED BY <3>1, <3>2 DEF Owned, HasUser
  <2> QED BY <2>1, <2>2
<1> QED BY <1>2, <1>3, <1>4 DEF Owned, HasUser

(* A direct user that gets a closed socket is its only user.               *)
LEMMA OwnNewHandle ==
  ASSUME Owned, UNCHANGED <<client, held>>, NEW h \in Handles, handles[h] = NoSlot,
         handles \in [Handles -> Slots \cup {NoSlot}],
         NEW i \in Slots, pool[i].state = "CLOSED", \A k \in Handles : handles[k] # i,
         handles' = [handles EXCEPT ![h] = i], Only(i, pool, pool')
  PROVE  Owned'
<1>0. handles'[h] = i /\ \A k \in Handles : k # h => handles'[k] = handles[k]
  OBVIOUS
<1>1. \A d \in Clients : client[d].connected => client[d].sock # i
  BY DEF Owned, Connected
<1>2. Connected'
  BY <1>1 DEF Owned, Connected, Only
<1>3. OneUser'
  BY <1>0, <1>1 DEF Owned, OneUser
<1>4. ASSUME NEW j \in Slots, InUse(j)'
      PROVE  \/ \E d \in Clients : client'[d].connected /\ client'[d].sock = j
             \/ \E k \in Handles : handles'[k] = j
             \/ \E s \in Socks : held'[s] = j
  <2>1. CASE j = i
    BY <1>0, <2>1
  <2>2. CASE j # i
    <3>1. InUse(j)
      BY <1>4, <2>2 DEF InUse, Only
    <3>2. \A k \in Handles : handles[k] = j => handles'[k] = j
      BY <1>0, SlotsAre
    <3> QED BY <3>1, <3>2 DEF Owned, HasUser
  <2> QED BY <2>1, <2>2
<1> QED BY <1>2, <1>3, <1>4 DEF Owned, HasUser

(* The socket of handle h changes, or is given back.                       *)
LEMMA OwnHandle ==
  ASSUME Owned, UNCHANGED <<client, held>>, NEW h \in Handles, handles[h] \in Slots,
         handles \in [Handles -> Slots \cup {NoSlot}], Only(handles[h], pool, pool'),
         \/ handles' = handles
         \/ handles' = [handles EXCEPT ![h] = NoSlot] /\ pool'[handles[h]] = Zeroed
  PROVE  Owned'
<1>1. \A d \in Clients : client[d].connected => client[d].sock # handles[h]
  BY DEF Owned, OneUser
<1>2. Connected'
  BY <1>1 DEF Owned, Connected, Only
<1>0. \A k \in Handles : handles'[k] = handles[k] \/ (k = h /\ handles'[k] = NoSlot)
  OBVIOUS
<1>3. OneUser'
  <2>1. ASSUME NEW d \in Clients, NEW k \in Handles, client[d].connected PROVE client[d].sock # handles'[k]
    <3>1. client[d].sock # handles[k] /\ client[d].sock \in Slots
      BY <2>1 DEF Owned, OneUser, Connected
    <3> QED BY <1>0, <3>1, SlotsAre
  <2>2. \A k, l \in Handles : handles'[k] = handles'[l] /\ handles'[k] # NoSlot => k = l
    BY <1>0 DEF Owned, OneUser
  <2> QED BY <2>1, <2>2 DEF Owned, OneUser
<1>4. ASSUME NEW j \in Slots, InUse(j)'
      PROVE  \/ \E d \in Clients : client'[d].connected /\ client'[d].sock = j
             \/ \E k \in Handles : handles'[k] = j
             \/ \E s \in Socks : held'[s] = j
  <2>1. CASE j = handles[h]
    <3>1. handles' = handles
      BY <1>4, <2>1, SlotsAre DEF InUse
    <3> QED BY <2>1, <3>1
  <2>2. CASE j # handles[h]
    <3>1. InUse(j)
      BY <1>4, <2>2 DEF InUse, Only
    <3>2. \A k \in Handles : handles[k] = j => handles'[k] = j
      BY <1>0, <2>2
    <3> QED BY <3>1, <3>2 DEF Owned, HasUser
  <2> QED BY <2>1, <2>2
<1> QED BY <1>2, <1>3, <1>4 DEF Owned, HasUser

(* Every client in the table gives its socket back.                        *)
LEMMA OwnShutdown ==
  ASSUME Owned, Sane, WebInv, pool \in Pools, UNCHANGED <<handles, held>>, http_shutdown
  PROVE  Owned'
<1> DEFINE gone == {active_clients[k] : k \in Places} \ {"none"}
           closed == {SocketOf(c) : c \in gone} \ {NoSlot}
<1>1. /\ pool' = [i \in Slots |-> IF i \in closed THEN Zeroed ELSE pool[i]]
      /\ client' = [c \in Clients |-> IF c \in gone THEN Freed ELSE client[c]]
  BY DEF http_shutdown
<1>2. gone \subseteq Clients
  BY DEF WebInv, WebBooks
<1>3. \A c \in Clients : /\ client[c].connected => SocketOf(c) = client[c].sock /\ SocketOf(c) \in Slots
                         /\ ~client[c].connected => SocketOf(c) = NoSlot
  BY DEF Owned, Connected, SocketOf
<1>4. \A i : i \in closed <=> \E c \in gone : client[c].connected /\ client[c].sock = i
  BY <1>2, <1>3, SlotsAre
<1> HIDE DEF gone, closed
<1>5. \A c \in Clients : client'[c].connected => client'[c] = client[c] /\ c \notin gone
  BY <1>1 DEF Freed
<1>6. \A c \in Clients : c \notin gone => client'[c] = client[c]
  BY <1>1
<1>7. Connected'
  <2> SUFFICES ASSUME NEW c \in Clients, client'[c].connected
               PROVE  /\ ~client'[c].ctx /\ client'[c].sock \in Slots
                      /\ pool'[client'[c].sock].state = "SYN_SENT" /\ pool'[client'[c].sock].fd = client'[c].sock
    BY DEF Connected
  <2>1. client'[c] = client[c] /\ c \notin gone /\ client[c].sock \in Slots
    BY <1>5 DEF Owned, Connected
  <2>2. client[c].sock \notin closed
    BY <1>2, <1>4, <2>1 DEF Owned, OneUser
  <2>3. pool'[client[c].sock] = pool[client[c].sock]
    BY <1>1, <2>1, <2>2
  <2> QED BY <2>1, <2>3 DEF Owned, Connected
<1>8. OneUser'
  BY <1>5 DEF Owned, OneUser
<1>9. ASSUME NEW i \in Slots, InUse(i)'
      PROVE  \/ \E d \in Clients : client'[d].connected /\ client'[d].sock = i
             \/ \E h \in Handles : handles'[h] = i
             \/ \E s \in Socks : held'[s] = i
  <2>1. i \notin closed
    BY <1>1, <1>9, SlotsAre DEF InUse
  <2>2. InUse(i)
    BY <1>1, <1>9, <2>1 DEF InUse
  <2> QED BY <1>4, <1>6, <2>1, <2>2 DEF Owned, HasUser
<1> QED BY <1>7, <1>8, <1>9 DEF Owned, HasUser

(* As long as nothing went wrong a step of the clients or of the direct    *)
(* users leaves every socket with one user.                                *)
LEMMA ClientsOwn ==
  ASSUME WebInv, pool \in Pools, handles \in [Handles -> Slots \cup {NoSlot}],
         \A s \in Socks : held[s] = NoSlot, Sane, Owned, webTrouble' = {}, WebNext, UNCHANGED held
  PROVE  Owned'
<1>0. client \in [Clients -> ClientStates]
  BY DEF WebInv, WebBooks
<1>a. CASE UNCHANGED <<pool, handles, client>>
  BY <1>a DEF Owned, HasUser, OneUser, Connected, InUse
<1>b. \A what, holds : WebNote(what, holds) => ~holds
  BY DEF WebNote
<1>1. CASE http_init \/ https_init \/ tls_init \/ tls_cleanup
  BY <1>1, <1>a DEF http_init, https_init, tls_init, tls_cleanup, netVars
<1>2. CASE Shutdown \/ https_shutdown
  <2>1. UNCHANGED handles /\ (http_shutdown \/ UNCHANGED <<pool, client>>)
    BY <1>2 DEF Shutdown, https_shutdown
  <2> QED BY <1>a, <2>1, OwnShutdown
<1>3. ASSUME NEW c \in Clients, http_client_create(c) \/ https_client_create(c) PROVE Owned'
  <2>1. ~client[c].live /\ UNCHANGED <<pool, handles>>
    BY <1>3 DEF http_client_create, https_client_create, Registered, netVars
  <2>2. ~client[c].connected
    BY <2>1 DEF Sane
  <2>3. (\A d \in Clients : d # c => client'[d] = client[d]) /\ ~client'[c].connected
    BY <1>0, <1>3 DEF http_client_create, https_client_create, Freed
  <2> QED BY <2>1, <2>2, <2>3, OwnRelease
<1>c. ASSUME NEW c \in Clients, UNCHANGED handles, pool' = net_socket_close(pool, SocketOf(c)),
             \A d \in Clients : d # c => client'[d] = client[d], ~client'[c].connected
      PROVE  Owned'
  <2>1. CASE client[c].connected
    <3>1. SocketOf(c) = client[c].sock /\ client[c].sock \in Slots
      BY <2>1 DEF SocketOf, Owned, Connected
    <3>2. Only(client[c].sock, pool, pool') /\ pool'[client[c].sock] = Zeroed
      BY <1>c, <3>1, CloseIs
    <3> QED BY <1>c, <2>1, <3>2, OwnRelease
  <2>2. CASE ~client[c].connected
    <3>1. pool' = pool
      BY <1>c, <2>2, CloseIs, SlotsAre DEF SocketOf
    <3> QED BY <1>c, <2>2, <3>1, OwnRelease
  <2> QED BY <2>1, <2>2
<1>4. ASSUME NEW c \in Clients, http_client_destroy(c) PROVE Owned'
  <2>1. UNCHANGED handles /\ pool' = net_socket_close(pool, SocketOf(c)) /\ client' = [client EXCEPT ![c] = Freed]
    BY <1>4 DEF http_client_destroy
  <2>2. (\A d \in Clients : d # c => client'[d] = client[d]) /\ ~client'[c].connected
    BY <1>0, <2>1 DEF Freed
  <2> QED BY <1>c, <2>1, <2>2
<1>5. ASSUME NEW c \in Clients, http_client_disconnect(c) PROVE Owned'
  <2>1. /\ UNCHANGED handles /\ pool' = net_socket_close(pool, SocketOf(c))
        /\ client' = [client EXCEPT ![c].connected = FALSE, ![c].sock = NoSlot]
    BY <1>5 DEF http_client_disconnect
  <2>2. (\A d \in Clients : d # c => client'[d] = client[d]) /\ ~client'[c].connected
    BY <1>0, <2>1 DEF ClientStates
  <2> QED BY <1>c, <2>1, <2>2
<1>6. ASSUME NEW c \in Clients, http_send_request(c) PROVE Owned'
  BY <1>6, <1>a DEF http_send_request
<1>7. ASSUME NEW c \in Clients, https_client_destroy(c) PROVE Owned'
  <2>1. ~client[c].connected
    BY <1>7 DEF https_client_destroy, Sane
  <2>2. UNCHANGED <<pool, handles>> /\ HttpsDestroyed(c)
    BY <1>7, <2>1 DEF https_client_destroy
  <2>3. (\A d \in Clients : d # c => client'[d] = client[d]) /\ ~client'[c].connected
    BY <1>0, <2>1, <2>2 DEF HttpsDestroyed, Freed, ClientStates
  <2> QED BY <2>1, <2>2, <2>3, OwnRelease
<1>8. ASSUME NEW c \in Clients, NEW out, http_client_connect(c, out) PROVE Owned'
  <2> DEFINE i == allocate_socket_fd(pool)
             r == Dialled(out)
  <2>1. /\ ~client[c].ctx /\ pool' = r.pool /\ UNCHANGED handles
        /\ client' = IF r.fd = NoSlot THEN client
                     ELSE [client EXCEPT ![c].sock = r.fd, ![c].connected = TRUE]
        /\ ~(Shared(i) \/ (client[c].connected /\ r.fd # NoSlot))
    BY <1>8, <1>b DEF http_client_connect
  <2>2. /\ r.pool \in Pools /\ Only(i, pool, r.pool)
        /\ i \in Slots => pool[i].state = "CLOSED"
        /\ r.fd = NoSlot /\ i \in Slots => r.pool[i] \in {Zeroed, pool[i]}
        /\ r.fd # NoSlot => /\ i \in Slots /\ r.fd = i
                            /\ r.pool[i].state = "SYN_SENT" /\ r.pool[i].fd = i
    BY DialledIs
  <2> HIDE DEF i, r
  <2>3. CASE r.fd = NoSlot
    BY <2>1, <2>2, <2>3, OwnTouch DEF SameClient
  <2>4. CASE r.fd # NoSlot
    <3>1. i \in Slots /\ r.fd = i /\ ~client[c].connected /\ \A h \in Handles : handles[h] # i
      BY <2>1, <2>2, <2>4, SlotsAre DEF Shared
    <3>2. client' = [client EXCEPT ![c].sock = i, ![c].connected = TRUE]
      BY <2>1, <2>4, <3>1
    <3>3. /\ \A d \in Clients : d # c => client'[d] = client[d]
          /\ client'[c].connected /\ client'[c].sock = i /\ ~client'[c].ctx
      BY <1>0, <2>1, <3>2 DEF ClientStates
    <3> QED BY <2>1, <2>2, <2>4, <3>1, <3>3, OwnNewClient
  <2> QED BY <2>3, <2>4
<1>9. ASSUME NEW c \in Clients, NEW out, https_client_connect(c, out) PROVE Owned'
  <2> DEFINE i == allocate_socket_fd(pool)
             r == Dialled(out)
  <2>1. /\ pool' = r.pool /\ UNCHANGED handles /\ (r.fd = NoSlot => client' = client)
        /\ ~(\/ r.fd # NoSlot /\ ~tls_handshake(r.pool, r.fd)
             \/ Shared(i))
    BY <1>9, <1>b DEF https_client_connect
  <2>2. /\ r.pool \in Pools /\ Only(i, pool, r.pool)
        /\ i \in Slots => pool[i].state = "CLOSED"
        /\ r.fd = NoSlot /\ i \in Slots => r.pool[i] \in {Zeroed, pool[i]}
        /\ r.fd # NoSlot => i \in Slots /\ r.fd = i /\ r.pool[i].state = "SYN_SENT"
    BY DialledIs
  <2> HIDE DEF i, r
  <2>3. r.fd = NoSlot
    BY <2>1, <2>2 DEF tls_handshake, tls_client_hello, tls_send_record, net_socket_send
  <2> QED BY <2>1, <2>2, <2>3, OwnTouch DEF SameClient
<1>10. CASE dns_init \/ dns_reset_servers \/ dns_set_server
  BY <1>10, <1>a DEF dns_init, dns_reset_servers, dns_set_server, netVars, clientVars
<1>11. CASE net_resolve_dns
  <2> DEFINE i == allocate_socket_fd(pool)
             r == net_socket_create(pool, "UDP", TRUE)
  <2>0. "UDP" \in Types
    BY DEF Types
  <2>1. /\ r.pool \in Pools
        /\ r.fd = NoSlot =>
             r.pool = pool \/ (i \in Slots /\ pool[i].state = "CLOSED" /\ r.pool = [pool EXCEPT ![i] = Zeroed])
        /\ r.fd # NoSlot =>
             /\ i \in Slots /\ r.fd = i /\ Only(i, pool, r.pool) /\ pool[i].state = "CLOSED"
             /\ r.pool[i].state = "CLOSED" /\ r.pool[i].fd = i /\ r.pool[i].type = "UDP"
    BY <2>0, CreateIs
  <2>2. r.fd # NoSlot /\ pool' = net_socket_close(r.pool, r.fd) /\ UNCHANGED <<handles, client>>
    BY <1>11 DEF net_resolve_dns, clientVars
  <2> HIDE DEF i, r
  <2>3. Only(i, r.pool, pool') /\ pool'[i] = Zeroed
    BY <2>1, <2>2, CloseIs
  <2>4. Only(i, pool, pool')
    BY <2>1, <2>2, <2>3 DEF Only
  <2> QED BY <2>1, <2>2, <2>3, <2>4, OwnTouch DEF SameClient
<1>12. CASE Direct /\ UNCHANGED <<clientVars, num_dns_servers>>
  <2>0. UNCHANGED client
    BY <1>12 DEF clientVars
  <2>1. ASSUME NEW type \in Types, NEW mem \in BOOLEAN
        PROVE  LET i == allocate_socket_fd(pool)
                   r == net_socket_create(pool, type, mem)
               IN  /\ Only(i, pool, r.pool) /\ (i \in Slots => pool[i].state = "CLOSED")
                   /\ r.fd = NoSlot /\ i \in Slots => r.pool[i] \in {Zeroed, pool[i]}
                   /\ r.fd # NoSlot => i \in Slots /\ r.fd = i
                   /\ r.pool \in Pools
    <3> DEFINE i == allocate_socket_fd(pool)
               r == net_socket_create(pool, type, mem)
    <3>1. /\ r.pool \in Pools
          /\ r.fd = NoSlot =>
               r.pool = pool \/ (i \in Slots /\ pool[i].state = "CLOSED" /\ r.pool = [pool EXCEPT ![i] = Zeroed])
          /\ r.fd # NoSlot =>
               /\ i \in Slots /\ r.fd = i /\ Only(i, pool, r.pool) /\ pool[i].state = "CLOSED"
               /\ r.pool[i].state = "CLOSED" /\ r.pool[i].fd = i /\ r.pool[i].type = type
      BY CreateIs
    <3>2. i \in Slots => pool[i].state = "CLOSED"
      BY AllocateIs, SlotsAre
    <3> HIDE DEF i, r
    <3>3. CASE r.fd = NoSlot
      <4>1. Only(i, pool, r.pool) /\ (i \in Slots => r.pool[i] \in {Zeroed, pool[i]})
        BY <3>1, <3>3 DEF Only, Pools
      <4> QED BY <3>1, <3>2, <3>3, <4>1 DEF i, r
    <3>4. CASE r.fd # NoSlot
      BY <3>1, <3>2, <3>4 DEF i, r
    <3> QED BY <3>3, <3>4
  <2>2. ASSUME NEW h \in Handles, NEW mem \in BOOLEAN, NEW type \in Types,
               Create(h, type, mem), WebNote("lost", Shared(allocate_socket_fd(pool)))
        PROVE  Owned'
    <3> DEFINE i == allocate_socket_fd(pool)
               r == net_socket_create(pool, type, mem)
    <3>1. /\ handles[h] = NoSlot /\ pool' = r.pool /\ handles' = [handles EXCEPT ![h] = r.fd]
          /\ ~Shared(i)
      BY <1>b, <2>2 DEF Create
    <3>2. /\ Only(i, pool, r.pool) /\ (i \in Slots => pool[i].state = "CLOSED")
          /\ r.fd = NoSlot /\ i \in Slots => r.pool[i] \in {Zeroed, pool[i]}
          /\ r.fd # NoSlot => i \in Slots /\ r.fd = i
      BY <2>1
    <3> HIDE DEF i, r
    <3>3. CASE r.fd = NoSlot
      <4>1. handles' = handles
        BY <3>1, <3>3
      <4> QED BY <2>0, <3>1, <3>2, <3>3, <4>1, OwnTouch DEF SameClient
    <3>4. CASE r.fd # NoSlot
      <4>1. i \in Slots /\ r.fd = i /\ \A k \in Handles : handles[k] # i
        BY <3>1, <3>2, <3>4, SlotsAre DEF Shared
      <4> QED BY <2>0, <3>1, <3>2, <4>1, OwnNewHandle
    <3> QED BY <3>3, <3>4
  <2>3. ASSUME NEW h \in Handles, NEW mem \in BOOLEAN, NEW new \in Handles,
               net_socket_accept(h, new, mem), WebNote("lost", Shared(allocate_socket_fd(pool)))
        PROVE  Owned'
    <3> DEFINE i == allocate_socket_fd(pool)
               r == net_socket_create(pool, "TCP", mem)
    <3>1. /\ handles[new] = NoSlot /\ ~Shared(i)
          /\ IF r.fd = NoSlot THEN pool' = r.pool /\ UNCHANGED <<queued, handles>>
             ELSE /\ pool' = [r.pool EXCEPT ![r.fd].state = "SYN_RECEIVED", ![r.fd].bound = FALSE]
                  /\ queued' = queued - 1
                  /\ handles' = [handles EXCEPT ![new] = r.fd]
      BY <1>b, <2>3 DEF net_socket_accept
    <3>2. /\ Only(i, pool, r.pool) /\ (i \in Slots => pool[i].state = "CLOSED")
          /\ r.fd = NoSlot /\ i \in Slots => r.pool[i] \in {Zeroed, pool[i]}
          /\ r.fd # NoSlot => i \in Slots /\ r.fd = i
          /\ r.pool \in Pools
      <4>1. "TCP" \in Types
        BY DEF Types
      <4> QED BY <2>1, <4>1
    <3> HIDE DEF i, r
    <3>3. CASE r.fd = NoSlot
      BY <2>0, <3>1, <3>2, <3>3, OwnTouch DEF SameClient
    <3>4. CASE r.fd # NoSlot
      <4>1. i \in Slots /\ r.fd = i /\ \A k \in Handles : handles[k] # i
        BY <3>1, <3>2, <3>4, SlotsAre DEF Shared
      <4>2. /\ pool' = [r.pool EXCEPT ![i].state = "SYN_RECEIVED", ![i].bound = FALSE]
            /\ handles' = [handles EXCEPT ![new] = i]
        BY <3>1, <3>4, <4>1
      <4>3. Only(i, pool, pool')
        BY <3>2, <4>1, <4>2 DEF Only, Pools
      <4> QED BY <2>0, <3>1, <3>2, <4>1, <4>2, <4>3, OwnNewHandle
    <3> QED BY <3>3, <3>4
  <2>4. ASSUME NEW h \in Handles, net_socket_bind(h) \/ net_socket_listen(h) \/ Close(h) PROVE Owned'
    <3>1. handles[h] \in Slots
      BY <2>4 DEF net_socket_bind, net_socket_listen, Close
    <3>2. CASE net_socket_bind(h) \/ net_socket_listen(h)
      <4>1. handles' = handles /\ Only(handles[h], pool, pool')
        BY <3>1, <3>2 DEF net_socket_bind, net_socket_listen, Only, Pools
      <4> QED BY <2>0, <3>1, <4>1, OwnHandle
    <3>3. CASE Close(h)
      <4>1. pool' = net_socket_close(pool, handles[h]) /\ handles' = [handles EXCEPT ![h] = NoSlot]
        BY <3>3 DEF Close
      <4>2. Only(handles[h], pool, pool') /\ pool'[handles[h]] = Zeroed
        BY <3>1, <4>1, CloseIs
      <4> QED BY <2>0, <3>1, <4>1, <4>2, OwnHandle
    <3> QED BY <2>4, <3>2, <3>3
  <2>5. ASSUME NEW h \in Handles, Receive(h) PROVE Owned'
    BY <1>a, <2>0, <2>5 DEF Receive
  <2> QED BY <1>12, <2>2, <2>3, <2>4, <2>5 DEF Direct
<1>13. CASE OtherPacket /\ UNCHANGED <<clientVars, num_dns_servers, webTrouble>>
  BY <1>13, <1>a DEF OtherPacket, net_process_packets, clientVars
<1> QED BY <1>1, <1>2, <1>3, <1>4, <1>5, <1>6, <1>7, <1>8, <1>9, <1>10, <1>11, <1>12, <1>13 DEF WebNext
(* No step of the clients connects an HTTPS client or one without memory.  *)
LEMMA SaneKept ==
  ASSUME WebInv, Sane, pool \in Pools, WebNext
  PROVE  Sane'
<1>0. client \in [Clients -> ClientStates]
  BY DEF WebInv, WebBooks
<1>a. CASE UNCHANGED client
  BY <1>a DEF Sane
<1>b. ASSUME NEW c \in Clients, \A d \in Clients : d # c => client'[d] = client[d],
             /\ client'[c].user \/ client'[c].connected => client'[c].live
             /\ client'[c].ctx => ~client'[c].connected
      PROVE  Sane'
  BY <1>b DEF Sane
<1>c. ASSUME NEW c \in Clients, client' = [client EXCEPT ![c] = Freed] PROVE Sane'
  BY <1>0, <1>b, <1>c DEF Freed
<1>1. CASE http_init \/ https_init \/ tls_init \/ tls_cleanup
  BY <1>1, <1>a DEF http_init, https_init, tls_init, tls_cleanup
<1>2. CASE Shutdown \/ https_shutdown
  <2>1. CASE http_shutdown
    <3> DEFINE gone == {active_clients[k] : k \in Places} \ {"none"}
    <3>1. client' = [c \in Clients |-> IF c \in gone THEN Freed ELSE client[c]]
      BY <2>1 DEF http_shutdown
    <3> HIDE DEF gone
    <3>2. \A c \in Clients : client'[c] = Freed \/ client'[c] = client[c]
      BY <3>1
    <3> QED BY <3>2 DEF Sane, Freed
  <2> QED BY <1>2, <1>a, <2>1 DEF Shutdown, https_shutdown
<1>3. ASSUME NEW c \in Clients, http_client_create(c) \/ https_client_create(c) PROVE Sane'
  <2>1. /\ \A d \in Clients : d # c => client'[d] = client[d]
        /\ client'[c].live /\ ~client'[c].connected
    BY <1>0, <1>3 DEF http_client_create, https_client_create, Freed
  <2> QED BY <1>b, <2>1
<1>4. ASSUME NEW c \in Clients, http_client_destroy(c) PROVE Sane'
  BY <1>4, <1>c DEF http_client_destroy
<1>5. ASSUME NEW c \in Clients, http_client_disconnect(c) PROVE Sane'
  <2>1. client' = [client EXCEPT ![c].connected = FALSE, ![c].sock = NoSlot]
    BY <1>5 DEF http_client_disconnect
  <2>2. /\ \A d \in Clients : d # c => client'[d] = client[d]
        /\ ~client'[c].connected /\ client'[c].user = client[c].user /\ client'[c].live = client[c].live
    BY <1>0, <2>1 DEF ClientStates
  <2> QED BY <1>b, <2>2 DEF Sane
<1>6. ASSUME NEW c \in Clients, http_send_request(c) PROVE Sane'
  BY <1>6, <1>a DEF http_send_request
<1>d. ASSUME NEW c \in Clients, HttpsDestroyed(c) PROVE Sane'
  <2>1. CASE client' = [client EXCEPT ![c].user = FALSE]
    <3>1. /\ \A d \in Clients : d # c => client'[d] = client[d]
          /\ client'[c].ctx = client[c].ctx /\ client'[c].connected = client[c].connected
          /\ ~client'[c].user /\ client'[c].live = client[c].live
      BY <1>0, <2>1 DEF ClientStates
    <3> QED BY <1>b, <3>1 DEF Sane
  <2> QED BY <1>c, <1>d, <2>1 DEF HttpsDestroyed
<1>7. ASSUME NEW c \in Clients, https_client_destroy(c) PROVE Sane'
  BY <1>7, <1>d DEF https_client_destroy
<1>8. ASSUME NEW c \in Clients, NEW out, http_client_connect(c, out) PROVE Sane'
  <2> DEFINE r == Dialled(out)
  <2>1. /\ client[c].user /\ ~client[c].ctx
        /\ client' = IF r.fd = NoSlot THEN client
                     ELSE [client EXCEPT ![c].sock = r.fd, ![c].connected = TRUE]
    BY <1>8 DEF http_client_connect
  <2> HIDE DEF r
  <2>2. CASE r.fd = NoSlot
    BY <1>a, <2>1, <2>2
  <2>3. CASE r.fd # NoSlot
    <3>1. client' = [client EXCEPT ![c].sock = r.fd, ![c].connected = TRUE]
      BY <2>1, <2>3
    <3>2. /\ \A d \in Clients : d # c => client'[d] = client[d]
          /\ ~client'[c].ctx /\ client'[c].live = client[c].live
      BY <1>0, <2>1, <3>1 DEF ClientStates
    <3> QED BY <1>b, <2>1, <3>2 DEF Sane
  <2> QED BY <2>2, <2>3
<1>9. ASSUME NEW c \in Clients, NEW out, https_client_connect(c, out) PROVE Sane'
  <2> DEFINE r == Dialled(out)
  <2>1. IF r.fd = NoSlot THEN UNCHANGED client
        ELSE IF tls_handshake(r.pool, r.fd)
        THEN client' = [client EXCEPT ![c].connected = TRUE, ![c].sock = r.fd]
        ELSE HttpsDestroyed(c)
    BY <1>9 DEF https_client_connect
  <2>2. r.fd # NoSlot => r.fd \in Slots /\ r.pool[r.fd].state = "SYN_SENT"
    BY DialledIs
  <2> HIDE DEF r
  <2>3. r.fd # NoSlot => ~tls_handshake(r.pool, r.fd)
    BY <2>2 DEF tls_handshake, tls_client_hello, tls_send_record, net_socket_send
  <2> QED BY <1>a, <1>d, <2>1, <2>3
<1>10. CASE dns_init \/ dns_reset_servers \/ dns_set_server \/ net_resolve_dns
  BY <1>10, <1>a DEF dns_init, dns_reset_servers, dns_set_server, net_resolve_dns, clientVars
<1>11. CASE UNCHANGED clientVars
  BY <1>11, <1>a DEF clientVars
<1> QED BY <1>1, <1>2, <1>3, <1>4, <1>5, <1>6, <1>7, <1>8, <1>9, <1>10, <1>11 DEF WebNext

----------------------------------------------------------------------------
(* The whole.                                                              *)

ConnStates == [state : {"CLOSED", "LISTEN", "SYN_RECEIVED", "ESTABLISHED", "CLOSE_WAIT"},
               peer : Peers \cup {"nobody"}]

(* NetTypeOK as membership in sets of records.                             *)
LEMMA NetTypes ==
  NetTypeOK <=> /\ pool \in Pools /\ queued \in 0..NET_MAX_SOCKETS
                /\ handles \in [Handles -> Slots \cup {NoSlot}] /\ conns \in [Conns -> ConnStates]
<1>1. Sockets = [fd : Slots, type : Types, pdata : BOOLEAN, bound : BOOLEAN,
                 state : {"CLOSED", "LISTEN", "SYN_SENT", "SYN_RECEIVED"}]
  BY DEF Sockets, States
<1> QED BY <1>1 DEF NetTypeOK, Pools, ConnStates

(* A step that leaves the connection table alone.                          *)
LEMMA NetSame ==
  ASSUME NetInv, pool' \in Pools, queued' \in 0..NET_MAX_SOCKETS,
         handles' \in [Handles -> Slots \cup {NoSlot}], UNCHANGED conns
  PROVE  NetInv'
<1>1. NetTypeOK'
  <2>1. conns' \in [Conns -> ConnStates]
    BY NetTypes DEF NetInv
  <2> QED BY <2>1 DEF NetTypeOK, Pools, Sockets, States, ConnStates
<1>2. TuplesUnique'
  BY DEF NetInv, TuplesUnique
<1> QED BY <1>1, <1>2 DEF NetInv

(* The state after boot satisfies the invariant.                           *)
LEMMA NetworkStart == Init => NetworkInv
<1> SUFFICES ASSUME Init PROVE NetworkInv
  OBVIOUS
<1> USE NetAssumption, FdAssumption, WebAssumption
<1>0. NetInit /\ FdInit /\ WebInit /\ focus \in {"pipes", "sockets", "clients", "segments"}
  BY DEF Init, FdInit
<1>1. NetInv
  <2>1. pool \in Pools
    BY <1>0, SlotsAre DEF NetInit, Pools
  <2>2. handles \in [Handles -> Slots \cup {NoSlot}] /\ queued \in 0..NET_MAX_SOCKETS
        /\ conns \in [Conns -> ConnStates] /\ \A c \in Conns : conns[c].peer = "nobody"
    BY <1>0 DEF NetInit, ConnStates
  <2> QED BY <2>1, <2>2, NetTypes DEF NetInv, TuplesUnique
<1>2. FdInv
  <2>1. Closed \in Entries
    BY DEF Closed, Entries
  <2>2. NewPipe \in PipeStates
    <3>1. 0 % BufferSize = 0
      BY Wraps
    <3> QED BY <3>1 DEF NewPipe, PipeStates
  <2>3. FdBooks
    BY <1>0, <2>1, <2>2 DEF FdInit, FdBooks, Memories, FdTroubles
  <2>4. RefsBounded /\ NoOrphans /\ NoDangling
    <3>1. \A fd \in Fds : ~fd_table[fd].open
      BY <1>0 DEF FdInit, Closed
    <3>2. \A o \in Objects : memory[o] = "gone"
      BY <1>0 DEF FdInit
    <3> QED BY <3>1, <3>2 DEF RefsBounded, NoOrphans, NoDangling, Open, Objects
  <2> QED BY <2>3, <2>4 DEF FdInv
<1>3. WebInv
  <2>1. WebBooks
    BY <1>0 DEF WebInit, WebBooks, Freed, ClientStates
  <2>2. {k \in Places : active_clients[k] # "none"} = {}
    BY <1>0 DEF WebInit
  <2>3. TableLive
    BY <1>0, <2>2, FS_EmptySet DEF WebInit, TableLive
  <2> QED BY <2>1, <2>3 DEF WebInv
<1>a. \A s \in Socks : held[s] = NoSlot
  BY <1>0 DEF FdInit, Objects, held
<1>4. Apart /\ Sane
  BY <1>0, <1>a DEF Apart, Sane, NetInit, FdInit, WebInit, Freed
<1>5. Owned
  <2>1. \A i \in Slots : ~InUse(i)
    BY <1>0, SlotsAre DEF NetInit, InUse
  <2>2. /\ \A c \in Clients : ~client[c].connected
        /\ \A h \in Handles : handles[h] = NoSlot
        /\ \A s \in Socks : held[s] = NoSlot
    BY <1>0, <1>a DEF NetInit, WebInit, Freed
  <2> QED BY <2>1, <2>2 DEF Owned, HasUser, OneUser, Connected
<1> QED BY <1>1, <1>2, <1>3, <1>4, <1>5 DEF NetworkInv, OwnInv

(* A step that changes nothing keeps the invariant.                        *)
LEMMA NetworkSame ==
  ASSUME NetworkInv, UNCHANGED vars
  PROVE  NetworkInv'
<1>0. UNCHANGED <<pool, queued, conns, handles, fd_table, pipe, sock, memory, size, procs, fdTrouble,
                  up, active_clients, client_count, client, num_dns_servers, webTrouble, focus>>
  BY DEF vars, netVars, fdVars, webVars, clientVars
<1>1. NetInv'
  BY <1>0, NetSame, NetTypes DEF NetworkInv, NetInv
<1>2. FdInv'
  BY <1>0 DEF NetworkInv, FdInv, FdBooks, RefsBounded, NoOrphans, NoDangling, Open
<1>3. WebInv'
  BY <1>0 DEF NetworkInv, WebInv, WebBooks, TableLive
<1>4. OwnInv'
  BY <1>0 DEF NetworkInv, OwnInv, Unshared, Apart, Sane, Owned, HasUser, OneUser, Connected, InUse, held
<1> QED BY <1>1, <1>2, <1>3, <1>4 DEF NetworkInv

(* Every step keeps the invariant.                                         *)
LEMMA NetworkStep ==
  ASSUME NetworkInv, [Next]_vars
  PROVE  NetworkInv'
<1>0. NetInv /\ FdInv /\ WebInv /\ Apart /\ Sane /\ (Unshared => Owned)
      /\ pool \in Pools /\ queued \in 0..NET_MAX_SOCKETS /\ handles \in [Handles -> Slots \cup {NoSlot}]
  BY NetTypes DEF NetworkInv, OwnInv, NetInv
<1>1. CASE UNCHANGED vars
  BY <1>1, NetworkSame
<1>a. ASSUME UNCHANGED fdVars PROVE FdInv'
  BY <1>0, <1>a DEF fdVars, FdInv, FdBooks, RefsBounded, NoOrphans, NoDangling, Open
<1>b. ASSUME UNCHANGED webVars PROVE WebInv' /\ Sane' /\ UNCHANGED <<client, webTrouble>>
  BY <1>0, <1>b DEF webVars, clientVars, WebInv, WebBooks, TableLive, Sane
<1>c. ASSUME UNCHANGED <<pool, handles, client, held, fdTrouble, webTrouble, focus>>, Sane' PROVE OwnInv'
  BY <1>0, <1>c DEF OwnInv, Unshared, Apart, Owned, HasUser, OneUser, Connected, InUse
<1>d. ASSUME UNCHANGED fdVars PROVE UNCHANGED <<held, fdTrouble>>
  BY <1>d, HeldKept DEF fdVars
<1>2. CASE UNCHANGED focus /\ focus \in {"pipes", "sockets"} /\ FdNext /\ UNCHANGED webVars
  <2>1. CASE procs > 0 /\ (Calls \/ \E o \in Objects : Reused(o))
    <3>1. FdKept
      BY <1>0, <2>1, OpenCallsKeep, CloseKeeps, UseKeeps DEF Calls
    <3>2. /\ FdInv' /\ pool' \in Pools /\ queued' \in 0..NET_MAX_SOCKETS /\ UNCHANGED <<conns, handles>>
          /\ fdTrouble \subseteq fdTrouble'
      BY <3>1 DEF FdKept
    <3>3. NetInv'
      BY <1>0, <3>2, NetSame
    <3>4. WebInv' /\ Sane' /\ UNCHANGED <<client, webTrouble>>
      BY <1>2, <1>b
    <3>5. Apart'
      BY <1>0, <1>2, <3>2, <3>4 DEF Apart
    <3>6. ASSUME Unshared' PROVE Owned'
      <4>1. fdTrouble \subseteq {"twice", "wild"} /\ fdTrouble' \subseteq {"twice", "wild"} /\ Owned
        BY <1>0, <3>2, <3>4, <3>6 DEF Unshared
      <4> QED BY <1>0, <1>2, <2>1, <3>2, <3>4, <4>1, CallsOwn
    <3> QED BY <3>2, <3>3, <3>4, <3>5, <3>6 DEF NetworkInv, OwnInv
  <2>2. CASE OtherPacket /\ UNCHANGED fdVars
    <3>1. UNCHANGED <<pool, handles, conns>> /\ queued' \in 0..NET_MAX_SOCKETS
      BY <1>0, <2>2, NetAssumption DEF OtherPacket, net_process_packets, Enqueue
    <3>2. NetInv'
      BY <1>0, <3>1, NetSame
    <3>3. FdInv' /\ UNCHANGED <<held, fdTrouble>>
      BY <1>a, <1>d, <2>2
    <3>4. WebInv' /\ Sane' /\ UNCHANGED <<client, webTrouble>>
      BY <1>2, <1>b
    <3>5. OwnInv'
      BY <1>2, <1>c, <3>1, <3>3, <3>4
    <3> QED BY <3>2, <3>3, <3>4, <3>5 DEF NetworkInv
  <2> QED BY <1>2, <2>1, <2>2 DEF FdNext
<1>3. CASE UNCHANGED focus /\ focus = "clients" /\ WebNext /\ UNCHANGED fdVars
  <2>1. WebKept
    BY <1>0, <1>3, WebNextKeeps
  <2>2. /\ WebInv' /\ pool' \in Pools /\ queued' \in 0..NET_MAX_SOCKETS
        /\ handles' \in [Handles -> Slots \cup {NoSlot}] /\ UNCHANGED conns
        /\ webTrouble \subseteq webTrouble'
    BY <2>1 DEF WebKept
  <2>3. NetInv'
    BY <1>0, <2>2, NetSame
  <2>4. FdInv' /\ UNCHANGED <<held, fdTrouble>>
    BY <1>3, <1>a, <1>d
  <2>5. Apart' /\ \A s \in Socks : held[s] = NoSlot
    BY <1>0, <1>3, <2>4 DEF Apart
  <2>6. Sane'
    BY <1>0, <1>3, SaneKept
  <2>7. ASSUME Unshared' PROVE Owned'
    <3>1. webTrouble' = {} /\ Owned
      BY <1>0, <2>2, <2>4, <2>7 DEF Unshared
    <3> QED BY <1>0, <1>3, <2>4, <2>5, <3>1, ClientsOwn
  <2> QED BY <2>2, <2>3, <2>4, <2>5, <2>6, <2>7 DEF NetworkInv, OwnInv
<1>4. CASE UNCHANGED focus /\ focus = "segments" /\ TcpPacket /\ UNCHANGED <<fdVars, webVars>>
  <2>1. PICK peer \in Peers, flags \in {"SYN", "ACK", "FIN-ACK", "RST"}, mem \in BOOLEAN :
          net_process_packets("TCP", peer, flags, mem)
    BY <1>4 DEF TcpPacket
  <2>2. TcpReceive(peer, flags) /\ UNCHANGED <<pool, handles>>
    BY <2>1 DEF net_process_packets
  <2>3. queued' \in 0..NET_MAX_SOCKETS
    BY <1>0, <2>1, NetAssumption DEF net_process_packets, Enqueue
  <2>4. /\ conns' \in [Conns -> ConnStates] /\ TuplesUnique'
        /\ \A c \in Conns : conns'[c].state = "CLOSED" => conns'[c].peer = "nobody"
    BY <1>0, <2>2, TcpKeeps DEF ConnStates
  <2>5. NetTypeOK'
    <3>1. pool' \in Pools /\ handles' \in [Handles -> Slots \cup {NoSlot}]
      BY <1>0, <2>2
    <3> QED BY <2>3, <2>4, <3>1 DEF NetTypeOK, Pools, Sockets, States, ConnStates
  <2>6. NetInv'
    BY <2>4, <2>5 DEF NetInv
  <2>7. FdInv' /\ UNCHANGED <<held, fdTrouble>>
    BY <1>4, <1>a, <1>d
  <2>8. WebInv' /\ Sane' /\ UNCHANGED <<client, webTrouble>>
    BY <1>4, <1>b
  <2>9. OwnInv'
    BY <1>4, <1>c, <2>2, <2>7, <2>8
  <2> QED BY <2>6, <2>7, <2>8, <2>9 DEF NetworkInv
<1> QED BY <1>1, <1>2, <1>3, <1>4 DEF Next

(* The invariant holds in every reachable state.                           *)
LEMMA NetworkInvariant == Spec => []NetworkInv
BY NetworkStart, NetworkStep, PTL DEF Spec

----------------------------------------------------------------------------
(* The theorems.                                                           *)

(* The tables of net.c, syscalls.c, http.c and dns.c keep their shapes:    *)
(* every index kept in one of them is inside the table it points into.     *)
THEOREM NetworkTypeCorrect == Spec => []TypeOK
<1>1. NetworkInv => TypeOK
  <2> SUFFICES ASSUME NetworkInv PROVE TypeOK
    OBVIOUS
  <2>1. FdTypeOK
    <3>1. /\ NetTypeOK /\ fd_table \in [Fds -> Entries] /\ size \in FileSize..MaxFile /\ procs \in 0..MaxProcs
          /\ fdTrouble \subseteq {"dup", "lost", "alias", "twice", "wild"}
          /\ memory \in [Objects -> {"live", "left", "gone"}]
      BY DEF NetworkInv, NetInv, FdInv, FdBooks, Memories, FdTroubles
    <3>2. \A e \in Entries : /\ e.open <=> e.ref > 0
                             /\ e.off \in 0..(MaxFile + MaxCount - 1)
                             /\ e.type \in {"FILE", "PIPE", "SOCKET"}
      BY DEF Entries
    <3> QED BY <3>1, <3>2 DEF FdTypeOK
  <2>2. WebTypeOK
    BY DEF NetworkInv, NetInv, WebInv, WebBooks, WebTypeOK, ClientStates
  <2> QED BY <2>1, <2>2 DEF TypeOK
<1> QED BY <1>1, NetworkInvariant, PTL

(* ip_receive_packet: however segments are repeated and reordered, a peer  *)
(* has at most one entry of ip_connections, so find_connection has at most *)
(* one answer.                                                             *)
THEOREM PeersUnique == Spec => []TuplesUnique
<1>1. NetworkInv => TuplesUnique
  BY DEF NetworkInv, NetInv
<1> QED BY <1>1, NetworkInvariant, PTL

(* pipe_read and pipe_write through descriptors: the two positions of a    *)
(* ring and the number of bytes in it agree, whatever ends are used, also  *)
(* after free_fd has freed the pipe under one of them, as long as its      *)
(* memory has not become somebody else's.                                  *)
THEOREM DescriptorRingsAgree == Spec => []RingAgrees
<1>1. NetworkInv => RingAgrees
  BY DEF NetworkInv, FdInv, FdBooks, PipeStates, RingAgrees
<1> QED BY <1>1, NetworkInvariant, PTL

(* alloc_fd, free_fd, sys_fork and sys_exit: without dup and dup2 no       *)
(* descriptor has more references than there are processes, so the last    *)
(* exit closes every descriptor.                                           *)
THEOREM ReferencesBounded == Spec => []RefsBounded
<1>1. NetworkInv => RefsBounded
  BY DEF NetworkInv, FdInv
<1> QED BY <1>1, NetworkInvariant, PTL

(* sys_pipe, sys_socket and sys_close: as long as sys_dup2 overwrote no    *)
(* descriptor, no call, failing or not, leaves a pipe or a socket behind   *)
(* that no open descriptor points to.                                      *)
THEOREM DescriptorsOwnObjects == Spec => []NoOrphans
<1>1. NetworkInv => NoOrphans
  BY DEF NetworkInv, FdInv
<1> QED BY <1>1, NetworkInvariant, PTL

(* free_fd: without dup and dup2 an open descriptor of a socket is the     *)
(* only one and its net_socket has not been freed, so sys_connect,         *)
(* sys_recv and the closing itself use memory that is theirs.              *)
THEOREM SocketDescriptorsLive == Spec => []NoDangling
<1>1. NetworkInv => NoDangling
  BY DEF NetworkInv, FdInv
<1> QED BY <1>1, NetworkInvariant, PTL

(* http_client_create, http_client_destroy, http_shutdown and the HTTPS    *)
(* calls on top: active_clients holds no freed client and none twice, and  *)
(* client_count counts it.                                                 *)
THEOREM ClientTableLive == Spec => []TableLive
<1>1. NetworkInv => TableLive
  BY DEF NetworkInv, WebInv
<1> QED BY <1>1, NetworkInvariant, PTL

(* net_socket_create and all who call it: as long as allocate_socket_fd    *)
(* never handed out a socket twice and no call dropped one, a socket in    *)
(* use has exactly one user, and a connected client's socket is its own.   *)
THEOREM SocketsOwned == Spec => []SlotsOwned
<1>1. NetworkInv => SlotsOwned
  <2> SUFFICES ASSUME NetworkInv, (fdTrouble \ {"twice", "wild"}) \cup webTrouble = {}
               PROVE  /\ \A i \in Slots : InUse(i) => Cardinality(Users(i)) = 1
                      /\ \A c \in Clients : client[c].connected => pool[client[c].sock].state = "SYN_SENT"
    BY DEF SlotsOwned, InUse
  <2>1. Owned /\ Apart
    <3>1. Unshared
      BY DEF Unshared
    <3> QED BY <3>1 DEF NetworkInv, OwnInv
  <2>a. \A j \in Slots : Users(j) = {c \in Clients : client[c].connected /\ client[c].sock = j}
                                   \cup {h \in Handles : handles[h] = j} \cup {s \in Socks : held[s] = j}
    <3> TAKE j \in Slots
    <3>1. \A s \in Socks : held[s] = j <=> memory[s] = "live" /\ sock[s] = j
      BY SlotsAre DEF held
    <3> QED BY <3>1 DEF Users
  <2>2. ASSUME NEW i \in Slots, InUse(i) PROVE Cardinality(Users(i)) = 1
    <3>1. \E u : Users(i) = {u}
      <4>1. i # NoSlot
        BY SlotsAre
      <4>2. CASE \E c \in Clients : client[c].connected /\ client[c].sock = i
        <5>1. PICK c \in Clients : client[c].connected /\ client[c].sock = i
          BY <4>2
        <5>2. /\ \A d \in Clients : client[d].connected /\ client[d].sock = i => d = c
              /\ \A h \in Handles : handles[h] # i
              /\ \A s \in Socks : held[s] # i
          BY <2>1, <4>1, <5>1 DEF Owned, OneUser, Apart
        <5>3. Users(i) = {c}
          BY <2>a, <5>1, <5>2
        <5> QED BY <5>3
      <4>3. CASE \E h \in Handles : handles[h] = i
        <5>1. PICK h \in Handles : handles[h] = i
          BY <4>3
        <5>2. /\ \A d \in Clients : ~(client[d].connected /\ client[d].sock = i)
              /\ \A k \in Handles : handles[k] = i => k = h
              /\ \A s \in Socks : held[s] # i
          BY <2>1, <4>1, <5>1 DEF Owned, OneUser, Apart
        <5>3. Users(i) = {h}
          BY <2>a, <5>1, <5>2
        <5> QED BY <5>3
      <4>4. CASE \E s \in Socks : held[s] = i
        <5>1. PICK s \in Socks : held[s] = i
          BY <4>4
        <5>2. /\ \A d \in Clients : ~client[d].connected
              /\ \A k \in Handles : handles[k] # i
              /\ \A t \in Socks : held[t] = i => t = s
          BY <2>1, <4>1, <5>1 DEF Owned, OneUser, Apart
        <5>3. Users(i) = {s}
          BY <2>a, <5>1, <5>2
        <5> QED BY <5>3
      <4> QED BY <2>1, <2>2, <4>2, <4>3, <4>4 DEF Owned, HasUser
    <3> QED BY <3>1, FS_Singleton
  <2> QED BY <2>1, <2>2 DEF Owned, Connected
<1> QED BY <1>1, NetworkInvariant, PTL
=============================================================================
