----------------------------- MODULE WebClients -----------------------------
(***************************************************************************)
(* The HTTP client (kernel/src/net/http/http.c), the HTTPS client on top   *)
(* of it (https.c) and the DNS resolver (kernel/src/net/dns.c), with the   *)
(* sockets of Net below them.                                              *)
(*                                                                         *)
(* A client is a block of memory that active_clients and its user point    *)
(* to.  An HTTPS client keeps its TLS context in the field where an HTTP   *)
(* client keeps its socket.  Users are well behaved: they use only clients *)
(* they were given and that no call has destroyed.                         *)
(***************************************************************************)
EXTENDS Net

CONSTANTS
  Clients,           \* blocks of memory for clients
  HTTP_MAX_CLIENTS,
  MAX_DNS_SERVERS, DefaultServers  \* how many default_dns_servers there are

ASSUME WebAssumption ==
  /\ IsFiniteSet(Clients) /\ "none" \notin Clients
  /\ HTTP_MAX_CLIENTS \in Nat
  /\ MAX_DNS_SERVERS \in Nat /\ DefaultServers \in 0..MAX_DNS_SERVERS

VARIABLES
  up,              \* the flags that are set: http_initialized and the two of https.c
  active_clients, client_count,
  client,          \* the clients' memory
  served,          \* clients that got a response
  num_dns_servers,
  webTrouble          \* what has gone wrong

clientVars == <<up, active_clients, client_count, client, served>>
webVars == <<clientVars, num_dns_servers, webTrouble>>

Places == 1..HTTP_MAX_CLIENTS

(* user: somebody has the pointer.  ctx: the socket field is a TLS context *)
(* and sock its socket.                                                    *)
Freed == [live |-> FALSE, user |-> FALSE, ctx |-> FALSE, connected |-> FALSE, sock |-> NoSlot]

WebInit ==
  /\ NetInit
  /\ up = {} /\ active_clients = [k \in Places |-> "none"] /\ client_count = 0
  /\ client = [c \in Clients |-> Freed]
  /\ served = {} /\ num_dns_servers = 0 /\ webTrouble = {}

WebNote(what, holds) == webTrouble' = IF holds THEN webTrouble \cup {what} ELSE webTrouble

----------------------------------------------------------------------------
(* http.c                                                                  *)

http_init ==
  /\ "http" \notin up /\ up' = up \cup {"http"}
  /\ active_clients' = [k \in Places |-> "none"] /\ client_count' = 0
  /\ UNCHANGED <<netVars, client, served, num_dns_servers, webTrouble>>

(* Room in the table, and memory for the client.                           *)
CanCreate == "http" \in up /\ client_count < HTTP_MAX_CLIENTS

Registered(c) ==
  LET k == First({j \in Places : active_clients[j] = "none"})
  IN /\ ~client[c].live /\ CanCreate
     /\ active_clients' = [active_clients EXCEPT ![k] = c]
     /\ client_count' = client_count + 1

http_client_create(c) ==
  /\ Registered(c)
  /\ client' = [client EXCEPT ![c] = [Freed EXCEPT !.live = TRUE, !.user = TRUE]]
  /\ UNCHANGED <<netVars, up, served, num_dns_servers, webTrouble>>

(* http_client_disconnect on pool p.  In place of an HTTPS client's socket *)
(* number it reads half of a pointer, which is no socket's number.         *)
SocketOf(c) == IF client[c].connected /\ ~client[c].ctx THEN pool[client[c].sock].fd ELSE NoSlot

Unregister_forgets(c) == UNCHANGED <<active_clients, client_count>>

Unregister(c) ==
  /\ active_clients' = [k \in Places |-> IF active_clients[k] = c THEN "none" ELSE active_clients[k]]
  /\ client_count' = client_count - Cardinality({k \in Places : active_clients[k] = c})

http_client_destroy(c) ==
  /\ client[c].user /\ ~client[c].ctx /\ "http" \in up
  /\ Unregister(c)
  /\ pool' = net_socket_close(pool, SocketOf(c))
  /\ client' = [client EXCEPT ![c] = Freed] /\ served' = served \ {c}
  /\ UNCHANGED <<queued, conns, handles, up, num_dns_servers, webTrouble>>

(* A socket, the host's address, the SYN: whatever fails, the socket is    *)
(* closed.  Gives the new pool, and the socket or NoSlot; out is what is   *)
(* missing.                                                                *)
Dialled_and_forgotten(out) ==
  LET r == net_socket_create(pool, "TCP", out # "memory")
      p == net_socket_connect(r.pool, r.fd)
  IN IF r.fd = NoSlot THEN r
     ELSE IF Connects(r.pool, r.fd, out = "fine") THEN [pool |-> p, fd |-> r.fd]
     ELSE [pool |-> p, fd |-> NoSlot]

Dialled(out) ==
  LET r == net_socket_create(pool, "TCP", out # "memory")
      p == net_socket_connect(r.pool, r.fd)
  IN IF r.fd = NoSlot THEN r
     ELSE IF out = "host" THEN [pool |-> net_socket_close(r.pool, r.fd), fd |-> NoSlot]
     ELSE IF ~Connects(r.pool, r.fd, out = "fine") THEN [pool |-> net_socket_close(p, r.fd), fd |-> NoSlot]
     ELSE [pool |-> p, fd |-> r.fd]

Shared(i) == i # NoSlot /\ \E h \in Handles : handles[h] = i

(* Connecting a client that is connected loses its first socket.           *)
http_client_connect(c, out) ==
  LET r == Dialled(out)
  IN /\ client[c].user /\ ~client[c].ctx
     /\ pool' = r.pool
     /\ client' = IF r.fd = NoSlot THEN client
                  ELSE [client EXCEPT ![c].sock = r.fd, ![c].connected = TRUE]
     /\ WebNote("lost", \/ Shared(allocate_socket_fd(pool))
                        \/ client[c].connected /\ r.fd # NoSlot)
     /\ UNCHANGED <<queued, conns, handles, up, active_clients, client_count, served, num_dns_servers>>

http_client_disconnect(c) ==
  /\ client[c].user /\ ~client[c].ctx /\ client[c].connected
  /\ pool' = net_socket_close(pool, SocketOf(c))
  /\ client' = [client EXCEPT ![c].connected = FALSE, ![c].sock = NoSlot]
  /\ UNCHANGED <<queued, conns, handles, up, active_clients, client_count, served, num_dns_servers, webTrouble>>

(* A request is built and sent, and the answer taken from the queue.       *)
http_send_request(c) ==
  /\ client[c].user /\ ~client[c].ctx /\ client[c].connected
  /\ LET ok == net_socket_send(pool, SocketOf(c)) /\ net_socket_receive(pool, SocketOf(c))
     IN /\ served' = IF ok THEN served \cup {c} ELSE served
        /\ queued' = IF ok THEN queued - 1 ELSE queued
  /\ UNCHANGED <<pool, conns, handles, up, active_clients, client_count, client, num_dns_servers, webTrouble>>

(* Every registered client is destroyed, the HTTPS ones too: their         *)
(* contexts and their sockets stay behind.                                 *)
http_shutdown ==
  LET gone == {active_clients[k] : k \in Places} \ {"none"}
      closed == {SocketOf(c) : c \in gone} \ {NoSlot}
  IN /\ active_clients' = [k \in Places |-> "none"] /\ client_count' = 0
     /\ pool' = [i \in Slots |-> IF i \in closed THEN Zeroed ELSE pool[i]]
     /\ client' = [c \in Clients |-> IF c \in gone THEN Freed ELSE client[c]]
     /\ served' = served \ gone
     /\ WebNote("lost", \E c \in gone : client[c].ctx)

Shutdown ==
  /\ "http" \in up /\ up' = up \ {"http"}
  /\ http_shutdown
  /\ UNCHANGED <<queued, conns, handles, num_dns_servers>>

----------------------------------------------------------------------------
(* https.c                                                                 *)

https_init ==
  /\ "https" \notin up /\ up' = up \cup {"http", "https", "tls"}
  /\ IF "http" \in up THEN UNCHANGED <<active_clients, client_count>>
     ELSE active_clients' = [k \in Places |-> "none"] /\ client_count' = 0
  /\ UNCHANGED <<netVars, client, served, num_dns_servers, webTrouble>>

https_shutdown ==
  /\ "https" \in up /\ up' = up \ {"http", "https", "tls"}
  /\ IF "http" \in up THEN http_shutdown
     ELSE UNCHANGED <<pool, active_clients, client_count, client, served, webTrouble>>
  /\ UNCHANGED <<queued, conns, handles, num_dns_servers>>

tls_init ==
  /\ "tls" \notin up /\ up' = up \cup {"tls"}
  /\ UNCHANGED <<netVars, active_clients, client_count, client, served, num_dns_servers, webTrouble>>

tls_cleanup ==
  /\ "tls" \in up /\ up' = up \ {"tls"}
  /\ UNCHANGED <<netVars, active_clients, client_count, client, served, num_dns_servers, webTrouble>>

tls_create_context == "tls" \in up

https_client_create(c) ==
  /\ tls_create_context /\ Registered(c)
  /\ client' = [client EXCEPT ![c] = [Freed EXCEPT !.live = TRUE, !.user = TRUE, !.ctx = TRUE]]
  /\ UNCHANGED <<netVars, up, served, num_dns_servers, webTrouble>>

(* The context is freed, then the client: without http_initialized that    *)
(* returns at once, and the client keeps a pointer to the freed context.   *)
(* Only a finished handshake sets the flag that has the socket closed;     *)
(* that is what connected stands for in an HTTPS client.                   *)
HttpsDestroyed(c) ==
  IF "http" \in up THEN Unregister(c) /\ client' = [client EXCEPT ![c] = Freed]
  ELSE /\ client' = [client EXCEPT ![c].user = FALSE]
       /\ UNCHANGED <<active_clients, client_count>>

https_client_destroy(c) ==
  /\ client[c].user /\ client[c].ctx
  /\ pool' = IF client[c].connected THEN net_socket_close(pool, client[c].sock) ELSE pool
  /\ HttpsDestroyed(c)
  /\ UNCHANGED <<queued, conns, handles, up, served, num_dns_servers, webTrouble>>

(* The records of the handshake; tls_receive_record takes the header and   *)
(* the payload as a packet each, and gives the number it could take.       *)
tls_send_record(p, i) == net_socket_send(p, i)

tls_receive_record(p, i) == IF ~net_socket_receive(p, i) THEN 0 ELSE IF queued > 1 THEN 2 ELSE 1

tls_client_hello(p, i) == tls_send_record(p, i)

tls_handshake(p, i) == tls_client_hello(p, i) /\ tls_receive_record(p, i) = 2

(* When the handshake fails the call destroys its caller's client, and the *)
(* socket stays connected.  It always fails: see net_socket_connect.       *)
https_client_connect(c, out) ==
  LET r == Dialled(out)
  IN /\ client[c].user /\ client[c].ctx
     /\ pool' = r.pool
     /\ IF r.fd = NoSlot THEN UNCHANGED <<active_clients, client_count, client>>
        ELSE IF tls_handshake(r.pool, r.fd)
        THEN /\ client' = [client EXCEPT ![c].connected = TRUE, ![c].sock = r.fd]
             /\ UNCHANGED <<active_clients, client_count>>
        ELSE HttpsDestroyed(c)
     /\ queued' = IF r.fd # NoSlot /\ tls_client_hello(r.pool, r.fd)
                  THEN queued - tls_receive_record(r.pool, r.fd) ELSE queued
     /\ WebNote("lost", \/ r.fd # NoSlot /\ ~tls_handshake(r.pool, r.fd)
                        \/ Shared(allocate_socket_fd(pool)))
     /\ UNCHANGED <<conns, handles, up, served, num_dns_servers>>

----------------------------------------------------------------------------
(* dns.c                                                                   *)

dns_reset_servers_adds ==
  /\ num_dns_servers' = num_dns_servers + DefaultServers
  /\ UNCHANGED <<netVars, clientVars, webTrouble>>

dns_reset_servers ==
  /\ num_dns_servers' = DefaultServers
  /\ UNCHANGED <<netVars, clientVars, webTrouble>>

dns_init ==
  /\ num_dns_servers' = DefaultServers
  /\ UNCHANGED <<netVars, clientVars, webTrouble>>

dns_set_server ==
  /\ num_dns_servers < MAX_DNS_SERVERS
  /\ num_dns_servers' = num_dns_servers + 1
  /\ UNCHANGED <<netVars, clientVars, webTrouble>>

(* net_resolve_dns: the socket is a UDP socket, which net_socket_connect   *)
(* refuses for every server, and is closed at the end.                     *)
net_resolve_dns ==
  LET r == net_socket_create(pool, "UDP", TRUE)
  IN /\ r.fd # NoSlot
     /\ pool' = net_socket_close(r.pool, r.fd)
     /\ WebNote("lost", Shared(r.fd))
     /\ UNCHANGED <<queued, conns, handles, clientVars, num_dns_servers>>

----------------------------------------------------------------------------
(* A direct user may share the socket it gets: see allocate_socket_fd.     *)
Direct ==
  \/ \E h \in Handles, mem \in BOOLEAN :
       \/ \E type \in Types :
            Create(h, type, mem) /\ WebNote("lost", Shared(allocate_socket_fd(pool)))
       \/ \E new \in Handles :
            net_socket_accept(h, new, mem) /\ WebNote("lost", Shared(allocate_socket_fd(pool)))
  \/ \E h \in Handles : \/ net_socket_bind(h) \/ net_socket_listen(h)
                        \/ Receive(h) \/ Close(h)
     /\ UNCHANGED webTrouble

WebNext ==
  \/ http_init \/ Shutdown \/ https_init \/ https_shutdown \/ tls_init \/ tls_cleanup
  \/ \E c \in Clients :
       \/ http_client_create(c) \/ http_client_destroy(c)
       \/ http_client_disconnect(c) \/ http_send_request(c)
       \/ https_client_create(c) \/ https_client_destroy(c)
       \/ \E out \in {"memory", "host", "route", "fine"} :
            \/ http_client_connect(c, out)
            \/ https_client_connect(c, out)
  \/ dns_init \/ dns_reset_servers \/ dns_set_server \/ net_resolve_dns
  \/ Direct /\ UNCHANGED <<clientVars, num_dns_servers>>
  \/ OtherPacket /\ UNCHANGED <<clientVars, num_dns_servers, webTrouble>>

WebSpec == WebInit /\ [][WebNext]_<<netVars, webVars>>

----------------------------------------------------------------------------
(* The variables have their types; no more DNS servers than there is room  *)
(* for.                                                                    *)
WebTypeOK ==
  /\ NetTypeOK
  /\ up \subseteq {"http", "https", "tls"} /\ webTrouble \subseteq {"lost"}
  /\ active_clients \in [Places -> Clients \cup {"none"}]
  /\ client \in [Clients -> [live : BOOLEAN, user : BOOLEAN, ctx : BOOLEAN,
                             connected : BOOLEAN, sock : Slots \cup {NoSlot}]]
  /\ num_dns_servers \in 0..MAX_DNS_SERVERS

(* Whatever is created, destroyed and shut down in whatever order: the     *)
(* table, which http_shutdown destroys everything in, holds no client that *)
(* has been freed and none twice, and client_count counts it.              *)
TableLive ==
  /\ client_count = Cardinality({k \in Places : active_clients[k] # "none"})
  /\ \A k \in Places : active_clients[k] # "none" =>
       /\ client[active_clients[k]].live
       /\ \A j \in Places : active_clients[j] = active_clients[k] => j = k
=============================================================================
