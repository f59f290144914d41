----------------------------- MODULE MCNetwork ------------------------------
(* The users of the sockets, one kind per behaviour: system calls, with    *)
(* pipes or with sockets, kernel clients, or only segments for the         *)
(* connection table.  Each kind has several users that share two sockets.  *)
EXTENDS FdTable, WebClients, TLC

VARIABLE focus

vars == <<netVars, fdVars, webVars, focus>>

Init ==
  /\ FdInit /\ WebInit
  /\ focus \in {"pipes", "sockets", "clients", "segments"}

Next ==
  /\ UNCHANGED focus
  /\ \/ /\ focus \in {"pipes", "sockets"} /\ FdNext /\ UNCHANGED webVars
        /\ focus = "pipes" => UNCHANGED netVars
        /\ focus = "sockets" => \A p \in Pipes : memory'[p] = memory[p]
     \/ focus = "clients" /\ WebNext /\ UNCHANGED fdVars
     \/ focus = "segments" /\ TcpPacket /\ UNCHANGED <<fdVars, webVars>>

Spec == Init /\ [][Next]_vars

Symmetry == Permutations(Clients) \cup Permutations(Handles)

(* The types of both.                                                      *)
TypeOK == FdTypeOK /\ WebTypeOK

Users(i) ==
  {c \in Clients : client[c].connected /\ client[c].sock = i}
    \cup {h \in Handles : handles[h] = i} \cup {s \in Socks : memory[s] = "live" /\ sock[s] = i}

(* As long as no socket was lost, shared or duplicated, whatever becomes   *)
(* of pipes: a socket that is not free, or that holds memory, has exactly  *)
(* one user, and a connected client's socket is not free.  No failing call *)
(* of net_socket_create's callers leaves a socket behind.                  *)
SlotsOwned ==
  (fdTrouble \ {"twice", "wild"}) \cup webTrouble = {} =>
    /\ \A i \in Slots : pool[i].state # "CLOSED" \/ pool[i].pdata => Cardinality(Users(i)) = 1
    /\ \A c \in Clients : client[c].connected => pool[client[c].sock].state = "SYN_SENT"
=============================================================================
