------------------------------ MODULE FdTable -------------------------------
(***************************************************************************)
(* The file descriptors of kernel/src/core/syscalls.c: one table for all   *)
(* processes, and the calls on files, pipes and sockets that go through    *)
(* it, with the sockets of Net below.  ext2 is here only what the calls    *)
(* see of it: a call that works or does not, and a file's size.            *)
(*                                                                         *)
(* System calls run with interrupts masked, on one processor: each is one  *)
(* action.  Any malloc may fail.                                           *)
(*                                                                         *)
(* The first end of a pipe that is closed frees it, and a duplicate can    *)
(* outlive its socket.  The model follows the pointers that dangle, to     *)
(* memory as it was left or to what came there since, and ends ("wild")    *)
(* where they reach memory of somebody else.                               *)
(***************************************************************************)
EXTENDS Net

CONSTANTS
  MAX_FDS,
  Pipes,        \* memory for pipes
  Socks,        \* memory for the net_socket of a descriptor
  BufferSize,   \* of a pipe: 4096
  FileSize,     \* i_size of the file that is there; writing does not pass MaxFile
  MaxFile,      \* bound
  MaxCount,     \* bound: bytes per read or write
  MaxProcs,     \* bound: processes at a time
  MaxRef        \* bound: references dup may pile up

ASSUME FdAssumption ==
  /\ MAX_FDS \in Nat /\ BufferSize \in Nat \ {0} /\ FileSize \in 0..MaxFile
  /\ MaxFile \in Nat /\ MaxCount \in Nat \ {0} /\ MaxProcs \in Nat \ {0} /\ MaxRef \in Nat
  /\ IsFiniteSet(Pipes) /\ IsFiniteSet(Socks) /\ Pipes \cap Socks = {}

VARIABLES
  fd_table,
  pipe,     \* the fields of each pipe
  sock,     \* the handle in each net_socket
  memory,   \* of each: "live", "left" as it was when freed, or "gone"
  size,     \* i_size of the file
  procs,    \* processes that have not exited
  fdTrouble   \* what has gone wrong

fdVars == <<fd_table, pipe, sock, memory, size, procs, fdTrouble>>
objects == <<pipe, sock, memory>>

Fds == 0..(MAX_FDS - 1)
Objects == Pipes \cup Socks
None == "none"

Closed == [open |-> FALSE, type |-> "FILE", ref |-> 0, obj |-> None, off |-> 0]
Opened(type, obj) == [open |-> TRUE, type |-> type, ref |-> 1, obj |-> obj, off |-> 0]

NewPipe == [read |-> 0, write |-> 0, data |-> 0]

FdInit ==
  /\ NetInit
  /\ fd_table = [fd \in Fds |-> Closed]
  /\ pipe = [p \in Pipes |-> NewPipe]
  /\ sock = [s \in Socks |-> NoSlot]
  /\ memory = [o \in Objects |-> "gone"]
  /\ size = FileSize /\ procs = 1 /\ fdTrouble = {}

Open == {fd \in Fds : fd_table[fd].open}
FdNote(what) == fdTrouble' = fdTrouble \cup what

----------------------------------------------------------------------------
(* alloc_fd takes the lowest free descriptor; free_fd on a table t.        *)

FreeFds(t) == {fd \in Fds : ~t[fd].open}

(* The object goes with its last reference, counted per descriptor.  A     *)
(* pipe has two descriptors: the first one closed frees it.                *)
Dropped_early(fd) == fd_table[fd].open

Dropped(fd) == fd_table[fd].open /\ fd_table[fd].ref = 1

free_fd(t, fd) ==
  IF ~t[fd].open THEN t
  ELSE IF t[fd].ref = 1 THEN [t EXCEPT ![fd] = Closed] ELSE [t EXCEPT ![fd].ref = @ - 1]

(* The descriptors of D that free an object when they are closed.          *)
Frees(D, o) == {fd \in D : Dropped(fd) /\ fd_table[fd].type # "FILE" /\ fd_table[fd].obj = o}
FreedBy(D) == {o \in Objects : Frees(D, o) # {}}

(* What closing the descriptors D at once does to pipes and sockets.  The  *)
(* heap forgets nothing of what was in them.                               *)
FreeObjects(D) ==
  /\ memory' = [o \in Objects |-> IF o \in FreedBy(D) /\ memory[o] = "live" THEN "left" ELSE memory[o]]
  /\ pool' = [i \in Slots |-> IF \E s \in FreedBy(D) \cap Socks : sock[s] = i THEN Zeroed ELSE pool[i]]
  /\ UNCHANGED <<pipe, sock>>

(* Memory that is free is freed again: the heap counts it twice, or, if a  *)
(* merge has taken its block in, links blocks that are none.               *)
FreedAgain(D) ==
  \E o \in FreedBy(D) : \/ memory[o] = "left"
                        \/ memory[o] = "live" /\ Cardinality(Frees(D, o)) > 1

Harm(D) ==
  IF \E o \in FreedBy(D) : memory[o] = "gone" THEN {{"wild"}}
  ELSE IF FreedAgain(D) THEN {{"twice"}, {"wild"}} ELSE {{}}

(* Another malloc gets the memory of an object some descriptor has left.   *)
Reused(o) ==
  /\ memory[o] = "left" /\ \E fd \in Open : fd_table[fd].obj = o
  /\ memory' = [memory EXCEPT ![o] = "gone"]
  /\ UNCHANGED <<netVars, fd_table, pipe, sock, size, procs, fdTrouble>>

----------------------------------------------------------------------------
(* Calls that make descriptors.                                            *)

sys_open ==
  /\ FreeFds(fd_table) # {}
  /\ fd_table' = [fd_table EXCEPT ![First(FreeFds(fd_table))] = Opened("FILE", None)]
  /\ UNCHANGED <<netVars, objects, size, procs, fdTrouble>>

sys_pipe_keeps_first(p, mem) ==
  LET r == First(FreeFds(fd_table))
      w == First(FreeFds(fd_table) \ {r})
  IN /\ memory[p] # "live" /\ FreeFds(fd_table) # {}
     /\ pipe' = [pipe EXCEPT ![p] = NewPipe] /\ memory' = [memory EXCEPT ![p] = "live"]
     /\ fd_table' = IF Cardinality(FreeFds(fd_table)) < 2 \/ ~mem THEN fd_table
                    ELSE [fd_table EXCEPT ![r] = Opened("PIPE", p), ![w] = Opened("PIPE", p)]
     /\ UNCHANGED <<netVars, sock, size, procs, fdTrouble>>

(* mem: memory for the second descriptor; when it or the room in the table *)
(* is missing everything is given back.                                    *)
sys_pipe(p, mem) ==
  LET r == First(FreeFds(fd_table))
      w == First(FreeFds(fd_table) \ {r})
  IN /\ memory[p] # "live"
     /\ pipe' = [pipe EXCEPT ![p] = NewPipe]
     /\ IF Cardinality(FreeFds(fd_table)) < 2 \/ ~mem
        THEN memory' = [memory EXCEPT ![p] = "left"] /\ UNCHANGED fd_table
        ELSE /\ memory' = [memory EXCEPT ![p] = "live"]
             /\ fd_table' = [fd_table EXCEPT ![r] = Opened("PIPE", p), ![w] = Opened("PIPE", p)]
     /\ UNCHANGED <<netVars, sock, size, procs, fdTrouble>>

SharedSock(i) == i # NoSlot /\ \E s \in Socks : memory[s] = "live" /\ sock[s] = i

(* tcp, mem: memory for the TCP data and for the net_socket.               *)
sys_socket(s, type, tcp, mem) ==
  LET r == net_socket_create(pool, type, tcp)
  IN /\ memory[s] # "live" /\ FreeFds(fd_table) # {}
     /\ IF r.fd = NoSlot \/ ~mem
        THEN pool' = net_socket_close(r.pool, r.fd) /\ UNCHANGED <<fd_table, sock, memory>>
        ELSE /\ pool' = r.pool
             /\ sock' = [sock EXCEPT ![s] = r.fd] /\ memory' = [memory EXCEPT ![s] = "live"]
             /\ fd_table' = [fd_table EXCEPT ![First(FreeFds(fd_table))] = Opened("SOCKET", s)]
     /\ FdNote(IF SharedSock(allocate_socket_fd(pool)) THEN {"alias"} ELSE {})
     /\ UNCHANGED <<queued, conns, handles, pipe, size, procs>>

(* The copy has the count the original had, and the original one more.     *)
Copied(old, new) == [fd_table EXCEPT ![old].ref = @ + 1, ![new] = fd_table[old]]

sys_dup(old) ==
  /\ old \in Open /\ FreeFds(fd_table) # {} /\ fd_table[old].ref < MaxRef
  /\ fd_table' = Copied(old, First(FreeFds(fd_table)))
  /\ FdNote({"dup"})
  /\ UNCHANGED <<netVars, objects, size, procs>>

(* What malloc returns, with the count one higher.                         *)
Garbage ==
  {[Opened("FILE", None) EXCEPT !.ref = r] : r \in 1..MaxRef}
    \cup {Opened("PIPE", p) : p \in Pipes} \cup {Opened("SOCKET", s) : s \in Socks}

(* newfd is closed first, whatever comes then; if it had more than one     *)
(* reference its descriptor is overwritten.  With old = new the new memory *)
(* is copied onto itself.                                                  *)
sys_dup2(old, new, mem) ==
  LET t == free_fd(fd_table, new)
  IN /\ fd_table[old].ref < MaxRef
     /\ FreeObjects({new})
     /\ CASE ~t[old].open -> fd_table' = t
          [] t[old].open /\ ~mem -> fd_table' = [t EXCEPT ![new] = Closed]
          [] t[old].open /\ mem /\ old = new -> \E g \in Garbage : fd_table' = [t EXCEPT ![new] = g]
          [] OTHER -> fd_table' = [t EXCEPT ![old].ref = @ + 1, ![new] = t[old]]
     /\ \E harm \in Harm({new}) :
          FdNote({"dup"} \cup harm \cup IF t[old].open /\ t[new].open THEN {"lost"} ELSE {})
     /\ UNCHANGED <<queued, conns, handles, size, procs>>

----------------------------------------------------------------------------
(* Calls on descriptors.                                                   *)

sys_close(fd) ==
  /\ fd \in Open
  /\ fd_table' = free_fd(fd_table, fd) /\ FreeObjects({fd})
  /\ \E harm \in Harm({fd}) : FdNote(harm)
  /\ UNCHANGED <<queued, conns, handles, size, procs>>

Least(a, b) == IF a <= b THEN a ELSE b

(* A pipe that was freed works on; memory of somebody else is read, and    *)
(* written, as if it were a pipe.                                          *)
PipeRead(p, n) ==
  LET k == Least(n, pipe[p].data)
  IN IF memory[p] = "gone" THEN UNCHANGED pipe /\ FdNote({"wild"})
     ELSE /\ pipe' = [pipe EXCEPT ![p].read = (@ + k) % BufferSize, ![p].data = @ - k]
          /\ UNCHANGED fdTrouble

PipeWrite_unlimited(p, n) ==
  /\ pipe' = [pipe EXCEPT ![p].write = (@ + n) % BufferSize, ![p].data = @ + n]
  /\ UNCHANGED fdTrouble

PipeWrite(p, n) ==
  LET k == Least(n, BufferSize - pipe[p].data)
  IN IF memory[p] = "gone" THEN UNCHANGED pipe /\ FdNote({"wild"})
     ELSE /\ pipe' = [pipe EXCEPT ![p].write = (@ + k) % BufferSize, ![p].data = @ + k]
          /\ UNCHANGED fdTrouble

(* What a descriptor finds as the handle of its socket.                    *)
HandleOf(s) == IF memory[s] = "gone" THEN Slots \cup {NoSlot} ELSE {sock[s]}

(* A file is read only before its end, and the offset moves by what was    *)
(* asked for.                                                              *)
sys_read(fd, n) ==
  LET obj == fd_table[fd].obj
  IN /\ fd \in Open \ {0}
     /\ CASE fd_table[fd].type = "PIPE" -> PipeRead(obj, n) /\ UNCHANGED <<fd_table, queued>>
          [] fd_table[fd].type = "SOCKET" ->
               /\ \E i \in HandleOf(obj) :
                    queued' = IF net_socket_receive(pool, i) THEN queued - 1 ELSE queued
               /\ UNCHANGED <<fd_table, pipe, fdTrouble>>
          [] OTHER -> /\ fd_table[fd].off < size /\ n > 0
                      /\ fd_table' = [fd_table EXCEPT ![fd].off = @ + n]
                      /\ UNCHANGED <<pipe, queued, fdTrouble>>
     /\ UNCHANGED <<pool, conns, handles, sock, memory, size, procs>>

(* net_socket_send never works: see net_socket_connect.                    *)
sys_write(fd, n) ==
  /\ fd \in Open \ {1, 2} /\ fd_table[fd].type # "SOCKET"
  /\ IF fd_table[fd].type = "PIPE"
     THEN PipeWrite(fd_table[fd].obj, n) /\ UNCHANGED <<fd_table, size>>
     ELSE LET end == fd_table[fd].off + n
          IN /\ n > 0 /\ end <= MaxFile
             /\ fd_table' = [fd_table EXCEPT ![fd].off = end]
             /\ size' = IF end > size THEN end ELSE size
             /\ UNCHANGED <<pipe, fdTrouble>>
  /\ UNCHANGED <<netVars, sock, memory, procs>>

(* Unlike sys_read it takes descriptor 0 too.                              *)
sys_recv(fd) ==
  /\ fd \in Open /\ fd_table[fd].type = "SOCKET"
  /\ \E i \in HandleOf(fd_table[fd].obj) : net_socket_receive(pool, i)
  /\ queued' = queued - 1
  /\ UNCHANGED <<pool, conns, handles, fdVars>>

sys_lseek(fd, off) ==
  /\ fd \in Open /\ fd_table[fd].type = "FILE" /\ off \in 0..size
  /\ fd_table' = [fd_table EXCEPT ![fd].off = off]
  /\ UNCHANGED <<netVars, objects, size, procs, fdTrouble>>

sys_connect(fd) ==
  /\ fd \in Open /\ fd_table[fd].type = "SOCKET"
  /\ \E i \in HandleOf(fd_table[fd].obj) : pool' = net_socket_connect(pool, i)
  /\ UNCHANGED <<queued, conns, handles, fdVars>>

----------------------------------------------------------------------------
(* Processes: the table is shared, not copied.                             *)

sys_fork ==
  /\ procs \in 1..(MaxProcs - 1)
  /\ procs' = procs + 1
  /\ fd_table' = [fd \in Fds |-> IF fd_table[fd].open THEN [fd_table[fd] EXCEPT !.ref = @ + 1]
                                 ELSE fd_table[fd]]
  /\ UNCHANGED <<netVars, objects, size, fdTrouble>>

sys_exit_closes_nothing ==
  procs > 0 /\ procs' = procs - 1 /\ UNCHANGED <<netVars, fd_table, objects, size, fdTrouble>>

sys_exit ==
  /\ procs > 0 /\ procs' = procs - 1
  /\ fd_table' = [fd \in Fds |-> free_fd(fd_table, fd)[fd]]
  /\ FreeObjects(Fds)
  /\ \E harm \in Harm(Fds) : FdNote(harm)
  /\ UNCHANGED <<queued, conns, handles, size>>

Calls ==
  \/ sys_open \/ sys_fork \/ sys_exit
  \/ \E p \in Pipes, mem \in BOOLEAN : sys_pipe(p, mem)
  \/ \E s \in Socks, type \in Types, tcp, mem \in BOOLEAN : sys_socket(s, type, tcp, mem)
  \/ \E fd \in Fds : sys_dup(fd) \/ sys_close(fd) \/ sys_connect(fd) \/ sys_recv(fd)
  \/ \E old, new \in Fds, mem \in BOOLEAN : sys_dup2(old, new, mem)
  \/ \E fd \in Fds, n \in 0..MaxCount : sys_read(fd, n) \/ sys_write(fd, n)
  \/ \E fd \in Fds, off \in 0..MaxFile : sys_lseek(fd, off)

FdNext ==
  \/ procs > 0 /\ "wild" \notin fdTrouble /\ (Calls \/ \E o \in Objects : Reused(o))
  \/ OtherPacket /\ ("wild" \in fdTrouble => UNCHANGED queued) /\ UNCHANGED fdVars

FdSpec == FdInit /\ [][FdNext]_<<netVars, fdVars>>

----------------------------------------------------------------------------
(* The variables have their types; a descriptor is open exactly as long as *)
(* it has references, and an offset passes a file's end by less than one   *)
(* read.                                                                   *)
FdTypeOK ==
  /\ NetTypeOK
  /\ \A fd \in Fds : /\ fd_table[fd].open <=> fd_table[fd].ref > 0
                     /\ fd_table[fd].off \in 0..(MaxFile + MaxCount - 1)
                     /\ fd_table[fd].type \in {"FILE", "PIPE", "SOCKET"}
  /\ size \in FileSize..MaxFile /\ procs \in 0..MaxProcs
  /\ memory \in [Objects -> {"live", "left", "gone"}]
  /\ fdTrouble \subseteq {"dup", "lost", "alias", "twice", "wild"}

(* The ring of a pipe: what is in it lies between the two positions, after *)
(* any reads and writes through either end, also through one that outlives *)
(* the pipe or has come to a new pipe in the same place.                   *)
RingAgrees ==
  \A p \in Pipes : memory[p] # "gone" =>
    /\ pipe[p].data \in 0..BufferSize
    /\ pipe[p].write = (pipe[p].read + pipe[p].data) % BufferSize

(* fork and exit count references for the whole table.  As long as nobody  *)
(* duplicates a descriptor, none has more references than there are        *)
(* processes, so when the last one has exited all descriptors are closed.  *)
RefsBounded ==
  "dup" \notin fdTrouble => \A fd \in Fds : fd_table[fd].open => fd_table[fd].ref \in 1..procs

(* No call, failing or not, leaves a pipe or a socket that no descriptor   *)
(* points to, unless dup2 has overwritten a descriptor.                    *)
NoOrphans ==
  "lost" \notin fdTrouble =>
    /\ \A p \in Pipes : memory[p] = "live" =>
         \E fd \in Open : fd_table[fd].type = "PIPE" /\ fd_table[fd].obj = p
    /\ \A s \in Socks : memory[s] = "live" =>
         \E fd \in Open : fd_table[fd].type = "SOCKET" /\ fd_table[fd].obj = s

(* The converse, for sockets: the descriptors of a socket last as long as  *)
(* it does, in whatever order processes fork, close and exit.  Without     *)
(* dup no descriptor is left pointing to memory that was freed, and no two *)
(* to the same.  A pipe makes no such promise: its first end frees it.     *)
NoDangling ==
  "dup" \notin fdTrouble =>
    \A fd \in Open : fd_table[fd].type = "SOCKET" =>
      /\ memory[fd_table[fd].obj] = "live"
      /\ \A other \in Open : fd_table[other].type = "SOCKET" /\ fd_table[other].obj = fd_table[fd].obj
                              => other = fd

=============================================================================
