-------------------------------- MODULE Pipe --------------------------------
(***************************************************************************)
(* The pipe of kernel/src/core/drivers/tty/pipe.c: a ring buffer with a    *)
(* byte count, counters of registered readers and writers, and a word of   *)
(* state flags.                                                            *)
(*                                                                         *)
(* The two waiting loops, marked "Would normally sleep here", spin without *)
(* giving the processor away, on one processor and with interrupts masked  *)
(* (syscalls_init clears IF).  So a call is one action: it returns, or it  *)
(* has to wait and spins for ever, and with it the kernel.                 *)
(***************************************************************************)
EXTENDS Integers, Sequences, FiniteSets

CONSTANTS
  PIPE_BUFFER_SIZE,
  Readers, Writers,  \* processes that register at the pipe
  Bytes,
  WriteBufs,         \* buffers passed to pipe_write
  MaxRead            \* bound: largest count passed to pipe_read

ASSUME PipeAssumption ==
  /\ PIPE_BUFFER_SIZE \in Nat \ {0}
  /\ IsFiniteSet(Readers) /\ IsFiniteSet(Writers)
  /\ Readers \cap Writers = {}
  /\ WriteBufs \subseteq Seq(Bytes) \ {<<>>}
  /\ MaxRead \in Nat

VARIABLES
  buffer, read_pos, write_pos, count,
  state,            \* the set of PIPE_STATE flags that are set
  readers, writers,
  registered,       \* processes that have been added and not removed
  got,              \* bytes the last pipe_read delivered
  hung              \* a call spins for ever

ring == <<buffer, read_pos, write_pos, count>>
ends == <<state, readers, writers, registered>>
vars == <<ring, ends, got, hung>>

Positions == 0..(PIPE_BUFFER_SIZE - 1)

(* pipe_create; malloc leaves the buffer's bytes as they were.  After      *)
(* pipe_destroy there is no pipe and nothing more to say.                  *)
Init ==
  /\ buffer \in [Positions -> Bytes]
  /\ read_pos = 0 /\ write_pos = 0 /\ count = 0
  /\ state = {"OPEN", "READABLE", "WRITABLE"}
  /\ readers = 0 /\ writers = 0
  /\ registered = {}
  /\ got = <<>> /\ hung = FALSE

----------------------------------------------------------------------------
pipe_add_reader(r) ==
  /\ r \notin registered
  /\ registered' = registered \cup {r}
  /\ readers' = readers + 1
  /\ state' = state \cup {"READABLE"}
  /\ UNCHANGED <<ring, writers, got, hung>>

pipe_add_writer(w) ==
  /\ w \notin registered
  /\ registered' = registered \cup {w}
  /\ writers' = writers + 1
  /\ state' = state \cup {"WRITABLE"}
  /\ UNCHANGED <<ring, readers, got, hung>>

pipe_remove_reader(r) ==
  /\ r \in registered
  /\ registered' = registered \ {r}
  /\ readers' = readers - 1
  /\ state' = IF readers = 1 THEN state \ {"READABLE"} ELSE state
  /\ UNCHANGED <<ring, writers, got, hung>>

pipe_remove_writer(w) ==
  /\ w \in registered
  /\ registered' = registered \ {w}
  /\ writers' = writers - 1
  /\ state' = IF writers = 1 THEN (state \ {"WRITABLE"}) \cup {"EOF"} ELSE state
  /\ UNCHANGED <<ring, readers, got, hung>>

----------------------------------------------------------------------------
(* pipe_read.                                                              *)

AtEof == writers = 0 \/ "EOF" \in state

Least(m, n) == IF m < n THEN m ELSE n

(* The k oldest bytes, as the reading loop finds them.                     *)
Oldest(k) == [i \in 1..k |-> buffer[(read_pos + i - 1) % PIPE_BUFFER_SIZE]]

TakeBytesMovesByWanted(n) ==
  LET to_read == Least(n, count)
  IN /\ got' = Oldest(to_read)
     /\ read_pos' = (read_pos + n) % PIPE_BUFFER_SIZE
     /\ count' = count - to_read
     /\ UNCHANGED <<buffer, write_pos, ends, hung>>

(* The loop of pipe_read, for a call that asked for n bytes.               *)
TakeBytes(n) ==
  LET to_read == Least(n, count)
  IN /\ got' = Oldest(to_read)
     /\ read_pos' = (read_pos + to_read) % PIPE_BUFFER_SIZE
     /\ count' = count - to_read
     /\ UNCHANGED <<buffer, write_pos, ends, hung>>

(* Return 0, end of file; or -1.                                           *)
DeliverNothing ==
  /\ got' = <<>>
  /\ UNCHANGED <<ring, ends, hung>>

(* "Block if pipe empty and has writers": nobody can put a byte in.        *)
Spin == hung' = TRUE /\ UNCHANGED <<ring, ends, got>>

pipe_read(n) ==
  \/ "READABLE" \notin state /\ DeliverNothing
  \/ "READABLE" \in state /\ count > 0 /\ TakeBytes(n)
  \/ "READABLE" \in state /\ count = 0 /\ AtEof /\ DeliverNothing
  \/ "READABLE" \in state /\ count = 0 /\ ~AtEof /\ Spin

----------------------------------------------------------------------------
(* pipe_write.                                                             *)

PutBytesUnchecked(s) ==
  LET n == Len(s)
  IN /\ buffer' = [p \in Positions |->
                     IF \E i \in 1..n : p = (write_pos + i - 1) % PIPE_BUFFER_SIZE
                     THEN s[CHOOSE i \in 1..n : p = (write_pos + i - 1) % PIPE_BUFFER_SIZE]
                     ELSE buffer[p]]
     /\ write_pos' = (write_pos + n) % PIPE_BUFFER_SIZE
     /\ count' = count + n
     /\ hung' = (n < Len(s))
     /\ UNCHANGED <<read_pos, ends, got>>

PutBytesStepsFirst(s) ==
  LET n == Least(Len(s), PIPE_BUFFER_SIZE - count)
  IN /\ buffer' = [p \in Positions |->
                     IF \E i \in 1..n : p = (write_pos + i) % PIPE_BUFFER_SIZE
                     THEN s[CHOOSE i \in 1..n : p = (write_pos + i) % PIPE_BUFFER_SIZE]
                     ELSE buffer[p]]
     /\ write_pos' = (write_pos + n) % PIPE_BUFFER_SIZE
     /\ count' = count + n
     /\ hung' = (n < Len(s))
     /\ UNCHANGED <<read_pos, ends, got>>

(* The writing loop for the bytes s, with readers: what fits is written,   *)
(* then the call returns or, "Block if pipe is full", spins with the rest. *)
PutBytes(s) ==
  LET n == Least(Len(s), PIPE_BUFFER_SIZE - count)
  IN /\ buffer' = [p \in Positions |->
                     IF \E i \in 1..n : p = (write_pos + i - 1) % PIPE_BUFFER_SIZE
                     THEN s[CHOOSE i \in 1..n : p = (write_pos + i - 1) % PIPE_BUFFER_SIZE]
                     ELSE buffer[p]]
     /\ write_pos' = (write_pos + n) % PIPE_BUFFER_SIZE
     /\ count' = count + n
     /\ hung' = (n < Len(s))
     /\ UNCHANGED <<read_pos, ends, got>>

WriteFails == "WRITABLE" \notin state \/ readers = 0

pipe_write(s) == IF WriteFails THEN UNCHANGED vars ELSE PutBytes(s)

----------------------------------------------------------------------------
Next ==
  /\ ~hung
  /\ \/ \E r \in Readers : pipe_add_reader(r) \/ pipe_remove_reader(r)
     \/ \E w \in Writers : pipe_add_writer(w) \/ pipe_remove_writer(w)
     \/ \E n \in 1..MaxRead : pipe_read(n)
     \/ \E s \in WriteBufs : pipe_write(s)

Spec == Init /\ [][Next]_vars

----------------------------------------------------------------------------
(* The positions index the buffer, the count does not exceed it, and the   *)
(* two counters count the processes that are registered.                   *)
TypeOK ==
  /\ buffer \in [Positions -> Bytes]
  /\ read_pos \in Positions /\ write_pos \in Positions
  /\ count \in 0..PIPE_BUFFER_SIZE
  /\ state \subseteq {"OPEN", "READABLE", "WRITABLE", "EOF"}
  /\ registered \subseteq Readers \cup Writers
  /\ readers = Cardinality(registered \cap Readers)
  /\ writers = Cardinality(registered \cap Writers)
  /\ got \in Seq(Bytes) /\ hung \in BOOLEAN

(* The three variables of the ring agree: pipe_read moves one position,    *)
(* pipe_write the other, both the count.                                   *)
RingAgrees == write_pos = (read_pos + count) % PIPE_BUFFER_SIZE

=============================================================================
