------------------------------ MODULE ByteFifo ------------------------------
(***************************************************************************)
(* What a pipe promises: a bounded first-in first-out queue of bytes.      *)
(* Whatever a writer has put in comes out once, in order.                  *)
(***************************************************************************)
EXTENDS Integers, Sequences

CONSTANTS
  Chunks,   \* what a call may put in: the beginnings of buffers
  Size

VARIABLES
  queue,  \* the bytes in the pipe, oldest first
  got     \* the bytes the last read delivered

fifoVars == <<queue, got>>

FifoInit == queue = <<>> /\ got = <<>>

Put ==
  /\ \E s \in Chunks : queue' = queue \o s
  /\ UNCHANGED got

Get ==
  \E n \in 0..Len(queue) :
    /\ got' = SubSeq(queue, 1, n)
    /\ queue' = SubSeq(queue, n + 1, Len(queue))

FifoNext == Put \/ Get

FifoSpec == FifoInit /\ [][FifoNext /\ Len(queue') <= Size]_fifoVars
=============================================================================
