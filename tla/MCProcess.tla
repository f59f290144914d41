------------------------------ MODULE MCProcess ------------------------------
(* Process with its links, seen as the FIFO queue of RoundRobin.           *)
EXTENDS Process, Sequences

(* The nodes Q of a walk in its order: the i-th is the one from which the  *)
(* walk passes all but i - 1 of them.                                      *)
InOrder(next, Q) ==
  [i \in 1..Cardinality(Q) |->
     CHOOSE p \in Q : Cardinality(Chain(next, p)) = Cardinality(Q) - i + 1]

QueueSeq == InOrder(links.next, Queued)

RR == INSTANCE RoundRobin WITH known <- live, ready <- QueueSeq, running <- current_process

(* The scheduler is round robin: every step of the code with its shared    *)
(* links is a step of a FIFO queue of processes, or leaves it alone.       *)
ImplementsRoundRobin == RR!RRSpec
=============================================================================
