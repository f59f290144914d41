------------------------------- MODULE MCPipe -------------------------------
(* Pipe and its promise, a FIFO of bytes.                                  *)
EXTENDS Pipe

(* Single bytes and pairs, so that positions wrap between and inside       *)
(* calls, and a buffer that fits into an empty pipe only.                  *)
MCWriteBufs == {<<0>>, <<1>>, <<0, 1>>, <<1, 0, 0, 1>>}

(* What a call puts in: as much of its buffer as fits.                     *)
Chunks == UNION {{SubSeq(s, 1, n) : n \in 1..Len(s)} : s \in WriteBufs}

Fifo == INSTANCE ByteFifo WITH Size <- PIPE_BUFFER_SIZE, queue <- Oldest(count)

(* The ring buffer is a FIFO: no byte is lost, duplicated or reordered,    *)
(* wherever the positions wrap and however much of a call fits.            *)
ImplementsFifo == Fifo!FifoSpec
=============================================================================
