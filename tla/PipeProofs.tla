----------------------------- MODULE PipeProofs -----------------------------
(***************************************************************************)
(* The pipe for every buffer size, every set of processes and every buffer *)
(* passed to pipe_write: its types, the agreement of the three variables   *)
(* of the ring, and that the ring implements the FIFO of bytes.            *)
(*                                                                         *)
(* The refinement needs RingAgrees: a byte is stored behind the newest     *)
(* one.                                                                    *)
(***************************************************************************)
EXTENDS MCPipe, FiniteSetTheorems, SequenceTheorems, TLAPS

IInv == TypeOK /\ RingAgrees

----------------------------------------------------------------------------
(* The remainder by the buffer size, for a position at most one lap ahead. *)
LEMMA Wrap ==
  ASSUME NEW a \in 0..(2 * PIPE_BUFFER_SIZE - 1)
  PROVE  a % PIPE_BUFFER_SIZE = IF a < PIPE_BUFFER_SIZE THEN a ELSE a - PIPE_BUFFER_SIZE
<1>1. CASE a < PIPE_BUFFER_SIZE
  BY <1>1, PipeAssumption
<1>2. CASE a >= PIPE_BUFFER_SIZE
  BY <1>2, PipeAssumption
<1> QED BY <1>1, <1>2, PipeAssumption

(* The i-th position from p on, without the remainder.                     *)
Slot(p, i) == IF p + i - 1 < PIPE_BUFFER_SIZE THEN p + i - 1 ELSE p + i - 1 - PIPE_BUFFER_SIZE

(* Slot is the remainder, and a position of the ring.                      *)
LEMMA SlotWrap ==
  ASSUME NEW p \in Positions, NEW i \in 1..PIPE_BUFFER_SIZE
  PROVE  /\ (p + i - 1) % PIPE_BUFFER_SIZE = Slot(p, i)
         /\ Slot(p, i) \in Positions
<1>1. p + i - 1 \in 0..(2 * PIPE_BUFFER_SIZE - 1)
  BY PipeAssumption DEF Positions
<1> DEFINE a == p + i - 1
           m == a % PIPE_BUFFER_SIZE
<1>2. m = Slot(p, i)
  <2>1. a \in 0..(2 * PIPE_BUFFER_SIZE - 1)
    BY <1>1
  <2>2. Slot(p, i) = IF a < PIPE_BUFFER_SIZE THEN a ELSE a - PIPE_BUFFER_SIZE
    BY PipeAssumption DEF Slot, Positions
  <2> HIDE DEF a
  <2> QED BY <2>1, <2>2, Wrap
<1> HIDE DEF m
<1>3. Slot(p, i) \in Positions
  BY PipeAssumption DEF Slot, Positions
<1> QED BY <1>2, <1>3 DEF m

(* Moving a position by at most the size of the buffer stays inside it.    *)
LEMMA MoveWrap ==
  ASSUME NEW p \in Positions, NEW k \in 0..PIPE_BUFFER_SIZE
  PROVE  /\ (p + k) % PIPE_BUFFER_SIZE =
              IF p + k < PIPE_BUFFER_SIZE THEN p + k ELSE p + k - PIPE_BUFFER_SIZE
         /\ (p + k) % PIPE_BUFFER_SIZE \in Positions
<1>1. p + k \in 0..(2 * PIPE_BUFFER_SIZE - 1)
  BY PipeAssumption DEF Positions
<1> DEFINE a == p + k
           m == a % PIPE_BUFFER_SIZE
<1>2. m = IF p + k < PIPE_BUFFER_SIZE THEN p + k ELSE p + k - PIPE_BUFFER_SIZE
  <2>1. a \in 0..(2 * PIPE_BUFFER_SIZE - 1)
    BY <1>1
  <2>2. m = IF a < PIPE_BUFFER_SIZE THEN a ELSE a - PIPE_BUFFER_SIZE
    <3> HIDE DEF a
    <3> QED BY <2>1, Wrap
  <2> QED BY <2>2, PipeAssumption DEF Positions
<1> HIDE DEF m
<1>3. m \in Positions
  BY <1>2, PipeAssumption DEF Positions
<1> QED BY <1>2, <1>3 DEF m

----------------------------------------------------------------------------
(* What pipe_read takes out of the ring is the front of the queue, and     *)
(* what it leaves is the rest.                                             *)
LEMMA TakeIsGet ==
  ASSUME TypeOK, RingAgrees, NEW n \in Nat, TakeBytes(n)
  PROVE  /\ Fifo!Get
         /\ got' \in Seq(Bytes)
         /\ read_pos' \in Positions /\ count' \in 0..PIPE_BUFFER_SIZE
         /\ RingAgrees'
<1> DEFINE k == Least(n, count)
           Q == Oldest(count)
<1>1. k \in 0..count
  BY DEF Least, TypeOK
<1>2. /\ read_pos' = (read_pos + k) % PIPE_BUFFER_SIZE /\ count' = count - k
      /\ buffer' = buffer /\ write_pos' = write_pos
      /\ got' = Oldest(k)
  BY DEF TakeBytes, ends
<1> HIDE DEF k
<1>3. /\ Q \in Seq(Bytes) /\ Len(Q) = count
      /\ \A i \in 1..count : Q[i] = buffer[Slot(read_pos, i)] /\ Q[i] \in Bytes
  <2>1. \A i \in 1..count : /\ (read_pos + i - 1) % PIPE_BUFFER_SIZE = Slot(read_pos, i)
                            /\ Slot(read_pos, i) \in Positions
    BY SlotWrap, PipeAssumption DEF TypeOK
  <2>2. \A i \in 1..count : buffer[Slot(read_pos, i)] \in Bytes
    BY <2>1 DEF TypeOK
  <2>3. Q \in [1..count -> Bytes]
    BY <2>1, <2>2 DEF Oldest
  <2> QED BY <2>1, <2>2, <2>3, IsASeq, LenProperties DEF Oldest, TypeOK
<1>4. /\ read_pos' \in Positions /\ count' \in 0..PIPE_BUFFER_SIZE
      /\ read_pos' = IF read_pos + k < PIPE_BUFFER_SIZE THEN read_pos + k
                                                        ELSE read_pos + k - PIPE_BUFFER_SIZE
  BY <1>1, <1>2, MoveWrap, PipeAssumption DEF TypeOK
<1>5. got' = SubSeq(Q, 1, k)
  <2>1. /\ SubSeq(Q, 1, k) \in Seq(Bytes) /\ Len(SubSeq(Q, 1, k)) = k
        /\ \A i \in 1..k : SubSeq(Q, 1, k)[i] = Q[i]
    <3> HIDE DEF Q
    <3> QED BY <1>1, <1>3, SubSeqProperties
  <2>2. got' = [i \in 1..k |-> Q[i]]
    BY <1>1, <1>2 DEF Oldest, TypeOK
  <2> HIDE DEF Q
  <2> QED BY <2>1, <2>2, <1>1, LenProperties
<1>6. Oldest(count)' = SubSeq(Q, k + 1, Len(Q))
  <2> DEFINE T == SubSeq(Q, k + 1, Len(Q))
  <2>1. /\ T \in Seq(Bytes) /\ Len(T) = count - k
        /\ \A i \in 1..count - k : T[i] = Q[k + i]
    <3> HIDE DEF Q
    <3>1. /\ T \in Seq(Bytes) /\ Len(T) = IF k + 1 <= count THEN count - (k + 1) + 1 ELSE 0
          /\ \A i \in 1..count - (k + 1) + 1 : T[i] = Q[k + 1 + i - 1]
      BY <1>1, <1>3, SubSeqProperties DEF TypeOK
    <3> HIDE DEF T
    <3>2. count \in Int /\ k \in Int /\ count - (k + 1) + 1 = count - k
      BY <1>1 DEF TypeOK
    <3>3. \A i \in 1..count - k : k + 1 + i - 1 = k + i
      BY <3>2
    <3>4. \A i \in 1..count - k : T[i] = Q[k + i]
      BY <3>1, <3>2, <3>3
    <3>5. Len(T) = count - k
      BY <3>1, <3>2, <1>1
    <3> QED BY <3>1, <3>4, <3>5
  <2>2. \A i \in 1..count - k : /\ (read_pos' + i - 1) % PIPE_BUFFER_SIZE = Slot(read_pos', i)
                                /\ Slot(read_pos', i) = Slot(read_pos, k + i)
    <3> TAKE i \in 1..count - k
    <3>1. i \in 1..PIPE_BUFFER_SIZE
      BY <1>1, PipeAssumption DEF TypeOK
    <3>2. Slot(read_pos', i) = Slot(read_pos, k + i)
      BY <3>1, <1>1, <1>4, PipeAssumption DEF Slot, Positions, TypeOK
    <3> QED BY <3>1, <3>2, <1>4, SlotWrap
  <2>3. Oldest(count)' = [i \in 1..count - k |-> buffer[(read_pos' + i - 1) % PIPE_BUFFER_SIZE]]
    BY <1>2 DEF Oldest
  <2>4. \A i \in 1..count - k : buffer[(read_pos' + i - 1) % PIPE_BUFFER_SIZE] = T[i]
    <3> HIDE DEF Q, T
    <3> TAKE i \in 1..count - k
    <3>1. k + i \in 1..count
      BY <1>1 DEF TypeOK
    <3> QED BY <3>1, <2>1, <2>2, <1>3
  <2>5. Oldest(count)' = [i \in 1..count - k |-> T[i]]
    <3> HIDE DEF T
    <3> QED BY <2>3, <2>4
  <2> HIDE DEF T
  <2>6. T = [i \in 1..count - k |-> T[i]]
    BY <2>1, LenProperties
  <2> QED BY <2>5, <2>6 DEF T
<1>7. Fifo!Get
  <2> HIDE DEF Q
  <2> QED BY <1>1, <1>2, <1>3, <1>5, <1>6 DEF Fifo!Get, Q
<1>8. got' \in Seq(Bytes)
  <2> HIDE DEF Q
  <2> QED BY <1>1, <1>3, <1>5, SubSeqProperties
<1>9. RingAgrees'
  <2>1. write_pos = IF read_pos + count < PIPE_BUFFER_SIZE THEN read_pos + count
                                                         ELSE read_pos + count - PIPE_BUFFER_SIZE
    BY MoveWrap DEF TypeOK, RingAgrees
  <2>2. (read_pos' + count') % PIPE_BUFFER_SIZE =
          IF read_pos' + count' < PIPE_BUFFER_SIZE THEN read_pos' + count'
                                                   ELSE read_pos' + count' - PIPE_BUFFER_SIZE
    BY <1>4, MoveWrap
  <2>3. write_pos' = write_pos /\ count' = count - k
    BY <1>2
  <2>4. /\ read_pos \in Nat /\ read_pos < PIPE_BUFFER_SIZE
        /\ count \in Nat /\ count <= PIPE_BUFFER_SIZE /\ k \in Nat /\ k <= count
        /\ PIPE_BUFFER_SIZE \in Nat
    BY <1>1, PipeAssumption DEF TypeOK, Positions
  <2>5. write_pos' = (read_pos' + count') % PIPE_BUFFER_SIZE
    <3>1. CASE read_pos + k < PIPE_BUFFER_SIZE
      BY <3>1, <2>1, <2>2, <2>3, <2>4, <1>4
    <3>2. CASE ~(read_pos + k < PIPE_BUFFER_SIZE)
      BY <3>2, <2>1, <2>2, <2>3, <2>4, <1>4
    <3> QED BY <3>1, <3>2
  <2> QED BY <2>5 DEF RingAgrees
<1> QED BY <1>4, <1>7, <1>8, <1>9

----------------------------------------------------------------------------
(* Different bytes of a lap have different slots.                          *)
LEMMA SlotsDiffer ==
  ASSUME NEW p \in Positions, NEW i \in 1..PIPE_BUFFER_SIZE, NEW j \in 1..PIPE_BUFFER_SIZE,
         Slot(p, i) = Slot(p, j)
  PROVE  i = j
BY PipeAssumption DEF Slot, Positions

(* Moving by m and then by n is moving by m + n.                           *)
LEMMA MoveTwice ==
  ASSUME NEW p \in Positions, NEW m \in Nat, NEW n \in Nat, m + n <= PIPE_BUFFER_SIZE,
         NEW q, q = IF p + m < PIPE_BUFFER_SIZE THEN p + m ELSE p + m - PIPE_BUFFER_SIZE
  PROVE  (IF q + n < PIPE_BUFFER_SIZE THEN q + n ELSE q + n - PIPE_BUFFER_SIZE) =
         IF p + (m + n) < PIPE_BUFFER_SIZE THEN p + (m + n) ELSE p + (m + n) - PIPE_BUFFER_SIZE
<1>1. CASE p + m < PIPE_BUFFER_SIZE
  BY <1>1, PipeAssumption DEF Positions
<1>2. CASE ~(p + m < PIPE_BUFFER_SIZE)
  BY <1>2, PipeAssumption DEF Positions
<1> QED BY <1>1, <1>2

(* The writing loop stores its bytes behind the newest one, and leaves the *)
(* bytes that wait in the ring alone.                                      *)
LEMMA PutAppends ==
  ASSUME TypeOK, RingAgrees, NEW s \in Seq(Bytes), PutBytes(s),
         NEW n, n = Least(Len(s), PIPE_BUFFER_SIZE - count)
  PROVE  /\ n \in 0..Len(s)
         /\ buffer' \in [Positions -> Bytes]
         /\ write_pos' \in Positions /\ count' \in 0..PIPE_BUFFER_SIZE
         /\ RingAgrees'
         /\ Oldest(count)' = Oldest(count) \o SubSeq(s, 1, n)
         /\ Len(Oldest(count)') = count'
<1>1. /\ n \in 0..Len(s) /\ count + n \in 0..PIPE_BUFFER_SIZE /\ n \in 0..PIPE_BUFFER_SIZE
      /\ count \in 0..PIPE_BUFFER_SIZE /\ count \in Nat /\ Len(s) \in Nat
  BY PipeAssumption DEF Least, TypeOK
<1>2. /\ write_pos' = (write_pos + n) % PIPE_BUFFER_SIZE /\ count' = count + n
      /\ read_pos' = read_pos
      /\ buffer' = [p \in Positions |->
                     IF \E i \in 1..n : p = (write_pos + i - 1) % PIPE_BUFFER_SIZE
                     THEN s[CHOOSE i \in 1..n : p = (write_pos + i - 1) % PIPE_BUFFER_SIZE]
                     ELSE buffer[p]]
  BY DEF PutBytes
<1>3. /\ read_pos \in Positions /\ write_pos \in Positions
      /\ buffer \in [Positions -> Bytes]
  BY DEF TypeOK
<1>4. \A i \in 1..n : s[i] \in Bytes
  BY <1>1, ElementOfSeq
<1>5. \A i \in 1..n : /\ (write_pos + i - 1) % PIPE_BUFFER_SIZE = Slot(write_pos, i)
                      /\ Slot(write_pos, i) \in Positions
  <2> TAKE i \in 1..n
  <2>1. i \in 1..PIPE_BUFFER_SIZE
    BY <1>1, PipeAssumption
  <2> QED BY <2>1, <1>3, SlotWrap
<1>6. buffer' = [p \in Positions |->
                     IF \E i \in 1..n : p = Slot(write_pos, i)
                     THEN s[CHOOSE i \in 1..n : p = Slot(write_pos, i)]
                     ELSE buffer[p]]
  <2>1. ASSUME NEW p \in Positions
        PROVE  (CHOOSE i \in 1..n : p = (write_pos + i - 1) % PIPE_BUFFER_SIZE) =
               (CHOOSE i \in 1..n : p = Slot(write_pos, i))
    BY <1>5, Zenon
  <2>2. ASSUME NEW p \in Positions
        PROVE  (\E i \in 1..n : p = (write_pos + i - 1) % PIPE_BUFFER_SIZE) <=>
               (\E i \in 1..n : p = Slot(write_pos, i))
    BY <1>5, Zenon
  <2> QED BY <1>2, <2>1, <2>2, Zenon
<1>7. \A i \in 1..n : buffer'[Slot(write_pos, i)] = s[i]
  <2> TAKE i \in 1..n
  <2> DEFINE c == CHOOSE j \in 1..n : Slot(write_pos, i) = Slot(write_pos, j)
  <2>1. c \in 1..n /\ Slot(write_pos, i) = Slot(write_pos, c)
    OBVIOUS
  <2>2. buffer'[Slot(write_pos, i)] = s[c]
    BY <1>5, <1>6, Zenon
  <2> HIDE DEF c
  <2>3. c = i
    <3>1. c \in 1..PIPE_BUFFER_SIZE /\ i \in 1..PIPE_BUFFER_SIZE
      BY <2>1, <1>1, PipeAssumption
    <3> QED BY <2>1, <3>1, <1>3, SlotsDiffer
  <2> QED BY <2>2, <2>3
<1>8. \A p \in Positions : (\A i \in 1..n : p # Slot(write_pos, i)) => buffer'[p] = buffer[p]
  BY <1>6
<1>9. buffer' \in [Positions -> Bytes]
  <2>1. ASSUME NEW p \in Positions PROVE buffer'[p] \in Bytes
    BY <1>3, <1>4, <1>7, <1>8
  <2> QED BY <1>6, <2>1
<1>10. write_pos = IF read_pos + count < PIPE_BUFFER_SIZE THEN read_pos + count
                                                          ELSE read_pos + count - PIPE_BUFFER_SIZE
  BY <1>1, <1>3, MoveWrap DEF RingAgrees
<1>11. /\ write_pos' \in Positions
       /\ write_pos' = IF write_pos + n < PIPE_BUFFER_SIZE THEN write_pos + n
                                                           ELSE write_pos + n - PIPE_BUFFER_SIZE
  BY <1>1, <1>2, <1>3, MoveWrap
<1>12. RingAgrees'
  <2>0. count' = count + n
    BY <1>2
  <2>1. (read_pos + count') % PIPE_BUFFER_SIZE =
          IF read_pos + count' < PIPE_BUFFER_SIZE THEN read_pos + count'
                                                  ELSE read_pos + count' - PIPE_BUFFER_SIZE
    BY <1>1, <1>2, <1>3, MoveWrap
  <2>2. write_pos' = IF read_pos + count' < PIPE_BUFFER_SIZE THEN read_pos + count'
                                                  ELSE read_pos + count' - PIPE_BUFFER_SIZE
    <3>1. count \in Nat /\ n \in Nat /\ count + n <= PIPE_BUFFER_SIZE
      BY <1>1, PipeAssumption
    <3>2. (IF write_pos + n < PIPE_BUFFER_SIZE THEN write_pos + n
                                               ELSE write_pos + n - PIPE_BUFFER_SIZE) =
          IF read_pos + (count + n) < PIPE_BUFFER_SIZE
          THEN read_pos + (count + n) ELSE read_pos + (count + n) - PIPE_BUFFER_SIZE
      BY <3>1, <1>3, <1>10, MoveTwice
    <3> QED BY <3>2, <2>0, <1>11
  <2> QED BY <1>2, <2>1, <2>2 DEF RingAgrees
<1>13. \A i \in 1..n : Slot(write_pos, i) = Slot(read_pos, count + i)
  BY <1>1, <1>3, <1>10, PipeAssumption DEF Slot, Positions
<1>14. \A j \in 1..count + n : /\ (read_pos + j - 1) % PIPE_BUFFER_SIZE = Slot(read_pos, j)
                               /\ Slot(read_pos, j) \in Positions
  <2> TAKE j \in 1..count + n
  <2>1. j \in 1..PIPE_BUFFER_SIZE
    BY <1>1, PipeAssumption
  <2> QED BY <2>1, <1>3, SlotWrap
<1>15. \A j \in 1..count : buffer'[Slot(read_pos, j)] = buffer[Slot(read_pos, j)]
  <2> TAKE j \in 1..count
  <2>1. \A i \in 1..n : Slot(read_pos, j) # Slot(write_pos, i)
    <3> TAKE i \in 1..n
    <3>1. count + i \in 1..PIPE_BUFFER_SIZE /\ j \in 1..PIPE_BUFFER_SIZE /\ j # count + i
      BY <1>1, PipeAssumption
    <3> QED BY <3>1, <1>3, <1>13, SlotsDiffer
  <2>2. j \in 1..count + n
    BY <1>1
  <2> QED BY <2>1, <2>2, <1>8, <1>14
<1> DEFINE Q == Oldest(count)
           T == SubSeq(s, 1, n)
<1>16. /\ Q = [j \in 1..count |-> buffer[Slot(read_pos, j)]]
       /\ Q \in Seq(Bytes) /\ Len(Q) = count
  <2>1. 1..count \subseteq 1..count + n
    BY <1>1
  <2>2. Q = [j \in 1..count |-> buffer[Slot(read_pos, j)]]
    BY <2>1, <1>14 DEF Oldest
  <2>3. Q \in [1..count -> Bytes]
    BY <2>1, <2>2, <1>3, <1>14
  <2> HIDE DEF Q
  <2> QED BY <2>2, <2>3, <1>1, IsASeq, LenProperties
<1>17. /\ T \in Seq(Bytes) /\ Len(T) = n
       /\ \A i \in 1..n : T[i] = s[i]
  <2>1. /\ T \in Seq(Bytes) /\ Len(T) = IF 1 <= n THEN n - 1 + 1 ELSE 0
        /\ \A i \in 1..n - 1 + 1 : T[i] = s[1 + i - 1]
    BY <1>1, <1>4, SubSeqProperties
  <2> HIDE DEF T
  <2>2. n - 1 + 1 = n /\ \A i \in 1..n : 1 + i - 1 = i
    BY <1>1
  <2> QED BY <2>1, <2>2, <1>1
<1>18. Oldest(count)' = [j \in 1..count + n |-> buffer'[Slot(read_pos, j)]]
  <2>1. Oldest(count)' = [j \in 1..count + n |-> buffer'[(read_pos + j - 1) % PIPE_BUFFER_SIZE]]
    BY <1>2 DEF Oldest
  <2> QED BY <2>1, <1>14, Zenon
<1>19. Oldest(count)' = Q \o T
  <2> HIDE DEF Q, T
  <2>1. /\ Q \o T \in Seq(Bytes) /\ Len(Q \o T) = count + n
        /\ \A j \in 1..count + n :
             (Q \o T)[j] = IF j <= count THEN Q[j] ELSE T[j - count]
    <3>0. Q \in Seq(Bytes) /\ T \in Seq(Bytes)
      BY <1>16, <1>17
    <3>1. /\ Q \o T \in Seq(Bytes) /\ Len(Q \o T) = Len(Q) + Len(T)
          /\ \A j \in 1..Len(Q) + Len(T) :
               (Q \o T)[j] = IF j <= Len(Q) THEN Q[j] ELSE T[j - Len(Q)]
      BY <3>0, ConcatProperties
    <3> QED BY <3>1, <1>16, <1>17
  <2>2. ASSUME NEW j \in 1..count + n
        PROVE  (Q \o T)[j] = buffer'[Slot(read_pos, j)]
    <3>0. j <= count \/ j > count
      BY <1>1
    <3>1. CASE j <= count
      <4>1. j \in 1..count
        BY <3>1, <1>1
      <4> QED BY <3>1, <4>1, <2>1, <1>15, <1>16
    <3>2. CASE j > count
      <4>1. j - count \in 1..n /\ count + (j - count) = j /\ ~(j <= count)
        BY <3>2, <1>1
      <4>2. buffer'[Slot(write_pos, j - count)] = s[j - count]
        BY <4>1, <1>7
      <4>3. Slot(write_pos, j - count) = Slot(read_pos, j)
        BY <4>1, <1>13
      <4> QED BY <4>1, <4>2, <4>3, <2>1, <1>17
    <3> QED BY <3>0, <3>1, <3>2
  <2>3. Q \o T = [j \in 1..count + n |-> (Q \o T)[j]]
    BY <2>1, LenProperties
  <2> QED BY <1>18, <2>2, <2>3
<1>20. Len(Oldest(count)') = count'
  <2> HIDE DEF Q, T
  <2>0. Len(Q \o T) = count + n
    <3>1. Q \in Seq(Bytes) /\ T \in Seq(Bytes)
      BY <1>16, <1>17
    <3>2. Len(Q \o T) = Len(Q) + Len(T)
      BY <3>1, ConcatProperties
    <3> QED BY <3>2, <1>16, <1>17
  <2> QED BY <1>2, <2>0, <1>19
<1> QED BY <1>1, <1>2, <1>9, <1>11, <1>12, <1>19, <1>20

----------------------------------------------------------------------------
(* What one step of the pipe is in the FIFO.                               *)
FifoStep == [Fifo!FifoNext /\ Len(Oldest(count)') <= PIPE_BUFFER_SIZE]_(Fifo!fifoVars)

(* The bytes in the ring, as a sequence.                                   *)
LEMMA OldestIsSeq ==
  ASSUME TypeOK
  PROVE  Oldest(count) \in Seq(Bytes) /\ Len(Oldest(count)) = count
<1>1. \A i \in 1..count : /\ (read_pos + i - 1) % PIPE_BUFFER_SIZE = Slot(read_pos, i)
                          /\ Slot(read_pos, i) \in Positions
  BY SlotWrap, PipeAssumption DEF TypeOK
<1>2. Oldest(count) \in [1..count -> Bytes]
  BY <1>1 DEF Oldest, TypeOK
<1> HIDE DEF Oldest
<1> QED BY <1>2, IsASeq, LenProperties DEF TypeOK

(* The lemma before, of the state after a step.                            *)
LEMMA OldestIsSeqNext ==
  (TypeOK => Oldest(count) \in Seq(Bytes) /\ Len(Oldest(count)) = count)'
<1>1. TypeOK => Oldest(count) \in Seq(Bytes) /\ Len(Oldest(count)) = count
  BY OldestIsSeq
<1> QED BY <1>1, PTL

(* A call that delivers nothing is a read of no bytes.                     *)
LEMMA NothingIsGet ==
  ASSUME TypeOK, DeliverNothing
  PROVE  Fifo!Get /\ Oldest(count)' = Oldest(count) /\ got' = <<>>
<1> DEFINE Q == Oldest(count)
<1>1. Q \in Seq(Bytes) /\ Len(Q) = count /\ count \in Nat
  BY OldestIsSeq DEF TypeOK
<1>2. Q' = Q /\ got' = <<>>
  BY DEF DeliverNothing, ring, Oldest
<1> HIDE DEF Q
<1>3. SubSeq(Q, 1, 0) = <<>> /\ SubSeq(Q, 0 + 1, Len(Q)) = Q
  BY <1>1, SubSeqEmpty, SubSeqFull
<1> QED BY <1>1, <1>2, <1>3 DEF Fifo!Get, Q

(* The writing loop keeps the invariant, and puts the beginning of its     *)
(* buffer into the queue, or nothing if the pipe is full.                  *)
LEMMA PutStep ==
  ASSUME IInv, NEW s \in WriteBufs, PutBytes(s)
  PROVE  IInv' /\ FifoStep
<1> DEFINE n == Least(Len(s), PIPE_BUFFER_SIZE - count)
<1>1. TypeOK /\ RingAgrees
  BY DEF IInv
<1>2. s \in Seq(Bytes) /\ Len(s) \in Nat /\ Len(s) # 0
  <2>1. s \in Seq(Bytes) /\ s # <<>>
    BY PipeAssumption
  <2> QED BY <2>1, EmptySeq, LenProperties
<1>3. /\ n \in 0..Len(s)
      /\ buffer' \in [Positions -> Bytes]
      /\ write_pos' \in Positions /\ count' \in 0..PIPE_BUFFER_SIZE
      /\ RingAgrees'
      /\ Oldest(count)' = Oldest(count) \o SubSeq(s, 1, n)
      /\ Len(Oldest(count)') = count'
  BY <1>1, <1>2, PutAppends
<1>4. /\ hung' \in BOOLEAN /\ read_pos' = read_pos /\ got' = got
      /\ state' = state /\ readers' = readers /\ writers' = writers /\ registered' = registered
  BY DEF PutBytes, ends
<1>5. IInv'
  <2> HIDE DEF n
  <2>1. TypeOK'
    BY <1>1, <1>3, <1>4 DEF TypeOK
  <2> QED BY <1>3, <2>1 DEF IInv
<1>6. Len(Oldest(count)') <= PIPE_BUFFER_SIZE
  BY <1>3, PipeAssumption
<1>7. CASE n = 0
  <2>1. Oldest(count)' = Oldest(count)
    <3>1. SubSeq(s, 1, 0) = <<>>
      BY SubSeqEmpty
    <3>2. Oldest(count) \in Seq(Bytes)
      BY <1>1, OldestIsSeq
    <3> HIDE DEF n
    <3> QED BY <1>3, <1>7, <3>1, <3>2, ConcatEmptySeq
  <2> QED BY <2>1, <1>4, <1>5 DEF FifoStep, Fifo!fifoVars
<1>8. CASE n # 0
  <2> HIDE DEF n
  <2>1. n \in 1..Len(s)
    BY <1>2, <1>3, <1>8
  <2>2. SubSeq(s, 1, n) \in Chunks
    BY <2>1 DEF Chunks
  <2>3. Fifo!Put
    BY <1>3, <1>4, <2>2 DEF Fifo!Put
  <2> QED BY <2>3, <1>5, <1>6 DEF FifoStep, Fifo!FifoNext
<1> QED BY <1>7, <1>8

(* The reading loop, likewise.                                             *)
LEMMA TakeStep ==
  ASSUME IInv, NEW n \in Nat, TakeBytes(n)
  PROVE  IInv' /\ FifoStep
<1>1. TypeOK /\ RingAgrees
  BY DEF IInv
<1>2. /\ Fifo!Get /\ got' \in Seq(Bytes)
      /\ read_pos' \in Positions /\ count' \in 0..PIPE_BUFFER_SIZE
      /\ RingAgrees'
  BY <1>1, TakeIsGet
<1>3. /\ buffer' = buffer /\ write_pos' = write_pos /\ hung' = hung
      /\ state' = state /\ readers' = readers /\ writers' = writers /\ registered' = registered
  BY DEF TakeBytes, ends
<1>4. TypeOK'
  BY <1>1, <1>2, <1>3 DEF TypeOK
<1>5. Len(Oldest(count)') <= PIPE_BUFFER_SIZE
  <2>1. Oldest(count)' \in Seq(Bytes) /\ Len(Oldest(count)') = count'
    BY <1>4, OldestIsSeqNext
  <2> QED BY <2>1, <1>2, PipeAssumption
<1> QED BY <1>2, <1>4, <1>5 DEF IInv, FifoStep, Fifo!FifoNext

(* A read that returns without a byte leaves the FIFO alone.               *)
LEMMA NothingStep ==
  ASSUME IInv, DeliverNothing
  PROVE  IInv' /\ FifoStep
<1>1. TypeOK /\ RingAgrees
  BY DEF IInv
<1>2. Fifo!Get /\ Oldest(count)' = Oldest(count) /\ got' = <<>>
  BY <1>1, NothingIsGet
<1>3. /\ buffer' = buffer /\ read_pos' = read_pos /\ write_pos' = write_pos /\ count' = count
      /\ hung' = hung
      /\ state' = state /\ readers' = readers /\ writers' = writers /\ registered' = registered
  BY DEF DeliverNothing, ends, ring
<1>4. TypeOK'
  BY <1>1, <1>2, <1>3, EmptySeq DEF TypeOK
<1>5. RingAgrees'
  BY <1>1, <1>3 DEF RingAgrees
<1>6. Len(Oldest(count)') <= PIPE_BUFFER_SIZE
  BY <1>1, <1>2, OldestIsSeq, PipeAssumption DEF TypeOK
<1> QED BY <1>2, <1>4, <1>5, <1>6 DEF IInv, FifoStep, Fifo!FifoNext

(* Adding and removing processes, or hanging, leaves the ring alone.       *)
LEMMA EndsStep ==
  ASSUME IInv, UNCHANGED <<ring, got>>, hung' \in BOOLEAN,
         state' \subseteq {"OPEN", "READABLE", "WRITABLE", "EOF"},
         registered' \subseteq Readers \cup Writers,
         readers' = Cardinality(registered' \cap Readers),
         writers' = Cardinality(registered' \cap Writers)
  PROVE  IInv' /\ FifoStep
<1>1. UNCHANGED <<buffer, read_pos, write_pos, count, got>>
  BY DEF ring
<1>2. IInv'
  BY <1>1 DEF IInv, TypeOK, RingAgrees
<1>3. UNCHANGED <<Oldest(count), got>>
  BY <1>1 DEF Oldest
<1> QED BY <1>2, <1>3 DEF FifoStep, Fifo!fifoVars

(* How many of a finite set are registered when one comes or goes.         *)
LEMMA CountAdd ==
  ASSUME NEW R, IsFiniteSet(R), NEW S, NEW x \in R, x \notin S
  PROVE  Cardinality((S \cup {x}) \cap R) = Cardinality(S \cap R) + 1
<1>1. IsFiniteSet(S \cap R)
  BY FS_Subset
<1>2. (S \cup {x}) \cap R = (S \cap R) \cup {x} /\ x \notin S \cap R
  OBVIOUS
<1> QED BY <1>1, <1>2, FS_AddElement

(* One reader or writer less.                                              *)
LEMMA CountRemove ==
  ASSUME NEW R, IsFiniteSet(R), NEW S, NEW x \in R, x \in S
  PROVE  Cardinality((S \ {x}) \cap R) = Cardinality(S \cap R) - 1
<1>1. IsFiniteSet(S \cap R)
  BY FS_Subset
<1>2. (S \ {x}) \cap R = (S \cap R) \ {x} /\ x \in S \cap R
  OBVIOUS
<1> QED BY <1>1, <1>2, FS_RemoveElement

----------------------------------------------------------------------------
(* A new pipe satisfies the invariant, and is an empty FIFO.               *)
LEMMA IInvInit == Init => IInv /\ Fifo!FifoInit
<1> SUFFICES ASSUME Init PROVE IInv /\ Fifo!FifoInit
  OBVIOUS
<1>1. 0 \in Positions /\ 0 \in 0..PIPE_BUFFER_SIZE 
  BY PipeAssumption DEF Positions
<1>2. Cardinality({} \cap Readers) = 0 /\ Cardinality({} \cap Writers) = 0
  <2>1. {} \cap Readers = {} /\ {} \cap Writers = {}
    OBVIOUS
  <2> QED BY <2>1, FS_EmptySet
<1>3. TypeOK
  BY <1>1, <1>2, EmptySeq DEF Init, TypeOK
<1>4. RingAgrees
  <2>1. (0 + 0) % PIPE_BUFFER_SIZE = 0
    BY PipeAssumption
  <2> QED BY <2>1 DEF Init, RingAgrees
<1>6. Oldest(count) = <<>>
  <2>1. Oldest(count) \in Seq(Bytes) /\ Len(Oldest(count)) = 0
    BY <1>3, OldestIsSeq DEF Init
  <2> HIDE DEF Oldest
  <2> QED BY <2>1, EmptySeq
<1> QED BY <1>3, <1>4, <1>6 DEF IInv, Fifo!FifoInit, Init

(* Every step keeps the invariant and is a step of the FIFO, or leaves the *)
(* FIFO as it is.                                                          *)
LEMMA IInvNext == IInv /\ [Next]_vars => IInv' /\ FifoStep
<1> SUFFICES ASSUME IInv, [Next]_vars PROVE IInv' /\ FifoStep
  OBVIOUS
<1> USE PipeAssumption
<1>0. /\ TypeOK /\ RingAgrees /\ hung \in BOOLEAN
      /\ state \subseteq {"OPEN", "READABLE", "WRITABLE", "EOF"}
      /\ registered \subseteq Readers \cup Writers
      /\ readers = Cardinality(registered \cap Readers)
      /\ writers = Cardinality(registered \cap Writers)
  BY DEF IInv, TypeOK
<1>1. ASSUME NEW r \in Readers, pipe_add_reader(r)
      PROVE  IInv' /\ FifoStep
  <2>1. Cardinality((registered \cup {r}) \cap Readers) = readers + 1
    BY <1>0, <1>1, CountAdd DEF pipe_add_reader
  <2>2. (registered \cup {r}) \cap Writers = registered \cap Writers
    OBVIOUS
  <2> QED BY <1>0, <1>1, <2>1, <2>2, EndsStep DEF pipe_add_reader
<1>2. ASSUME NEW r \in Readers, pipe_remove_reader(r)
      PROVE  IInv' /\ FifoStep
  <2>1. Cardinality((registered \ {r}) \cap Readers) = readers - 1
    BY <1>0, <1>2, CountRemove DEF pipe_remove_reader
  <2>2. (registered \ {r}) \cap Writers = registered \cap Writers
    OBVIOUS
  <2> QED BY <1>0, <1>2, <2>1, <2>2, EndsStep DEF pipe_remove_reader
<1>3. ASSUME NEW w \in Writers, pipe_add_writer(w)
      PROVE  IInv' /\ FifoStep
  <2>1. Cardinality((registered \cup {w}) \cap Writers) = writers + 1
    BY <1>0, <1>3, CountAdd DEF pipe_add_writer
  <2>2. (registered \cup {w}) \cap Readers = registered \cap Readers
    OBVIOUS
  <2> QED BY <1>0, <1>3, <2>1, <2>2, EndsStep DEF pipe_add_writer
<1>4. ASSUME NEW w \in Writers, pipe_remove_writer(w)
      PROVE  IInv' /\ FifoStep
  <2>1. Cardinality((registered \ {w}) \cap Writers) = writers - 1
    BY <1>0, <1>4, CountRemove DEF pipe_remove_writer
  <2>2. (registered \ {w}) \cap Readers = registered \cap Readers
    OBVIOUS
  <2> QED BY <1>0, <1>4, <2>1, <2>2, EndsStep DEF pipe_remove_writer
<1>5. ASSUME UNCHANGED vars
      PROVE  IInv' /\ FifoStep
  <2>1. UNCHANGED <<ring, got, hung>> /\ UNCHANGED <<state, readers, writers, registered>>
    BY <1>5 DEF vars, ends
  <2> QED BY <1>0, <2>1, EndsStep
<1>6. ASSUME NEW n \in 1..MaxRead, pipe_read(n)
      PROVE  IInv' /\ FifoStep
  <2>0. n \in Nat
    OBVIOUS
  <2>1. CASE DeliverNothing
    BY <2>1, NothingStep
  <2>2. CASE TakeBytes(n)
    BY <2>0, <2>2, TakeStep
  <2>3. CASE Spin
    BY <1>0, <2>3, EndsStep DEF Spin, ends
  <2> QED BY <1>6, <2>1, <2>2, <2>3 DEF pipe_read
<1>7. ASSUME NEW s \in WriteBufs, pipe_write(s)
      PROVE  IInv' /\ FifoStep
  <2>1. CASE WriteFails
    BY <1>5, <1>7, <2>1 DEF pipe_write
  <2>2. CASE ~WriteFails
    BY <1>7, <2>2, PutStep DEF pipe_write
  <2> QED BY <2>1, <2>2
<1> QED BY <1>1, <1>2, <1>3, <1>4, <1>5, <1>6, <1>7 DEF Next

----------------------------------------------------------------------------
(* The invariant holds in every reachable state.                           *)
LEMMA Invariance == Spec => []IInv
BY IInvInit, IInvNext, PTL DEF Spec

(* The positions index the buffer, the count never exceeds it, and the two *)
(* counters count the registered processes, in pipe_read and pipe_write    *)
(* for every buffer size and every order of calls.                         *)
THEOREM PipeTypeCorrect == Spec => []TypeOK
<1>1. IInv => TypeOK
  BY DEF IInv
<1> QED BY <1>1, Invariance, PTL

(* read_pos, write_pos and count never drift apart.                        *)
THEOREM PipeRingAgrees == Spec => []RingAgrees
<1>1. IInv => RingAgrees
  BY DEF IInv
<1> QED BY <1>1, Invariance, PTL

(* The ring buffer implements a FIFO of bytes of its size: pipe_read       *)
(* delivers what pipe_write stored, once and in order, wherever the        *)
(* positions wrap and however much of a call fits.                         *)
THEOREM PipeImplementsFifo == Spec => ImplementsFifo
<1>1. Init => Fifo!FifoInit
  BY IInvInit
<1>2. IInv /\ [Next]_vars => [Fifo!FifoNext /\ Len(Oldest(count)') <= PIPE_BUFFER_SIZE]_(Fifo!fifoVars)
  BY IInvNext DEF FifoStep
<1> QED BY <1>1, <1>2, Invariance, PTL DEF Spec, ImplementsFifo, Fifo!FifoSpec
=============================================================================
