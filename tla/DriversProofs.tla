--------------------------- MODULE DriversProofs ----------------------------
(***************************************************************************)
(* The drivers that share queues with a device, for every queue length,    *)
(* every size of a page and every number of commands, frames and packets.  *)
(*                                                                         *)
(* None of the properties is inductive.  For the NVMe driver: as long as   *)
(* only the device probed last is used and its commands stay in the page   *)
(* of the submission queue, the consumed, the completed and the submitted  *)
(* entries come in this order, the entries behind them are blank, and an   *)
(* error stays under cq_head.  The two network cards need the shape of     *)
(* their rings: which part the driver owns and which the card.  The wifi   *)
(* rings have it only as long as they are used within their pages.         *)
(***************************************************************************)
EXTENDS MCDrivers, SequenceTheorems, TLAPS

(* The position k places after p in a ring of n, for k up to n.            *)
Ahead(n, p, k) == IF p + k < n THEN p + k ELSE p + k - n

----------------------------------------------------------------------------
(* The NVMe driver.                                                        *)

Controllers ==
  [on : BOOLEAN, dev : Slots, tail : Entries, head : Entries,
   sqHead : Entries, cqTail : Entries, phase : 0..1]
InFlight == IF busy = "no" THEN 0 ELSE 1
Done == Len(result) - base           \* commands finished since the probe

(* Numbers, pages and the stages of a probe.                               *)
NvmeBooks ==
  /\ NvmeTypeOK
  /\ Len(result) + InFlight <= MaxCommands /\ base <= Len(result)
  /\ busy = "identify" => /\ num_nvme_devices < NVME_MAX_DEVICES /\ nvmeFree < NvmePages /\ Done = 0
                          /\ using = num_nvme_devices /\ ctl.dev = num_nvme_devices
  /\ busy = "io" => using < num_nvme_devices

(* The device the controller has the queues of is in use, alone since the  *)
(* probe, and within its page.                                             *)
Alone ==
  /\ ctl.dev < num_nvme_devices \/ busy = "identify"
  /\ busy # "no" => using = ctl.dev
  /\ Done + InFlight <= SqFits
  /\ \A k \in Since : result[k].on = ctl.dev

(* The queues q of that device: what has been consumed, what has been      *)
(* completed and what has been submitted come in this order, nothing has   *)
(* wrapped, and an error stays where the driver looks.                     *)
PageShape(q) ==
  /\ ctl.phase = 1 /\ ctl.head = q.cq_head /\ ctl.tail = q.sq_tail
  /\ q.sq_tail = Done + InFlight
  /\ q.cq_head <= ctl.cqTail /\ ctl.sqHead = ctl.cqTail /\ ctl.cqTail <= q.sq_tail
  /\ \A i \in Entries : i < q.sq_tail => q.sq[i] = base + i + 1
  /\ \A i \in Entries : i < ctl.cqTail => base + i + 1 \in posted
  /\ \A j \in Entries : j >= ctl.cqTail => q.cq[j] = Blank
  /\ (\A k \in Since : result[k].how = "ok") => q.cq_head = Done
  /\ (\E k \in Since : result[k].how = "io") => q.cq[q.cq_head].code = "hard"

NvmeShape == Alone => PageShape(nvme_devices[ctl.dev])

NvmeInv == NvmeBooks /\ NvmeShape /\ FirstPageHonest /\ FailStop

----------------------------------------------------------------------------
(* The network card.                                                       *)

Behind == arrived - Len(delivered)   \* frames in the receive ring

(* From rx_cur on: the frames that wait, then what the card may fill, up   *)
(* to the descriptor before rx_cur, which stays empty.                     *)
RxShape ==
  /\ delivered \in Seq(1..MaxFrames) /\ Behind \in 0..E1000_NUM_DESC - 1
  /\ rdh = Ahead(E1000_NUM_DESC, rx_cur, Behind)
  /\ IF active = "up" THEN rdt = Ahead(E1000_NUM_DESC, rx_cur, E1000_NUM_DESC - 1)
                       ELSE rx_cur = 0
  /\ \A k \in 0..E1000_NUM_DESC - 1 :
       LET cell == rx_descriptors[Ahead(E1000_NUM_DESC, rx_cur, k)]
       IN  IF k < Behind THEN cell = [done |-> TRUE, frame |-> Len(delivered) + k + 1]
                         ELSE ~cell.done

(* Only the frame of the call under way can be in the transmit ring.       *)
TxShape ==
  /\ sent \in Seq(1..MaxFrames) /\ tdt = tx_cur
  /\ active # "up" => sending = "no"
  /\ sending = "wait_free" => accepted > 0 /\ tdh = tdt /\ Len(sent) = accepted - 1
  /\ sending = "wait_sent" =>
       \/ tdh = tdt /\ Len(sent) = accepted
       \/ /\ Succ(tdh) = tdt /\ accepted > 0 /\ Len(sent) = accepted - 1
          /\ tx_descriptors[tdh] = [done |-> FALSE, frame |-> accepted]
  /\ sending = "no" => tdh = tdt

E1000Inv == E1000TypeOK /\ E1000RxInOrder /\ E1000TxInOrder /\ RxShape /\ TxShape

----------------------------------------------------------------------------
(* The wifi card.                                                          *)

Causes == {"TX_DONE", "RX_DONE", "ERR"}

DescTypes == [own : BOOLEAN, buf : Buffers \cup {Data}]
Cards == [tx : Ring, rx : Ring, tail : Ring, status : SUBSET Causes]
Handlers == [at : {"out", "tx", "rx", "error", "ack"}, seen : SUBSET Causes]

WifiTypes ==
  /\ probed \in BOOLEAN /\ enabled \in BOOLEAN
  /\ wifiFree \in 0..WifiPages /\ errors \in 0..MaxErrors
  /\ desc \in [Cells -> DescTypes] /\ buffer \in [Buffers -> Packets]
  /\ tx_head \in Ring /\ tx_tail \in Ring /\ rx_head \in Ring
  /\ card \in Cards /\ isr \in Handlers
  /\ queued \in Nat /\ came \in Nat /\ queued + came <= MaxPackets
  /\ reaped \in Nat /\ lost \in Nat
  /\ wifiTrouble \subseteq {"overlap", "adrift", "dangling", "wild"}

(* Every packet in s went `way', its number is at most n, and they come in *)
(* order.                                                                  *)
Ordered(s, way, n) ==
  /\ s \in Seq({way} \X Int) /\ InOrder(s, way)
  /\ \A i \in 1..Len(s) : s[i][2] <= n

(* The receive ring in its page: what has been taken, what waits, and what *)
(* the card has.                                                           *)
WifiRxShape ==
  /\ rx_head <= card.rx /\ card.rx <= PageDescs
  /\ \A i \in Ring : i < PageDescs =>
       /\ desc[RxDesc(i)].buf = RxBuf(i)
       /\ i >= card.rx => desc[RxDesc(i)].own
       /\ rx_head <= i /\ i < card.rx =>
            ~desc[RxDesc(i)].own /\ buffer[RxBuf(i)] = <<"in", came - (card.rx - i) + 1>>
  /\ Ordered(got, "in", came - (card.rx - rx_head))

(* The transmit ring in its page: what has been counted, what has been     *)
(* sent, and what the card has.                                            *)
WifiTxShape ==
  /\ tx_head <= card.tx /\ card.tx <= tx_tail /\ tx_tail <= PageDescs /\ card.tail = tx_tail
  /\ \A i \in Ring : i < PageDescs =>
       /\ desc[TxDesc(i)].buf = TxBuf(i)
       /\ card.tx <= i /\ i < tx_tail => desc[TxDesc(i)].own
       /\ tx_head <= i /\ i < tx_tail => buffer[TxBuf(i)] = <<"out", queued - (tx_tail - i) + 1>>
  /\ Ordered(onAir, "out", queued - (tx_tail - card.tx))
  /\ reaped + (card.tx - tx_head) <= Len(onAir) /\ tx_tail - tx_head = queued - reaped - lost

WifiShape == wifiTrouble = {} => WifiRxShape /\ WifiTxShape

WifiInv == WifiTypes /\ WifiShape

----------------------------------------------------------------------------
(* The remainder by the length of a ring.                                  *)
LEMMA Wrap ==
  ASSUME NEW n \in Nat \ {0}, NEW a \in 0..2 * n - 1
  PROVE  a % n = IF a < n THEN a ELSE a - n
<1>1. CASE a < n
  BY <1>1
<1>2. CASE a >= n
  BY <1>2
<1> QED BY <1>1, <1>2

(* Ahead is addition modulo the size of the ring.                          *)
LEMMA AheadWraps ==
  ASSUME NEW n \in Nat \ {0}, NEW p \in 0..n - 1, NEW k \in 0..n
  PROVE  (p + k) % n = Ahead(n, p, k) /\ Ahead(n, p, k) \in 0..n - 1
<1> DEFINE a == p + k
<1>1. a \in 0..2 * n - 1
  OBVIOUS
<1>2. a % n = IF a < n THEN a ELSE a - n
  <2> HIDE DEF a
  <2> QED BY <1>1, Wrap
<1>3. Ahead(n, p, k) = IF a < n THEN a ELSE a - n
  BY DEF Ahead
<1>4. Ahead(n, p, k) \in 0..n - 1
  BY DEF Ahead
<1> QED BY <1>2, <1>3, <1>4

----------------------------------------------------------------------------
(* The NVMe driver.                                                        *)

(* The next entry of an NVMe queue, without the remainder.                 *)
LEMMA AfterWraps ==
  ASSUME NEW i \in Entries
  PROVE  /\ After(i) = IF i = NVME_QUEUE_DEPTH - 1 THEN 0 ELSE i + 1
         /\ After(i) \in Entries
<1>1. /\ NVME_QUEUE_DEPTH \in Nat \ {0} /\ i \in 0..NVME_QUEUE_DEPTH - 1
      /\ 1 \in 0..NVME_QUEUE_DEPTH
  BY NvmeAssumption DEF Entries
<1>2. After(i) = Ahead(NVME_QUEUE_DEPTH, i, 1) /\ After(i) \in Entries
  BY <1>1, AheadWraps DEF After, Entries
<1>3. Ahead(NVME_QUEUE_DEPTH, i, 1) = IF i = NVME_QUEUE_DEPTH - 1 THEN 0 ELSE i + 1
  BY <1>1 DEF Ahead
<1> QED BY <1>2, <1>3

(* A product grows with its factors.                                       *)
LEMMA TimesMore ==
  ASSUME NEW a \in Nat, NEW b \in Nat, NEW c \in Nat, a <= b
  PROVE  a * c <= b * c /\ a * c \in Nat /\ b * c \in Nat
OBVIOUS

(* The page holds fewer submission queue entries than the queue has, and   *)
(* they end where the page ends.                                           *)
LEMMA FitsInPage ==
  /\ SqFits \in Nat /\ SqFits < NVME_QUEUE_DEPTH /\ PageLength \in Nat
  /\ SqFits * SqEntrySize <= PageLength
<1> USE NvmeAssumption
<1>1. PageLength \in Nat
  BY DEF PageLength
<1>2. \A a \in Nat, b \in Nat \ {0} : a \div b \in Nat /\ (a \div b) * b <= a
  OBVIOUS
<1>3. SqFits \in Nat /\ SqFits * SqEntrySize <= PageLength
  BY <1>1, <1>2 DEF SqFits
<1>4. SqFits < NVME_QUEUE_DEPTH
  <2> SUFFICES ASSUME NVME_QUEUE_DEPTH <= SqFits PROVE FALSE
    BY <1>3
  <2>1. NVME_QUEUE_DEPTH * SqEntrySize <= SqFits * SqEntrySize
    BY <1>3, TimesMore
  <2>2. PageLength < NVME_QUEUE_DEPTH * SqEntrySize
    BY DEF PageLength
  <2> QED BY <1>1, <1>3, <2>1, <2>2
<1> QED BY <1>1, <1>3, <1>4

(* A command in the submission queue's page spoils nothing of the          *)
(* completion queue of the same device.                                    *)
LEMMA NotOverlaid ==
  ASSUME NEW queues, NEW d, NEW i \in Nat, NEW j \in Entries, queues[d].at \in Nat, i < SqFits
  PROVE  <<d, j>> \notin Overlaid(queues, d, i)
<1> DEFINE a == queues[d].at
           status == (a + 1) * PageLength + (j + 1) * CqEntrySize - 1
           start == a * PageLength + i * SqEntrySize
<1> USE NvmeAssumption, FitsInPage
<1>1. (i + 1) * SqEntrySize <= SqFits * SqEntrySize
  BY TimesMore
<1>2. (i + 1) * SqEntrySize = i * SqEntrySize + SqEntrySize
  OBVIOUS
<1>3. i * SqEntrySize \in Nat /\ SqFits * SqEntrySize \in Nat /\ a * PageLength \in Nat
  BY TimesMore
<1>4. (a + 1) * PageLength = a * PageLength + PageLength
  OBVIOUS
<1>5. (j + 1) * CqEntrySize >= 1 /\ (j + 1) * CqEntrySize \in Nat
  <2>1. j + 1 \in Nat /\ 1 <= j + 1
    BY DEF Entries
  <2>2. 1 * CqEntrySize <= (j + 1) * CqEntrySize /\ (j + 1) * CqEntrySize \in Nat
    BY <2>1, TimesMore
  <2> QED BY <2>2
<1>6. start + SqEntrySize - 1 < status
  BY <1>1, <1>2, <1>3, <1>4, <1>5
<1>7. start \in Int /\ status \in Int
  BY <1>3, <1>4, <1>5
<1> QED BY <1>6, <1>7 DEF Overlaid

(* What a probe leaves the controller with.                                *)
LEMMA ResetType ==
  ASSUME NEW d \in Slots, NEW on \in BOOLEAN, NEW t \in Entries
  PROVE  Reset(d, on, t) \in Controllers
<1>1. 0 \in Entries /\ 1 \in 0..1
  BY NvmeAssumption DEF Entries
<1> QED BY <1>1, Zenon DEF Controllers, Reset

(* A driver that has probed nothing satisfies the invariant.               *)
LEMMA NvmeInvInit == NvmeInit => NvmeInv
<1> SUFFICES ASSUME NvmeInit PROVE NvmeInv
  OBVIOUS
<1> USE NvmeAssumption
<1>0. /\ 0 \in Entries /\ 0 \in Slots /\ Len(result) = 0 /\ Since = {} /\ Done = 0 /\ InFlight = 0
      /\ NVME_QUEUE_DEPTH - 1 \in Nat
  BY DEF NvmeInit, Entries, Slots, Since, Done, InFlight
<1>1. Cleared(0) \in Queues
  BY <1>0 DEF Cleared, Queues, Blank
<1>2. NvmeBooks
  BY <1>0, <1>1, EmptySeq DEF NvmeInit, NvmeBooks, NvmeTypeOK, Reset
<1>3. FailStop /\ FirstPageHonest
  BY <1>0 DEF FailStop, FirstPageHonest
<1>4. NvmeShape
  BY DEF NvmeInit, NvmeShape, Alone, Reset
<1> QED BY <1>2, <1>3, <1>4 DEF NvmeInv

(* The results stay as they are: so do the properties about them.          *)
LEMMA SameResults ==
  ASSUME NvmeInv, result' = result, base' = base, ctl'.dev = ctl.dev, posted \subseteq posted'
  PROVE  FailStop' /\ FirstPageHonest'
BY DEF NvmeInv, FailStop, FirstPageHonest, Since, InPage

(* A new probe starts the count of results again.                          *)
LEMMA NoResults ==
  ASSUME NvmeInv, result' = result, base' = Len(result)
  PROVE  FailStop' /\ FirstPageHonest' /\ Done' = 0 /\ Since' = {}
<1>1. Since' = {} /\ Done' = 0
  BY DEF Since, Done, NvmeInv, NvmeBooks, NvmeTypeOK
<1> QED BY <1>1 DEF FailStop, FirstPageHonest

(* A step of another driver leaves the NVMe invariant alone.               *)
LEMMA NvmeStutter == NvmeInv /\ UNCHANGED nvmeVars => NvmeInv'
<1> SUFFICES ASSUME NvmeInv, UNCHANGED nvmeVars PROVE NvmeInv'
  OBVIOUS
<1> USE DEF nvmeVars
<1>1. NvmeBooks'
  BY DEF NvmeInv, NvmeBooks, NvmeTypeOK, InFlight, Done
<1>2. Alone' = Alone /\ Done' = Done /\ InFlight' = InFlight /\ Since' = Since
  BY DEF Alone, Done, InFlight, Since
<1>3. PageShape(nvme_devices[ctl.dev])' = PageShape(nvme_devices[ctl.dev])
  BY <1>2 DEF PageShape
<1>4. NvmeShape'
  BY <1>2, <1>3 DEF NvmeInv, NvmeShape
<1> QED BY <1>1, <1>4, SameResults DEF NvmeInv

(* A probe without memory turns the controller off.                        *)
LEMMA ProbeNoMemoryKeeps ==
  ASSUME NvmeInv, ProbeNoMemory
  PROVE  NvmeInv'
<1> USE NvmeAssumption
<1>1. /\ busy = "no" /\ num_nvme_devices \in Slots /\ nvmeFree' = 0
      /\ ctl' = Reset(num_nvme_devices, FALSE, 0) /\ base' = Len(result)
      /\ UNCHANGED <<num_nvme_devices, nvme_devices, busy, using, result, posted>>
  BY DEF ProbeNoMemory, Probes, NvmeInv, NvmeBooks, NvmeTypeOK, Slots
<1>2. NvmeBooks'
  BY <1>1, NoResults DEF NvmeInv, NvmeBooks, NvmeTypeOK, Reset, Entries, InFlight
<1>3. ~Alone'
  BY <1>1 DEF Alone, Reset, Slots
<1> QED BY <1>1, <1>2, <1>3, NoResults DEF NvmeInv, NvmeShape

(* New queues are queues.                                                  *)
LEMMA ClearedType ==
  ASSUME NvmeInv
  PROVE  Cleared(FirstFree) \in Queues /\ FirstFree \in 0..NvmePages
BY NvmeAssumption DEF Cleared, Queues, Blank, Entries, FirstFree, NvmeInv, NvmeBooks, NvmeTypeOK

(* A probe that gives up late has set up queues no command can be put into *)
(* before the next one.                                                    *)
LEMMA ProbeLateKeeps ==
  ASSUME NvmeInv, ProbeLate
  PROVE  NvmeInv'
<1> USE NvmeAssumption
<1>1. /\ busy = "no" /\ num_nvme_devices \in Slots /\ nvmeFree >= 3 /\ nvmeFree' = nvmeFree - 2
      /\ base' = Len(result)
      /\ nvme_devices' = [nvme_devices EXCEPT ![num_nvme_devices] = Cleared(FirstFree)]
      /\ UNCHANGED <<num_nvme_devices, busy, using, result, posted>>
  BY DEF ProbeLate, Probes, NvmeInv, NvmeBooks, NvmeTypeOK, Slots
<1>6. ctl' = Reset(num_nvme_devices, TRUE, 0)
  BY DEF ProbeLate
<1>2. nvme_devices' \in [Slots -> Queues]
  BY <1>1, ClearedType DEF NvmeInv, NvmeBooks, NvmeTypeOK
<1>0. 0 \in Entries
  BY DEF Entries
<1>5. ctl' \in Controllers
  BY <1>0, <1>1, <1>6, ResetType
<1>3. NvmeBooks'
  <2>1. NvmeTypeOK'
    BY <1>1, <1>2, <1>5 DEF NvmeInv, NvmeBooks, NvmeTypeOK, Controllers
  <2> QED BY <1>1, <2>1 DEF NvmeInv, NvmeBooks, NvmeTypeOK, InFlight
<1>4. ~Alone'
  BY <1>1, <1>6 DEF Alone, Reset, Slots
<1> QED BY <1>1, <1>3, <1>4, NoResults DEF NvmeInv, NvmeShape

(* A probe puts its command into the first entry of new queues.            *)
LEMMA ProbeKeeps ==
  ASSUME NvmeInv, nvme_probe_device
  PROVE  NvmeInv'
<1> USE NvmeAssumption
<1> DEFINE q == [Cleared(FirstFree) EXCEPT !.sq[0] = Current, !.sq_tail = 1]
<1>1. /\ busy = "no" /\ num_nvme_devices \in Slots /\ num_nvme_devices < NVME_MAX_DEVICES
      /\ nvmeFree >= 3 /\ nvmeFree' = nvmeFree - 3
      /\ base' = Len(result) /\ busy' = "identify" /\ using' = num_nvme_devices
      /\ nvme_devices' = [nvme_devices EXCEPT ![num_nvme_devices] = q]
      /\ UNCHANGED <<num_nvme_devices, result, posted>>
      /\ Current \in 0..MaxCommands /\ Len(result) \in Nat /\ Current = Len(result) + 1
  BY DEF nvme_probe_device, Probes, NvmeInv, NvmeBooks, NvmeTypeOK, Slots, Current
<1>2. PICK ready \in BOOLEAN : ctl' = Reset(num_nvme_devices, ready, 1)
  BY DEF nvme_probe_device
<1>0. 0 \in Entries /\ 1 \in Entries
  BY DEF Entries
<1>3. /\ q \in Queues /\ q.sq_tail = 1 /\ q.cq_head = 0 /\ q.sq[0] = Current
      /\ \A j \in Entries : q.cq[j] = Blank
  <2>1. Cleared(FirstFree) \in Queues
    BY ClearedType
  <2> QED BY <1>0, <1>1, <2>1 DEF Queues, Cleared
<1> HIDE DEF q
<1>4. nvme_devices' \in [Slots -> Queues] /\ nvme_devices'[num_nvme_devices] = q
  BY <1>1, <1>3 DEF NvmeInv, NvmeBooks, NvmeTypeOK
<1>5. /\ ctl'.dev = num_nvme_devices /\ ctl'.phase = 1 /\ ctl'.head = 0 /\ ctl'.tail = 1
      /\ ctl'.sqHead = 0 /\ ctl'.cqTail = 0
  BY <1>2 DEF Reset
<1>9. ctl' \in Controllers
  BY <1>0, <1>1, <1>2, ResetType
<1>6. Done' = 0 /\ Since' = {} /\ InFlight' = 1
  BY <1>1, NoResults DEF InFlight
<1>7. NvmeBooks'
  <2>1. NvmeTypeOK'
    BY <1>1, <1>4, <1>9 DEF NvmeInv, NvmeBooks, NvmeTypeOK, Controllers
  <2> QED BY <1>1, <1>5, <1>6, <2>1 DEF NvmeBooks, NvmeInv, NvmeTypeOK
<1>8. NvmeShape'
  <2> SUFFICES PageShape(nvme_devices[ctl.dev])'
    BY DEF NvmeShape
  <2> QED BY <1>0, <1>1, <1>3, <1>4, <1>5, <1>6 DEF PageShape, Entries
<1> QED BY <1>1, <1>7, <1>8, NoResults DEF NvmeInv

(* A read or a write puts its command into the next entry.                 *)
LEMMA ReadWriteKeeps ==
  ASSUME NvmeInv, NEW d \in Slots, nvme_read_write(d)
  PROVE  NvmeInv'
<1> USE NvmeAssumption
<1> DEFINE p    == nvme_devices[d]
           over == Overlaid(nvme_devices, d, p.sq_tail)
           next == [p EXCEPT !.sq[p.sq_tail] = Current, !.sq_tail = After(p.sq_tail)]
<1>1. /\ busy = "no" /\ d < num_nvme_devices /\ busy' = "io" /\ using' = d
      /\ Current \in 0..MaxCommands /\ Len(result) \in Nat /\ Current = Len(result) + 1
      /\ UNCHANGED <<num_nvme_devices, nvmeFree, result, posted, base>>
  BY DEF nvme_read_write, NvmeInv, NvmeBooks, NvmeTypeOK, Current
<1>2. PICK top \in over \cup {Nowhere} :
        /\ nvme_devices' = [e \in Slots |-> [(IF e = d THEN next ELSE nvme_devices[e])
                                               EXCEPT !.cq = Overwritten(over, top, e)]]
        /\ ctl' = [ctl EXCEPT !.tail = After(p.sq_tail)]
  BY DEF nvme_read_write, Submit
<1>3. /\ nvme_devices \in [Slots -> Queues] /\ p \in Queues /\ p.sq_tail \in Entries
      /\ ctl \in Controllers /\ After(p.sq_tail) \in Entries
  BY AfterWraps DEF NvmeInv, NvmeBooks, NvmeTypeOK, Queues, Controllers
<1>4. /\ next \in Queues /\ next.sq_tail = After(p.sq_tail) /\ next.cq_head = p.cq_head
      /\ next.sq = [p.sq EXCEPT ![p.sq_tail] = Current]
  BY <1>1, <1>3 DEF Queues
<1>5. \A e \in Slots : Overwritten(over, top, e) \in [Entries -> [phase : 0..1, code : {"ok", "minor", "hard"}]]
  BY <1>3 DEF Overwritten, Queues, Top, Blank
<1>6. ctl' \in Controllers /\ ctl'.tail = After(p.sq_tail)
      /\ ctl'.dev = ctl.dev /\ ctl'.head = ctl.head /\ ctl'.phase = ctl.phase
      /\ ctl'.sqHead = ctl.sqHead /\ ctl'.cqTail = ctl.cqTail
  <2> HIDE DEF p
  <2> QED BY <1>2, <1>3 DEF Controllers
<1>9. ASSUME nvme_devices[d].sq_tail < SqFits
      PROVE  Overwritten(over, top, d) = nvme_devices[d].cq
  <2>1. \A j \in Entries : <<d, j>> \notin over
    BY <1>3, <1>9, NotOverlaid DEF Queues, Entries
  <2> HIDE DEF over
  <2> QED BY <1>3, <2>1 DEF Overwritten, Queues
<1> HIDE DEF next, over
<1>7. nvme_devices' \in [Slots -> Queues]
  <2>1. \A e \in Slots : (IF e = d THEN next ELSE nvme_devices[e]) \in Queues
    BY <1>3, <1>4
  <2>2. ASSUME NEW e \in Slots, NEW r \in Queues
        PROVE  [r EXCEPT !.cq = Overwritten(over, top, e)] \in Queues
    BY <1>5 DEF Queues
  <2> QED BY <1>2, <2>1, <2>2
<1>8. NvmeBooks'
  BY <1>1, <1>6, <1>7 DEF NvmeInv, NvmeBooks, NvmeTypeOK, Controllers, InFlight, Done
<1>10. NvmeShape'
  <2> SUFFICES ASSUME Alone' PROVE PageShape(nvme_devices[ctl.dev])'
    BY DEF NvmeShape
  <2>1. Done' = Done /\ Since' = Since /\ InFlight = 0 /\ InFlight' = 1
    BY <1>1 DEF Done, Since, InFlight
  <2>2. d = ctl.dev /\ Done + 1 <= SqFits
    BY <1>1, <1>6, <2>1 DEF Alone
  <2>3. Done \in Nat /\ Done = Len(result) - base
    BY <1>1 DEF Done, NvmeInv, NvmeBooks, NvmeTypeOK
  <2>4. Alone
    <3>1. \A k \in Since : result[k].on = ctl.dev
      BY <1>1, <1>6, <2>1 DEF Alone
    <3> QED BY <1>1, <2>1, <2>2, <2>3, <3>1, FitsInPage DEF Alone
  <2>5. PageShape(p)
    BY <2>2, <2>4 DEF NvmeInv, NvmeShape
  <2>6. p.sq_tail = Done /\ Done < SqFits /\ After(p.sq_tail) = Done + 1
    BY <1>3, <2>1, <2>2, <2>3, <2>5, AfterWraps, FitsInPage DEF PageShape
  <2>0. PICK q : q = nvme_devices'[d]
    OBVIOUS
  <2>7. /\ q.cq = p.cq /\ q.cq_head = p.cq_head /\ q.sq_tail = Done + 1
        /\ q.sq = [p.sq EXCEPT ![p.sq_tail] = Current]
    <3>1. Overwritten(over, top, d) = p.cq
      BY <1>9, <2>6
    <3>2. q = [next EXCEPT !.cq = Overwritten(over, top, d)]
      BY <1>2, <2>0
    <3> HIDE DEF p
    <3> QED BY <1>4, <2>6, <3>1, <3>2 DEF Queues
  <2>8. p.sq \in [Entries -> 0..MaxCommands] /\ base \in Nat
    BY <1>3 DEF Queues, NvmeInv, NvmeBooks, NvmeTypeOK
  <2> HIDE DEF p
  <2>9. \A i \in Entries : i < q.sq_tail => q.sq[i] = base + i + 1
    <3> TAKE i \in Entries
    <3>1. CASE i = p.sq_tail
      <4>1. q.sq[i] = Current
        BY <2>7, <2>8, <3>1
      <4> QED BY <1>1, <2>3, <2>6, <2>8, <3>1, <4>1
    <3>2. CASE i # p.sq_tail
      <4>1. q.sq[i] = p.sq[i]
        BY <2>7, <2>8, <3>2
      <4>2. i < q.sq_tail => i < p.sq_tail
        BY <2>3, <2>6, <2>7, <3>2 DEF Entries
      <4> QED BY <2>5, <4>1, <4>2 DEF PageShape
    <3> QED BY <3>1, <3>2
  <2>10. PageShape(q)'
    <3>1. /\ ctl'.phase = 1 /\ ctl'.head = q.cq_head /\ ctl'.tail = q.sq_tail
          /\ q.sq_tail = Done' + InFlight'
      BY <1>6, <2>1, <2>5, <2>6, <2>7 DEF PageShape
    <3>2. q.cq_head <= ctl'.cqTail /\ ctl'.sqHead = ctl'.cqTail /\ ctl'.cqTail <= q.sq_tail
      <4>1. ctl.cqTail \in Int
        BY <1>3 DEF Controllers, Entries
      <4> QED BY <1>6, <2>1, <2>3, <2>5, <2>7, <4>1 DEF PageShape
    <3> QED BY <1>1, <1>6, <2>1, <2>5, <2>7, <2>9, <3>1, <3>2 DEF PageShape
  <2> QED BY <1>6, <2>0, <2>2, <2>10
<1> QED BY <1>1, <1>6, <1>8, <1>10, SameResults DEF NvmeInv

(* The controller writes behind everything it has completed.               *)
LEMMA PostKeeps ==
  ASSUME NvmeInv, NEW code \in {"ok", "minor", "hard"}, Post(code)
  PROVE  NvmeInv'
<1> USE NvmeAssumption
<1> DEFINE p == nvme_devices[ctl.dev]
           c == [phase |-> ctl.phase, code |-> code]
<1>1. /\ ctl.sqHead # ctl.tail
      /\ nvme_devices' = [nvme_devices EXCEPT ![ctl.dev].cq[ctl.cqTail] = c]
      /\ posted' = posted \cup {p.sq[ctl.sqHead]}
      /\ UNCHANGED <<num_nvme_devices, nvmeFree, busy, using, result, base>>
  BY DEF Post
<1>2. ctl' = [ctl EXCEPT !.sqHead = After(@), !.cqTail = After(@),
                         !.phase = IF After(ctl.cqTail) = 0 THEN 1 - @ ELSE @]
  BY DEF Post
<1>3. /\ nvme_devices \in [Slots -> Queues] /\ p \in Queues /\ ctl \in Controllers /\ ctl.dev \in Slots
      /\ ctl.cqTail \in Entries /\ ctl.sqHead \in Entries /\ ctl.tail \in Entries
      /\ After(ctl.cqTail) \in Entries /\ After(ctl.sqHead) \in Entries
      /\ ctl.phase \in 0..1
  BY AfterWraps DEF NvmeInv, NvmeBooks, NvmeTypeOK, Controllers
<1>4. /\ ctl' \in Controllers
      /\ ctl'.dev = ctl.dev /\ ctl'.head = ctl.head /\ ctl'.tail = ctl.tail
      /\ ctl'.sqHead = After(ctl.sqHead) /\ ctl'.cqTail = After(ctl.cqTail)
      /\ ctl'.phase = IF After(ctl.cqTail) = 0 THEN 1 - ctl.phase ELSE ctl.phase
  <2>1. PICK ph : ph = IF After(ctl.cqTail) = 0 THEN 1 - ctl.phase ELSE ctl.phase
    OBVIOUS
  <2>2. ph \in 0..1
    BY <1>3, <2>1
  <2>3. ctl' = [ctl EXCEPT !.sqHead = After(ctl.sqHead), !.cqTail = After(ctl.cqTail), !.phase = ph]
    BY <1>2, <2>1
  <2>4. ctl' \in Controllers
    BY <1>3, <2>2, <2>3 DEF Controllers
  <2>5. /\ ctl'.dev = ctl.dev /\ ctl'.head = ctl.head /\ ctl'.tail = ctl.tail
        /\ ctl'.sqHead = After(ctl.sqHead) /\ ctl'.cqTail = After(ctl.cqTail) /\ ctl'.phase = ph
    BY <1>3, <2>3 DEF Controllers
  <2> QED BY <2>1, <2>4, <2>5
<1>5. PICK q : q = [p EXCEPT !.cq[ctl.cqTail] = c]
  OBVIOUS
<1>6. /\ q \in Queues /\ q.sq = p.sq /\ q.sq_tail = p.sq_tail /\ q.cq_head = p.cq_head
      /\ q.cq = [p.cq EXCEPT ![ctl.cqTail] = c]
  <2>1. c \in [phase : 0..1, code : {"ok", "minor", "hard"}]
    BY <1>3
  <2> HIDE DEF p, c
  <2> QED BY <1>3, <1>5, <2>1 DEF Queues
<1>7. nvme_devices' = [nvme_devices EXCEPT ![ctl.dev] = q]
  BY <1>1, <1>3, <1>5
<1>8. nvme_devices'[ctl.dev] = q /\ nvme_devices' \in [Slots -> Queues]
  BY <1>3, <1>6, <1>7
<1>9. p.sq[ctl.sqHead] \in 0..MaxCommands
  BY <1>3 DEF Queues
<1>10. Done' = Done /\ InFlight' = InFlight /\ Since' = Since
  BY <1>1 DEF Done, InFlight, Since
<1>11. NvmeBooks'
  <2>1. NvmeTypeOK'
    <3>1. posted' \subseteq 0..MaxCommands
      BY <1>1, <1>9 DEF NvmeInv, NvmeBooks, NvmeTypeOK
    <3> QED BY <1>1, <1>4, <1>8, <3>1 DEF NvmeInv, NvmeBooks, NvmeTypeOK, Controllers
  <2> QED BY <1>1, <1>4, <1>10, <2>1 DEF NvmeInv, NvmeBooks
<1>12. NvmeShape'
  <2> SUFFICES ASSUME Alone' PROVE PageShape(q)'
    BY <1>4, <1>8 DEF NvmeShape
  <2>1. Alone
    BY <1>1, <1>4, <1>10 DEF Alone
  <2>2. PageShape(p)
    BY <2>1 DEF NvmeInv, NvmeShape
  <2>3. /\ Done + InFlight <= SqFits /\ Done + InFlight \in Int /\ SqFits < NVME_QUEUE_DEPTH
        /\ SqFits \in Nat
    BY <2>1, FitsInPage DEF Alone, Done, InFlight, NvmeInv, NvmeBooks, NvmeTypeOK
  <2>4. ctl.cqTail < p.sq_tail /\ p.sq_tail <= SqFits /\ p.sq_tail \in Int /\ p.cq_head \in Int
    BY <1>1, <1>3, <2>2, <2>3 DEF PageShape, Queues, Entries
  <2>5. After(ctl.cqTail) = ctl.cqTail + 1 /\ ctl.cqTail \in Nat
    BY <1>3, <2>3, <2>4, AfterWraps DEF Entries
  <2>6. ctl'.cqTail = ctl.cqTail + 1 /\ ctl'.sqHead = ctl.cqTail + 1 /\ ctl'.phase = 1
    BY <1>4, <2>2, <2>5 DEF PageShape
  <2>7. p.sq[ctl.sqHead] = base + ctl.cqTail + 1
    BY <1>3, <2>2, <2>4 DEF PageShape
  <2>8. p.cq \in [Entries -> [phase : 0..1, code : {"ok", "minor", "hard"}]]
    BY <1>3 DEF Queues
  <2> HIDE DEF p, c
  <2>9. q.cq_head <= ctl'.cqTail /\ ctl'.cqTail <= q.sq_tail
    BY <1>6, <2>2, <2>4, <2>5, <2>6 DEF PageShape
  <2>10. \A i \in Entries : i < ctl'.cqTail => base + i + 1 \in posted'
    <3> TAKE i \in Entries
    <3>1. i < ctl'.cqTail => i < ctl.cqTail \/ i = ctl.cqTail
      BY <2>5, <2>6 DEF Entries
    <3> QED BY <1>1, <2>2, <2>7, <3>1 DEF PageShape
  <2>11. \A j \in Entries : j >= ctl'.cqTail => q.cq[j] = Blank
    <3> TAKE j \in Entries
    <3>1. j >= ctl'.cqTail => j >= ctl.cqTail /\ j # ctl.cqTail
      BY <2>5, <2>6 DEF Entries
    <3>2. j # ctl.cqTail => q.cq[j] = p.cq[j]
      BY <1>6, <2>8
    <3> QED BY <2>2, <3>1, <3>2 DEF PageShape
  <2>12. (\E k \in Since : result[k].how = "io") => q.cq[q.cq_head].code = "hard"
    <3> SUFFICES ASSUME \E k \in Since : result[k].how = "io" PROVE q.cq[q.cq_head].code = "hard"
      OBVIOUS
    <3>1. p.cq[p.cq_head].code = "hard" /\ p.cq_head \in Entries
      BY <1>3, <2>2 DEF PageShape, Queues
    <3>2. p.cq_head # ctl.cqTail
      BY <1>3, <2>2, <3>1 DEF PageShape, Blank, Entries
    <3> QED BY <1>6, <2>8, <3>1, <3>2
  <2>13. /\ ctl'.head = q.cq_head /\ ctl'.tail = q.sq_tail /\ q.sq_tail = Done' + InFlight'
         /\ \A i \in Entries : i < q.sq_tail => q.sq[i] = base' + i + 1
         /\ (\A k \in Since' : result'[k].how = "ok") => q.cq_head = Done'
    BY <1>1, <1>4, <1>6, <1>10, <2>2 DEF PageShape
  <2>14. /\ \A i \in Entries : i < ctl'.cqTail => base' + i + 1 \in posted'
         /\ (\E k \in Since' : result'[k].how = "io") => q.cq[q.cq_head].code = "hard"
    BY <1>1, <1>10, <2>10, <2>12
  <2> QED BY <2>6, <2>9, <2>11, <2>13, <2>14 DEF PageShape
<1> QED BY <1>1, <1>4, <1>11, <1>12, SameResults DEF NvmeInv

(* One more result; the ones before stay as they are.                      *)
LEMMA Answered ==
  ASSUME NvmeInv, NEW how \in {"ok", "io", "timeout"}, busy # "no", Answer(how), ctl'.dev = ctl.dev
  PROVE  /\ Len(result') = Len(result) + 1 /\ Len(result) \in Nat /\ base \in Nat /\ base <= Len(result)
         /\ \A k \in 1..Len(result) : result'[k] = result[k]
         /\ result'[Len(result) + 1] = [on |-> using, how |-> how]
         /\ result' \in Seq([on : Slots, how : {"ok", "io", "timeout"}])
         /\ Since' = Since \cup {Len(result) + 1} /\ Since \subseteq 1..Len(result)
         /\ Done' = Done + 1 /\ Done \in Nat /\ InFlight' = 0 /\ InFlight = 1
         /\ Alone' => Alone
<1>1. /\ Len(result) \in Nat /\ base \in Nat /\ base <= Len(result) /\ using \in Slots
      /\ result \in Seq([on : Slots, how : {"ok", "io", "timeout"}])
  BY DEF NvmeInv, NvmeBooks, NvmeTypeOK
<1>2. result' = Append(result, [on |-> using, how |-> how]) /\ base' = base /\ busy' = "no" /\ using' = using
  BY DEF Answer
<1>3. [on |-> using, how |-> how] \in [on : Slots, how : {"ok", "io", "timeout"}]
  BY <1>1
<1>4. /\ Len(result') = Len(result) + 1
      /\ \A k \in 1..Len(result) : result'[k] = result[k]
      /\ result'[Len(result) + 1] = [on |-> using, how |-> how]
      /\ result' \in Seq([on : Slots, how : {"ok", "io", "timeout"}])
  BY <1>1, <1>2, <1>3, AppendProperties
<1>5. Since' = Since \cup {Len(result) + 1} /\ Since \subseteq 1..Len(result)
  BY <1>1, <1>2, <1>4 DEF Since
<1>6. Done' = Done + 1 /\ Done \in Nat /\ InFlight' = 0 /\ InFlight = 1
  BY <1>1, <1>2, <1>4 DEF Done, InFlight
<1>7. ASSUME Alone' PROVE Alone
  <2>1. ctl.dev < num_nvme_devices' /\ Done + 1 <= SqFits
    BY <1>2, <1>6, <1>7 DEF Alone
  <2>2. using = ctl.dev
    BY <1>4, <1>5, <1>7 DEF Alone
  <2>3. \A k \in Since : result[k].on = ctl.dev
    BY <1>4, <1>5, <1>7 DEF Alone
  <2>4. busy # "identify" => num_nvme_devices' = num_nvme_devices
    BY DEF Answer, NvmeInv, NvmeBooks, NvmeTypeOK
  <2> QED BY <1>6, <2>1, <2>2, <2>3, <2>4 DEF Alone
<1> QED BY <1>1, <1>4, <1>5, <1>6, <1>7

(* An answer frees the page of the identify data and counts the device.    *)
LEMMA AnswerBooks ==
  ASSUME NvmeInv, NEW how \in {"ok", "io", "timeout"}, busy # "no", Answer(how), ctl'.dev = ctl.dev,
         nvme_devices' \in [Slots -> Queues], ctl' \in Controllers
  PROVE  NvmeBooks'
<1> USE NvmeAssumption
<1>1. /\ num_nvme_devices' = num_nvme_devices + IF busy = "identify" /\ how = "ok" THEN 1 ELSE 0
      /\ nvmeFree' = nvmeFree + IF busy = "identify" THEN 1 ELSE 0
      /\ busy' = "no" /\ using' = using /\ posted' = posted /\ base' = base
  BY DEF Answer
<1>2. num_nvme_devices' \in 0..NVME_MAX_DEVICES /\ nvmeFree' \in 0..NvmePages
  BY <1>1 DEF NvmeInv, NvmeBooks, NvmeTypeOK
<1>3. Len(result') <= MaxCommands
  BY Answered DEF NvmeInv, NvmeBooks
<1>4. NvmeTypeOK'
  BY <1>1, <1>2, <1>3, Answered DEF NvmeInv, NvmeBooks, NvmeTypeOK, Controllers
<1> QED BY <1>1, <1>3, <1>4, Answered DEF NvmeBooks

(* The properties about the results are kept by an answer that is no       *)
(* success, and by one that is true to them.                               *)
LEMMA AnswerHonest ==
  ASSUME NvmeInv, NEW how \in {"ok", "io", "timeout"}, busy # "no", Answer(how), ctl'.dev = ctl.dev,
         NEW n, n = Len(result) + 1,
         how = "ok" /\ InPage(n)' =>
           /\ \A k \in Since : result[k].how # "io"
           /\ (\A k \in Since : result[k].how # "timeout") => n \in posted
  PROVE  FailStop' /\ FirstPageHonest'
<1>1. posted' = posted /\ base' = base
  BY DEF Answer
<1>2. /\ Len(result') = Len(result) + 1 /\ Len(result) \in Nat /\ base \in Nat
      /\ \A k \in 1..Len(result) : result'[k] = result[k]
      /\ result'[Len(result) + 1].how = how
      /\ Since' = Since \cup {Len(result) + 1} /\ Since \subseteq 1..Len(result)
      /\ base <= Len(result)
  BY Answered
<1>3. ASSUME NEW k \in Since PROVE InPage(k)' => InPage(k)
  <2>1. k \in 1..Len(result) /\ \A j \in base + 1..k : j \in 1..Len(result)
    BY <1>2 DEF Since
  <2> QED BY <1>1, <1>2, <2>1 DEF InPage
<1>4. FailStop'
  <2> SUFFICES ASSUME NEW j \in Since', NEW k \in Since', j < k, InPage(k)', result'[j].how = "io"
               PROVE  result'[k].how # "ok"
    BY DEF FailStop
  <2>1. j \in Since /\ result'[j] = result[j]
    BY <1>2 DEF Since
  <2>2. CASE k \in Since
    BY <1>2, <1>3, <2>1, <2>2 DEF NvmeInv, FailStop
  <2>3. CASE k = Len(result) + 1
    BY <1>2, <2>1, <2>3
  <2> QED BY <1>2, <2>2, <2>3
<1>5. FirstPageHonest'
  <2> SUFFICES ASSUME NEW k \in Since', InPage(k)',
                      \A j \in base + 1..k - 1 : result'[j].how # "timeout",
                      result'[k].how = "ok"
               PROVE  k \in posted
    BY <1>1 DEF FirstPageHonest
  <2>2. CASE k \in Since
    <3>1. k \in 1..Len(result) /\ \A j \in base + 1..k - 1 : j \in 1..Len(result)
      BY <1>2, <2>2 DEF Since
    <3> QED BY <1>2, <1>3, <2>2, <3>1 DEF NvmeInv, FirstPageHonest
  <2>3. CASE k = Len(result) + 1
    <3>1. \A j \in Since : j \in base + 1..k - 1 /\ j \in 1..Len(result)
      BY <1>2, <2>3 DEF Since
    <3>2. \A j \in Since : result[j].how # "timeout"
      BY <1>2, <3>1
    <3> QED BY <1>2, <2>3, <3>2
  <2> QED BY <1>2, <2>2, <2>3
<1> QED BY <1>4, <1>5

(* A command that would be in its page with the ones before finds the      *)
(* queues in their shape.                                                  *)
LEMMA InPageAlone ==
  ASSUME NvmeInv, NEW how \in {"ok", "io", "timeout"}, busy # "no", Answer(how), ctl'.dev = ctl.dev,
         NEW n, n = Len(result) + 1, InPage(n)'
  PROVE  Alone
<1>1. /\ Len(result') = Len(result) + 1 /\ Len(result) \in Nat /\ base \in Nat
      /\ \A k \in 1..Len(result) : result'[k] = result[k]
      /\ result'[Len(result) + 1] = [on |-> using, how |-> how]
      /\ base <= Len(result) /\ InFlight = 1 /\ Done \in Nat
  BY Answered
<1>2. base' = base
  BY DEF Answer
<1>3. Len(result) + 1 <= base + SqFits /\ \A j \in base + 1..Len(result) + 1 : result'[j].on = ctl.dev
  BY <1>2 DEF InPage
<1>4. Done + InFlight <= SqFits
  BY <1>1, <1>3, FitsInPage DEF Done
<1>5. using = ctl.dev
  BY <1>1, <1>3
<1>6. \A k \in Since : result[k].on = ctl.dev
  BY <1>1, <1>3 DEF Since
<1>7. ctl.dev < num_nvme_devices \/ busy = "identify"
  BY <1>5 DEF NvmeInv, NvmeBooks, NvmeTypeOK
<1> QED BY <1>4, <1>5, <1>6, <1>7 DEF Alone

(* The driver consumes what the controller has completed, and never an     *)
(* error.                                                                  *)
LEMMA SucceedsKeeps ==
  ASSUME NvmeInv, Succeeds
  PROVE  NvmeInv'
<1> USE NvmeAssumption
<1> DEFINE p == nvme_devices[using]
           h == p.cq_head
<1>1. busy # "no" /\ Answer("ok") /\ Complete(p.cq[h]) /\ p.cq[h].code # "hard"
  BY DEF Succeeds, Polled
<1>2. /\ nvme_devices' = [nvme_devices EXCEPT ![using].cq_head = After(@)]
      /\ ctl' = [ctl EXCEPT !.head = After(h)]
  BY DEF Succeeds, Consumed
<1>3. /\ nvme_devices \in [Slots -> Queues] /\ p \in Queues /\ using \in Slots /\ h \in Entries
      /\ ctl \in Controllers /\ After(h) \in Entries
  BY AfterWraps DEF NvmeInv, NvmeBooks, NvmeTypeOK, Queues, Controllers
<1>4. PICK q : q = [p EXCEPT !.cq_head = After(h)]
  OBVIOUS
<1>5. /\ q \in Queues /\ q.sq = p.sq /\ q.sq_tail = p.sq_tail /\ q.cq = p.cq /\ q.cq_head = After(h)
  <2> HIDE DEF p
  <2> QED BY <1>3, <1>4 DEF Queues
<1>6. nvme_devices' = [nvme_devices EXCEPT ![using] = q]
  BY <1>2, <1>3, <1>4
<1>7. nvme_devices' \in [Slots -> Queues] /\ nvme_devices'[using] = q
  BY <1>3, <1>5, <1>6
<1>8. ctl' \in Controllers
      /\ ctl'.dev = ctl.dev /\ ctl'.head = After(h) /\ ctl'.tail = ctl.tail /\ ctl'.phase = ctl.phase
      /\ ctl'.sqHead = ctl.sqHead /\ ctl'.cqTail = ctl.cqTail
  <2> HIDE DEF h
  <2> QED BY <1>2, <1>3 DEF Controllers
<1>9. NvmeBooks'
  BY <1>1, <1>7, <1>8, AnswerBooks
<1>10. posted' = posted /\ base' = base
  BY <1>1 DEF Answer
<1>11. /\ Len(result) \in Nat /\ base \in Nat /\ base <= Len(result)
       /\ \A k \in 1..Len(result) : result'[k] = result[k]
       /\ result'[Len(result) + 1] = [on |-> using, how |-> "ok"]
       /\ Since' = Since \cup {Len(result) + 1} /\ Since \subseteq 1..Len(result)
       /\ Done' = Done + 1 /\ Done \in Nat /\ InFlight' = 0 /\ InFlight = 1
       /\ Alone' => Alone
  BY <1>1, <1>8, Answered
<1>12. ASSUME Alone
       PROVE  /\ PageShape(p) /\ using = ctl.dev /\ h < ctl.cqTail /\ After(h) = h + 1
              /\ \A k \in Since : result[k].how # "io"
  <2>1. using = ctl.dev /\ PageShape(p)
    BY <1>1, <1>12 DEF Alone, NvmeInv, NvmeShape
  <2>2. h < ctl.cqTail
    <3>1. ~Complete(Blank)
      BY DEF Complete, Blank
    <3>2. ctl.cqTail \in Int
      BY <1>3 DEF Controllers, Entries
    <3> QED BY <1>1, <1>3, <2>1, <3>1, <3>2 DEF PageShape, Entries
  <2>3. After(h) = h + 1
    BY <1>3, <2>2, AfterWraps DEF Controllers, Entries
  <2>4. \A k \in Since : result[k].how # "io"
    BY <1>1, <2>1 DEF PageShape
  <2> QED BY <2>1, <2>2, <2>3, <2>4
<1> HIDE DEF p, h
<1>13. NvmeShape'
  <2> SUFFICES ASSUME Alone' PROVE PageShape(q)'
    <3>1. Alone' => using = ctl.dev
      BY <1>11, <1>12
    <3> QED BY <1>7, <1>8, <3>1 DEF NvmeShape
  <2>1. PageShape(p) /\ h < ctl.cqTail /\ After(h) = h + 1 /\ \A k \in Since : result[k].how # "io"
    BY <1>11, <1>12
  <2>2. q.cq_head <= ctl.cqTail /\ q.cq_head = h + 1 /\ ctl.cqTail \in Int
    BY <1>3, <1>5, <2>1 DEF Controllers, Entries
  <2>3. (\A k \in Since' : result'[k].how = "ok") => q.cq_head = Done'
    <3> SUFFICES ASSUME \A k \in Since' : result'[k].how = "ok" PROVE q.cq_head = Done'
      OBVIOUS
    <3>1. \A k \in Since : result[k].how = "ok"
      BY <1>11
    <3>2. h = Done
      BY <2>1, <3>1 DEF PageShape, h
    <3> QED BY <1>11, <2>2, <3>2
  <2>4. ~ \E k \in Since' : result'[k].how = "io"
    BY <1>11, <2>1
  <2>5. q.sq_tail = Done' + InFlight'
    BY <1>5, <1>11, <2>1 DEF PageShape
  <2>6. /\ ctl'.phase = 1 /\ ctl'.head = q.cq_head /\ ctl'.tail = q.sq_tail
        /\ ctl'.sqHead = ctl'.cqTail /\ ctl'.cqTail <= q.sq_tail
    BY <1>5, <1>8, <2>1 DEF PageShape
  <2>7. /\ \A i \in Entries : i < q.sq_tail => q.sq[i] = base + i + 1
        /\ \A i \in Entries : i < ctl.cqTail => base + i + 1 \in posted
        /\ \A j \in Entries : j >= ctl.cqTail => q.cq[j] = Blank
    BY <1>5, <2>1 DEF PageShape
  <2> QED BY <1>8, <1>10, <2>2, <2>3, <2>4, <2>5, <2>6, <2>7 DEF PageShape
<1>14. FailStop' /\ FirstPageHonest'
  <2>0. PICK n : n = Len(result) + 1
    OBVIOUS
  <2>1. ASSUME InPage(n)'
        PROVE  /\ \A k \in Since : result[k].how # "io"
               /\ (\A k \in Since : result[k].how # "timeout") => n \in posted
    <3>1. Alone
      BY <1>1, <1>8, <2>0, <2>1, InPageAlone
    <3>2. PageShape(p) /\ h < ctl.cqTail /\ \A k \in Since : result[k].how # "io"
      BY <1>12, <3>1
    <3>3. ASSUME \A k \in Since : result[k].how # "timeout" PROVE n \in posted
      <4>1. \A k \in Since : result[k].how \in {"ok", "io", "timeout"}
        <5>1. result \in Seq([on : Slots, how : {"ok", "io", "timeout"}])
          BY DEF NvmeInv, NvmeBooks, NvmeTypeOK
        <5>2. \A k \in Since : result[k] \in [on : Slots, how : {"ok", "io", "timeout"}]
          BY <1>11, <5>1, ElementOfSeq
        <5> QED BY <5>2
      <4>2. \A k \in Since : result[k].how = "ok"
        BY <3>2, <3>3, <4>1
      <4>3. h = Done
        BY <3>2, <4>2 DEF PageShape, h
      <4>4. base + h + 1 \in posted
        BY <1>3, <3>2 DEF PageShape
      <4> QED BY <1>11, <2>0, <4>3, <4>4 DEF Done
    <3> QED BY <3>2, <3>3
  <2> QED BY <1>1, <1>8, <2>0, <2>1, AnswerHonest
<1> QED BY <1>9, <1>13, <1>14 DEF NvmeInv

(* An answer that is no success consumes nothing.                          *)
LEMMA FailureKeeps ==
  ASSUME NvmeInv, Fails \/ Times_out
  PROVE  NvmeInv'
<1> USE NvmeAssumption
<1>1. PICK how \in {"io", "timeout"} :
        /\ busy # "no" /\ Answer(how) /\ UNCHANGED <<nvme_devices, ctl>>
        /\ how = "io" => nvme_devices[using].cq[nvme_devices[using].cq_head].code = "hard"
  BY DEF Fails, Times_out, Polled
<1>2. how \in {"ok", "io", "timeout"} /\ how # "ok" /\ ctl'.dev = ctl.dev
  BY <1>1
<1>3. nvme_devices' \in [Slots -> Queues] /\ ctl' \in Controllers
  BY <1>1 DEF NvmeInv, NvmeBooks, NvmeTypeOK, Controllers
<1>4. NvmeBooks'
  BY <1>1, <1>2, <1>3, AnswerBooks
<1>5. FailStop' /\ FirstPageHonest'
  <2>1. PICK n : n = Len(result) + 1
    OBVIOUS
  <2> QED BY <1>1, <1>2, <2>1, AnswerHonest
<1>6. NvmeShape'
  <2> SUFFICES ASSUME Alone' PROVE PageShape(nvme_devices[ctl.dev])'
    BY DEF NvmeShape
  <2>1. /\ \A k \in 1..Len(result) : result'[k] = result[k]
        /\ result'[Len(result) + 1] = [on |-> using, how |-> how]
        /\ Since' = Since \cup {Len(result) + 1} /\ Since \subseteq 1..Len(result)
        /\ Done' = Done + 1 /\ Done \in Nat /\ InFlight' = 0 /\ InFlight = 1 /\ Alone
    BY <1>1, <1>2, Answered
  <2>2. PICK q : q = nvme_devices[ctl.dev]
    OBVIOUS
  <2>3. PageShape(q) /\ using = ctl.dev
    BY <1>1, <2>1, <2>2 DEF NvmeInv, NvmeShape, Alone
  <2>4. posted' = posted /\ base' = base
    BY <1>1 DEF Answer
  <2>5. ~ \A k \in Since' : result'[k].how = "ok"
    BY <1>2, <2>1
  <2>6. (\E k \in Since' : result'[k].how = "io") => q.cq[q.cq_head].code = "hard"
    <3> SUFFICES ASSUME NEW k \in Since', result'[k].how = "io" PROVE q.cq[q.cq_head].code = "hard"
      OBVIOUS
    <3>1. CASE k \in Since
      BY <2>1, <2>3, <3>1 DEF PageShape
    <3>2. CASE k = Len(result) + 1
      BY <1>1, <2>1, <2>2, <2>3, <3>2
    <3> QED BY <2>1, <3>1, <3>2
  <2>7. q.sq_tail = Done' + InFlight'
    BY <2>1, <2>3 DEF PageShape
  <2>8. PageShape(q)'
    BY <1>1, <2>3, <2>4, <2>5, <2>6, <2>7 DEF PageShape
  <2> QED BY <1>1, <2>2, <2>8
<1> QED BY <1>4, <1>5, <1>6 DEF NvmeInv

(* Every step of the NVMe driver and its controller keeps the invariant.   *)
LEMMA NvmeInvNext == NvmeInv /\ NvmeNext => NvmeInv'
<1> SUFFICES ASSUME NvmeInv, NvmeNext PROVE NvmeInv'
  OBVIOUS
<1>1. CASE \E d \in Slots : nvme_read_write(d)
  BY <1>1, ReadWriteKeeps
<1>2. CASE \E code \in {"ok", "minor", "hard"} : Post(code)
  BY <1>2, PostKeeps
<1> QED BY <1>1, <1>2, ProbeNoMemoryKeeps, ProbeLateKeeps, ProbeKeeps, SucceedsKeeps, FailureKeeps
           DEF NvmeNext, Driver

----------------------------------------------------------------------------
(* The network card.                                                       *)

(* The next descriptor of an e1000 ring, without the remainder.            *)
LEMMA SuccWraps ==
  ASSUME NEW i \in Descs
  PROVE  /\ Succ(i) = IF i = E1000_NUM_DESC - 1 THEN 0 ELSE i + 1
         /\ Succ(i) \in Descs
<1>1. /\ E1000_NUM_DESC \in Nat \ {0} /\ i \in 0..E1000_NUM_DESC - 1
      /\ 1 \in 0..E1000_NUM_DESC
  BY E1000Assumption DEF Descs
<1>2. Succ(i) = Ahead(E1000_NUM_DESC, i, 1) /\ Succ(i) \in Descs
  BY <1>1, AheadWraps DEF Succ, Descs
<1>3. Ahead(E1000_NUM_DESC, i, 1) = IF i = E1000_NUM_DESC - 1 THEN 0 ELSE i + 1
  BY <1>1 DEF Ahead
<1> QED BY <1>2, <1>3

(* Different frames of a lap have different descriptors.                   *)
LEMMA DescsDiffer ==
  ASSUME NEW p \in Descs, NEW i \in 0..E1000_NUM_DESC - 1, NEW j \in 0..E1000_NUM_DESC - 1
  PROVE  /\ Ahead(E1000_NUM_DESC, p, i) \in Descs
         /\ Ahead(E1000_NUM_DESC, p, i) = Ahead(E1000_NUM_DESC, p, j) => i = j
         /\ i + 1 <= E1000_NUM_DESC - 1 =>
              /\ Succ(Ahead(E1000_NUM_DESC, p, i)) = Ahead(E1000_NUM_DESC, p, i + 1)
              /\ Ahead(E1000_NUM_DESC, Succ(p), i) = Ahead(E1000_NUM_DESC, p, i + 1)
         /\ Ahead(E1000_NUM_DESC, Succ(p), E1000_NUM_DESC - 1) = p
         /\ Ahead(E1000_NUM_DESC, p, 0) = p
<1>1. /\ Ahead(E1000_NUM_DESC, p, i) \in Descs
      /\ Ahead(E1000_NUM_DESC, p, i) = Ahead(E1000_NUM_DESC, p, j) => i = j
  BY E1000Assumption DEF Ahead, Descs
<1>2. /\ Succ(p) = IF p = E1000_NUM_DESC - 1 THEN 0 ELSE p + 1
      /\ Succ(Ahead(E1000_NUM_DESC, p, i)) =
           IF Ahead(E1000_NUM_DESC, p, i) = E1000_NUM_DESC - 1 THEN 0
           ELSE Ahead(E1000_NUM_DESC, p, i) + 1
  BY <1>1, SuccWraps
<1>3. i + 1 <= E1000_NUM_DESC - 1 =>
        /\ Succ(Ahead(E1000_NUM_DESC, p, i)) = Ahead(E1000_NUM_DESC, p, i + 1)
        /\ Ahead(E1000_NUM_DESC, Succ(p), i) = Ahead(E1000_NUM_DESC, p, i + 1)
  BY <1>2, E1000Assumption DEF Ahead, Descs
<1>4. /\ Ahead(E1000_NUM_DESC, Succ(p), E1000_NUM_DESC - 1) = p
      /\ Ahead(E1000_NUM_DESC, p, 0) = p
  BY <1>2, E1000Assumption DEF Ahead, Descs
<1> QED BY <1>1, <1>3, <1>4

(* The frames 1 to n, and one more.                                        *)
LEMMA OneMore ==
  ASSUME NEW s \in Seq(1..MaxFrames), s = UpTo(Len(s)), Len(s) + 1 \in 1..MaxFrames
  PROVE  LET t == Append(s, Len(s) + 1)
         IN  t \in Seq(1..MaxFrames) /\ Len(t) = Len(s) + 1 /\ t = UpTo(Len(t))
<1> DEFINE t == Append(s, Len(s) + 1)
<1>1. /\ t \in Seq(1..MaxFrames) /\ Len(t) = Len(s) + 1 /\ Len(s) \in Nat
      /\ \A k \in 1..Len(s) : t[k] = s[k]
      /\ t[Len(s) + 1] = Len(s) + 1
  BY AppendProperties
<1>2. \A k \in 1..Len(s) : s[k] = k
  BY DEF UpTo
<1> HIDE DEF t
<1>3. \A k \in 1..Len(t) : t[k] = k
  BY <1>1, <1>2
<1>4. t = [k \in 1..Len(t) |-> t[k]]
  BY <1>1, LenProperties
<1>5. t = UpTo(Len(t))
  BY <1>3, <1>4 DEF UpTo
<1> QED BY <1>1, <1>5 DEF t

(* With the shape of the ring, the frames that wait are where RxInOrder    *)
(* says.                                                                   *)
LEMMA RxShapeIsInOrder ==
  ASSUME E1000TypeOK, RxShape, delivered = UpTo(Len(delivered))
  PROVE  E1000RxInOrder
<1> USE E1000Assumption
<1> SUFFICES ASSUME NEW k \in 1..arrived - Len(delivered)
             PROVE  rx_descriptors[(rx_cur + k - 1) % E1000_NUM_DESC] =
                      [done |-> TRUE, frame |-> Len(delivered) + k]
  BY DEF E1000RxInOrder
<1> DEFINE i == k - 1
<1>0. /\ Len(delivered) \in Nat /\ arrived \in Nat /\ rx_cur \in Int
      /\ arrived - Len(delivered) <= E1000_NUM_DESC - 1
  BY LenProperties DEF RxShape, Behind, E1000TypeOK, Descs
<1>1. /\ i \in 0..E1000_NUM_DESC - 1 /\ i < Behind /\ i \in 0..E1000_NUM_DESC
      /\ rx_cur + k - 1 = rx_cur + i /\ Len(delivered) + i + 1 = Len(delivered) + k
  BY <1>0 DEF Behind
<1>2. rx_cur \in 0..E1000_NUM_DESC - 1 /\ E1000_NUM_DESC \in Nat \ {0}
  BY DEF E1000TypeOK, Descs
<1> HIDE DEF i
<1>3. (rx_cur + i) % E1000_NUM_DESC = Ahead(E1000_NUM_DESC, rx_cur, i)
  BY <1>1, <1>2, AheadWraps
<1>4. rx_descriptors[Ahead(E1000_NUM_DESC, rx_cur, i)] = [done |-> TRUE, frame |-> Len(delivered) + i + 1]
  BY <1>1 DEF RxShape
<1> QED BY <1>1, <1>3, <1>4

(* The lemma before, of the state after a step.                            *)
LEMMA RxShapeIsInOrderNext ==
  (E1000TypeOK /\ RxShape /\ delivered = UpTo(Len(delivered)) => E1000RxInOrder)'
<1>1. E1000TypeOK /\ RxShape /\ delivered = UpTo(Len(delivered)) => E1000RxInOrder
  BY RxShapeIsInOrder
<1> QED BY <1>1, PTL

(* Before e1000_init there is nothing in either ring.                      *)
LEMMA E1000InvInit == E1000Init => E1000Inv
<1> SUFFICES ASSUME E1000Init PROVE E1000Inv
  OBVIOUS
<1> USE E1000Assumption
<1>0. Len(delivered) = 0 /\ Len(sent) = 0 /\ arrived = 0
  BY DEF E1000Init
<1>1. Len(delivered) = 0 /\ Len(sent) = 0 /\ Behind = 0 /\ 0 \in Descs
  BY <1>0 DEF Behind, Descs
<1>2. E1000TypeOK
  BY <1>1 DEF E1000Init, E1000TypeOK
<1>3. UpTo(0) = <<>>
  BY DEF UpTo
<1>4. RxShape
  <2>1. \A k \in 0..E1000_NUM_DESC - 1 : Ahead(E1000_NUM_DESC, 0, k) \in Descs
    BY <1>1, DescsDiffer
  <2>2. Ahead(E1000_NUM_DESC, 0, 0) = 0
    BY DEF Ahead
  <2> QED BY <1>1, <2>1, <2>2, EmptySeq DEF E1000Init, RxShape
<1>5. TxShape
  BY EmptySeq DEF E1000Init, TxShape
<1>6. E1000RxInOrder
  BY <1>1, <1>2, <1>3, <1>4, RxShapeIsInOrder DEF E1000Init
<1>7. E1000TxInOrder
  BY <1>1, <1>3 DEF E1000Init, E1000TxInOrder
<1> QED BY <1>2, <1>4, <1>5, <1>6, <1>7 DEF E1000Inv

(* A step of another driver leaves the e1000 invariant alone.              *)
LEMMA E1000Stutter == E1000Inv /\ UNCHANGED e1000Vars => E1000Inv'
BY DEF E1000Inv, e1000Vars, rxVars, txVars, E1000TypeOK, E1000RxInOrder, E1000TxInOrder,
       RxShape, TxShape, Behind

(* A step that touches one ring leaves what is said of the other.          *)
LEMMA RxUntouched ==
  E1000RxInOrder /\ RxShape /\ UNCHANGED rxVars /\ UNCHANGED active => E1000RxInOrder' /\ RxShape'
BY DEF E1000RxInOrder, RxShape, rxVars, Behind

(* Reception leaves the transmit ring as it is.                            *)
LEMMA TxUntouched ==
  E1000TxInOrder /\ TxShape /\ UNCHANGED txVars /\ UNCHANGED active => E1000TxInOrder' /\ TxShape'
BY DEF E1000TxInOrder, TxShape, txVars

(* The card fills a descriptor of its part of the receive ring.            *)
LEMMA CardReceivesKeeps ==
  ASSUME E1000Inv, CardReceives
  PROVE  E1000Inv'
<1> USE E1000Assumption
<1>0. /\ E1000TypeOK /\ RxShape /\ TxShape /\ E1000TxInOrder
      /\ delivered = UpTo(Len(delivered)) /\ Len(delivered) \in Nat
      /\ rx_cur \in Descs /\ rdh \in Descs /\ Behind \in 0..E1000_NUM_DESC - 1
  BY LenProperties DEF E1000Inv, E1000RxInOrder, E1000TypeOK, RxShape
<1>1. /\ active = "up" /\ rdh # rdt /\ arrived < MaxFrames
      /\ rx_descriptors' = [rx_descriptors EXCEPT ![rdh] = [done |-> TRUE, frame |-> arrived + 1]]
      /\ rdh' = Succ(rdh) /\ arrived' = arrived + 1
      /\ UNCHANGED <<active, rx_cur, rdt, delivered>> /\ UNCHANGED txVars
  BY DEF CardReceives, Filled
<1>2. Behind # E1000_NUM_DESC - 1 /\ Behind + 1 \in 0..E1000_NUM_DESC - 1 /\ Behind' = Behind + 1
  <2>1. Behind # E1000_NUM_DESC - 1
    BY <1>0, <1>1 DEF RxShape
  <2>2. Behind' = Behind + 1
    BY <1>0, <1>1 DEF Behind, E1000TypeOK
  <2> QED BY <1>0, <2>1, <2>2
<1>3. rdh' = Ahead(E1000_NUM_DESC, rx_cur, Behind') /\ Succ(rdh) \in Descs
  BY <1>0, <1>1, <1>2, DescsDiffer, SuccWraps DEF RxShape
<1>4. E1000TypeOK'
  BY <1>0, <1>1, <1>3, SMTT(30) DEF E1000TypeOK, txVars
<1>5. ASSUME NEW k \in 0..E1000_NUM_DESC - 1
      PROVE  LET cell == rx_descriptors'[Ahead(E1000_NUM_DESC, rx_cur, k)]
             IN  IF k < Behind' THEN cell = [done |-> TRUE, frame |-> Len(delivered) + k + 1]
                                ELSE ~cell.done
  <2>1. /\ Ahead(E1000_NUM_DESC, rx_cur, k) \in Descs
        /\ rdh = Ahead(E1000_NUM_DESC, rx_cur, Behind)
        /\ Ahead(E1000_NUM_DESC, rx_cur, k) = rdh => k = Behind
    BY <1>0, DescsDiffer DEF RxShape
  <2>2. CASE k = Behind
    <3>1. Len(delivered) + k + 1 = arrived + 1
      BY <1>0, <2>2 DEF Behind, E1000TypeOK
    <3>2. rx_descriptors'[rdh] = [done |-> TRUE, frame |-> arrived + 1]
      BY <1>0, <1>1 DEF E1000TypeOK
    <3>3. k < Behind'
      BY <1>0, <1>2, <2>2
    <3> QED BY <2>1, <2>2, <3>1, <3>2, <3>3
  <2>3. CASE k # Behind
    <3>1. rx_descriptors'[Ahead(E1000_NUM_DESC, rx_cur, k)] = rx_descriptors[Ahead(E1000_NUM_DESC, rx_cur, k)]
      BY <1>0, <1>1, <2>1, <2>3 DEF E1000TypeOK
    <3>2. k < Behind' <=> k < Behind
      BY <1>0, <1>2, <2>3
    <3> QED BY <1>0, <3>1, <3>2 DEF RxShape
  <2> QED BY <2>2, <2>3
<1>6. RxShape'
  BY <1>0, <1>1, <1>2, <1>3, <1>5 DEF RxShape
<1>7. E1000RxInOrder'
  BY <1>0, <1>1, <1>4, <1>6, RxShapeIsInOrderNext
<1> QED BY <1>0, <1>1, <1>4, <1>6, <1>7, TxUntouched DEF E1000Inv

(* e1000_receive_packet takes the oldest frame and gives its descriptor    *)
(* back to the card.                                                       *)
LEMMA ReceiveKeeps ==
  ASSUME E1000Inv, e1000_receive_packet
  PROVE  E1000Inv'
<1> USE E1000Assumption
<1>0. /\ E1000TypeOK /\ RxShape /\ TxShape /\ E1000TxInOrder
      /\ delivered = UpTo(Len(delivered)) /\ Len(delivered) \in Nat
      /\ rx_cur \in Descs /\ rdh \in Descs /\ Behind \in 0..E1000_NUM_DESC - 1
  BY LenProperties DEF E1000Inv, E1000RxInOrder, E1000TypeOK, RxShape
<1>1. /\ active = "up" /\ rx_descriptors[rx_cur].done
      /\ delivered' = Append(delivered, rx_descriptors[rx_cur].frame)
      /\ rx_descriptors' = [rx_descriptors EXCEPT ![rx_cur].done = FALSE]
      /\ rdt' = rx_cur /\ rx_cur' = Succ(rx_cur)
      /\ UNCHANGED <<active, rdh, arrived>> /\ UNCHANGED txVars
  BY DEF e1000_receive_packet, Taken
<1>2. /\ rx_descriptors[rx_cur] = [done |-> TRUE, frame |-> Len(delivered) + 1]
      /\ Behind > 0 /\ Len(delivered) + 1 \in 1..MaxFrames
  <2>1. 0 \in 0..E1000_NUM_DESC - 1 /\ Ahead(E1000_NUM_DESC, rx_cur, 0) = rx_cur
    BY <1>0, DescsDiffer
  <2>2. Behind > 0
    BY <1>0, <1>1, <2>1 DEF RxShape
  <2>3. rx_descriptors[rx_cur] = [done |-> TRUE, frame |-> Len(delivered) + 0 + 1]
    BY <1>0, <2>1, <2>2 DEF RxShape
  <2> QED BY <1>0, <2>2, <2>3 DEF Behind, E1000TypeOK
<1>3. /\ delivered' \in Seq(1..MaxFrames) /\ Len(delivered') = Len(delivered) + 1
      /\ delivered' = UpTo(Len(delivered'))
  BY <1>0, <1>1, <1>2, OneMore, SMTT(30) DEF RxShape
<1>4. Behind' = Behind - 1
  BY <1>0, <1>1, <1>3, SMTT(30) DEF Behind, E1000TypeOK
<1>5. Succ(rx_cur) \in Descs
  BY <1>0, SuccWraps
<1>6. E1000TypeOK'
  BY <1>0, <1>1, <1>5 DEF E1000TypeOK, txVars
<1>7. /\ rdh' = Ahead(E1000_NUM_DESC, rx_cur', Behind')
      /\ rdt' = Ahead(E1000_NUM_DESC, rx_cur', E1000_NUM_DESC - 1)
  <2>1. Behind - 1 \in 0..E1000_NUM_DESC - 1 /\ Behind - 1 + 1 = Behind
    BY <1>0, <1>2
  <2>2. Ahead(E1000_NUM_DESC, Succ(rx_cur), Behind - 1) = Ahead(E1000_NUM_DESC, rx_cur, Behind - 1 + 1)
    BY <1>0, <2>1, DescsDiffer
  <2>3. Ahead(E1000_NUM_DESC, Succ(rx_cur), E1000_NUM_DESC - 1) = rx_cur
    BY <1>0, <2>1, DescsDiffer
  <2> QED BY <1>0, <1>1, <1>4, <2>1, <2>2, <2>3 DEF RxShape
<1>8. ASSUME NEW k \in 0..E1000_NUM_DESC - 1
      PROVE  LET cell == rx_descriptors'[Ahead(E1000_NUM_DESC, rx_cur', k)]
             IN  IF k < Behind' THEN cell = [done |-> TRUE, frame |-> Len(delivered') + k + 1]
                                ELSE ~cell.done
  <2>1. CASE k = E1000_NUM_DESC - 1
    <3>1. Ahead(E1000_NUM_DESC, rx_cur', k) = rx_cur
      BY <1>0, <1>1, <2>1, DescsDiffer
    <3>2. ~(k < Behind')
      BY <1>0, <1>4, <2>1
    <3> QED BY <1>0, <1>1, <3>1, <3>2 DEF E1000TypeOK
  <2>2. CASE k # E1000_NUM_DESC - 1
    <3>1. k + 1 \in 0..E1000_NUM_DESC - 1 /\ k + 1 # 0 /\ 0 \in 0..E1000_NUM_DESC - 1
      BY <2>2
    <3>2. Ahead(E1000_NUM_DESC, rx_cur', k) = Ahead(E1000_NUM_DESC, rx_cur, k + 1)
      BY <1>0, <1>1, <3>1, DescsDiffer
    <3>3. Ahead(E1000_NUM_DESC, rx_cur, k + 1) # rx_cur /\ Ahead(E1000_NUM_DESC, rx_cur, k + 1) \in Descs
      <4>1. Ahead(E1000_NUM_DESC, rx_cur, 0) = rx_cur
        BY <1>0, <3>1, DescsDiffer
      <4> QED BY <1>0, <3>1, <4>1, DescsDiffer
    <3>4. rx_descriptors'[Ahead(E1000_NUM_DESC, rx_cur', k)] = rx_descriptors[Ahead(E1000_NUM_DESC, rx_cur, k + 1)]
      BY <1>0, <1>1, <3>2, <3>3 DEF E1000TypeOK
    <3>5. (k < Behind' <=> k + 1 < Behind) /\ Len(delivered') + k + 1 = Len(delivered) + (k + 1) + 1
      BY <1>0, <1>3, <1>4
    <3> QED BY <1>0, <3>1, <3>4, <3>5 DEF RxShape
  <2> QED BY <2>1, <2>2
<1>9. RxShape'
  <2>1. active' = "up" /\ Behind' \in 0..E1000_NUM_DESC - 1
    BY <1>0, <1>1, <1>2, <1>4
  <2> QED BY <1>3, <1>7, <1>8, <2>1 DEF RxShape
<1>10. E1000RxInOrder'
  BY <1>3, <1>6, <1>9, RxShapeIsInOrderNext
<1> QED BY <1>0, <1>1, <1>6, <1>9, <1>10, TxUntouched DEF E1000Inv

(* e1000_init sets up empty rings.                                         *)
LEMMA E1000InitKeeps ==
  ASSUME E1000Inv, e1000_init
  PROVE  E1000Inv'
<1> USE E1000Assumption
<1>0. /\ E1000TypeOK /\ RxShape /\ TxShape /\ E1000TxInOrder
      /\ delivered = UpTo(Len(delivered))
  BY DEF E1000Inv, E1000RxInOrder
<1>1. /\ active = "boot"
      /\ UNCHANGED <<rx_descriptors, rx_cur, rdh, tx_cur, tdh, tdt,
                     sending, arrived, delivered, accepted, sent>>
      /\ \/ active' = "failed" /\ UNCHANGED <<rdt, tx_descriptors>>
         \/ /\ active' = "up" /\ rdt' = E1000_NUM_DESC - 1
            /\ tx_descriptors' = [i \in Descs |-> [done |-> TRUE, frame |-> 0]]
  BY DEF e1000_init, netdev_init
<1>2. E1000TypeOK'
  <2>1. rdt' \in Descs /\ active' \in {"boot", "up", "failed"}
    <3>1. rdt \in Descs /\ E1000_NUM_DESC - 1 \in Descs
      BY <1>0 DEF E1000TypeOK, Descs
    <3> QED BY <1>1, <3>1
  <2>2. tx_descriptors' \in [Descs -> [done : BOOLEAN, frame : 0..MaxFrames]]
    <3>1. CASE tx_descriptors' = [i \in Descs |-> [done |-> TRUE, frame |-> 0]]
      BY <3>1
    <3>2. CASE UNCHANGED tx_descriptors
      BY <1>0, <3>2 DEF E1000TypeOK
    <3> QED BY <1>1, <3>1, <3>2
  <2> QED BY <1>0, <1>1, <2>1, <2>2 DEF E1000TypeOK
<1>3. RxShape'
  <2>1. rx_cur = 0 /\ Behind' = Behind
    BY <1>0, <1>1 DEF RxShape, Behind
  <2>2. Ahead(E1000_NUM_DESC, 0, E1000_NUM_DESC - 1) = E1000_NUM_DESC - 1
    BY DEF Ahead
  <2> QED BY <1>0, <1>1, <2>1, <2>2 DEF RxShape
<1>4. TxShape' /\ E1000TxInOrder'
  BY <1>0, <1>1 DEF TxShape, E1000TxInOrder
<1>5. E1000RxInOrder'
  BY <1>0, <1>1, <1>2, <1>3, RxShapeIsInOrderNext
<1> QED BY <1>2, <1>3, <1>4, <1>5 DEF E1000Inv

(* The steps of e1000_send_packet, and of the card that sends.             *)
LEMMA SendKeeps ==
  ASSUME E1000Inv, e1000_send_packet \/ Fill \/ SendReturns \/ CardSends
  PROVE  E1000Inv'
<1> USE E1000Assumption
<1>0. /\ E1000TypeOK /\ RxShape /\ E1000RxInOrder /\ TxShape /\ E1000TxInOrder
      /\ accepted \in 0..MaxFrames /\ sent \in Seq(1..MaxFrames) /\ Len(sent) \in Nat
      /\ tx_cur \in Descs /\ tdh \in Descs /\ tdt = tx_cur
  BY LenProperties DEF E1000Inv, E1000TypeOK, TxShape
<1>1. UNCHANGED rxVars /\ UNCHANGED active
  BY DEF e1000_send_packet, Fill, SendReturns, CardSends
<1>2. RxShape' /\ E1000RxInOrder'
  BY <1>0, <1>1, RxUntouched
<1>3. \A i \in Descs : /\ Succ(i) = IF i = E1000_NUM_DESC - 1 THEN 0 ELSE i + 1
                       /\ Succ(i) \in Descs
  BY SuccWraps
<1>4. CASE e1000_send_packet
  <2>1. /\ active = "up" /\ sending = "no" /\ accepted < MaxFrames
        /\ sending' = "wait_free" /\ accepted' = accepted + 1
        /\ UNCHANGED <<tx_descriptors, tx_cur, tdh, tdt, sent>>
    BY <1>4 DEF e1000_send_packet
  <2>2. E1000TypeOK'
    BY <1>0, <1>1, <2>1 DEF E1000TypeOK, rxVars
  <2>3. TxShape' /\ E1000TxInOrder'
    BY <1>0, <1>1, <2>1 DEF TxShape, E1000TxInOrder
  <2> QED BY <1>2, <2>2, <2>3 DEF E1000Inv
<1>5. CASE Fill
  <2>1. /\ sending = "wait_free"
        /\ tx_descriptors' = [tx_descriptors EXCEPT ![tx_cur] = [done |-> FALSE, frame |-> accepted]]
        /\ tx_cur' = Succ(tx_cur) /\ tdt' = Succ(tx_cur)
        /\ sending' = "wait_sent"
        /\ UNCHANGED <<tdh, accepted, sent>>
    BY <1>5 DEF Fill
  <2>2. E1000TypeOK'
    BY <1>0, <1>1, <1>3, <2>1 DEF E1000TypeOK, rxVars
  <2>3. tx_descriptors'[tx_cur] = [done |-> FALSE, frame |-> accepted]
    BY <1>0, <2>1 DEF E1000TypeOK
  <2>4. TxShape' /\ E1000TxInOrder'
    BY <1>0, <1>1, <2>1, <2>3 DEF TxShape, E1000TxInOrder
  <2> QED BY <1>2, <2>2, <2>4 DEF E1000Inv
<1>6. CASE SendReturns
  <2>1. /\ sending = "wait_sent" /\ tx_descriptors[OldTail].done /\ sending' = "no"
        /\ UNCHANGED <<tx_descriptors, tx_cur, tdh, tdt, accepted, sent>>
    BY <1>6 DEF SendReturns, Waited
  <2>2. E1000TypeOK'
    BY <1>0, <1>1, <2>1 DEF E1000TypeOK, rxVars
  <2>3. OldTail = IF tx_cur = 0 THEN E1000_NUM_DESC - 1 ELSE tx_cur - 1
    <3>1. /\ E1000_NUM_DESC \in Nat \ {0} /\ tx_cur \in 0..E1000_NUM_DESC - 1
          /\ E1000_NUM_DESC - 1 \in 0..E1000_NUM_DESC
          /\ tx_cur + E1000_NUM_DESC - 1 = tx_cur + (E1000_NUM_DESC - 1)
      BY <1>0 DEF Descs
    <3>2. OldTail = Ahead(E1000_NUM_DESC, tx_cur, E1000_NUM_DESC - 1)
      BY <3>1, AheadWraps DEF OldTail
    <3> QED BY <3>1, <3>2 DEF Ahead
  <2>4. Succ(tdh) = tdt => OldTail = tdh
    BY <1>0, <1>3, <2>3 DEF Descs
  <2>5. tdh = tdt /\ Len(sent) = accepted
    BY <1>0, <2>1, <2>4 DEF TxShape
  <2>6. TxShape' /\ E1000TxInOrder'
    BY <1>0, <1>1, <2>1, <2>5 DEF TxShape, E1000TxInOrder
  <2> QED BY <1>2, <2>2, <2>6 DEF E1000Inv
<1>7. CASE CardSends
  <2>1. /\ active = "up" /\ tdh # tdt
        /\ sent' = Append(sent, tx_descriptors[tdh].frame)
        /\ tx_descriptors' = [tx_descriptors EXCEPT ![tdh].done = TRUE]
        /\ tdh' = Succ(tdh)
        /\ UNCHANGED <<tx_cur, tdt, sending, accepted>>
    BY <1>7 DEF CardSends
  <2>2. E1000TypeOK'
    BY <1>0, <1>1, <1>3, <2>1 DEF E1000TypeOK, rxVars
  <2>3. /\ sending = "wait_sent" /\ Succ(tdh) = tdt /\ accepted > 0 /\ Len(sent) = accepted - 1
        /\ tx_descriptors[tdh] = [done |-> FALSE, frame |-> accepted]
    BY <1>0, <2>1 DEF TxShape, E1000TypeOK
  <2>4. /\ tx_descriptors[tdh].frame = Len(sent) + 1 /\ Len(sent) + 1 \in 1..MaxFrames
        /\ sent = UpTo(Len(sent))
    BY <1>0, <2>3 DEF E1000TxInOrder
  <2>5. sent' \in Seq(1..MaxFrames) /\ Len(sent') = Len(sent) + 1 /\ sent' = UpTo(Len(sent'))
    BY <1>0, <2>1, <2>4, OneMore
  <2>6. TxShape' /\ E1000TxInOrder'
    BY <1>0, <1>1, <2>1, <2>3, <2>5 DEF TxShape, E1000TxInOrder
  <2> QED BY <1>2, <2>2, <2>6 DEF E1000Inv
<1> QED BY <1>4, <1>5, <1>6, <1>7

(* Every step of the e1000 driver and of the card keeps the invariant.     *)
LEMMA E1000InvNext == E1000Inv /\ E1000Next => E1000Inv'
BY E1000InitKeeps, CardReceivesKeeps, ReceiveKeeps, SendKeeps DEF E1000Next

----------------------------------------------------------------------------
(* The wifi card.                                                          *)

(* The next descriptor: within the page, the number plus one.              *)
LEMMA FollowIs ==
  ASSUME NEW i \in Ring
  PROVE  Follow(i) \in Ring /\ (i < PageDescs => Follow(i) = i + 1)
<1>1. /\ RING_SIZE \in Nat \ {0} /\ i \in 0..RING_SIZE - 1 /\ 1 \in 0..RING_SIZE
      /\ RING_SIZE = 2 * PageDescs /\ PageDescs \in Nat \ {0}
  BY WifiAssumption DEF Ring, RING_SIZE
<1>2. Follow(i) = Ahead(RING_SIZE, i, 1) /\ Follow(i) \in Ring
  BY <1>1, AheadWraps DEF Follow, Ring
<1>3. i < PageDescs => Ahead(RING_SIZE, i, 1) = i + 1
  BY <1>1 DEF Ahead
<1> QED BY <1>2, <1>3

(* Where the descriptors are.                                              *)
LEMMA CellFacts ==
  ASSUME NEW i \in Ring
  PROVE  /\ TxDesc(i) \in Cells /\ RxDesc(i) \in Cells /\ i \in Nat /\ PageDescs \in Nat
         /\ i < PageDescs => /\ TxDesc(i) \notin BufferCells /\ RxDesc(i) \notin BufferCells
                             /\ \A j \in Ring : j < PageDescs => TxDesc(i) # RxDesc(j)
         /\ \A j \in Ring : i # j => TxDesc(i) # TxDesc(j) /\ RxDesc(i) # RxDesc(j)
BY WifiAssumption DEF Ring, RING_SIZE, Cells, TxDesc, RxDesc, BufferCells

(* Buffers are as different as their numbers.                              *)
LEMMA BufferFacts ==
  ASSUME NEW i \in Ring
  PROVE  /\ TxBuf(i) \in Buffers /\ RxBuf(i) \in Buffers
         /\ \A j \in Ring : TxBuf(i) # RxBuf(j)
         /\ \A j \in Ring : i # j => TxBuf(i) # TxBuf(j) /\ RxBuf(i) # RxBuf(j)
BY DEF TxBuf, RxBuf, Buffers

(* A later packet goes to the end.                                         *)
LEMMA OrderedAppend ==
  ASSUME NEW s, NEW way, NEW n \in Int, NEW m \in Int, Ordered(s, way, n), n < m
  PROVE  Ordered(Append(s, <<way, m>>), way, m) /\ Len(Append(s, <<way, m>>)) = Len(s) + 1
         /\ Len(s) \in Nat
<1>1. s \in Seq({way} \X Int) /\ <<way, m>> \in {way} \X Int
  BY DEF Ordered
<1>2. PICK t : t = Append(s, <<way, m>>)
  OBVIOUS
<1>3. /\ t \in Seq({way} \X Int) /\ Len(t) = Len(s) + 1 /\ Len(s) \in Nat
      /\ \A i \in 1..Len(s) : t[i] = s[i]
      /\ t[Len(s) + 1] = <<way, m>>
  BY <1>1, <1>2, AppendProperties
<1>4. \A i \in 1..Len(s) : s[i][1] = way /\ s[i][2] <= n /\ s[i][2] \in Int
  <2>1. \A i \in 1..Len(s) : s[i] \in {way} \X Int
    BY <1>1, ElementOfSeq
  <2> QED BY <2>1 DEF Ordered, InOrder
<1>5. \A i \in 1..Len(t) : t[i][1] = way /\ t[i][2] <= m
  <2> TAKE i \in 1..Len(t)
  <2>1. i \in 1..Len(s) \/ i = Len(s) + 1
    BY <1>3
  <2>2. CASE i \in 1..Len(s)
    BY <1>3, <1>4, <2>2
  <2>3. CASE i = Len(s) + 1
    BY <1>3, <2>3
  <2> QED BY <2>1, <2>2, <2>3
<1>6. \A i, j \in 1..Len(t) : i < j => t[i][2] < t[j][2]
  <2> SUFFICES ASSUME NEW i \in 1..Len(t), NEW j \in 1..Len(t), i < j PROVE t[i][2] < t[j][2]
    OBVIOUS
  <2>0. Len(t) = Len(s) + 1 /\ Len(s) \in Nat
    BY <1>3
  <2>1. i \in 1..Len(s) /\ (j \in 1..Len(s) \/ j = Len(s) + 1)
    BY <2>0
  <2>2. CASE j \in 1..Len(s)
    BY <1>3, <2>1, <2>2 DEF Ordered, InOrder
  <2>3. CASE j = Len(s) + 1
    <3>1. t[j][2] = m
      BY <1>3, <2>3
    <3> QED BY <1>3, <1>4, <2>1, <3>1
  <2> QED BY <2>1, <2>2, <2>3
<1>7. Ordered(t, way, m)
  BY <1>3, <1>5, <1>6 DEF Ordered, InOrder
<1> QED BY <1>2, <1>3, <1>7

(* A larger bound holds as well.                                           *)
LEMMA OrderedMore ==
  ASSUME NEW s, NEW way, NEW n \in Int, NEW m \in Int, Ordered(s, way, n), n <= m
  PROVE  Ordered(s, way, m)
<1>1. \A i \in 1..Len(s) : s[i][2] \in Int
  <2>1. \A i \in 1..Len(s) : s[i] \in {way} \X Int
    BY ElementOfSeq DEF Ordered
  <2> QED BY <2>1
<1> QED BY <1>1 DEF Ordered

(* What has gone wrong stays noted.                                        *)
LEMMA WifiTroubleStays == WifiNext /\ wifiTrouble' = {} => wifiTrouble = {}
<1> SUFFICES ASSUME WifiNext PROVE wifiTrouble \subseteq wifiTrouble'
  OBVIOUS
<1> QED BY DEF WifiNext, wifi_probe, wifi_load_firmware, wifi_start_stop, CardTx, CardRx, CardRxWild,
  CardError, wifi_transmit_packet, wifi_receive_packet, wifi_handle_interrupt, ReapTx, ReapedTx,
  HandleRx, HandledRx, ResetRings, Ack, WifiNote, Uses

(* They imply the type invariant.                                          *)
LEMMA WifiTypesOK == WifiTypes => WifiTypeOK
<1> SUFFICES ASSUME WifiTypes PROVE WifiTypeOK
  OBVIOUS
<1>1. {probed, enabled} \subseteq BOOLEAN
  BY Zenon DEF WifiTypes
<1>2. /\ wifiFree \in 0..WifiPages /\ errors \in 0..MaxErrors
      /\ desc \in [Cells -> [own : BOOLEAN, buf : Buffers \cup {Data}]]
      /\ buffer \in [Buffers -> Packets]
      /\ wifiTrouble \subseteq {"overlap", "adrift", "dangling", "wild"}
  BY DEF WifiTypes, DescTypes
<1>3. {tx_head, tx_tail, rx_head, card.tx, card.rx, card.tail} \subseteq Ring
  BY DEF WifiTypes, Cards
<1>4. card.status \cup isr.seen \subseteq {"TX_DONE", "RX_DONE", "ERR"}
  BY DEF WifiTypes, Cards, Handlers, Causes
<1>5. {queued, came} \subseteq 0..MaxPackets /\ {reaped, lost} \subseteq Nat
  BY WifiAssumption DEF WifiTypes
<1> QED BY <1>1, <1>2, <1>3, <1>4, <1>5 DEF WifiTypeOK

(* A card nobody has set up satisfies the invariant.                       *)
LEMMA WifiInvInit == WifiInit => WifiTypes /\ WifiShape
<1> SUFFICES ASSUME WifiInit PROVE WifiTypes /\ WifiShape
  OBVIOUS
<1> USE WifiAssumption
<1>0. 0 \in Ring /\ RING_SIZE = 2 * PageDescs /\ Ring = 0..2 * PageDescs - 1
  BY DEF Ring, RING_SIZE
<1>1. desc \in [Cells -> DescTypes] /\ buffer \in [Buffers -> Packets]
  BY DEF WifiInit, Fresh, Empty, DescTypes, Packets, Buffers, TxBuf, RxBuf, Cells, Ring, RING_SIZE
<1>2. card \in Cards /\ isr \in Handlers
  BY <1>0 DEF WifiInit, Still, Idle, Cards, Handlers
<1>3. wifiFree \in 0..WifiPages
  BY <1>0 DEF WifiInit, RingPages
<1>4. WifiTypes
  <2>1. probed \in BOOLEAN /\ enabled \in BOOLEAN
    BY DEF WifiInit
  <2>2. /\ errors \in 0..MaxErrors /\ tx_head \in Ring /\ tx_tail \in Ring /\ rx_head \in Ring
        /\ queued \in Nat /\ came \in Nat /\ queued + came <= MaxPackets
        /\ reaped \in Nat /\ lost \in Nat /\ wifiTrouble = {}
    BY <1>0 DEF WifiInit
  <2> QED BY <1>1, <1>2, <1>3, <2>1, <2>2 DEF WifiTypes
<1>5. \A i \in Ring : i < PageDescs =>
        /\ desc[RxDesc(i)].buf = RxBuf(i) /\ desc[RxDesc(i)].own /\ desc[TxDesc(i)].buf = TxBuf(i)
  BY <1>0 DEF WifiInit, Fresh, RxDesc, TxDesc, Cells
<1>6. Ordered(<<>>, "in", 0) /\ Ordered(<<>>, "out", 0)
  BY EmptySeq DEF Ordered, InOrder
<1>7. tx_head = 0 /\ tx_tail = 0 /\ rx_head = 0 /\ card.tx = 0 /\ card.rx = 0 /\ card.tail = 0
      /\ queued = 0 /\ onAir = <<>> /\ reaped = 0 /\ lost = 0 /\ came = 0 /\ got = <<>>
  BY DEF WifiInit, Still
<1>8. WifiRxShape
  BY <1>0, <1>5, <1>6, <1>7 DEF WifiRxShape
<1>9. WifiTxShape
  BY <1>0, <1>5, <1>6, <1>7 DEF WifiTxShape
<1> QED BY <1>4, <1>8, <1>9 DEF WifiShape

(* A step of another driver leaves the wifi invariant alone.               *)
LEMMA WifiStutter == WifiInv /\ UNCHANGED wifiVars => WifiInv'
<1> SUFFICES ASSUME WifiInv, UNCHANGED wifiVars PROVE WifiInv'
  OBVIOUS
<1> USE DEF wifiVars, flagVars, positions, traffic
<1>1. WifiTypes'
  BY DEF WifiInv, WifiTypes
<1>2. WifiRxShape' = WifiRxShape /\ WifiTxShape' = WifiTxShape
  BY DEF WifiRxShape, WifiTxShape, Ordered, InOrder
<1> QED BY <1>1, <1>2 DEF WifiInv, WifiShape

(* Steps that leave a ring alone.                                          *)
LEMMA RxSame ==
  ASSUME WifiRxShape, UNCHANGED <<rx_head, came, got>>, card'.rx = card.rx,
         \A i \in Ring : i < PageDescs => desc'[RxDesc(i)] = desc[RxDesc(i)]
                                          /\ buffer'[RxBuf(i)] = buffer[RxBuf(i)]
  PROVE  WifiRxShape'
BY DEF WifiRxShape, Ordered, InOrder

LEMMA TxSame ==
  ASSUME WifiTxShape, UNCHANGED <<tx_head, tx_tail, queued, onAir, reaped, lost>>,
         card'.tx = card.tx, card'.tail = card.tail,
         \A i \in Ring : i < PageDescs => desc'[TxDesc(i)] = desc[TxDesc(i)]
                                          /\ buffer'[TxBuf(i)] = buffer[TxBuf(i)]
  PROVE  WifiTxShape'
BY DEF WifiTxShape, Ordered, InOrder

(* A descriptor that was used without a note is in its page.               *)
LEMMA UsedInPage ==
  ASSUME NEW i \in Nat, Uses(i), wifiTrouble' = {}
  PROVE  i < PageDescs
<1> SUFFICES ASSUME i >= PageDescs PROVE FALSE
  BY WifiAssumption
<1>1. wifiTrouble' = wifiTrouble \cup {"overlap"}
  BY DEF Uses, WifiNote
<1> QED BY <1>1

(* The numbers the shapes talk about.                                      *)
LEMMA WifiNumbers ==
  ASSUME WifiTypes
  PROVE  /\ tx_head \in Nat /\ tx_tail \in Nat /\ rx_head \in Nat /\ card.tx \in Nat
         /\ card.rx \in Nat /\ queued \in Nat /\ came \in Nat /\ reaped \in Nat /\ lost \in Nat
         /\ PageDescs \in Nat
BY WifiAssumption DEF WifiTypes, Cards, Ring, RING_SIZE

(* The card sends the oldest packet it has.                                *)
LEMMA CardTxKeeps ==
  ASSUME WifiTypes, WifiRxShape, WifiTxShape, CardTx, wifiTrouble' = {}
  PROVE  WifiRxShape' /\ WifiTxShape'
<1> DEFINE i == card.tx
           x == TxDesc(i)
<1>0. /\ tx_head \in Int /\ tx_tail \in Int /\ card.tx \in Int /\ queued \in Int /\ reaped \in Int
      /\ lost \in Int
  BY WifiNumbers
<1>1. /\ i # card.tail /\ i \in Ring /\ i \in Nat
      /\ desc' = [desc EXCEPT ![x].own = FALSE]
      /\ onAir' = Append(onAir, buffer[desc[x].buf])
      /\ card' = [card EXCEPT !.tx = Follow(i), !.status = card.status \cup {"TX_DONE"}]
      /\ UNCHANGED <<buffer, tx_head, tx_tail, rx_head, queued, reaped, lost, came, got>>
  BY CellFacts DEF CardTx, WifiTypes, Cards, positions
<1>2. i < PageDescs
  BY <1>1, UsedInPage DEF CardTx
<1>3. Follow(i) = i + 1 /\ Follow(i) \in Ring /\ x \in Cells
  BY <1>1, <1>2, FollowIs, CellFacts
<1>4. card'.tx = i + 1 /\ card'.rx = card.rx /\ card'.tail = card.tail
  BY <1>1, <1>3 DEF WifiTypes, Cards
<1>5. /\ desc \in [Cells -> DescTypes]
      /\ \A y \in Cells : y # x => desc'[y] = desc[y]
      /\ \A y \in Cells : desc'[y].buf = desc[y].buf
  BY <1>1, <1>3 DEF WifiTypes, DescTypes
<1>6. WifiRxShape'
  <2>1. \A j \in Ring : j < PageDescs => RxDesc(j) \in Cells /\ RxDesc(j) # x
    BY <1>1, <1>2, CellFacts
  <2>2. \A j \in Ring : j < PageDescs => desc'[RxDesc(j)] = desc[RxDesc(j)]
    BY <1>5, <2>1
  <2> QED BY <1>1, <1>4, <2>2, RxSame
<1>7. buffer[desc[x].buf] = <<"out", queued - (tx_tail - i) + 1>> /\ i < tx_tail /\ tx_tail \in Int
      /\ tx_head <= i /\ tx_head \in Int
  <2>1. tx_tail \in Int /\ tx_head \in Int
    BY WifiAssumption DEF WifiTypes, Ring
  <2>2. i < tx_tail /\ tx_head <= i
    BY <1>1, <2>1 DEF WifiTxShape
  <2>3. desc[x].buf = TxBuf(i) /\ buffer[TxBuf(i)] = <<"out", queued - (tx_tail - i) + 1>>
    BY <1>1, <1>2, <2>2 DEF WifiTxShape
  <2> QED BY <2>1, <2>2, <2>3
<1>8. /\ Ordered(onAir', "out", queued - (tx_tail - i) + 1)
      /\ Len(onAir') = Len(onAir) + 1 /\ Len(onAir) \in Nat
  <2> DEFINE m == queued - (tx_tail - i)
  <2>1. m \in Int /\ m + 1 \in Int /\ m < m + 1 /\ Ordered(onAir, "out", m)
    <3>1. m \in Int
      BY <1>0
    <3>2. Ordered(onAir, "out", m)
      BY DEF WifiTxShape
    <3> QED BY <3>1, <3>2
  <2>2. onAir' = Append(onAir, <<"out", m + 1>>)
    BY <1>1, <1>7
  <2> HIDE DEF m
  <2>3. Ordered(onAir', "out", m + 1) /\ Len(onAir') = Len(onAir) + 1 /\ Len(onAir) \in Nat
    BY <2>1, <2>2, OrderedAppend
  <2> QED BY <2>3 DEF m
<1>9. WifiTxShape'
  <2>1. tx_head' <= card'.tx /\ card'.tx <= tx_tail' /\ tx_tail' <= PageDescs /\ card'.tail = tx_tail'
    BY <1>1, <1>4, <1>7 DEF WifiTxShape
  <2>2. \A j \in Ring : j < PageDescs =>
          /\ desc'[TxDesc(j)].buf = TxBuf(j)
          /\ card'.tx <= j /\ j < tx_tail' => desc'[TxDesc(j)].own
    <3> SUFFICES ASSUME NEW j \in Ring, j < PageDescs
                 PROVE  /\ desc'[TxDesc(j)].buf = TxBuf(j)
                        /\ card'.tx <= j /\ j < tx_tail' => desc'[TxDesc(j)].own
      OBVIOUS
    <3>1. TxDesc(j) \in Cells /\ (j # i => TxDesc(j) # x) /\ j \in Nat
      BY <1>1, CellFacts
    <3>2. i + 1 <= j => i <= j /\ j # i
      BY <1>1, <3>1
    <3> QED BY <1>1, <1>4, <1>5, <3>1, <3>2 DEF WifiTxShape
  <2>3. \A j \in Ring : j < PageDescs =>
          (tx_head' <= j /\ j < tx_tail' => buffer'[TxBuf(j)] = <<"out", queued' - (tx_tail' - j) + 1>>)
    BY <1>1 DEF WifiTxShape
  <2>4. Ordered(onAir', "out", queued' - (tx_tail' - card'.tx))
    <3>1. queued - (tx_tail - i) + 1 = queued' - (tx_tail' - card'.tx)
      BY <1>1, <1>4, <1>7 DEF WifiTypes
    <3> QED BY <1>8, <3>1
  <2>5. reaped' + (card'.tx - tx_head') <= Len(onAir') /\ tx_tail' - tx_head' = queued' - reaped' - lost'
    <3>1. reaped + (i - tx_head) <= Len(onAir) /\ tx_tail - tx_head = queued - reaped - lost
      BY DEF WifiTxShape
    <3>2. reaped + ((i + 1) - tx_head) <= Len(onAir) + 1
      BY <1>0, <1>8, <3>1
    <3> QED BY <1>1, <1>4, <1>8, <3>1, <3>2
  <2>6. Ordered(onAir, "out", queued - (tx_tail - card.tx))'
    BY <2>4
  <2> QED BY <2>1, <2>2, <2>3, <2>5, <2>6 DEF WifiTxShape
<1> QED BY <1>6, <1>9

(* The card stores a packet in the first descriptor it has.                *)
LEMMA CardRxKeeps ==
  ASSUME WifiTypes, WifiRxShape, WifiTxShape, CardRx, wifiTrouble' = {}
  PROVE  WifiRxShape' /\ WifiTxShape'
<1> DEFINE i == card.rx
           x == RxDesc(i)
<1>1. /\ i \in Ring /\ came' = came + 1
      /\ desc' = [desc EXCEPT ![x].own = FALSE]
      /\ buffer' = [Spoilt(x) EXCEPT ![desc[x].buf] = <<"in", came + 1>>]
      /\ card' = [card EXCEPT !.rx = Follow(i), !.status = card.status \cup {"RX_DONE"}]
      /\ UNCHANGED <<tx_head, tx_tail, rx_head, queued, onAir, reaped, lost, got>>
  BY DEF CardRx, WifiTypes, Cards, positions
<1>2. i < PageDescs /\ i \in Nat
  BY <1>1, UsedInPage, WifiNumbers DEF CardRx
<1>3. Follow(i) = i + 1 /\ x \in Cells /\ x \notin BufferCells
  BY <1>1, <1>2, FollowIs, CellFacts
<1>4. card'.rx = i + 1 /\ card'.tx = card.tx /\ card'.tail = card.tail
  BY <1>1, <1>3 DEF WifiTypes, Cards
<1>5. /\ desc \in [Cells -> DescTypes] /\ ~desc'[x].own
      /\ \A y \in Cells : y # x => desc'[y] = desc[y]
      /\ \A y \in Cells : desc'[y].buf = desc[y].buf
  BY <1>1, <1>3 DEF WifiTypes, DescTypes
<1>6. /\ buffer' = [buffer EXCEPT ![RxBuf(i)] = <<"in", came + 1>>]
      /\ buffer \in [Buffers -> Packets] /\ RxBuf(i) \in Buffers
  BY <1>1, <1>2, <1>3, BufferFacts DEF Spoilt, WifiRxShape, WifiTypes
<1>7. WifiTxShape'
  <2>1. ASSUME NEW j \in Ring, j < PageDescs
        PROVE  desc'[TxDesc(j)] = desc[TxDesc(j)] /\ buffer'[TxBuf(j)] = buffer[TxBuf(j)]
    <3>1. TxDesc(j) \in Cells /\ TxDesc(j) # x /\ TxBuf(j) \in Buffers /\ TxBuf(j) # RxBuf(i)
      BY <1>1, <1>2, <2>1, CellFacts, BufferFacts
    <3> QED BY <1>5, <1>6, <3>1
  <2> QED BY <1>1, <1>4, <2>1, TxSame
<1>8. WifiRxShape'
  <2>1. rx_head' <= card'.rx /\ card'.rx <= PageDescs
    BY <1>1, <1>2, <1>4, WifiNumbers DEF WifiRxShape
  <2>2. ASSUME NEW j \in Ring, j < PageDescs
        PROVE  /\ desc'[RxDesc(j)].buf = RxBuf(j)
               /\ j >= card'.rx => desc'[RxDesc(j)].own
               /\ rx_head' <= j /\ j < card'.rx =>
                    ~desc'[RxDesc(j)].own /\ buffer'[RxBuf(j)] = <<"in", came' - (card'.rx - j) + 1>>
    <3>1. RxDesc(j) \in Cells /\ RxBuf(j) \in Buffers /\ j \in Nat
          /\ (j # i => RxDesc(j) # x /\ RxBuf(j) # RxBuf(i))
      BY <1>1, CellFacts, BufferFacts
    <3>2. desc'[RxDesc(j)].buf = RxBuf(j)
      BY <1>5, <2>2, <3>1 DEF WifiRxShape
    <3>3. CASE j = i
      <4>1. came' - (card'.rx - j) + 1 = came + 1 /\ ~(j >= card'.rx)
        BY <1>1, <1>2, <1>4, <3>3, WifiNumbers
      <4>2. buffer'[RxBuf(j)] = <<"in", came + 1>> /\ ~desc'[RxDesc(j)].own
        BY <1>5, <1>6, <3>3
      <4> QED BY <3>2, <4>1, <4>2
    <3>4. CASE j # i
      <4>1. /\ came' - (card'.rx - j) + 1 = came - (i - j) + 1
            /\ j >= card'.rx => j >= i
            /\ j < card'.rx => j < i
        BY <1>1, <1>2, <1>4, <3>1, <3>4, WifiNumbers
      <4>2. buffer'[RxBuf(j)] = buffer[RxBuf(j)] /\ desc'[RxDesc(j)] = desc[RxDesc(j)]
        BY <1>5, <1>6, <3>1, <3>4
      <4> QED BY <1>1, <2>2, <3>2, <4>1, <4>2 DEF WifiRxShape
    <3> QED BY <3>3, <3>4
  <2>3. Ordered(got, "in", came - (card.rx - rx_head))'
    <3>1. came' - (card'.rx - rx_head') = came - (i - rx_head)
      BY <1>1, <1>4, WifiNumbers
    <3>2. Ordered(got, "in", came - (i - rx_head))
      BY DEF WifiRxShape
    <3> QED BY <1>1, <3>1, <3>2
  <2> QED BY <2>1, <2>2, <2>3 DEF WifiRxShape
<1> QED BY <1>7, <1>8

(* A packet is put into the first free descriptor; what it spoils of the   *)
(* receive ring is outside its page.                                       *)
LEMMA TransmitKeeps ==
  ASSUME WifiTypes, WifiRxShape, WifiTxShape, wifi_transmit_packet, wifiTrouble' = {}
  PROVE  WifiRxShape' /\ WifiTxShape'
<1> DEFINE i == tx_tail
           x == TxDesc(i)
<1>0. /\ tx_head \in Int /\ tx_tail \in Int /\ card.tx \in Int /\ queued \in Int /\ reaped \in Int
      /\ lost \in Int
  BY WifiNumbers
<1>1. /\ i \in Ring /\ tx_tail' = Follow(i) /\ queued' = queued + 1
      /\ buffer' = [buffer EXCEPT ![TxBuf(i)] = <<"out", queued + 1>>]
      /\ card' = [card EXCEPT !.tail = Follow(i)]
      /\ UNCHANGED <<tx_head, rx_head, onAir, reaped, lost, came, got>>
  BY DEF wifi_transmit_packet, WifiTypes
<1>2. i < PageDescs /\ i \in Nat
  BY <1>1, UsedInPage, WifiNumbers DEF wifi_transmit_packet
<1>3. Follow(i) = i + 1 /\ x \in Cells /\ x \notin BufferCells /\ Follow(i) \in Ring
  BY <1>1, <1>2, FollowIs, CellFacts
<1>4. card'.rx = card.rx /\ card'.tx = card.tx /\ card'.tail = i + 1
  BY <1>1, <1>3 DEF WifiTypes, Cards
<1>5. PICK over \in CopiedOver :
        desc' = [y \in Cells |-> IF y = x THEN [desc[y] EXCEPT !.own = TRUE]
                                 ELSE IF y \in DOMAIN over THEN over[y] ELSE desc[y]]
  BY DEF wifi_transmit_packet
<1>6. DOMAIN over \subseteq BufferCells
  BY WifiAssumption DEF CopiedOver, BufferCells
<1>7. /\ \A y \in Cells \ BufferCells : y # x => desc'[y] = desc[y]
      /\ desc'[x].own /\ desc'[x].buf = desc[x].buf
  <2>1. desc[x] \in DescTypes
    BY <1>3 DEF WifiTypes
  <2>2. desc'[x] = [desc[x] EXCEPT !.own = TRUE]
    BY <1>3, <1>5
  <2> QED BY <1>3, <1>5, <1>6, <2>1, <2>2 DEF DescTypes
<1>8. buffer \in [Buffers -> Packets] /\ TxBuf(i) \in Buffers
  BY <1>1, BufferFacts DEF WifiTypes
<1>9. WifiRxShape'
  <2>1. ASSUME NEW j \in Ring, j < PageDescs
        PROVE  desc'[RxDesc(j)] = desc[RxDesc(j)] /\ buffer'[RxBuf(j)] = buffer[RxBuf(j)]
    <3>1. /\ RxDesc(j) \in Cells \ BufferCells /\ RxDesc(j) # x
          /\ RxBuf(j) \in Buffers /\ RxBuf(j) # TxBuf(i)
      BY <1>1, <1>2, <2>1, CellFacts, BufferFacts
    <3> QED BY <1>1, <1>7, <1>8, <3>1
  <2> QED BY <1>1, <1>4, <2>1, RxSame
<1>10. WifiTxShape'
  <2>1. tx_head' <= card'.tx /\ card'.tx <= tx_tail' /\ tx_tail' <= PageDescs /\ card'.tail = tx_tail'
    BY <1>1, <1>2, <1>3, <1>4, WifiNumbers DEF WifiTxShape
  <2>2. ASSUME NEW j \in Ring, j < PageDescs
        PROVE  /\ desc'[TxDesc(j)].buf = TxBuf(j)
               /\ card'.tx <= j /\ j < tx_tail' => desc'[TxDesc(j)].own
               /\ tx_head' <= j /\ j < tx_tail' =>
                    buffer'[TxBuf(j)] = <<"out", queued' - (tx_tail' - j) + 1>>
    <3>1. TxDesc(j) \in Cells \ BufferCells /\ TxBuf(j) \in Buffers /\ j \in Nat
          /\ (j # i => TxDesc(j) # x /\ TxBuf(j) # TxBuf(i))
      BY <1>1, <2>2, CellFacts, BufferFacts
    <3>2. CASE j = i
      <4>1. queued' - (tx_tail' - j) + 1 = queued + 1
        BY <1>1, <1>2, <1>3, <3>2, WifiNumbers
      <4>2. buffer'[TxBuf(j)] = <<"out", queued + 1>>
        BY <1>1, <1>8, <3>2
      <4>3. desc[TxDesc(j)].buf = TxBuf(j)
        BY <2>2 DEF WifiTxShape
      <4> QED BY <1>7, <3>2, <4>1, <4>2, <4>3
    <3>3. CASE j # i
      <4>1. /\ queued' - (tx_tail' - j) + 1 = queued - (i - j) + 1
            /\ j < tx_tail' => j < i
        BY <1>1, <1>2, <1>3, <3>1, <3>3, WifiNumbers
      <4>2. buffer'[TxBuf(j)] = buffer[TxBuf(j)] /\ desc'[TxDesc(j)] = desc[TxDesc(j)]
        BY <1>1, <1>7, <1>8, <3>1, <3>3
      <4> QED BY <1>1, <1>4, <2>2, <4>1, <4>2 DEF WifiTxShape
    <3> QED BY <3>2, <3>3
  <2>3. Ordered(onAir, "out", queued - (tx_tail - card.tx))'
    <3>1. queued' - (tx_tail' - card'.tx) = queued - (i - card.tx)
      BY <1>1, <1>3, <1>4, WifiNumbers
    <3>2. Ordered(onAir, "out", queued - (i - card.tx))
      BY DEF WifiTxShape
    <3> QED BY <1>1, <3>1, <3>2
  <2>4. reaped' + (card'.tx - tx_head') <= Len(onAir') /\ tx_tail' - tx_head' = queued' - reaped' - lost'
    <3>1. reaped + (card.tx - tx_head) <= Len(onAir) /\ i - tx_head = queued - reaped - lost
      BY DEF WifiTxShape
    <3>2. (i + 1) - tx_head = (queued + 1) - reaped - lost
      BY <1>0, <3>1
    <3> QED BY <1>1, <1>3, <1>4, <3>1, <3>2
  <2> QED BY <2>1, <2>2, <2>3, <2>4 DEF WifiTxShape
<1> QED BY <1>9, <1>10

(* The oldest waiting packet is taken, or passed over, and its descriptor  *)
(* given back.                                                             *)
LEMMA TakenKeeps ==
  ASSUME WifiTypes, WifiRxShape, WifiTxShape, ~desc[RxDesc(rx_head)].own,
         got' = Append(got, buffer[RxBuf(rx_head)]) \/ got' = got,
         desc' = GivenBack(RxDesc(rx_head)), buffer' = Spoilt(RxDesc(rx_head)),
         rx_head' = Follow(rx_head), rx_head < PageDescs,
         UNCHANGED <<tx_head, tx_tail, card, queued, onAir, reaped, lost, came>>
  PROVE  WifiRxShape' /\ WifiTxShape'
<1> DEFINE i == rx_head
           x == RxDesc(i)
<1>0. rx_head \in Int /\ card.rx \in Int /\ came \in Int
  BY WifiNumbers
<1>1. i \in Ring /\ i \in Nat
  BY WifiNumbers DEF WifiTypes
<1>2. Follow(i) = i + 1 /\ x \in Cells /\ x \notin BufferCells
  BY <1>1, FollowIs, CellFacts
<1>3. /\ desc \in [Cells -> DescTypes]
      /\ \A y \in Cells : y # x => desc'[y] = desc[y]
      /\ \A y \in Cells : desc'[y].buf = desc[y].buf
      /\ buffer' = buffer
  BY <1>2 DEF GivenBack, Spoilt, WifiTypes, DescTypes
<1>4. WifiTxShape'
  <2>1. \A j \in Ring : j < PageDescs => TxDesc(j) \in Cells /\ TxDesc(j) # x
    BY <1>1, CellFacts
  <2>2. \A j \in Ring : j < PageDescs => desc'[TxDesc(j)] = desc[TxDesc(j)]
    BY <1>3, <2>1
  <2> QED BY <1>3, <2>2, TxSame
<1>5. i < card.rx
  BY <1>0, <1>1 DEF WifiRxShape
<1>6. WifiRxShape'
  <2>1. rx_head' <= card'.rx /\ card'.rx <= PageDescs
    BY <1>0, <1>2, <1>5 DEF WifiRxShape
  <2>2. ASSUME NEW j \in Ring, j < PageDescs
        PROVE  /\ desc'[RxDesc(j)].buf = RxBuf(j)
               /\ j >= card'.rx => desc'[RxDesc(j)].own
               /\ rx_head' <= j /\ j < card'.rx =>
                    ~desc'[RxDesc(j)].own /\ buffer'[RxBuf(j)] = <<"in", came' - (card'.rx - j) + 1>>
    <3>1. RxDesc(j) \in Cells /\ j \in Nat /\ (j # i => RxDesc(j) # x)
      BY <1>1, CellFacts
    <3>2. (j >= card.rx => j # i) /\ (rx_head' <= j => j # i /\ rx_head <= j)
      BY <1>0, <1>2, <1>5, <3>1
    <3> QED BY <1>3, <2>2, <3>1, <3>2 DEF WifiRxShape
  <2>3. Ordered(got, "in", came - (card.rx - rx_head))'
    <3> DEFINE m == came - (card.rx - i)
    <3>1. m \in Int /\ m + 1 \in Int /\ m < m + 1 /\ m <= m + 1
      BY <1>0
    <3>2. Ordered(got, "in", m)
      BY DEF WifiRxShape
    <3>3. buffer[RxBuf(i)] = <<"in", m + 1>>
      BY <1>0, <1>1, <1>5 DEF WifiRxShape
    <3>4. m + 1 = came' - (card'.rx - rx_head')
      BY <1>0, <1>2
    <3> HIDE DEF m
    <3>5. Ordered(got', "in", m + 1)
      <4>1. CASE got' = got
        BY <3>1, <3>2, <4>1, OrderedMore
      <4>2. CASE got' = Append(got, buffer[RxBuf(i)])
        <5>1. got' = Append(got, <<"in", m + 1>>)
          BY <3>3, <4>2
        <5> QED BY <3>1, <3>2, <5>1, OrderedAppend
      <4> QED BY <4>1, <4>2
    <3> QED BY <3>4, <3>5
  <2> QED BY <2>1, <2>2, <2>3 DEF WifiRxShape
<1> QED BY <1>4, <1>6

(* Only what has been sent is counted as done.                             *)
LEMMA ReapKeeps ==
  ASSUME WifiTypes, WifiRxShape, WifiTxShape, ReapTx, wifiTrouble' = {}
  PROVE  WifiRxShape' /\ WifiTxShape'
<1> DEFINE i == tx_head
<1>0. /\ tx_head \in Int /\ tx_tail \in Int /\ card.tx \in Int /\ queued \in Int /\ reaped \in Int
      /\ lost \in Int
  BY WifiNumbers
<1>1. /\ i \in Ring /\ i \in Nat /\ tx_head' = Follow(i) /\ reaped' = reaped + 1
      /\ i # tx_tail /\ ~desc[TxDesc(i)].own
      /\ UNCHANGED <<desc, buffer, tx_tail, rx_head, card, queued, onAir, lost, came, got>>
  BY WifiNumbers DEF ReapTx, Reapable, WifiTypes
<1>2. i < PageDescs
  BY <1>1, UsedInPage DEF ReapTx
<1>3. Follow(i) = i + 1
  BY <1>1, <1>2, FollowIs
<1>4. WifiRxShape'
  BY <1>1, RxSame
<1>5. i < card.tx
  <2>1. tx_head <= card.tx /\ card.tx <= tx_tail
    BY DEF WifiTxShape
  <2>2. ~(card.tx <= i /\ i < tx_tail)
    BY <1>1, <1>2 DEF WifiTxShape
  <2> QED BY <1>0, <1>1, <2>1, <2>2
<1>6. tx_head' <= card'.tx /\ card'.tx <= tx_tail' /\ tx_tail' <= PageDescs /\ card'.tail = tx_tail'
  BY <1>0, <1>1, <1>3, <1>5 DEF WifiTxShape
<1>7. ASSUME NEW j \in Ring, j < PageDescs
      PROVE  /\ desc'[TxDesc(j)].buf = TxBuf(j)
             /\ card'.tx <= j /\ j < tx_tail' => desc'[TxDesc(j)].own
             /\ tx_head' <= j /\ j < tx_tail' =>
                  buffer'[TxBuf(j)] = <<"out", queued' - (tx_tail' - j) + 1>>
  <2>1. i + 1 <= j => i <= j
    BY <1>0 DEF Ring
  <2> QED BY <1>1, <1>3, <1>7, <2>1 DEF WifiTxShape
<1>8. Ordered(onAir, "out", queued - (tx_tail - card.tx))'
  BY <1>1 DEF WifiTxShape
<1>9. reaped' + (card'.tx - tx_head') <= Len(onAir') /\ tx_tail' - tx_head' = queued' - reaped' - lost'
  <2>1. reaped + (card.tx - i) <= Len(onAir) /\ tx_tail - i = queued - reaped - lost
    BY DEF WifiTxShape
  <2>2. /\ (reaped + 1) + (card.tx - (i + 1)) = reaped + (card.tx - i)
        /\ tx_tail - (i + 1) = queued - (reaped + 1) - lost
    BY <1>0, <2>1
  <2> QED BY <1>1, <1>3, <2>1, <2>2
<1> QED BY <1>4, <1>6, <1>7, <1>8, <1>9 DEF WifiTxShape

(* A reset of the card and new rings put everything at the start.          *)
LEMMA NewRingsKeep ==
  ASSUME WifiTypes, WifiRxShape, WifiTxShape,
         desc' = Fresh, tx_head' = 0, tx_tail' = 0, rx_head' = 0, lost' = lost + InRing,
         card'.tx = 0, card'.rx = 0, card'.tail = 0,
         UNCHANGED <<queued, onAir, reaped, came, got>>
  PROVE  WifiRxShape' /\ WifiTxShape'
<1>0. /\ tx_head \in Int /\ tx_tail \in Int /\ card.tx \in Int /\ queued \in Int /\ reaped \in Int
      /\ lost \in Int /\ rx_head \in Int /\ card.rx \in Int /\ came \in Int
  BY WifiNumbers
<1>1. PageDescs \in Nat \ {0} /\ RING_SIZE = 2 * PageDescs /\ Ring = 0..2 * PageDescs - 1
  BY WifiAssumption DEF RING_SIZE, Ring
<1>2. \A i \in Ring : i < PageDescs =>
        /\ desc'[RxDesc(i)].buf = RxBuf(i) /\ desc'[RxDesc(i)].own /\ desc'[TxDesc(i)].buf = TxBuf(i)
  BY <1>1 DEF Fresh, RxDesc, TxDesc, Cells
<1>3. InRing = tx_tail - tx_head
  <2> DEFINE a == tx_tail - tx_head
             b == a + RING_SIZE
  <2>1. 0 <= a /\ a < RING_SIZE /\ a \in Int
    <3>1. tx_head <= card.tx /\ card.tx <= tx_tail /\ tx_tail <= PageDescs
      BY DEF WifiTxShape
    <3>2. tx_head >= 0
      BY WifiNumbers
    <3> QED BY <1>0, <1>1, <3>1, <3>2
  <2>2. RING_SIZE \in Nat \ {0}
    BY <1>1
  <2> HIDE DEF a
  <2>3. b \in 0..2 * RING_SIZE - 1 /\ ~(b < RING_SIZE) /\ b - RING_SIZE = a
    BY <2>1, <2>2
  <2> HIDE DEF b
  <2>4. b % RING_SIZE = a
    BY <2>2, <2>3, Wrap
  <2> QED BY <2>4 DEF InRing, a, b
<1>4. Ordered(got, "in", came) /\ Ordered(onAir, "out", queued)
  <2>1. Ordered(got, "in", came - (card.rx - rx_head)) /\ Ordered(onAir, "out", queued - (tx_tail - card.tx))
    BY DEF WifiRxShape, WifiTxShape
  <2>2. /\ came - (card.rx - rx_head) \in Int /\ came - (card.rx - rx_head) <= came
        /\ queued - (tx_tail - card.tx) \in Int /\ queued - (tx_tail - card.tx) <= queued
    <3>1. rx_head <= card.rx /\ card.tx <= tx_tail
      BY DEF WifiRxShape, WifiTxShape
    <3> QED BY <1>0, <3>1
  <2> QED BY <1>0, <2>1, <2>2, OrderedMore
<1>5. WifiRxShape'
  <2>1. Ordered(got, "in", came - (card.rx - rx_head))'
    BY <1>0, <1>4
  <2> QED BY <1>1, <1>2, <2>1 DEF WifiRxShape
<1>6. WifiTxShape'
  <2>1. Ordered(onAir, "out", queued - (tx_tail - card.tx))'
    BY <1>0, <1>4
  <2>2. reaped <= Len(onAir)
    <3>1. reaped + (card.tx - tx_head) <= Len(onAir) /\ tx_head <= card.tx /\ onAir \in Seq({"out"} \X Int)
      BY DEF WifiTxShape, Ordered
    <3>2. Len(onAir) \in Nat
      BY <3>1, LenProperties
    <3> QED BY <1>0, <3>1, <3>2
  <2>3. 0 = queued - reaped - (lost + (tx_tail - tx_head))
    BY <1>0 DEF WifiTxShape
  <2>4. reaped' + (card'.tx - tx_head') <= Len(onAir') /\ tx_tail' - tx_head' = queued' - reaped' - lost'
    BY <1>0, <1>3, <2>2, <2>3
  <2> QED BY <1>1, <1>2, <2>1, <2>4 DEF WifiTxShape
<1> QED BY <1>5, <1>6

(* Everything stays in its range, whatever has gone wrong.                 *)
LEMMA WifiTypesNext == WifiTypes /\ WifiNext => WifiTypes'
<1> SUFFICES ASSUME WifiTypes, WifiNext PROVE WifiTypes'
  OBVIOUS
<1> USE WifiAssumption
<1>0. 0 \in Ring /\ Follow(tx_head) \in Ring /\ Follow(tx_tail) \in Ring /\ Follow(rx_head) \in Ring
      /\ Follow(card.tx) \in Ring /\ Follow(card.rx) \in Ring /\ card.tx \in Ring /\ card.rx \in Ring
  BY FollowIs DEF WifiTypes, Cards, Ring, RING_SIZE
<1>1. /\ probed' \in BOOLEAN /\ enabled' \in BOOLEAN
  <2>1. wifi_probe \/ UNCHANGED probed
    BY Zenon DEF WifiNext, wifi_probe, wifi_load_firmware, wifi_start_stop, CardTx, CardRx, CardRxWild,
      CardError, wifi_transmit_packet, wifi_receive_packet, wifi_handle_interrupt, ReapTx, ReapedTx,
      HandleRx, HandledRx, ResetRings, Ack, flagVars
  <2>2. enabled' \in BOOLEAN \/ UNCHANGED enabled
    BY DEF WifiNext, wifi_probe, wifi_load_firmware, wifi_start_stop, CardTx, CardRx, CardRxWild,
      CardError, wifi_transmit_packet, wifi_receive_packet, wifi_handle_interrupt, ReapTx, ReapedTx,
      HandleRx, HandledRx, ResetRings, Ack, flagVars, reset_device
  <2>3. probed \in BOOLEAN /\ enabled \in BOOLEAN
    BY DEF WifiTypes
  <2>4. probed' \in BOOLEAN
    BY <2>1, <2>3 DEF wifi_probe
  <2> QED BY <2>2, <2>3, <2>4
<1>2. wifiFree' \in 0..WifiPages /\ errors' \in 0..MaxErrors
  <2>1. wifiFree' = wifiFree \/ (wifiFree >= RingPages /\ wifiFree' = wifiFree - RingPages)
    BY DEF WifiNext, wifi_probe, wifi_load_firmware, wifi_start_stop, CardTx, CardRx, CardRxWild,
      CardError, wifi_transmit_packet, wifi_receive_packet, wifi_handle_interrupt, ReapTx, ReapedTx,
      HandleRx, HandledRx, ResetRings, Ack
  <2>2. errors' = errors \/ (errors < MaxErrors /\ errors' = errors + 1)
    BY DEF WifiNext, wifi_probe, wifi_load_firmware, wifi_start_stop, CardTx, CardRx, CardRxWild,
      CardError, wifi_transmit_packet, wifi_receive_packet, wifi_handle_interrupt, ReapTx, ReapedTx,
      HandleRx, HandledRx, ResetRings, Ack
  <2>3. wifiFree \in 0..WifiPages /\ errors \in 0..MaxErrors
    BY DEF WifiTypes
  <2>4. RingPages \in Nat
    BY DEF RingPages, RING_SIZE
  <2> QED BY <2>1, <2>2, <2>3, <2>4
<1>3. tx_head' \in Ring /\ tx_tail' \in Ring /\ rx_head' \in Ring
  BY <1>0 DEF WifiNext, WifiTypes, wifi_probe, wifi_load_firmware, wifi_start_stop, CardTx, CardRx, CardRxWild,
    CardError, wifi_transmit_packet, wifi_receive_packet, wifi_handle_interrupt, ReapTx, ReapedTx,
    HandleRx, HandledRx, ResetRings, Ack, positions
<1>4. wifiTrouble' \subseteq {"overlap", "adrift", "dangling", "wild"}
  BY DEF WifiNext, WifiTypes, wifi_probe, wifi_load_firmware, wifi_start_stop, CardTx, CardRx, CardRxWild,
    CardError, wifi_transmit_packet, wifi_receive_packet, wifi_handle_interrupt, ReapTx, ReapedTx,
    HandleRx, HandledRx, ResetRings, Ack, WifiNote, Uses
<1>5. queued' \in Nat /\ came' \in Nat /\ queued' + came' <= MaxPackets
  <2>1. \/ UNCHANGED <<queued, came>>
        \/ queued + came < MaxPackets /\ queued' = queued + 1 /\ came' = came
        \/ queued + came < MaxPackets /\ queued' = queued /\ came' = came + 1
    BY DEF WifiNext, wifi_probe, wifi_load_firmware, wifi_start_stop, CardTx, CardRx, CardRxWild,
      CardError, wifi_transmit_packet, wifi_receive_packet, wifi_handle_interrupt, ReapTx, ReapedTx,
      HandleRx, HandledRx, ResetRings, Ack, traffic
  <2>2. queued \in Nat /\ came \in Nat /\ queued + came <= MaxPackets
    BY DEF WifiTypes
  <2> QED BY <2>1, <2>2
<1>6. reaped' \in Nat /\ lost' \in Nat
  <2>1. InRing \in Nat
    <3>1. tx_tail - tx_head + RING_SIZE \in Int /\ RING_SIZE \in Nat \ {0}
      BY DEF WifiTypes, Ring, RING_SIZE
    <3> QED BY <3>1 DEF InRing
  <2>2. (reaped' = reaped \/ reaped' = reaped + 1) /\ (lost' = lost \/ lost' = lost + InRing)
    BY DEF WifiNext, wifi_probe, wifi_load_firmware, wifi_start_stop, CardTx, CardRx, CardRxWild,
      CardError, wifi_transmit_packet, wifi_receive_packet, wifi_handle_interrupt, ReapTx, ReapedTx,
      HandleRx, HandledRx, ResetRings, Ack, traffic
  <2> QED BY <2>1, <2>2 DEF WifiTypes
<1>7. card' \in Cards
  <2>1. \/ card' = card
        \/ card' = [Still EXCEPT !.status = card.status]
        \/ card' = [card EXCEPT !.tx = Follow(card.tx), !.status = card.status \cup {"TX_DONE"}]
        \/ card' = [card EXCEPT !.rx = Follow(card.rx), !.status = card.status \cup {"RX_DONE"}]
        \/ card' = [card EXCEPT !.status = card.status \cup {"ERR"}]
        \/ card' = [card EXCEPT !.tail = Follow(tx_tail)]
        \/ card' = [card EXCEPT !.status = card.status \ isr.seen]
    BY DEF WifiNext, wifi_probe, wifi_load_firmware, wifi_start_stop, CardTx, CardRx, CardRxWild,
      CardError, wifi_transmit_packet, wifi_receive_packet, wifi_handle_interrupt, ReapTx, ReapedTx,
      HandleRx, HandledRx, ResetRings, Ack, reset_device
  <2>2. card \in Cards
    BY DEF WifiTypes
  <2>3. Still \in Cards
    BY <1>0 DEF Still, Cards
  <2> QED BY <1>0, <2>1, <2>2, <2>3 DEF Cards, Causes
<1>8. isr' \in Handlers
  <2>1. \/ isr' = isr
        \/ isr' = Idle
        \/ isr' = [at |-> "tx", seen |-> card.status]
        \/ \E at \in {"rx", "error", "ack"} : isr' = [isr EXCEPT !.at = at]
    BY DEF WifiNext, wifi_probe, wifi_load_firmware, wifi_start_stop, CardTx, CardRx, CardRxWild,
      CardError, wifi_transmit_packet, wifi_receive_packet, wifi_handle_interrupt, ReapTx, ReapedTx,
      HandleRx, HandledRx, ResetRings, Ack
  <2>2. isr \in Handlers /\ card.status \in SUBSET Causes
    BY DEF WifiTypes, Cards
  <2> QED BY <2>1, <2>2 DEF Handlers, Idle
<1>9. desc' \in [Cells -> DescTypes]
  <2>0. /\ desc \in [Cells -> DescTypes]
        /\ \A i \in Ring : TxDesc(i) \in Cells /\ RxDesc(i) \in Cells
    BY CellFacts DEF WifiTypes
  <2>1. Fresh \in [Cells -> DescTypes]
    BY DEF Fresh, DescTypes, Buffers, TxBuf, RxBuf, Cells, Ring, RING_SIZE
  <2>2. ASSUME NEW x \in Cells, NEW b \in BOOLEAN PROVE [desc EXCEPT ![x].own = b] \in [Cells -> DescTypes]
    <3>1. desc[x] \in DescTypes
      BY <2>0
    <3>2. [desc[x] EXCEPT !.own = b] \in DescTypes
      BY <3>1 DEF DescTypes
    <3> QED BY <2>0, <3>2
  <2>3. CASE wifi_transmit_packet
    <3>1. PICK over \in CopiedOver :
            desc' = [y \in Cells |-> IF y = TxDesc(tx_tail) THEN [desc[y] EXCEPT !.own = TRUE]
                                     ELSE IF y \in DOMAIN over THEN over[y] ELSE desc[y]]
      BY <2>3 DEF wifi_transmit_packet
    <3>2. \A y \in DOMAIN over : over[y] \in DescTypes
      BY DEF CopiedOver, Garbage, DescTypes
    <3>3. \A y \in Cells : desc[y] \in DescTypes /\ [desc[y] EXCEPT !.own = TRUE] \in DescTypes
      BY <2>0 DEF DescTypes
    <3> QED BY <3>1, <3>2, <3>3
  <2>4. CASE CardTx
    BY <1>0, <2>0, <2>2, <2>4 DEF CardTx
  <2>5. CASE CardRx
    BY <1>0, <2>0, <2>2, <2>5 DEF CardRx
  <2>6. CASE wifi_receive_packet \/ HandleRx
    <3>1. desc' = [desc EXCEPT ![RxDesc(rx_head)].own = TRUE] /\ RxDesc(rx_head) \in Cells
      BY <2>0, <2>6 DEF wifi_receive_packet, HandleRx, GivenBack, WifiTypes
    <3> QED BY <2>2, <3>1
  <2>7. CASE \E works \in BOOLEAN : ResetRings(works)
    BY <2>0, <2>1, <2>7 DEF ResetRings
  <2> QED BY <2>0, <2>3, <2>4, <2>5, <2>6, <2>7 DEF WifiNext, wifi_probe, wifi_load_firmware,
    wifi_start_stop, CardRxWild, CardError, wifi_handle_interrupt, ReapTx, ReapedTx, HandledRx, Ack
<1>10. buffer' \in [Buffers -> Packets]
  <2>0. buffer \in [Buffers -> Packets] /\ Empty \in [Buffers -> Packets] /\ Nothing \in Packets
    BY DEF WifiTypes, Empty, Packets
  <2>1. \A x : Spoilt(x) \in [Buffers -> Packets]
    BY <2>0 DEF Spoilt
  <2>2. CASE wifi_transmit_packet
    <3>1. <<"out", queued + 1>> \in Packets
      BY <2>2 DEF wifi_transmit_packet, Packets, WifiTypes
    <3> QED BY <2>0, <2>2, <3>1 DEF wifi_transmit_packet
  <2>3. CASE CardRx
    <3>1. <<"in", came + 1>> \in Packets
      BY <2>3 DEF CardRx, Packets, WifiTypes
    <3> QED BY <2>1, <2>3, <3>1 DEF CardRx
  <2>4. CASE wifi_receive_packet \/ HandleRx
    BY <2>1, <2>4 DEF wifi_receive_packet, HandleRx
  <2>5. CASE \E works \in BOOLEAN : ResetRings(works)
    BY <2>0, <2>5 DEF ResetRings
  <2> QED BY <2>0, <2>2, <2>3, <2>4, <2>5 DEF WifiNext, wifi_probe, wifi_load_firmware,
    wifi_start_stop, CardTx, CardRxWild, CardError, wifi_handle_interrupt, ReapTx, ReapedTx, HandledRx, Ack
<1> QED BY <1>1, <1>2, <1>3, <1>4, <1>5, <1>6, <1>7, <1>8, <1>9, <1>10 DEF WifiTypes

(* The rings keep their shape as long as nothing has gone wrong.           *)
LEMMA WifiShapeNext == WifiInv /\ WifiNext => WifiShape'
<1> SUFFICES ASSUME WifiInv, WifiNext, wifiTrouble' = {} PROVE WifiRxShape' /\ WifiTxShape'
  BY DEF WifiShape
<1>0. WifiTypes /\ WifiRxShape /\ WifiTxShape
  BY WifiTroubleStays DEF WifiInv, WifiShape
<1>1. CASE wifi_load_firmware
  <2>1. tx_head = 0 /\ tx_tail = 0 /\ rx_head = 0 /\ card.rx = 0
    BY <1>1 DEF wifi_load_firmware, WifiNote, positions
  <2>2. card.tx = 0 /\ card.tail = 0
    BY <1>0, <2>1, WifiNumbers DEF WifiTxShape
  <2>3. card'.tx = card.tx /\ card'.rx = card.rx /\ card'.tail = card.tail
    BY <1>1, <2>1, <2>2 DEF wifi_load_firmware, reset_device, Still
  <2>4. UNCHANGED <<desc, buffer, tx_head, tx_tail, rx_head, queued, onAir, reaped, lost, came, got>>
    BY <1>1 DEF wifi_load_firmware, positions, traffic
  <2> QED BY <1>0, <2>3, <2>4, RxSame, TxSame
<1>2. CASE \/ wifi_probe \/ wifi_start_stop \/ CardError \/ wifi_handle_interrupt \/ ReapedTx
           \/ HandledRx \/ Ack
  <2>1. UNCHANGED <<desc, buffer, tx_head, tx_tail, rx_head, queued, onAir, reaped, lost, came, got>>
    BY <1>2 DEF wifi_probe, wifi_start_stop, CardError, wifi_handle_interrupt, ReapedTx, HandledRx, Ack,
       positions, traffic
  <2>2. card'.tx = card.tx /\ card'.rx = card.rx /\ card'.tail = card.tail
    BY <1>0, <1>2 DEF wifi_probe, wifi_start_stop, CardError, wifi_handle_interrupt, ReapedTx, HandledRx,
       Ack, WifiTypes, Cards
  <2> QED BY <1>0, <2>1, <2>2, RxSame, TxSame
<1>3. CASE CardTx
  BY <1>0, <1>3, CardTxKeeps
<1>4. CASE CardRx
  BY <1>0, <1>4, CardRxKeeps
<1>5. CASE CardRxWild
  BY <1>5 DEF CardRxWild, WifiNote
<1>6. CASE wifi_transmit_packet
  BY <1>0, <1>6, TransmitKeeps
<1>7. CASE wifi_receive_packet \/ HandleRx
  <2>1. /\ ~desc[RxDesc(rx_head)].own
        /\ got' = Append(got, buffer[RxBuf(rx_head)]) \/ got' = got
        /\ desc' = GivenBack(RxDesc(rx_head)) /\ buffer' = Spoilt(RxDesc(rx_head))
        /\ rx_head' = Follow(rx_head) /\ Uses(rx_head)
        /\ UNCHANGED <<tx_head, tx_tail, card, queued, onAir, reaped, lost, came>>
    BY <1>7 DEF wifi_receive_packet, HandleRx
  <2>2. rx_head < PageDescs
    BY <1>0, <2>1, UsedInPage, WifiNumbers
  <2> QED BY <1>0, <2>1, <2>2, TakenKeeps
<1>8. CASE ReapTx
  BY <1>0, <1>8, ReapKeeps
<1>9. CASE \E works \in BOOLEAN : ResetRings(works)
  <2>1. PICK works \in BOOLEAN : ResetRings(works)
    BY <1>9
  <2>2. wifiFree >= RingPages
    BY <2>1 DEF ResetRings, WifiNote
  <2>3. works
    BY <2>1, <2>2 DEF ResetRings, WifiNote
  <2>4. /\ desc' = Fresh /\ tx_head' = 0 /\ tx_tail' = 0 /\ rx_head' = 0 /\ lost' = lost + InRing
        /\ UNCHANGED <<queued, onAir, reaped, came, got>>
    BY <2>1, <2>2 DEF ResetRings
  <2>5. card'.tx = 0 /\ card'.rx = 0 /\ card'.tail = 0
    BY <2>1, <2>3 DEF ResetRings, reset_device, Still
  <2> QED BY <1>0, <2>4, <2>5, NewRingsKeep
<1> QED BY <1>1, <1>2, <1>3, <1>4, <1>5, <1>6, <1>7, <1>8, <1>9 DEF WifiNext

(* Every step of the wifi driver and its card keeps the invariant.         *)
LEMMA WifiInvNext == WifiInv /\ WifiNext => WifiInv'
BY WifiTypesNext, WifiShapeNext DEF WifiInv

(* The shape of the rings is more than the property says.                  *)
LEMMA WifiInvImplies == WifiInv => HalfLapInOrder
<1> SUFFICES ASSUME WifiInv, wifiTrouble = {} PROVE HalfLapInOrder
  BY DEF HalfLapInOrder
<1>0. WifiTypes /\ WifiRxShape /\ WifiTxShape
  BY DEF WifiInv, WifiShape
<1>1. /\ tx_head \in Nat /\ tx_tail \in Nat /\ card.tx \in Nat /\ rx_head \in Nat /\ card.rx \in Nat
      /\ reaped \in Nat /\ PageDescs \in Nat
  BY <1>0, WifiNumbers
<1>2. InOrder(got, "in") /\ InOrder(onAir, "out")
  BY <1>0 DEF WifiRxShape, WifiTxShape, Ordered
<1>3. /\ card.rx <= PageDescs /\ tx_tail <= PageDescs /\ tx_head <= card.tx
      /\ reaped + (card.tx - tx_head) <= Len(onAir) /\ tx_tail - tx_head = queued - reaped - lost
      /\ onAir \in Seq({"out"} \X Int)
  BY <1>0 DEF WifiRxShape, WifiTxShape, Ordered
<1>4. reaped <= Len(onAir)
  <2>1. Len(onAir) \in Nat
    BY <1>3, LenProperties
  <2> QED BY <1>1, <1>3, <2>1
<1>5. \A i \in rx_head..card.rx - 1 : i \in Ring /\ i < PageDescs /\ rx_head <= i /\ i < card.rx
  BY <1>1, <1>3 DEF Ring, RING_SIZE
<1>6. \A i \in tx_head..tx_tail - 1 : i \in Ring /\ i < PageDescs /\ tx_head <= i /\ i < tx_tail
  BY <1>1, <1>3 DEF Ring, RING_SIZE
<1>7. \A i \in rx_head..card.rx - 1 :
        ~desc[RxDesc(i)].own /\ buffer[RxBuf(i)] = <<"in", came - (card.rx - i) + 1>>
  BY <1>0, <1>5 DEF WifiRxShape
<1>8. \A i \in tx_head..tx_tail - 1 : buffer[TxBuf(i)] = <<"out", queued - (tx_tail - i) + 1>>
  BY <1>0, <1>6 DEF WifiTxShape
<1> QED BY <1>2, <1>3, <1>4, <1>7, <1>8 DEF HalfLapInOrder

----------------------------------------------------------------------------
(* The three together: at most one of them moves in a step.                *)

DriversInv == NvmeInv /\ E1000Inv /\ WifiInv

(* The three invariants hold in every reachable state.                     *)
LEMMA DriversInvariant == Spec => []DriversInv
<1>1. Init => DriversInv
  BY NvmeInvInit, E1000InvInit, WifiInvInit DEF Init, DriversInv, WifiInv
<1>2. DriversInv /\ [Next]_vars => DriversInv'
  <2> SUFFICES ASSUME DriversInv, [Next]_vars PROVE DriversInv'
    OBVIOUS
  <2>1. NvmeNext \/ UNCHANGED nvmeVars
    BY DEF Next, vars
  <2>2. E1000Next \/ UNCHANGED e1000Vars
    BY DEF Next, vars
  <2>3. WifiNext \/ UNCHANGED wifiVars
    BY DEF Next, vars
  <2>4. NvmeInv'
    BY <2>1, NvmeInvNext, NvmeStutter DEF DriversInv
  <2>5. E1000Inv'
    BY <2>2, E1000InvNext, E1000Stutter DEF DriversInv
  <2>6. WifiInv'
    BY <2>3, WifiInvNext, WifiStutter DEF DriversInv
  <2> QED BY <2>4, <2>5, <2>6 DEF DriversInv
<1> QED BY <1>1, <1>2, PTL DEF Spec

(* Queue positions, command identifiers, descriptor states and packet      *)
(* numbers stay in their ranges in all three drivers, also after the       *)
(* queues of the NVMe driver and the rings of the wifi driver have run     *)
(* over each other.                                                        *)
THEOREM DriversTypeCorrect == Spec => []TypeOK
<1>1. DriversInv => TypeOK
  BY WifiTypesOK DEF DriversInv, NvmeInv, NvmeBooks, E1000Inv, WifiInv, TypeOK
<1> QED BY <1>1, DriversInvariant, PTL

(* Of the commands since the last probe that fit into the page of the      *)
(* submission queue, one that nvme_submit_command reports successful has   *)
(* been completed by the controller, as long as none before it has timed   *)
(* out and no older device has been used.                                  *)
THEOREM NvmeFirstPageHonest == Spec => []FirstPageHonest
<1>1. DriversInv => FirstPageHonest
  BY DEF DriversInv, NvmeInv
<1> QED BY <1>1, DriversInvariant, PTL

(* nvme_submit_command returns NVME_ERR_IO without consuming the entry, so *)
(* after such an answer no later command in the page is reported           *)
(* successful.                                                             *)
THEOREM NvmeFailStop == Spec => []FailStop
<1>1. DriversInv => FailStop
  BY DEF DriversInv, NvmeInv
<1> QED BY <1>1, DriversInvariant, PTL

(* The frames the e1000 has stored reach the callers of                    *)
(* e1000_receive_packet in order, at most once, and wait in the ring in    *)
(* one piece until then.                                                   *)
THEOREM E1000ReceivesInOrder == Spec => []E1000RxInOrder
<1>1. DriversInv => E1000RxInOrder
  BY DEF DriversInv, E1000Inv
<1> QED BY <1>1, DriversInvariant, PTL

(* The frames of e1000_send_packet leave in order and at most once, and    *)
(* the call returns after its frame has left.                              *)
THEOREM E1000SendsInOrder == Spec => []E1000TxInOrder
<1>1. DriversInv => E1000TxInOrder
  BY DEF DriversInv, E1000Inv
<1> QED BY <1>1, DriversInvariant, PTL

(* Until a wifi ring leaves the page setup_dma_rings took for it, or a     *)
(* reset sets back only one side, both directions keep their order and no  *)
(* packet in a ring is overwritten.                                        *)
THEOREM WifiHalfLap == Spec => []HalfLapInOrder
<1>1. DriversInv => HalfLapInOrder
  BY WifiInvImplies DEF DriversInv
<1> QED BY <1>1, DriversInvariant, PTL
=============================================================================
