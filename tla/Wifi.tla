-------------------------------- MODULE Wifi --------------------------------
(***************************************************************************)
(* The wifi driver (kernel/src/net/wifi.c): two descriptor rings shared    *)
(* with the card, wifi_transmit_packet, wifi_receive_packet and            *)
(* wifi_handle_interrupt, with the card running beside them.  The kernel   *)
(* registers no handler for the card's interrupt, so that a call of        *)
(* wifi_handle_interrupt never meets another call half done.  The card     *)
(* owns the descriptors whose own flag is set.                             *)
(*                                                                         *)
(* A ring is twice as long as the page allocated for it.  Pages are given  *)
(* out lowest first, so on a machine that has just booted the second half  *)
(* of the transmit ring is the receive ring's page, and the second half of *)
(* the receive ring is the page of tx_buffers[0].  `desc' is the memory of *)
(* these three pages.                                                      *)
(*                                                                         *)
(* Left open: whether a reset keeps the card's enable bits, and whether a  *)
(* packet came or went without an error.  Left out: fw_loaded and hw_ready,*)
(* which nothing reads.  The steps of wifi_probe that only write registers *)
(* or read the EEPROM change nothing else, and every one of its failures   *)
(* frees what it took: a failing probe is a stuttering step.               *)
(***************************************************************************)
EXTENDS Integers, Sequences, FiniteSets

CONSTANTS
  PageDescs,         \* descriptors in a page: 4096 / 32
  WifiPages,         \* pages the page allocator has
  MaxPackets,        \* bound: packets, both directions together
  MaxErrors          \* bound: how often the card reports an error

ASSUME WifiAssumption ==
  /\ PageDescs \in Nat \ {0} /\ MaxPackets \in Nat /\ MaxErrors \in Nat
  /\ WifiPages \in Nat /\ WifiPages >= 2 + 4 * PageDescs  \* one set-up fits

VARIABLES
  probed, enabled,
  wifiFree,           \* free pages
  desc,               \* the descriptors in memory
  buffer,             \* the packet in each buffer
  tx_head, tx_tail, rx_head,
  card,               \* the card: its positions, its tail register, pending interrupts
  errors,             \* how many errors it has reported
  isr,                \* where wifi_handle_interrupt is, and the status it has read
  queued, onAir,      \* packets accepted for sending; the ones sent, in order
  reaped, lost,       \* tx_packets + tx_errors; packets that went with replaced rings
  came, got,          \* packets stored by the card; the ones passed on, in order
  wifiTrouble         \* what has gone wrong

flagVars == <<probed, enabled>>
positions == <<tx_head, tx_tail, rx_head>>
traffic == <<queued, onAir, reaped, lost, came, got>>
wifiVars == <<flagVars, wifiFree, desc, buffer, positions, card, errors, isr, traffic, wifiTrouble>>

RING_SIZE == 2 * PageDescs    \* TX_RING_SIZE and RX_RING_SIZE
Ring == 0..RING_SIZE - 1
Follow(i) == (i + 1) % RING_SIZE
RingPages == 2 + 2 * RING_SIZE

Cells == 0..3 * PageDescs - 1
TxDesc(i) == i
RxDesc(i) == PageDescs + i
BufferCells == 2 * PageDescs .. 3 * PageDescs - 1    \* the ones in tx_buffers[0]

TxBuf(i) == <<"tx", i>>
RxBuf(i) == <<"rx", i>>
Data == <<"data", 0>>      \* an address made of the bytes of a packet
Nothing == <<"none", 0>>
Buffers == {"tx", "rx"} \X Ring
Packets == ({"in", "out"} \X (1..MaxPackets)) \cup {Nothing}

(* The memory after setup_dma_rings.  It fills in the transmit ring first: *)
(* what it puts into the second half is gone when the receive ring is done.*)
Fresh ==
  [x \in Cells |-> IF x < PageDescs THEN [own |-> FALSE, buf |-> TxBuf(x)]
                   ELSE [own |-> TRUE, buf |-> RxBuf(x - PageDescs)]]
Empty == [b \in Buffers |-> Nothing]

Idle == [at |-> "out", seen |-> {}]
Still == [tx |-> 0, rx |-> 0, tail |-> 0, status |-> {}]

WifiInit ==
  /\ probed = FALSE /\ enabled = FALSE
  /\ wifiFree \in {RingPages, WifiPages}  \* enough for one set-up, or for more
  /\ desc = Fresh /\ buffer = Empty /\ tx_head = 0 /\ tx_tail = 0 /\ rx_head = 0
  /\ card = Still /\ errors = 0 /\ isr = Idle
  /\ queued = 0 /\ onAir = <<>> /\ reaped = 0 /\ lost = 0 /\ came = 0 /\ got = <<>> /\ wifiTrouble = {}

(* "overlap": a descriptor was used that lies outside its page; "adrift":  *)
(* the card was reset and the driver not, or the other way round;          *)
(* "dangling": the rings are freed memory; "wild": the card was given an   *)
(* address that is none.                                                   *)
WifiNote(what, holds) == wifiTrouble' = IF holds THEN wifiTrouble \cup {what} ELSE wifiTrouble
Uses(i) == WifiNote("overlap", i >= PageDescs)

Lives == probed /\ wifiTrouble \cap {"dangling", "wild"} = {}
Quiet == Lives /\ isr = Idle

(* A write to a descriptor in tx_buffers[0] spoils the packet there.       *)
Spoilt(x) == IF x \in BufferCells THEN [buffer EXCEPT ![TxBuf(0)] = Nothing] ELSE buffer

----------------------------------------------------------------------------
wifi_probe ==
  /\ ~probed /\ wifiFree >= RingPages
  /\ probed' = TRUE /\ wifiFree' = wifiFree - RingPages
  /\ UNCHANGED <<enabled, desc, buffer, positions, card, errors, isr,
                 traffic, wifiTrouble>>

(* A card that does not answer in time goes on as it was.                  *)
reset_device(works) ==
  IF works THEN /\ \E keeps \in BOOLEAN : enabled' = (enabled /\ keeps)
                /\ card' = [Still EXCEPT !.status = card.status]
  ELSE UNCHANGED <<enabled, card>>

(* The driver's positions stay.  A failed reset ends the call.             *)
wifi_load_firmware ==
  /\ Quiet /\ reset_device(TRUE)
  /\ WifiNote("adrift", positions # <<0, 0, 0>> \/ card.rx # 0)
  /\ UNCHANGED <<probed, wifiFree, desc, buffer, positions, errors, isr, traffic>>

wifi_start_stop ==
  /\ Quiet /\ enabled' = ~enabled
  /\ UNCHANGED <<probed, wifiFree, desc, buffer, positions, card, errors, isr, traffic, wifiTrouble>>

----------------------------------------------------------------------------
(* The card.                                                               *)

CardWorks == enabled /\ Lives

CardTx ==
  LET x == TxDesc(card.tx)
  IN /\ CardWorks /\ card.tx # card.tail /\ desc[x].own
     /\ desc' = [desc EXCEPT ![x].own = FALSE]
     /\ onAir' = Append(onAir, buffer[desc[x].buf])
     /\ card' = [card EXCEPT !.tx = Follow(@), !.status = @ \cup {"TX_DONE"}]
     /\ Uses(card.tx)
     /\ UNCHANGED <<flagVars, wifiFree, buffer, positions, errors, isr, queued, reaped, lost, came, got>>

CardRx ==
  LET x == RxDesc(card.rx)
  IN /\ CardWorks /\ desc[x].own /\ queued + came < MaxPackets /\ desc[x].buf # Data
     /\ came' = came + 1
     /\ desc' = [desc EXCEPT ![x].own = FALSE]
     /\ buffer' = [Spoilt(x) EXCEPT ![desc[x].buf] = <<"in", came + 1>>]
     /\ card' = [card EXCEPT !.rx = Follow(@), !.status = @ \cup {"RX_DONE"}]
     /\ Uses(card.rx)
     /\ UNCHANGED <<flagVars, wifiFree, positions, errors, isr, queued, onAir, reaped, lost, got>>

(* It stores a packet where a packet says.                                 *)
CardRxWild ==
  LET x == RxDesc(card.rx)
  IN /\ CardWorks /\ desc[x].own /\ queued + came < MaxPackets /\ desc[x].buf = Data
     /\ WifiNote("wild", TRUE)
     /\ UNCHANGED <<flagVars, wifiFree, desc, buffer, positions, card, errors, isr, traffic>>

CardError ==
  /\ CardWorks /\ errors < MaxErrors
  /\ errors' = errors + 1
  /\ card' = [card EXCEPT !.status = @ \cup {"ERR"}]
  /\ UNCHANGED <<flagVars, wifiFree, desc, buffer, positions, isr, traffic, wifiTrouble>>

----------------------------------------------------------------------------
(* What a packet of some length leaves in the descriptors of the receive   *)
(* ring when it is copied to tx_buffers[0].                                *)
Garbage == [own : BOOLEAN, buf : {Data}]
CopiedOver ==
  UNION {[2 * PageDescs .. 2 * PageDescs + n - 1 -> Garbage] :
         n \in 0..IF tx_tail = 0 THEN PageDescs ELSE 0}

TxFull == Follow(tx_tail) = tx_head

wifi_transmit_packet ==
  /\ Quiet /\ ~TxFull /\ queued + came < MaxPackets
  /\ \E over \in CopiedOver :
       desc' = [x \in Cells |-> IF x = TxDesc(tx_tail) THEN [desc[x] EXCEPT !.own = TRUE]
                                ELSE IF x \in DOMAIN over THEN over[x] ELSE desc[x]]
  /\ buffer' = [buffer EXCEPT ![TxBuf(tx_tail)] = <<"out", queued + 1>>]
  /\ tx_tail' = Follow(tx_tail) /\ card' = [card EXCEPT !.tail = Follow(tx_tail)]
  /\ queued' = queued + 1
  /\ Uses(tx_tail)
  /\ UNCHANGED <<flagVars, wifiFree, tx_head, rx_head, errors, isr, onAir, reaped, lost, came, got>>

GivenBack(x) == [desc EXCEPT ![x].own = TRUE]

wifi_receive_packet ==
  LET x == RxDesc(rx_head)
  IN /\ Quiet /\ ~desc[x].own
     /\ got' = Append(got, buffer[RxBuf(rx_head)])
     /\ desc' = GivenBack(x) /\ buffer' = Spoilt(x)
     /\ rx_head' = Follow(rx_head)
     /\ Uses(rx_head)
     /\ UNCHANGED <<flagVars, wifiFree, tx_head, tx_tail, card, errors, isr, queued, onAir, reaped,
                    lost, came>>

----------------------------------------------------------------------------
(* wifi_handle_interrupt, one step per descriptor.                         *)

wifi_handle_interrupt ==
  /\ Quiet /\ enabled /\ card.status # {}
  /\ isr' = [at |-> "tx", seen |-> card.status]
  /\ UNCHANGED <<flagVars, wifiFree, desc, buffer, positions, card, errors, traffic, wifiTrouble>>

Reapable_unsent == "TX_DONE" \in isr.seen /\ tx_head # tx_tail
Reapable == "TX_DONE" \in isr.seen /\ tx_head # tx_tail /\ ~desc[TxDesc(tx_head)].own

ReapTx ==
  /\ Lives /\ isr.at = "tx" /\ Reapable
  /\ tx_head' = Follow(tx_head) /\ reaped' = reaped + 1
  /\ Uses(tx_head)
  /\ UNCHANGED <<flagVars, wifiFree, desc, buffer, tx_tail, rx_head, card, errors, isr, queued, onAir,
                 lost, came, got>>

ReapedTx ==
  /\ Lives /\ isr.at = "tx" /\ ~Reapable
  /\ isr' = [isr EXCEPT !.at = "rx"]
  /\ UNCHANGED <<flagVars, wifiFree, desc, buffer, positions, card, errors, traffic, wifiTrouble>>

(* A packet may be bad, for another station, or find no memory, or be      *)
(* refused by the network stack.                                           *)
HandleRx ==
  LET x == RxDesc(rx_head)
  IN /\ Lives /\ isr.at = "rx" /\ "RX_DONE" \in isr.seen /\ ~desc[x].own
     /\ \/ got' = Append(got, buffer[RxBuf(rx_head)])
        \/ UNCHANGED got
     /\ desc' = GivenBack(x) /\ buffer' = Spoilt(x)
     /\ rx_head' = Follow(rx_head)
     /\ Uses(rx_head)
     /\ UNCHANGED <<flagVars, wifiFree, tx_head, tx_tail, card, errors, isr, queued, onAir, reaped,
                    lost, came>>

HandledRx ==
  /\ Lives /\ isr.at = "rx" /\ ("RX_DONE" \notin isr.seen \/ desc[RxDesc(rx_head)].own)
  /\ isr' = [isr EXCEPT !.at = IF "ERR" \in isr.seen THEN "error" ELSE "ack"]
  /\ UNCHANGED <<flagVars, wifiFree, desc, buffer, positions, card, errors, traffic, wifiTrouble>>

InRing == (tx_tail - tx_head + RING_SIZE) % RING_SIZE

(* The result of reset_device is not looked at.  setup_dma_rings takes new *)
(* pages for everything; the old ones are lost.  When it fails it frees    *)
(* what it took, but the device keeps pointing there.                      *)
ResetRings(works) ==
  /\ Lives /\ isr.at = "error" /\ isr' = [isr EXCEPT !.at = "ack"]
  /\ reset_device(works)
  /\ IF wifiFree >= RingPages
     THEN /\ wifiFree' = wifiFree - RingPages
          /\ desc' = Fresh /\ buffer' = Empty
          /\ tx_head' = 0 /\ tx_tail' = 0 /\ rx_head' = 0
          /\ lost' = lost + InRing
          /\ WifiNote("adrift", ~works)
     ELSE /\ WifiNote("dangling", TRUE)
          /\ UNCHANGED <<wifiFree, desc, buffer, positions, lost>>
  /\ UNCHANGED <<probed, errors, queued, onAir, reaped, came, got>>

Ack ==
  /\ Lives /\ isr.at = "ack" /\ isr' = Idle
  /\ card' = [card EXCEPT !.status = @ \ isr.seen]
  /\ UNCHANGED <<flagVars, wifiFree, desc, buffer, positions, errors, traffic, wifiTrouble>>

WifiNext ==
  \/ wifi_probe \/ wifi_load_firmware \/ wifi_start_stop
  \/ CardTx \/ CardRx \/ CardRxWild \/ CardError
  \/ wifi_transmit_packet \/ wifi_receive_packet
  \/ wifi_handle_interrupt \/ ReapTx \/ ReapedTx \/ HandleRx \/ HandledRx
  \/ \E works \in BOOLEAN : ResetRings(works)
  \/ Ack

----------------------------------------------------------------------------
WifiTypeOK ==
  /\ {probed, enabled} \subseteq BOOLEAN
  /\ wifiFree \in 0..WifiPages /\ errors \in 0..MaxErrors
  /\ desc \in [Cells -> [own : BOOLEAN, buf : Buffers \cup {Data}]]
  /\ buffer \in [Buffers -> Packets]
  /\ {tx_head, tx_tail, rx_head, card.tx, card.rx, card.tail} \subseteq Ring
  /\ card.status \cup isr.seen \subseteq {"TX_DONE", "RX_DONE", "ERR"}
  /\ {queued, came} \subseteq 0..MaxPackets /\ {reaped, lost} \subseteq Nat
  /\ wifiTrouble \subseteq {"overlap", "adrift", "dangling", "wild"}

InOrder(s, way) ==
  /\ \A i \in 1..Len(s) : s[i][1] = way
  /\ \A i, j \in 1..Len(s) : i < j => s[i][2] < s[j][2]

(* As long as both rings are in the page allocated for them and every      *)
(* reset worked: packets are passed on in order and at most once, and what *)
(* the card has stored since waits from rx_head on, none overwritten;      *)
(* packets go on the air in order and at most once, no more are counted as *)
(* done than went, and exactly the ones neither counted nor lost in a      *)
(* reset are in the ring, none overwritten.                                *)
HalfLapInOrder ==
  wifiTrouble = {} =>
    /\ InOrder(got, "in") /\ InOrder(onAir, "out")
    /\ \A i \in rx_head..card.rx - 1 :
         ~desc[RxDesc(i)].own /\ buffer[RxBuf(i)] = <<"in", came - (card.rx - i) + 1>>
    /\ reaped <= Len(onAir) /\ tx_tail - tx_head = queued - reaped - lost
    /\ \A i \in tx_head..tx_tail - 1 : buffer[TxBuf(i)] = <<"out", queued - (tx_tail - i) + 1>>
=============================================================================
