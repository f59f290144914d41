------------------------------- MODULE E1000 --------------------------------
(***************************************************************************)
(* The network card driver (kernel/src/core/drivers/net/e1000.c) as        *)
(* netdev_init sets it up: two descriptor rings in memory, shared with the *)
(* card.  A descriptor with done set belongs to the driver; the card       *)
(* works from its head register up to the tail register the driver writes. *)
(* Frames are numbered as they reach memory or are handed to a send.       *)
(* The kernel makes one call at a time.                                    *)
(***************************************************************************)
EXTENDS Integers, Sequences

CONSTANTS
  E1000_NUM_DESC,    \* E1000_NUM_RX_DESC and E1000_NUM_TX_DESC are equal
  E1000Pages,        \* pages the page allocator has at boot
  MaxFrames          \* bound: how many frames go in each direction

ASSUME E1000Assumption ==
  /\ E1000_NUM_DESC \in Nat /\ E1000_NUM_DESC > 1
  /\ E1000Pages \in Nat /\ MaxFrames \in Nat

VARIABLES
  active,            \* "boot", "up" or "failed": the net device's state
  rx_descriptors, rx_cur, rdh, rdt,
  tx_descriptors, tx_cur, tdh, tdt,
  sending,           \* "no", or the loop e1000_send_packet is in
  arrived,           \* how many frames the card has put into memory
  delivered,         \* the frames given to the callers of e1000_receive_packet
  accepted,          \* how many sends have begun
  sent               \* the frames the card has put on the wire

rxVars == <<rx_descriptors, rx_cur, rdh, rdt, arrived, delivered>>
txVars == <<tx_descriptors, tx_cur, tdh, tdt, sending, accepted, sent>>
e1000Vars == <<active, rxVars, txVars>>

Descs == 0..E1000_NUM_DESC - 1
Succ(i) == (i + 1) % E1000_NUM_DESC
PagesNeeded == 2 + 2 * E1000_NUM_DESC

E1000Init ==
  /\ active = "boot"
  /\ rx_descriptors = [i \in Descs |-> [done |-> FALSE, frame |-> 0]]
  /\ rx_cur = 0 /\ rdh = 0 /\ rdt = 0
  /\ tx_descriptors = [i \in Descs |-> [done |-> FALSE, frame |-> 0]]
  /\ tx_cur = 0 /\ tdh = 0 /\ tdt = 0
  /\ sending = "no" /\ arrived = 0 /\ delivered = <<>> /\ accepted = 0 /\ sent = <<>>

netdev_init(works) == active = "boot" /\ active' = IF works THEN "up" ELSE "failed"

(* The card has no descriptor of the rings before; RDT starts at the last. *)
e1000_init ==
  /\ \/ netdev_init(FALSE) /\ UNCHANGED <<rdt, tx_descriptors>>  \* no card, or no memory
     \/ /\ E1000Pages >= PagesNeeded /\ netdev_init(TRUE)
        /\ rdt' = E1000_NUM_DESC - 1
        /\ tx_descriptors' = [i \in Descs |-> [done |-> TRUE, frame |-> 0]]
  /\ UNCHANGED <<rx_descriptors, rx_cur, rdh, tx_cur, tdh, tdt,
                 sending, arrived, delivered, accepted, sent>>

----------------------------------------------------------------------------
Filled == [done |-> TRUE, frame |-> arrived + 1]

(* The card stores a frame; without a descriptor it drops it.              *)
CardReceives ==
  /\ active = "up" /\ rdh # rdt /\ arrived < MaxFrames
  /\ rx_descriptors' = [rx_descriptors EXCEPT ![rdh] = Filled]
  /\ rdh' = Succ(rdh) /\ arrived' = arrived + 1
  /\ UNCHANGED <<active, rx_cur, rdt, delivered, txVars>>

Taken_and_left == rx_descriptors
Taken == [rx_descriptors EXCEPT ![rx_cur].done = FALSE]

(* With no frame waiting the call returns false and changes nothing.       *)
e1000_receive_packet ==
  /\ active = "up" /\ sending = "no" /\ rx_descriptors[rx_cur].done
  /\ Len(delivered) <= MaxFrames
  /\ delivered' = Append(delivered, rx_descriptors[rx_cur].frame)
  /\ rx_descriptors' = Taken
  /\ rdt' = rx_cur /\ rx_cur' = Succ(rx_cur)
  /\ UNCHANGED <<active, rdh, arrived, txVars>>

----------------------------------------------------------------------------
(* Both loops of e1000_send_packet wait for the card without a bound.      *)
e1000_send_packet ==
  /\ active = "up" /\ sending = "no" /\ accepted < MaxFrames
  /\ sending' = "wait_free" /\ accepted' = accepted + 1
  /\ UNCHANGED <<active, rxVars, tx_descriptors, tx_cur, tdh, tdt, sent>>

Fill ==
  /\ sending = "wait_free" /\ tx_descriptors[tx_cur].done
  /\ tx_descriptors' = [tx_descriptors EXCEPT ![tx_cur] = [done |-> FALSE, frame |-> accepted]]
  /\ tx_cur' = Succ(tx_cur) /\ tdt' = Succ(tx_cur)
  /\ sending' = "wait_sent"
  /\ UNCHANGED <<active, rxVars, tdh, accepted, sent>>

OldTail == (tx_cur + E1000_NUM_DESC - 1) % E1000_NUM_DESC

Waited_not == TRUE
Waited == tx_descriptors[OldTail].done

SendReturns ==
  /\ sending = "wait_sent" /\ Waited
  /\ sending' = "no"
  /\ UNCHANGED <<active, rxVars, tx_descriptors, tx_cur, tdh, tdt, accepted, sent>>

CardSends ==
  /\ active = "up" /\ tdh # tdt
  /\ sent' = Append(sent, tx_descriptors[tdh].frame)
  /\ tx_descriptors' = [tx_descriptors EXCEPT ![tdh].done = TRUE]
  /\ tdh' = Succ(tdh)
  /\ UNCHANGED <<active, rxVars, tx_cur, tdt, sending, accepted>>

E1000Next ==
  \/ e1000_init
  \/ CardReceives \/ e1000_receive_packet
  \/ e1000_send_packet \/ Fill \/ SendReturns \/ CardSends

----------------------------------------------------------------------------
E1000TypeOK ==
  /\ active \in {"boot", "up", "failed"}
  /\ rx_descriptors \in [Descs -> [done : BOOLEAN, frame : 0..MaxFrames]]
  /\ tx_descriptors \in [Descs -> [done : BOOLEAN, frame : 0..MaxFrames]]
  /\ {rx_cur, rdh, rdt, tx_cur, tdh, tdt} \subseteq Descs
  /\ sending \in {"no", "wait_free", "wait_sent"}
  /\ arrived \in 0..MaxFrames /\ accepted \in 0..MaxFrames

UpTo(n) == [k \in 1..n |-> k]

(* The callers of e1000_receive_packet get every frame that reached memory *)
(* once and in order, and what they have not got yet is still in the ring, *)
(* from rx_cur on.                                                         *)
E1000RxInOrder ==
  /\ delivered = UpTo(Len(delivered))
  /\ \A k \in 1..arrived - Len(delivered) :
       rx_descriptors[(rx_cur + k - 1) % E1000_NUM_DESC] =
         [done |-> TRUE, frame |-> Len(delivered) + k]

(* The frames leave once and in order, and e1000_send_packet returns after *)
(* its frame has left.                                                     *)
E1000TxInOrder ==
  /\ sent = UpTo(Len(sent))
  /\ sending = "no" => Len(sent) = accepted
=============================================================================
