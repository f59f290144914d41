-------------------------------- MODULE Nvme --------------------------------
(***************************************************************************)
(* The NVMe driver (kernel/src/core/drivers/storage/nvme.c): probing, and  *)
(* commands that are put into the submission queue and polled for in the   *)
(* completion queue, with the controller beside them.                      *)
(*                                                                         *)
(* pci_scan_for_class always finds the same controller, so every probe     *)
(* sets it up again, with new queues for the next entry of nvme_devices;   *)
(* the entries before go on ringing its doorbells.                         *)
(*                                                                         *)
(* nvme_alloc_queue gives one page whatever the size.  The completion      *)
(* queue fills it, the submission queue is longer: pages are given out     *)
(* lowest first, so it goes on in the completion queue's page.             *)
(*                                                                         *)
(* A completion carries a phase bit, 1 in the first lap of the queue and   *)
(* 0 in the second, and a status code: "ok" is 0, "minor" lies outside the *)
(* driver's mask 0x7F00 (every generic code below 0x80), "hard" inside.    *)
(* Commands are numbered in the order they are issued; what they say, and  *)
(* how much of it the controller makes out, is left open.                  *)
(***************************************************************************)
EXTENDS Integers, Sequences

CONSTANTS
  NVME_MAX_DEVICES, NVME_QUEUE_DEPTH,
  SqEntrySize, CqEntrySize,   \* sizeof(nvme_sq_entry_t), sizeof(nvme_cq_entry_t)
  NvmePages,        \* pages the page allocator has for the driver
  MaxCommands       \* bound: how many commands are issued

ASSUME NvmeAssumption ==
  /\ NVME_MAX_DEVICES \in Nat \ {0} /\ NVME_QUEUE_DEPTH \in Nat /\ NVME_QUEUE_DEPTH > 1
  /\ SqEntrySize \in Nat \ {0} /\ CqEntrySize \in Nat \ {0} /\ CqEntrySize < SqEntrySize
  /\ SqEntrySize <= NVME_QUEUE_DEPTH * CqEntrySize
  /\ NvmePages \in Nat /\ MaxCommands \in Nat

VARIABLES
  num_nvme_devices,
  nvme_devices,     \* the queues of each entry
  nvmeFree,         \* free pages
  ctl,              \* the controller: whose queues it has, its doorbells and positions
  busy,             \* "no", or what the command in flight is for
  using,            \* the entry of nvme_devices it was issued on
  result,           \* how the finished commands were answered
  posted,           \* commands whose entry the controller has completed
  base              \* commands issued before the last probe

nvmeVars == <<num_nvme_devices, nvme_devices, nvmeFree, ctl, busy, using, result, posted, base>>

Slots == 0..NVME_MAX_DEVICES - 1
Entries == 0..NVME_QUEUE_DEPTH - 1
After_unwrapped(i) == i + 1
After(i) == (i + 1) % NVME_QUEUE_DEPTH
Uncleared == [phase |-> 1, code |-> "ok"]
Blank == [phase |-> 0, code |-> "ok"]
Current == Len(result) + 1    \* the command that is, or will be, in flight

(* New queues, in the pages from `page' on.                                *)
Cleared(page) == [at |-> page, sq |-> [i \in Entries |-> 0], sq_tail |-> 0,
                  cq |-> [j \in Entries |-> Blank], cq_head |-> 0]

(* The controller after a reset, with the queues of device d.              *)
Reset(d, on, tail) ==
  [on |-> on, dev |-> d, tail |-> tail, head |-> 0, sqHead |-> 0, cqTail |-> 0, phase |-> 1]

NvmeInit ==
  /\ num_nvme_devices = 0 /\ nvmeFree = NvmePages
  /\ nvme_devices = [d \in Slots |-> Cleared(0)]
  /\ ctl = Reset(0, FALSE, 0) /\ busy = "no" /\ using = 0 /\ result = <<>> /\ posted = {} /\ base = 0

----------------------------------------------------------------------------
(* A page is exactly as long as a completion queue.                        *)
PageLength == NVME_QUEUE_DEPTH * CqEntrySize
SqFits == PageLength \div SqEntrySize     \* entries within their page

(* The completion queue entries of `queues' whose status, their last part, *)
(* is where submission queue entry i of device d is.                       *)
Overlaid(queues, d, i) ==
  {x \in Slots \X Entries :
     LET status == (queues[x[1]].at + 1) * PageLength + (x[2] + 1) * CqEntrySize - 1
         start == queues[d].at * PageLength + i * SqEntrySize
     IN status \in start..start + SqEntrySize - 1}

(* Most of a command is 0; the top of the buffer's address may be 0xFFFF.  *)
Nowhere == <<0, NVME_QUEUE_DEPTH>>
Top == [phase |-> 1, code |-> "hard"]
Overwritten(over, top, e) ==
  [j \in Entries |-> IF <<e, j>> \notin over THEN nvme_devices[e].cq[j]
                     ELSE IF <<e, j>> = top THEN Top ELSE Blank]

(* nvme_submit_command up to its polling loop: the doorbell tells the      *)
(* controller the tail, whichever device's it is.                          *)
Submit(d) ==
  LET q    == nvme_devices[d]
      over == Overlaid(nvme_devices, d, q.sq_tail)
      next == [q EXCEPT !.sq[q.sq_tail] = Current, !.sq_tail = After(q.sq_tail)]
  IN \E top \in over \cup {Nowhere} :
       /\ nvme_devices' =
            [e \in Slots |-> [(IF e = d THEN next ELSE nvme_devices[e])
                                 EXCEPT !.cq = Overwritten(over, top, e)]]
       /\ ctl' = [ctl EXCEPT !.tail = After(q.sq_tail)]

(* nvme_probe_device.  The reset comes first.  With fewer than three pages *)
(* the probe fails and keeps those it got.                                 *)
Probes == busy = "no" /\ num_nvme_devices < NVME_MAX_DEVICES

ProbeNoMemory ==
  /\ Probes /\ nvmeFree <= 2
  /\ nvmeFree' = 0 /\ ctl' = Reset(num_nvme_devices, FALSE, 0) /\ base' = Len(result)
  /\ UNCHANGED <<num_nvme_devices, nvme_devices, busy, using, result, posted>>

FirstFree == NvmePages - nvmeFree     \* the lowest free page

(* The loop that waits for the controller leaves with timeout = 0 only if  *)
(* it became ready at the last look; a controller that never did is taken  *)
(* for ready, because timeout has gone below 0.                            *)
ProbeLate ==
  /\ Probes /\ nvmeFree >= 3
  /\ nvmeFree' = nvmeFree - 2
  /\ ctl' = Reset(num_nvme_devices, TRUE, 0)
  /\ nvme_devices' = [nvme_devices EXCEPT ![num_nvme_devices] = Cleared(FirstFree)]
  /\ base' = Len(result)
  /\ UNCHANGED <<num_nvme_devices, busy, using, result, posted>>

(* The identify command is the first of the new queue.                     *)
nvme_probe_device ==
  /\ Probes /\ nvmeFree >= 3 /\ Current <= MaxCommands
  /\ nvmeFree' = nvmeFree - 3
  /\ \E ready \in BOOLEAN : ctl' = Reset(num_nvme_devices, ready, 1)
  /\ nvme_devices' = [nvme_devices EXCEPT ![num_nvme_devices] =
                        [Cleared(FirstFree) EXCEPT !.sq[0] = Current, !.sq_tail = 1]]
  /\ busy' = "identify" /\ using' = num_nvme_devices /\ base' = Len(result)
  /\ UNCHANGED <<num_nvme_devices, result, posted>>

(* nvme_read and nvme_write differ in the opcode.                          *)
nvme_read_write(d) ==
  /\ busy = "no" /\ d < num_nvme_devices /\ Current <= MaxCommands
  /\ Submit(d)
  /\ busy' = "io" /\ using' = d
  /\ UNCHANGED <<num_nvme_devices, nvmeFree, result, posted, base>>

----------------------------------------------------------------------------
(* The polling loop of nvme_submit_command, and what its callers do with   *)
(* the answer: the probe returns the page of the identify data and, on     *)
(* success, counts the device.                                             *)

Polled == nvme_devices[using].cq[nvme_devices[using].cq_head]
Complete(entry) == entry.phase = 1 \/ entry.code # "ok"   \* status != 0

Answer(how) ==
  /\ result' = Append(result, [on |-> using, how |-> how]) /\ busy' = "no"
  /\ num_nvme_devices' = num_nvme_devices + IF busy = "identify" /\ how = "ok" THEN 1 ELSE 0
  /\ nvmeFree' = nvmeFree + IF busy = "identify" THEN 1 ELSE 0
  /\ UNCHANGED <<using, posted, base>>

Consumed ==
  /\ nvme_devices' = [nvme_devices EXCEPT ![using].cq_head = After(@)]
  /\ ctl' = [ctl EXCEPT !.head = After(nvme_devices[using].cq_head)]

Succeeds ==
  /\ busy # "no" /\ Complete(Polled) /\ Polled.code # "hard"
  /\ Consumed
  /\ Answer("ok")

Fails_and_goes_on ==
  /\ busy # "no" /\ Polled.code = "hard"
  /\ Consumed
  /\ Answer("io")

Fails ==
  /\ busy # "no" /\ Polled.code = "hard"
  /\ UNCHANGED <<nvme_devices, ctl>>
  /\ Answer("io")

Times_out_never == FALSE

Times_out ==
  /\ busy # "no" /\ ~Complete(Polled)
  /\ UNCHANGED <<nvme_devices, ctl>>
  /\ Answer("timeout")

(* The controller completes the next submitted command, if its queue has   *)
(* room: it holds one completion less than it has entries.                 *)
Post(code) ==
  /\ ctl.on /\ ctl.sqHead # ctl.tail /\ After(ctl.cqTail) # ctl.head
  /\ nvme_devices' = [nvme_devices EXCEPT ![ctl.dev].cq[ctl.cqTail] = [phase |-> ctl.phase, code |-> code]]
  /\ ctl' = [ctl EXCEPT !.sqHead = After(@), !.cqTail = After(@),
                        !.phase = IF After(ctl.cqTail) = 0 THEN 1 - @ ELSE @]
  /\ posted' = posted \cup {nvme_devices[ctl.dev].sq[ctl.sqHead]}
  /\ UNCHANGED <<num_nvme_devices, nvmeFree, busy, using, result, base>>

Driver == Succeeds \/ Fails \/ Times_out

NvmeNext ==
  \/ ProbeNoMemory \/ ProbeLate \/ nvme_probe_device
  \/ \E d \in Slots : nvme_read_write(d)
  \/ Driver
  \/ \E code \in {"ok", "minor", "hard"} : Post(code)

----------------------------------------------------------------------------
Queues ==
  [at : 0..NvmePages, sq : [Entries -> 0..MaxCommands], sq_tail : Entries,
   cq : [Entries -> [phase : 0..1, code : {"ok", "minor", "hard"}]], cq_head : Entries]

NvmeTypeOK ==
  /\ num_nvme_devices \in 0..NVME_MAX_DEVICES /\ nvmeFree \in 0..NvmePages
  /\ nvme_devices \in [Slots -> Queues] /\ using \in Slots
  /\ ctl \in [on : BOOLEAN, dev : Slots, tail : Entries, head : Entries,
              sqHead : Entries, cqTail : Entries, phase : 0..1]
  /\ busy \in {"no", "identify", "io"}
  /\ result \in Seq([on : Slots, how : {"ok", "io", "timeout"}]) /\ Len(result) <= MaxCommands
  /\ posted \subseteq 0..MaxCommands /\ base \in 0..MaxCommands

Since == base + 1 .. Len(result)    \* the finished commands since the last probe

(* "Check if command is complete": a command that is reported successful   *)
(* has been completed by the controller.                                   *)
SuccessMeansDone == \A k \in Since : result[k].how = "ok" => k \in posted

(* Up to k, every command was in the submission queue's page, and on the   *)
(* device that was probed last.                                            *)
InPage(k) == k <= base + SqFits /\ \A j \in base + 1..k : result[j].on = ctl.dev

(* What holds of it: the commands that fit into the submission queue's     *)
(* page, as long as none has timed out and the older devices, which share  *)
(* the doorbells, are left alone.                                          *)
FirstPageHonest ==
  \A k \in Since :
    InPage(k) /\ (\A j \in base + 1..k - 1 : result[j].how # "timeout") =>
      (result[k].how = "ok" => k \in posted)

(* A completion with an error is never consumed, so the driver fails stop: *)
(* after a command was answered with NVME_ERR_IO no later one in the page  *)
(* is reported successful, whatever the controller posts behind it.        *)
FailStop ==
  \A j, k \in Since : j < k /\ InPage(k) /\ result[j].how = "io" => result[k].how # "ok"

(* Every command is answered: the polling loop is bounded.                 *)
CommandReturns == busy # "no" ~> busy = "no"
=============================================================================
