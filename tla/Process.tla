------------------------------ MODULE Process ------------------------------
(***************************************************************************)
(* Processes and the round-robin scheduler, kernel/src/core/process.c, and *)
(* sys_fork and sys_exit of kernel/src/core/syscalls.c as far as they use  *)
(* them.                                                                   *)
(*                                                                         *)
(* A process control block has ONE next field.  process_create threads it  *)
(* into process_list with it, scheduler_add into the ready queue: the two  *)
(* lists share their links.  The links are modelled as pointers, so what   *)
(* the two lists do to each other is what the code does to them.           *)
(*                                                                         *)
(* The repository has no other caller of these functions than the two      *)
(* system calls and pit_init, which ticks once: nothing dispatches a first *)
(* process and no handler of the timer interrupt is registered yet.  The   *)
(* model is of the functions under any caller that uses them as the two    *)
(* system calls do: it creates and admits processes, starts the first one, *)
(* and ticks whenever it likes, or never.                                  *)
(***************************************************************************)
EXTENDS Integers, FiniteSets, Functions

CONSTANTS
  Pcb,            \* addresses malloc can return for a process_t
  NULL,
  MAX_PROCESSES,
  TimeSlice,      \* time_slice, in ticks
  TimeWrap,       \* 2^32: time_used is a uint32_t
  Frames          \* page frames pmm_alloc_page can return, as page numbers

ASSUME ProcessAssumption ==
  /\ NULL \notin Pcb /\ IsFiniteSet(Pcb)
  /\ MAX_PROCESSES \in Nat
  /\ TimeSlice \in Nat /\ TimeWrap \in Nat /\ TimeWrap > TimeSlice
  /\ Frames \subseteq Nat /\ IsFiniteSet(Frames)

VARIABLES
  links,           \* next of every PCB, and the heads and the tail of the lists
  process_count,
  current_process,
  live,            \* PCBs allocated and not freed
  state,           \* process->state
  time_used,
  stack,           \* process->stack of every live process
  halted           \* sys_fork has copied to a page_directory that is none

processVars == <<links, process_count, current_process, live, state, time_used, stack>>
vars == <<processVars, halted>>

Init ==
  /\ links = [next |-> [p \in Pcb |-> NULL], process_list |-> NULL,
              ready_queue_head |-> NULL, ready_queue_tail |-> NULL]
  /\ process_count = 0
  /\ current_process = NULL
  /\ live = {}
  /\ state = [p \in Pcb |-> "NEW"]
  /\ time_used = [p \in Pcb |-> 0]
  /\ stack = [p \in {} |-> 0]
  /\ halted = FALSE

----------------------------------------------------------------------------
(* Walking the links.                                                      *)

(* The nodes a walk from a passes: the least set that has a and, with any  *)
(* node, the node it points to.                                            *)
Chain(next, a) ==
  {p \in Pcb :
     \A S \in SUBSET Pcb :
       /\ a \in S \cup {NULL}
       /\ \A q \in S : next[q] \in S \cup {NULL}
       => p \in S}

Before(next, a, p) == {q \in Chain(next, a) : next[q] = p}

(* The walk "while (prev && prev->next != process)" and what follows it:   *)
(* the node found, if any, is linked to process->next.                     *)
Unlink(next, a, p) ==
  IF Before(next, a, p) = {} THEN next
  ELSE [next EXCEPT ![CHOOSE q \in Before(next, a, p) : TRUE] = next[p]]

----------------------------------------------------------------------------
(* The queue operations, from one value of links to the next.              *)

Links(next, list, head, tail) ==
  [next |-> next, process_list |-> list,
   ready_queue_head |-> head, ready_queue_tail |-> tail]

scheduler_add_keeps_next(L, p) ==
  IF L.ready_queue_tail = NULL
  THEN Links(L.next, L.process_list, p, p)
  ELSE Links([L.next EXCEPT ![L.ready_queue_tail] = p],
             L.process_list, L.ready_queue_head, p)

scheduler_add(L, p) ==
  LET ended == [L.next EXCEPT ![p] = NULL]
  IN IF L.ready_queue_tail = NULL
     THEN Links(ended, L.process_list, p, p)
     ELSE Links([ended EXCEPT ![L.ready_queue_tail] = p],
                L.process_list, L.ready_queue_head, p)

scheduler_remove(L, p) ==
  LET h      == L.ready_queue_head
      before == Before(L.next, h, p)
  IN IF h = p
     THEN Links([L.next EXCEPT ![p] = NULL], L.process_list, L.next[p],
                IF L.next[p] = NULL THEN NULL ELSE L.ready_queue_tail)
     ELSE Links([Unlink(L.next, h, p) EXCEPT ![p] = NULL], L.process_list, h,
                IF before # {} /\ L.ready_queue_tail = p
                THEN CHOOSE q \in before : TRUE ELSE L.ready_queue_tail)

(* What scheduler_next leaves; it returns the old head.                    *)
scheduler_next(L) ==
  LET h == L.ready_queue_head
  IN Links([L.next EXCEPT ![h] = NULL], L.process_list, L.next[h],
           IF L.next[h] = NULL THEN NULL ELSE L.ready_queue_tail)

(* process_create's "Add to process list".                                 *)
AddToList(L, p) ==
  Links([L.next EXCEPT ![p] = L.process_list], p, L.ready_queue_head, L.ready_queue_tail)

RemoveFromListHeadOnly(L, p) ==
  IF L.process_list = p
  THEN Links(L.next, L.next[p], L.ready_queue_head, L.ready_queue_tail)
  ELSE L

(* process_destroy's "Remove from process list".                           *)
RemoveFromList(L, p) ==
  IF L.process_list = p
  THEN Links(L.next, L.next[p], L.ready_queue_head, L.ready_queue_tail)
  ELSE Links(Unlink(L.next, L.process_list, p), L.process_list,
             L.ready_queue_head, L.ready_queue_tail)

----------------------------------------------------------------------------
(* Somebody runs who can call: the boot code, or a process before its exit.*)
Running == current_process # NULL => state[current_process] # "TERMINATED"

Queued == Chain(links.next, links.ready_queue_head)

(* pmm_alloc_page hands out the lowest free frame.                         *)
FreeFrames == Frames \ Range(stack)

CreateFails == process_count >= MAX_PROCESSES \/ FreeFrames = {}

(* process_create but for the links and the state.                         *)
NewProcess(p) ==
  /\ Running
  /\ p \in Pcb \ live
  /\ ~CreateFails
  /\ \E f \in FreeFrames :
       /\ \A g \in FreeFrames : f <= g
       /\ stack' = [q \in live \cup {p} |-> IF q = p THEN f ELSE stack[q]]
  /\ live' = live \cup {p}
  /\ time_used' = [time_used EXCEPT ![p] = 0]
  /\ process_count' = process_count + 1
  /\ UNCHANGED current_process

process_create(p) ==
  /\ NewProcess(p)
  /\ links' = AddToList(links, p)
  /\ state' = [state EXCEPT ![p] = "NEW"]

process_create_null == Running /\ CreateFails /\ UNCHANGED processVars

(* A caller admits a process it has created.                               *)
Admit(p) ==
  /\ Running
  /\ p \in live /\ state[p] = "NEW"
  /\ links' = scheduler_add(links, p)
  /\ state' = [state EXCEPT ![p] = "READY"]
  /\ UNCHANGED <<process_count, current_process, live, time_used, stack>>

(* sys_fork copies a page from and to a page_directory, which              *)
(* process_create leaves as malloc found it.  Where both addresses can be  *)
(* used and nobody misses what was there, the call goes on.                *)
sys_fork(p) ==
  /\ current_process # NULL
  /\ NewProcess(p)
  /\ links' = scheduler_add(AddToList(links, p), p)
  /\ state' = [state EXCEPT ![p] = "READY"]

(* Otherwise the copy faults, or destroys memory of somebody else: the     *)
(* kernel ends here, with a process created that was not admitted.         *)
sys_fork_faults(p) ==
  /\ current_process # NULL
  /\ process_create(p)
  /\ halted' = TRUE

(* Code the repository does not have yet starts the first process, as      *)
(* sys_exit starts the next one: process_switch(scheduler_next()).         *)
Start ==
  /\ current_process = NULL
  /\ links.ready_queue_head # NULL
  /\ links' = scheduler_next(links)
  /\ current_process' = links.ready_queue_head
  /\ UNCHANGED <<process_count, live, state, time_used, stack>>

process_destroy_keeps_count(p) ==
  /\ Running
  /\ p \in live /\ p # current_process
  /\ links' = RemoveFromList(scheduler_remove(links, p), p)
  /\ live' = live \ {p}
  /\ stack' = [q \in live \ {p} |-> stack[q]]
  /\ state' = [state EXCEPT ![p] = "NEW"]
  /\ time_used' = [time_used EXCEPT ![p] = 0]
  /\ UNCHANGED <<process_count, current_process>>

(* free() ends the block's life; its next field is kept as the memory may   *)
(* still hold it, state and time_used are set afresh when it is reused.    *)
process_destroy(p) ==
  /\ Running
  /\ p \in live /\ p # current_process
  /\ links' = RemoveFromList(scheduler_remove(links, p), p)
  /\ live' = live \ {p}
  /\ stack' = [q \in live \ {p} |-> stack[q]]
  /\ process_count' = process_count - 1
  /\ state' = [state EXCEPT ![p] = "NEW"]
  /\ time_used' = [time_used EXCEPT ![p] = 0]
  /\ UNCHANGED current_process

sys_exit_requeues ==
  /\ current_process # NULL /\ Running
  /\ links.ready_queue_head # NULL
  /\ state' = [state EXCEPT ![current_process] = "TERMINATED"]
  /\ links' = scheduler_add(scheduler_next(links), current_process)
  /\ current_process' = links.ready_queue_head
  /\ UNCHANGED <<process_count, live, time_used, stack>>

(* sys_exit: the next process runs, or this one halts for good.            *)
sys_exit ==
  /\ current_process # NULL /\ Running
  /\ state' = [state EXCEPT ![current_process] = "TERMINATED"]
  /\ LET L == scheduler_remove(links, current_process)
     IN IF L.ready_queue_head = NULL
        THEN links' = L /\ UNCHANGED current_process
        ELSE links' = scheduler_next(L) /\ current_process' = L.ready_queue_head
  /\ UNCHANGED <<process_count, live, time_used, stack>>

Ticked == (time_used[current_process] + 1) % TimeWrap

(* scheduler_tick while the slice lasts, or with nobody else to run.       *)
scheduler_tick_stay ==
  /\ current_process # NULL
  /\ Ticked < TimeSlice \/ links.ready_queue_head = NULL
  /\ time_used' = [time_used EXCEPT ![current_process] = Ticked]
  /\ UNCHANGED <<links, process_count, current_process, live, state, stack>>

(* scheduler_tick at the end of a slice.                                   *)
scheduler_tick_switch ==
  /\ current_process # NULL
  /\ Ticked >= TimeSlice
  /\ links.ready_queue_head # NULL
  /\ time_used' = [time_used EXCEPT ![current_process] = 0]
  /\ links' = scheduler_add(scheduler_next(links), current_process)
  /\ state' = [state EXCEPT ![current_process] = "READY"]
  /\ current_process' = links.ready_queue_head
  /\ UNCHANGED <<process_count, live, stack>>

scheduler_tick == scheduler_tick_stay \/ scheduler_tick_switch

----------------------------------------------------------------------------
Step ==
  \/ \E p \in Pcb :
       process_create(p) \/ Admit(p) \/ sys_fork(p) \/ process_destroy(p)
  \/ process_create_null
  \/ Start
  \/ sys_exit
  \/ scheduler_tick

Next ==
  /\ ~halted
  /\ \/ Step /\ UNCHANGED halted
     \/ \E p \in Pcb : sys_fork_faults(p)

Spec == Init /\ [][Next]_vars

----------------------------------------------------------------------------
(* The variables have their C types; a NULL or PCB pointer is never        *)
(* anything else, and the counter is the number of processes that exist.   *)
TypeOK ==
  /\ links.next \in [Pcb -> Pcb \cup {NULL}]
  /\ {links.process_list, links.ready_queue_head, links.ready_queue_tail}
       \subseteq Pcb \cup {NULL}
  /\ live \subseteq Pcb
  /\ current_process \in live \cup {NULL}
  /\ process_count = Cardinality(live) /\ process_count <= MAX_PROCESSES
  /\ state \in [Pcb -> {"NEW", "READY", "TERMINATED"}]
  /\ time_used \in [Pcb -> 0..(TimeWrap - 1)]
  /\ stack \in [live -> Frames]
  /\ halted \in BOOLEAN

(* The ready queue holds exactly the processes that are ready and not      *)
(* running: none is lost when the lists share their links, an exited or    *)
(* destroyed one does not come back, and the running one is not queued.    *)
(* It ends where ready_queue_tail says, so scheduler_add appends to the    *)
(* list that scheduler_next takes from.                                    *)
QueueHoldsReady ==
  LET t == links.ready_queue_tail
  IN /\ Queued = {p \in live : state[p] = "READY" /\ p # current_process}
     /\ t = NULL <=> links.ready_queue_head = NULL
     /\ t # NULL => t \in Queued /\ links.next[t] = NULL

(* process_destroy's walk along process_list meets no freed control block  *)
(* and comes to an end, whatever the ready queue has done to the links.    *)
WalksStayLive ==
  LET list == Chain(links.next, links.process_list)
  IN /\ list \subseteq live
     /\ list # {} => \E p \in list : links.next[p] = NULL

(* process_create: "Add to process list".  Every process is on it.         *)
AllProcessesListed == live = Chain(links.next, links.process_list)

=============================================================================
