----------------------------- MODULE RoundRobin -----------------------------
(***************************************************************************)
(* What the scheduler of kernel/src/core/process.c promises, without its   *)
(* linked lists: the processes that are ready wait in one FIFO queue, the  *)
(* running one goes to its back when its slice is over, and nobody waits   *)
(* and runs at the same time.                                              *)
(***************************************************************************)
EXTENDS Sequences, Functions

CONSTANTS Pcb, NULL

VARIABLES
  known,    \* the processes that exist
  ready,    \* the ready queue, first to run first
  running   \* the current process, or NULL

rrVars == <<known, ready, running>>

Waiting == Range(ready)

RRInit == known = {} /\ ready = <<>> /\ running = NULL

Create(p) ==
  /\ p \notin known
  /\ known' = known \cup {p}
  /\ UNCHANGED <<ready, running>>

Admit(p) ==
  /\ p \in known \ Waiting /\ p # running
  /\ ready' = Append(ready, p)
  /\ UNCHANGED <<known, running>>

Fork(p) ==
  /\ p \notin known
  /\ known' = known \cup {p}
  /\ ready' = Append(ready, p)
  /\ UNCHANGED running

(* The first process of all, or the one after a process that has ended.    *)
Dispatch ==
  /\ ready # <<>>
  /\ running' = Head(ready)
  /\ ready' = Tail(ready)
  /\ UNCHANGED known

Rotate ==
  /\ running # NULL /\ ready # <<>>
  /\ running' = Head(ready)
  /\ ready' = Append(Tail(ready), running)
  /\ UNCHANGED known

Destroy(p) ==
  /\ p \in known /\ p # running
  /\ known' = known \ {p}
  /\ \/ p \notin Waiting /\ UNCHANGED ready
     \/ \E i \in DOMAIN ready :
          /\ ready[i] = p
          /\ ready' = SubSeq(ready, 1, i - 1) \o SubSeq(ready, i + 1, Len(ready))
  /\ UNCHANGED running

RRNext ==
  \/ \E p \in Pcb : Create(p) \/ Admit(p) \/ Fork(p) \/ Destroy(p)
  \/ Dispatch
  \/ Rotate

RRSpec == RRInit /\ [][RRNext]_rrVars
=============================================================================
