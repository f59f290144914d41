---------------------------- MODULE ProcessProofs ----------------------------
(***************************************************************************)
(* Proofs about Process: process_list and the ready queue share one next   *)
(* field per control block, and neither list breaks the other.             *)
(*                                                                         *)
(* The argument: the links never form a cycle.  A list without cycles is a *)
(* path, so a node has one predecessor on it and unlinking that one takes  *)
(* the node off the list.                                                  *)
(***************************************************************************)
EXTENDS MCProcess, FiniteSetTheorems, SequenceTheorems, TLAPS

NextFcns == [Pcb -> Pcb \cup {NULL}]

Closed(next, S) == \A q \in S : next[q] \in S \cup {NULL}

(* No cycle: every set of nodes has one that points out of the set.        *)
Acyclic(next) == \A S \in SUBSET Pcb : S # {} => \E p \in S : next[p] \notin S

----------------------------------------------------------------------------
(* Chains.                                                                 *)

(* The nodes of a walk hold its start and are closed under next.           *)
LEMMA ChainClosed ==
  ASSUME NEW next, NEW a
  PROVE  /\ Chain(next, a) \subseteq Pcb
         /\ a \in Pcb \cup {NULL} => a \in Chain(next, a) \cup {NULL}
         /\ next \in NextFcns => Closed(next, Chain(next, a))
<1>1. Chain(next, a) \subseteq Pcb
  BY DEF Chain
<1>2. ASSUME a \in Pcb
      PROVE  a \in Chain(next, a)
  BY <1>2, ProcessAssumption DEF Chain
<1>3. ASSUME next \in NextFcns, NEW q \in Chain(next, a), next[q] # NULL
      PROVE  next[q] \in Chain(next, a)
  <2>1. next[q] \in Pcb
    BY <1>1, <1>3 DEF NextFcns
  <2>2. ASSUME NEW S \in SUBSET Pcb, a \in S \cup {NULL},
               \A r \in S : next[r] \in S \cup {NULL}
        PROVE  next[q] \in S
    <3>1. q \in S
      BY <2>2, <1>3 DEF Chain
    <3> QED BY <3>1, <2>2, <1>3
  <2> QED BY <2>1, <2>2 DEF Chain
<1> QED BY <1>1, <1>2, <1>3 DEF Closed

(* They are the least such set.                                            *)
LEMMA ChainLeast ==
  ASSUME NEW next, NEW a, NEW S \in SUBSET Pcb, a \in S \cup {NULL}, Closed(next, S)
  PROVE  Chain(next, a) \subseteq S
BY DEF Chain, Closed

(* A walk from NULL passes nobody.                                         *)
LEMMA ChainNull ==
  ASSUME NEW next
  PROVE  Chain(next, NULL) = {}
<1>1. Closed(next, {})
  BY DEF Closed
<1>2. Chain(next, NULL) \subseteq {}
  BY <1>1, ChainLeast
<1> QED BY <1>2

(* A walk from a passes a and then what the walk from next[a] passes.      *)
LEMMA ChainStep ==
  ASSUME NEW next \in NextFcns, NEW a \in Pcb
  PROVE  Chain(next, a) = {a} \cup Chain(next, next[a])
<1> DEFINE A == Chain(next, a)
           B == Chain(next, next[a])
<1>0. next[a] \in Pcb \cup {NULL} /\ a # NULL
  BY ProcessAssumption DEF NextFcns
<1>1. A \subseteq Pcb /\ a \in A /\ Closed(next, A)
  BY <1>0, ChainClosed
<1>2. B \subseteq Pcb /\ next[a] \in B \cup {NULL} /\ Closed(next, B)
  BY <1>0, ChainClosed
<1>3. B \subseteq A
  <2>1. next[a] \in A \cup {NULL}
    BY <1>1 DEF Closed
  <2> QED BY <2>1, <1>1, ChainLeast
<1>4. A \subseteq {a} \cup B
  <2>1. Closed(next, {a} \cup B)
    BY <1>2 DEF Closed
  <2>2. {a} \cup B \in SUBSET Pcb /\ a \in ({a} \cup B) \cup {NULL}
    BY <1>2
  <2> QED BY <2>1, <2>2, ChainLeast
<1> QED BY <1>1, <1>3, <1>4

(* A walk goes on from each of its nodes.                                  *)
LEMMA ChainWithin ==
  ASSUME NEW next \in NextFcns, NEW a, NEW q \in Chain(next, a)
  PROVE  Chain(next, q) \subseteq Chain(next, a)
<1>1. Chain(next, a) \in SUBSET Pcb /\ Closed(next, Chain(next, a))
  BY ChainClosed
<1> QED BY <1>1, ChainLeast

(* Of two nodes of a walk, one is on the walk from the other.              *)
LEMMA ChainLinear ==
  ASSUME NEW next \in NextFcns, NEW a \in Pcb \cup {NULL},
         NEW u \in Chain(next, a), NEW v \in Chain(next, a)
  PROVE  v \in Chain(next, u) \/ u \in Chain(next, v)
<1> DEFINE S == {w \in Chain(next, a) : w \in Chain(next, u) \/ u \in Chain(next, w)}
<1>1. Chain(next, a) \subseteq Pcb /\ a \in Chain(next, a) \cup {NULL}
      /\ Closed(next, Chain(next, a))
  BY ChainClosed
<1>2. a \in S \cup {NULL}
  BY <1>1
<1>3. ASSUME NEW w \in S
      PROVE  next[w] \in S \cup {NULL}
  <2>0. w \in Pcb /\ u \in Pcb
    BY <1>1
  <2>1. next[w] \in Chain(next, a) \cup {NULL}
    BY <1>1 DEF Closed
  <2>2. u \in Chain(next, u) /\ Closed(next, Chain(next, u))
    BY <2>0, ChainClosed, ProcessAssumption
  <2>3. CASE w \in Chain(next, u)
    <3>1. next[w] \in Chain(next, u) \cup {NULL}
      BY <2>2, <2>3 DEF Closed
    <3> QED BY <3>1, <2>1
  <2>4. CASE w \notin Chain(next, u)
    <3>1. u \in Chain(next, w) /\ u # w
      BY <2>4, <2>2
    <3>2. u \in Chain(next, next[w])
      BY <3>1, <2>0, ChainStep
    <3> QED BY <3>2, <2>1
  <2> QED BY <2>3, <2>4
<1>4. Closed(next, S) /\ S \in SUBSET Pcb
  BY <1>1, <1>3 DEF Closed
<1> HIDE DEF S
<1>5. Chain(next, a) \subseteq S
  BY <1>2, <1>4, ChainLeast
<1>6. v \in S
  BY <1>5
<1> QED BY <1>6 DEF S

(* Without cycles no walk comes back.                                      *)
LEMMA NoReturn ==
  ASSUME NEW next \in NextFcns, Acyclic(next), NEW a \in Pcb
  PROVE  a \notin Chain(next, next[a])
<1> SUFFICES ASSUME a \in Chain(next, next[a]) PROVE FALSE
  OBVIOUS
<1> DEFINE S == {w \in Pcb : a \in Chain(next, w)}
<1>1. next[a] \in Pcb
  BY ChainNull DEF NextFcns
<1>2. ASSUME NEW w \in S
      PROVE  next[w] \in S
  <2>1. CASE w = a
    BY <2>1, <1>1
  <2>2. CASE w # a
    <3>1. a \in Chain(next, next[w])
      BY <2>2, ChainStep
    <3>2. next[w] # NULL
      BY <3>1, ChainNull
    <3> QED BY <3>1, <3>2 DEF NextFcns
  <2> QED BY <2>1, <2>2
<1>3. next[a] \in S /\ S \in SUBSET Pcb
  BY <1>1
<1> HIDE DEF S
<1>4. PICK w \in S : next[w] \notin S
  BY <1>3 DEF Acyclic
<1> QED BY <1>2, <1>4

(* Without cycles a node has one predecessor on a walk, and its start has  *)
(* none.                                                                   *)
LEMMA OnePredecessor ==
  ASSUME NEW next \in NextFcns, Acyclic(next), NEW a \in Pcb \cup {NULL},
         NEW q \in Chain(next, a), NEW r \in Chain(next, a), next[q] = next[r],
         next[q] # NULL
  PROVE  q = r
<1>0. q \in Pcb /\ r \in Pcb
  BY ChainClosed
<1>1. q \in Chain(next, r) \/ r \in Chain(next, q)
  BY ChainLinear
<1>2. q \in Chain(next, r) => q = r
  <2>1. q \notin Chain(next, next[q])
    BY <1>0, NoReturn
  <2> QED BY <2>1, <1>0, ChainStep
<1>3. r \in Chain(next, q) => q = r
  <2>1. r \notin Chain(next, next[r])
    BY <1>0, NoReturn
  <2> QED BY <2>1, <1>0, ChainStep
<1> QED BY <1>1, <1>2, <1>3

(* Without cycles nothing on a walk points back to its start.              *)
LEMMA StartHasNone ==
  ASSUME NEW next \in NextFcns, Acyclic(next), NEW a \in Pcb
  PROVE  \A q \in Chain(next, a) : next[q] # a
<1> SUFFICES ASSUME NEW q \in Chain(next, a), next[q] = a PROVE FALSE
  OBVIOUS
<1>1. q \in Pcb
  BY ChainClosed
<1>2. q \notin Chain(next, next[q])
  BY <1>1, NoReturn
<1> QED BY <1>2

(* Any other node of a walk has one.                                       *)
LEMMA HasPredecessor ==
  ASSUME NEW next \in NextFcns, NEW a \in Pcb \cup {NULL},
         NEW p \in Chain(next, a), p # a
  PROVE  \E q \in Chain(next, a) : next[q] = p
<1> SUFFICES ASSUME \A q \in Chain(next, a) : next[q] # p PROVE FALSE
  OBVIOUS
<1> DEFINE S == Chain(next, a) \ {p}
<1>1. Chain(next, a) \subseteq Pcb /\ a \in Chain(next, a) \cup {NULL}
      /\ Closed(next, Chain(next, a))
  BY ChainClosed
<1>2. S \in SUBSET Pcb /\ a \in S \cup {NULL} /\ Closed(next, S)
  BY <1>1 DEF Closed
<1>3. Chain(next, a) \subseteq S
  BY <1>2, ChainLeast
<1> QED BY <1>3

(* A walk depends on the links of its own nodes only.                      *)
LEMMA ChainAgree ==
  ASSUME NEW next \in NextFcns, NEW next2 \in NextFcns, NEW a \in Pcb \cup {NULL},
         \A q \in Chain(next, a) : next2[q] = next[q]
  PROVE  Chain(next2, a) = Chain(next, a)
<1> DEFINE A == Chain(next, a)
           T == Chain(next2, a)
<1>1. A \subseteq Pcb /\ a \in A \cup {NULL} /\ Closed(next, A)
  BY ChainClosed
<1>2. T \subseteq Pcb /\ a \in T \cup {NULL} /\ Closed(next2, T)
  BY ChainClosed
<1>3. Closed(next2, A)
  BY <1>1 DEF Closed
<1>4. Closed(next, A \cap T) /\ A \cap T \in SUBSET Pcb /\ a \in (A \cap T) \cup {NULL}
  BY <1>1, <1>2 DEF Closed
<1>5. T \subseteq A
  BY <1>1, <1>3, ChainLeast
<1>6. A \subseteq A \cap T
  BY <1>4, ChainLeast
<1> QED BY <1>5, <1>6

----------------------------------------------------------------------------
(* What the code does to the links keeps them free of cycles.              *)

(* next = NULL.                                                            *)
LEMMA AcyclicCut ==
  ASSUME NEW next \in NextFcns, Acyclic(next), NEW p \in Pcb
  PROVE  /\ [next EXCEPT ![p] = NULL] \in NextFcns
         /\ Acyclic([next EXCEPT ![p] = NULL])
<1> DEFINE n == [next EXCEPT ![p] = NULL]
<1>1. n \in NextFcns /\ n[p] = NULL /\ \A q \in Pcb \ {p} : n[q] = next[q]
  BY DEF NextFcns
<1> HIDE DEF n
<1>2. ASSUME NEW S \in SUBSET Pcb, S # {}
      PROVE  \E q \in S : n[q] \notin S
  <2>1. CASE p \in S
    <3>1. n[p] \notin S
      BY <1>1, ProcessAssumption
    <3> QED BY <3>1, <2>1
  <2>2. CASE p \notin S
    <3>1. PICK q \in S : next[q] \notin S
      BY <1>2 DEF Acyclic
    <3> QED BY <3>1, <2>2, <1>1
  <2> QED BY <2>1, <2>2
<1>3. n \in NextFcns /\ Acyclic(n)
  BY <1>1, <1>2 DEF Acyclic
<1> QED BY <1>3 DEF n

(* ready_queue_tail->next = process, once process->next is NULL.           *)
LEMMA AcyclicAppend ==
  ASSUME NEW next \in NextFcns, Acyclic(next), NEW t \in Pcb, NEW p \in Pcb,
         t # p, next[p] = NULL
  PROVE  /\ [next EXCEPT ![t] = p] \in NextFcns
         /\ Acyclic([next EXCEPT ![t] = p])
<1> DEFINE n == [next EXCEPT ![t] = p]
<1>1. n \in NextFcns /\ n[t] = p /\ \A q \in Pcb \ {t} : n[q] = next[q]
  BY DEF NextFcns
<1> HIDE DEF n
<1>2. ASSUME NEW S \in SUBSET Pcb, S # {}
      PROVE  \E q \in S : n[q] \notin S
  <2>1. CASE p \in S
    <3>1. n[p] \notin S
      BY <1>1, ProcessAssumption
    <3> QED BY <3>1, <2>1
  <2>2. CASE p \notin S /\ t \in S
    BY <2>2, <1>1
  <2>3. CASE p \notin S /\ t \notin S
    <3>1. PICK q \in S : next[q] \notin S
      BY <1>2 DEF Acyclic
    <3> QED BY <3>1, <2>3, <1>1
  <2> QED BY <2>1, <2>2, <2>3
<1>3. n \in NextFcns /\ Acyclic(n)
  BY <1>1, <1>2 DEF Acyclic
<1> QED BY <1>3 DEF n

(* process->next = process_list, for a process that is not on the list.    *)
LEMMA AcyclicFront ==
  ASSUME NEW next \in NextFcns, Acyclic(next), NEW a \in Pcb \cup {NULL}, NEW p \in Pcb,
         p \notin Chain(next, a)
  PROVE  /\ [next EXCEPT ![p] = a] \in NextFcns
         /\ Acyclic([next EXCEPT ![p] = a])
<1> DEFINE n == [next EXCEPT ![p] = a]
           C == Chain(next, a)
<1>1. n \in NextFcns /\ n[p] = a /\ \A q \in Pcb \ {p} : n[q] = next[q]
  BY DEF NextFcns
<1> HIDE DEF n
<1>2. C \subseteq Pcb /\ a \in C \cup {NULL} /\ Closed(next, C)
  BY ChainClosed
<1>3. ASSUME NEW S \in SUBSET Pcb, S # {}
      PROVE  \E q \in S : n[q] \notin S
  <2>1. CASE S \cap C # {}
    <3>1. PICK q \in S \cap C : next[q] \notin S \cap C
      <4>1. S \cap C \in SUBSET Pcb
        OBVIOUS
      <4> QED BY <4>1, <2>1 DEF Acyclic
    <3>2. next[q] \in C \cup {NULL}
      BY <1>2 DEF Closed
    <3>3. next[q] \notin S
      BY <3>1, <3>2, ProcessAssumption
    <3>4. n[q] = next[q]
      BY <1>1
    <3> QED BY <3>3, <3>4
  <2>2. CASE S \cap C = {} /\ p \in S
    BY <2>2, <1>1, <1>2, ProcessAssumption
  <2>3. CASE p \notin S
    <3>1. PICK q \in S : next[q] \notin S
      BY <1>3 DEF Acyclic
    <3> QED BY <3>1, <2>3, <1>1
  <2> QED BY <2>1, <2>2, <2>3
<1>4. n \in NextFcns /\ Acyclic(n)
  BY <1>1, <1>3 DEF Acyclic
<1> QED BY <1>4 DEF n

(* prev->next = process->next.                                             *)
LEMMA AcyclicBypass ==
  ASSUME NEW next \in NextFcns, Acyclic(next), NEW x \in Pcb, NEW p \in Pcb, next[x] = p
  PROVE  /\ [next EXCEPT ![x] = next[p]] \in NextFcns
         /\ Acyclic([next EXCEPT ![x] = next[p]])
<1> DEFINE n == [next EXCEPT ![x] = next[p]]
<1>1. n \in NextFcns /\ n[x] = next[p] /\ \A q \in Pcb \ {x} : n[q] = next[q]
  BY DEF NextFcns
<1> HIDE DEF n
<1>2. ASSUME NEW S \in SUBSET Pcb, S # {}
      PROVE  \E q \in S : n[q] \notin S
  <2>1. CASE x \in S /\ next[p] \notin S
    BY <2>1, <1>1
  <2>2. CASE x \in S /\ next[p] \in S
    <3>1. S \cup {p} \in SUBSET Pcb /\ S \cup {p} # {}
      OBVIOUS
    <3>2. PICK q \in S \cup {p} : next[q] \notin S \cup {p}
      BY <3>1 DEF Acyclic
    <3>3. q \in S /\ q # x
      BY <3>2, <2>2
    <3> QED BY <3>2, <3>3, <1>1
  <2>3. CASE x \notin S
    <3>1. PICK q \in S : next[q] \notin S
      BY <1>2 DEF Acyclic
    <3> QED BY <3>1, <2>3, <1>1
  <2> QED BY <2>1, <2>2, <2>3
<1>3. n \in NextFcns /\ Acyclic(n)
  BY <1>1, <1>2 DEF Acyclic
<1> QED BY <1>3 DEF n

----------------------------------------------------------------------------
(* Unlinking takes the node off the walk and keeps the others.             *)

(* The predecessor found, for a node other than the start.                 *)
LEMMA UnlinkChain ==
  ASSUME NEW next \in NextFcns, Acyclic(next), NEW a \in Pcb \cup {NULL},
         NEW p \in Pcb, p # a, NEW x \in Before(next, a, p),
         NEW n \in NextFcns, n[x] = next[p], n[p] = NULL,
         \A q \in Pcb \ {x, p} : n[q] = next[q]
  PROVE  Chain(n, a) = Chain(next, a) \ {p}
<1> DEFINE A == Chain(next, a)
           T == Chain(n, a)
<1>1. A \subseteq Pcb /\ a \in A \cup {NULL} /\ Closed(next, A)
  BY ChainClosed
<1>2. T \subseteq Pcb /\ a \in T \cup {NULL} /\ Closed(n, T)
  BY ChainClosed
<1>3. x \in A /\ next[x] = p /\ p # NULL
  BY ProcessAssumption DEF Before
<1>4. \A q \in A : next[q] = p => q = x
  BY <1>3, OnePredecessor
<1>5. x # p
  <2>1. SUFFICES ASSUME x = p PROVE FALSE
    OBVIOUS
  <2>2. next[p] = p
    BY <2>1, <1>3
  <2>3. {p} \in SUBSET Pcb /\ {p} # {}
    OBVIOUS
  <2> QED BY <2>2, <2>3 DEF Acyclic
<1>6. p \in A /\ next[p] \in A \cup {NULL}
  BY <1>1, <1>3 DEF Closed
<1>7. next[p] # p
  <2>1. {p} \in SUBSET Pcb /\ {p} # {}
    OBVIOUS
  <2> QED BY <2>1 DEF Acyclic
<1>8. T \subseteq A \ {p}
  <2>1. ASSUME NEW q \in A \ {p}
        PROVE  n[q] \in (A \ {p}) \cup {NULL}
    <3>1. CASE q = x
      BY <3>1, <1>6, <1>7
    <3>2. CASE q # x
      <4>1. n[q] = next[q] /\ next[q] # p
        BY <3>2, <1>1, <1>4
      <4> QED BY <4>1, <1>1 DEF Closed
    <3> QED BY <3>1, <3>2
  <2>2. Closed(n, A \ {p}) /\ A \ {p} \in SUBSET Pcb /\ a \in (A \ {p}) \cup {NULL}
    BY <2>1, <1>1 DEF Closed
  <2> QED BY <2>2, ChainLeast
<1>9. x \in T
  <2> SUFFICES ASSUME x \notin T PROVE FALSE
    OBVIOUS
  <2>1. ASSUME NEW q \in T
        PROVE  next[q] \in T \cup {NULL}
    <3>1. q \in Pcb \ {x, p}
      BY <1>2, <1>8
    <3> QED BY <3>1, <1>2 DEF Closed
  <2>2. A \subseteq T
    <3>1. Closed(next, T)
      BY <2>1 DEF Closed
    <3> QED BY <3>1, <1>2, ChainLeast
  <2> QED BY <2>2, <1>3
<1>10. A \subseteq T \cup {p}
  <2>1. ASSUME NEW q \in T \cup {p}
        PROVE  next[q] \in (T \cup {p}) \cup {NULL}
    <3>1. CASE q = x
      BY <3>1, <1>3
    <3>2. CASE q = p
      <4>1. n[x] \in T \cup {NULL}
        BY <1>2, <1>9 DEF Closed
      <4> QED BY <4>1, <3>2
    <3>3. CASE q # x /\ q # p
      <4>1. q \in T /\ n[q] = next[q]
        BY <3>3, <1>2
      <4> QED BY <4>1, <1>2 DEF Closed
    <3> QED BY <3>1, <3>2, <3>3
  <2>2. Closed(next, T \cup {p}) /\ T \cup {p} \in SUBSET Pcb /\ a \in (T \cup {p}) \cup {NULL}
    BY <2>1, <1>2 DEF Closed
  <2> QED BY <2>2, ChainLeast
<1> QED BY <1>8, <1>10

(* Taking the start off: the rest is the walk from its successor.          *)
LEMMA DropChain ==
  ASSUME NEW next \in NextFcns, Acyclic(next), NEW p \in Pcb,
         NEW n \in NextFcns, \A q \in Pcb \ {p} : n[q] = next[q]
  PROVE  Chain(n, next[p]) = Chain(next, p) \ {p}
<1>1. next[p] \in Pcb \cup {NULL}
  BY DEF NextFcns
<1>2. p \notin Chain(next, next[p])
  BY NoReturn
<1>3. Chain(next, next[p]) \subseteq Pcb
  BY ChainClosed
<1>4. Chain(n, next[p]) = Chain(next, next[p])
  BY <1>1, <1>2, <1>3, ChainAgree
<1>5. Chain(next, p) = {p} \cup Chain(next, next[p])
  BY ChainStep
<1> QED BY <1>2, <1>4, <1>5
(* Linking a node behind the last one adds it to the walk.                 *)
LEMMA AppendChain ==
  ASSUME NEW next \in NextFcns, NEW m \in NextFcns, NEW a \in Pcb, NEW p \in Pcb,
         NEW t \in Chain(next, a), next[t] = NULL, p \notin Chain(next, a),
         m[t] = p, m[p] = NULL, \A q \in Pcb \ {p, t} : m[q] = next[q]
  PROVE  Chain(m, a) = Chain(next, a) \cup {p}
<1> DEFINE A == Chain(next, a)
           T == Chain(m, a)
<1>1. A \subseteq Pcb /\ a \in A /\ Closed(next, A)
  BY ChainClosed, ProcessAssumption
<1>2. T \subseteq Pcb /\ a \in T /\ Closed(m, T)
  BY ChainClosed, ProcessAssumption
<1>3. T \subseteq A \cup {p}
  <2>1. ASSUME NEW q \in A \cup {p} PROVE m[q] \in (A \cup {p}) \cup {NULL}
    BY <1>1 DEF Closed
  <2>2. Closed(m, A \cup {p}) /\ A \cup {p} \in SUBSET Pcb /\ a \in (A \cup {p}) \cup {NULL}
    BY <2>1, <1>1 DEF Closed
  <2> QED BY <2>2, ChainLeast
<1>4. A \subseteq T
  <2>1. ASSUME NEW q \in T \cap A PROVE next[q] \in (T \cap A) \cup {NULL}
    <3>1. CASE q = t
      BY <3>1
    <3>2. CASE q # t
      <4>1. m[q] = next[q]
        BY <3>2, <1>1
      <4> QED BY <4>1, <1>1, <1>2 DEF Closed
    <3> QED BY <3>1, <3>2
  <2>2. Closed(next, T \cap A) /\ T \cap A \in SUBSET Pcb /\ a \in (T \cap A) \cup {NULL}
    BY <2>1, <1>1, <1>2 DEF Closed
  <2>3. A \subseteq T \cap A
    BY <2>2, ChainLeast
  <2> QED BY <2>3
<1>5. p \in T
  <2>1. t \in T /\ p # NULL
    BY <1>4, ProcessAssumption
  <2> QED BY <2>1, <1>2 DEF Closed
<1> QED BY <1>3, <1>4, <1>5

----------------------------------------------------------------------------
(* What both lists are between calls: Q is on the ready queue, and the     *)
(* process list stays within V.                                            *)
Shape(L, Q, V) ==
  /\ L.next \in NextFcns
  /\ L.process_list \in Pcb \cup {NULL}
  /\ L.ready_queue_head \in Pcb \cup {NULL}
  /\ L.ready_queue_tail \in Pcb \cup {NULL}
  /\ Acyclic(L.next)
  /\ Chain(L.next, L.ready_queue_head) = Q
  /\ L.ready_queue_tail = NULL <=> L.ready_queue_head = NULL
  /\ L.ready_queue_tail # NULL =>
       L.ready_queue_tail \in Q /\ L.next[L.ready_queue_tail] = NULL
  /\ Chain(L.next, L.process_list) \subseteq V

(* The fields of a Links value.                                            *)
LEMMA LinksFields ==
  ASSUME NEW n, NEW l, NEW h, NEW t
  PROVE  /\ Links(n, l, h, t).next = n
         /\ Links(n, l, h, t).process_list = l
         /\ Links(n, l, h, t).ready_queue_head = h
         /\ Links(n, l, h, t).ready_queue_tail = t
BY DEF Links

(* scheduler_add puts a process that is not queued at the end.             *)
LEMMA AddShape ==
  ASSUME NEW L, NEW Q, NEW V \in SUBSET Pcb, Shape(L, Q, V), NEW p \in V, p \notin Q
  PROVE  Shape(scheduler_add(L, p), Q \cup {p}, V)
<1> DEFINE n == L.next
           l == L.process_list
           h == L.ready_queue_head
           t == L.ready_queue_tail
           e == [n EXCEPT ![p] = NULL]
           C == Chain(n, l)
<1>1. /\ n \in NextFcns /\ l \in Pcb \cup {NULL} /\ h \in Pcb \cup {NULL}
      /\ t \in Pcb \cup {NULL} /\ Acyclic(n) /\ Chain(n, h) = Q
      /\ t = NULL <=> h = NULL
      /\ t # NULL => t \in Q /\ n[t] = NULL
      /\ C \subseteq V
  BY DEF Shape
<1>2. p \in Pcb /\ p # NULL
  BY ProcessAssumption
<1>3. e \in NextFcns /\ Acyclic(e)
  BY <1>1, <1>2, AcyclicCut
<1>4. e[p] = NULL /\ \A q \in Pcb \ {p} : e[q] = n[q]
  BY <1>1, <1>2 DEF NextFcns
<1>5. C \subseteq Pcb /\ l \in C \cup {NULL} /\ Closed(n, C)
  BY <1>1, ChainClosed
<1>6. Q \subseteq Pcb /\ h \in Q \cup {NULL} /\ Closed(n, Q)
  BY <1>1, ChainClosed
<1> HIDE DEF e
<1>7. CASE t = NULL
  <2>1. scheduler_add(L, p) = Links(e, l, p, p)
    BY <1>7 DEF scheduler_add, e
  <2>2. Q = {}
    BY <1>1, <1>7, ChainNull
  <2>3. Chain(e, p) = Q \cup {p}
    <3>1. Chain(e, p) = {p} \cup Chain(e, e[p])
      BY <1>2, <1>3, ChainStep
    <3> QED BY <3>1, <2>2, <1>4, ChainNull
  <2>4. Closed(e, C)
    BY <1>4, <1>5 DEF Closed
  <2>5. Chain(e, l) \subseteq V
    <3>1. Chain(e, l) \subseteq C
      BY <2>4, <1>5, ChainLeast
    <3> QED BY <3>1, <1>1
  <2> QED BY <2>1, <2>3, <2>5, <1>1, <1>2, <1>3, <1>4, LinksFields DEF Shape
<1>8. CASE t # NULL
  <2> DEFINE m == [e EXCEPT ![t] = p]
  <2>1. scheduler_add(L, p) = Links(m, l, h, p)
    BY <1>8 DEF scheduler_add, e
  <2>2. t \in Pcb /\ t # p /\ h \in Pcb /\ h # p /\ t \in Q /\ h \in Q /\ p \notin Q
    BY <1>1, <1>6, <1>8
  <2>3. m \in NextFcns /\ Acyclic(m)
    BY <2>2, <1>2, <1>3, <1>4, AcyclicAppend
  <2>4. m[t] = p /\ m[p] = NULL /\ \A q \in Pcb \ {p, t} : m[q] = n[q]
    BY <2>2, <1>2, <1>3, <1>4 DEF NextFcns
  <2> HIDE DEF m
  <2>7. Chain(m, l) \subseteq V
    <3>1. ASSUME NEW q \in C \cup {p} PROVE m[q] \in (C \cup {p}) \cup {NULL}
      <4>1. CASE q \in {p, t}
        BY <4>1, <2>4
      <4>2. CASE q \notin {p, t}
        BY <4>2, <2>4, <1>5 DEF Closed
      <4> QED BY <4>1, <4>2
    <3>2. Closed(m, C \cup {p}) /\ C \cup {p} \in SUBSET Pcb /\ l \in (C \cup {p}) \cup {NULL}
      BY <3>1, <1>2, <1>5 DEF Closed
    <3>3. Chain(m, l) \subseteq C \cup {p}
      BY <3>2, ChainLeast
    <3> QED BY <3>3, <1>1
  <2>8. Chain(m, h) = Q \cup {p}
    BY <2>2, <2>3, <2>4, <1>1, <1>2, <1>8, AppendChain
  <2>9. Shape(Links(m, l, h, p), Q \cup {p}, V)
    <3>1. h # NULL /\ p \in Q \cup {p} /\ m[p] = NULL
      BY <2>4, <1>1, <1>8
    <3> QED BY <3>1, <2>3, <2>7, <2>8, <1>1, <1>2, LinksFields DEF Shape
  <2> QED BY <2>1, <2>9
<1> QED BY <1>7, <1>8

(* scheduler_next takes the first process off the queue.                   *)
LEMMA NextShape ==
  ASSUME NEW L, NEW Q, NEW V \in SUBSET Pcb, Shape(L, Q, V), L.ready_queue_head # NULL
  PROVE  /\ L.ready_queue_head \in Q
         /\ Shape(scheduler_next(L), Q \ {L.ready_queue_head}, V)
<1> DEFINE n == L.next
           l == L.process_list
           h == L.ready_queue_head
           t == L.ready_queue_tail
           e == [n EXCEPT ![h] = NULL]
           u == IF n[h] = NULL THEN NULL ELSE t
           C == Chain(n, l)
<1>1. /\ n \in NextFcns /\ l \in Pcb \cup {NULL} /\ h \in Pcb
      /\ t \in Pcb \cup {NULL} /\ Acyclic(n) /\ Chain(n, h) = Q
      /\ t \in Q /\ t # NULL /\ n[t] = NULL
      /\ C \subseteq V
  BY ProcessAssumption DEF Shape
<1>2. scheduler_next(L) = Links(e, l, n[h], u)
  BY DEF scheduler_next
<1>3. e \in NextFcns /\ Acyclic(e)
  BY <1>1, AcyclicCut
<1>4. e[h] = NULL /\ \A q \in Pcb \ {h} : e[q] = n[q]
  BY <1>1 DEF NextFcns
<1>5. C \subseteq Pcb /\ l \in C \cup {NULL} /\ Closed(n, C)
  BY <1>1, ChainClosed
<1>6. h \in Q /\ Q \subseteq Pcb /\ n[h] \in Pcb \cup {NULL}
  BY <1>1, ChainClosed, ProcessAssumption DEF NextFcns
<1> HIDE DEF e
<1>7. Chain(e, n[h]) = Q \ {h}
  BY <1>1, <1>3, <1>4, DropChain
<1>8. Chain(e, l) \subseteq V
  <2>1. Closed(e, C)
    BY <1>4, <1>5 DEF Closed
  <2>2. Chain(e, l) \subseteq C
    BY <2>1, <1>5, ChainLeast
  <2> QED BY <2>2, <1>1
<1>9. /\ u \in Pcb \cup {NULL}
      /\ u = NULL <=> n[h] = NULL
      /\ u # NULL => u \in Q \ {h} /\ e[u] = NULL
  BY <1>1, <1>4, <1>6
<1> HIDE DEF u
<1>10. Shape(Links(e, l, n[h], u), Q \ {h}, V)
  BY <1>1, <1>3, <1>6, <1>7, <1>8, <1>9, LinksFields DEF Shape
<1> QED BY <1>2, <1>6, <1>10

(* process_create puts a new process in front of the list; the queue does  *)
(* not hold it and keeps its links.                                        *)
LEMMA FrontShape ==
  ASSUME NEW L, NEW Q, NEW V \in SUBSET Pcb, Shape(L, Q, V), Q \subseteq V,
         NEW p \in Pcb \ V
  PROVE  Shape(AddToList(L, p), Q, V \cup {p})
<1> DEFINE n == L.next
           l == L.process_list
           h == L.ready_queue_head
           t == L.ready_queue_tail
           e == [n EXCEPT ![p] = l]
           C == Chain(n, l)
<1>1. /\ n \in NextFcns /\ l \in Pcb \cup {NULL} /\ h \in Pcb \cup {NULL}
      /\ t \in Pcb \cup {NULL} /\ Acyclic(n) /\ Chain(n, h) = Q
      /\ t = NULL <=> h = NULL
      /\ t # NULL => t \in Q /\ n[t] = NULL
      /\ C \subseteq V
  BY DEF Shape
<1>2. AddToList(L, p) = Links(e, p, h, t)
  BY DEF AddToList
<1>3. e \in NextFcns /\ Acyclic(e)
  BY <1>1, AcyclicFront
<1>4. e[p] = l /\ \A q \in Pcb \ {p} : e[q] = n[q]
  BY <1>1 DEF NextFcns
<1>5. C \subseteq Pcb /\ l \in C \cup {NULL} /\ Closed(n, C)
  BY <1>1, ChainClosed
<1> HIDE DEF e
<1>6. \A q \in V : e[q] = n[q]
  BY <1>4
<1>7. Chain(e, h) = Q
  BY <1>1, <1>3, <1>6, ChainAgree
<1>8. Chain(e, p) \subseteq V \cup {p}
  <2>1. Chain(e, l) = C
    BY <1>1, <1>3, <1>6, ChainAgree
  <2>2. Chain(e, p) = {p} \cup C
    BY <2>1, <1>3, <1>4, ChainStep
  <2> QED BY <2>2, <1>1
<1>9. t # NULL => t \in Q /\ e[t] = NULL
  BY <1>1, <1>6
<1> QED BY <1>1, <1>2, <1>3, <1>7, <1>8, <1>9, LinksFields DEF Shape
(* scheduler_remove takes a process off the queue, if it is on it, and     *)
(* ends its link.                                                          *)
LEMMA RemoveShape ==
  ASSUME NEW L, NEW Q, NEW V \in SUBSET Pcb, Shape(L, Q, V), NEW p \in Pcb
  PROVE  /\ Shape(scheduler_remove(L, p), Q \ {p}, V)
         /\ scheduler_remove(L, p).next[p] = NULL
<1> DEFINE n == L.next
           l == L.process_list
           h == L.ready_queue_head
           t == L.ready_queue_tail
           B == Before(n, h, p)
           C == Chain(n, l)
<1>1. /\ n \in NextFcns /\ l \in Pcb \cup {NULL} /\ h \in Pcb \cup {NULL}
      /\ t \in Pcb \cup {NULL} /\ Acyclic(n) /\ Chain(n, h) = Q
      /\ t = NULL <=> h = NULL
      /\ t # NULL => t \in Q /\ n[t] = NULL
      /\ C \subseteq V
  BY DEF Shape
<1>2. C \subseteq Pcb /\ l \in C \cup {NULL} /\ Closed(n, C)
  BY <1>1, ChainClosed
<1>3. Q \subseteq Pcb /\ h \in Q \cup {NULL} /\ Closed(n, Q)
  BY <1>1, ChainClosed
<1>4. p # NULL /\ n[p] \in Pcb \cup {NULL}
  BY <1>1, ProcessAssumption DEF NextFcns
<1>5. CASE h = p
  <2>1. scheduler_remove(L, p) = scheduler_next(L)
    BY <1>5 DEF scheduler_remove, scheduler_next
  <2>2. Shape(scheduler_next(L), Q \ {p}, V)
    BY <1>4, <1>5, NextShape
  <2>3. scheduler_next(L).next = [n EXCEPT ![p] = NULL]
    BY <1>5, LinksFields DEF scheduler_next
  <2>4. scheduler_next(L).next[p] = NULL
    BY <2>3, <1>1 DEF NextFcns
  <2> QED BY <2>1, <2>2, <2>4
<1>6. CASE h # p /\ B = {}
  <2> DEFINE e == [n EXCEPT ![p] = NULL]
  <2>1. scheduler_remove(L, p) = Links(e, l, h, t)
    BY <1>6 DEF scheduler_remove, Unlink
  <2>2. e \in NextFcns /\ Acyclic(e)
    BY <1>1, AcyclicCut
  <2>3. e[p] = NULL /\ \A q \in Pcb \ {p} : e[q] = n[q]
    BY <1>1 DEF NextFcns
  <2> HIDE DEF e
  <2>4. p \notin Q
    BY <1>1, <1>6, HasPredecessor DEF Before
  <2>5. Chain(e, h) = Q
    BY <2>2, <2>3, <2>4, <1>1, <1>3, ChainAgree
  <2>6. Chain(e, l) \subseteq V
    <3>1. Closed(e, C)
      BY <2>3, <1>2 DEF Closed
    <3>2. Chain(e, l) \subseteq C
      BY <3>1, <1>2, ChainLeast
    <3> QED BY <3>2, <1>1
  <2>7. t # NULL => t \in Q /\ e[t] = NULL
    BY <2>3, <1>1, <1>3
  <2>8. Shape(Links(e, l, h, t), Q, V)
    BY <2>2, <2>5, <2>6, <2>7, <1>1, LinksFields DEF Shape
  <2>9. Q \ {p} = Q
    BY <2>4
  <2>10. scheduler_remove(L, p).next = e
    BY <2>1, LinksFields
  <2>11. Shape(scheduler_remove(L, p), Q \ {p}, V)
    BY <2>1, <2>8, <2>9
  <2> QED BY <2>3, <2>10, <2>11
<1>7. CASE h # p /\ B # {}
  <2> DEFINE x == CHOOSE q \in B : TRUE
             m == [n EXCEPT ![x] = n[p]]
             e == [m EXCEPT ![p] = NULL]
             u == IF t = p THEN x ELSE t
  <2>1. scheduler_remove(L, p) = Links(e, l, h, u)
    BY <1>7 DEF scheduler_remove, Unlink
  <2>2. x \in B
    BY <1>7
  <2> HIDE DEF x
  <2>3. x \in Q /\ x \in Pcb /\ n[x] = p
    BY <2>2, <1>1, <1>3 DEF Before
  <2>4. m \in NextFcns /\ Acyclic(m)
    BY <2>3, <1>1, AcyclicBypass
  <2>5. e \in NextFcns /\ Acyclic(e)
    <3> HIDE DEF m
    <3> QED BY <2>4, AcyclicCut
  <2>6. x # p
    <3>1. {p} \in SUBSET Pcb /\ {p} # {}
      OBVIOUS
    <3> QED BY <3>1, <2>3, <1>1 DEF Acyclic
  <2>7. e[p] = NULL /\ e[x] = n[p] /\ \A q \in Pcb \ {x, p} : e[q] = n[q]
    BY <2>3, <2>4, <2>6, <1>1 DEF NextFcns
  <2> HIDE DEF e, m
  <2>8. Chain(e, h) = Q \ {p}
    BY <2>2, <2>5, <2>7, <1>1, <1>7, UnlinkChain
  <2>9. Chain(e, l) \subseteq V
    <3>1. ASSUME NEW q \in C PROVE e[q] \in C \cup {NULL}
      <4>1. CASE q = p
        BY <4>1, <2>7
      <4>2. CASE q = x
        <5>1. p \in C
          BY <4>2, <2>3, <1>2, <1>4 DEF Closed
        <5> QED BY <5>1, <4>2, <2>7, <1>2 DEF Closed
      <4>3. CASE q \notin {x, p}
        BY <4>3, <2>7, <1>2 DEF Closed
      <4> QED BY <4>1, <4>2, <4>3
    <3>2. Closed(e, C)
      BY <3>1 DEF Closed
    <3>3. Chain(e, l) \subseteq C
      BY <3>2, <1>2, ChainLeast
    <3> QED BY <3>3, <1>1
  <2>10. h # NULL /\ t # NULL /\ t \in Q /\ n[t] = NULL
    BY <2>3, <1>1, ChainNull
  <2>11. u \in Pcb /\ u # NULL /\ u \in Q \ {p} /\ e[u] = NULL
    <3>1. CASE t = p
      BY <3>1, <2>3, <2>6, <2>7, <2>10, ProcessAssumption
    <3>2. CASE t # p
      <4>1. t # x
        BY <2>3, <2>10, <1>4
      <4>2. t \in Pcb \ {x, p}
        BY <4>1, <3>2, <2>10, <1>3
      <4> QED BY <4>2, <3>2, <2>7, <2>10
    <3> QED BY <3>1, <3>2
  <2> HIDE DEF u
  <2>12. Shape(Links(e, l, h, u), Q \ {p}, V)
    BY <2>5, <2>8, <2>9, <2>10, <2>11, <1>1, LinksFields DEF Shape
  <2> QED BY <2>1, <2>7, <2>12, LinksFields
<1> QED BY <1>5, <1>6, <1>7

(* process_destroy's removal from the list takes off the list a process    *)
(* that is not queued and links to nobody.                                 *)
LEMMA UnlistShape ==
  ASSUME NEW L, NEW Q, NEW V \in SUBSET Pcb, Shape(L, Q, V), NEW p \in Pcb \ Q,
         L.next[p] = NULL
  PROVE  Shape(RemoveFromList(L, p), Q, V \ {p})
<1> DEFINE n == L.next
           l == L.process_list
           h == L.ready_queue_head
           t == L.ready_queue_tail
           B == Before(n, l, p)
           C == Chain(n, l)
<1>1. /\ n \in NextFcns /\ l \in Pcb \cup {NULL} /\ h \in Pcb \cup {NULL}
      /\ t \in Pcb \cup {NULL} /\ Acyclic(n) /\ Chain(n, h) = Q
      /\ t = NULL <=> h = NULL
      /\ t # NULL => t \in Q /\ n[t] = NULL
      /\ C \subseteq V /\ n[p] = NULL
  BY DEF Shape
<1>2. Q \subseteq Pcb /\ Closed(n, Q) /\ p # NULL
  BY <1>1, ChainClosed, ProcessAssumption
<1>3. CASE l = p
  <2>1. RemoveFromList(L, p) = Links(n, NULL, h, t)
    BY <1>1, <1>3 DEF RemoveFromList
  <2>2. Chain(n, NULL) \subseteq V \ {p}
    BY ChainNull
  <2> QED BY <2>1, <2>2, <1>1, LinksFields DEF Shape
<1>4. CASE l # p /\ B = {}
  <2>1. RemoveFromList(L, p) = Links(n, l, h, t)
    BY <1>4 DEF RemoveFromList, Unlink
  <2>2. p \notin C
    BY <1>1, <1>4, HasPredecessor DEF Before
  <2>3. Chain(n, l) \subseteq V \ {p}
    BY <2>2, <1>1
  <2> QED BY <2>1, <2>3, <1>1, LinksFields DEF Shape
<1>5. CASE l # p /\ B # {}
  <2> DEFINE x == CHOOSE q \in B : TRUE
             m == [n EXCEPT ![x] = n[p]]
  <2>1. RemoveFromList(L, p) = Links(m, l, h, t)
    BY <1>5 DEF RemoveFromList, Unlink
  <2>2. x \in B
    BY <1>5
  <2> HIDE DEF x
  <2>3. x \in C /\ x \in Pcb /\ n[x] = p
    BY <2>2, ChainClosed DEF Before
  <2>4. m \in NextFcns /\ Acyclic(m)
    BY <2>3, <1>1, AcyclicBypass
  <2>5. x # p
    BY <2>3, <1>1, <1>2
  <2>6. m[x] = NULL /\ m[p] = NULL /\ \A q \in Pcb \ {x} : m[q] = n[q]
    BY <2>3, <2>5, <1>1 DEF NextFcns
  <2> HIDE DEF m
  <2>7. Chain(m, l) = C \ {p}
    BY <2>2, <2>4, <2>6, <1>1, <1>5, UnlinkChain
  <2>8. x \notin Q
    BY <2>3, <1>2 DEF Closed
  <2>9. \A q \in Q : m[q] = n[q]
    BY <2>6, <2>8, <1>2
  <2>10. Chain(m, h) = Q
    BY <2>4, <2>9, <1>1, ChainAgree
  <2>11. Chain(m, l) \subseteq V \ {p}
    BY <2>7, <1>1
  <2>12. t # NULL => t \in Q /\ m[t] = NULL
    BY <2>9, <1>1
  <2>13. Shape(Links(m, l, h, t), Q, V \ {p})
    BY <2>4, <2>10, <2>11, <2>12, <1>1, LinksFields DEF Shape
  <2> QED BY <2>1, <2>13
<1> QED BY <1>3, <1>4, <1>5

----------------------------------------------------------------------------
(* The inductive invariant: the queue holds the ready processes, the list  *)
(* stays among the live ones, and the links they share have no cycle.      *)
ReadySet(cur, alive, st) == {p \in alive : st[p] = "READY" /\ p # cur}

ProcessInv ==
  /\ TypeOK
  /\ current_process # NULL => state[current_process] # "NEW"
  /\ Shape(links, ReadySet(current_process, live, state), live)

(* scheduler_init leaves empty lists.                                      *)
LEMMA InitInv == Init => ProcessInv
<1> SUFFICES ASSUME Init PROVE ProcessInv
  OBVIOUS
<1> DEFINE n == [p \in Pcb |-> NULL]
<1>1. links = Links(n, NULL, NULL, NULL)
  BY DEF Init, Links
<1>2. n \in NextFcns
  BY DEF NextFcns
<1>3. Acyclic(n)
  <2>1. ASSUME NEW S \in SUBSET Pcb, S # {} PROVE \E p \in S : n[p] \notin S
    BY <2>1, ProcessAssumption
  <2> QED BY <2>1 DEF Acyclic
<1>4. ReadySet(current_process, live, state) = {} /\ live = {}
  BY DEF Init, ReadySet
<1>5. Shape(links, {}, {})
  <2> HIDE DEF n
  <2> QED BY <1>1, <1>2, <1>3, ChainNull, LinksFields DEF Shape
<1>6. TypeOK
  <2>1. links.next \in [Pcb -> Pcb \cup {NULL}]
    BY <1>1, <1>2, LinksFields DEF NextFcns
  <2>2. {links.process_list, links.ready_queue_head, links.ready_queue_tail}
          \subseteq Pcb \cup {NULL}
    BY <1>1, LinksFields
  <2>3. Cardinality(live) = 0
    BY <1>4, FS_EmptySet
  <2>4. time_used \in [Pcb -> 0..(TimeWrap - 1)]
    BY ProcessAssumption DEF Init
  <2>5. halted \in BOOLEAN
    BY DEF Init
  <2> QED BY <2>1, <2>2, <2>3, <2>4, <2>5, ProcessAssumption DEF Init, TypeOK
<1>7. current_process = NULL
  BY DEF Init
<1> QED BY <1>4, <1>5, <1>6, <1>7 DEF ProcessInv
(* The fields of links that Shape fixes have their C types.                *)
LEMMA ShapeTypes ==
  ASSUME NEW L, NEW Q, NEW V, Shape(L, Q, V)
  PROVE  /\ L.next \in [Pcb -> Pcb \cup {NULL}]
         /\ {L.process_list, L.ready_queue_head, L.ready_queue_tail}
              \subseteq Pcb \cup {NULL}
BY DEF Shape, NextFcns

(* What process_create and sys_fork share: the counter, the stack frame    *)
(* and the PCB of the new process.                                         *)
LEMMA NewProcessTypes ==
  ASSUME TypeOK, NEW p \in Pcb, NewProcess(p)
  PROVE  /\ p \notin live /\ live' = live \cup {p} /\ live' \subseteq Pcb
         /\ current_process' = current_process /\ current_process' \in live' \cup {NULL}
         /\ p # current_process
         /\ process_count' = Cardinality(live') /\ process_count' <= MAX_PROCESSES
         /\ time_used' \in [Pcb -> 0..(TimeWrap - 1)]
         /\ stack' \in [live' -> Frames]
<1>1. p \notin live /\ live' = live \cup {p} /\ live' \subseteq Pcb
  BY DEF NewProcess, TypeOK
<1>2. current_process' = current_process /\ current_process' \in live' \cup {NULL}
      /\ p # current_process
  BY <1>1, ProcessAssumption DEF NewProcess, TypeOK
<1>3. IsFiniteSet(live)
  BY FS_Subset, ProcessAssumption DEF TypeOK
<1>4. Cardinality(live') = Cardinality(live) + 1 /\ Cardinality(live) \in Nat
  BY <1>1, <1>3, FS_AddElement, FS_CardinalityType
<1>5. process_count' = Cardinality(live') /\ process_count' <= MAX_PROCESSES
  BY <1>4, ProcessAssumption DEF NewProcess, CreateFails, TypeOK
<1>6. time_used' \in [Pcb -> 0..(TimeWrap - 1)]
  BY ProcessAssumption DEF NewProcess, TypeOK
<1>7. stack' \in [live' -> Frames]
  BY <1>1 DEF NewProcess, FreeFrames, TypeOK
<1> QED BY <1>1, <1>2, <1>5, <1>6, <1>7

(* Every call keeps the invariant.                                         *)
LEMMA StepInv == ProcessInv /\ [Next]_vars => ProcessInv'
<1> SUFFICES ASSUME ProcessInv, [Next]_vars PROVE ProcessInv'
  OBVIOUS
<1> DEFINE Q == ReadySet(current_process, live, state)
<1>0. /\ TypeOK /\ Shape(links, Q, live)
      /\ current_process # NULL => state[current_process] # "NEW"
  BY DEF ProcessInv
<1>T. /\ live \subseteq Pcb /\ current_process \in live \cup {NULL}
      /\ state \in [Pcb -> {"NEW", "READY", "TERMINATED"}]
      /\ time_used \in [Pcb -> 0..(TimeWrap - 1)] /\ stack \in [live -> Frames]
      /\ process_count = Cardinality(live) /\ process_count <= MAX_PROCESSES
      /\ live \in SUBSET Pcb
  BY <1>0 DEF TypeOK
<1>H. halted' \in BOOLEAN
  BY <1>0 DEF TypeOK, Next, sys_fork_faults, vars
<1>Q. Q \subseteq live /\ \A p \in Pcb : p \in Q <=> p \in live /\ state[p] = "READY" /\ p # current_process
  BY <1>T DEF ReadySet
<1>S. ASSUME NEW R, NEW V, R = ReadySet(current_process', live', state'), V = live',
             Shape(links', R, V),
             live' \subseteq Pcb, current_process' \in live' \cup {NULL},
             process_count' = Cardinality(live'), process_count' <= MAX_PROCESSES,
             state' \in [Pcb -> {"NEW", "READY", "TERMINATED"}],
             time_used' \in [Pcb -> 0..(TimeWrap - 1)],
             stack' \in [live' -> Frames],
             current_process' # NULL => state'[current_process'] # "NEW"
      PROVE  ProcessInv'
  <2>1. /\ links'.next \in [Pcb -> Pcb \cup {NULL}]
        /\ {links'.process_list, links'.ready_queue_head, links'.ready_queue_tail}
             \subseteq Pcb \cup {NULL}
    BY <1>S, ShapeTypes
  <2>2. TypeOK'
    BY <2>1, <1>S, <1>H DEF TypeOK
  <2>3. Shape(links', ReadySet(current_process', live', state'), live')
    BY <1>S
  <2> QED BY <2>2, <2>3, <1>S DEF ProcessInv
<1> HIDE DEF Q
<1>1. ASSUME NEW p \in Pcb, process_create(p) PROVE ProcessInv'
  <2>1. NewProcess(p) /\ links' = AddToList(links, p) /\ state' = [state EXCEPT ![p] = "NEW"]
    BY <1>1 DEF process_create
  <2>2. /\ p \notin live /\ live' = live \cup {p} /\ live' \subseteq Pcb
        /\ current_process' = current_process /\ current_process' \in live' \cup {NULL}
        /\ process_count' = Cardinality(live') /\ process_count' <= MAX_PROCESSES
        /\ time_used' \in [Pcb -> 0..(TimeWrap - 1)]
        /\ stack' \in [live' -> Frames] /\ p # current_process
    BY <2>1, <1>0, NewProcessTypes
  <2>3. Shape(links', Q, live \cup {p})
    BY <2>1, <2>2, <1>0, <1>T, <1>Q, FrontShape
  <2>4. Q = ReadySet(current_process', live', state')
    BY <2>1, <2>2, <1>T, <1>Q DEF ReadySet
  <2>5. state' \in [Pcb -> {"NEW", "READY", "TERMINATED"}]
    BY <2>1, <1>T
  <2>6. current_process' # NULL => state'[current_process'] # "NEW"
    BY <2>1, <2>2, <1>0, <1>T
  <2> QED BY <2>2, <2>3, <2>4, <2>5, <2>6, <1>S
<1>2. ASSUME NEW p \in Pcb, Admit(p) PROVE ProcessInv'
  <2>1. /\ p \in live /\ state[p] = "NEW" /\ links' = scheduler_add(links, p)
        /\ state' = [state EXCEPT ![p] = "READY"]
        /\ UNCHANGED <<process_count, current_process, live, time_used, stack>>
    BY <1>2 DEF Admit
  <2>2. p # current_process /\ p \notin Q
    BY <2>1, <1>0, <1>T, <1>Q, ProcessAssumption
  <2>3. Shape(links', Q \cup {p}, live)
    BY <2>1, <2>2, <1>0, <1>T, AddShape
  <2>4. Q \cup {p} = ReadySet(current_process', live', state')
    BY <2>1, <2>2, <1>T, <1>Q DEF ReadySet
  <2>5. state' \in [Pcb -> {"NEW", "READY", "TERMINATED"}]
    BY <2>1, <1>T
  <2>6. current_process' # NULL => state'[current_process'] # "NEW"
    BY <2>1, <2>2, <1>0, <1>T
  <2> QED BY <2>1, <2>3, <2>4, <2>5, <2>6, <1>S, <1>T
<1>3. ASSUME NEW p \in Pcb, sys_fork(p) PROVE ProcessInv'
  <2>1. /\ NewProcess(p) /\ links' = scheduler_add(AddToList(links, p), p)
        /\ state' = [state EXCEPT ![p] = "READY"]
    BY <1>3 DEF sys_fork
  <2>2. /\ p \notin live /\ live' = live \cup {p} /\ live' \subseteq Pcb
        /\ current_process' = current_process /\ current_process' \in live' \cup {NULL}
        /\ process_count' = Cardinality(live') /\ process_count' <= MAX_PROCESSES
        /\ time_used' \in [Pcb -> 0..(TimeWrap - 1)]
        /\ stack' \in [live' -> Frames] /\ p # current_process
    BY <2>1, <1>0, NewProcessTypes
  <2>3. Shape(AddToList(links, p), Q, live \cup {p})
    BY <2>2, <1>0, <1>T, <1>Q, FrontShape
  <2>4. Shape(links', Q \cup {p}, live \cup {p})
    <3>1. p \notin Q /\ live \cup {p} \in SUBSET Pcb
      BY <2>2, <1>Q, <1>T
    <3> QED BY <3>1, <2>1, <2>3, AddShape
  <2>5. Q \cup {p} = ReadySet(current_process', live', state')
    BY <2>1, <2>2, <1>T, <1>Q DEF ReadySet
  <2>6. state' \in [Pcb -> {"NEW", "READY", "TERMINATED"}]
    BY <2>1, <1>T
  <2>7. current_process' # NULL => state'[current_process'] # "NEW"
    BY <2>1, <2>2, <1>0, <1>T
  <2> QED BY <2>2, <2>4, <2>5, <2>6, <2>7, <1>S
<1>4. ASSUME NEW p \in Pcb, process_destroy(p) PROVE ProcessInv'
  <2> DEFINE M == scheduler_remove(links, p)
  <2>1. /\ p \in live /\ p # current_process
        /\ links' = RemoveFromList(M, p)
        /\ live' = live \ {p} /\ stack' = [q \in live \ {p} |-> stack[q]]
        /\ process_count' = process_count - 1
        /\ state' = [state EXCEPT ![p] = "NEW"]
        /\ time_used' = [time_used EXCEPT ![p] = 0]
        /\ current_process' = current_process
    BY <1>4 DEF process_destroy
  <2>2. Shape(M, Q \ {p}, live) /\ M.next[p] = NULL
    BY <1>0, <1>T, RemoveShape
  <2> HIDE DEF M
  <2>3. Shape(links', Q \ {p}, live \ {p})
    BY <2>1, <2>2, <1>T, UnlistShape
  <2>4. Q \ {p} = ReadySet(current_process', live', state')
    BY <2>1, <1>T, <1>Q DEF ReadySet
  <2>5. /\ state' \in [Pcb -> {"NEW", "READY", "TERMINATED"}]
        /\ time_used' \in [Pcb -> 0..(TimeWrap - 1)]
        /\ stack' \in [live' -> Frames]
        /\ live' \subseteq Pcb /\ current_process' \in live' \cup {NULL}
    BY <2>1, <1>T, ProcessAssumption
  <2>6. process_count' = Cardinality(live') /\ process_count' <= MAX_PROCESSES
    <3>1. IsFiniteSet(live)
      BY FS_Subset, ProcessAssumption, <1>T
    <3>2. Cardinality(live') = Cardinality(live) - 1 /\ Cardinality(live) \in Nat
      BY <3>1, <2>1, FS_RemoveElement, FS_CardinalityType
    <3> QED BY <3>2, <2>1, <1>T, ProcessAssumption
  <2>7. current_process' # NULL => state'[current_process'] # "NEW"
    BY <2>1, <1>0, <1>T
  <2> QED BY <2>1, <2>3, <2>4, <2>5, <2>6, <2>7, <1>S
<1>5. ASSUME process_create_null PROVE ProcessInv'
  BY <1>5, <1>0, <1>T, <1>S DEF process_create_null, processVars, Q
<1>6. ASSUME Start PROVE ProcessInv'
  <2> DEFINE h == links.ready_queue_head
  <2>1. /\ current_process = NULL /\ h # NULL
        /\ links' = scheduler_next(links) /\ current_process' = h
        /\ UNCHANGED <<process_count, live, state, time_used, stack>>
    BY <1>6 DEF Start
  <2>2. h \in Q /\ Shape(links', Q \ {h}, live)
    BY <2>1, <1>0, <1>T, NextShape
  <2> HIDE DEF h
  <2>3. Q \ {h} = ReadySet(current_process', live', state')
    BY <2>1, <2>2, <1>T, <1>Q, ProcessAssumption DEF ReadySet
  <2>4. current_process' \in live' \cup {NULL} /\ state'[current_process'] # "NEW"
    BY <2>1, <2>2, <1>Q, <1>T
  <2> QED BY <2>1, <2>2, <2>3, <2>4, <1>S, <1>T
<1>7. ASSUME sys_exit PROVE ProcessInv'
  <2> DEFINE M == scheduler_remove(links, current_process)
             h == M.ready_queue_head
  <2>1. /\ current_process # NULL /\ state' = [state EXCEPT ![current_process] = "TERMINATED"]
        /\ IF h = NULL THEN links' = M /\ current_process' = current_process
           ELSE links' = scheduler_next(M) /\ current_process' = h
        /\ UNCHANGED <<process_count, live, time_used, stack>>
    BY <1>7 DEF sys_exit
  <2>2. current_process \in live /\ current_process \in Pcb /\ current_process \notin Q
    BY <2>1, <1>T, <1>Q
  <2>3. Shape(M, Q, live)
    <3>1. Shape(M, Q \ {current_process}, live)
      BY <2>2, <1>0, <1>T, RemoveShape
    <3>2. Q \ {current_process} = Q
      BY <2>2
    <3> QED BY <3>1, <3>2
  <2> HIDE DEF M
  <2>4. /\ state' \in [Pcb -> {"NEW", "READY", "TERMINATED"}]
        /\ state'[current_process] = "TERMINATED"
        /\ \A q \in Pcb \ {current_process} : state'[q] = state[q]
    BY <2>1, <2>2, <1>T
  <2>5. CASE h = NULL
    <3>1. Q = ReadySet(current_process', live', state')
      BY <2>1, <2>2, <2>4, <2>5, <1>T, <1>Q DEF ReadySet
    <3>2. links' = M /\ current_process' = current_process
      BY <2>1, <2>5
    <3>3. state'[current_process'] # "NEW"
      BY <3>2, <2>4
    <3> QED BY <3>1, <3>2, <3>3, <2>1, <2>3, <2>4, <1>S, <1>T
  <2>6. CASE h # NULL
    <3>1. h \in Q /\ Shape(scheduler_next(M), Q \ {h}, live)
      BY <2>3, <2>6, <1>T, NextShape
    <3>2. links' = scheduler_next(M) /\ current_process' = h
      BY <2>1, <2>6
    <3> HIDE DEF h
    <3>3. Q \ {h} = ReadySet(current_process', live', state')
      BY <3>1, <3>2, <2>1, <2>2, <2>4, <1>T, <1>Q DEF ReadySet
    <3>4. current_process' \in live' \cup {NULL} /\ state'[current_process'] # "NEW"
      BY <3>1, <3>2, <2>1, <2>2, <2>4, <1>Q, <1>T
    <3> QED BY <3>1, <3>2, <3>3, <3>4, <2>1, <2>4, <1>S, <1>T
  <2> QED BY <2>5, <2>6
<1>8. ASSUME scheduler_tick_stay PROVE ProcessInv'
  <2>1. /\ current_process # NULL
        /\ time_used' = [time_used EXCEPT ![current_process] = Ticked]
        /\ UNCHANGED <<links, process_count, current_process, live, state, stack>>
    BY <1>8 DEF scheduler_tick_stay
  <2>2. Ticked \in 0..(TimeWrap - 1)
    <3>1. time_used[current_process] \in Nat
      BY <2>1, <1>T
    <3> QED BY <3>1, ProcessAssumption DEF Ticked
  <2>3. time_used' \in [Pcb -> 0..(TimeWrap - 1)]
    BY <2>1, <2>2, <1>T
  <2> QED BY <2>1, <2>3, <1>0, <1>T, <1>S DEF Q
<1>9. ASSUME scheduler_tick_switch PROVE ProcessInv'
  <2> DEFINE h == links.ready_queue_head
             M == scheduler_next(links)
  <2>1. /\ current_process # NULL /\ h # NULL
        /\ time_used' = [time_used EXCEPT ![current_process] = 0]
        /\ links' = scheduler_add(M, current_process)
        /\ state' = [state EXCEPT ![current_process] = "READY"]
        /\ current_process' = h
        /\ UNCHANGED <<process_count, live, stack>>
    BY <1>9 DEF scheduler_tick_switch
  <2>2. h \in Q /\ Shape(M, Q \ {h}, live)
    BY <2>1, <1>0, <1>T, NextShape
  <2> HIDE DEF h, M
  <2>3. current_process \in live /\ current_process \in Pcb /\ current_process \notin Q
    BY <2>1, <1>T, <1>Q
  <2>4. Shape(links', (Q \ {h}) \cup {current_process}, live)
    BY <2>1, <2>2, <2>3, <1>T, AddShape
  <2>5. (Q \ {h}) \cup {current_process} = ReadySet(current_process', live', state')
    BY <2>1, <2>2, <2>3, <1>T, <1>Q DEF ReadySet
  <2>6. /\ state' \in [Pcb -> {"NEW", "READY", "TERMINATED"}]
        /\ time_used' \in [Pcb -> 0..(TimeWrap - 1)]
    BY <2>1, <2>3, <1>T, ProcessAssumption
  <2>7. current_process' \in live' \cup {NULL} /\ state'[current_process'] # "NEW"
    BY <2>1, <2>2, <2>3, <1>Q, <1>T
  <2> QED BY <2>1, <2>4, <2>5, <2>6, <2>7, <1>S, <1>T
<1>10. ASSUME UNCHANGED vars PROVE ProcessInv'
  BY <1>10, <1>0, <1>T, <1>S DEF vars, processVars, Q
<1>11. ASSUME NEW p \in Pcb, sys_fork_faults(p) PROVE ProcessInv'
  BY <1>11, <1>1 DEF sys_fork_faults
<1>12. ASSUME Step PROVE ProcessInv'
  BY <1>12, <1>1, <1>2, <1>3, <1>4, <1>5, <1>6, <1>7, <1>8, <1>9 DEF Step, scheduler_tick
<1> QED BY <1>10, <1>11, <1>12 DEF Next

(* The invariant holds in every reachable state.                           *)
LEMMA AlwaysInv == Spec => []ProcessInv
BY InitInv, StepInv, PTL DEF Spec

----------------------------------------------------------------------------
(* process.c keeps its types, and process_count is the number of control   *)
(* blocks that exist, for any number of them.                              *)
THEOREM ProcessTypeCorrect == Spec => []TypeOK
<1>1. ProcessInv => TypeOK
  BY DEF ProcessInv
<1> QED BY <1>1, AlwaysInv, PTL

(* The ready queue holds exactly the ready processes that are not running, *)
(* and ends at ready_queue_tail.                                           *)
THEOREM ReadyQueueExact == Spec => []QueueHoldsReady
<1>1. ProcessInv => QueueHoldsReady
  BY DEF ProcessInv, Shape, ReadySet, QueueHoldsReady, Queued
<1> QED BY <1>1, AlwaysInv, PTL

(* process_destroy's walk along process_list meets live control blocks     *)
(* only and ends.                                                          *)
THEOREM ListWalksSafe == Spec => []WalksStayLive
<1>1. ASSUME ProcessInv PROVE WalksStayLive
  <2> DEFINE C == Chain(links.next, links.process_list)
  <2>1. links.next \in NextFcns /\ Acyclic(links.next) /\ C \subseteq live
    BY <1>1 DEF ProcessInv, Shape
  <2>2. C \in SUBSET Pcb /\ Closed(links.next, C)
    BY <2>1, ChainClosed
  <2> HIDE DEF C
  <2>3. ASSUME C # {} PROVE \E p \in C : links.next[p] = NULL
    <3>1. PICK p \in C : links.next[p] \notin C
      BY <2>1, <2>2, <2>3 DEF Acyclic
    <3>2. links.next[p] = NULL
      BY <3>1, <2>2 DEF Closed
    <3> QED BY <3>2
  <2> QED BY <2>1, <2>3 DEF WalksStayLive, C
<1> QED BY <1>1, AlwaysInv, PTL
----------------------------------------------------------------------------
(* The queue in its order.                                                 *)

Rank(next, p) == Cardinality(Chain(next, p))

(* s lists the nodes Q of a walk along next in the order of the walk.      *)
Ordered(s, next, Q) ==
  /\ s \in [1..Cardinality(Q) -> Q]
  /\ \A i \in 1..Cardinality(Q) : Rank(next, s[i]) = Cardinality(Q) - i + 1

(* A walk meets finitely many nodes.                                       *)
LEMMA ChainFinite ==
  ASSUME NEW next, NEW a
  PROVE  IsFiniteSet(Chain(next, a)) /\ Rank(next, a) \in Nat
<1>1. Chain(next, a) \in SUBSET Pcb
  BY ChainClosed
<1>2. IsFiniteSet(Chain(next, a))
  BY <1>1, FS_Subset, ProcessAssumption
<1> QED BY <1>2, FS_CardinalityType DEF Rank

(* Further along the walk the rank is lower.                               *)
LEMMA RankFalls ==
  ASSUME NEW next \in NextFcns, NEW p, NEW q \in Chain(next, p)
  PROVE  Rank(next, q) <= Rank(next, p) /\ (Rank(next, q) = Rank(next, p) => Chain(next, q) = Chain(next, p))
<1>1. IsFiniteSet(Chain(next, p)) /\ Chain(next, q) \in SUBSET Chain(next, p)
  BY ChainFinite, ChainWithin
<1> QED BY <1>1, FS_Subset DEF Rank

(* The rank of a node tells it from the others on the walk, and orders them.*)
LEMMA RankTells ==
  ASSUME NEW next \in NextFcns, Acyclic(next), NEW a \in Pcb \cup {NULL},
         NEW p \in Chain(next, a), NEW q \in Chain(next, a)
  PROVE  /\ Rank(next, p) = Rank(next, q) => p = q
         /\ Rank(next, q) <= Rank(next, p) => q \in Chain(next, p)
<1>0. p \in Pcb /\ q \in Pcb
  BY ChainClosed
<1>1. \A u, v \in Pcb : u \in Chain(next, v) /\ Chain(next, u) = Chain(next, v) => u = v
  <2> SUFFICES ASSUME NEW u \in Pcb, NEW v \in Pcb, u \in Chain(next, v),
                      Chain(next, u) = Chain(next, v), u # v
               PROVE  FALSE
    OBVIOUS
  <2>1. u \in Chain(next, next[v])
    BY ChainStep
  <2>2. Chain(next, u) \subseteq Chain(next, next[v])
    BY <2>1, ChainWithin
  <2>3. v \in Chain(next, v)
    BY ChainClosed, ProcessAssumption
  <2> QED BY <2>2, <2>3, NoReturn
<1>2. p \in Chain(next, q) \/ q \in Chain(next, p)
  BY ChainLinear
<1>3. Rank(next, p) = Rank(next, q) => p = q
  <2>1. ASSUME Rank(next, p) = Rank(next, q), p \in Chain(next, q) PROVE p = q
    <3>1. Chain(next, p) = Chain(next, q)
      BY <2>1, RankFalls
    <3> QED BY <3>1, <2>1, <1>0, <1>1
  <2>2. ASSUME Rank(next, p) = Rank(next, q), q \in Chain(next, p) PROVE p = q
    <3>1. Chain(next, p) = Chain(next, q)
      BY <2>2, RankFalls
    <3> QED BY <3>1, <2>2, <1>0, <1>1
  <2> QED BY <2>1, <2>2, <1>2
<1>4. ASSUME Rank(next, q) <= Rank(next, p) PROVE q \in Chain(next, p)
  <2>1. ASSUME p \in Chain(next, q) PROVE q \in Chain(next, p)
    <3>1. Rank(next, p) <= Rank(next, q)
      BY <2>1, RankFalls
    <3>2. Rank(next, p) \in Nat /\ Rank(next, q) \in Nat
      BY ChainFinite
    <3>3. p = q
      BY <3>1, <3>2, <1>3, <1>4
    <3> QED BY <3>3, <2>1
  <2> QED BY <2>1, <1>2
<1> QED BY <1>3, <1>4

(* There is one such order, and it names every node.                       *)
LEMMA OrderUnique ==
  ASSUME NEW next \in NextFcns, Acyclic(next), NEW a \in Pcb \cup {NULL}, NEW Q,
         Q = Chain(next, a), NEW s, Ordered(s, next, Q)
  PROVE  InOrder(next, Q) = s
<1> DEFINE n == Cardinality(Q)
<1>1. s \in [1..n -> Q] /\ \A i \in 1..n : Rank(next, s[i]) = n - i + 1
  BY DEF Ordered
<1>2. ASSUME NEW i \in 1..n
      PROVE  s[i] = CHOOSE p \in Q : Cardinality(Chain(next, p)) = n - i + 1
  <2>1. s[i] \in Q /\ Rank(next, s[i]) = n - i + 1
    BY <1>1
  <2>2. \A p \in Q : Rank(next, p) = n - i + 1 => p = s[i]
    BY <2>1, RankTells
  <2> HIDE DEF n
  <2> QED BY <2>1, <2>2 DEF Rank
<1>3. InOrder(next, Q) = [i \in 1..n |-> CHOOSE p \in Q : Cardinality(Chain(next, p)) = n - i + 1]
  BY DEF InOrder
<1> HIDE DEF n
<1> QED BY <1>1, <1>2, <1>3

(* Every node of the queue has a place in the sequence.                    *)
LEMMA OrderOnto ==
  ASSUME NEW next \in NextFcns, Acyclic(next), NEW a \in Pcb \cup {NULL}, NEW Q,
         Q = Chain(next, a), NEW s, Ordered(s, next, Q), NEW p \in Q
  PROVE  /\ Cardinality(Q) \in Nat /\ Rank(next, p) \in 1..Cardinality(Q)
         /\ s[Cardinality(Q) - Rank(next, p) + 1] = p
<1> DEFINE n == Cardinality(Q)
           r == Rank(next, p)
           i == n - r + 1
<1>1. n \in Nat /\ IsFiniteSet(Q)
  BY ChainFinite DEF Rank
<1>2. r \in 1..n
  <2>1. Chain(next, p) \in SUBSET Q /\ IsFiniteSet(Chain(next, p)) /\ r \in Nat
    BY ChainWithin, ChainFinite
  <2>2. p \in Chain(next, p)
    BY ChainClosed, ProcessAssumption
  <2>3. r # 0
    BY <2>1, <2>2, FS_EmptySet DEF Rank
  <2>4. r <= n
    BY <2>1, <1>1, FS_Subset DEF Rank
  <2> QED BY <2>1, <2>3, <2>4, <1>1
<1>3. i \in 1..n /\ n - i + 1 = r
  BY <1>1, <1>2
<1>4. s[i] \in Q /\ Rank(next, s[i]) = r
  <2> HIDE DEF i, r
  <2> QED BY <1>3 DEF Ordered
<1>5. s[i] = p
  BY <1>4, RankTells
<1> QED BY <1>1, <1>2, <1>5

----------------------------------------------------------------------------
(* What the calls do to the order.                                         *)

(* The start of the walk comes first.                                      *)
LEMMA OrderFirst ==
  ASSUME NEW next \in NextFcns, Acyclic(next), NEW a \in Pcb, NEW Q,
         Q = Chain(next, a), NEW s, Ordered(s, next, Q)
  PROVE  Cardinality(Q) \in Nat \ {0} /\ s[1] = a
<1>1. a \in Q
  BY ChainClosed, ProcessAssumption
<1>2. /\ Cardinality(Q) \in Nat /\ Rank(next, a) \in 1..Cardinality(Q)
      /\ s[Cardinality(Q) - Rank(next, a) + 1] = a
  BY <1>1, OrderOnto
<1>3. Rank(next, a) = Cardinality(Q)
  BY DEF Rank
<1>4. Cardinality(Q) - Rank(next, a) + 1 = 1
  BY <1>2, <1>3
<1> QED BY <1>2, <1>4

(* Links of other nodes do not matter.                                     *)
LEMMA OrderAgree ==
  ASSUME NEW next \in NextFcns, NEW m \in NextFcns, NEW a \in Pcb \cup {NULL}, NEW Q,
         Q = Chain(next, a), \A q \in Q : m[q] = next[q], NEW s, Ordered(s, next, Q)
  PROVE  Ordered(s, m, Q)
<1>1. ASSUME NEW q \in Q PROVE Rank(m, q) = Rank(next, q)
  <2>1. q \in Pcb /\ Chain(next, q) \subseteq Q
    BY ChainClosed, ChainWithin
  <2>2. Chain(m, q) = Chain(next, q)
    BY <2>1, ChainAgree
  <2> QED BY <2>2 DEF Rank
<1> QED BY <1>1 DEF Ordered

(* Appending.                                                              *)
LEMMA OrderAppend ==
  ASSUME NEW next \in NextFcns, Acyclic(next), NEW m \in NextFcns,
         NEW a \in Pcb \cup {NULL}, NEW Q, Q = Chain(next, a),
         NEW p \in Pcb \ Q, m[p] = NULL, NEW t \in Pcb \cup {NULL},
         t = NULL <=> a = NULL,
         t # NULL => t \in Q /\ next[t] = NULL /\ m[t] = p,
         \A q \in Pcb \ {p, t} : m[q] = next[q],
         NEW s, Ordered(s, next, Q)
  PROVE  Ordered(Append(s, p), m, Q \cup {p})
<1> DEFINE n == Cardinality(Q)
<1>1. Q \subseteq Pcb /\ IsFiniteSet(Q) /\ n \in Nat
  BY ChainClosed, ChainFinite, FS_CardinalityType
<1>2. Cardinality(Q \cup {p}) = n + 1
  BY <1>1, FS_AddElement
<1>3. s \in [1..n -> Q] /\ \A i \in 1..n : Rank(next, s[i]) = n - i + 1
  BY DEF Ordered
<1>4. Rank(m, p) = 1
  <2>1. Chain(m, p) = {p}
    BY ChainStep, ChainNull
  <2> QED BY <2>1, FS_Singleton DEF Rank
<1>5. ASSUME NEW q \in Q PROVE Rank(m, q) = Rank(next, q) + 1
  <2>1. q \in Pcb /\ p \notin Chain(next, q) /\ IsFiniteSet(Chain(next, q))
    BY <1>1, ChainWithin, ChainFinite
  <2>2. t # NULL
    BY ChainNull
  <2>3. t \in Chain(next, q)
    <3>1. t \in Q /\ next[t] = NULL /\ t \in Pcb
      BY <2>2
    <3>2. Chain(next, t) = {t}
      BY <3>1, ChainStep, ChainNull
    <3>3. t \in Chain(next, q) \/ q \in Chain(next, t)
      BY <3>1, ChainLinear
    <3>4. q \in Chain(next, q)
      BY <2>1, ChainClosed, ProcessAssumption
    <3> QED BY <3>2, <3>3, <3>4
  <2>4. Chain(m, q) = Chain(next, q) \cup {p}
    BY <2>1, <2>2, <2>3, AppendChain
  <2> QED BY <2>1, <2>4, FS_AddElement DEF Rank
<1>6. Len(s) = n /\ s \in Seq(Q)
  BY <1>1, <1>3
<1>7. /\ Append(s, p) \in [1..(n + 1) -> Q \cup {p}]
      /\ \A i \in 1..n : Append(s, p)[i] = s[i]
      /\ Append(s, p)[n + 1] = p
  <2> HIDE DEF n
  <2>1. s \in Seq(Q \cup {p}) /\ p \in Q \cup {p}
    BY <1>1, <1>3
  <2>2. /\ Append(s, p) \in Seq(Q \cup {p}) /\ Len(Append(s, p)) = n + 1
        /\ \A i \in 1..n : Append(s, p)[i] = s[i]
        /\ Append(s, p)[n + 1] = p
    BY <2>1, <1>6, AppendProperties
  <2> QED BY <2>2, LenProperties
<1>8. ASSUME NEW i \in 1..(n + 1)
      PROVE  Rank(m, Append(s, p)[i]) = (n + 1) - i + 1
  <2>1. CASE i = n + 1
    BY <2>1, <1>1, <1>4, <1>7
  <2>2. CASE i # n + 1
    <3>1. i \in 1..n
      BY <2>2, <1>1
    <3>2. s[i] \in Q /\ Rank(next, s[i]) = n - i + 1 /\ Append(s, p)[i] = s[i]
      BY <3>1, <1>3, <1>7
    <3>3. Rank(m, s[i]) = (n - i + 1) + 1
      BY <3>2, <1>5
    <3>4. (n - i + 1) + 1 = (n + 1) - i + 1
      BY <3>1, <1>1
    <3> QED BY <3>2, <3>3, <3>4
  <2> QED BY <2>1, <2>2
<1> HIDE DEF n
<1> QED BY <1>2, <1>7, <1>8 DEF Ordered

(* Taking the first off.                                                   *)
LEMMA OrderTail ==
  ASSUME NEW next \in NextFcns, Acyclic(next), NEW m \in NextFcns,
         NEW a \in Pcb, NEW Q, Q = Chain(next, a), \A q \in Pcb \ {a} : m[q] = next[q],
         NEW s, Ordered(s, next, Q)
  PROVE  /\ s \in Seq(Q) /\ s # <<>> /\ Head(s) = a
         /\ Ordered(Tail(s), m, Q \ {a})
<1> DEFINE n == Cardinality(Q)
<1>1. Q \subseteq Pcb /\ IsFiniteSet(Q) /\ a \in Q
  BY ChainClosed, ChainFinite, ProcessAssumption
<1>2. n \in Nat \ {0} /\ s[1] = a
  BY OrderFirst
<1>3. Cardinality(Q \ {a}) = n - 1
  BY <1>1, FS_RemoveElement
<1>4. s \in [1..n -> Q] /\ \A i \in 1..n : Rank(next, s[i]) = n - i + 1
  BY DEF Ordered
<1>5. Len(s) = n /\ s \in Seq(Q) /\ s # <<>> /\ Head(s) = a
  <2> HIDE DEF n
  <2> QED BY <1>2, <1>4
<1>6. \A i \in 1..(n - 1) : i + 1 \in 1..n
  BY <1>2
<1>7. /\ Tail(s) \in [1..(n - 1) -> Q]
      /\ \A i \in 1..(n - 1) : Tail(s)[i] = s[i + 1]
  <2>1. /\ Tail(s) \in Seq(Q) /\ Len(Tail(s)) = n - 1
        /\ \A i \in 1..(n - 1) : Tail(s)[i] = s[i + 1]
    BY <1>5, HeadTailProperties
  <2> QED BY <2>1, LenProperties
<1>8. ASSUME NEW q \in Q \ {a} PROVE Rank(m, q) = Rank(next, q)
  <2>1. q \in Pcb
    BY <1>1
  <2>2. a \notin Chain(next, q)
    <3>1. q \in Chain(next, next[a])
      BY ChainStep
    <3>2. Chain(next, q) \subseteq Chain(next, next[a])
      BY <3>1, ChainWithin
    <3> QED BY <3>2, NoReturn
  <2>3. Chain(next, q) \subseteq Pcb
    BY ChainClosed
  <2>4. Chain(m, q) = Chain(next, q)
    BY <2>1, <2>2, <2>3, ChainAgree
  <2> QED BY <2>4 DEF Rank
<1>9. ASSUME NEW i \in 1..(n - 1)
      PROVE  Tail(s)[i] \in Q \ {a} /\ Rank(m, Tail(s)[i]) = (n - 1) - i + 1
  <2>1. i + 1 \in 1..n /\ Tail(s)[i] = s[i + 1]
    BY <1>6, <1>7
  <2>2. s[i + 1] \in Q /\ Rank(next, s[i + 1]) = n - (i + 1) + 1
    BY <2>1, <1>4
  <2>3. Rank(next, a) = n
    BY DEF Rank
  <2>4. s[i + 1] # a
    BY <2>1, <2>2, <2>3, <1>2
  <2>5. n - (i + 1) + 1 = (n - 1) - i + 1
    BY <1>2
  <2> QED BY <2>1, <2>2, <2>4, <2>5, <1>8
<1> HIDE DEF n
<1>10. Tail(s) \in [1..(n - 1) -> Q \ {a}]
  BY <1>7, <1>9
<1> QED BY <1>3, <1>5, <1>9, <1>10 DEF Ordered
(* s without its k-th element.                                             *)
Without(s, k) == SubSeq(s, 1, k - 1) \o SubSeq(s, k + 1, Len(s))

Shorter(w, s, k, n, S) ==
  /\ w \in [1..(n - 1) -> S]
  /\ \A i \in 1..(n - 1) : w[i] = IF i < k THEN s[i] ELSE s[i + 1]

(* The elements of a sequence without its k-th.                            *)
LEMMA WithoutElements ==
  ASSUME NEW S, NEW n \in Nat, NEW s \in [1..n -> S], NEW k \in 1..n
  PROVE  Shorter(Without(s, k), s, k, n, S)
<1> DEFINE u == SubSeq(s, 1, k - 1)
           v == SubSeq(s, k + 1, n)
<1>1. Len(s) = n /\ s \in Seq(S)
  OBVIOUS
<1>2. /\ u \in Seq(S) /\ Len(u) = k - 1
      /\ \A i \in 1..(k - 1) : u[i] = s[i]
  <2>1. \A i \in 1..(k - 1) : s[i] \in S
    OBVIOUS
  <2>2. /\ u \in Seq(S)
        /\ Len(u) = IF 1 <= k - 1 THEN (k - 1) - 1 + 1 ELSE 0
        /\ \A i \in 1..((k - 1) - 1 + 1) : u[i] = s[1 + i - 1]
    BY <2>1, SubSeqProperties
  <2> HIDE DEF u
  <2>3. Len(u) = k - 1
    BY <2>2
  <2>4. (k - 1) - 1 + 1 = k - 1 /\ \A i \in 1..(k - 1) : 1 + i - 1 = i
    OBVIOUS
  <2> QED BY <2>2, <2>3, <2>4
<1>3. /\ v \in Seq(S) /\ Len(v) = n - k
      /\ \A i \in 1..(n - k) : v[i] = s[k + i]
  <2>1. \A i \in (k + 1)..n : s[i] \in S
    OBVIOUS
  <2>2. /\ v \in Seq(S)
        /\ Len(v) = IF k + 1 <= n THEN n - (k + 1) + 1 ELSE 0
        /\ \A i \in 1..(n - (k + 1) + 1) : v[i] = s[(k + 1) + i - 1]
    BY <2>1, SubSeqProperties
  <2> HIDE DEF v
  <2>3. Len(v) = n - k
    BY <2>2
  <2>4. n - (k + 1) + 1 = n - k /\ \A i \in 1..(n - k) : (k + 1) + i - 1 = k + i
    OBVIOUS
  <2> QED BY <2>2, <2>3, <2>4
<1>4. Without(s, k) = u \o v
  BY <1>1 DEF Without
<1> HIDE DEF u, v
<1>5. /\ u \o v \in Seq(S) /\ Len(u \o v) = Len(u) + Len(v)
      /\ \A i \in 1..(Len(u) + Len(v)) : (u \o v)[i] = IF i <= Len(u) THEN u[i] ELSE v[i - Len(u)]
  BY <1>2, <1>3, ConcatProperties
<1>6. Len(u) + Len(v) = n - 1
  BY <1>2, <1>3
<1>7. u \o v \in [1..(n - 1) -> S]
  BY <1>5, <1>6, LenProperties
<1>8. ASSUME NEW i \in 1..(n - 1)
      PROVE  (u \o v)[i] = IF i < k THEN s[i] ELSE s[i + 1]
  <2>1. (u \o v)[i] = IF i <= k - 1 THEN u[i] ELSE v[i - (k - 1)]
    BY <1>2, <1>5, <1>6
  <2>2. CASE i < k
    <3>1. i <= k - 1 /\ i \in 1..(k - 1)
      BY <2>2
    <3> QED BY <3>1, <2>1, <2>2, <1>2
  <2>3. CASE ~(i < k)
    <3>1. ~(i <= k - 1) /\ i - (k - 1) \in 1..(n - k) /\ k + (i - (k - 1)) = i + 1
      BY <2>3
    <3>2. v[i - (k - 1)] = s[k + (i - (k - 1))]
      BY <3>1, <1>3
    <3> QED BY <3>1, <3>2, <2>1, <2>3
  <2> QED BY <2>2, <2>3
<1> QED BY <1>4, <1>7, <1>8 DEF Shorter

(* Unlinking one that is not the first.                                    *)
LEMMA OrderWithout ==
  ASSUME NEW next \in NextFcns, Acyclic(next), NEW m \in NextFcns,
         NEW a \in Pcb \cup {NULL}, NEW Q, Q = Chain(next, a),
         NEW p \in Pcb, p # a, NEW x \in Before(next, a, p),
         m[x] = next[p], m[p] = NULL, \A q \in Pcb \ {x, p} : m[q] = next[q],
         NEW s, Ordered(s, next, Q), NEW k \in 1..Cardinality(Q), s[k] = p
  PROVE  Ordered(Without(s, k), m, Q \ {p})
<1> DEFINE n == Cardinality(Q)
           w == Without(s, k)
<1>1. Q \subseteq Pcb /\ IsFiniteSet(Q) /\ n \in Nat
  BY ChainClosed, ChainFinite, FS_CardinalityType
<1>2. s \in [1..n -> Q] /\ \A i \in 1..n : Rank(next, s[i]) = n - i + 1
  BY DEF Ordered
<1>3. p \in Q /\ Rank(next, p) = n - k + 1
  BY <1>2
<1>4. Cardinality(Q \ {p}) = n - 1
  BY <1>1, <1>3, FS_RemoveElement
<1>5. x \in Q /\ next[x] = p /\ p # NULL
  BY ProcessAssumption DEF Before
<1>6. ASSUME NEW q \in Q \ {p}, p \in Chain(next, q)
      PROVE  Rank(m, q) = Rank(next, q) - 1
  <2>1. q \in Pcb
    BY <1>1
  <2>2. PICK y \in Chain(next, q) : next[y] = p
    BY <2>1, <1>6, HasPredecessor
  <2>3. y = x
    <3>1. y \in Q
      BY <2>2, ChainWithin
    <3> QED BY <3>1, <2>2, <1>5, OnePredecessor
  <2>4. x \in Before(next, q, p)
    BY <2>2, <2>3 DEF Before
  <2>5. Chain(m, q) = Chain(next, q) \ {p}
    BY <2>1, <2>4, <1>6, UnlinkChain
  <2>6. IsFiniteSet(Chain(next, q))
    BY ChainFinite
  <2> QED BY <2>5, <2>6, <1>6, FS_RemoveElement, ZenonT(30) DEF Rank
<1>7. ASSUME NEW q \in Q \ {p}, p \notin Chain(next, q)
      PROVE  Rank(m, q) = Rank(next, q)
  <2>1. q \in Pcb /\ Chain(next, q) \subseteq Pcb /\ Closed(next, Chain(next, q))
    BY <1>1, ChainClosed
  <2>2. x \notin Chain(next, q)
    BY <2>1, <1>5, <1>7 DEF Closed
  <2>3. Chain(m, q) = Chain(next, q)
    BY <2>1, <2>2, <1>7, ChainAgree
  <2> QED BY <2>3 DEF Rank
<1>8. /\ w \in [1..(n - 1) -> Q]
      /\ \A i \in 1..(n - 1) : w[i] = IF i < k THEN s[i] ELSE s[i + 1]
  <2>1. n \in Nat /\ s \in [1..n -> Q] /\ k \in 1..n
    BY <1>1, <1>2
  <2> HIDE DEF n
  <2>2. Shorter(Without(s, k), s, k, n, Q)
    BY <2>1, WithoutElements
  <2> QED BY <2>2 DEF Shorter
<1> HIDE DEF w
<1>9. ASSUME NEW i \in 1..(n - 1)
      PROVE  w[i] \in Q \ {p} /\ Rank(m, w[i]) = (n - 1) - i + 1
  <2>1. CASE i < k
    <3>1. i \in 1..n /\ w[i] = s[i] /\ s[i] \in Q /\ Rank(next, s[i]) = n - i + 1
      BY <2>1, <1>1, <1>2, <1>8
    <3>2. Rank(next, p) <= Rank(next, s[i]) /\ s[i] # p
      BY <3>1, <2>1, <1>1, <1>3
    <3>3. p \in Chain(next, s[i])
      BY <3>1, <3>2, <1>3, RankTells
    <3>4. Rank(m, s[i]) = (n - i + 1) - 1
      BY <3>1, <3>2, <3>3, <1>6
    <3> QED BY <3>1, <3>2, <3>4, <1>1
  <2>2. CASE ~(i < k)
    <3>0. i + 1 \in 1..n
      BY <1>1
    <3>1. i + 1 \in 1..n /\ w[i] = s[i + 1] /\ s[i + 1] \in Q
          /\ Rank(next, s[i + 1]) = n - (i + 1) + 1
      BY <3>0, <2>2, <1>2, <1>8
    <3>2. ~(Rank(next, p) <= Rank(next, s[i + 1])) /\ s[i + 1] # p
      BY <3>1, <2>2, <1>1, <1>3
    <3>3. p \notin Chain(next, s[i + 1])
      BY <3>2, RankFalls
    <3>4. Rank(m, s[i + 1]) = n - (i + 1) + 1
      BY <3>1, <3>2, <3>3, <1>7
    <3> QED BY <3>1, <3>2, <3>4, <1>1
  <2> QED BY <2>1, <2>2
<1> HIDE DEF n
<1>10. w \in [1..(n - 1) -> Q \ {p}]
  BY <1>8, <1>9
<1> QED BY <1>4, <1>9, <1>10 DEF Ordered, w

----------------------------------------------------------------------------
(* The order of the queue after each operation.                            *)

(* scheduler_add appends to the sequence.                                  *)
LEMMA AddOrder ==
  ASSUME NEW L, NEW Q, NEW V, Shape(L, Q, V), NEW p \in Pcb \ Q,
         NEW s, Ordered(s, L.next, Q)
  PROVE  Ordered(Append(s, p), scheduler_add(L, p).next, Q \cup {p})
<1> DEFINE n == L.next
           h == L.ready_queue_head
           t == L.ready_queue_tail
           e == [n EXCEPT ![p] = NULL]
           m == IF t = NULL THEN e ELSE [e EXCEPT ![t] = p]
<1>1. /\ n \in NextFcns /\ h \in Pcb \cup {NULL}
      /\ t \in Pcb \cup {NULL} /\ Acyclic(n) /\ Chain(n, h) = Q
      /\ t = NULL <=> h = NULL
      /\ t # NULL => t \in Q /\ n[t] = NULL
  BY DEF Shape
<1>2. scheduler_add(L, p).next = m
  BY LinksFields DEF scheduler_add
<1>3. /\ m \in NextFcns /\ m[p] = NULL /\ (t # NULL => m[t] = p)
      /\ \A q \in Pcb \ {p, t} : m[q] = n[q]
  <2>1. CASE t = NULL
    BY <2>1, <1>1 DEF NextFcns
  <2>2. CASE t # NULL
    BY <2>2, <1>1 DEF NextFcns
  <2> QED BY <2>1, <2>2
<1> HIDE DEF m
<1>4. t # NULL => t \in Q /\ n[t] = NULL /\ m[t] = p
  BY <1>1, <1>3
<1> QED BY <1>1, <1>2, <1>3, <1>4, OrderAppend

(* scheduler_next takes the first of the sequence.                         *)
LEMMA NextOrder ==
  ASSUME NEW L, NEW Q, NEW V, Shape(L, Q, V), L.ready_queue_head # NULL,
         NEW s, Ordered(s, L.next, Q)
  PROVE  /\ s \in Seq(Q) /\ s # <<>> /\ Head(s) = L.ready_queue_head
         /\ Ordered(Tail(s), scheduler_next(L).next, Q \ {L.ready_queue_head})
<1> DEFINE n == L.next
           h == L.ready_queue_head
           m == [n EXCEPT ![h] = NULL]
<1>1. n \in NextFcns /\ h \in Pcb /\ Acyclic(n) /\ Chain(n, h) = Q
  BY DEF Shape
<1>2. scheduler_next(L).next = m
  BY LinksFields DEF scheduler_next
<1>3. m \in NextFcns /\ \A q \in Pcb \ {h} : m[q] = n[q]
  BY <1>1 DEF NextFcns
<1>4. Q = Chain(n, h) /\ Ordered(s, n, Q)
  BY <1>1
<1> HIDE DEF m, n, h
<1>5. /\ s \in Seq(Q) /\ s # <<>> /\ Head(s) = h
      /\ Ordered(Tail(s), m, Q \ {h})
  BY <1>1, <1>3, <1>4, OrderTail
<1> QED BY <1>2, <1>5 DEF h

(* Entering the process list leaves the sequence alone.                    *)
LEMMA FrontOrder ==
  ASSUME NEW L, NEW Q, NEW V, Shape(L, Q, V), NEW p \in Pcb \ Q,
         NEW s, Ordered(s, L.next, Q)
  PROVE  Ordered(s, AddToList(L, p).next, Q)
<1> DEFINE n == L.next
           m == [n EXCEPT ![p] = L.process_list]
<1>1. /\ n \in NextFcns /\ L.ready_queue_head \in Pcb \cup {NULL}
      /\ Chain(n, L.ready_queue_head) = Q /\ Q \subseteq Pcb
  BY ChainClosed DEF Shape
<1>2. AddToList(L, p).next = m
  BY LinksFields DEF AddToList
<1>3. m \in NextFcns /\ \A q \in Q : m[q] = n[q]
  BY <1>1 DEF NextFcns, Shape
<1> HIDE DEF m
<1> QED BY <1>1, <1>2, <1>3, OrderAgree

(* Leaving the process list leaves the sequence alone.                     *)
LEMMA UnlistOrder ==
  ASSUME NEW L, NEW Q, NEW V, Shape(L, Q, V), NEW p \in Pcb \ Q,
         NEW s, Ordered(s, L.next, Q)
  PROVE  Ordered(s, RemoveFromList(L, p).next, Q)
<1> DEFINE n == L.next
           l == L.process_list
           B == Before(n, l, p)
<1>1. /\ n \in NextFcns /\ L.ready_queue_head \in Pcb \cup {NULL} /\ l \in Pcb \cup {NULL}
      /\ Chain(n, L.ready_queue_head) = Q /\ Q \subseteq Pcb /\ Closed(n, Q)
  BY ChainClosed DEF Shape
<1>2. CASE l = p
  <2>1. RemoveFromList(L, p).next = n
    BY <1>2, LinksFields DEF RemoveFromList
  <2> QED BY <2>1
<1>3. CASE l # p /\ B = {}
  <2>1. RemoveFromList(L, p).next = n
    BY <1>3, LinksFields DEF RemoveFromList, Unlink
  <2> QED BY <2>1
<1>4. CASE l # p /\ B # {}
  <2> DEFINE x == CHOOSE q \in B : TRUE
             m == [n EXCEPT ![x] = n[p]]
  <2>1. RemoveFromList(L, p).next = m
    BY <1>4, LinksFields DEF RemoveFromList, Unlink
  <2>2. x \in B
    BY <1>4
  <2> HIDE DEF x
  <2>3. x \in Pcb /\ n[x] = p
    BY <2>2, ChainClosed DEF Before
  <2>4. x \notin Q
    BY <2>3, <1>1, ProcessAssumption DEF Closed
  <2>5. m \in NextFcns /\ \A q \in Q : m[q] = n[q]
    BY <2>3, <2>4, <1>1 DEF NextFcns
  <2> HIDE DEF m
  <2> QED BY <2>1, <2>5, <1>1, OrderAgree
<1> QED BY <1>2, <1>3, <1>4

(* scheduler_remove takes the process out of the sequence.                 *)
LEMMA RemoveOrder ==
  ASSUME NEW L, NEW Q, NEW V, Shape(L, Q, V), NEW p \in Pcb,
         NEW s, Ordered(s, L.next, Q)
  PROVE  /\ p \notin Q => Ordered(s, scheduler_remove(L, p).next, Q)
         /\ p \in Q => \E k \in 1..Cardinality(Q) :
                         /\ s[k] = p
                         /\ Ordered(Without(s, k), scheduler_remove(L, p).next, Q \ {p})
<1> DEFINE n == L.next
           h == L.ready_queue_head
           B == Before(n, h, p)
           N == Cardinality(Q)
<1>1. /\ n \in NextFcns /\ h \in Pcb \cup {NULL} /\ Acyclic(n) /\ Chain(n, h) = Q
      /\ Q \subseteq Pcb /\ Closed(n, Q) /\ h \in Q \cup {NULL}
  BY ChainClosed DEF Shape
<1>2. ASSUME p \notin Q
      PROVE  Ordered(s, scheduler_remove(L, p).next, Q)
  <2> DEFINE e == [n EXCEPT ![p] = NULL]
  <2>1. h # p /\ B = {}
    BY <1>1, <1>2, ProcessAssumption DEF Before, Closed
  <2>2. scheduler_remove(L, p).next = e
    BY <2>1, LinksFields DEF scheduler_remove, Unlink
  <2>3. e \in NextFcns /\ \A q \in Q : e[q] = n[q]
    BY <1>1, <1>2 DEF NextFcns
  <2> HIDE DEF e
  <2> QED BY <2>2, <2>3, <1>1, OrderAgree
<1>3. ASSUME p \in Q, h = p
      PROVE  \E k \in 1..N :
               s[k] = p /\ Ordered(Without(s, k), scheduler_remove(L, p).next, Q \ {p})
  <2>1. scheduler_remove(L, p) = scheduler_next(L)
    BY <1>3 DEF scheduler_remove, scheduler_next
  <2>2. /\ s \in Seq(Q) /\ s # <<>> /\ Head(s) = p
        /\ Ordered(Tail(s), scheduler_next(L).next, Q \ {p})
    BY <1>3, NextOrder, ProcessAssumption
  <2>3. N \in Nat \ {0} /\ s[1] = p
    BY <1>1, <1>3, OrderFirst
  <2>4. Without(s, 1) = Tail(s)
    <3>1. SubSeq(s, 1, 0) = <<>>
      BY SubSeqEmpty
    <3>2. SubSeq(s, 2, Len(s)) = Tail(s)
      BY <2>2, TailIsSubSeq
    <3>3. <<>> \o Tail(s) = Tail(s)
      <4>1. Tail(s) \in Seq(Q)
        BY <2>2, HeadTailProperties
      <4> QED BY <4>1, ConcatEmptySeq
    <3>4. 1 - 1 = 0 /\ 1 + 1 = 2
      OBVIOUS
    <3> QED BY <3>1, <3>2, <3>3, <3>4 DEF Without
  <2>5. 1 \in 1..N
    BY <2>3
  <2> QED BY <2>1, <2>2, <2>3, <2>4, <2>5
<1>4. ASSUME p \in Q, h # p
      PROVE  \E k \in 1..N :
               s[k] = p /\ Ordered(Without(s, k), scheduler_remove(L, p).next, Q \ {p})
  <2> DEFINE x == CHOOSE q \in B : TRUE
             m == [n EXCEPT ![x] = n[p]]
             e == [m EXCEPT ![p] = NULL]
  <2>1. B # {}
    BY <1>1, <1>4, HasPredecessor DEF Before
  <2>2. scheduler_remove(L, p).next = e
    <3> DEFINE u == IF L.ready_queue_tail = p THEN x ELSE L.ready_queue_tail
    <3>1. scheduler_remove(L, p) = Links(e, L.process_list, h, u)
      BY <2>1, <1>4 DEF scheduler_remove, Unlink
    <3> QED BY <3>1, LinksFields
  <2>3. x \in B
    BY <2>1
  <2> HIDE DEF x
  <2>4. x \in Pcb /\ n[x] = p
    BY <2>3, ChainClosed DEF Before
  <2>5. x # p
    <3>1. {p} \in SUBSET Pcb /\ {p} # {}
      OBVIOUS
    <3> QED BY <3>1, <2>4, <1>1 DEF Acyclic
  <2>6. e \in NextFcns /\ e[x] = n[p] /\ e[p] = NULL /\ \A q \in Pcb \ {x, p} : e[q] = n[q]
    BY <2>4, <2>5, <1>1 DEF NextFcns
  <2> HIDE DEF e, m
  <2>7. N \in Nat /\ Rank(n, p) \in 1..N /\ s[N - Rank(n, p) + 1] = p
    BY <1>1, <1>4, OrderOnto
  <2>8. PICK k \in 1..N : s[k] = p
    <3>1. N - Rank(n, p) + 1 \in 1..N
      BY <2>7
    <3> QED BY <3>1, <2>7
  <2>9. Ordered(Without(s, k), e, Q \ {p})
    BY <2>3, <2>6, <2>8, <1>1, <1>4, OrderWithout
  <2> QED BY <2>2, <2>8, <2>9
<1> QED BY <1>2, <1>3, <1>4
----------------------------------------------------------------------------
(* The refinement.                                                         *)

OrderInv == Ordered(QueueSeq, links.next, Queued)

RRStep == [RR!RRNext]_(RR!rrVars)

(* Initially both the queue and the sequence are empty.                    *)
LEMMA OrderInit == Init => OrderInv /\ RR!RRInit
<1> SUFFICES ASSUME Init PROVE OrderInv /\ RR!RRInit
  OBVIOUS
<1>1. Queued = {}
  BY ChainNull DEF Init, Queued
<1>2. Cardinality(Queued) = 0
  BY <1>1, FS_EmptySet
<1>3. QueueSeq = <<>>
  BY <1>2 DEF QueueSeq, InOrder
<1>4. OrderInv
  BY <1>2, <1>3 DEF OrderInv, Ordered
<1> QED BY <1>3, <1>4 DEF RR!RRInit, Init

(* Every call of the scheduler is a step of the FIFO queue.                *)
LEMMA OrderStep == ProcessInv /\ OrderInv /\ [Next]_vars => OrderInv' /\ RRStep
<1> SUFFICES ASSUME ProcessInv, OrderInv, [Next]_vars PROVE OrderInv' /\ RRStep
  OBVIOUS
<1> DEFINE Q == ReadySet(current_process, live, state)
           s == QueueSeq
<1>0. /\ TypeOK /\ Shape(links, Q, live)
      /\ current_process # NULL => state[current_process] # "NEW"
  BY DEF ProcessInv
<1>T. /\ live \subseteq Pcb /\ current_process \in live \cup {NULL} /\ live \in SUBSET Pcb
  BY <1>0 DEF TypeOK
<1>Q. Q \subseteq live /\ \A p \in Pcb : p \in Q <=> p \in live /\ state[p] = "READY" /\ p # current_process
  BY <1>T DEF ReadySet
<1>O. Ordered(s, links.next, Q)
  BY <1>0 DEF OrderInv, Shape, Queued
<1>C. Cardinality(Q) \in Nat /\ DOMAIN s = 1..Cardinality(Q) /\ Range(s) \subseteq Q
  <2>1. IsFiniteSet(Q)
    BY <1>Q, <1>T, FS_Subset, ProcessAssumption
  <2>2. Cardinality(Q) \in Nat
    BY <2>1, FS_CardinalityType
  <2> HIDE DEF Q, s
  <2> QED BY <2>2, <1>O DEF Ordered, Range
<1>N. ASSUME NEW r, NEW R, NEW V, Shape(links', R, V), Ordered(r, links'.next, R)
      PROVE  QueueSeq' = r /\ OrderInv'
  <2>1. /\ links'.next \in NextFcns /\ Acyclic(links'.next)
        /\ links'.ready_queue_head \in Pcb \cup {NULL}
        /\ R = Chain(links'.next, links'.ready_queue_head)
    BY <1>N DEF Shape
  <2>2. Queued' = R
    BY <2>1 DEF Queued
  <2>3. InOrder(links'.next, R) = r
    BY <2>1, <1>N, OrderUnique
  <2>4. QueueSeq' = r
    BY <2>2, <2>3 DEF QueueSeq
  <2> QED BY <2>2, <2>4, <1>N DEF OrderInv
<1> HIDE DEF Q, s
<1>1. ASSUME NEW p \in Pcb, process_create(p) PROVE OrderInv' /\ RRStep
  <2>1. /\ p \notin live /\ live' = live \cup {p} /\ links' = AddToList(links, p)
        /\ current_process' = current_process
    BY <1>1 DEF process_create, NewProcess
  <2>2. p \notin Q /\ Shape(links', Q, live \cup {p})
    BY <2>1, <1>0, <1>T, <1>Q, FrontShape
  <2>3. Ordered(s, links'.next, Q)
    BY <2>1, <2>2, <1>0, <1>O, FrontOrder
  <2>4. QueueSeq' = s /\ OrderInv'
    BY <2>2, <2>3, <1>N
  <2>5. RR!Create(p)
    BY <2>1, <2>4 DEF RR!Create, s
  <2> QED BY <2>4, <2>5 DEF RRStep, RR!RRNext
<1>2. ASSUME NEW p \in Pcb, Admit(p) PROVE OrderInv' /\ RRStep
  <2>1. /\ p \in live /\ state[p] = "NEW" /\ links' = scheduler_add(links, p)
        /\ live' = live /\ current_process' = current_process
    BY <1>2 DEF Admit
  <2>2. p # current_process /\ p \notin Q
    BY <2>1, <1>0, <1>T, <1>Q, ProcessAssumption
  <2>3. Shape(links', Q \cup {p}, live)
    BY <2>1, <2>2, <1>0, <1>T, AddShape
  <2>4. Ordered(Append(s, p), links'.next, Q \cup {p})
    BY <2>1, <2>2, <1>0, <1>O, AddOrder
  <2>5. QueueSeq' = Append(s, p) /\ OrderInv'
    BY <2>3, <2>4, <1>N
  <2>6. RR!Admit(p)
    BY <2>1, <2>2, <2>5, <1>C DEF RR!Admit, RR!Waiting, s, Range, RR!Range
  <2> QED BY <2>5, <2>6 DEF RRStep, RR!RRNext
<1>3. ASSUME NEW p \in Pcb, sys_fork(p) PROVE OrderInv' /\ RRStep
  <2>1. /\ p \notin live /\ live' = live \cup {p}
        /\ links' = scheduler_add(AddToList(links, p), p)
        /\ current_process' = current_process
    BY <1>3 DEF sys_fork, NewProcess
  <2>2. p \notin Q /\ Shape(AddToList(links, p), Q, live \cup {p})
    BY <2>1, <1>0, <1>T, <1>Q, FrontShape
  <2>3. Ordered(s, AddToList(links, p).next, Q)
    BY <2>1, <2>2, <1>0, <1>O, FrontOrder
  <2>4. Shape(links', Q \cup {p}, live \cup {p})
    <3>1. live \cup {p} \in SUBSET Pcb
      BY <1>T
    <3> QED BY <3>1, <2>1, <2>2, AddShape
  <2>5. Ordered(Append(s, p), links'.next, Q \cup {p})
    BY <2>1, <2>2, <2>3, AddOrder
  <2>6. QueueSeq' = Append(s, p) /\ OrderInv'
    BY <2>4, <2>5, <1>N
  <2>7. RR!Fork(p)
    BY <2>1, <2>6 DEF RR!Fork, s
  <2> QED BY <2>6, <2>7 DEF RRStep, RR!RRNext
<1>4. ASSUME NEW p \in Pcb, process_destroy(p) PROVE OrderInv' /\ RRStep
  <2> DEFINE M == scheduler_remove(links, p)
  <2>1. /\ p \in live /\ p # current_process
        /\ links' = RemoveFromList(M, p)
        /\ live' = live \ {p} /\ current_process' = current_process
    BY <1>4 DEF process_destroy
  <2>2. Shape(M, Q \ {p}, live) /\ M.next[p] = NULL
    BY <1>0, <1>T, RemoveShape
  <2>3. /\ p \notin Q => Ordered(s, M.next, Q)
        /\ p \in Q => \E k \in 1..Cardinality(Q) :
                        s[k] = p /\ Ordered(Without(s, k), M.next, Q \ {p})
    BY <1>0, <1>O, RemoveOrder
  <2> HIDE DEF M
  <2>4. Shape(links', Q \ {p}, live \ {p})
    BY <2>1, <2>2, <1>T, UnlistShape
  <2>5. CASE p \notin Q
    <3>1. Q \ {p} = Q
      BY <2>5
    <3>2. Ordered(s, links'.next, Q)
      BY <3>1, <2>1, <2>2, <2>3, <2>5, UnlistOrder
    <3>3. QueueSeq' = s /\ OrderInv'
      BY <3>1, <3>2, <2>4, <1>N
    <3>4. RR!Destroy(p)
      BY <3>3, <2>1, <2>5, <1>C DEF RR!Destroy, RR!Waiting, s, Range, RR!Range
    <3> QED BY <3>3, <3>4 DEF RRStep, RR!RRNext
  <2>6. CASE p \in Q
    <3>1. PICK k \in 1..Cardinality(Q) :
            s[k] = p /\ Ordered(Without(s, k), M.next, Q \ {p})
      BY <2>3, <2>6
    <3>2. Ordered(Without(s, k), links'.next, Q \ {p})
      BY <3>1, <2>1, <2>2, UnlistOrder
    <3>3. QueueSeq' = Without(s, k) /\ OrderInv'
      BY <3>2, <2>4, <1>N
    <3>4. k \in DOMAIN s /\ s[k] = p
      BY <3>1, <1>C
    <3>5. RR!Destroy(p)
      BY <3>3, <3>4, <2>1 DEF RR!Destroy, Without, s
    <3> QED BY <3>3, <3>5 DEF RRStep, RR!RRNext
  <2> QED BY <2>5, <2>6
<1>5. ASSUME process_create_null PROVE OrderInv' /\ RRStep
  <2>1. UNCHANGED processVars
    BY <1>5 DEF process_create_null
  <2> QED BY <2>1 DEF processVars, OrderInv, QueueSeq, Queued, RRStep, RR!rrVars
<1>6. ASSUME Start PROVE OrderInv' /\ RRStep
  <2> DEFINE h == links.ready_queue_head
  <2>1. /\ h # NULL /\ links' = scheduler_next(links) /\ current_process' = h /\ live' = live
    BY <1>6 DEF Start
  <2>2. Shape(links', Q \ {h}, live)
    BY <2>1, <1>0, <1>T, NextShape
  <2>3. s # <<>> /\ Head(s) = h /\ Ordered(Tail(s), links'.next, Q \ {h})
    BY <2>1, <1>0, <1>O, NextOrder
  <2>4. QueueSeq' = Tail(s) /\ OrderInv'
    BY <2>2, <2>3, <1>N
  <2>5. RR!Dispatch
    BY <2>1, <2>3, <2>4 DEF RR!Dispatch, s
  <2> QED BY <2>4, <2>5 DEF RRStep, RR!RRNext
<1>7. ASSUME sys_exit PROVE OrderInv' /\ RRStep
  <2> DEFINE M == scheduler_remove(links, current_process)
             h == M.ready_queue_head
  <2>1. /\ current_process # NULL /\ live' = live
        /\ IF h = NULL THEN links' = M /\ current_process' = current_process
           ELSE links' = scheduler_next(M) /\ current_process' = h
    BY <1>7 DEF sys_exit
  <2>2. current_process \in Pcb /\ current_process \notin Q
    BY <2>1, <1>T, <1>Q
  <2>3. Shape(M, Q, live)
    <3>1. Shape(M, Q \ {current_process}, live)
      BY <2>2, <1>0, <1>T, RemoveShape
    <3>2. Q \ {current_process} = Q
      BY <2>2
    <3> QED BY <3>1, <3>2
  <2>4. Ordered(s, M.next, Q)
    BY <2>2, <1>0, <1>O, RemoveOrder
  <2> HIDE DEF M
  <2>5. CASE h = NULL
    <3>1. links' = M /\ current_process' = current_process
      BY <2>1, <2>5
    <3>2. QueueSeq' = s /\ OrderInv'
      BY <3>1, <2>3, <2>4, <1>N
    <3> QED BY <3>1, <3>2, <2>1 DEF RRStep, RR!rrVars, s
  <2>6. CASE h # NULL
    <3>1. links' = scheduler_next(M) /\ current_process' = h
      BY <2>1, <2>6
    <3>2. Shape(links', Q \ {h}, live)
      BY <3>1, <2>3, <2>6, <1>T, NextShape
    <3>3. s # <<>> /\ Head(s) = h /\ Ordered(Tail(s), links'.next, Q \ {h})
      BY <3>1, <2>3, <2>4, <2>6, NextOrder
    <3>4. QueueSeq' = Tail(s) /\ OrderInv'
      BY <3>2, <3>3, <1>N
    <3>5. RR!Dispatch
      BY <3>1, <3>3, <3>4, <2>1 DEF RR!Dispatch, s
    <3> QED BY <3>4, <3>5 DEF RRStep, RR!RRNext
  <2> QED BY <2>5, <2>6
<1>8. ASSUME scheduler_tick_stay PROVE OrderInv' /\ RRStep
  <2>1. UNCHANGED <<links, current_process, live>>
    BY <1>8 DEF scheduler_tick_stay
  <2> QED BY <2>1 DEF OrderInv, QueueSeq, Queued, RRStep, RR!rrVars
<1>9. ASSUME scheduler_tick_switch PROVE OrderInv' /\ RRStep
  <2> DEFINE h == links.ready_queue_head
             M == scheduler_next(links)
  <2>1. /\ current_process # NULL /\ h # NULL /\ live' = live
        /\ links' = scheduler_add(M, current_process)
        /\ current_process' = h
    BY <1>9 DEF scheduler_tick_switch
  <2>2. Shape(M, Q \ {h}, live)
    BY <2>1, <1>0, <1>T, NextShape
  <2>3. s # <<>> /\ Head(s) = h /\ Ordered(Tail(s), M.next, Q \ {h})
    BY <2>1, <1>0, <1>O, NextOrder
  <2> HIDE DEF M
  <2>4. current_process \in live /\ current_process \in Pcb /\ current_process \notin Q
    BY <2>1, <1>T, <1>Q
  <2>5. Shape(links', (Q \ {h}) \cup {current_process}, live)
    BY <2>1, <2>2, <2>4, <1>T, AddShape
  <2>6. Ordered(Append(Tail(s), current_process), links'.next, (Q \ {h}) \cup {current_process})
    BY <2>1, <2>2, <2>3, <2>4, AddOrder
  <2>7. QueueSeq' = Append(Tail(s), current_process) /\ OrderInv'
    BY <2>5, <2>6, <1>N
  <2>8. RR!Rotate
    BY <2>1, <2>3, <2>7 DEF RR!Rotate, s
  <2> QED BY <2>7, <2>8 DEF RRStep, RR!RRNext
<1>10. ASSUME UNCHANGED vars PROVE OrderInv' /\ RRStep
  BY <1>10 DEF vars, processVars, OrderInv, QueueSeq, Queued, RRStep, RR!rrVars
<1>11. ASSUME NEW p \in Pcb, sys_fork_faults(p) PROVE OrderInv' /\ RRStep
  BY <1>11, <1>1 DEF sys_fork_faults
<1>12. ASSUME Step PROVE OrderInv' /\ RRStep
  BY <1>12, <1>1, <1>2, <1>3, <1>4, <1>5, <1>6, <1>7, <1>8, <1>9 DEF Step, scheduler_tick
<1> QED BY <1>10, <1>11, <1>12 DEF Next

(* The scheduler with its linked lists is round robin: every step is one   *)
(* of a FIFO queue of processes or leaves it alone, for any number of      *)
(* control blocks.                                                         *)
THEOREM SchedulerImplementsRoundRobin == Spec => ImplementsRoundRobin
<1>1. Spec => [](ProcessInv /\ OrderInv)
  <2>1. Init => OrderInv
    BY OrderInit
  <2>2. ProcessInv /\ OrderInv /\ [Next]_vars => OrderInv'
    BY OrderStep
  <2> QED BY <2>1, <2>2, AlwaysInv, PTL DEF Spec
<1>2. Init => RR!RRInit
  BY OrderInit
<1>3. ProcessInv /\ OrderInv /\ [Next]_vars => [RR!RRNext]_(RR!rrVars)
  BY OrderStep DEF RRStep
<1> QED BY <1>1, <1>2, <1>3, PTL DEF Spec, ImplementsRoundRobin, RR!RRSpec
=============================================================================
