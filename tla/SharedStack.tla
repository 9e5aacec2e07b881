----------------------------- MODULE SharedStack -----------------------------
(***************************************************************************)
(* stack.h on refcnt.h: immutable stacks that share their tails.  A node   *)
(* counts the stacks whose head it is and the nodes whose parent it is;    *)
(* deleting a node releases its parent, and so on down.                    *)
(***************************************************************************)
EXTENDS Naturals, FiniteSets

CONSTANTS Threads, Nodes, Null

VARIABLES
  head,       \* per thread: its SharedStack
  parent,     \* per node
  counter,    \* per node: RefCntObj::counter
  live,       \* the nodes that are allocated
  due         \* per thread: the node it still has to release

vars == <<head, parent, counter, live, due>>

Init ==
  /\ head = [t \in Threads |-> Null] /\ due = [t \in Threads |-> Null]
  /\ parent = [n \in Nodes |-> Null] /\ counter = [n \in Nodes |-> 0]
  /\ live = {}

Plus(f, n) == [m \in Nodes |-> f[m] + IF m = n THEN 1 ELSE 0]

\* push(): a new node on the head, then the assignment to the variable.
Push(t) ==
  /\ due[t] = Null
  /\ \E n \in Nodes \ live :
       /\ live' = live \cup {n}
       /\ parent' = [parent EXCEPT ![n] = head[t]]
       /\ counter' = Plus([counter EXCEPT ![n] = 1], head[t])
       /\ head' = [head EXCEPT ![t] = n]
  /\ due' = [due EXCEPT ![t] = head[t]]

\* pop(): a reference on the parent, then the assignment.
Pop(t) ==
  /\ due[t] = Null /\ head[t] # Null
  /\ counter' = Plus(counter, parent[head[t]])
  /\ head' = [head EXCEPT ![t] = parent[head[t]]]
  /\ due' = [due EXCEPT ![t] = head[t]]
  /\ UNCHANGED <<parent, live>>

\* RefCntPtr::operator=(const &): nothing if both are the same node, otherwise
\* the other one is counted before the old one is released.
Assign(t, u) ==
  /\ due[t] = Null /\ due[u] = Null /\ head[u] # head[t]
  /\ counter' = Plus(counter, head[u])
  /\ head' = [head EXCEPT ![t] = head[u]]
  /\ due' = [due EXCEPT ![t] = head[t]]
  /\ UNCHANGED <<parent, live>>

\* Fault: the parent of a deleted node is forgotten.
ReleaseOnly(t) ==
  LET n == due[t] IN
  /\ n # Null
  /\ counter' = [counter EXCEPT ![n] = @ - 1]
  /\ live' = IF counter'[n] = 0 THEN live \ {n} ELSE live
  /\ due' = [due EXCEPT ![t] = Null]
  /\ UNCHANGED <<head, parent>>

\* releaseRefPtr(): whoever takes the count to zero deletes the node, whose
\* destructor releases the parent.
Release(t) ==
  LET n == due[t] IN
  /\ n # Null
  /\ counter' = [counter EXCEPT ![n] = @ - 1]
  /\ live' = IF counter'[n] = 0 THEN live \ {n} ELSE live
  /\ due' = [due EXCEPT ![t] = IF counter'[n] = 0 THEN parent[n] ELSE Null]
  /\ UNCHANGED <<head, parent>>

Next == \E t \in Threads :
  \/ Push(t) \/ Pop(t) \/ Release(t)
  \/ \E u \in Threads : Assign(t, u)

-----------------------------------------------------------------------------
\* A node is allocated exactly while something refers to it, and counts what
\* does: a tail shared by two threads survives either, and goes with the last
\* (refcnt.h:113, stack.h:24).
StackCounts ==
  /\ \A n \in Nodes :
       counter[n] = Cardinality({t \in Threads : head[t] = n})
                  + Cardinality({m \in live : parent[m] = n})
                  + Cardinality({t \in Threads : due[t] = n})
  /\ live = {n \in Nodes : counter[n] > 0}
=============================================================================
