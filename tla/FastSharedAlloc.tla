--------------------------- MODULE FastSharedAlloc ---------------------------
(***************************************************************************)
(* One chain of fastsharedalloc.h: a lock-free list of freed blocks, whose *)
(* head is replaced by a flag while an allocating thread holds the whole   *)
(* list, and by another while gc() deletes it.  Beyond it is the heap.     *)
(***************************************************************************)
EXTENDS Naturals, Sequences, FiniteSets

CONSTANTS
  Threads,    \* they allocate and free
  Blocks      \* what operator new may return for this level

VARIABLES
  head,       \* blk_stack: "list", or the flag "busy" or "shutdown"
  list,       \* the blocks in the list, empty under a flag
  heap,       \* the blocks the heap has
  user,       \* per thread: the blocks it got and did not free yet
  hand,       \* per thread: the list it took out
  pc,         \* per thread: "idle", "spin", "putback", "take"
  found,      \* per thread: what it will put back, "list" (empty) or "shutdown"
  gc,         \* "idle" or "restart"
  aborted     \* operator delete was given a static flag object

vars == <<head, list, heap, user, hand, pc, found, gc, aborted>>

Init ==
  /\ head = "list" /\ list = <<>> /\ heap = Blocks
  /\ user = [t \in Threads |-> {}] /\ hand = [t \in Threads |-> <<>>]
  /\ pc = [t \in Threads |-> "idle"] /\ found = [t \in Threads |-> "list"]
  /\ gc = "idle" /\ aborted = FALSE

Elements(s) == {s[i] : i \in DOMAIN s}
Goto(t, p) == pc' = [pc EXCEPT ![t] = p]

-----------------------------------------------------------------------------
\* alloc(): exchange the head for the busy flag, again while it was busy.
Grab(t) ==
  /\ ~aborted /\ pc[t] \in {"idle", "spin"} /\ user[t] = {}
  /\ head' = "busy" /\ list' = <<>>
  /\ hand' = [hand EXCEPT ![t] = list]
  /\ found' = [found EXCEPT ![t] = IF head = "busy" THEN @ ELSE head]
  /\ Goto(t, IF head = "busy" THEN "spin" ELSE IF list # <<>> THEN "take" ELSE "putback")
  /\ UNCHANGED <<heap, user, gc, aborted>>

\* Nothing cached: what was found goes back, if the flag is still there, and
\* the block comes from the heap.
PutBack(t) ==
  /\ ~aborted /\ pc[t] = "putback"
  /\ head' = IF head = "busy" THEN found[t] ELSE head
  /\ \E b \in heap : heap' = heap \ {b} /\ user' = [user EXCEPT ![t] = @ \cup {b}]
  /\ Goto(t, "idle")
  /\ UNCHANGED <<list, hand, found, gc, aborted>>

\* Fault: the rest is put back without a look at the head.
TakeAndStore(t) ==
  /\ ~aborted /\ pc[t] = "take"
  /\ head' = "list" /\ list' = Tail(hand[t]) /\ UNCHANGED heap
  /\ user' = [user EXCEPT ![t] = @ \cup {Head(hand[t])}]
  /\ hand' = [hand EXCEPT ![t] = <<>>]
  /\ Goto(t, "idle")
  /\ UNCHANGED <<found, gc, aborted>>

\* The first block is the result; the rest goes back, or is deleted if the flag
\* is not there any more.
Take(t) ==
  /\ ~aborted /\ pc[t] = "take"
  /\ IF head = "busy"
       THEN head' = "list" /\ list' = Tail(hand[t]) /\ UNCHANGED heap
       ELSE heap' = heap \cup Elements(Tail(hand[t])) /\ UNCHANGED <<head, list>>
  /\ user' = [user EXCEPT ![t] = @ \cup {Head(hand[t])}]
  /\ hand' = [hand EXCEPT ![t] = <<>>]
  /\ Goto(t, "idle")
  /\ UNCHANGED <<found, gc, aborted>>

\* free(): pushed, unless the cache is shut down; it waits while the head is
\* busy.
Free(t) ==
  /\ ~aborted /\ pc[t] = "idle" /\ head # "busy"
  /\ \E b \in user[t] :
       /\ user' = [user EXCEPT ![t] = @ \ {b}]
       /\ IF head = "list" THEN list' = <<b>> \o list /\ UNCHANGED heap
                           ELSE heap' = heap \cup {b} /\ UNCHANGED list
  /\ UNCHANGED <<head, hand, pc, found, gc, aborted>>

\* A block is handed to another thread, which will free it.
Give(t, u) ==
  /\ ~aborted /\ t # u
  /\ \E b \in user[t] : user' = [user EXCEPT ![t] = @ \ {b}, ![u] = @ \cup {b}]
  /\ UNCHANGED <<head, list, heap, hand, pc, found, gc, aborted>>

-----------------------------------------------------------------------------
\* gc(): shutdown() exchanges the head for its flag and deletes the list it got.
\* The test that should spare the flags is always true (||), so a busy flag is
\* deleted as if it were a block: the heap notices and aborts, or it does not.
Shutdown ==
  /\ ~aborted /\ gc = "idle"
  /\ head' = "shutdown" /\ list' = <<>> /\ heap' = heap \cup Elements(list)
  /\ IF head = "list" THEN UNCHANGED aborted ELSE aborted' \in BOOLEAN
  /\ gc' = "restart"
  /\ UNCHANGED <<user, hand, pc, found>>

\* restart(): the flag goes, if it is there.
Restart ==
  /\ ~aborted /\ gc = "restart"
  /\ head' = IF head = "shutdown" THEN "list" ELSE head
  /\ gc' = "idle"
  /\ UNCHANGED <<list, heap, user, hand, pc, found, aborted>>

Next ==
  \/ \E t \in Threads : Grab(t) \/ PutBack(t) \/ Take(t) \/ Free(t)
  \/ \E t, u \in Threads : Give(t, u)
  \/ Shutdown \/ Restart

-----------------------------------------------------------------------------
\* A block is in one place: with one user, in the list, in the hands of one
\* allocating thread, or in the heap; none is handed out or deleted twice and
\* none is lost, also when two threads that took the list put something back, or
\* gc() comes between (fastsharedalloc.h:68 to 94).
Places(b) ==
  (IF b \in heap THEN 1 ELSE 0)
  + Cardinality({t \in Threads : b \in user[t]})
  + Cardinality({t \in Threads : b \in Elements(hand[t])})
  + Cardinality({i \in DOMAIN list : list[i] = b})
BlocksConserved == \A b \in Blocks : Places(b) = 1

\* "it is MT safe relative to alloc/dealloc" (fastsharedalloc.h:199).
GcSafe == ~aborted

\* gc() leaves the cache on.  Not so: an allocation that found the shutdown flag
\* puts it back after restart() did not find it.
CacheRestarts == (head = "shutdown") ~> (head # "shutdown")
=============================================================================
