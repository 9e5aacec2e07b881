------------------------------- MODULE Shared -------------------------------
(***************************************************************************)
(* What threads share, each kind of object on its own: pointers with a     *)
(* lock, counted objects, stacks and states, the free list of blocks, a    *)
(* semaphore and a countdown, the registrations of child processes and the *)
(* rotating log files.  Names without a prefix are those of LogRotation.   *)
(***************************************************************************)
EXTENDS LogRotation, Sequences, Integers

CONSTANTS
  Threads,        \* they share the pointers, the objects, the state, the blocks and the countdown
  StackThreads,   \* they share the stacks
  Ctrls, Nodes, Blocks, MaxCasts, MaxHandles, Null,
  Children, Objects,
  SemThreads, Permits,               \* the semaphore's threads, and what it begins with
  Initially, Least, Most, Settings   \* the countdown's first value, its bounds, and what it is set to

ASSUME SharedAssumption ==
  /\ IsFiniteSet(Threads) /\ IsFiniteSet(StackThreads) /\ IsFiniteSet(Nodes)
  /\ Null \notin Threads \cup Ctrls \cup Nodes
  /\ {MaxCasts, MaxHandles, Permits} \subseteq Nat /\ IsFiniteSet(SemThreads)
  /\ {Initially, Least, Most} \subseteq Int /\ Initially \in Least..Most /\ Settings \subseteq Least..Most

VARIABLES
  kind, _cntr, lrefs, ctl, ptr, locked, mode, lpc, releasing, destroyed, broken,
  handle, lock, want, ocounter, wrappers, opc, alive,
  head, parent, counter, live, due,
  handles, shareCount, owner, spc, callback, finished, deleted,
  blk_stack, list, heap, user, hand, apc, found, gc, aborted,
  permits, dozing, mpc, unsaid,
  tally, sleeping, npc, untold,
  child, pending, pid, status, sem, wpc

lvars == <<kind, _cntr, lrefs, ctl, ptr, locked, mode, lpc, releasing, destroyed, broken>>
ovars == <<handle, lock, want, ocounter, wrappers, opc, alive>>
kvars == <<head, parent, counter, live, due>>
svars == <<handles, shareCount, owner, spc, callback, finished, deleted>>
avars == <<blk_stack, list, heap, user, hand, apc, found, gc, aborted>>
sems == <<permits, dozing, mpc, unsaid>>
counts == <<tally, sleeping, npc, untold>>
waits == <<child, pending, pid, status, sem, wpc>>

L == INSTANCE SharedLockable WITH Careful <- TRUE, refs <- lrefs, pc <- lpc
O == INSTANCE SharedObject WITH counter <- ocounter, pc <- opc
K == INSTANCE SharedStack WITH Threads <- StackThreads
S == INSTANCE AsyncState WITH pc <- spc
A == INSTANCE FastSharedAlloc WITH head <- blk_stack, pc <- apc
Sem == INSTANCE Semaphore WITH
         Threads <- SemThreads, Count <- Permits,
         counter <- permits, waiting <- dozing, pc <- mpc, silent <- unsaid
C == INSTANCE Countdown WITH
       Waiters <- Threads, Initial <- Initially, Lo <- Least, Hi <- Most, Values <- Settings,
       counter <- tally, waiting <- sleeping, pc <- npc, silent <- untold
Wait == INSTANCE WaitPid WITH pc <- wpc

LockableSpec == L!Init /\ [][L!Next]_lvars
ObjectSpec == O!Init /\ [][O!Next]_ovars
StackSpec == K!Init /\ [][K!Next]_kvars
StateSpec == S!Init /\ [][S!Next]_svars
AllocSpec == A!Init /\ [][A!Next]_avars
SemaphoreSpec == Sem!Init /\ [][Sem!Next]_sems
CountdownSpec == C!Init /\ [][C!Next]_counts
WaitSpec == Wait!Init /\ [][Wait!Next]_waits

-----------------------------------------------------------------------------
\* What the modules say of them.
LockableSafe == L!LockableSafe
ObjectSafe == O!ObjectSafe
FinishedLast == S!FinishedLast
\* The nodes of a stack of handles and the blocks of a free list: each in one
\* place, freed when unused.
StackCounts == K!StackCounts
BlocksConserved == A!BlocksConserved
NodesConserved == StackCounts /\ BlocksConserved
\* Permits are conserved, and none that was announced is stranded.
PermitsConserved == Sem!PermitsConserved
NoStrandedPermit == Sem!NoStrandedPermit
\* Nobody sleeps on an open countdown but those setCounter() left asleep, and who
\* waits for one passes.
OpenMeansAwake == C!OpenMeansAwake
OpenReleases == C!OpenReleases
SleepersReleased == C!SleepersReleased
\* Child processes: no exit is missed.
ExitsAreSeen == Wait!ExitsAreSeen
=============================================================================
