---------------------------- MODULE Worker_proofs ----------------------------
(***************************************************************************)
(* Worker: types, and for every number of threads, clients and tasks that  *)
(* the quit message stays the last one, that no dispatched function is     *)
(* abandoned in a destroyed queue and that nobody is inside a freed        *)
(* SharedDispatcher.  The three follow from one inductive invariant, IInv, *)
(* which relates reference counts, message loops and the quit message.     *)
(***************************************************************************)
EXTENDS WorkerProps, SequenceTheorems, FiniteSetTheorems, TLAPS

-----------------------------------------------------------------------------
(* Types. *)

\* What the steps of the queue do to its two variables.
LEMMA PushStep ==
  ASSUME TypeOK, NEW m \in Tasks \cup {Null}, MQ!Push(m)
  PROVE  /\ queue' = Append(queue, m)
         /\ queue' \in Seq(Tasks \cup {Null})
         /\ waiting' \subseteq waiting
<1>1. queue' = Append(queue, m) /\ waiting' \subseteq waiting
  BY DEF MQ!Push, MQ!Notify
<1>2. QED
  BY <1>1 DEF TypeOK

LEMMA TakeStep ==
  ASSUME TypeOK, NEW a, MQ!Take(a)
  PROVE  /\ queue # <<>> /\ queue' = Tail(queue)
         /\ queue' \in Seq(Tasks \cup {Null})
         /\ Head(queue) \in Tasks \cup {Null}
         /\ a \notin waiting /\ UNCHANGED waiting
<1>1. queue # <<>> /\ queue' = Tail(queue) /\ a \notin waiting /\ UNCHANGED waiting
  BY DEF MQ!Take
<1>2. queue' \in Seq(Tasks \cup {Null}) /\ Head(queue) \in Tasks \cup {Null}
  BY <1>1 DEF TypeOK
<1>3. QED
  BY <1>1, <1>2

LEMMA ClearStep ==
  ASSUME MQ!Clear
  PROVE  queue' = <<>> /\ UNCHANGED waiting
  BY DEF MQ!Clear

\* Every variable keeps its type, and a sleeper stays inside pump().
THEOREM TypeCorrect == Spec => []TypeOK
<1>1. Init => TypeOK
  <2> SUFFICES ASSUME Init
               PROVE  TypeOK
    OBVIOUS
  <2> USE DEF TypeOK, Actors, PCs, Init
  <2>1. CASE Create
    BY <2>1 DEF Create, Home
  <2>2. CASE Install
    <3>1. PICK c \in Clients, t \in Tasks :
            /\ handles = {t}
            /\ pc = [a \in Actors |-> IF a = c THEN "pop" ELSE Home(a)]
            /\ role = [a \in Actors |-> IF a = c THEN "run" ELSE "none"]
            /\ sdrefs = {c, Self}
            /\ queue = <<t>>
            /\ fate = [u \in Tasks |-> IF u = t THEN "queued" ELSE "new"]
      BY <2>2 DEF Install
    <3>2. queue \in Seq(Tasks \cup {Null})
      BY <3>1
    <3>3. QED
      BY <3>1, <3>2 DEF Home
  <2>3. QED
    BY <2>1, <2>2
<1>2. TypeOK /\ [Next]_vars => TypeOK'
  <2> SUFFICES ASSUME TypeOK, [Next]_vars
               PROVE  TypeOK'
    OBVIOUS
  <2> USE DEF TypeOK, PCs
  <2>1. ASSUME NEW a \in Actors, NEW t \in Tasks, Dispatch(a, t)
        PROVE  TypeOK'
    BY <2>1, PushStep DEF Dispatch
  <2>2. ASSUME NEW a \in Actors, NEW c \in Clients, Share(a, c)
        PROVE  TypeOK'
    BY <2>2 DEF Share
  <2>3. ASSUME NEW a \in Actors, Drop(a)
        PROVE  TypeOK'
    BY <2>3 DEF Drop, Unref
  <2>4. ASSUME NEW a \in Actors, Clear(a)
        PROVE  TypeOK'
    BY <2>4, ClearStep DEF Clear, Reach
  <2>5. ASSUME NEW a \in Actors, NEW l \in {"run", "flush"}, NEW p \in {"pop", "check"},
               Enter(a, l, p)
        PROVE  TypeOK'
    BY <2>5 DEF Enter
  <2>6. ASSUME NEW a \in Actors, ReleaseHandle(a)
        PROVE  TypeOK'
    BY <2>6 DEF ReleaseHandle, Unref
  <2>7. ASSUME NEW a \in Actors, WorkerQuit(a)
        PROVE  TypeOK'
    BY <2>7, PushStep DEF WorkerQuit
  <2>8. ASSUME NEW a \in Actors, WorkerGone(a)
        PROVE  TypeOK'
    BY <2>8, DistinctAssumption DEF WorkerGone, UnrefDispatcher, Home
  <2>9. ASSUME NEW a \in Actors, FreeDispatcher(a)
        PROVE  TypeOK'
    BY <2>9, ClearStep DEF FreeDispatcher, Home
  <2>10. ASSUME NEW a \in Actors, Check(a)
         PROVE  TypeOK'
    BY <2>10 DEF Check
  <2>11. ASSUME NEW a \in Actors, PumpWait(a)
         PROVE  TypeOK'
    BY <2>11 DEF PumpWait, MQ!Sleep
  <2>12. ASSUME NEW a \in Actors, PumpTask(a)
         PROVE  TypeOK'
    BY <2>12, TakeStep DEF PumpTask
  <2>13. ASSUME NEW a \in Actors, PumpQuit(a)
         PROVE  TypeOK'
    BY <2>13, TakeStep DEF PumpQuit, AfterQuit
  <2>14. ASSUME NEW a \in Actors, Finish(a)
         PROVE  TypeOK'
    BY <2>14 DEF Finish
  <2>15. ASSUME NEW a \in Actors, Repost(a)
         PROVE  TypeOK'
    BY <2>15, PushStep DEF Repost
  <2>16. ASSUME NEW a \in Actors, LeaveLoop(a)
         PROVE  TypeOK'
    BY <2>16 DEF LeaveLoop, UnrefDispatcher, Home
  <2>17. CASE UNCHANGED vars
    BY <2>17 DEF vars
  <2>18. ASSUME NEW a \in Actors, Use(a)
         PROVE  TypeOK'
    BY <2>1, <2>2, <2>3, <2>4, <2>5, <2>18 DEF Use, Run, Flush
  <2>19. ASSUME NEW a \in Actors, Step(a)
         PROVE  TypeOK'
    BY <2>6, <2>7, <2>8, <2>9, <2>10, <2>11, <2>12, <2>13, <2>14, <2>15, <2>16, <2>19
       DEF Step
  <2>20. QED
    BY <2>17, <2>18, <2>19 DEF Next
<1>3. QED
  BY <1>1, <1>2, PTL DEF Spec

-----------------------------------------------------------------------------
(* The inductive invariant. *)

\* Whoever can use a handle is in no destructor, and the worker is alive.
LEMMA ReachAlive ==
  ASSUME TypeOK, HandleInv, NEW a \in Actors, Reach(a) # {}
  PROVE  /\ handles # {} /\ worker = "alive" /\ killer = None
         /\ due[a] = None
         /\ Reach(a) \subseteq handles
  BY DEF HandleInv, Reach, Free

LEMMA HandleInit == Init => HandleInv
  BY DistinctAssumption DEF Init, Create, Install, HandleInv, Actors

\* The handles in every step.
LEMMA HandleStep ==
  ASSUME TypeOK, IInv, [Next]_vars
  PROVE  HandleInv'
<1> USE DistinctAssumption DEF TypeOK, IInv, HandleInv, JobInv
<1>1. ASSUME NEW a \in Actors, NEW t \in Tasks, Dispatch(a, t)
      PROVE  HandleInv'
  <2>1. worker = "alive" /\ handles # {}
    BY <1>1, ReachAlive DEF Dispatch
  <2>2. QED
    BY <1>1, <2>1 DEF Dispatch
<1>2. ASSUME NEW a \in Actors, NEW c \in Clients, Share(a, c)
      PROVE  HandleInv'
  <2>1. worker = "alive" /\ handles # {}
    BY <1>2, ReachAlive DEF Share
  <2>2. QED
    BY <1>2, <2>1 DEF Share
<1>3. ASSUME NEW a \in Actors, Drop(a)
      PROVE  HandleInv'
  <2>1. worker = "alive" /\ killer = None /\ due[a] = None /\ a \in handles
    BY <1>3, ReachAlive DEF Drop
  <2>2. \A b \in Actors : due[b] # a
    BY <2>1
  <2>3. QED
    BY <1>3, <2>1, <2>2 DEF Drop, Unref
<1>4. ASSUME NEW a \in Actors, Clear(a)
      PROVE  HandleInv'
  <2>1. worker = "alive" /\ killer = None /\ due[a] = None /\ Reach(a) \subseteq handles
    BY <1>4, ReachAlive DEF Clear
  <2>2. PICK h \in Reach(a) : due' = [due EXCEPT ![a] = h]
    BY <1>4 DEF Clear
  <2>3. h = a \/ (h = job[a] /\ h # None)
    BY <2>1, <2>2 DEF Reach, Actors
  <2>4. h \in handles'
    BY <1>4, <2>1, <2>2, <2>3 DEF Clear, Actors
  <2>5. \A b \in Actors : due[b] # None => due[b] \in handles'
    BY <1>4 DEF Clear
  <2>6. \A b \in Actors : due[b] = h => b = a
    BY <2>1, <2>3 DEF Actors
  <2>7. QED
    BY <1>4, <2>1, <2>2, <2>3, <2>4, <2>5, <2>6 DEF Clear, Actors
<1>5. ASSUME NEW a \in Actors, ReleaseHandle(a)
      PROVE  HandleInv'
  <2>1. due[a] \in handles /\ \A b \in Actors : due[b] = due[a] => b = a
    BY <1>5 DEF ReleaseHandle
  <2>2. worker = "alive" /\ killer = None /\ handles' = handles \ {due[a]}
    BY <1>5, <2>1 DEF ReleaseHandle, Unref
  <2>3. /\ handles' # {} <=> worker' = "alive"
        /\ killer' # None <=> worker' \in {"dying", "quitted"}
    BY <1>5, <2>2 DEF ReleaseHandle, Unref
  <2>4. /\ due' = [due EXCEPT ![a] = None] /\ UNCHANGED <<fate, job>>
        /\ \A b \in Actors : due'[b] # None => due'[b] = due[b] /\ b # a
    BY <1>5 DEF ReleaseHandle
  <2>5. \A b \in Actors : due'[b] # None => due'[b] \in handles'
    BY <2>1, <2>2, <2>4
  <2>6. \A b, c \in Actors : due'[b] # None /\ due'[b] = due'[c] => b = c
    BY <2>4
  <2>7. \A b \in Actors : due'[b] \in Clients \cup Tasks => due'[b] = due[b]
    BY <2>4 DEF Actors
  <2>8. QED
    BY <2>3, <2>4, <2>5, <2>6, <2>7
<1>6. ASSUME NEW a \in Actors, WorkerQuit(a) \/ WorkerGone(a)
      PROVE  HandleInv'
  BY <1>6 DEF WorkerQuit, WorkerGone
<1>7. ASSUME NEW a \in Actors, PumpTask(a)
      PROVE  HandleInv'
  <2>1. job[a] = None /\ due[a] = None
    BY <1>7 DEF PumpTask, Free
  <2>2. 1 \in 1..Len(queue) /\ Head(queue) = queue[1] /\ Head(queue) \in Tasks
    BY <1>7, TakeStep DEF PumpTask
  <2>3. fate[Head(queue)] = "queued"
    BY <2>2 DEF QueueInv
  <2>4. QED
    BY <1>7, <2>1, <2>2, <2>3 DEF PumpTask
<1>8. ASSUME NEW a \in Actors, Finish(a)
      PROVE  HandleInv'
  <2>1. due[a] = None /\ job[a] \in Tasks /\ fate[job[a]] = "running"
    BY <1>8 DEF Finish, Free
  <2>2. \A b \in Actors : due[b] # job[a]
    BY <2>1
  <2>3. /\ due'[a] \in {job[a], None} /\ (due'[a] = job[a] => job[a] \in handles')
        /\ \A b \in Actors \ {a} : due'[b] = due[b] /\ job'[b] = job[b]
        /\ fate'[job[a]] = "done"
        /\ \A t \in Tasks \ {job[a]} : fate'[t] = fate[t]
        /\ UNCHANGED <<handles, worker, killer>>
    BY <1>8, <2>1 DEF Finish
  <2>4. job[a] # None /\ job[a] \notin Clients
    BY <2>1 DEF Actors
  <2>5. \A b \in Actors : due'[b] # None => due'[b] \in handles'
    BY <2>3
  <2>6. \A b, c \in Actors : due'[b] # None /\ due'[b] = due'[c] => b = c
    BY <2>2, <2>3
  <2>7. \A b \in Actors : due'[b] \in Clients => due'[b] = b
    BY <2>3, <2>4, DistinctAssumption DEF Actors
  <2>8. \A b \in Actors : due'[b] \in Tasks =>
          \/ fate'[due'[b]] = "running" /\ job'[b] = due'[b]
          \/ fate'[due'[b]] = "done"
    BY <2>2, <2>3
  <2>9. QED
    BY <2>3, <2>5, <2>6, <2>7, <2>8
<1>9. ASSUME UNCHANGED <<handles, worker, killer, due, job, fate>>
      PROVE  HandleInv'
  BY <1>9
<1>10. ASSUME NEW a \in Actors, NEW l, NEW p,
              \/ Enter(a, l, p) \/ FreeDispatcher(a) \/ Check(a) \/ PumpWait(a)
              \/ PumpQuit(a) \/ Repost(a) \/ LeaveLoop(a)
       PROVE  UNCHANGED <<handles, worker, killer, due, job, fate>>
  BY <1>10 DEF Enter, FreeDispatcher, Check, PumpWait, PumpQuit, Repost, LeaveLoop
<1>11. CASE UNCHANGED vars
  BY <1>9, <1>11 DEF vars
<1>12. QED
  BY <1>1, <1>2, <1>3, <1>4, <1>5, <1>6, <1>7, <1>8, <1>9, <1>10, <1>11
     DEF Next, Use, Step, Run, Flush

\* The thread in ~DefaultWorker that drops the last reference is in no loop.
LEMMA DrainStarts ==
  ASSUME TypeOK, IInv, NEW a \in Actors, WorkerGone(a), sdrefs' = {}
  PROVE  role[a] = "none" /\ pc[a] = Home(a)
<1> USE DistinctAssumption DEF TypeOK, IInv, LoopInv
<1>1. Self \in sdrefs /\ sdrefs' = sdrefs \ {Self}
  BY DEF WorkerGone, UnrefDispatcher
<1>2. a \notin sdrefs
  BY <1>1
<1>3. role[a] # "drain"
  BY <1>1
<1>4. QED
  BY <1>2, <1>3 DEF LoopPlaces

LEMMA JobInit == Init => JobInv
  BY DistinctAssumption DEF Init, Create, Install, JobInv, Actors, Home

\* The tasks being executed in every step.
LEMMA JobStep ==
  ASSUME TypeOK, IInv, [Next]_vars
  PROVE  JobInv'
<1> USE DistinctAssumption DEF TypeOK, IInv, JobInv
<1>1. ASSUME NEW a \in Actors, NEW t \in Tasks, Dispatch(a, t)
      PROVE  JobInv'
  BY <1>1 DEF Dispatch
<1>2. ASSUME NEW a \in Actors, Clear(a)
      PROVE  JobInv'
  BY <1>2 DEF Clear
<1>3. ASSUME NEW a \in Actors, PumpTask(a)
      PROVE  JobInv'
  <2>1. /\ job[a] = None /\ pc[a] = "pop"
        /\ queue # <<>> /\ Head(queue) \in Tasks /\ Head(queue) = queue[1]
        /\ 1 \in 1..Len(queue)
    BY <1>3, TakeStep DEF PumpTask
  <2>2. fate[Head(queue)] = "queued"
    BY <2>1 DEF QueueInv
  <2>3. \A b \in Actors : job[b] # Head(queue)
    BY <2>1, <2>2
  <2>4. QED
    BY <1>3, <2>1, <2>2, <2>3 DEF PumpTask
<1>4. ASSUME NEW a \in Actors, Finish(a)
      PROVE  JobInv'
  <2>1. /\ job[a] \in Tasks /\ fate[job[a]] = "running"
        /\ \A b \in Actors : job[b] = job[a] => b = a
    BY <1>4 DEF Finish
  <2>2. QED
    BY <1>4, <2>1 DEF Finish
<1>5. ASSUME NEW a \in Actors, WorkerGone(a)
      PROVE  JobInv'
  <2>1. CASE sdrefs' = {}
    <3>1. pc[a] # "exec" /\ pc' = [pc EXCEPT ![a] = "pop"] /\ UNCHANGED <<job, fate>>
      BY <1>5, <2>1, DrainStarts DEF WorkerGone, UnrefDispatcher, Home
    <3>2. QED
      BY <3>1
  <2>2. CASE sdrefs' # {}
    BY <1>5, <2>2 DEF WorkerGone, UnrefDispatcher
  <2>3. QED
    BY <2>1, <2>2
<1>6. ASSUME NEW a \in Actors, LeaveLoop(a)
      PROVE  JobInv'
  BY <1>6 DEF LeaveLoop, UnrefDispatcher, Home
<1>7. ASSUME NEW a \in Actors, NEW l, NEW p \in {"pop", "check"}, Enter(a, l, p)
      PROVE  JobInv'
  BY <1>7 DEF Enter
<1>8. ASSUME NEW a \in Actors, FreeDispatcher(a) \/ Check(a) \/ PumpQuit(a) \/ Repost(a)
      PROVE  JobInv'
  BY <1>8 DEF FreeDispatcher, Check, PumpQuit, AfterQuit, Repost, Home
<1>9. ASSUME UNCHANGED <<pc, job, fate>>
       PROVE  JobInv'
  BY <1>9
<1>10. ASSUME NEW a \in Actors, NEW c \in Clients, Share(a, c)
       PROVE  UNCHANGED <<pc, job, fate>>
  BY <1>10 DEF Share
<1>11. ASSUME NEW a \in Actors,
              Drop(a) \/ ReleaseHandle(a) \/ WorkerQuit(a) \/ PumpWait(a)
       PROVE  UNCHANGED <<pc, job, fate>>
  BY <1>11 DEF Drop, ReleaseHandle, WorkerQuit, PumpWait
<1>12. CASE UNCHANGED vars
  BY <1>9, <1>12 DEF vars
<1>13. QED
  BY <1>1, <1>2, <1>3, <1>4, <1>5, <1>6, <1>7, <1>8, <1>9, <1>10, <1>11, <1>12
     DEF Next, Use, Step, Run, Flush

\* Positions of a queue after a push and after a pop.
LEMMA PushPositions ==
  ASSUME NEW S, NEW q \in Seq(S), NEW m \in S
  PROVE  /\ Len(Append(q, m)) = Len(q) + 1
         /\ \A i \in 1..Len(q) : Append(q, m)[i] = q[i]
         /\ Append(q, m)[Len(q) + 1] = m
  OBVIOUS

LEMMA PopPositions ==
  ASSUME NEW S, NEW q \in Seq(S), q # <<>>
  PROVE  /\ Len(Tail(q)) = Len(q) - 1 /\ Len(q) \in Nat \ {0}
         /\ \A i \in 1..Len(Tail(q)) : Tail(q)[i] = q[i + 1]
         /\ Head(q) = q[1]
  OBVIOUS

LEMMA QueueInit == Init => QueueInv
  BY DistinctAssumption DEF Init, Create, Install, QueueInv, Actors

\* The queued tasks in every step.
LEMMA QueueStep ==
  ASSUME TypeOK, IInv, [Next]_vars
  PROVE  QueueInv'
<1> USE DistinctAssumption DEF TypeOK, IInv, QueueInv
<1>1. ASSUME NEW a \in Actors, NEW t \in Tasks, Dispatch(a, t)
      PROVE  QueueInv'
  <2>1. /\ queue' = Append(queue, t) /\ fate' = [fate EXCEPT ![t] = "queued"]
        /\ fate[t] = "new"
    BY <1>1, PushStep DEF Dispatch
  <2>2. \A i \in 1..Len(queue) : queue[i] # t
    BY <2>1, SMTT(30)
  <2>3. /\ Len(queue') = Len(queue) + 1 /\ Len(queue) \in Nat
        /\ \A i \in 1..Len(queue) : queue'[i] = queue[i]
        /\ queue'[Len(queue) + 1] = t
    BY <2>1, PushPositions
  <2>4. QED
    BY <2>1, <2>2, <2>3
<1>2. ASSUME NEW a \in Actors, Clear(a)
      PROVE  QueueInv'
  <2>1. queue' = <<>> /\ \A t \in Tasks : fate'[t] # "queued"
    BY <1>2, ClearStep DEF Clear
  <2>2. QED
    BY <2>1
<1>3. ASSUME queue' = Append(queue, Null), UNCHANGED fate
      PROVE  QueueInv'
  <2>1. /\ Len(queue') = Len(queue) + 1 /\ Len(queue) \in Nat
        /\ \A i \in 1..Len(queue) : queue'[i] = queue[i]
        /\ queue'[Len(queue) + 1] = Null
    BY <1>3, PushPositions
  <2>2. QED
    BY <1>3, <2>1
<1>4. ASSUME NEW a \in Actors, WorkerQuit(a) \/ Repost(a)
      PROVE  QueueInv'
  BY <1>3, <1>4, PushStep DEF WorkerQuit, Repost
<1>5. ASSUME NEW a \in Actors, FreeDispatcher(a)
      PROVE  QueueInv'
  BY <1>5, ClearStep DEF FreeDispatcher, QuitInv
<1>6. ASSUME NEW a \in Actors, PumpTask(a)
      PROVE  QueueInv'
  <2>1. /\ queue # <<>> /\ queue' = Tail(queue) /\ Head(queue) \in Tasks
        /\ fate' = [fate EXCEPT ![Head(queue)] = "running"]
    BY <1>6, TakeStep DEF PumpTask
  <2>2. /\ Len(queue') = Len(queue) - 1 /\ Len(queue) \in Nat \ {0}
        /\ \A i \in 1..Len(queue') : queue'[i] = queue[i + 1]
        /\ Head(queue) = queue[1]
    BY <2>1, PopPositions
  <2>3. \A i \in 1..Len(queue') : queue'[i] # Head(queue)
    BY <2>1, <2>2
  <2>4. ASSUME NEW t \in Tasks, fate'[t] = "queued"
        PROVE  \E i \in 1..Len(queue') : queue'[i] = t
    <3>1. t # Head(queue) /\ fate[t] = "queued"
      BY <2>1, <2>4
    <3>2. PICK i \in 1..Len(queue) : queue[i] = t
      BY <3>1
    <3>3. i - 1 \in 1..Len(queue') /\ queue'[i - 1] = t
      BY <2>2, <3>1, <3>2
    <3>4. QED
      BY <3>3
  <2>5. QED
    BY <2>1, <2>2, <2>3, <2>4
<1>7. ASSUME NEW a \in Actors, PumpQuit(a)
      PROVE  QueueInv'
  <2>1. queue # <<>> /\ queue' = Tail(queue) /\ Head(queue) = Null /\ UNCHANGED fate
    BY <1>7, TakeStep DEF PumpQuit
  <2>2. /\ Len(queue') = Len(queue) - 1 /\ Len(queue) \in Nat \ {0}
        /\ \A i \in 1..Len(queue') : queue'[i] = queue[i + 1]
        /\ Head(queue) = queue[1]
    BY <2>1, PopPositions
  <2>3. ASSUME NEW t \in Tasks, fate'[t] = "queued"
        PROVE  \E i \in 1..Len(queue') : queue'[i] = t
    <3>1. PICK i \in 1..Len(queue) : queue[i] = t
      BY <2>1, <2>3
    <3>2. i - 1 \in 1..Len(queue') /\ queue'[i - 1] = t
      BY <2>1, <2>2, <3>1
    <3>3. QED
      BY <3>2
  <2>4. QED
    BY <2>1, <2>2, <2>3
<1>8. ASSUME NEW a \in Actors, Finish(a)
      PROVE  QueueInv'
  <2>1. job[a] \in Tasks /\ fate[job[a]] = "running"
    BY <1>8 DEF Finish, JobInv
  <2>2. QED
    BY <1>8, <2>1 DEF Finish
<1>9. ASSUME UNCHANGED <<queue, fate>>
      PROVE  QueueInv'
  BY <1>9
<1>10. ASSUME NEW a \in Actors, NEW c \in Clients, Share(a, c)
       PROVE  QueueInv'
  BY <1>9, <1>10 DEF Share
<1>11. ASSUME NEW a \in Actors, NEW l, NEW p,
              \/ Drop(a) \/ Enter(a, l, p) \/ ReleaseHandle(a) \/ WorkerGone(a)
              \/ Check(a) \/ PumpWait(a) \/ LeaveLoop(a)
       PROVE  QueueInv'
  <2>1. UNCHANGED <<queue, fate>>
    BY <1>11 DEF Drop, Enter, ReleaseHandle, WorkerGone, Check, PumpWait, LeaveLoop, MQ!Sleep
  <2>2. QED
    BY <1>9, <2>1
<1>12. CASE UNCHANGED vars
  BY <1>9, <1>12 DEF vars
<1>13. QED
  BY <1>1, <1>2, <1>4, <1>5, <1>6, <1>7, <1>8, <1>10, <1>11, <1>12
     DEF Next, Use, Step, Run, Flush

LEMMA LoopInit == Init => LoopInv
  BY DistinctAssumption DEF Init, Create, Install, LoopInv, LoopPlaces, Actors, Home

\* The loops and the references on the SharedDispatcher in every step.
LEMMA LoopStep ==
  ASSUME TypeOK, IInv, [Next]_vars
  PROVE  LoopInv'
<1> USE DistinctAssumption DEF TypeOK, IInv, LoopInv, LoopPlaces, Home
<1>1. ASSUME NEW a \in Actors, NEW l \in {"run", "flush"}, NEW p \in {"pop", "check"},
             l = "run" => p = "pop", Enter(a, l, p)
      PROVE  LoopInv'
  <2>1. worker = "alive" /\ Self \in sdrefs
    BY <1>1, ReachAlive DEF Enter
  <2>2. QED
    BY <1>1, <2>1 DEF Enter
<1>2. ASSUME NEW a \in Actors, WorkerGone(a)
      PROVE  LoopInv'
  <2>1. /\ Self \in sdrefs /\ sd = "live" /\ worker' = "gone"
        /\ sdrefs' = sdrefs \ {Self} /\ a # Self
    BY <1>2 DEF WorkerGone, UnrefDispatcher
  <2>2. CASE sdrefs' = {}
    <3>1. /\ sd' = "draining"
          /\ role' = [role EXCEPT ![a] = "drain"] /\ pc' = [pc EXCEPT ![a] = "pop"]
      BY <1>2, <2>2 DEF WorkerGone, UnrefDispatcher
    <3>2. \A b \in Actors : role[b] = "none"
      BY <2>1, <2>2
    <3>3. QED
      BY <2>1, <2>2, <3>1, <3>2
  <2>3. CASE sdrefs' # {}
    BY <1>2, <2>1, <2>3 DEF WorkerGone, UnrefDispatcher
  <2>4. QED
    BY <2>2, <2>3
<1>3. ASSUME NEW a \in Actors, LeaveLoop(a)
      PROVE  LoopInv'
  <2>1. /\ role[a] \in {"run", "flush"} /\ a \in sdrefs /\ sd = "live" /\ a # Self
        /\ sdrefs' = sdrefs \ {a} /\ UNCHANGED worker
    BY <1>3 DEF LeaveLoop, UnrefDispatcher
  <2>2. CASE sdrefs' = {}
    <3>1. /\ sd' = "draining"
          /\ role' = [role EXCEPT ![a] = "drain"] /\ pc' = [pc EXCEPT ![a] = "pop"]
      BY <1>3, <2>2 DEF LeaveLoop, UnrefDispatcher
    <3>2. \A b \in Actors \ {a} : role[b] = "none"
      BY <2>1, <2>2
    <3>3. QED
      BY <2>1, <2>2, <3>1, <3>2
  <2>3. CASE sdrefs' # {}
    BY <1>3, <2>1, <2>3 DEF LeaveLoop, UnrefDispatcher
  <2>4. QED
    BY <2>2, <2>3
<1>4. ASSUME NEW a \in Actors, FreeDispatcher(a)
      PROVE  LoopInv'
  <2>1. role[a] = "drain" /\ sd = "draining" /\ sdrefs = {}
    BY <1>4 DEF FreeDispatcher
  <2>2. QED
    BY <1>4, <2>1 DEF FreeDispatcher
<1>5. ASSUME NEW a \in Actors, Check(a) \/ Repost(a)
      PROVE  LoopInv'
  BY <1>5 DEF Check, Repost
<1>6. ASSUME NEW a \in Actors, PumpTask(a) \/ PumpQuit(a) \/ Finish(a)
      PROVE  LoopInv'
  BY <1>6 DEF PumpTask, PumpQuit, AfterQuit, Finish
<1>7. ASSUME NEW a \in Actors, Drop(a) \/ ReleaseHandle(a) \/ WorkerQuit(a)
      PROVE  LoopInv'
  <2>1. UNCHANGED <<pc, role, sdrefs, sd>>
    BY <1>7 DEF Drop, ReleaseHandle, WorkerQuit
  <2>2. worker # "gone" /\ worker' # "gone"
    <3>1. CASE Drop(a)
      BY <3>1, ReachAlive DEF Drop, Unref
    <3>2. CASE ReleaseHandle(a)
      BY <3>2 DEF ReleaseHandle, Unref, HandleInv
    <3>3. CASE WorkerQuit(a)
      BY <3>3 DEF WorkerQuit
    <3>4. QED
      BY <1>7, <3>1, <3>2, <3>3
  <2>3. QED
    BY <2>1, <2>2
<1>8. ASSUME UNCHANGED <<pc, role, sdrefs, sd, worker>>
      PROVE  LoopInv'
  BY <1>8
<1>9. ASSUME NEW a \in Actors, NEW t \in Tasks, Dispatch(a, t)
      PROVE  LoopInv'
  BY <1>8, <1>9 DEF Dispatch
<1>10. ASSUME NEW a \in Actors, NEW c \in Clients, Share(a, c)
       PROVE  LoopInv'
  BY <1>8, <1>10 DEF Share
<1>11. ASSUME NEW a \in Actors, Clear(a) \/ PumpWait(a)
       PROVE  LoopInv'
  BY <1>8, <1>11 DEF Clear, PumpWait
<1>12. CASE UNCHANGED vars
  BY <1>8, <1>12 DEF vars
<1>13. QED
  BY <1>1, <1>2, <1>3, <1>4, <1>5, <1>6, <1>7, <1>9, <1>10, <1>11, <1>12
     DEF Next, Use, Step, Run, Flush

LEMMA QuitInit == Init => QuitInv
  BY DistinctAssumption DEF Init, Create, Install, QuitInv, QuitIsLast, QuitsQueued,
     QuitQueued, Holds, Actors, Home

\* The quit message in every step.
LEMMA QuitStep ==
  ASSUME TypeOK, IInv, [Next]_vars
  PROVE  QuitInv'
<1> USE DistinctAssumption DEF TypeOK, IInv, QuitInv, QuitIsLast, QuitsQueued, QuitQueued, Holds
<1>1. ASSUME NEW a \in Actors, NEW t \in Tasks, Dispatch(a, t)
      PROVE  QuitInv'
  <2>1. worker = "alive" /\ sd # "freed" /\ t # Null
    BY <1>1, ReachAlive DEF Dispatch, LoopInv
  <2>2. /\ queue' = Append(queue, t) /\ UNCHANGED <<pc, worker, sd>>
        /\ \A i \in 1..Len(queue) : queue[i] # Null
    BY <1>1, <2>1, PushStep DEF Dispatch
  <2>3. \A i \in 1..Len(queue') : queue'[i] # Null
    BY <2>1, <2>2, PushPositions
  <2>4. QED
    BY <2>1, <2>2, <2>3
<1>2. ASSUME NEW a \in Actors, Clear(a)
      PROVE  QuitInv'
  <2>1. worker = "alive" /\ sd # "freed"
    BY <1>2, ReachAlive DEF Clear, LoopInv
  <2>2. queue' = <<>> /\ UNCHANGED <<pc, worker, sd>>
    BY <1>2, ClearStep DEF Clear
  <2>3. QED
    BY <2>1, <2>2
<1>3. ASSUME ~QuitQueued, queue' = Append(queue, Null)
      PROVE  QuitIsLast' /\ QuitQueued'
  <2>1. /\ Len(queue') = Len(queue) + 1 /\ Len(queue) \in Nat
        /\ \A i \in 1..Len(queue) : queue'[i] = queue[i]
        /\ queue'[Len(queue) + 1] = Null
    BY <1>3, PushPositions
  <2>2. QED
    BY <1>3, <2>1
<1>4. ASSUME NEW a \in Actors, WorkerQuit(a)
      PROVE  QuitInv'
  <2>1. /\ worker = "dying" /\ worker' = "quitted" /\ UNCHANGED <<pc, sd>>
        /\ queue' = Append(queue, Null) /\ sd # "freed"
    BY <1>4, PushStep DEF WorkerQuit, LoopInv
  <2>2. QED
    BY <1>3, <2>1
<1>5. ASSUME NEW a \in Actors, Repost(a)
      PROVE  QuitInv'
  <2>1. /\ Holds(a) /\ pc' = [pc EXCEPT ![a] = "release"] /\ UNCHANGED <<worker, sd>>
        /\ queue' = Append(queue, Null)
    BY <1>5, PushStep DEF Repost
  <2>2. sd # "freed" /\ ~QuitQueued /\ \A b \in Actors : ~Holds(b)'
    BY <2>1
  <2>3. QED
    BY <1>3, <2>1, <2>2
<1>6. ASSUME NEW a \in Actors, WorkerGone(a)
      PROVE  QuitInv'
  <2>1. worker = "quitted" /\ worker' = "gone" /\ UNCHANGED queue /\ sd = "live"
        /\ sd' # "freed"
    BY <1>6 DEF WorkerGone, UnrefDispatcher, LoopInv
  <2>2. CASE sdrefs' = {}
    <3>1. pc[a] = Home(a) /\ pc' = [pc EXCEPT ![a] = "pop"]
      BY <1>6, <2>2, DrainStarts DEF WorkerGone, UnrefDispatcher
    <3>2. \A b \in Actors : (Holds(b) <=> Holds(b)') /\ (pc[b] = "free" <=> pc'[b] = "free")
      BY <3>1 DEF Home
    <3>3. QED
      BY <2>1, <3>2
  <2>3. CASE sdrefs' # {}
    <3>1. UNCHANGED pc
      BY <1>6, <2>3 DEF WorkerGone, UnrefDispatcher
    <3>2. QED
      BY <2>1, <3>1
  <2>4. QED
    BY <2>2, <2>3
<1>7. ASSUME NEW a \in Actors, LeaveLoop(a)
      PROVE  QuitInv'
  <2>1. pc[a] = "release" /\ UNCHANGED <<queue, worker>> /\ sd = "live" /\ sd' # "freed"
    <3>1. pc[a] = "release" /\ UNCHANGED <<queue, worker>> /\ sd' \in {sd, "draining"}
      BY <1>7 DEF LeaveLoop, UnrefDispatcher
    <3>2. role[a] \in {"run", "flush"}
      BY <3>1 DEF LoopInv, LoopPlaces, Home
    <3>3. sd = "live"
      BY <3>2 DEF LoopInv
    <3>4. QED
      BY <3>1, <3>3
  <2>2. \A b \in Actors : (Holds(b) <=> Holds(b)') /\ (pc[b] = "free" <=> pc'[b] = "free")
    BY <1>7 DEF LeaveLoop, UnrefDispatcher, Home
  <2>3. QED
    BY <2>1, <2>2
<1>8. ASSUME NEW a \in Actors, FreeDispatcher(a)
      PROVE  QuitInv'
  <2>1. Holds(a) /\ pc' = [pc EXCEPT ![a] = Home(a)] /\ queue' = <<>>
        /\ sd' = "freed" /\ UNCHANGED worker
    BY <1>8, ClearStep DEF FreeDispatcher
  <2>2. worker = "gone"
    <3>1. role[a] = "drain"
      BY <1>8 DEF FreeDispatcher, LoopInv, LoopPlaces, Home
    <3>2. QED
      BY <3>1 DEF LoopInv
  <2>3. \A b \in Actors : ~Holds(b)'
    BY <2>1 DEF Home
  <2>4. QED
    BY <2>1, <2>2, <2>3
<1>9. ASSUME NEW a \in Actors, PumpTask(a)
      PROVE  QuitInv'
  <2>1. /\ queue # <<>> /\ queue' = Tail(queue) /\ Head(queue) # Null
        /\ pc' = [pc EXCEPT ![a] = "exec"] /\ pc[a] = "pop" /\ UNCHANGED <<worker, sd>>
    BY <1>9, TakeStep DEF PumpTask
  <2>2. /\ Len(queue') = Len(queue) - 1 /\ Len(queue) \in Nat \ {0}
        /\ \A i \in 1..Len(queue') : queue'[i] = queue[i + 1]
        /\ Head(queue) = queue[1]
    BY <2>1, PopPositions
  <2>3. QuitIsLast'
    BY <2>2
  <2>4. QuitQueued' <=> QuitQueued
    <3>1. ASSUME NEW i \in 1..Len(queue), queue[i] = Null
          PROVE  QuitQueued'
      <4>1. i # 1
        BY <2>1, <2>2, <3>1
      <4>2. i - 1 \in 1..Len(queue') /\ (i - 1) + 1 = i
        BY <2>2, <4>1
      <4>3. queue'[i - 1] = Null
        BY <2>2, <3>1, <4>2
      <4>4. QED
        BY <4>2, <4>3
    <3>2. ASSUME NEW i \in 1..Len(queue'), queue'[i] = Null
          PROVE  QuitQueued
      BY <2>2, <3>2
    <3>3. QED
      BY <3>1, <3>2
  <2>5. \A b \in Actors : (Holds(b) <=> Holds(b)') /\ (pc[b] = "free" <=> pc'[b] = "free")
    BY <2>1
  <2>6. QED
    BY <2>1, <2>3, <2>4, <2>5
<1>10. ASSUME NEW a \in Actors, PumpQuit(a)
       PROVE  QuitInv'
  <2>1. /\ queue # <<>> /\ queue' = Tail(queue) /\ Head(queue) = Null
        /\ pc' = [pc EXCEPT ![a] = AfterQuit(a)] /\ UNCHANGED <<worker, sd>>
    BY <1>10, TakeStep DEF PumpQuit
  <2>2. /\ Len(queue') = Len(queue) - 1 /\ Len(queue) \in Nat \ {0}
        /\ Head(queue) = queue[1]
    BY <2>1, PopPositions
  <2>3. Len(queue) = 1 /\ QuitQueued
    <3>1. queue[1] = Null
      BY <2>1, <2>2
    <3>2. 1 \in 1..Len(queue)
      BY <2>2
    <3>3. QED
      BY <3>1, <3>2
  <2>4. queue' = <<>>
    <3>1. queue' \in Seq(Tasks \cup {Null}) /\ Len(queue') = 0
      BY <1>10, <2>2, <2>3, TakeStep DEF PumpQuit
    <3>2. QED
      BY <3>1, EmptySeq
  <2>5. /\ Holds(a)' /\ worker \notin {"alive", "dying"} /\ sd # "freed"
        /\ \A b \in Actors : Holds(b)' => b = a
    BY <2>1, <2>3 DEF AfterQuit
  <2>6. QED
    BY <2>1, <2>4, <2>5
<1>11. ASSUME UNCHANGED <<queue, sd>>,
              worker' = worker \/ (worker = "alive" /\ worker' = "dying"),
              \A b \in Actors : (Holds(b) <=> Holds(b)') /\ (pc[b] = "free" <=> pc'[b] = "free")
       PROVE  QuitInv'
  BY <1>11
<1>12. ASSUME NEW a \in Actors, NEW c \in Clients, Share(a, c)
       PROVE  QuitInv'
  BY <1>11, <1>12 DEF Share
<1>13. ASSUME NEW a \in Actors, Drop(a) \/ ReleaseHandle(a)
       PROVE  QuitInv'
  <2>1. UNCHANGED <<queue, sd, pc>>
    BY <1>13 DEF Drop, ReleaseHandle
  <2>2. worker' = worker \/ (worker = "alive" /\ worker' = "dying")
    <3>1. worker = "alive"
      BY <1>13, ReachAlive DEF Drop, ReleaseHandle, HandleInv
    <3>2. worker' \in {worker, "dying"}
      BY <1>13 DEF Drop, ReleaseHandle, Unref
    <3>3. QED
      BY <3>1, <3>2
  <2>3. QED
    BY <1>11, <2>1, <2>2
<1>14. ASSUME NEW a \in Actors, NEW l, NEW p \in {"pop", "check"},
              \/ Enter(a, l, p) \/ Check(a) \/ PumpWait(a) \/ Finish(a)
       PROVE  QuitInv'
  <2>1. UNCHANGED <<queue, sd, worker>>
    BY <1>14 DEF Enter, Check, PumpWait, Finish, MQ!Sleep
  <2>2. \A b \in Actors : (Holds(b) <=> Holds(b)') /\ (pc[b] = "free" <=> pc'[b] = "free")
    BY <1>14 DEF Enter, Check, PumpWait, Finish
  <2>3. QED
    BY <1>11, <2>1, <2>2
<1>15. CASE UNCHANGED vars
  BY <1>11, <1>15 DEF vars
<1>16. QED
  BY <1>1, <1>2, <1>4, <1>5, <1>6, <1>7, <1>8, <1>9, <1>10, <1>12, <1>13, <1>14, <1>15
     DEF Next, Use, Step, Run, Flush

-----------------------------------------------------------------------------
(* The theorems. *)

\* IInv holds in every reachable state.
THEOREM Inductive == Spec => []IInv
<1>1. Init => IInv
  BY HandleInit, JobInit, QueueInit, LoopInit, QuitInit DEF IInv
<1>2. TypeOK /\ IInv /\ [Next]_vars => IInv'
  BY HandleStep, JobStep, QueueStep, LoopStep, QuitStep DEF IInv
<1>3. QED
  BY <1>1, <1>2, TypeCorrect, PTL DEF Spec

\* No function is ever queued behind the quit message, where the loops would
\* leave it.
THEOREM QuitStaysLast == Spec => []QuitIsLast
<1>1. IInv => QuitIsLast
  BY DEF IInv, QuitInv
<1>2. QED
  BY <1>1, Inductive, PTL

\* When the SharedDispatcher is freed, no dispatched function is left in its
\* queue and none is being executed: each has been executed or cleared.
THEOREM NothingIsAbandoned == Spec => []NothingAbandoned
<1>1. TypeOK /\ IInv => NothingAbandoned
  <2> SUFFICES ASSUME TypeOK, IInv, sd = "freed", NEW t \in Tasks
               PROVE  fate[t] \in {"new", "done", "cleared"}
    BY DEF NothingAbandoned
  <2>1. queue = <<>> /\ sdrefs = {}
    BY DEF IInv, QuitInv, LoopInv
  <2>2. fate[t] # "queued"
    BY <2>1 DEF IInv, QueueInv
  <2>3. \A a \in Actors : role[a] = "none"
    BY <2>1 DEF TypeOK, IInv, LoopInv
  <2>4. \A a \in Actors : job[a] = None
    BY <2>3 DEF IInv, LoopInv, LoopPlaces, JobInv, Home
  <2>5. fate[t] # "running"
    BY <2>4, DistinctAssumption DEF IInv, JobInv
  <2>6. QED
    BY <2>2, <2>5 DEF TypeOK
<1>2. QED
  BY <1>1, TypeCorrect, Inductive, PTL

\* Nobody is in a loop of the SharedDispatcher, or in the destructor that posts
\* to it, after it is freed; while it is being destroyed one thread is.
THEOREM NobodyUsesFreed == Spec => []NoUseAfterFree
<1>1. TypeOK /\ IInv => NoUseAfterFree
  <2> SUFFICES ASSUME TypeOK, IInv, sd # "live"
               PROVE  NoUseAfterFree
    BY DEF NoUseAfterFree
  <2>1. sdrefs = {} /\ worker = "gone"
    BY DEF TypeOK, IInv, LoopInv
  <2>2. \A a \in Actors : role[a] \in {"none", "drain"} /\ killer # a
    BY <2>1, DistinctAssumption DEF TypeOK, IInv, LoopInv, HandleInv
  <2>3. QED
    BY <2>2 DEF NoUseAfterFree, IInv, LoopInv
<1>2. QED
  BY <1>1, TypeCorrect, Inductive, PTL

\* From the destruction of the DefaultWorker to that of the SharedDispatcher one
\* quit message exists, and none before.
THEOREM OneQuit == Spec => []OneQuitMessage
<1>1. TypeOK /\ IInv => OneQuitMessage
  <2> SUFFICES ASSUME TypeOK, IInv
               PROVE  OneQuitMessage
    OBVIOUS
  <2> USE DEF IInv, QuitInv, QuitIsLast, QuitQueued, QuitsQueued, Holds, QuitHolders
  <2>1. ASSUME QuitHolders = {}
        PROVE  Cardinality(QuitHolders) = 0
    BY <2>1, FS_EmptySet
  <2>2. ASSUME NEW a \in QuitHolders
        PROVE  Cardinality(QuitHolders) = 1
    <3>1. QuitHolders = {a}
      BY <2>2
    <3>2. QED
      BY <3>1, FS_Singleton
  <2>3. ASSUME ~QuitQueued
        PROVE  Cardinality(QuitsQueued) = 0
    <3>1. QuitsQueued = {}
      BY <2>3
    <3>2. QED
      BY <3>1, FS_EmptySet
  <2>4. ASSUME QuitQueued
        PROVE  Cardinality(QuitsQueued) = 1
    <3>1. QuitsQueued = {Len(queue)}
      BY <2>4
    <3>2. QED
      BY <3>1, FS_Singleton
  <2>5. CASE worker \in {"quitted", "gone"} /\ sd # "freed"
    <3>1. CASE QuitQueued
      <4>1. QuitHolders = {}
        BY <3>1
      <4>2. QED
        BY <2>1, <2>4, <2>5, <3>1, <4>1 DEF OneQuitMessage
    <3>2. CASE ~QuitQueued
      <4>1. PICK a \in Actors : Holds(a)
        BY <2>5, <3>2
      <4>2. a \in QuitHolders
        BY <4>1
      <4>3. QED
        BY <2>2, <2>3, <2>5, <3>2, <4>2 DEF OneQuitMessage
    <3>3. QED
      BY <3>1, <3>2
  <2>6. CASE ~(worker \in {"quitted", "gone"} /\ sd # "freed")
    <3>1. QuitHolders = {} /\ ~QuitQueued
      <4>1. CASE sd = "freed"
        <5>1. queue = <<>> /\ \A a \in Actors : ~Holds(a)
          BY <4>1
        <5>2. QED
          BY <5>1
      <4>2. CASE worker \in {"alive", "dying"}
        BY <4>2
      <4>3. QED
        BY <2>6, <4>1, <4>2 DEF TypeOK
    <3>2. QED
      BY <2>1, <2>3, <2>6, <3>1 DEF OneQuitMessage
  <2>7. QED
    BY <2>5, <2>6
<1>2. QED
  BY <1>1, TypeCorrect, Inductive, PTL

-----------------------------------------------------------------------------
(* A Worker is a TaskPool. *)

\* A function appended to a queue without the quit message is appended to the
\* work; the quit message is not.
LEMMA WorkPushed ==
  ASSUME NEW sq \in Seq(Tasks \cup {Null}), \A i \in 1..Len(sq) : sq[i] # Null
  PROVE  /\ WorkOf(sq) = sq
         /\ \A t \in Tasks : WorkOf(Append(sq, t)) = Append(sq, t)
         /\ WorkOf(Append(sq, Null)) = sq
<1>1. WorkOf(sq) = sq
  BY DEF WorkOf
<1>2. \A m \in Tasks \cup {Null} :
        /\ Append(sq, m) # <<>> /\ Append(sq, m) \in Seq(Tasks \cup {Null})
        /\ Len(Append(sq, m)) = Len(sq) + 1 /\ Append(sq, m)[Len(sq) + 1] = m
        /\ \A i \in 1..Len(sq) : Append(sq, m)[i] = sq[i]
  OBVIOUS
<1>3. \A t \in Tasks : WorkOf(Append(sq, t)) = Append(sq, t)
  BY <1>2, DistinctAssumption DEF WorkOf
<1>4. WorkOf(Append(sq, Null)) = sq
  <2> DEFINE ap == Append(sq, Null)
             sub == SubSeq(ap, 1, Len(sq))
  <2>1. WorkOf(ap) = sub
    <3>1. ap # <<>> /\ Len(ap) = Len(sq) + 1 /\ ap[Len(ap)] = Null
      BY <1>2
    <3>2. Len(ap) - 1 = Len(sq)
      BY <3>1
    <3> HIDE DEF ap
    <3>3. QED
      BY <3>1, <3>2 DEF WorkOf
  <2>2. \A i \in 1..Len(sq) : ap[i] = sq[i] /\ ap[i] \in Tasks \cup {Null}
    BY <1>2
  <2>3. Len(sq) \in Nat
    OBVIOUS
  <2> HIDE DEF ap
  <2>4. /\ sub \in Seq(Tasks \cup {Null}) /\ Len(sub) = Len(sq)
        /\ \A i \in 1..Len(sq) : sub[i] = sq[i]
    <3>1. /\ sub \in Seq(Tasks \cup {Null})
          /\ Len(sub) = (IF 1 <= Len(sq) THEN Len(sq) - 1 + 1 ELSE 0)
          /\ \A i \in 1..(Len(sq) - 1 + 1) : sub[i] = ap[1 + i - 1]
      BY <2>2, <2>3, SubSeqProperties
    <3>2. QED
      BY <2>2, <2>3, <3>1
  <2>5. sub = sq
    BY <2>4, SeqEqual
  <2>6. QED
    BY <2>1, <2>5 DEF ap
<1>5. QED
  BY <1>1, <1>3, <1>4

\* The first function of the queue is the first of the work; when the quit
\* message is first there is no work.
LEMMA WorkTaken ==
  ASSUME NEW sq \in Seq(Tasks \cup {Null}), sq # <<>>,
         \A i \in 1..Len(sq) : sq[i] = Null => i = Len(sq)
  PROVE  /\ Head(sq) = Null => WorkOf(sq) = <<>> /\ WorkOf(Tail(sq)) = <<>>
         /\ Head(sq) # Null => /\ WorkOf(sq) # <<>>
                               /\ Head(WorkOf(sq)) = Head(sq)
                               /\ Tail(WorkOf(sq)) = WorkOf(Tail(sq))
<1>1. PICK n \in Nat, tl \in Seq(Tasks \cup {Null}) :
        /\ n = Len(sq) /\ n > 0 /\ tl = Tail(sq) /\ Len(tl) = n - 1
        /\ \A i \in 1..(n - 1) : tl[i] = sq[i + 1]
        /\ Head(sq) = sq[1]
  <2>1. Len(sq) \in Nat /\ Tail(sq) \in Seq(Tasks \cup {Null})
    OBVIOUS
  <2>2. /\ Len(sq) > 0 /\ Len(Tail(sq)) = Len(sq) - 1 /\ Head(sq) = sq[1]
        /\ \A i \in 1..(Len(sq) - 1) : Tail(sq)[i] = sq[i + 1]
    BY PopPositions
  <2>3. QED
    BY <2>1, <2>2
<1>2. ASSUME n > 1
      PROVE  tl # <<>> /\ tl[n - 1] = sq[n]
  <2>1. n - 1 \in 1..(n - 1) /\ n - 1 + 1 = n
    BY <1>1, <1>2
  <2>2. tl[n - 1] = sq[n - 1 + 1]
    BY <1>1, <2>1
  <2>3. Len(tl) # 0
    BY <1>1, <1>2
  <2>4. QED
    BY <2>1, <2>2, <2>3
<1>3. ASSUME Head(sq) = Null
      PROVE  WorkOf(sq) = <<>> /\ WorkOf(tl) = <<>>
  <2>1. n = 1
    BY <1>1, <1>3
  <2>2. WorkOf(sq) = SubSeq(sq, 1, 0)
    BY <1>1, <1>3, <2>1 DEF WorkOf
  <2>3. WorkOf(sq) = <<>>
    BY <2>2, SubSeqEmpty
  <2>4. tl = <<>>
    BY <1>1, <2>1
  <2>5. QED
    BY <2>3, <2>4 DEF WorkOf
<1>4. ASSUME Head(sq) # Null, sq[n] = Null
      PROVE  /\ WorkOf(sq) # <<>> /\ Head(WorkOf(sq)) = Head(sq)
             /\ Tail(WorkOf(sq)) = WorkOf(tl)
  <2>1. n > 1 /\ 1 <= n - 1
    BY <1>1, <1>4
  <2>2. WorkOf(sq) = SubSeq(sq, 1, n - 1)
    BY <1>1, <1>4 DEF WorkOf
  <2>3. WorkOf(tl) = SubSeq(tl, 1, n - 2)
    <3>1. tl # <<>> /\ tl[Len(tl)] = Null /\ Len(tl) - 1 = n - 2
      BY <1>1, <1>2, <1>4, <2>1
    <3>2. QED
      BY <3>1 DEF WorkOf
  <2>4. Head(SubSeq(sq, 1, n - 1)) = sq[1] /\ Tail(SubSeq(sq, 1, n - 1)) = SubSeq(sq, 2, n - 1)
    <3>1. 1 \in 1..Len(sq) /\ n - 1 \in 1..Len(sq) /\ 1 + 1 = 2
      BY <1>1, <2>1
    <3>2. QED
      BY <3>1, HeadTailOfSubSeq
  <2>5. SubSeq(sq, 1, n - 1) # <<>>
    <3>1. \A i \in 1..(n - 1) : sq[i] \in Tasks \cup {Null}
      BY <1>1
    <3>2. Len(SubSeq(sq, 1, n - 1)) = IF 1 <= n - 1 THEN n - 1 - 1 + 1 ELSE 0
      BY <1>1, <3>1, SubSeqProperties
    <3>3. Len(SubSeq(sq, 1, n - 1)) # 0
      BY <1>1, <2>1, <3>2
    <3>4. QED
      BY <3>3
  <2>6. SubSeq(tl, 1, n - 2) = SubSeq(sq, 2, n - 1)
    <3>1. PICK u, v : u = SubSeq(tl, 1, n - 2) /\ v = SubSeq(sq, 2, n - 1)
      OBVIOUS
    <3>2. /\ u \in Seq(Tasks \cup {Null})
          /\ Len(u) = IF 1 <= n - 2 THEN n - 2 - 1 + 1 ELSE 0
          /\ \A i \in 1..(n - 2 - 1 + 1) : u[i] = tl[1 + i - 1]
      <4>1. \A i \in 1..(n - 2) : tl[i] \in Tasks \cup {Null}
        BY <1>1
      <4>2. QED
        BY <1>1, <2>1, <3>1, <4>1, SubSeqProperties
    <3>3. /\ v \in Seq(Tasks \cup {Null})
          /\ Len(v) = IF 2 <= n - 1 THEN n - 1 - 2 + 1 ELSE 0
          /\ \A i \in 1..(n - 1 - 2 + 1) : v[i] = sq[2 + i - 1]
      <4>1. \A i \in 2..(n - 1) : sq[i] \in Tasks \cup {Null}
        BY <1>1
      <4>2. QED
        BY <1>1, <2>1, <3>1, <4>1, SubSeqProperties
    <3>4. Len(u) = n - 2 /\ Len(v) = n - 2
      BY <1>1, <2>1, <3>2, <3>3
    <3>5. \A i \in 1..(n - 2) : u[i] = v[i]
      <4>1. \A i \in 1..(n - 2) : u[i] = tl[i]
        BY <1>1, <3>2
      <4>2. \A i \in 1..(n - 2) : v[i] = sq[i + 1]
        BY <1>1, <3>3
      <4>3. QED
        BY <1>1, <4>1, <4>2
    <3>6. u = v
      BY <3>2, <3>3, <3>4, <3>5, SeqEqual
    <3>7. QED
      BY <3>1, <3>6
  <2>7. QED
    BY <1>1, <2>2, <2>3, <2>4, <2>5, <2>6
<1>5. ASSUME Head(sq) # Null, sq[n] # Null
      PROVE  WorkOf(sq) = sq /\ WorkOf(tl) = tl
  <2>1. WorkOf(sq) = sq
    BY <1>1, <1>5 DEF WorkOf
  <2>2. tl # <<>> => tl[Len(tl)] = sq[n]
    BY <1>1, <1>2
  <2>3. QED
    BY <1>5, <2>1, <2>2 DEF WorkOf
<1>6. QED
  BY <1>1, <1>3, <1>4, <1>5

\* The one thread that executes a task is the one that has it.
LEMMA ExecutingStep ==
  ASSUME TypeOK, JobInv, NEW a \in Actors
  PROVE  /\ \A t \in Tasks : /\ job[a] = None /\ job' = [job EXCEPT ![a] = t]
                             => Executing' = Executing \cup {t}
         /\ job[a] # None /\ job' = [job EXCEPT ![a] = None]
            => job[a] \in Executing /\ Executing' = Executing \ {job[a]}
  BY DistinctAssumption DEF TypeOK, JobInv, Executing

\* A Worker is a TaskPool as far as safety goes: whichever thread takes a
\* function, functions start in the order of dispatch and each at most once, none
\* is submitted or discarded once the last handle is gone, and what happens in
\* the quit protocol and in the destructors is invisible (worker.h, dispatcher.h).
THEOREM RefinesTaskPool == Spec => TP!Safety
<1>1. Init => TP!Init
  <2> SUFFICES ASSUME Init
               PROVE  TP!Init
    OBVIOUS
  <2>1. Executing = {} /\ InUse = TRUE
    BY DistinctAssumption DEF Init, Create, Install, Executing, InUse
  <2>2. CASE Create
    BY <2>1, <2>2 DEF Create, TP!Init, Undispatched, Work, WorkOf
  <2>3. CASE Install
    <3>1. PICK t \in Tasks : queue = <<t>> /\ fate = [u \in Tasks |-> IF u = t THEN "queued" ELSE "new"]
      BY <2>3 DEF Install
    <3>2. Undispatched = Tasks \ {t}
      BY <3>1 DEF Undispatched
    <3>3. Work = <<t>>
      BY <3>1, DistinctAssumption DEF Work, WorkOf
    <3>4. QED
      BY <2>1, <3>2, <3>3 DEF TP!Init
  <2>4. QED
    BY <2>2, <2>3 DEF Init
<1>2. TypeOK /\ IInv /\ [Next]_vars => [TP!Next]_TP!vars
  <2> SUFFICES ASSUME TypeOK, IInv, [Next]_vars
               PROVE  [TP!Next]_TP!vars
    OBVIOUS
  <2>0. /\ HandleInv /\ JobInv /\ QuitInv /\ queue \in Seq(Tasks \cup {Null})
        /\ fate \in [Tasks -> {"new", "queued", "running", "done", "cleared"}]
    BY DEF IInv, TypeOK
  <2>1. \A i \in 1..Len(queue) : queue[i] = Null => i = Len(queue)
    BY <2>0 DEF QuitInv, QuitIsLast, QuitsQueued
  <2>2. ~QuitQueued => /\ Work = queue
                       /\ \A t \in Tasks : WorkOf(Append(queue, t)) = Append(queue, t)
                       /\ WorkOf(Append(queue, Null)) = queue
    BY <2>0, WorkPushed DEF QuitQueued, Work
  \* What only moves handles.
  <2>3. ASSUME UNCHANGED <<queue, fate, job, handles>>
        PROVE  UNCHANGED TP!vars
    BY <2>3 DEF TP!vars, Undispatched, Work, Executing, InUse
  <2>4. ASSUME UNCHANGED <<queue, fate, job>>, handles # {}
        PROVE  [TP!Next]_TP!vars
    <3>1. InUse = TRUE /\ InUse' \in BOOLEAN /\ UNCHANGED <<Undispatched, Work, Executing>>
      BY <2>4 DEF Undispatched, Work, Executing, InUse
    <3>2. CASE InUse'
      BY <3>1, <3>2 DEF TP!vars
    <3>3. CASE ~InUse'
      BY <3>1, <3>3 DEF TP!Next, TP!Close
    <3>4. QED
      BY <3>2, <3>3
  \* What leaves the work as it is.
  <2>5. ASSUME Work' = Work, UNCHANGED <<fate, job, handles>>
        PROVE  UNCHANGED TP!vars
    BY <2>5 DEF TP!vars, Undispatched, Executing, InUse
  <2>6. ASSUME NEW a \in Actors, NEW t \in Tasks, Dispatch(a, t)
        PROVE  [TP!Next]_TP!vars
    <3>1. worker = "alive" /\ handles # {} /\ handles' # {} /\ queue' = Append(queue, t)
      BY <2>0, <2>6, ReachAlive, PushStep DEF Dispatch
    <3>2. Work' = Append(Work, t)
      BY <2>0, <2>2, <3>1 DEF QuitInv, Work
    <3>3. t \in Undispatched /\ Undispatched' = Undispatched \ {t}
      BY <2>0, <2>6 DEF Dispatch, Undispatched
    <3>4. InUse = TRUE /\ InUse' = TRUE /\ Executing' = Executing
      BY <2>6, <3>1 DEF Dispatch, InUse, Executing
    <3>5. QED
      BY <3>2, <3>3, <3>4 DEF TP!Next, TP!Submit
  <2>7. ASSUME NEW a \in Actors, NEW c \in Clients, Share(a, c)
        PROVE  [TP!Next]_TP!vars
    <3>1. handles # {}
      BY <2>0, <2>7, ReachAlive DEF Share
    <3>2. QED
      BY <2>4, <2>7, <3>1 DEF Share
  <2>8. ASSUME NEW a \in Actors, Drop(a)
        PROVE  [TP!Next]_TP!vars
    <3>1. handles # {}
      BY <2>0, <2>8, ReachAlive DEF Drop
    <3>2. QED
      BY <2>4, <2>8, <3>1 DEF Drop
  <2>9. ASSUME NEW a \in Actors, Clear(a)
        PROVE  [TP!Next]_TP!vars
    <3>1. /\ queue' = <<>> /\ job' = job
          /\ fate' = [t \in Tasks |-> IF fate[t] = "queued" THEN "cleared" ELSE fate[t]]
          /\ handles' = {h \in handles : h \in Clients \/ fate[h] # "queued"}
      BY <2>9, ClearStep DEF Clear
    <3>2. PICK h \in handles : h \in Clients \/ (h = job[a] /\ pc[a] = "exec")
      <4>1. PICK h \in handles : h = a \/ (h = job[a] /\ pc[a] = "exec")
        BY <2>9 DEF Clear, Reach
      <4>2. a \in handles => a \in Clients
        BY DistinctAssumption DEF TypeOK, Actors
      <4>3. QED
        BY <4>1, <4>2
    <3>3. h \in handles'
      BY <2>0, <3>1, <3>2 DEF JobInv
    <3>4. InUse = TRUE /\ InUse' = TRUE
      BY <3>2, <3>3 DEF InUse
    <3>5. Work' = <<>> /\ UNCHANGED <<Undispatched, Executing>>
      BY <2>0, <3>1 DEF Work, WorkOf, Undispatched, Executing
    <3>6. QED
      BY <3>4, <3>5 DEF TP!Next, TP!Discard
  <2>10. ASSUME NEW a \in Actors, ReleaseHandle(a)
         PROVE  [TP!Next]_TP!vars
    <3>1. handles # {}
      BY <2>0, <2>10 DEF ReleaseHandle, HandleInv
    <3>2. QED
      BY <2>4, <2>10, <3>1 DEF ReleaseHandle
  <2>11. ASSUME NEW a \in Actors, WorkerQuit(a) \/ Repost(a)
         PROVE  UNCHANGED TP!vars
    <3>1. ~QuitQueued
      BY <2>0, <2>11 DEF WorkerQuit, Repost, QuitInv, Holds
    <3>2. queue' = Append(queue, Null) /\ UNCHANGED <<fate, job, handles>>
      BY <2>11, PushStep DEF WorkerQuit, Repost
    <3>3. Work' = Work
      BY <2>2, <3>1, <3>2 DEF Work
    <3>4. QED
      BY <2>5, <3>2, <3>3
  <2>12. ASSUME NEW a \in Actors, FreeDispatcher(a)
         PROVE  UNCHANGED TP!vars
    <3>1. queue = <<>> /\ queue' = <<>>
      BY <2>0, <2>12, ClearStep DEF FreeDispatcher, QuitInv
    <3>2. QED
      BY <2>3, <2>12, <3>1 DEF FreeDispatcher
  <2>13. ASSUME NEW a \in Actors, PumpTask(a)
         PROVE  [TP!Next]_TP!vars
    <3>1. /\ queue # <<>> /\ queue' = Tail(queue) /\ Head(queue) \in Tasks /\ Head(queue) # Null
          /\ pc[a] = "pop" /\ job' = [job EXCEPT ![a] = Head(queue)]
          /\ fate' = [fate EXCEPT ![Head(queue)] = "running"] /\ handles' = handles
      BY <2>13, TakeStep DEF PumpTask
    <3>2. Work # <<>> /\ Head(Work) = Head(queue) /\ Work' = Tail(Work)
      BY <2>0, <2>1, <3>1, WorkTaken DEF Work
    <3>3. Executing' = Executing \cup {Head(queue)}
      BY <2>0, <3>1, ExecutingStep DEF JobInv
    <3>4. fate[Head(queue)] = "queued"
      BY <2>0, <3>1 DEF IInv, QueueInv
    <3>5. UNCHANGED <<Undispatched, InUse>>
      BY <2>0, <3>1, <3>4 DEF Undispatched, InUse
    <3>6. QED
      BY <3>2, <3>3, <3>5 DEF TP!Next, TP!Start
  <2>14. ASSUME NEW a \in Actors, PumpQuit(a)
         PROVE  UNCHANGED TP!vars
    <3>1. queue # <<>> /\ queue' = Tail(queue) /\ Head(queue) = Null
      BY <2>14, TakeStep DEF PumpQuit
    <3>2. Work' = Work
      BY <2>0, <2>1, <3>1, WorkTaken DEF Work
    <3>3. QED
      BY <2>5, <2>14, <3>2 DEF PumpQuit
  <2>15. ASSUME NEW a \in Actors, Finish(a)
         PROVE  [TP!Next]_TP!vars
    <3>1. /\ job[a] # None /\ job[a] \in Tasks /\ fate[job[a]] = "running"
          /\ job' = [job EXCEPT ![a] = None] /\ fate' = [fate EXCEPT ![job[a]] = "done"]
          /\ UNCHANGED <<queue, handles>>
      BY <2>0, <2>15 DEF Finish, JobInv, TypeOK
    <3>2. job[a] \in Executing /\ Executing' = Executing \ {job[a]}
      BY <2>0, <3>1, ExecutingStep
    <3>3. UNCHANGED <<Undispatched, Work, InUse>>
      BY <2>0, <3>1 DEF Undispatched, Work, InUse
    <3>4. QED
      BY <3>1, <3>2, <3>3 DEF TP!Next, TP!FinishOne
  <2>16. ASSUME NEW a \in Actors, WorkerGone(a) \/ Check(a) \/ PumpWait(a) \/ LeaveLoop(a) \/ Run(a) \/ Flush(a)
         PROVE  UNCHANGED TP!vars
    BY <2>3, <2>16 DEF WorkerGone, Check, PumpWait, MQ!Sleep, LeaveLoop, Run, Flush, Enter
  <2>17. CASE UNCHANGED vars
    BY <2>3, <2>17 DEF vars
  <2>18. ASSUME NEW a \in Actors, Use(a)
         PROVE  [TP!Next]_TP!vars
    BY <2>6, <2>7, <2>8, <2>9, <2>16, <2>18 DEF Use
  <2>19. ASSUME NEW a \in Actors, Step(a)
         PROVE  [TP!Next]_TP!vars
    BY <2>10, <2>11, <2>12, <2>13, <2>14, <2>15, <2>16, <2>19 DEF Step
  <2>20. QED
    BY <2>17, <2>18, <2>19 DEF Next
<1>3. QED
  BY <1>1, <1>2, TypeCorrect, Inductive, PTL DEF Spec, TP!Safety
=============================================================================
