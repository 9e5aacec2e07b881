-------------------------- MODULE ThreadPool_proofs --------------------------
(* thread_pool: types, functions in one place, no lost wakeup, and no thread *)
(* left behind, for every number of clients, threads and functions.          *)
EXTENDS ThreadPoolProps, FiniteSetTheorems, SequenceTheorems, TLAPS

\* A function is new, once in the queue, in one worker's hands, or over.
PlacesInv ==
  /\ \A i \in 1..Len(q) : q[i] # Null => fate[q[i]] = "queued"
  /\ \A i, j \in 1..Len(q) : q[i] # Null /\ q[i] = q[j] => i = j
  /\ \A t \in Threads : fn[t] # None => fate[fn[t]] = "running"
  /\ \A t, u \in Threads : fn[t] # None /\ fn[t] = fn[u] => t = u

\* Every thread that has not ended is in the list, or somebody joins it.
\* start_thread() keeps the mutex, so the list is the one it joins; the
\* destructor is alone, and nobody calls afterwards.
JoinsInv ==
  /\ \A t \in Threads : thr[t] \in {"loop", "run"} => t \in l \/ \E c \in Clients : t \in joins[c]
  /\ \A c \in Clients : call[c] = "none" => joins[c] = {}
  /\ \A c \in Clients : call[c] = "start_thread" <=> owner = c
  /\ \A c \in Clients : owner = c => \A t \in l : t \in joins[c] \/ thr[t] = "ended"
  /\ \A c \in Clients : call[c] = "destroy" => l = {} /\ \A e \in Clients \ {c} : call[e] = "none"
  /\ freed => /\ \A c \in Clients : call[c] = "none"
              /\ \A t \in Threads : thr[t] \in {"none", "ended"}

\* The first k actions of a queue are functions, and the next is not.
ServableTo(sq, k) ==
  /\ k \in 0..Len(sq)
  /\ \A j \in 1..k : sq[j] # Null
  /\ k < Len(sq) => sq[k + 1] = Null

\* While a worker sleeps, each of them has a worker that is awake.
WakeInv == \E k \in Nat :
  /\ ServableTo(q, k)
  /\ waiting # {} => ~s /\ k <= Cardinality(Lookers)

-----------------------------------------------------------------------------
\* Initially the queue is empty and the first threads are in the list.
LEMMA InitInvs == Init => Types /\ PlacesInv /\ JoinsInv /\ WakeInv
<1> SUFFICES ASSUME Init PROVE Types /\ PlacesInv /\ JoinsInv /\ WakeInv
  OBVIOUS
<1> USE NamesAssumption, MaxNullsAssumption
<1>1. Types
  <2>1. q \in Seq(Fns \cup {Null})
    BY DEF Init
  <2>2. thr \in [Threads -> {"none", "loop", "run", "ended"}] /\ l \subseteq {t \in Threads : thr[t] # "none"}
    BY DEF Init
  <2>3. /\ waiting \subseteq {t \in Threads : thr[t] = "loop"} /\ s \in BOOLEAN /\ freed \in BOOLEAN
        /\ owner \in Clients \cup {None} /\ fn \in [Threads -> Fns \cup {None}]
    BY DEF Init
  <2>4. /\ call \in [Clients -> {"none", "stop", "destroy", "start_thread"}]
        /\ joins \in [Clients -> SUBSET Threads]
        /\ fate \in [Fns -> {"new", "queued", "running", "done", "cleared"}] /\ stops \in 0..MaxNulls
    BY DEF Init
  <2>5. QED
    BY <2>1, <2>2, <2>3, <2>4 DEF Types
<1>2. PlacesInv
  BY DEF Init, PlacesInv
<1>3. JoinsInv
  BY DEF Init, JoinsInv
<1>4. WakeInv
  <2>1. ServableTo(q, 0) /\ 0 \in Nat /\ waiting = {}
    BY DEF Init, ServableTo
  <2>2. QED
    BY <2>1 DEF WakeInv
<1>5. QED
  BY <1>1, <1>2, <1>3, <1>4

\* Each step keeps the types.
LEMMA TypesStep == Types /\ [Next]_vars => Types'
<1> SUFFICES ASSUME Types, [Next]_vars
             PROVE  Types'
  OBVIOUS
<1> USE NamesAssumption, MaxNullsAssumption DEF Types
<1>1. ASSUME NEW t \in Threads, Exit(t)
      PROVE  Types'
  BY <1>1 DEF Exit, Looks
<1>2. ASSUME NEW t \in Threads, Wait(t)
      PROVE  Types'
  BY <1>2 DEF Wait, Looks
<1>3. ASSUME NEW t \in Threads, TakeFn(t)
      PROVE  Types'
  <2>1. /\ q # <<>> /\ Head(q) # Null /\ t \notin waiting
        /\ q' = Tail(q) /\ fn' = [fn EXCEPT ![t] = Head(q)] /\ thr' = [thr EXCEPT ![t] = "run"]
        /\ fate' = [fate EXCEPT ![Head(q)] = "running"]
        /\ UNCHANGED <<waiting, s, l, owner, call, joins, freed, stops>>
    BY <1>3 DEF TakeFn, Looks
  <2>2. Head(q) \in Fns /\ q' \in Seq(Fns \cup {Null})
    BY <2>1
  <2>3. QED
    BY <2>1, <2>2
<1>4. ASSUME NEW t \in Threads, TakeNull(t)
      PROVE  Types'
  BY <1>4 DEF TakeNull, Looks
<1>5. ASSUME NEW t \in Threads, FnReturns(t)
      PROVE  Types'
  BY <1>5 DEF FnReturns
<1>6. ASSUME NEW f \in Fns, Run(f)
      PROVE  Types'
  <2>1. q' \in Seq(Fns \cup {Null})
    BY <1>6 DEF Run, Enqueue
  <2>2. waiting' \subseteq waiting
    BY <1>6 DEF Run, Enqueue, NotifyOne
  <2>3. QED
    BY <1>6, <2>1, <2>2 DEF Run
<1>7. CASE Clear
  BY <1>7 DEF Clear
<1>8. CASE StopNb
  BY <1>8 DEF StopNb, NotifyAll
<1>9. CASE StopThread
  <2>1. q' \in Seq(Fns \cup {Null})
    BY <1>9 DEF StopThread
  <2>2. QED
    BY <1>9, <2>1 DEF StopThread
<1>10. ASSUME NEW c \in Clients, Stop(c) \/ Destroy(c)
       PROVE  Types'
  BY <1>10 DEF Stop, Destroy, StopBegins, NotifyAll
<1>11. ASSUME NEW c \in Clients, StartThread(c)
       PROVE  Types'
  BY <1>11 DEF StartThread
<1>12. ASSUME NEW c \in Clients, Join(c)
       PROVE  Types'
  BY <1>12 DEF Join
<1>13. ASSUME NEW c \in Clients, StopReturns(c)
       PROVE  Types'
  BY <1>13 DEF StopReturns
<1>14. ASSUME NEW c \in Clients, ThreadStarts(c)
       PROVE  Types'
  BY <1>14 DEF ThreadStarts
<1>15. CASE UNCHANGED vars
  BY <1>15 DEF vars
<1>16. QED
  BY <1>1, <1>2, <1>3, <1>4, <1>5, <1>6, <1>7, <1>8, <1>9, <1>10, <1>11, <1>12, <1>13, <1>14, <1>15
     DEF Next, Worker, Interface, Blocked

-----------------------------------------------------------------------------
\* A function leaves one place when it comes to the next.
LEMMA PlacesStep == Types /\ PlacesInv /\ [Next]_vars => PlacesInv'
<1> SUFFICES ASSUME Types, PlacesInv, [Next]_vars
             PROVE  PlacesInv'
  OBVIOUS
<1> USE NamesAssumption
<1>1. ASSUME NEW t \in Threads, TakeFn(t)
      PROVE  PlacesInv'
  <2>1. /\ q # <<>> /\ Head(q) # Null
        /\ q' = Tail(q) /\ fn' = [fn EXCEPT ![t] = Head(q)]
        /\ fate' = [fate EXCEPT ![Head(q)] = "running"]
    BY <1>1 DEF TakeFn
  <2>2. /\ Head(q) = q[1] /\ Head(q) \in Fns /\ 1 \in 1..Len(q)
        /\ Len(q') = Len(q) - 1 /\ Len(q) \in Nat
        /\ \A i \in 1..Len(q') : q'[i] = q[i + 1] /\ i + 1 \in 1..Len(q) /\ i + 1 # 1
    BY <2>1 DEF Types
  <2>3. \A i \in 1..Len(q') : q'[i] # Head(q)
    BY <2>1, <2>2 DEF PlacesInv
  <2>4. \A i \in 1..Len(q') : q'[i] # Null => fate'[q'[i]] = "queued"
    BY <2>1, <2>2, <2>3 DEF PlacesInv, Types
  <2>5. \A i, j \in 1..Len(q') : q'[i] # Null /\ q'[i] = q'[j] => i = j
    <3>1. ASSUME NEW i \in 1..Len(q'), NEW j \in 1..Len(q'), q'[i] # Null, q'[i] = q'[j]
          PROVE  i = j
      <4>1. q[i + 1] = q[j + 1] /\ q[i + 1] # Null /\ i + 1 \in 1..Len(q) /\ j + 1 \in 1..Len(q)
        BY <2>2, <3>1
      <4>2. i + 1 = j + 1
        BY <4>1 DEF PlacesInv
      <4>3. QED
        BY <2>2, <4>2
    <3>2. QED
      BY <3>1
  <2>6. fate[Head(q)] = "queued"
    BY <2>1, <2>2 DEF PlacesInv
  <2>7. /\ fn'[t] = Head(q) /\ \A u \in Threads \ {t} : fn'[u] = fn[u]
        /\ \A u \in Threads : fn[u] # Head(q)
    BY <2>1, <2>2, <2>6 DEF PlacesInv, Types
  <2>8. \A u \in Threads : fn'[u] # None => fate'[fn'[u]] = "running"
    BY <2>1, <2>2, <2>7 DEF PlacesInv, Types
  <2>9. \A u, v \in Threads : fn'[u] # None /\ fn'[u] = fn'[v] => u = v
    BY <2>7 DEF PlacesInv
  <2>10. QED
    BY <2>4, <2>5, <2>8, <2>9 DEF PlacesInv
<1>2. ASSUME NEW t \in Threads, FnReturns(t)
      PROVE  PlacesInv'
  <2>1. /\ fate' = [fate EXCEPT ![fn[t]] = "done"] /\ fn' = [fn EXCEPT ![t] = None] /\ q' = q
    BY <1>2 DEF FnReturns
  <2>2. CASE fn[t] = None
    <3>1. fate' = fate /\ fn' = fn
      BY <2>1, <2>2 DEF Types
    <3>2. QED
      BY <2>1, <3>1 DEF PlacesInv
  <2>3. CASE fn[t] # None
    <3>1. \A i \in 1..Len(q) : q[i] # Null => q[i] # fn[t] /\ q[i] \in Fns
      BY <2>3 DEF PlacesInv, Types
    <3>2. \A i \in 1..Len(q) : q[i] # Null => fate'[q[i]] = fate[q[i]]
      BY <2>1, <3>1 DEF Types
    <3>3. fn'[t] = None /\ \A u \in Threads \ {t} : fn'[u] = fn[u]
      BY <2>1 DEF Types
    <3>4. \A u \in Threads : fn'[u] # None => fn'[u] # fn[t] /\ fate'[fn'[u]] = "running"
      BY <2>1, <2>3, <3>3 DEF PlacesInv, Types
    <3>5. QED
      BY <2>1, <3>2, <3>3, <3>4 DEF PlacesInv
  <2>4. QED
    BY <2>2, <2>3
<1>3. ASSUME NEW f \in Fns, Run(f)
      PROVE  PlacesInv'
  <2>1. /\ fate[f] = "new" /\ q' = Append(q, f) /\ fate' = [fate EXCEPT ![f] = "queued"] /\ fn' = fn
    BY <1>3 DEF Run, Enqueue
  <2>2. /\ Len(q') = Len(q) + 1 /\ Len(q) \in Nat /\ q'[Len(q) + 1] = f
        /\ \A i \in 1..Len(q) : q'[i] = q[i]
    BY <2>1 DEF Types
  <2>3. \A i \in 1..Len(q) : q[i] # f /\ (q[i] # Null => q[i] \in Fns)
    BY <2>1 DEF PlacesInv, Types
  <2>4. \A i \in 1..Len(q') : i \in 1..Len(q) \/ i = Len(q) + 1
    BY <2>2
  <2>5. \A i \in 1..Len(q') : q'[i] # Null => fate'[q'[i]] = "queued"
    BY <2>1, <2>2, <2>3, <2>4 DEF PlacesInv, Types
  <2>6. \A i, j \in 1..Len(q') : q'[i] # Null /\ q'[i] = q'[j] => i = j
    BY <2>2, <2>3, <2>4 DEF PlacesInv
  <2>7. \A t \in Threads : fn[t] # None => fate'[fn[t]] = "running"
    BY <2>1 DEF PlacesInv, Types
  <2>8. QED
    BY <2>1, <2>5, <2>6, <2>7 DEF PlacesInv
<1>4. CASE Clear
  <2>1. q' = <<>> /\ fn' = fn /\ fate' = [f \in Fns |-> IF fate[f] = "queued" THEN "cleared" ELSE fate[f]]
    BY <1>4 DEF Clear
  <2>2. \A t \in Threads : fn[t] # None => fate'[fn[t]] = "running"
    BY <2>1 DEF PlacesInv, Types
  <2>3. QED
    BY <2>1, <2>2 DEF PlacesInv
<1>5. CASE StopThread
  <2>1. q' = Append(q, Null) /\ UNCHANGED <<fn, fate>>
    BY <1>5 DEF StopThread
  <2>2. /\ Len(q') = Len(q) + 1 /\ Len(q) \in Nat /\ q'[Len(q) + 1] = Null
        /\ \A i \in 1..Len(q) : q'[i] = q[i]
    BY <2>1 DEF Types
  <2>3. \A i \in 1..Len(q') : q'[i] # Null => i \in 1..Len(q)
    BY <2>2
  <2>4. QED
    BY <2>1, <2>2, <2>3 DEF PlacesInv
<1>6. ASSUME UNCHANGED <<q, fn, fate>>
      PROVE  PlacesInv'
  BY <1>6 DEF PlacesInv
<1>7. QED
  BY <1>1, <1>2, <1>3, <1>4, <1>5, <1>6
     DEF Next, Worker, Interface, Blocked, Exit, Wait, TakeNull, StopNb, Stop, Destroy, StopBegins,
         StartThread, Join, StopReturns, ThreadStarts, vars

-----------------------------------------------------------------------------
\* A thread leaves the list for the one that joins it, and joined when it ended.
LEMMA JoinsStep == Types /\ JoinsInv /\ [Next]_vars => JoinsInv'
<1> SUFFICES ASSUME Types, JoinsInv, [Next]_vars
             PROVE  JoinsInv'
  OBVIOUS
<1> USE NamesAssumption
\* The workers' own steps.
<1>1. ASSUME UNCHANGED <<l, owner, call, joins, freed>>, NEW t \in Threads, thr[t] \in {"loop", "run"},
             NEW p \in {"loop", "run", "ended"}, thr' = [thr EXCEPT ![t] = p]
      PROVE  JoinsInv'
  BY <1>1 DEF JoinsInv, Types
<1>2. ASSUME UNCHANGED <<l, owner, call, joins, freed, thr>>
      PROVE  JoinsInv'
  BY <1>2 DEF JoinsInv
<1>3. ASSUME NEW t \in Threads, Worker(t)
      PROVE  JoinsInv'
  <2>1. CASE Exit(t) \/ TakeNull(t)
    BY <1>1, <2>1 DEF Exit, TakeNull, Looks
  <2>2. CASE Wait(t)
    BY <1>2, <2>2 DEF Wait
  <2>3. CASE TakeFn(t)
    BY <1>1, <2>3 DEF TakeFn, Looks
  <2>4. CASE FnReturns(t)
    BY <1>1, <2>4 DEF FnReturns
  <2>5. QED
    BY <1>3, <2>1, <2>2, <2>3, <2>4 DEF Worker
<1>4. ASSUME NEW f \in Fns, Run(f)
      PROVE  JoinsInv'
  BY <1>2, <1>4 DEF Run
<1>5. CASE Clear \/ StopNb \/ StopThread
  BY <1>2, <1>5 DEF Clear, StopNb, StopThread
<1>6. ASSUME NEW c \in Clients, Stop(c)
      PROVE  JoinsInv'
  <2>1. /\ call[c] = "none" /\ ~freed /\ \A e \in Clients : call[e] # "destroy"
        /\ owner = None /\ joins' = [joins EXCEPT ![c] = l] /\ l' = {}
        /\ call' = [call EXCEPT ![c] = "stop"] /\ UNCHANGED <<owner, thr, freed>>
    BY <1>6 DEF Stop, StopBegins, Callers
  <2>2. joins[c] = {}
    BY <2>1 DEF JoinsInv
  <2>3. QED
    BY <2>1, <2>2 DEF JoinsInv, Types
<1>7. ASSUME NEW c \in Clients, Destroy(c)
      PROVE  JoinsInv'
  <2>1. /\ ~freed /\ \A e \in Clients : call[e] = "none"
        /\ owner = None /\ joins' = [joins EXCEPT ![c] = l] /\ l' = {}
        /\ call' = [call EXCEPT ![c] = "destroy"] /\ UNCHANGED <<owner, thr, freed>>
    BY <1>7 DEF Destroy, StopBegins, Callers
  <2>2. joins[c] = {}
    BY <2>1 DEF JoinsInv
  <2>3. QED
    BY <2>1, <2>2 DEF JoinsInv, Types
<1>8. ASSUME NEW c \in Clients, StartThread(c)
      PROVE  JoinsInv'
  <2>1. /\ call[c] = "none" /\ ~freed /\ \A e \in Clients : call[e] # "destroy"
        /\ owner = None /\ owner' = c /\ joins' = [joins EXCEPT ![c] = l]
        /\ call' = [call EXCEPT ![c] = "start_thread"] /\ UNCHANGED <<l, thr, freed>>
    BY <1>8 DEF StartThread, Callers
  <2>2. joins[c] = {}
    BY <2>1 DEF JoinsInv
  <2>3. QED
    BY <2>1, <2>2 DEF JoinsInv, Types
<1>9. ASSUME NEW c \in Clients, Join(c)
      PROVE  JoinsInv'
  <2>1. PICK t \in joins[c] : thr[t] = "ended" /\ joins' = [joins EXCEPT ![c] = @ \ {t}]
    BY <1>9 DEF Join
  <2>2. UNCHANGED <<l, owner, thr, call, freed>>
    BY <1>9 DEF Join
  <2>3. QED
    BY <2>1, <2>2 DEF JoinsInv, Types
<1>10. ASSUME NEW c \in Clients, StopReturns(c)
       PROVE  JoinsInv'
  <2>1. /\ call[c] \in {"stop", "destroy"} /\ joins[c] = {} /\ freed' = (call[c] = "destroy")
        /\ call' = [call EXCEPT ![c] = "none"] /\ UNCHANGED <<l, owner, thr, joins>>
    BY <1>10 DEF StopReturns
  <2>2. owner # c /\ ~freed
    BY <2>1 DEF JoinsInv
  <2>3. QED
    BY <2>1, <2>2 DEF JoinsInv, Types
<1>11. ASSUME NEW c \in Clients, ThreadStarts(c)
       PROVE  JoinsInv'
  <2>1. PICK t \in Threads : thr[t] = "none" /\ l' = {t} /\ thr' = [thr EXCEPT ![t] = "loop"]
    BY <1>11 DEF ThreadStarts
  <2>2. /\ call[c] = "start_thread" /\ joins[c] = {} /\ owner' = None
        /\ call' = [call EXCEPT ![c] = "none"] /\ UNCHANGED <<joins, freed>>
    BY <1>11 DEF ThreadStarts
  <2>3. owner = c /\ ~freed /\ \A u \in l : thr[u] = "ended"
    BY <2>2 DEF JoinsInv
  <2>4. QED
    BY <2>1, <2>2, <2>3 DEF JoinsInv, Types
<1>12. QED
  BY <1>2, <1>3, <1>4, <1>5, <1>6, <1>7, <1>8, <1>9, <1>10, <1>11 DEF Next, Interface, Blocked, vars

-----------------------------------------------------------------------------
\* A worker that comes to look, or stops looking, counts for one.
LEMMA LookersCount ==
  ASSUME NEW A \in SUBSET Threads, NEW t \in Threads
  PROVE  /\ Cardinality(A) \in Nat
         /\ t \notin A => Cardinality(A \cup {t}) = Cardinality(A) + 1
         /\ t \in A => Cardinality(A \ {t}) = Cardinality(A) - 1
<1>1. IsFiniteSet(A)
  BY ThreadsAssumption, FS_Subset
<1>2. QED
  BY <1>1, FS_CardinalityType, FS_AddElement, FS_RemoveElement

\* One function more is at most one more to be served; a null action is none.
LEMMA ServableAppend ==
  ASSUME NEW sq \in Seq(Fns \cup {Null}), NEW a \in Fns \cup {Null}, NEW k \in Nat, ServableTo(sq, k)
  PROVE  \/ ServableTo(Append(sq, a), k)
         \/ a # Null /\ k = Len(sq) /\ ServableTo(Append(sq, a), k + 1)
<1> DEFINE ap == Append(sq, a)
<1>1. /\ Len(ap) = Len(sq) + 1 /\ Len(sq) \in Nat /\ ap[Len(sq) + 1] = a
      /\ \A i \in 1..Len(sq) : ap[i] = sq[i]
  OBVIOUS
<1> HIDE DEF ap
<1>2. k \in 0..Len(ap) /\ \A j \in 1..k : ap[j] # Null
  BY <1>1 DEF ServableTo
<1>3. CASE k < Len(sq)
  BY <1>1, <1>2, <1>3 DEF ServableTo, ap
<1>4. CASE k = Len(sq) /\ a = Null
  BY <1>1, <1>2, <1>4 DEF ServableTo, ap
<1>5. CASE k = Len(sq) /\ a # Null
  BY <1>1, <1>2, <1>5 DEF ServableTo, ap
<1>6. QED
  BY <1>1, <1>2, <1>3, <1>4, <1>5 DEF ServableTo

\* Without its first function the queue has one less to be served.
LEMMA ServableTail ==
  ASSUME NEW sq \in Seq(Fns \cup {Null}), sq # <<>>, NEW k \in Nat, ServableTo(sq, k)
  PROVE  /\ Head(sq) = Null => k = 0
         /\ Head(sq) # Null => k > 0 /\ ServableTo(Tail(sq), k - 1)
<1> DEFINE tl == Tail(sq)
<1>1. /\ Len(sq) \in Nat /\ Len(sq) > 0 /\ Head(sq) = sq[1] /\ Len(tl) = Len(sq) - 1
      /\ \A i \in 1..Len(tl) : tl[i] = sq[i + 1]
  OBVIOUS
<1> HIDE DEF tl
<1>2. Head(sq) = Null => k = 0
  BY <1>1 DEF ServableTo
<1>3. ASSUME Head(sq) # Null
      PROVE  k > 0 /\ ServableTo(tl, k - 1)
  <2>1. k > 0
    BY <1>1, <1>3 DEF ServableTo
  <2>2. \A j \in 1..(k - 1) : tl[j] # Null
    BY <1>1, <2>1 DEF ServableTo
  <2>3. k - 1 < Len(tl) => tl[k] = Null
    BY <1>1, <2>1 DEF ServableTo
  <2>4. QED
    BY <1>1, <2>1, <2>2, <2>3 DEF ServableTo
<1>4. QED
  BY <1>2, <1>3 DEF tl

\* run() wakes a sleeper for its function if there is one; a worker that takes a
\* function is one awake worker and one function less.
LEMMA WakeStep == Types /\ WakeInv /\ [Next]_vars => WakeInv'
<1> SUFFICES ASSUME Types, WakeInv, [Next]_vars
             PROVE  WakeInv'
  OBVIOUS
<1>1. PICK k \in Nat : /\ ServableTo(q, k)
                       /\ waiting # {} => ~s /\ k <= Cardinality(Lookers)
  BY DEF WakeInv
<1>2. /\ Lookers \in SUBSET Threads /\ Cardinality(Lookers) \in Nat
      /\ waiting \subseteq Threads
      /\ \A t \in Threads : thr[t] = "loop" /\ t \notin waiting => t \in Lookers
  BY ThreadsAssumption, FS_Subset, FS_CardinalityType DEF Lookers, Types
\* What does not touch the queue, and leaves more awake or everybody.
<1>3. ASSUME q' = q, waiting' = {}
      PROVE  WakeInv'
  BY <1>1, <1>3 DEF WakeInv, ServableTo
<1>4. ASSUME UNCHANGED <<q, waiting, s, thr>>
      PROVE  WakeInv'
  BY <1>1, <1>4 DEF WakeInv, ServableTo, Lookers
<1>5. ASSUME UNCHANGED <<q, waiting, s>>, NEW t \in Threads, thr[t] \in {"none", "run"},
             thr' = [thr EXCEPT ![t] = "loop"]
      PROVE  WakeInv'
  <2>1. t \notin waiting /\ t \notin Lookers
    BY <1>5 DEF Lookers, Types
  <2>2. Lookers' = Lookers \cup {t}
    BY <1>5, <2>1 DEF Lookers, Types
  <2>3. Cardinality(Lookers') = Cardinality(Lookers) + 1
    BY <1>2, <2>1, <2>2, LookersCount
  <2>4. waiting' # {} => ~s' /\ k <= Cardinality(Lookers')
    BY <1>1, <1>2, <1>5, <2>3
  <2>5. ServableTo(q', k)
    BY <1>1, <1>5
  <2>6. QED
    BY <2>4, <2>5 DEF WakeInv, ServableTo
<1>6. ASSUME NEW t \in Threads, Exit(t)
      PROVE  WakeInv'
  BY <1>1, <1>3, <1>6 DEF Exit
<1>7. ASSUME NEW t \in Threads, Wait(t)
      PROVE  WakeInv'
  <2>1. q' = <<>> /\ ~s'
    BY <1>7 DEF Wait
  <2>2. ServableTo(q', 0)
    BY <2>1 DEF ServableTo
  <2>3. Cardinality(Lookers') \in Nat
    BY ThreadsAssumption, FS_Subset, FS_CardinalityType DEF Lookers
  <2>4. QED
    BY <2>1, <2>2, <2>3 DEF WakeInv, ServableTo
<1>8. ASSUME NEW t \in Threads, TakeFn(t)
      PROVE  WakeInv'
  <2>1. /\ q # <<>> /\ Head(q) # Null /\ q' = Tail(q) /\ UNCHANGED <<waiting, s>>
        /\ t \in Lookers /\ thr' = [thr EXCEPT ![t] = "run"]
    BY <1>2, <1>8 DEF TakeFn, Looks
  <2>2. k > 0 /\ ServableTo(q', k - 1)
    BY <1>1, <2>1, ServableTail DEF Types
  <2>3. Lookers' = Lookers \ {t}
    BY <2>1 DEF Lookers, Types
  <2>4. Cardinality(Lookers') = Cardinality(Lookers) - 1
    BY <1>2, <2>1, <2>3, LookersCount
  <2>5. waiting' # {} => ~s' /\ k - 1 <= Cardinality(Lookers')
    BY <1>1, <1>2, <2>1, <2>4
  <2>6. QED
    BY <2>2, <2>5 DEF WakeInv, ServableTo
<1>9. ASSUME NEW t \in Threads, TakeNull(t)
      PROVE  WakeInv'
  <2>1. q # <<>> /\ Head(q) = Null /\ q' = q /\ ~s'
    BY <1>9 DEF TakeNull
  <2>2. ServableTo(q', 0)
    BY <1>1, <2>1, ServableTail DEF Types
  <2>3. Cardinality(Lookers') \in Nat
    BY ThreadsAssumption, FS_Subset, FS_CardinalityType DEF Lookers
  <2>4. QED
    BY <2>1, <2>2, <2>3 DEF WakeInv, ServableTo
<1>10. ASSUME NEW t \in Threads, FnReturns(t)
       PROVE  WakeInv'
  BY <1>5, <1>10 DEF FnReturns
<1>11. ASSUME NEW f \in Fns, Run(f)
       PROVE  WakeInv'
  <2>1. q' = Append(q, f) /\ UNCHANGED <<s, thr>> /\ NotifyOne
    BY <1>11 DEF Run, Enqueue
  <2>2. PICK m \in Nat : m <= k + 1 /\ ServableTo(q', m)
    BY <1>1, <2>1, ServableAppend DEF Types
  <2>3. CASE waiting' = {}
    BY <2>2, <2>3 DEF WakeInv, ServableTo
  <2>4. ASSUME NEW t \in waiting, waiting' = waiting \ {t}
        PROVE  WakeInv'
    <3>1. t \in Threads /\ t \notin Lookers /\ Lookers' = Lookers \cup {t}
      BY <1>2, <2>1, <2>4 DEF Lookers, Types
    <3>2. Cardinality(Lookers') = Cardinality(Lookers) + 1
      BY <1>2, <3>1, LookersCount
    <3>3. ~s' /\ m <= Cardinality(Lookers')
      BY <1>1, <1>2, <2>1, <2>2, <2>4, <3>2
    <3>4. QED
      BY <2>2, <3>3 DEF WakeInv, ServableTo
  <2>5. QED
    BY <2>1, <2>3, <2>4 DEF NotifyOne
<1>12. CASE Clear
  <2>1. q' = <<>> /\ UNCHANGED <<s, waiting, thr>>
    BY <1>12 DEF Clear
  <2>2. ServableTo(q', 0) /\ Lookers' = Lookers
    BY <2>1 DEF ServableTo, Lookers
  <2>3. waiting' # {} => ~s' /\ 0 <= Cardinality(Lookers')
    BY <1>1, <1>2, <2>1, <2>2
  <2>4. QED
    BY <2>2, <2>3 DEF WakeInv, ServableTo
<1>13. CASE StopThread
  <2>1. q' = Append(q, Null) /\ UNCHANGED <<s, waiting, thr>>
    BY <1>13 DEF StopThread
  <2>2. ServableTo(q', k)
    BY <1>1, <2>1, ServableAppend DEF Types
  <2>3. waiting' # {} => ~s' /\ k <= Cardinality(Lookers')
    BY <1>1, <2>1 DEF Lookers
  <2>4. QED
    BY <2>2, <2>3 DEF WakeInv, ServableTo
<1>14. CASE StopNb
  BY <1>3, <1>14 DEF StopNb, NotifyAll
<1>15. ASSUME NEW c \in Clients, Stop(c) \/ Destroy(c)
       PROVE  WakeInv'
  BY <1>3, <1>15 DEF Stop, Destroy, StopBegins, NotifyAll
<1>16. ASSUME NEW c \in Clients, StartThread(c) \/ Join(c) \/ StopReturns(c)
       PROVE  WakeInv'
  BY <1>4, <1>16 DEF StartThread, Join, StopReturns
<1>17. ASSUME NEW c \in Clients, ThreadStarts(c)
       PROVE  WakeInv'
  BY <1>5, <1>17 DEF ThreadStarts
<1>18. CASE UNCHANGED vars
  BY <1>4, <1>18 DEF vars
<1>19. QED
  BY <1>6, <1>7, <1>8, <1>9, <1>10, <1>11, <1>12, <1>13, <1>14, <1>15, <1>16, <1>17, <1>18
     DEF Next, Worker, Interface, Blocked

-----------------------------------------------------------------------------
\* The state of the pool keeps its types, and a function is executed by one
\* worker, for any clients, threads and functions.
THEOREM TypeCorrect == Spec => []TypeOK
<1>1. Types /\ PlacesInv => TypeOK
  BY DEF TypeOK, PlacesInv
<1>2. QED
  BY <1>1, InitInvs, TypesStep, PlacesStep, PTL DEF Spec

\* For any number of threads: while a worker sleeps in worker(), every function
\* in front of a null action has a worker that is awake, and nobody sleeps
\* through stop() (thread_pool.h: run, stop_nb, stop, worker).
THEOREM WakeupsAlwaysMatch == Spec => []WakeupsMatch
<1>1. ASSUME Types, WakeInv
      PROVE  WakeupsMatch
  <2>1. PICK k \in Nat : /\ ServableTo(q, k)
                         /\ waiting # {} => ~s /\ k <= Cardinality(Lookers)
    BY <1>1 DEF WakeInv
  <2>2. Servable = 1..k
    <3>1. ASSUME NEW i \in 1..Len(q), \A j \in 1..i : q[j] # Null
          PROVE  i \in 1..k
      BY <1>1, <2>1, <3>1 DEF ServableTo, Types
    <3>2. ASSUME NEW i \in 1..k
          PROVE  i \in 1..Len(q) /\ \A j \in 1..i : q[j] # Null
      BY <1>1, <2>1, <3>2 DEF ServableTo, Types
    <3>3. QED
      BY <3>1, <3>2 DEF Servable
  <2>3. Cardinality(Servable) = k
    BY <2>2, FS_Interval
  <2>4. QED
    BY <2>1, <2>3 DEF WakeupsMatch
<1>2. QED
  BY <1>1, InitInvs, TypesStep, WakeStep, PTL DEF Spec

\* For any number of threads, clients and overlapping calls of stop() and
\* start_thread(): when the pool is destroyed every thread it started has ended
\* (thread_pool.h: ~thread_pool, stop, start_thread).
THEOREM NoThreadOutlives == Spec => []NoUseAfterFree
<1>1. JoinsInv => NoUseAfterFree
  BY DEF JoinsInv, NoUseAfterFree
<1>2. QED
  BY <1>1, InitInvs, TypesStep, JoinsStep, PTL DEF Spec

-----------------------------------------------------------------------------
(* A thread_pool is a TaskPool. *)

\* A queue in which no function is twice.
Once(sq) ==
  /\ sq \in Seq(Fns \cup {Null})
  /\ \A i, j \in 1..Len(sq) : sq[i] # Null /\ sq[i] = sq[j] => i = j

\* The functions of a queue are finitely many, and those up to one of them too.
LEMMA FnsFinite ==
  ASSUME NEW sq \in Seq(Fns \cup {Null})
  PROVE  /\ IsFiniteSet(FnsOf(sq)) /\ Cardinality(FnsOf(sq)) \in Nat
         /\ \A f : /\ IsFiniteSet(UpTo(sq, f))
                   /\ Cardinality(UpTo(sq, f)) \in Nat
                   /\ Cardinality(UpTo(sq, f)) <= Cardinality(FnsOf(sq))
<1> DEFINE S == {i \in 1..Len(sq) : sq[i] \in Fns}
           at == [i \in S |-> sq[i]]
<1>1. IsFiniteSet(S)
  <2>1. Len(sq) \in Int /\ 1 \in Int
    OBVIOUS
  <2>2. IsFiniteSet(1..Len(sq))
    BY <2>1, FS_Interval
  <2>3. QED
    BY <2>2, FS_Subset
<1>2. at \in Surjection(S, FnsOf(sq))
  BY DEF Surjection, FnsOf
<1>3. IsFiniteSet(FnsOf(sq))
  BY <1>1, <1>2, FS_Surjection
<1>4. \A f : UpTo(sq, f) \in SUBSET FnsOf(sq)
  BY DEF UpTo, FnsOf
<1>5. QED
  BY <1>3, <1>4, FS_Subset, FS_CardinalityType

\* The functions in order are a sequence; it is determined by its elements.
LEMMA InOrderSeq ==
  ASSUME NEW sq \in Seq(Fns \cup {Null})
  PROVE  \E S : /\ InOrder(sq) \in Seq(S)
                /\ Len(InOrder(sq)) = Cardinality(FnsOf(sq))
<1>1. PICK n \in Nat : n = Cardinality(FnsOf(sq))
  BY FnsFinite
<1>2. PICK S : S = {InOrder(sq)[k] : k \in 1..n}
  OBVIOUS
<1>3. InOrder(sq) \in [1..n -> S]
  BY <1>1, <1>2 DEF InOrder
<1>4. InOrder(sq) \in Seq(S)
  BY <1>3, SeqDef
<1>5. Len(InOrder(sq)) \in Nat /\ DOMAIN InOrder(sq) = 1..Len(InOrder(sq))
  BY <1>4, LenProperties
<1>6. 1..Len(InOrder(sq)) = 1..n
  BY <1>3, <1>5
<1>7. Len(InOrder(sq)) = n
  <2>1. \A a, b \in Nat : a < b => b \in 1..b /\ b \notin 1..a
    OBVIOUS
  <2>2. ~(Len(InOrder(sq)) < n) /\ ~(n < Len(InOrder(sq)))
    BY <1>5, <1>6, <2>1
  <2>3. \A a, b \in Nat : a < b \/ b < a \/ a = b
    OBVIOUS
  <2>4. QED
    BY <1>5, <2>2, <2>3
<1>8. QED
  BY <1>1, <1>4, <1>7

\* One function more is the last in order, a null action is none.
LEMMA OrderPushed ==
  ASSUME NEW sq, Once(sq)
  PROVE  /\ \A f \in Fns \ FnsOf(sq) : InOrder(Append(sq, f)) = Append(InOrder(sq), f)
         /\ InOrder(Append(sq, Null)) = InOrder(sq)
<1> USE NamesAssumption
<1>1. \A a \in Fns \cup {Null} :
        /\ Append(sq, a) \in Seq(Fns \cup {Null})
        /\ Len(Append(sq, a)) = Len(sq) + 1 /\ Len(sq) \in Nat
        /\ Append(sq, a)[Len(sq) + 1] = a
        /\ \A i \in 1..Len(sq) : Append(sq, a)[i] = sq[i]
  BY DEF Once
<1>2. ASSUME NEW f \in Fns \ FnsOf(sq)
      PROVE  InOrder(Append(sq, f)) = Append(InOrder(sq), f)
  <2>1. PICK ap \in Seq(Fns \cup {Null}), m \in Nat :
          /\ ap = Append(sq, f) /\ m = Len(sq) /\ Len(ap) = m + 1
          /\ ap[m + 1] = f /\ \A i \in 1..m : ap[i] = sq[i]
    BY <1>1, ZenonT(60)
  <2>2. FnsOf(ap) = FnsOf(sq) \cup {f}
    <3>1. \A i \in 1..Len(ap) : i \in 1..m \/ i = m + 1
      BY <2>1
    <3>2. \A g \in FnsOf(ap) : g \in FnsOf(sq) \cup {f}
      BY <2>1, <3>1 DEF FnsOf
    <3>3. \A g \in FnsOf(sq) : g \in FnsOf(ap)
      BY <2>1 DEF FnsOf
    <3>4. f \in FnsOf(ap)
      BY <2>1 DEF FnsOf
    <3>5. QED
      BY <3>2, <3>3, <3>4
  <2>3. ASSUME NEW g \in FnsOf(sq)
        PROVE  UpTo(ap, g) = UpTo(sq, g)
    <3>1. \A j \in 1..Len(ap) : ap[j] = g => j \in 1..m
      BY <2>1, <2>3
    <3>2. \A i, j \in 1..Len(ap) : i <= j /\ ap[j] = g => i \in 1..m /\ j \in 1..m
      BY <2>1, <3>1
    <3>3. \A i \in 1..m : i \in 1..Len(ap)
      BY <2>1
    <3>4. QED
      BY <2>1, <3>2, <3>3 DEF UpTo
  <2>4. UpTo(ap, f) = FnsOf(ap)
    <3>1. \A i \in 1..Len(ap) : i <= m + 1 /\ m + 1 \in 1..Len(ap)
      BY <2>1
    <3>2. QED
      BY <2>1, <3>1 DEF UpTo, FnsOf
  <2>5. PICK n \in Nat : n = Cardinality(FnsOf(sq))
    BY FnsFinite DEF Once
  <2>6. Cardinality(FnsOf(ap)) = n + 1
    BY <2>2, <2>5, FnsFinite, FS_AddElement DEF Once
  <2>7. \A k \in 1..n : Nth(ap, k) = Nth(sq, k)
    <3>1. \A k \in 1..n : Cardinality(UpTo(ap, f)) # k
      BY <2>4, <2>6
    <3>2. QED
      BY <2>2, <2>3, <3>1 DEF Nth
  <2>8. Nth(ap, n + 1) = {f}
    <3>1. \A g \in FnsOf(sq) : Cardinality(UpTo(sq, g)) <= n /\ Cardinality(UpTo(sq, g)) \in Nat
      BY <2>5, FnsFinite DEF Once
    <3>2. \A g \in FnsOf(sq) : Cardinality(UpTo(sq, g)) # n + 1
      BY <3>1
    <3>3. \A g \in FnsOf(sq) : Cardinality(UpTo(ap, g)) # n + 1
      BY <2>3, <3>2
    <3>4. QED
      BY <2>2, <2>4, <2>6, <3>3 DEF Nth
  <2>9. /\ \A k \in 1..n : InOrder(ap)[k] = InOrder(sq)[k]
        /\ InOrder(ap)[n + 1] = f
    <3>1. \A k \in 1..n : k \in 1..(n + 1)
      OBVIOUS
    <3>2. InOrder(ap) = [k \in 1..(n + 1) |-> CHOOSE g \in Nth(ap, k) : TRUE]
      BY <2>6 DEF InOrder
    <3>3. InOrder(sq) = [k \in 1..n |-> CHOOSE g \in Nth(sq, k) : TRUE]
      BY <2>5 DEF InOrder
    <3>4. ASSUME NEW k \in 1..n
          PROVE  InOrder(ap)[k] = InOrder(sq)[k]
      <4>1. InOrder(ap)[k] = CHOOSE g \in Nth(ap, k) : TRUE
        BY <3>1, <3>2
      <4>2. InOrder(sq)[k] = CHOOSE g \in Nth(sq, k) : TRUE
        BY <3>3
      <4>3. QED
        BY <2>7, <4>1, <4>2
    <3>5. InOrder(ap)[n + 1] = f
      <4>1. n + 1 \in 1..(n + 1)
        OBVIOUS
      <4>2. InOrder(ap)[n + 1] = CHOOSE g \in {f} : TRUE
        BY <2>8, <3>2, <4>1
      <4>3. QED
        BY <4>2
    <3>6. QED
      BY <3>4, <3>5
  <2>10. PICK T : InOrder(ap) \in Seq(T) /\ Len(InOrder(ap)) = n + 1
    BY <2>6, InOrderSeq
  <2>11. PICK U : InOrder(sq) \in Seq(U) /\ Len(InOrder(sq)) = n
    BY <2>5, InOrderSeq DEF Once
  <2>12. QED
    <3>1. PICK V : V = T \cup U \cup {f}
      OBVIOUS
    <3>2. PICK x \in Seq(V), y \in Seq(V) : x = InOrder(ap) /\ y = InOrder(sq)
      BY <2>10, <2>11, <3>1, SeqMonotonic
    <3>3. /\ Append(y, f) \in Seq(V) /\ Len(Append(y, f)) = n + 1
          /\ Append(y, f)[n + 1] = f /\ \A k \in 1..n : Append(y, f)[k] = y[k]
      BY <2>11, <3>1, <3>2
    <3>4. \A k \in 1..(n + 1) : k \in 1..n \/ k = n + 1
      OBVIOUS
    <3>5. \A k \in 1..(n + 1) : x[k] = Append(y, f)[k]
      BY <2>9, <3>2, <3>3, <3>4
    <3>6. x = Append(y, f)
      BY <2>10, <3>2, <3>3, <3>5, SeqEqual
    <3>7. QED
      BY <2>1, <3>2, <3>6
<1>3. InOrder(Append(sq, Null)) = InOrder(sq)
  <2>1. PICK ap \in Seq(Fns \cup {Null}), m \in Nat :
          /\ ap = Append(sq, Null) /\ m = Len(sq) /\ Len(ap) = m + 1
          /\ ap[m + 1] = Null /\ \A i \in 1..m : ap[i] = sq[i]
    BY <1>1, ZenonT(60)
  <2>2. \A i \in 1..Len(ap), f \in Fns : ap[i] = f => i \in 1..m
    BY <2>1
  <2>3. \A i \in 1..m : i \in 1..Len(ap)
    BY <2>1
  <2>4. FnsOf(ap) = FnsOf(sq)
    BY <2>1, <2>2, <2>3 DEF FnsOf
  <2>5. ASSUME NEW f \in FnsOf(sq)
        PROVE  UpTo(ap, f) = UpTo(sq, f)
    BY <2>1, <2>2, <2>3 DEF UpTo, FnsOf
  <2>6. \A k : Nth(ap, k) = Nth(sq, k)
    BY <2>4, <2>5 DEF Nth
  <2>7. QED
    BY <2>1, <2>4, <2>6 DEF InOrder
<1>4. QED
  BY <1>2, <1>3

\* Without its first function the queue has the others in the same order.
LEMMA OrderTaken ==
  ASSUME NEW sq, Once(sq), sq # <<>>, Head(sq) # Null
  PROVE  /\ InOrder(sq) # <<>> /\ Head(InOrder(sq)) = Head(sq)
         /\ Tail(InOrder(sq)) = InOrder(Tail(sq))
<1>1. PICK tl \in Seq(Fns \cup {Null}), m \in Nat, h \in Fns :
        /\ tl = Tail(sq) /\ m + 1 = Len(sq) /\ Len(tl) = m /\ h = Head(sq) /\ h = sq[1]
        /\ \A i \in 1..m : tl[i] = sq[i + 1]
  <2>1. /\ Tail(sq) \in Seq(Fns \cup {Null}) /\ Head(sq) \in Fns /\ Head(sq) = sq[1]
        /\ Len(sq) \in Nat /\ Len(sq) > 0 /\ Len(Tail(sq)) = Len(sq) - 1
        /\ \A i \in 1..(Len(sq) - 1) : Tail(sq)[i] = sq[i + 1]
    BY DEF Once
  <2>2. Len(sq) - 1 \in Nat /\ (Len(sq) - 1) + 1 = Len(sq)
    BY <2>1
  <2>3. QED
    BY <2>1, <2>2
<1>2. /\ \A i \in 1..m : i + 1 \in 1..Len(sq) /\ i + 1 # 1
      /\ \A i \in 1..Len(sq) : i = 1 \/ \E j \in 1..m : i = j + 1
      /\ 1 \in 1..Len(sq)
  <2>1. \A i \in 1..(m + 1) : i = 1 \/ (i - 1 \in 1..m /\ i = (i - 1) + 1)
    OBVIOUS
  <2>2. QED
    BY <1>1, <2>1
<1>3. \A i \in 1..Len(sq) : sq[i] = h => i = 1
  BY <1>1, <1>2, NamesAssumption DEF Once
<1>4. h \notin FnsOf(tl)
  BY <1>1, <1>2, <1>3 DEF FnsOf
<1>5. FnsOf(sq) = FnsOf(tl) \cup {h}
  BY <1>1, <1>2 DEF FnsOf
<1>6. UpTo(sq, h) = {h}
  <2>1. \A i, j \in 1..Len(sq) : i <= j /\ sq[j] = h => sq[i] = h
    <3>1. \A i \in 1..Len(sq) : i <= 1 => i = 1
      BY <1>1
    <3>2. QED
      BY <1>1, <1>3, <3>1
  <2>2. 1 <= 1
    OBVIOUS
  <2>3. QED
    BY <1>1, <1>2, <2>1, <2>2 DEF UpTo
<1>7. ASSUME NEW g \in FnsOf(tl)
      PROVE  UpTo(sq, g) = UpTo(tl, g) \cup {h} /\ h \notin UpTo(tl, g) /\ g \in UpTo(tl, g)
  <2>1. PICK p \in 1..m : tl[p] = g /\ sq[p + 1] = g /\ g \in Fns
    BY <1>1 DEF FnsOf
  <2>2. p <= p /\ 1 <= p + 1
    BY <2>1
  <2>3. h \in UpTo(sq, g) /\ g \in UpTo(tl, g)
    BY <1>1, <1>2, <2>1, <2>2 DEF UpTo
  <2>4. h \notin UpTo(tl, g)
    BY <1>4 DEF UpTo, FnsOf
  <2>5. ASSUME NEW f \in UpTo(tl, g)
        PROVE  f \in UpTo(sq, g)
    <3>1. PICK i, j \in 1..m : i <= j /\ tl[i] = f /\ tl[j] = g /\ f \in Fns
      BY <1>1 DEF UpTo
    <3>2. i + 1 <= j + 1 /\ sq[i + 1] = f /\ sq[j + 1] = g
      BY <1>1, <3>1
    <3>3. QED
      BY <1>2, <3>1, <3>2 DEF UpTo
  <2>6. ASSUME NEW f \in UpTo(sq, g), f # h
        PROVE  f \in UpTo(tl, g)
    <3>1. PICK i, j \in 1..Len(sq) : i <= j /\ sq[i] = f /\ sq[j] = g /\ f \in Fns
      BY DEF UpTo
    <3>2. i # 1 /\ j # 1
      BY <1>1, <1>4, <2>6, <3>1
    <3>3. PICK x, y \in 1..m : i = x + 1 /\ j = y + 1
      BY <1>2, <3>1, <3>2
    <3>4. x <= y /\ tl[x] = f /\ tl[y] = g
      BY <1>1, <3>1, <3>3
    <3>5. QED
      BY <1>1, <3>1, <3>4 DEF UpTo
  <2>7. QED
    BY <2>3, <2>4, <2>5, <2>6
<1>8. PICK n \in Nat : n = Cardinality(FnsOf(tl)) /\ n + 1 = Cardinality(FnsOf(sq))
  <2>1. Cardinality(FnsOf(sq)) = Cardinality(FnsOf(tl)) + 1
    BY <1>4, <1>5, FnsFinite, FS_AddElement
  <2>2. QED
    BY <2>1, FnsFinite
<1>9. ASSUME NEW g \in FnsOf(tl)
      PROVE  /\ Cardinality(UpTo(tl, g)) \in Nat \ {0}
             /\ Cardinality(UpTo(sq, g)) = Cardinality(UpTo(tl, g)) + 1
  <2>1. Cardinality(UpTo(sq, g)) = Cardinality(UpTo(tl, g)) + 1
    BY <1>7, FnsFinite, FS_AddElement
  <2>2. Cardinality(UpTo(tl, g)) # 0
    BY <1>7, FnsFinite, FS_EmptySet
  <2>3. QED
    BY <2>1, <2>2, FnsFinite
<1>10. Nth(sq, 1) = {h}
  <2>1. Cardinality(UpTo(sq, h)) = 1
    BY <1>6, FS_Singleton
  <2>2. \A g \in FnsOf(tl) : Cardinality(UpTo(sq, g)) # 1
    BY <1>9
  <2>3. QED
    BY <1>5, <2>1, <2>2 DEF Nth
<1>11. ASSUME NEW k \in 1..n
       PROVE  Nth(sq, k + 1) = Nth(tl, k)
  <2>1. Cardinality(UpTo(sq, h)) # k + 1
    <3>1. Cardinality(UpTo(sq, h)) = 1
      BY <1>6, FS_Singleton
    <3>2. QED
      BY <3>1
  <2>2. \A g \in FnsOf(tl) : Cardinality(UpTo(sq, g)) = k + 1 <=> Cardinality(UpTo(tl, g)) = k
    BY <1>9
  <2>3. QED
    BY <1>5, <2>1, <2>2 DEF Nth
<1>12. InOrder(sq)[1] = h /\ \A k \in 1..n : InOrder(sq)[k + 1] = InOrder(tl)[k]
  <2>1. InOrder(sq) = [k \in 1..(n + 1) |-> CHOOSE f \in Nth(sq, k) : TRUE]
    BY <1>8 DEF InOrder
  <2>2. InOrder(tl) = [k \in 1..n |-> CHOOSE f \in Nth(tl, k) : TRUE]
    BY <1>8 DEF InOrder
  <2>3. InOrder(sq)[1] = CHOOSE f \in {h} : TRUE
    <3>1. 1 \in 1..(n + 1)
      OBVIOUS
    <3>2. QED
      BY <1>10, <2>1, <3>1
  <2>4. ASSUME NEW k \in 1..n
        PROVE  InOrder(sq)[k + 1] = InOrder(tl)[k]
    <3>1. k + 1 \in 1..(n + 1)
      OBVIOUS
    <3>2. InOrder(sq)[k + 1] = CHOOSE f \in Nth(sq, k + 1) : TRUE
      BY <2>1, <3>1
    <3>3. InOrder(tl)[k] = CHOOSE f \in Nth(tl, k) : TRUE
      BY <2>2
    <3>4. QED
      BY <1>11, <3>2, <3>3
  <2>5. QED
    BY <2>3, <2>4
<1>13. PICK T : InOrder(sq) \in Seq(T) /\ Len(InOrder(sq)) = n + 1
  BY <1>8, InOrderSeq DEF Once
<1>14. PICK U : InOrder(tl) \in Seq(U) /\ Len(InOrder(tl)) = n
  BY <1>8, InOrderSeq
<1>15. PICK x \in Seq(T \cup U), y \in Seq(T \cup U) : x = InOrder(sq) /\ y = InOrder(tl)
  BY <1>13, <1>14, SeqMonotonic
<1>16. x # <<>> /\ Head(x) = x[1] /\ Tail(x) \in Seq(T \cup U) /\ Len(Tail(x)) = n
  <2>1. Len(x) # 0
    BY <1>13, <1>15
  <2>2. x # <<>>
    BY <2>1
  <2>3. QED
    BY <1>13, <1>15, <2>2
<1>17. \A k \in 1..n : Tail(x)[k] = x[k + 1]
  BY <1>13, <1>15, <1>16
<1>18. Tail(x) = y
  <2>1. \A k \in 1..n : Tail(x)[k] = y[k]
    BY <1>12, <1>15, <1>17
  <2>2. QED
    BY <1>14, <1>15, <1>16, <2>1, SeqEqual
<1>19. QED
  BY <1>1, <1>12, <1>15, <1>16, <1>18

\* An empty queue has no functions.
LEMMA OrderEmpty == InOrder(<<>>) = <<>>
<1>1. FnsOf(<<>>) = {}
  BY DEF FnsOf
<1>2. Cardinality(FnsOf(<<>>)) = 0
  BY <1>1, FS_EmptySet
<1>3. PICK S : InOrder(<<>>) \in Seq(S) /\ Len(InOrder(<<>>)) = 0
  <2>1. <<>> \in Seq(Fns \cup {Null})
    OBVIOUS
  <2>2. QED
    BY <1>2, <2>1, InOrderSeq
<1>4. QED
  BY <1>3

\* Whoever executes a function has one, and nobody else has.
HandsInv == \A t \in Threads : thr[t] = "run" <=> fn[t] # None

LEMMA HandsStep == Types /\ HandsInv /\ [Next]_vars => HandsInv'
<1> SUFFICES ASSUME Types, HandsInv, [Next]_vars
             PROVE  HandsInv'
  OBVIOUS
<1> USE NamesAssumption DEF Types, HandsInv
<1>1. ASSUME NEW t \in Threads, thr[t] # "run", NEW p \in {"loop", "ended"},
             thr' = [thr EXCEPT ![t] = p], fn' = fn
      PROVE  HandsInv'
  BY <1>1
<1>2. ASSUME NEW t \in Threads, Exit(t) \/ TakeNull(t)
      PROVE  HandsInv'
  BY <1>1, <1>2 DEF Exit, TakeNull, Looks
<1>3. ASSUME NEW t \in Threads, TakeFn(t)
      PROVE  HandsInv'
  <2>1. /\ Head(q) \in Fns /\ fn' = [fn EXCEPT ![t] = Head(q)] /\ thr' = [thr EXCEPT ![t] = "run"]
    BY <1>3 DEF TakeFn
  <2>2. QED
    BY <2>1
<1>4. ASSUME NEW t \in Threads, FnReturns(t)
      PROVE  HandsInv'
  BY <1>4 DEF FnReturns
<1>5. ASSUME NEW c \in Clients, ThreadStarts(c)
      PROVE  HandsInv'
  BY <1>1, <1>5 DEF ThreadStarts
<1>6. ASSUME UNCHANGED <<thr, fn>>
      PROVE  HandsInv'
  BY <1>6
<1>7. QED
  BY <1>2, <1>3, <1>4, <1>5, <1>6
     DEF Next, Worker, Interface, Blocked, Wait, Run, Clear, StopThread, StopNb, Stop, Destroy,
         StopBegins, StartThread, Join, StopReturns, vars

\* Nobody calls a pool that has been destroyed.
LEMMA CallersExist == JoinsInv /\ CanCall => ~freed
  BY DEF JoinsInv, CanCall, Callers

\* One executes a function, and it is the only one.
LEMMA ExecutingStep ==
  ASSUME Types, PlacesInv, NEW t \in Threads
  PROVE  /\ \A f \in Fns : /\ fn[t] = None /\ fn' = [fn EXCEPT ![t] = f]
                           => Executing' = Executing \cup {f}
         /\ fn[t] # None /\ fn' = [fn EXCEPT ![t] = None]
            => fn[t] \in Executing /\ Executing' = Executing \ {fn[t]}
  BY NamesAssumption DEF Types, PlacesInv, Executing

\* A thread_pool is a TaskPool as far as safety goes: functions start in the order
\* of run(), each at most once, with any threads added by start_thread() and
\* stopped by stop_thread(); clear() and nothing else takes functions out, and
\* nothing is added to or cleared from a pool that is gone (thread_pool.h).
THEOREM RefinesTaskPool == Spec => ImplementsTaskPool
<1>1. Init => TP!Init /\ HandsInv
  <2> SUFFICES ASSUME Init
               PROVE  TP!Init /\ HandsInv
    OBVIOUS
  <2>1. HandsInv
    BY DEF Init, HandsInv
  <2>2. NeverRun = Fns /\ Executing = {} /\ Exists = TRUE
    BY NamesAssumption DEF Init, NeverRun, Executing, Exists
  <2>3. Pending = <<>>
    BY OrderEmpty DEF Init, Pending
  <2>4. QED
    BY <2>1, <2>2, <2>3 DEF TP!Init
<1>2. Types /\ PlacesInv /\ JoinsInv /\ HandsInv /\ [Next]_vars => [TP!Next]_TP!vars
  <2> SUFFICES ASSUME Types, PlacesInv, JoinsInv, HandsInv, [Next]_vars
               PROVE  [TP!Next]_TP!vars
    OBVIOUS
  <2>1. Once(q)
    BY DEF Once, Types, PlacesInv
  <2>2. fate \in [Fns -> {"new", "queued", "running", "done", "cleared"}] /\ freed \in BOOLEAN
    BY DEF Types
  <2>3. ASSUME UNCHANGED <<q, fate, fn, freed>>
        PROVE  UNCHANGED TP!vars
    BY <2>3 DEF TP!vars, Pending, NeverRun, Executing, Exists
  <2>4. ASSUME NEW f \in Fns, Run(f)
        PROVE  TP!Next
    <3>1. q' = Append(q, f) /\ fate[f] = "new" /\ fate' = [fate EXCEPT ![f] = "queued"]
          /\ fn' = fn /\ freed' = freed /\ ~freed
      BY <2>4, CallersExist DEF Run, Enqueue
    <3>2. f \notin FnsOf(q)
      BY <3>1, NamesAssumption DEF FnsOf, PlacesInv
    <3>3. Pending' = Append(Pending, f)
      BY <2>1, <3>1, <3>2, OrderPushed DEF Pending
    <3>4. f \in NeverRun /\ NeverRun' = NeverRun \ {f}
      BY <2>2, <3>1 DEF NeverRun
    <3>5. Exists /\ UNCHANGED <<Exists, Executing>>
      BY <3>1 DEF Exists, Executing
    <3>6. QED
      BY <3>3, <3>4, <3>5 DEF TP!Next, TP!Submit
  <2>5. ASSUME Clear
        PROVE  TP!Next
    <3>1. /\ q' = <<>> /\ fn' = fn /\ freed' = freed /\ ~freed
          /\ fate' = [f \in Fns |-> IF fate[f] = "queued" THEN "cleared" ELSE fate[f]]
      BY <2>5, CallersExist DEF Clear
    <3>2. Pending' = <<>>
      BY <3>1, OrderEmpty DEF Pending
    <3>3. NeverRun' = NeverRun
      BY <2>2, <3>1 DEF NeverRun
    <3>4. Exists /\ UNCHANGED <<Exists, Executing>>
      BY <3>1 DEF Exists, Executing
    <3>5. QED
      BY <3>2, <3>3, <3>4 DEF TP!Next, TP!Discard
  <2>6. ASSUME StopThread
        PROVE  UNCHANGED TP!vars
    <3>1. q' = Append(q, Null) /\ UNCHANGED <<fate, fn, freed>>
      BY <2>6 DEF StopThread
    <3>2. Pending' = Pending
      BY <2>1, <3>1, OrderPushed DEF Pending
    <3>3. QED
      BY <3>1, <3>2 DEF TP!vars, NeverRun, Executing, Exists
  <2>7. ASSUME NEW t \in Threads, TakeFn(t)
        PROVE  TP!Next
    <3>1. /\ q # <<>> /\ Head(q) # Null /\ q' = Tail(q) /\ thr[t] = "loop"
          /\ fn' = [fn EXCEPT ![t] = Head(q)] /\ fate' = [fate EXCEPT ![Head(q)] = "running"]
          /\ freed' = freed
      BY <2>7 DEF TakeFn, Looks
    <3>2. Head(q) \in Fns /\ fate[Head(q)] = "queued"
      <4>1. Head(q) = q[1] /\ 1 \in 1..Len(q) /\ q[1] \in Fns \cup {Null}
        BY <3>1 DEF Types
      <4>2. QED
        BY <3>1, <4>1 DEF PlacesInv
    <3>3. Pending # <<>> /\ Head(Pending) = Head(q) /\ Pending' = Tail(Pending)
      BY <2>1, <3>1, OrderTaken DEF Pending
    <3>4. Executing' = Executing \cup {Head(q)}
      BY <3>1, <3>2, ExecutingStep DEF HandsInv
    <3>5. UNCHANGED <<NeverRun, Exists>>
      BY <2>2, <3>1, <3>2 DEF NeverRun, Exists
    <3>6. QED
      BY <3>3, <3>4, <3>5 DEF TP!Next, TP!Start
  <2>8. ASSUME NEW t \in Threads, FnReturns(t)
        PROVE  TP!Next
    <3>1. /\ fn[t] # None /\ fn[t] \in Fns /\ fn' = [fn EXCEPT ![t] = None]
          /\ fate' = [fate EXCEPT ![fn[t]] = "done"] /\ UNCHANGED <<q, freed>>
      BY <2>8 DEF FnReturns, HandsInv, Types
    <3>2. fn[t] \in Executing /\ Executing' = Executing \ {fn[t]}
      BY <3>1, ExecutingStep
    <3>3. UNCHANGED <<NeverRun, Pending, Exists>>
      BY <2>2, <3>1 DEF NeverRun, Pending, Exists, PlacesInv
    <3>4. QED
      BY <3>1, <3>2, <3>3 DEF TP!Next, TP!FinishOne
  <2>9. ASSUME NEW c \in Clients, StopReturns(c)
        PROVE  [TP!Next]_TP!vars
    <3>1. ~freed /\ UNCHANGED <<q, fate, fn>> /\ freed' \in BOOLEAN
      BY <2>9 DEF StopReturns, JoinsInv
    <3>2. UNCHANGED <<Pending, NeverRun, Executing>>
      BY <3>1 DEF Pending, NeverRun, Executing
    <3>3. CASE freed'
      <4>1. Exists /\ Exists' = FALSE
        BY <3>1, <3>3 DEF Exists
      <4>2. QED
        BY <3>2, <4>1 DEF TP!Next, TP!Close
    <3>4. CASE ~freed'
      BY <2>2, <2>3, <3>1, <3>4
    <3>5. QED
      BY <3>3, <3>4
  <2>10. QED
    BY <2>3, <2>4, <2>5, <2>6, <2>7, <2>8, <2>9
       DEF Next, Worker, Interface, Blocked, Exit, Wait, TakeNull, StopNb, Stop, Destroy, StopBegins,
           StartThread, Join, ThreadStarts, vars
<1>3. QED
  BY <1>1, <1>2, InitInvs, TypesStep, PlacesStep, JoinsStep, HandsStep, PTL
     DEF Spec, ImplementsTaskPool, TP!Safety
=============================================================================
