-------------------------- MODULE Semaphore_proofs --------------------------
(* Semaphore: permits are conserved for every number of threads and permits, *)
(* and every free permit but those given back unannounced has a taker.       *)
EXTENDS Shared, FiniteSetTheorems, TLAPS

\* What is owed stays between nothing and the free permits.
LEMMA OweBounded ==
  ASSUME NEW s \in Nat, Sem!Owe(s), permits' \in Nat
  PROVE  unsaid' \in 0..permits'
BY DEF Sem!Owe

\* Counter, wait set and program counters keep their types in every step.
THEOREM TypeCorrect == SemaphoreSpec => []Sem!TypeOK
<1>1. Sem!Init => Sem!TypeOK
  BY SharedAssumption DEF Sem!Init, Sem!TypeOK
<1>2. Sem!TypeOK /\ [Sem!Next]_sems => Sem!TypeOK'
  <2> SUFFICES ASSUME Sem!TypeOK, [Sem!Next]_sems
               PROVE  Sem!TypeOK'
    OBVIOUS
  <2> USE DEF Sem!TypeOK
  <2>1. ASSUME NEW t \in SemThreads, Sem!Call(t)
        PROVE  Sem!TypeOK'
    BY <2>1 DEF Sem!Call
  <2>2. ASSUME NEW t \in SemThreads, Sem!Block(t)
        PROVE  Sem!TypeOK'
    BY <2>2, OweBounded DEF Sem!Block
  <2>3. ASSUME NEW t \in SemThreads, Sem!Acquire(t) \/ Sem!TryLock(t)
        PROVE  Sem!TypeOK'
    BY <2>3, OweBounded DEF Sem!Acquire, Sem!TryLock
  <2>4. ASSUME NEW t \in SemThreads, Sem!Unlock(t)
        PROVE  Sem!TypeOK'
    <3>1. permits' \in Nat /\ unsaid + (IF permits = 0 THEN 0 ELSE 1) \in Nat
      BY <2>4 DEF Sem!Unlock
    <3>2. unsaid' \in 0..permits'
      BY <2>4, <3>1, OweBounded DEF Sem!Unlock
    <3>3. QED
      BY <2>4, <3>2 DEF Sem!Unlock
  <2>5. ASSUME NEW t \in SemThreads, Sem!Expire(t)
        PROVE  Sem!TypeOK'
    BY <2>5, OweBounded DEF Sem!Expire
  <2>6. ASSUME NEW t \in SemThreads, Sem!GiveUp(t)
        PROVE  Sem!TypeOK'
    BY <2>6 DEF Sem!GiveUp
  <2>7. ASSUME NEW t \in SemThreads, Sem!Spurious(t)
        PROVE  Sem!TypeOK'
    BY <2>7, OweBounded DEF Sem!Spurious
  <2>8. CASE UNCHANGED sems
    BY <2>8 DEF sems
  <2>9. QED
    BY <2>1, <2>2, <2>3, <2>4, <2>5, <2>6, <2>7, <2>8 DEF Sem!Next
<1>3. QED
  BY <1>1, <1>2, PTL DEF SemaphoreSpec

-----------------------------------------------------------------------------
\* The instance has a Cardinality of its own, with the same definition.
LEMMA SameCardinality ==
  ASSUME NEW X
  PROVE  Sem!Cardinality(X) = Cardinality(X)
BY Zenon DEF Sem!Cardinality, Cardinality

LEMMA ConservedSays ==
  /\ Sem!PermitsConserved <=> permits + Cardinality(Sem!Holders) = Permits
  /\ Sem!PermitsConserved' <=> permits' + Cardinality(Sem!Holders') = Permits
BY SameCardinality DEF Sem!PermitsConserved

LEMMA NoStrandedSays ==
  /\ Sem!NoStrandedPermit <=>
       (dozing # {} => permits <= Cardinality(Sem!Awake) + unsaid)
  /\ Sem!NoStrandedPermit' <=>
       (dozing' # {} => permits' <= Cardinality(Sem!Awake') + unsaid')
BY SameCardinality DEF Sem!NoStrandedPermit

LEMMA HoldersFinite == IsFiniteSet(Sem!Holders) /\ Cardinality(Sem!Holders) \in Nat
<1>1. Sem!Holders \subseteq SemThreads
  BY DEF Sem!Holders
<1>2. QED
  BY <1>1, SharedAssumption, FS_Subset, FS_CardinalityType

\* A thread that takes a permit becomes a holder, one that gives it back stops
\* being one, and every other step leaves the holders alone.
LEMMA HoldersChange ==
  ASSUME Sem!TypeOK, [Sem!Next]_sems
  PROVE  \/ UNCHANGED <<permits, Sem!Holders>>
         \/ \E t \in SemThreads \ Sem!Holders : /\ permits > 0 /\ permits' = permits - 1
                                                /\ Sem!Holders' = Sem!Holders \cup {t}
         \/ \E t \in Sem!Holders : permits' = permits + 1 /\ Sem!Holders' = Sem!Holders \ {t}
<1> USE DEF Sem!TypeOK, Sem!Holders
<1>1. ASSUME NEW t \in SemThreads, Sem!Acquire(t) \/ Sem!TryLock(t)
      PROVE  t \notin Sem!Holders /\ permits > 0 /\ permits' = permits - 1
             /\ Sem!Holders' = Sem!Holders \cup {t}
  BY <1>1 DEF Sem!Acquire, Sem!TryLock
<1>2. ASSUME NEW t \in SemThreads, Sem!Unlock(t)
      PROVE  t \in Sem!Holders /\ permits' = permits + 1 /\ Sem!Holders' = Sem!Holders \ {t}
  BY <1>2 DEF Sem!Unlock
<1>3. ASSUME NEW t \in SemThreads,
             Sem!Call(t) \/ Sem!Block(t) \/ Sem!Expire(t) \/ Sem!GiveUp(t) \/ Sem!Spurious(t)
      PROVE  UNCHANGED <<permits, Sem!Holders>>
  BY <1>3 DEF Sem!Call, Sem!Block, Sem!Expire, Sem!GiveUp, Sem!Spurious
<1>4. ASSUME UNCHANGED sems
      PROVE  UNCHANGED <<permits, Sem!Holders>>
  BY <1>4 DEF sems
<1>5. QED
  BY <1>1, <1>2, <1>3, <1>4 DEF Sem!Next

\* Free permits and holders are Count together in every reachable state: no race
\* of wait(), try_lock(), a timeout and unlock() loses or invents a permit.
THEOREM PermitsStayConserved == SemaphoreSpec => []PermitsConserved
<1>1. Sem!Init => Sem!PermitsConserved
  <2> SUFFICES ASSUME Sem!Init
               PROVE  Sem!PermitsConserved
    OBVIOUS
  <2>1. Sem!Holders = {}
    BY DEF Sem!Init, Sem!Holders
  <2>2. QED
    BY <2>1, SharedAssumption, FS_EmptySet, ConservedSays DEF Sem!Init
<1>2. Sem!TypeOK /\ Sem!PermitsConserved /\ [Sem!Next]_sems => Sem!PermitsConserved'
  <2> SUFFICES ASSUME Sem!TypeOK, Sem!PermitsConserved, [Sem!Next]_sems
               PROVE  Sem!PermitsConserved'
    OBVIOUS
  <2> USE SharedAssumption, HoldersFinite, ConservedSays DEF Sem!TypeOK
  <2>1. CASE UNCHANGED <<permits, Sem!Holders>>
    BY <2>1
  <2>2. ASSUME NEW t \in SemThreads \ Sem!Holders,
               permits > 0 /\ permits' = permits - 1 /\ Sem!Holders' = Sem!Holders \cup {t}
        PROVE  Sem!PermitsConserved'
    <3>1. Cardinality(Sem!Holders') = Cardinality(Sem!Holders) + 1
      BY <2>2, FS_AddElement
    <3>2. QED
      BY <2>2, <3>1
  <2>3. ASSUME NEW t \in Sem!Holders, permits' = permits + 1 /\ Sem!Holders' = Sem!Holders \ {t}
        PROVE  Sem!PermitsConserved'
    <3>1. Cardinality(Sem!Holders') = Cardinality(Sem!Holders) - 1
      BY <2>3, FS_RemoveElement
    <3>2. QED
      BY <2>3, <3>1
  <2>4. QED
    BY <2>1, <2>2, <2>3, HoldersChange
<1>3. Sem!PermitsConserved <=> PermitsConserved
  BY DEF PermitsConserved
<1>4. QED
  BY <1>1, <1>2, <1>3, TypeCorrect, PTL DEF SemaphoreSpec

-----------------------------------------------------------------------------
LEMMA AwakeFinite == IsFiniteSet(Sem!Awake) /\ Cardinality(Sem!Awake) \in Nat
<1>1. Sem!Awake \subseteq SemThreads
  BY DEF Sem!Awake
<1>2. QED
  BY <1>1, SharedAssumption, FS_Subset, FS_CardinalityType

LEMMA AwakeFiniteNext == Cardinality(Sem!Awake') \in Nat
<1>1. Sem!Awake' \subseteq SemThreads
  BY DEF Sem!Awake
<1>2. QED
  BY <1>1, SharedAssumption, FS_Subset, FS_CardinalityType

\* A thread that gets up or calls is one more awake, one that takes a permit
\* one less.
LEMMA OneMoreAwake ==
  ASSUME NEW t, t \notin Sem!Awake, Sem!Awake' = Sem!Awake \cup {t}
  PROVE  Cardinality(Sem!Awake') = Cardinality(Sem!Awake) + 1
BY AwakeFinite, FS_AddElement

LEMMA OneLessAwake ==
  ASSUME NEW t \in Sem!Awake, Sem!Awake' = Sem!Awake \ {t}
  PROVE  Cardinality(Sem!Awake') = Cardinality(Sem!Awake) - 1
BY AwakeFinite, FS_RemoveElement

\* The arithmetic of a step: what is owed counts for the sleepers that are left.
LEMMA Covered ==
  ASSUME NEW s \in Nat, Sem!Owe(s), permits' \in Nat,
         dozing' # {} => permits' <= Cardinality(Sem!Awake') + s
  PROVE  Sem!NoStrandedPermit'
BY AwakeFiniteNext, NoStrandedSays DEF Sem!Owe

\* However many permits and threads there are, the only permits a sleeper waits
\* beside are those given back while another was free: no timeout, try_lock(),
\* spurious wakeup or latecomer strands one that was announced.
THEOREM PermitsNeverStranded == SemaphoreSpec => []NoStrandedPermit
<1>1. Sem!Init => Sem!NoStrandedPermit
  BY NoStrandedSays DEF Sem!Init
<1>2. Sem!TypeOK /\ Sem!TypeOK' /\ Sem!NoStrandedPermit /\ [Sem!Next]_sems => Sem!NoStrandedPermit'
  <2> SUFFICES ASSUME Sem!TypeOK, Sem!TypeOK', Sem!NoStrandedPermit, [Sem!Next]_sems
               PROVE  Sem!NoStrandedPermit'
    OBVIOUS
  <2>0. /\ permits \in Nat /\ permits' \in Nat /\ unsaid \in Nat
        /\ Cardinality(Sem!Awake) \in Nat /\ Cardinality(Sem!Awake') \in Nat
    BY AwakeFinite, AwakeFiniteNext DEF Sem!TypeOK
  <2>1. ASSUME NEW t \in SemThreads, Sem!Call(t)
        PROVE  Sem!NoStrandedPermit'
    <3>1. t \notin Sem!Awake /\ Sem!Awake' = Sem!Awake \cup {t}
      BY <2>1 DEF Sem!TypeOK, Sem!Call, Sem!Awake
    <3>2. Cardinality(Sem!Awake') = Cardinality(Sem!Awake) + 1
      BY <3>1, OneMoreAwake
    <3>3. QED
      BY <2>0, <2>1, <3>2, NoStrandedSays DEF Sem!Call
  <2>2. ASSUME NEW t \in SemThreads, Sem!Block(t)
        PROVE  Sem!NoStrandedPermit'
    BY <2>0, <2>2, NoStrandedSays DEF Sem!Block, Sem!Owe
  <2>3. ASSUME NEW t \in SemThreads, Sem!Acquire(t)
        PROVE  Sem!NoStrandedPermit'
    <3>1. t \in Sem!Awake /\ Sem!Awake' = Sem!Awake \ {t}
      BY <2>3 DEF Sem!TypeOK, Sem!Acquire, Sem!Awake
    <3>2. Cardinality(Sem!Awake') = Cardinality(Sem!Awake) - 1
      BY <3>1, OneLessAwake
    <3>3. dozing' # {} => permits' <= Cardinality(Sem!Awake') + unsaid
      BY <2>0, <2>3, <3>2, NoStrandedSays DEF Sem!Acquire
    <3>4. QED
      BY <2>0, <2>3, <3>3, Covered DEF Sem!Acquire
  <2>4. ASSUME NEW t \in SemThreads, Sem!TryLock(t)
        PROVE  Sem!NoStrandedPermit'
    <3>1. Sem!Awake' = Sem!Awake
      BY <2>4 DEF Sem!TypeOK, Sem!TryLock, Sem!Awake
    <3>2. dozing' # {} => permits' <= Cardinality(Sem!Awake') + unsaid
      BY <2>0, <2>4, <3>1, NoStrandedSays DEF Sem!TryLock
    <3>3. QED
      BY <2>0, <2>4, <3>2, Covered DEF Sem!TryLock
  <2>5. ASSUME NEW t \in SemThreads, Sem!Unlock(t)
        PROVE  Sem!NoStrandedPermit'
    <3>1. CASE Sem!WasEmpty /\ dozing # {}
      <4>1. PICK w \in dozing : dozing' = dozing \ {w}
        BY <2>5, <3>1 DEF Sem!Unlock
      <4>2. w \notin Sem!Awake /\ Sem!Awake' = Sem!Awake \cup {w}
        BY <2>5, <4>1 DEF Sem!TypeOK, Sem!Unlock, Sem!Awake
      <4>3. permits' = 1
        BY <2>5, <3>1 DEF Sem!Unlock, Sem!WasEmpty
      <4>4. Sem!Owe(unsaid)
        BY <2>0, <2>5, <3>1 DEF Sem!Unlock, Sem!WasEmpty, Sem!Owe
      <4>5. Cardinality(Sem!Awake') = Cardinality(Sem!Awake) + 1
        BY <4>2, OneMoreAwake
      <4>6. permits' <= Cardinality(Sem!Awake') + unsaid
        BY <2>0, <4>3, <4>5
      <4>7. QED
        BY <2>0, <4>4, <4>6, Covered
    <3>2. CASE Sem!WasEmpty /\ dozing = {}
      BY <2>5, <3>2, NoStrandedSays DEF Sem!Unlock
    <3>3. CASE ~Sem!WasEmpty
      <4>1. dozing' = dozing /\ permits' = permits + 1 /\ Sem!Owe(unsaid + 1)
        BY <2>0, <2>5, <3>3 DEF Sem!Unlock, Sem!WasEmpty
      <4>2. Sem!Awake' = Sem!Awake
        BY <2>5, <4>1 DEF Sem!TypeOK, Sem!Unlock, Sem!Awake
      <4>3. dozing' # {} => permits' <= Cardinality(Sem!Awake') + (unsaid + 1)
        BY <2>0, <4>1, <4>2, NoStrandedSays
      <4>4. QED
        BY <2>0, <4>1, <4>3, Covered
    <3>4. QED
      BY <3>1, <3>2, <3>3
  <2>6. ASSUME NEW t \in SemThreads, Sem!Expire(t) \/ Sem!Spurious(t)
        PROVE  Sem!NoStrandedPermit'
    <3>1. Sem!Awake' = Sem!Awake \cup {t} /\ permits' = permits /\ Sem!Owe(unsaid)
      BY <2>6 DEF Sem!TypeOK, Sem!Expire, Sem!Spurious, Sem!Awake
    <3>2. Cardinality(Sem!Awake') >= Cardinality(Sem!Awake)
      <4>1. CASE t \in Sem!Awake
        <5>1. Sem!Awake' = Sem!Awake
          BY <3>1, <4>1
        <5>2. QED
          BY <2>0, <5>1
      <4>2. CASE t \notin Sem!Awake
        <5>1. Cardinality(Sem!Awake') = Cardinality(Sem!Awake) + 1
          BY <3>1, <4>2, OneMoreAwake
        <5>2. QED
          BY <2>0, <5>1
      <4>3. QED
        BY <4>1, <4>2
    <3>3. dozing' # {} => permits' <= Cardinality(Sem!Awake') + unsaid
      BY <2>0, <2>6, <3>1, <3>2, NoStrandedSays DEF Sem!Expire, Sem!Spurious
    <3>4. QED
      BY <2>0, <3>1, <3>3, Covered
  <2>7. ASSUME NEW t \in SemThreads, Sem!GiveUp(t)
        PROVE  Sem!NoStrandedPermit'
    BY <2>0, <2>7, NoStrandedSays DEF Sem!GiveUp
  <2>8. CASE UNCHANGED sems
    BY <2>8, NoStrandedSays DEF sems, Sem!Awake
  <2>9. QED
    BY <2>1, <2>2, <2>3, <2>4, <2>5, <2>6, <2>7, <2>8 DEF Sem!Next
<1>3. Sem!NoStrandedPermit <=> NoStrandedPermit
  BY DEF NoStrandedPermit
<1>4. QED
  BY <1>1, <1>2, <1>3, TypeCorrect, PTL DEF SemaphoreSpec
=============================================================================
