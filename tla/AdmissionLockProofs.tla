------------------------ MODULE AdmissionLockProofs ------------------------
(***************************************************************************)
(* The admission lock keeps its counters straight and its sections apart   *)
(* for any finite set of tasks, nested calls included, and implements the  *)
(* abstract read-write lock.                                               *)
(***************************************************************************)
EXTENDS AdmissionLock, FiniteSetTheorems, TLAPS

\* The inductive invariant: the flags and the counter mirror the tasks'
\* places, which is what makes the tests under the mutex mean anything.
LockInv == TypeOK /\ Accounting /\ MutualExclusion

\* The critical sections are finite sets of tasks.
LEMMA FiniteSharers == IsFiniteSet(Sharers)
<1>1. Sharers \subseteq Task
    BY DEF Sharers
<1> QED
    BY <1>1, TaskAssumption, FS_Subset

\* A lock that nobody has called satisfies the invariant.
LEMMA LockInit == Init => LockInv
<1> SUFFICES ASSUME Init PROVE LockInv
    OBVIOUS
<1>1. Sharers = {} /\ Owners = {}
    BY DEF Init, Sharers, Owners
<1>2. Cardinality(Sharers) = 0
    BY <1>1, FS_EmptySet
<1> QED
    BY <1>1, <1>2 DEF Init, LockInv, TypeOK, Accounting, MutualExclusion, Place

\* Entering shared() adds one task to the sharers and one to the count.
LEMMA CountIn ==
  ASSUME LockInv, NEW t \in Task, AcquireShared(t)
  PROVE  Sharers' = Sharers \cup {t} /\ Cardinality(Sharers') = readers'
<1>1. Sharers' = Sharers \cup {t} /\ t \notin Sharers
    BY DEF LockInv, TypeOK, AcquireShared, Sharers
<1>2. Cardinality(Sharers \cup {t}) = Cardinality(Sharers) + 1
    BY <1>1, FiniteSharers, FS_AddElement
<1> QED
    BY <1>1, <1>2 DEF LockInv, Accounting, AcquireShared

\* Leaving shared() takes one task from the sharers and one from the count.
LEMMA CountOut ==
  ASSUME LockInv, NEW t \in Task, ReleaseShared(t)
  PROVE  /\ Sharers' = Sharers \ {t}
         /\ Cardinality(Sharers') = readers'
         /\ readers' \in Nat
<1>1. Sharers' = Sharers \ {t} /\ t \in Sharers
    BY DEF LockInv, TypeOK, ReleaseShared, Sharers
<1>2. Cardinality(Sharers \ {t}) = Cardinality(Sharers) - 1
    BY <1>1, FiniteSharers, FS_RemoveElement
<1>3. Cardinality(Sharers \ {t}) \in Nat
    BY FiniteSharers, FS_RemoveElement, FS_CardinalityType
<1> QED
    BY <1>1, <1>2, <1>3 DEF LockInv, Accounting, ReleaseShared

\* A count of zero means that no admission is inside.
LEMMA NoSharers ==
  ASSUME LockInv, readers = 0
  PROVE  Sharers = {}
BY FiniteSharers, FS_EmptySet DEF LockInv, Accounting

\* Every step of the lock preserves the invariant.
LEMMA LockStep == LockInv /\ [Next]_vars => LockInv'
<1> SUFFICES ASSUME LockInv, [Next]_vars PROVE LockInv'
    OBVIOUS
<1>1. ASSUME NEW t \in Task, CallShared(t) PROVE LockInv'
  <2>1. Sharers' = Sharers /\ Owners' = Owners
      BY <1>1 DEF LockInv, TypeOK, CallShared, Sharers, Owners
  <2> QED
      BY <1>1, <2>1 DEF LockInv, TypeOK, Accounting, MutualExclusion,
                        CallShared, Place
<1>2. ASSUME NEW t \in Task, RequestExclusive(t) PROVE LockInv'
  <2>1. Sharers' = Sharers /\ Owners' = Owners
      BY <1>2 DEF LockInv, TypeOK, RequestExclusive, Sharers, Owners
  <2>2. ex'[t] # "out"
      BY <1>2 DEF LockInv, TypeOK, RequestExclusive
  <2> QED
      BY <1>2, <2>1, <2>2 DEF LockInv, TypeOK, Accounting, MutualExclusion,
                              RequestExclusive, Place
<1>3. ASSUME NEW t \in Task, AcquireShared(t) PROVE LockInv'
  <2>1. Sharers' = Sharers \cup {t} /\ Cardinality(Sharers') = readers'
      BY <1>3, CountIn
  <2>2. Owners = {} /\ Owners' = {}
      BY <1>3 DEF LockInv, Accounting, AcquireShared, Owners
  <2> QED
      BY <1>3, <2>1, <2>2 DEF LockInv, TypeOK, Accounting, MutualExclusion,
                              AcquireShared, Place
<1>4. ASSUME NEW t \in Task, ReleaseShared(t) PROVE LockInv'
  <2>1. /\ Sharers' = Sharers \ {t}
        /\ Cardinality(Sharers') = readers'
        /\ readers' \in Nat
      BY <1>4, CountOut
  <2>2. Owners' = Owners
      BY <1>4 DEF ReleaseShared, Owners
  <2> QED
      BY <1>4, <2>1, <2>2 DEF LockInv, TypeOK, Accounting, MutualExclusion,
                              ReleaseShared, Place
<1>5. ASSUME NEW t \in Task, AcquireExclusive(t) PROVE LockInv'
  <2>1. Sharers = {} /\ Sharers' = Sharers
      BY <1>5, NoSharers DEF AcquireExclusive, Sharers
  <2>2. Owners = {} /\ Owners' = {t}
      BY <1>5 DEF LockInv, TypeOK, Accounting, AcquireExclusive, Owners
  <2>3. ex'[t] = "in"
      BY <1>5 DEF LockInv, TypeOK, AcquireExclusive
  <2> QED
      BY <1>5, <2>1, <2>2, <2>3 DEF LockInv, TypeOK, Accounting,
                                    MutualExclusion, AcquireExclusive, Place
<1>6. ASSUME NEW t \in Task, ReleaseExclusive(t) PROVE LockInv'
  <2>1. Owners = {t}
      BY <1>6 DEF LockInv, MutualExclusion, ReleaseExclusive, Owners
  <2>2. Owners' = {} /\ Sharers' = Sharers
      BY <1>6, <2>1 DEF LockInv, TypeOK, ReleaseExclusive, Owners, Sharers
  <2> QED
      BY <1>6, <2>2 DEF LockInv, TypeOK, Accounting, MutualExclusion,
                        ReleaseExclusive, Place
<1>7. CASE UNCHANGED vars
  <2>1. Sharers' = Sharers /\ Owners' = Owners
      BY <1>7 DEF vars, Sharers, Owners
  <2> QED
      BY <1>7, <2>1 DEF vars, LockInv, TypeOK, Accounting, MutualExclusion
<1> QED
    BY <1>1, <1>2, <1>3, <1>4, <1>5, <1>6, <1>7 DEF Next, Step

\* The inductive invariant holds throughout.
THEOREM LockInvariant == Spec => []LockInv
<1>1. Init => LockInv
    BY LockInit
<1>2. LockInv /\ [Next]_vars => LockInv'
    BY LockStep
<1> QED
    BY <1>1, <1>2, PTL DEF Spec

\* The lock's counters and the tasks' places keep their types: in particular
\* _readers never drops below zero, which the code does not test.
THEOREM LockTyped == Spec => []TypeOK
<1>1. LockInv => TypeOK
    BY DEF LockInv
<1> QED
    BY <1>1, LockInvariant, PTL

\* For every number of tasks: no admission runs beside a designation and no
\* two designations run together.
THEOREM LockMutualExclusion == Spec => []MutualExclusion
<1>1. LockInv => MutualExclusion
    BY DEF LockInv
<1> QED
    BY <1>1, LockInvariant, PTL

\* For every number of tasks: the reader count, the writer flag and the
\* request flag stay in step with the tasks.
THEOREM LockAccounting == Spec => []Accounting
<1>1. LockInv => Accounting
    BY DEF LockInv
<1> QED
    BY <1>1, LockInvariant, PTL

\* The asyncio lock implements the abstract read-write lock, even when a
\* designator nests shared() in exclusive().
THEOREM LockRefinesRWLock == Spec => RWSpec
<1>1. Init => RW!Init
    BY DEF Init, RW!Init, Sharers, Owners
<1>2. LockInv /\ [Next]_vars => [RW!Next]_RW!vars
  <2> SUFFICES ASSUME LockInv, [Next]_vars
               PROVE  [RW!Next]_RW!vars
      OBVIOUS
  <2>1. ASSUME NEW t \in Task, CallShared(t) PROVE UNCHANGED RW!vars
      BY <2>1 DEF LockInv, TypeOK, CallShared, Sharers, Owners, RW!vars
  <2>2. ASSUME NEW t \in Task, RequestExclusive(t) PROVE UNCHANGED RW!vars
      BY <2>2 DEF LockInv, TypeOK, RequestExclusive, Sharers, Owners, RW!vars
  <2>3. ASSUME NEW t \in Task, AcquireShared(t) PROVE RW!EnterShared(t)
    <3>1. Sharers' = Sharers \cup {t}
        BY <2>3, CountIn
    <3>2. Owners = {} /\ Owners' = Owners
        BY <2>3 DEF LockInv, Accounting, AcquireShared, Owners
    <3> QED
        BY <3>1, <3>2 DEF RW!EnterShared
  <2>4. ASSUME NEW t \in Task, ReleaseShared(t) PROVE RW!ExitShared(t)
    <3>1. Sharers' = Sharers \ {t} /\ t \in Sharers
        BY <2>4 DEF LockInv, TypeOK, ReleaseShared, Sharers
    <3>2. Owners' = Owners
        BY <2>4 DEF ReleaseShared, Owners
    <3> QED
        BY <3>1, <3>2 DEF RW!ExitShared
  <2>5. ASSUME NEW t \in Task, AcquireExclusive(t) PROVE RW!EnterExclusive(t)
    <3>1. Sharers = {} /\ Sharers' = Sharers
        BY <2>5, NoSharers DEF AcquireExclusive, Sharers
    <3>2. Owners = {} /\ Owners' = {t}
        BY <2>5 DEF LockInv, TypeOK, Accounting, AcquireExclusive, Owners
    <3> QED
        BY <3>1, <3>2 DEF RW!EnterExclusive
  <2>6. ASSUME NEW t \in Task, ReleaseExclusive(t) PROVE RW!ExitExclusive(t)
    <3>1. Owners = {t}
        BY <2>6 DEF LockInv, MutualExclusion, ReleaseExclusive, Owners
    <3>2. Owners' = {} /\ Sharers' = Sharers
        BY <2>6, <3>1 DEF LockInv, TypeOK, ReleaseExclusive, Owners, Sharers
    <3> QED
        BY <3>1, <3>2 DEF RW!ExitExclusive
  <2>7. CASE UNCHANGED vars
      BY <2>7 DEF vars, RW!vars, Sharers, Owners
  <2> QED
      BY <2>1, <2>2, <2>3, <2>4, <2>5, <2>6, <2>7 DEF Next, Step, RW!Next
<1> QED
    BY <1>1, <1>2, LockInvariant, PTL DEF Spec, RWSpec, RW!Spec
=============================================================================
