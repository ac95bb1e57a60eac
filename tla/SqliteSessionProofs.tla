------------------------ MODULE SqliteSessionProofs ------------------------
(***************************************************************************)
(* transaction() is atomic, isolated and durable beside a connection that  *)
(* all other calls share, for any number of requests, rows and crashes.    *)
(***************************************************************************)
EXTENDS SqliteSession, TLAPS

\* The rows a request has written so far.
Written(t) == {key[t]} \X (1..done[t])

\* The write lock is with the request inside transaction(), which alone has
\* rows under way, and all of those it has written.
TxPart ==
  /\ \A t \in Task : Inside(t) <=> writer = t
  /\ \A t \in Task : writer = t => uncommitted = Written(t)
  /\ \A t \in Task : at[t] = "begin" => key[t] \in TxKey /\ done[t] = 0
  /\ \A t \in Task : at[t] = "idle" => done[t] = 0

\* A free lock means no rows under way, and the shared connection never has
\* rows of a request inside transaction().
SharedPart ==
  /\ writer = NoOne => uncommitted = {}
  /\ writer = Shared => \A r \in uncommitted : r[1] \notin TxKey

\* The rows of a call outside transaction() are in the file, or under way on
\* the shared connection for whichever call commits next.
CallPart ==
  \A t \in Task : at[t] = "write" /\ key[t] \in CallKey
                    => Written(t) \subseteq durable \cup uncommitted

\* A request that is about to answer has its rows in the file.
AnswerPart ==
  \A t \in Task : at[t] = "answer" /\ key[t] \in TxKey \cup CallKey
                    => Rows(key[t]) \subseteq durable

\* The inductive invariant.
SessionInv ==
  /\ TypeOK /\ TxPart /\ SharedPart /\ CallPart /\ AnswerPart
  /\ TxAtomic /\ AnsweredDurable

\* The rows of a finished piece of work are all its rows.
LEMMA WrittenAll ==
  ASSUME NEW t \in Task, done[t] = Parts PROVE Written(t) = Rows(key[t])
BY DEF Written, Rows

\* An empty database satisfies the invariant.
LEMMA SessionInit == Init => SessionInv
<1> SUFFICES ASSUME Init PROVE SessionInv
    OBVIOUS
<1>1. TypeOK
    BY SessionAssumption DEF Init, TypeOK, Mode, Place, NoKey
<1>2. TxPart /\ SharedPart
    BY SessionAssumption DEF Init, TxPart, SharedPart, Inside
<1>3. CallPart /\ AnswerPart /\ AnsweredDurable
    BY DEF Init, CallPart, AnswerPart, AnsweredDurable
<1>4. TxAtomic
    BY DEF Init, TxAtomic, AllOrNothing
<1> QED
    BY <1>1, <1>2, <1>3, <1>4 DEF SessionInv

\* Every step keeps the variables in their types.
LEMMA SessionTypes == SessionInv /\ [Next]_vars => TypeOK'
<1> SUFFICES ASSUME SessionInv, [Next]_vars PROVE TypeOK'
    OBVIOUS
<1>0. TypeOK
    BY DEF SessionInv
<1> USE SessionAssumption DEF TypeOK, Mode, Place
<1>1. ASSUME NEW t \in Task, NEW k \in Key, Call(t, k) PROVE TypeOK'
    BY <1>0, <1>1 DEF Call
<1>2. ASSUME NEW t \in Task, TxBegin(t) PROVE TypeOK'
    BY <1>0, <1>2 DEF TxBegin
<1>3. ASSUME NEW t \in Task, TxBusy(t) PROVE TypeOK'
    BY <1>0, <1>3 DEF TxBusy, End
<1>4. ASSUME NEW t \in Task, at[t] = "write", WriteRow(t)
      PROVE  /\ uncommitted' \subseteq Row
             /\ done' \in [Task -> 0..Parts]
    BY <1>0, <1>4 DEF WriteRow, Row
<1>5. ASSUME NEW t \in Task, TxWrite(t) PROVE TypeOK'
  <2>1. uncommitted' \subseteq Row /\ done' \in [Task -> 0..Parts]
      BY <1>4, <1>5 DEF TxWrite
  <2> QED
      BY <1>0, <1>5, <2>1 DEF TxWrite, WriteRow
<1>6. ASSUME NEW t \in Task, TxCommit(t) PROVE TypeOK'
  <2>1. writer = t
      BY <1>6 DEF TxCommit, SessionInv, TxPart, Inside
  <2> QED
      BY <1>0, <1>6, <2>1 DEF TxCommit, CommitRows
<1>7. ASSUME NEW t \in Task, TxRollback(t) PROVE TypeOK'
  <2>1. writer = t
      BY <1>7 DEF TxRollback, SessionInv, TxPart, Inside
  <2> QED
      BY <1>0, <1>7, <2>1 DEF TxRollback, End
<1>8. ASSUME NEW t \in Task, NodeExists(t) PROVE TypeOK'
    BY <1>0, <1>8 DEF NodeExists
<1>9. ASSUME NEW t \in Task, SharedWrite(t) PROVE TypeOK'
  <2>1. uncommitted' \subseteq Row /\ done' \in [Task -> 0..Parts]
      BY <1>4, <1>9 DEF SharedWrite
  <2> QED
      BY <1>0, <1>9, <2>1 DEF SharedWrite, WriteRow
<1>10. ASSUME NEW t \in Task, SharedBusy(t) PROVE TypeOK'
    BY <1>0, <1>10 DEF SharedBusy, End
<1>11. ASSUME NEW t \in Task, SharedCommit(t) PROVE TypeOK'
    BY <1>0, <1>11 DEF SharedCommit, CommitRows
<1>12. ASSUME NEW t \in Task, Answer(t) PROVE TypeOK'
    BY <1>0, <1>12 DEF Answer, End
<1>13. CASE Select
    BY <1>0, <1>13 DEF Select
<1>14. CASE Crash
    BY <1>0, <1>14 DEF Crash
<1>15. CASE UNCHANGED vars
    BY <1>0, <1>15 DEF vars
<1> HIDE DEF TypeOK, Mode, Place
<1> QED
    BY <1>1, <1>2, <1>3, <1>5, <1>6, <1>7, <1>8, <1>9, <1>10, <1>11, <1>12,
       <1>13, <1>14, <1>15 DEF Next, TaskStep

\* What a step leaves alone: the file, the rows under way, the lock and the
\* answers, when the request t only moves or ends outside transaction().
LEMMA MoveKeeps ==
  ASSUME SessionInv, TypeOK', NEW t \in Task,
         UNCHANGED <<durable, uncommitted, writer, answered>>,
         ~Inside(t), ~Inside(t)', at'[t] # "answer",
         \A u \in Task \ {t} : /\ at'[u] = at[u] /\ key'[u] = key[u]
                               /\ done'[u] = done[u],
         done'[t] = 0, at'[t] = "begin" => key'[t] \in TxKey
  PROVE  SessionInv'
<1>1. TxPart' /\ SharedPart'
    BY DEF SessionInv, TxPart, SharedPart, Inside, Written
<1>2. Written(t)' = {}
    BY DEF Written
<1>3. CallPart' /\ AnswerPart'
    BY <1>2 DEF SessionInv, CallPart, AnswerPart, Written
<1>4. TxAtomic' /\ AnsweredDurable'
    BY DEF SessionInv, TxAtomic, AllOrNothing, AnsweredDurable
<1> QED
    BY <1>1, <1>3, <1>4 DEF SessionInv

\* The end of a request that was not inside transaction().
LEMMA EndKeeps ==
  ASSUME SessionInv, TypeOK', NEW t \in Task, End(t), ~Inside(t),
         UNCHANGED <<durable, uncommitted, writer, answered>>
  PROVE  SessionInv'
<1>1. TypeOK
    BY DEF SessionInv
<1>2. at'[t] = "idle" /\ done'[t] = 0 /\ ~Inside(t)'
    BY <1>1 DEF End, TypeOK, Inside
<1>3. \A u \in Task \ {t} : at'[u] = at[u] /\ key'[u] = key[u] /\ done'[u] = done[u]
    BY <1>1 DEF End, TypeOK
<1> QED
    BY <1>2, <1>3, MoveKeeps

\* Durable rows only grow: what was answered stays answered for.
LEMMA CommitKeeps ==
  ASSUME SessionInv, durable \subseteq durable', answered' = answered
  PROVE  AnsweredDurable'
BY DEF SessionInv, AnsweredDurable

\* A commit on the shared connection brings no row of transaction() work.
LEMMA SharedRowsKeepTx ==
  ASSUME SessionInv, NEW S, S \subseteq Row, \A r \in S : r[1] \notin TxKey,
         durable' = durable \cup S
  PROVE  TxAtomic'
<1> SUFFICES ASSUME NEW k \in TxKey PROVE AllOrNothing(k)'
    BY DEF TxAtomic
<1>1. Rows(k) \cap S = {}
    BY DEF Rows
<1>2. AllOrNothing(k)
    BY DEF SessionInv, TxAtomic
<1> QED
    BY <1>1, <1>2 DEF AllOrNothing

\* Every step preserves the invariant.
LEMMA SessionStep == SessionInv /\ [Next]_vars => SessionInv'
<1> SUFFICES ASSUME SessionInv, [Next]_vars PROVE SessionInv'
    OBVIOUS
<1>0. TypeOK /\ TypeOK'
    BY SessionTypes DEF SessionInv
<1>1. ASSUME NEW t \in Task, NEW k \in Key, Call(t, k) PROVE SessionInv'
  <2>1. ~Inside(t) /\ done[t] = 0 /\ done'[t] = 0
      BY <1>1 DEF Call, Inside, SessionInv, TxPart
  <2>2. at'[t] = (IF k \in TxKey THEN "begin" ELSE "write") /\ key'[t] = k
      BY <1>0, <1>1 DEF Call, TypeOK
  <2>3. \A u \in Task \ {t} : at'[u] = at[u] /\ key'[u] = key[u] /\ done'[u] = done[u]
      BY <1>0, <1>1 DEF Call, TypeOK
  <2>4. UNCHANGED <<durable, uncommitted, writer, answered>>
      BY <1>1 DEF Call
  <2> QED
      BY <1>0, <2>1, <2>2, <2>3, <2>4, MoveKeeps DEF Inside
<1>2. ASSUME NEW t \in Task, TxBegin(t) PROVE SessionInv'
  <2>1. key[t] \in TxKey /\ done[t] = 0 /\ uncommitted = {}
      BY <1>2 DEF TxBegin, SessionInv, TxPart, SharedPart
  <2>2. Written(t)' = {}
      BY <1>2, <2>1 DEF TxBegin, Written
  <2>3. TxPart' /\ SharedPart'
      BY <1>0, <1>2, <2>1, <2>2, SessionAssumption
      DEF TxBegin, SessionInv, TxPart, SharedPart, Inside, TypeOK
  <2>4. CallPart' /\ AnswerPart'
      BY <1>0, <1>2, <2>1, SessionAssumption
      DEF TxBegin, SessionInv, CallPart, AnswerPart, Written, TypeOK
  <2>5. TxAtomic' /\ AnsweredDurable'
      BY <1>2 DEF TxBegin, SessionInv, TxAtomic, AllOrNothing, AnsweredDurable
  <2> QED
      BY <1>0, <2>3, <2>4, <2>5 DEF SessionInv
<1>3. ASSUME NEW t \in Task, TxBusy(t) PROVE SessionInv'
    BY <1>0, <1>3, EndKeeps DEF TxBusy, Inside
<1>4. ASSUME NEW t \in Task, TxWrite(t) PROVE SessionInv'
  <2>1. writer = t /\ uncommitted = Written(t)
      BY <1>4 DEF TxWrite, SessionInv, TxPart, Inside
  <2>2. uncommitted' = Written(t)'
      BY <1>0, <1>4, <2>1 DEF TxWrite, WriteRow, Written, TypeOK
  <2>3. TxPart' /\ SharedPart'
      BY <1>0, <1>4, <2>1, <2>2, SessionAssumption
      DEF TxWrite, WriteRow, SessionInv, TxPart, SharedPart, Inside, TypeOK
  <2>4. \A u \in Task \ {t} : Written(u)' = Written(u)
      BY <1>0, <1>4 DEF TxWrite, WriteRow, Written, TypeOK
  <2>5. CallPart' /\ AnswerPart'
      BY <1>0, <1>4, <2>4, SessionAssumption
      DEF TxWrite, WriteRow, SessionInv, CallPart, AnswerPart, TypeOK
  <2>6. TxAtomic' /\ AnsweredDurable'
      BY <1>4 DEF TxWrite, WriteRow, SessionInv, TxAtomic, AllOrNothing, AnsweredDurable
  <2> QED
      BY <1>0, <2>3, <2>5, <2>6 DEF SessionInv
<1>5. ASSUME NEW t \in Task, TxCommit(t) PROVE SessionInv'
  <2>1. writer = t /\ uncommitted = Rows(key[t]) /\ key[t] \in TxKey
      BY <1>5, WrittenAll DEF TxCommit, SessionInv, TxPart, Inside
  <2>2. durable' = durable \cup Rows(key[t]) /\ answered' = answered
      BY <1>5, <2>1 DEF TxCommit, CommitRows
  <2>3. TxPart' /\ SharedPart'
      BY <1>0, <1>5, <2>1, SessionAssumption
      DEF TxCommit, CommitRows, SessionInv, TxPart, SharedPart, Inside, TypeOK
  <2>4. CallPart'
      BY <1>0, <1>5, <2>1 DEF TxCommit, CommitRows, SessionInv, CallPart, Written, TypeOK
  <2>5. AnswerPart'
      BY <1>0, <1>5, <2>2 DEF TxCommit, SessionInv, AnswerPart, TypeOK
  <2>6. TxAtomic'
    <3> SUFFICES ASSUME NEW k \in TxKey PROVE AllOrNothing(k)'
        BY DEF TxAtomic
    <3>1. AllOrNothing(k)
        BY DEF SessionInv, TxAtomic
    <3>2. CASE k = key[t]
        BY <2>2, <3>2 DEF AllOrNothing
    <3>3. CASE k # key[t]
      <4>1. Rows(k) \cap Rows(key[t]) = {}
          BY <3>3 DEF Rows
      <4> QED
          BY <2>2, <3>1, <4>1 DEF AllOrNothing
    <3> QED
        BY <3>2, <3>3
  <2>7. AnsweredDurable'
      BY <2>2, CommitKeeps
  <2> QED
      BY <1>0, <2>3, <2>4, <2>5, <2>6, <2>7 DEF SessionInv
<1>6. ASSUME NEW t \in Task, TxRollback(t) PROVE SessionInv'
  <2>1. writer = t /\ uncommitted = Written(t) /\ key[t] \in TxKey
      BY <1>6 DEF TxRollback, SessionInv, TxPart, Inside
  <2>2. TxPart' /\ SharedPart'
      BY <1>0, <1>6, <2>1, SessionAssumption
      DEF TxRollback, End, SessionInv, TxPart, SharedPart, Inside, TypeOK
  <2>3. ASSUME NEW u \in Task, at'[u] = "write", key'[u] \in CallKey
        PROVE  Written(u)' \subseteq durable' \cup uncommitted'
    <3>1. u # t /\ Written(u)' = Written(u) /\ at[u] = "write" /\ key[u] \in CallKey
        BY <1>0, <1>6, <2>3 DEF TxRollback, End, Written, TypeOK
    <3>2. Written(u) \subseteq durable \cup uncommitted
        BY <3>1 DEF SessionInv, CallPart
    <3>3. Written(u) \cap Written(t) = {}
        BY <2>1, <3>1, SessionAssumption DEF Written
    <3> QED
        BY <1>6, <2>1, <3>1, <3>2, <3>3 DEF TxRollback
  <2>4. CallPart'
      BY <2>3 DEF CallPart
  <2>5. AnswerPart'
      BY <1>0, <1>6 DEF TxRollback, End, SessionInv, AnswerPart, TypeOK
  <2>6. TxAtomic' /\ AnsweredDurable'
      BY <1>6 DEF TxRollback, SessionInv, TxAtomic, AllOrNothing, AnsweredDurable
  <2> QED
      BY <1>0, <2>2, <2>4, <2>5, <2>6 DEF SessionInv
<1>7. ASSUME NEW t \in Task, NodeExists(t) PROVE SessionInv'
  <2>1. \A u \in Task : writer # u
      BY <1>7, SessionAssumption DEF NodeExists, SharedWritable
  <2>2. key[t] \notin TxKey \cup CallKey
      BY <1>7, SessionAssumption DEF NodeExists
  <2>3. TxPart' /\ SharedPart'
      BY <1>0, <1>7, <2>1, <2>2, SessionAssumption
      DEF NodeExists, SharedWritable, SessionInv, TxPart, SharedPart, Inside, TypeOK
  <2>4. CallPart' /\ AnswerPart'
      BY <1>0, <1>7, <2>2 DEF NodeExists, SessionInv, CallPart, AnswerPart, Written, TypeOK
  <2>5. TxAtomic' /\ AnsweredDurable'
      BY <1>7 DEF NodeExists, SessionInv, TxAtomic, AllOrNothing, AnsweredDurable
  <2> QED
      BY <1>0, <2>3, <2>4, <2>5 DEF SessionInv
<1>8. ASSUME NEW t \in Task, SharedWrite(t) PROVE SessionInv'
  <2>1. \A u \in Task : writer # u
      BY <1>8, SessionAssumption DEF SharedWrite, SharedWritable
  <2>2. \A u \in Task : writer' # u
      BY <1>8, SessionAssumption DEF SharedWrite
  <2>3. TxPart'
      BY <1>0, <1>8, <2>1, <2>2, SessionAssumption
      DEF SharedWrite, WriteRow, SessionInv, TxPart, Inside, TypeOK
  <2>4. SharedPart'
      BY <1>8, SessionAssumption
      DEF SharedWrite, SharedWritable, WriteRow, SessionInv, SharedPart
  <2>5. /\ Written(t)' \subseteq Written(t) \cup {<<key[t], done[t] + 1>>}
        /\ \A u \in Task \ {t} : Written(u)' = Written(u)
      BY <1>0, <1>8 DEF SharedWrite, WriteRow, Written, TypeOK
  <2>6. CallPart'
      BY <1>0, <1>8, <2>5 DEF SharedWrite, WriteRow, SessionInv, CallPart, TypeOK
  <2>7. AnswerPart'
      BY <1>8 DEF SharedWrite, WriteRow, SessionInv, AnswerPart
  <2>8. TxAtomic' /\ AnsweredDurable'
      BY <1>8 DEF SharedWrite, WriteRow, SessionInv, TxAtomic, AllOrNothing, AnsweredDurable
  <2> QED
      BY <1>0, <2>3, <2>4, <2>6, <2>7, <2>8 DEF SessionInv
<1>9. ASSUME NEW t \in Task, SharedBusy(t) PROVE SessionInv'
    BY <1>0, <1>9, EndKeeps DEF SharedBusy, Inside
<1>10. ASSUME NEW t \in Task, SharedCommit(t) PROVE SessionInv'
  <2>1. durable' \cup uncommitted' = durable \cup uncommitted /\ durable \subseteq durable'
      BY <1>10 DEF SharedCommit, CommitRows
  <2>2. \A u \in Task : Written(u)' = Written(u)
      BY <1>10 DEF SharedCommit, Written
  <2>3. TxPart' /\ SharedPart'
      BY <1>0, <1>10, <2>2, SessionAssumption
      DEF SharedCommit, CommitRows, SessionInv, TxPart, SharedPart, Inside, TypeOK
  <2>4. CallPart'
      BY <1>0, <1>10, <2>1, <2>2 DEF SharedCommit, SessionInv, CallPart, TypeOK
  <2>5. key[t] \in CallKey => Rows(key[t]) \subseteq durable'
    <3>1. SUFFICES ASSUME key[t] \in CallKey PROVE Rows(key[t]) \subseteq durable'
        OBVIOUS
    <3>2. Rows(key[t]) \subseteq durable \cup uncommitted
        BY <1>10, <3>1, WrittenAll DEF SharedCommit, SessionInv, CallPart
    <3>3. CASE writer = Shared
        BY <1>10, <3>2, <3>3 DEF SharedCommit, CommitRows
    <3>4. CASE writer # Shared
      <4>1. Rows(key[t]) \cap uncommitted = {}
        <5>1. CASE writer = NoOne
            BY <5>1 DEF SessionInv, SharedPart
        <5>2. CASE writer \in Task
          <6>1. uncommitted = Written(writer) /\ key[writer] \in TxKey
              BY <5>2 DEF SessionInv, TxPart, Inside
          <6> QED
              BY <3>1, <6>1, SessionAssumption DEF Rows, Written
        <5> QED
            BY <1>0, <3>4, <5>1, <5>2 DEF TypeOK
      <4> QED
          BY <1>10, <3>2, <3>4, <4>1 DEF SharedCommit
    <3> QED
        BY <3>3, <3>4
  <2>6. AnswerPart'
      BY <1>0, <1>10, <2>1, <2>5, SessionAssumption DEF SharedCommit, SessionInv, AnswerPart, TypeOK
  <2>7. TxAtomic'
    <3>1. CASE writer = Shared
      <4>1. durable' = durable \cup uncommitted
          BY <1>10, <3>1 DEF SharedCommit, CommitRows
      <4>2. uncommitted \subseteq Row /\ \A r \in uncommitted : r[1] \notin TxKey
          BY <1>0, <3>1 DEF TypeOK, SessionInv, SharedPart
      <4> QED
          BY <4>1, <4>2, SharedRowsKeepTx
    <3>2. CASE writer # Shared
        BY <1>10, <3>2 DEF SharedCommit, SessionInv, TxAtomic, AllOrNothing
    <3> QED
        BY <3>1, <3>2
  <2>8. AnsweredDurable'
      BY <1>10, <2>1, CommitKeeps DEF SharedCommit
  <2> QED
      BY <1>0, <2>3, <2>4, <2>6, <2>7, <2>8 DEF SessionInv
<1>11. ASSUME NEW t \in Task, Answer(t) PROVE SessionInv'
  <2>1. AnsweredDurable'
      BY <1>11 DEF Answer, SessionInv, AnsweredDurable, AnswerPart
  <2>2. TxPart' /\ SharedPart'
      BY <1>0, <1>11 DEF Answer, End, SessionInv, TxPart, SharedPart, Inside, Written, TypeOK
  <2>3. CallPart' /\ AnswerPart'
      BY <1>0, <1>11 DEF Answer, End, SessionInv, CallPart, AnswerPart, Written, TypeOK
  <2>4. TxAtomic'
      BY <1>11 DEF Answer, SessionInv, TxAtomic, AllOrNothing
  <2> QED
      BY <1>0, <2>1, <2>2, <2>3, <2>4 DEF SessionInv
<1>12. CASE Crash
  <2>1. TxPart' /\ SharedPart'
      BY <1>0, <1>12, SessionAssumption DEF Crash, TxPart, SharedPart, Inside, TypeOK
  <2>2. CallPart' /\ AnswerPart'
      BY <1>12 DEF Crash, CallPart, AnswerPart
  <2>3. TxAtomic' /\ AnsweredDurable'
      BY <1>12 DEF Crash, SessionInv, TxAtomic, AllOrNothing, AnsweredDurable
  <2> QED
      BY <1>0, <2>1, <2>2, <2>3 DEF SessionInv
<1>13. CASE Select \/ UNCHANGED vars
    BY <1>0, <1>13
    DEF Select, vars, SessionInv, TxPart, SharedPart, CallPart, AnswerPart, Written,
        Inside, TxAtomic, AllOrNothing, AnsweredDurable
<1> QED
    BY <1>1, <1>2, <1>3, <1>4, <1>5, <1>6, <1>7, <1>8, <1>9, <1>10, <1>11,
       <1>12, <1>13 DEF Next, TaskStep

\* The inductive invariant holds throughout.
THEOREM SessionInvariant == Spec => []SessionInv
<1>1. Init => SessionInv
    BY SessionInit
<1>2. SessionInv /\ [Next]_vars => SessionInv'
    BY SessionStep
<1> QED
    BY <1>1, <1>2, PTL DEF Spec

\* transaction() is all or nothing, for any work and through any crash.
THEOREM TransactionsAtomic == Spec => []TxAtomic
<1>1. SessionInv => TxAtomic
    BY DEF SessionInv
<1> QED
    BY <1>1, SessionInvariant, PTL

\* What was answered with success is in the file for good, inside
\* transaction() and outside.
THEOREM AnswersDurable == Spec => []AnsweredDurable
<1>1. SessionInv => AnsweredDurable
    BY DEF SessionInv
<1> QED
    BY <1>1, SessionInvariant, PTL

\* Every reachable state is well typed; in particular the shared connection
\* believes itself writing exactly when it holds the lock.
THEOREM SessionTyped == Spec => []TypeOK
<1>1. SessionInv => TypeOK
    BY DEF SessionInv
<1> QED
    BY <1>1, SessionInvariant, PTL

\* A step that changes the file is a commit by the holder of the lock, so none
\* happens while a request is inside transaction() and stays there.
THEOREM TransactionsIsolated == Spec => TxIsolated
<1>1. SessionInv /\ [Next]_vars
        => \A t \in Task : Inside(t) /\ Inside(t)' => durable' = durable
  <2> SUFFICES ASSUME SessionInv, [Next]_vars, NEW t \in Task, Inside(t), Inside(t)'
               PROVE  durable' = durable
      OBVIOUS
  <2>1. writer = t /\ t # Shared /\ TypeOK
      BY SessionAssumption DEF SessionInv, TxPart
  <2>2. ASSUME NEW u \in Task, TxCommit(u) PROVE durable' = durable
    <3>1. u = t
        BY <2>1, <2>2 DEF TxCommit, SessionInv, TxPart, Inside
    <3>2. at'[t] = "answer"
        BY <2>1, <2>2, <3>1 DEF TxCommit, TypeOK
    <3> QED
        BY <3>2 DEF Inside
  <2>3. ASSUME NEW u \in Task, SharedCommit(u) PROVE durable' = durable
      BY <2>1, <2>3 DEF SharedCommit
  <2>4. ASSUME NEW u \in Task, TaskStep(u) PROVE durable' = durable
      BY <2>2, <2>3, <2>4
      DEF TaskStep, Call, TxBegin, TxBusy, TxWrite, TxRollback, NodeExists,
          SharedWrite, SharedBusy, Answer, WriteRow
  <2>5. CASE Select \/ Crash \/ UNCHANGED vars
      BY <2>5 DEF Select, Crash, vars
  <2> QED
      BY <2>4, <2>5 DEF Next
<1> QED
    BY <1>1, SessionInvariant, PTL DEF Spec, TxIsolated

\* The requests inside transaction() whose rows are in the file.
StoredTx == {k \in TxKey : Rows(k) \subseteq durable}

\* A step that leaves file and answers alone is a stutter of the store.
LEMMA StoreStutters ==
  ASSUME durable' = durable, answered' = answered
  PROVE  [Store!Next]_<<StoredTx, answered \cap TxKey>>
BY DEF StoredTx

\* transaction() implements the atomic store that Containment builds on: a
\* COMMIT stores one request, and only stored requests are answered.
THEOREM TransactionsRefineStore == Spec => StoreSpec
<1>1. Init => Store!Init
  <2> SUFFICES ASSUME Init PROVE Store!Init
      OBVIOUS
  <2>1. ASSUME NEW k \in TxKey PROVE ~(Rows(k) \subseteq durable)
    <3>1. <<k, 1>> \in Rows(k)
        BY SessionAssumption DEF Rows
    <3> QED
        BY <3>1 DEF Init
  <2> QED
      BY <2>1 DEF Init, Store!Init
<1>2. SessionInv /\ [Next]_vars => [Store!Next]_<<StoredTx, answered \cap TxKey>>
  <2> SUFFICES ASSUME SessionInv, [Next]_vars
               PROVE  [Store!Next]_<<StoredTx, answered \cap TxKey>>
      OBVIOUS
  <2>0. TypeOK /\ \A k \in TxKey : <<k, 1>> \in Rows(k)
      BY SessionAssumption DEF SessionInv, Rows
  <2>1. ASSUME NEW t \in Task, TxCommit(t) PROVE Store!Store(key[t]) /\ key[t] \in TxKey
    <3>1. uncommitted = Rows(key[t]) /\ key[t] \in TxKey
        BY <2>1, WrittenAll DEF TxCommit, SessionInv, TxPart, Inside
    <3>2. durable' = durable \cup Rows(key[t]) /\ answered' = answered
        BY <2>1, <3>1 DEF TxCommit, CommitRows
    <3>3. ASSUME NEW k \in TxKey, k # key[t]
          PROVE  Rows(k) \subseteq durable' <=> Rows(k) \subseteq durable
      <4>1. Rows(k) \cap Rows(key[t]) = {}
          BY <3>3 DEF Rows
      <4> QED
          BY <3>2, <4>1
    <3>4. StoredTx' = StoredTx \cup {key[t]}
        BY <3>1, <3>2, <3>3 DEF StoredTx
    <3> QED
        BY <3>1, <3>2, <3>4 DEF Store!Store, StoredTx
  <2>2. ASSUME NEW t \in Task, SharedCommit(t)
        PROVE  StoredTx' = StoredTx /\ answered' = answered
    <3>1. ASSUME NEW k \in TxKey
          PROVE  Rows(k) \subseteq durable' <=> Rows(k) \subseteq durable
      <4>1. CASE writer = Shared
        <5>1. Rows(k) \cap uncommitted = {}
            BY <4>1 DEF SessionInv, SharedPart, Rows
        <5> QED
            BY <2>2, <4>1, <5>1 DEF SharedCommit, CommitRows
      <4>2. CASE writer # Shared
          BY <2>2, <4>2 DEF SharedCommit
      <4> QED
          BY <4>1, <4>2
    <3> QED
        BY <2>2, <3>1 DEF StoredTx, SharedCommit
  <2>3. ASSUME NEW t \in Task, Answer(t)
        PROVE  \/ key[t] \in TxKey /\ Store!Answer(key[t])
               \/ UNCHANGED <<StoredTx, answered \cap TxKey>>
    <3>1. CASE key[t] \in TxKey
        BY <2>3, <3>1 DEF Answer, SessionInv, AnswerPart, Store!Answer, StoredTx
    <3>2. CASE key[t] \notin TxKey
        BY <2>3, <3>2 DEF Answer, StoredTx
    <3> QED
        BY <3>1, <3>2
  <2>4. ASSUME NEW t \in Task, TaskStep(t)
        PROVE  [Store!Next]_<<StoredTx, answered \cap TxKey>>
    <3>1. CASE durable' = durable /\ answered' = answered
        BY <3>1, StoreStutters
    <3>2. CASE TxCommit(t)
        BY <2>1, <3>2 DEF Store!Next
    <3>3. CASE SharedCommit(t)
        BY <2>2, <3>3
    <3>4. CASE Answer(t)
        BY <2>3, <3>4 DEF Store!Next
    <3> QED
        BY <2>4, <3>1, <3>2, <3>3, <3>4
        DEF TaskStep, Call, TxBegin, TxBusy, TxWrite, TxRollback, NodeExists,
            SharedWrite, SharedBusy, WriteRow
  <2>5. CASE Select \/ Crash \/ UNCHANGED vars
      BY <2>5, StoreStutters DEF Select, Crash, vars
  <2> QED
      BY <2>4, <2>5 DEF Next
<1> QED
    BY <1>1, <1>2, SessionInvariant, PTL DEF Spec, StoreSpec, Store!Spec, StoredTx
=============================================================================
