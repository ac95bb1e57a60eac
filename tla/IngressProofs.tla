--------------------------- MODULE IngressProofs ---------------------------
(***************************************************************************)
(* The in-flight counter is exact, and it bounds how far concurrent        *)
(* requests can overshoot an identity's rate limit, and all identities     *)
(* together the global one: for every limit, every finite set of           *)
(* identities and every finite set of clients.                             *)
(***************************************************************************)
EXTENDS Ingress, LineageProofs, FiniteSetTheorems, TLAPS

\* The requests of one source and kind that have passed the identity's count
\* and are not on record yet.
Passed(s, kind) ==
  {t \in Task : at[t] \in {"global", "record"} /\ req[t] = <<s, kind>>}

\* Rows on record and requests about to add one, together.  The last request
\* to pass saw fewer rows than the limit, and all that are inside may have
\* passed.
Overshoot ==
  \A s \in Source, kind \in Kind :
    pending[<<s, kind>>] + Cardinality(Passed(s, kind))
      <= Limit(kind) + MaxInFlight - 1

\* The inductive invariant.
IngressInv ==
  /\ IngressTypeOK
  /\ InFlightExact
  /\ inFlight <= MaxInFlight
  /\ ClosedEmpty
  /\ Overshoot

\* Sets of requests are finite.
LEMMA TaskSets ==
  ASSUME NEW S \in SUBSET Task
  PROVE  IsFiniteSet(S) /\ Cardinality(S) \in Nat
<1>1. IsFiniteSet(S)
    BY LimitAssumption, FS_Subset
<1> QED
    BY <1>1, FS_CardinalityType

\* A set of requests that does not grow keeps its count.
LEMMA FewerTasks ==
  ASSUME NEW S \in SUBSET Task, NEW T \in SUBSET S
  PROVE  /\ Cardinality(S) \in Nat /\ Cardinality(T) \in Nat
         /\ Cardinality(T) <= Cardinality(S)
<1>1. IsFiniteSet(S) /\ Cardinality(S) \in Nat
    BY TaskSets
<1>2. IsFiniteSet(T) /\ Cardinality(T) <= Cardinality(S)
    BY <1>1, FS_Subset
<1> QED
    BY <1>1, <1>2, FS_CardinalityType

\* The limits are natural numbers.
LEMMA LimitType == \A kind \in Kind : Limit(kind) \in Nat
    BY LimitAssumption DEF Limit

\* An empty gateway satisfies the invariant.
LEMMA IngressInitially == IngressInit => IngressInv
<1> SUFFICES ASSUME IngressInit PROVE IngressInv
    OBVIOUS
<1>1. IngressTypeOK
    BY DEF IngressInit, Init, IngressTypeOK, TypeOK, Place, NoRequest, Slot
<1>2. Inside = {} /\ inFlight = 0
    BY DEF IngressInit, Inside
<1>3. InFlightExact /\ inFlight <= MaxInFlight /\ ClosedEmpty
    BY <1>2, FS_EmptySet, InFlightAssumption DEF InFlightExact, ClosedEmpty
<1>4. ASSUME NEW s \in Source, NEW kind \in Kind
      PROVE  pending[<<s, kind>>] + Cardinality(Passed(s, kind))
               <= Limit(kind) + MaxInFlight - 1
  <2>1. Passed(s, kind) = {} /\ pending[<<s, kind>>] = 0
      BY DEF IngressInit, Init, Passed
  <2>2. Cardinality(Passed(s, kind)) = 0
      BY <2>1, FS_EmptySet
  <2> QED
      BY <2>1, <2>2, LimitType, InFlightAssumption
<1> QED
    BY <1>1, <1>3, <1>4 DEF IngressInv, Overshoot

\* A step of the handlers or of the clock, as RateLimit has it, keeps the
\* attempt counters in their types.
LEMMA LimitTypes ==
  ASSUME TypeOK,
         \/ \E t \in Task : \/ \E s \in Source, kind \in Kind : CountIdentity(t, s, kind)
                            \/ CountGlobal(t) \/ RecordPending(t) \/ RecordLimited(t)
         \/ \E r \in Source \X Kind : PendingExpires(r)
         \/ \E s \in Source : LimitedExpires(s)
  PROVE  TypeOK'
<1> USE DEF TypeOK, Place, Kind, NoRequest
<1>1. ASSUME NEW t \in Task, NEW s \in Source, NEW kind \in Kind,
             CountIdentity(t, s, kind)
      PROVE  TypeOK'
    BY <1>1 DEF CountIdentity
<1>2. ASSUME NEW t \in Task, CountGlobal(t) PROVE TypeOK'
    BY <1>2 DEF CountGlobal
<1>3. ASSUME NEW t \in Task, RecordPending(t) PROVE TypeOK'
  <2>1. req[t] \in Source \X Kind
      BY <1>3 DEF RecordPending
  <2>2. pending' \in [Source \X Kind -> Nat]
      BY <1>3, <2>1 DEF RecordPending
  <2> QED
      BY <1>3, <2>2 DEF RecordPending, Finish
<1>4. ASSUME NEW t \in Task, RecordLimited(t) PROVE TypeOK'
  <2>1. req[t] \in Source \X Kind
      BY <1>4 DEF RecordLimited
  <2>2. limited' \in [Source -> Nat]
      BY <1>4, <2>1 DEF RecordLimited
  <2> QED
      BY <1>4, <2>2 DEF RecordLimited, Finish
<1>5. ASSUME NEW r \in Source \X Kind, PendingExpires(r) PROVE TypeOK'
  <2>1. pending[r] \in Nat /\ pending[r] - 1 \in Nat
      BY <1>5 DEF PendingExpires
  <2>2. pending' \in [Source \X Kind -> Nat]
      BY <1>5, <2>1 DEF PendingExpires
  <2> QED
      BY <1>5, <2>2 DEF PendingExpires
<1>6. ASSUME NEW s \in Source, LimitedExpires(s) PROVE TypeOK'
  <2>1. limited[s] \in Nat /\ limited[s] - 1 \in Nat
      BY <1>6 DEF LimitedExpires
  <2>2. limited' \in [Source -> Nat]
      BY <1>6, <2>1 DEF LimitedExpires
  <2> QED
      BY <1>6, <2>2 DEF LimitedExpires
<1> HIDE DEF TypeOK, Place, Kind, NoRequest
<1> QED
    BY <1>1, <1>2, <1>3, <1>4, <1>5, <1>6

\* Every step keeps the variables in their types.
LEMMA IngressTypes == IngressTypeOK /\ [Next]_allVars => IngressTypeOK'
<1> SUFFICES ASSUME IngressTypeOK, [Next]_allVars PROVE IngressTypeOK'
    OBVIOUS
<1>0. TypeOK /\ slot \in [Task -> Slot]
    BY DEF IngressTypeOK
<1>1. ASSUME NEW t \in Task, Acquire(t) PROVE IngressTypeOK'
    BY <1>1 DEF Acquire, IngressTypeOK, TypeOK, vars, Slot
<1>2. ASSUME NEW t \in Task, NEW s \in Source, NEW kind \in Kind, Signal(t, s, kind)
      PROVE  IngressTypeOK'
  <2>1. TypeOK'
      BY <1>0, <1>2, LimitTypes DEF Signal
  <2> QED
      BY <1>0, <1>2, <2>1 DEF Signal, CountIdentity, IngressTypeOK, TypeOK, Slot
<1>3. ASSUME NEW t \in Task, Handler(t) PROVE IngressTypeOK'
  <2>1. TypeOK'
      BY <1>0, <1>3, LimitTypes DEF Handler
  <2> QED
      BY <1>0, <1>3, <2>1
      DEF Handler, CountGlobal, RecordPending, RecordLimited, Finish, gate,
          IngressTypeOK, TypeOK
<1>4. ASSUME NEW t \in Task, Leave(t) PROVE IngressTypeOK'
  <2>1. TypeOK'
      BY <1>0, <1>4 DEF Leave, Finish, TypeOK, Place, NoRequest
  <2>2. inFlight' \in Nat
      BY <1>4 DEF Leave, Decremented, IngressTypeOK
  <2> QED
      BY <1>0, <1>4, <2>1, <2>2 DEF Leave, Finish, IngressTypeOK, TypeOK, Slot
<1>5. CASE Expiry
  <2>1. TypeOK'
      BY <1>0, <1>5, LimitTypes DEF Expiry
  <2> QED
      BY <1>5, <2>1 DEF Expiry, PendingExpires, LimitedExpires, gate, IngressTypeOK
<1>6. CASE Shutdown \/ Deadline \/ Close \/ Startup
    BY <1>6 DEF Shutdown, Deadline, Close, Startup, IngressTypeOK, TypeOK, vars
<1>7. CASE Crash
    BY <1>0, <1>7 DEF Crash, IngressTypeOK, TypeOK, Place, NoRequest, Slot
<1>8. CASE UNCHANGED allVars
    BY <1>8 DEF allVars, vars, gate, IngressTypeOK, TypeOK
<1> QED
    BY <1>1, <1>2, <1>3, <1>4, <1>5, <1>6, <1>7, <1>8 DEF Next

\* The counter follows the requests inside, at most MaxInFlight of them, and a
\* backend closed in time is closed behind the last one.
LEMMA CounterStep ==
  IngressInv /\ [Next]_allVars
    => InFlightExact' /\ inFlight' <= MaxInFlight /\ ClosedEmpty'
<1> SUFFICES ASSUME IngressInv, [Next]_allVars
             PROVE  InFlightExact' /\ inFlight' <= MaxInFlight /\ ClosedEmpty'
    OBVIOUS
<1>0. /\ IngressTypeOK /\ slot \in [Task -> Slot] /\ inFlight \in Nat
      /\ inFlight = Cardinality(Inside) /\ inFlight <= MaxInFlight
      /\ IsFiniteSet(Inside) /\ MaxInFlight \in Nat
    BY TaskSets, InFlightAssumption DEF IngressInv, IngressTypeOK, InFlightExact, Inside
<1>1. ASSUME NEW t \in Task, Acquire(t)
      PROVE  InFlightExact' /\ inFlight' <= MaxInFlight /\ ClosedEmpty'
  <2>1. Inside' = Inside \cup {t} /\ t \notin Inside
      BY <1>0, <1>1 DEF Acquire, Inside, Slot
  <2>2. Cardinality(Inside') = Cardinality(Inside) + 1
      BY <1>0, <2>1, FS_AddElement
  <2> QED
      BY <1>0, <1>1, <2>2 DEF Acquire, InFlightExact, ClosedEmpty
<1>2. ASSUME NEW t \in Task, Leave(t)
      PROVE  InFlightExact' /\ inFlight' <= MaxInFlight /\ ClosedEmpty'
  <2>1. Inside' = Inside \ {t} /\ t \in Inside
      BY <1>0, <1>2 DEF Leave, Inside, Slot
  <2>2. Cardinality(Inside') = Cardinality(Inside) - 1 /\ Cardinality(Inside) # 0
      BY <1>0, <2>1, FS_RemoveElement, FS_EmptySet
  <2>3. inFlight' = inFlight - 1
      BY <1>0, <1>2, <2>2 DEF Leave, Decremented
  <2> QED
      BY <1>0, <1>2, <2>1, <2>2, <2>3 DEF Leave, InFlightExact, ClosedEmpty, IngressInv
<1>3. ASSUME NEW t \in Task, NEW s \in Source, NEW kind \in Kind, Signal(t, s, kind)
      PROVE  InFlightExact' /\ inFlight' <= MaxInFlight /\ ClosedEmpty'
  <2>1. Inside' = Inside
      BY <1>0, <1>3 DEF Signal, Inside, Slot
  <2> QED
      BY <1>0, <1>3, <2>1 DEF Signal, InFlightExact, ClosedEmpty, IngressInv
<1>4. CASE UNCHANGED gate
  <2>1. Inside' = Inside
      BY <1>4 DEF gate, Inside
  <2> QED
      BY <1>0, <1>4, <2>1 DEF gate, InFlightExact, ClosedEmpty, IngressInv
<1>5. CASE Shutdown \/ Deadline \/ Startup
  <2>1. Inside' = Inside
      BY <1>5 DEF Shutdown, Deadline, Startup, Inside
  <2> QED
      BY <1>0, <1>5, <2>1 DEF Shutdown, Deadline, Startup, InFlightExact, ClosedEmpty
<1>6. CASE Close
  <2>1. Inside' = Inside
      BY <1>6 DEF Close, Inside
  <2>2. inFlight = 0 => Inside = {}
      BY <1>0, FS_EmptySet
  <2> QED
      BY <1>0, <1>6, <2>1, <2>2 DEF Close, InFlightExact, ClosedEmpty
<1>7. CASE Crash
  <2>1. Inside' = {}
      BY <1>7 DEF Crash, Inside
  <2> QED
      BY <1>0, <1>7, <2>1, FS_EmptySet DEF Crash, InFlightExact, ClosedEmpty
<1> QED
    BY <1>1, <1>2, <1>3, <1>4, <1>5, <1>6, <1>7 DEF Next, Handler, Expiry, allVars

\* A step that adds neither a row nor a passed request of a source and kind
\* keeps the sum for these.
LEMMA NothingAdded ==
  ASSUME IngressInv, NEW s \in Source, NEW kind \in Kind,
         pending'[<<s, kind>>] \in Nat,
         pending'[<<s, kind>>] <= pending[<<s, kind>>],
         Passed(s, kind)' \subseteq Passed(s, kind)
  PROVE  pending'[<<s, kind>>] + Cardinality(Passed(s, kind)')
           <= Limit(kind) + MaxInFlight - 1
<1>1. Passed(s, kind) \in SUBSET Task /\ Passed(s, kind)' \in SUBSET Passed(s, kind)
    BY DEF Passed
<1>2. /\ Cardinality(Passed(s, kind)') \in Nat
      /\ Cardinality(Passed(s, kind)) \in Nat
      /\ Cardinality(Passed(s, kind)') <= Cardinality(Passed(s, kind))
    BY <1>1, FewerTasks
<1>3. pending[<<s, kind>>] \in Nat
    BY DEF IngressInv, IngressTypeOK, TypeOK
<1>4. pending[<<s, kind>>] + Cardinality(Passed(s, kind))
        <= Limit(kind) + MaxInFlight - 1
    BY DEF IngressInv, Overshoot
<1> QED
    BY <1>2, <1>3, <1>4, LimitType, InFlightAssumption

\* A request that passes has seen the identity's rows below the limit, and all
\* that have passed are inside.
LEMMA SignalAdds ==
  ASSUME IngressInv, IngressTypeOK', InFlightExact', inFlight' <= MaxInFlight,
         NEW s \in Source, NEW kind \in Kind,
         NEW t \in Task, NEW s0 \in Source, NEW kind0 \in Kind,
         CountIdentity(t, s0, kind0)
  PROVE  pending'[<<s, kind>>] + Cardinality(Passed(s, kind)')
           <= Limit(kind) + MaxInFlight - 1
<1> DEFINE r == <<s, kind>>
<1>1. TypeOK /\ TypeOK'
    BY DEF IngressInv, IngressTypeOK
<1>2. /\ pending[r] \in Nat /\ pending'[r] \in Nat /\ pending'[r] = pending[r]
      /\ Passed(s, kind) \in SUBSET Task /\ Passed(s, kind)' \in SUBSET Task
    BY <1>1 DEF TypeOK, Passed, CountIdentity
<1>3. /\ pending[<<s, "designation">>] \in Nat
      /\ pending[<<s, "recurrence">>] \in Nat /\ limited[s] \in Nat
    BY <1>1 DEF TypeOK, Kind
<1>4. CASE <<s0, kind0>> = r /\ Recent(s0) < Limit(kind0)
  <2>1. pending[r] <= Recent(s) /\ Recent(s) \in Int
      BY <1>3 DEF Recent, Kind
  <2>2. Recent(s) < Limit(kind)
      BY <1>4
  <2>3. Passed(s, kind)' \in SUBSET Inside' /\ Inside' \in SUBSET Task
      BY DEF Passed, Inside, IngressTypeOK
  <2>4. /\ Cardinality(Passed(s, kind)') <= inFlight'
        /\ Cardinality(Passed(s, kind)') \in Nat /\ inFlight' \in Nat
      BY <2>3, FewerTasks DEF InFlightExact
  <2> QED
      BY <1>2, <2>1, <2>2, <2>4, LimitType, InFlightAssumption
<1>5. CASE ~(<<s0, kind0>> = r /\ Recent(s0) < Limit(kind0))
  <2>1. Recent(s0) \in Int /\ Limit(kind0) \in Int
    <3>1. /\ pending[<<s0, "designation">>] \in Nat
          /\ pending[<<s0, "recurrence">>] \in Nat /\ limited[s0] \in Nat
        BY <1>1 DEF TypeOK, Kind
    <3> QED
        BY <3>1, LimitType DEF Recent
  <2>2. Passed(s, kind)' \subseteq Passed(s, kind)
      BY <1>1, <1>5, <2>1 DEF CountIdentity, Passed, TypeOK
  <2> QED
      BY <1>2, <2>2, NothingAdded
<1> QED
    BY <1>4, <1>5

\* A request that records moves from one summand to the other.
LEMMA RecordMoves ==
  ASSUME IngressInv, TypeOK', NEW s \in Source, NEW kind \in Kind,
         NEW t \in Task, RecordPending(t)
  PROVE  pending'[<<s, kind>>] + Cardinality(Passed(s, kind)')
           <= Limit(kind) + MaxInFlight - 1
<1> DEFINE r == <<s, kind>>
<1>1. TypeOK
    BY DEF IngressInv, IngressTypeOK
<1>2. /\ pending[r] \in Nat /\ pending'[r] \in Nat /\ Passed(s, kind) \in SUBSET Task
    BY <1>1 DEF TypeOK, Passed
<1>3. CASE req[t] = r
  <2>1. pending'[r] = pending[r] + 1
      BY <1>1, <1>3 DEF RecordPending, TypeOK
  <2>2. t \in Passed(s, kind) /\ Passed(s, kind)' = Passed(s, kind) \ {t}
      BY <1>1, <1>3 DEF RecordPending, Finish, Passed, TypeOK, NoRequest
  <2>3. IsFiniteSet(Passed(s, kind)) /\ Cardinality(Passed(s, kind)) \in Nat
      BY <1>2, TaskSets
  <2>4. Cardinality(Passed(s, kind)') = Cardinality(Passed(s, kind)) - 1
      BY <2>2, <2>3, FS_RemoveElement
  <2>5. pending[r] + Cardinality(Passed(s, kind)) <= Limit(kind) + MaxInFlight - 1
      BY DEF IngressInv, Overshoot
  <2> QED
      BY <1>2, <2>1, <2>3, <2>4, <2>5
<1>4. CASE req[t] # r
  <2>1. pending'[r] = pending[r] /\ Passed(s, kind)' \subseteq Passed(s, kind)
      BY <1>1, <1>4 DEF RecordPending, Finish, Passed, TypeOK, NoRequest
  <2> QED
      BY <1>2, <2>1, NothingAdded
<1> QED
    BY <1>3, <1>4

\* Every step preserves the invariant.
LEMMA IngressStep == IngressInv /\ [Next]_allVars => IngressInv'
<1> SUFFICES ASSUME IngressInv, [Next]_allVars PROVE IngressInv'
    OBVIOUS
<1>1. IngressTypeOK /\ IngressTypeOK' /\ TypeOK /\ TypeOK'
    BY IngressTypes DEF IngressInv, IngressTypeOK
<1>2. InFlightExact' /\ inFlight' <= MaxInFlight /\ ClosedEmpty'
    BY CounterStep
<1>3. ASSUME NEW s \in Source, NEW kind \in Kind
      PROVE  pending'[<<s, kind>>] + Cardinality(Passed(s, kind)')
               <= Limit(kind) + MaxInFlight - 1
  <2> DEFINE Goal == pending'[<<s, kind>>] + Cardinality(Passed(s, kind)')
                       <= Limit(kind) + MaxInFlight - 1
  <2>1. pending'[<<s, kind>>] \in Nat /\ pending[<<s, kind>>] \in Nat
      BY <1>1 DEF TypeOK
  <2>2. ASSUME NEW t \in Task, NEW s0 \in Source, NEW kind0 \in Kind,
               Signal(t, s0, kind0)
        PROVE  Goal
      BY <1>1, <1>2, <2>2, SignalAdds DEF Signal
  <2>3. ASSUME NEW t \in Task, Handler(t) PROVE Goal
    <3>1. CASE RecordPending(t)
        BY <1>1, <3>1, RecordMoves
    <3>2. CASE CountGlobal(t) \/ RecordLimited(t)
      <4>1. pending' = pending /\ Passed(s, kind)' \subseteq Passed(s, kind)
          BY <1>1, <3>2
          DEF CountGlobal, RecordLimited, Finish, Passed, TypeOK, NoRequest
      <4> QED
          BY <2>1, <4>1, NothingAdded
    <3> QED
        BY <2>3, <3>1, <3>2 DEF Handler
  <2>4. ASSUME NEW t \in Task, Leave(t) PROVE Goal
    <3>1. pending' = pending /\ Passed(s, kind)' \subseteq Passed(s, kind)
        BY <1>1, <2>4 DEF Leave, Finish, Passed, TypeOK, NoRequest
    <3> QED
        BY <2>1, <3>1, NothingAdded
  <2>5. CASE Expiry
    <3>1. pending'[<<s, kind>>] <= pending[<<s, kind>>]
        BY <1>1, <2>1, <2>5 DEF Expiry, PendingExpires, LimitedExpires, TypeOK
    <3>2. Passed(s, kind)' = Passed(s, kind)
        BY <2>5 DEF Expiry, PendingExpires, LimitedExpires, Passed
    <3> QED
        BY <2>1, <3>1, <3>2, NothingAdded
  <2>6. CASE Crash
    <3>1. pending' = pending /\ Passed(s, kind)' \subseteq Passed(s, kind)
        BY <2>6 DEF Crash, Passed
    <3> QED
        BY <2>1, <3>1, NothingAdded
  <2>7. CASE UNCHANGED vars
    <3>1. pending' = pending /\ Passed(s, kind)' = Passed(s, kind)
        BY <2>7 DEF vars, Passed
    <3> QED
        BY <2>1, <3>1, NothingAdded
  <2>8. ASSUME NEW t \in Task, Acquire(t) PROVE Goal
      BY <2>7, <2>8 DEF Acquire
  <2>9. CASE Shutdown \/ Deadline \/ Close \/ Startup \/ UNCHANGED allVars
      BY <2>7, <2>9 DEF Shutdown, Deadline, Close, Startup, allVars
  <2> QED
      BY <2>2, <2>3, <2>4, <2>5, <2>6, <2>8, <2>9 DEF Next
<1> QED
    BY <1>1, <1>2, <1>3 DEF IngressInv, Overshoot

\* The inductive invariant holds throughout.
THEOREM IngressInvariant == Spec => []IngressInv
<1>1. IngressInit => IngressInv
    BY IngressInitially
<1>2. IngressInv /\ [Next]_allVars => IngressInv'
    BY IngressStep
<1> QED
    BY <1>1, <1>2, PTL DEF Spec

\* The counter of requests in flight is exact, for any number of clients.
THEOREM CounterExact == Spec => []InFlightExact
<1>1. IngressInv => InFlightExact
    BY DEF IngressInv
<1> QED
    BY <1>1, IngressInvariant, PTL

\* A drain that ends before its deadline closes the backend behind the last
\* request, for any number of clients.
THEOREM DrainedBeforeClose == Spec => []ClosedEmpty
<1>1. IngressInv => ClosedEmpty
    BY DEF IngressInv
<1> QED
    BY <1>1, IngressInvariant, PTL

\* An identity's accepted signals within a horizon exceed its limit by less
\* than MAX_IN_FLIGHT_REQUESTS, for any number of clients, although the
\* handlers count and record in separate calls.
THEOREM RateLimitHolds == Spec => []RateBounded
<1>1. IngressInv => RateBounded
  <2> SUFFICES ASSUME IngressInv, NEW s \in Source, NEW kind \in Kind
               PROVE  pending[<<s, kind>>] <= Limit(kind) + MaxInFlight - 1
      BY DEF RateBounded
  <2>1. Cardinality(Passed(s, kind)) \in Nat
      BY TaskSets DEF Passed
  <2>2. pending[<<s, kind>>] \in Nat
      BY DEF IngressInv, IngressTypeOK, TypeOK
  <2> QED
      BY <2>1, <2>2, LimitType, InFlightAssumption DEF IngressInv, Overshoot
<1> QED
    BY <1>1, IngressInvariant, PTL

\* Every reachable state is well typed.
THEOREM IngressTyped == Spec => []IngressTypeOK
<1>1. IngressInv => IngressTypeOK
    BY DEF IngressInv
<1> QED
    BY <1>1, IngressInvariant, PTL

-----------------------------------------------------------------------------
(* Sums over the identities.                                               *)

\* The member that a fold takes out of a set next.
First(S) == CHOOSE x \in S : TRUE

\* sum gives the sum of f over every set of identities with at most k members.
SumsUpTo(sum, f, k) ==
  \A S \in SUBSET Source : Cardinality(S) <= k =>
    sum[S] = IF S = {} THEN 0 ELSE f[First(S)] + sum[S \ {First(S)}]

\* sum gives the sum of f over every set of identities.
SumsUp(sum, f) ==
  \A S \in SUBSET Source :
    sum[S] = IF S = {} THEN 0 ELSE f[First(S)] + sum[S \ {First(S)}]

\* A fold takes members out one by one.
LEMMA FirstTaken ==
  ASSUME NEW S \in SUBSET Source
  PROVE  /\ Cardinality(S) \in Nat
         /\ S # {} => /\ First(S) \in S /\ First(S) \in Source
                      /\ S \ {First(S)} \in SUBSET Source
                      /\ Cardinality(S \ {First(S)}) = Cardinality(S) - 1
                      /\ Cardinality(S) # 0
<1>1. IsFiniteSet(S)
    BY LimitAssumption, FS_Subset
<1>2. Cardinality(S) \in Nat
    BY <1>1, FS_CardinalityType
<1>3. ASSUME S # {} PROVE First(S) \in S
    BY <1>3 DEF First
<1>4. ASSUME S # {}
      PROVE  /\ Cardinality(S \ {First(S)}) = Cardinality(S) - 1
             /\ Cardinality(S) # 0
    BY <1>1, <1>3, <1>4, FS_RemoveElement, FS_EmptySet
<1> QED
    BY <1>2, <1>3, <1>4

\* A count of nothing is a count of nobody.
LEMMA NobodyLeft ==
  ASSUME NEW S \in SUBSET Source, Cardinality(S) <= 0
  PROVE  S = {}
<1>1. Cardinality(S) \in Nat /\ Cardinality(S) = 0
  <2>1. Cardinality(S) \in Nat
      BY FirstTaken
  <2> QED
      BY <2>1
<1> SUFFICES ASSUME S # {} PROVE FALSE
    OBVIOUS
<1> QED
    BY <1>1, FirstTaken

\* What holds of no identities, and of a set when it holds of the rest that a
\* fold leaves, holds of every set of identities.
LEMMA FoldInduction ==
  ASSUME NEW P \in SUBSET SUBSET Source, {} \in P,
         \A S \in SUBSET Source : S # {} /\ S \ {First(S)} \in P => S \in P
  PROVE  P = SUBSET Source
<1> DEFINE Q == {k \in Nat : \A S \in SUBSET Source : Cardinality(S) <= k => S \in P}
<1>1. 0 \in Q
  <2>1. ASSUME NEW S \in SUBSET Source, Cardinality(S) <= 0
        PROVE  S \in P
      BY <2>1, NobodyLeft
  <2> QED
      BY <2>1
<1>2. ASSUME NEW k \in Q PROVE k + 1 \in Q
  <2>1. ASSUME NEW S \in SUBSET Source, Cardinality(S) <= k + 1
        PROVE  S \in P
    <3>1. CASE S # {}
      <4>1. S \ {First(S)} \in SUBSET Source /\ Cardinality(S \ {First(S)}) <= k
          BY <2>1, <3>1, FirstTaken
      <4> QED
          BY <3>1, <4>1
    <3> QED
        BY <3>1
  <2> QED
      BY <2>1
<1>3. Q = Nat
  <2>1. Q \in SUBSET Nat
      OBVIOUS
  <2> HIDE DEF Q
  <2> QED
      BY <1>1, <1>2, <2>1, AllNaturals
<1>4. ASSUME NEW S \in SUBSET Source PROVE S \in P
  <2>1. Cardinality(S) \in Nat
      BY FirstTaken
  <2>2. Cardinality(S) \in Q /\ Cardinality(S) <= Cardinality(S)
      BY <1>3, <2>1
  <2> QED
      BY <2>2
<1> QED
    BY <1>4

\* Every f has sums.
LEMMA SumsExist ==
  ASSUME NEW f
  PROVE  \E sum : SumsUp(sum, f)
<1> DEFINE P == {k \in Nat : \E sum : SumsUpTo(sum, f, k)}
<1>1. 0 \in P
  <2> DEFINE sum == [S \in SUBSET Source |-> 0]
  <2>1. ASSUME NEW S \in SUBSET Source, Cardinality(S) <= 0
        PROVE  S = {} /\ sum[S] = 0
      BY <2>1, NobodyLeft
  <2>2. SumsUpTo(sum, f, 0)
      BY <2>1 DEF SumsUpTo
  <2> QED
      BY <2>2
<1>2. ASSUME NEW k \in P PROVE k + 1 \in P
  <2>1. PICK v : SumsUpTo(v, f, k)
      OBVIOUS
  <2> DEFINE sum == [S \in SUBSET Source |->
               IF Cardinality(S) <= k THEN v[S]
               ELSE f[First(S)] + v[S \ {First(S)}]]
  <2>2. ASSUME NEW S \in SUBSET Source, Cardinality(S) <= k + 1
        PROVE  sum[S] = IF S = {} THEN 0 ELSE f[First(S)] + sum[S \ {First(S)}]
    <3>1. CASE S = {}
        BY <2>1, <3>1, FS_EmptySet DEF SumsUpTo
    <3>2. CASE S # {}
      <4>1. /\ S \ {First(S)} \in SUBSET Source
            /\ Cardinality(S \ {First(S)}) <= k
          BY <2>2, <3>2, FirstTaken
      <4>2. sum[S \ {First(S)}] = v[S \ {First(S)}]
          BY <4>1
      <4>3. sum[S] = f[First(S)] + v[S \ {First(S)}]
          BY <2>1, <3>2, <4>1 DEF SumsUpTo
      <4> QED
          BY <3>2, <4>2, <4>3
    <3> QED
        BY <3>1, <3>2
  <2>3. SumsUpTo(sum, f, k + 1)
    <3> HIDE DEF sum
    <3> QED
      BY <2>2 DEF SumsUpTo
  <2> QED
      BY <2>3
<1>3. P = Nat
  <2>1. P \in SUBSET Nat
      OBVIOUS
  <2> HIDE DEF P
  <2> QED
      BY <1>1, <1>2, <2>1, AllNaturals
<1>4. Cardinality(Source) \in Nat
    BY FirstTaken
<1>5. PICK sum : SumsUpTo(sum, f, Cardinality(Source))
    BY <1>3, <1>4
<1>6. ASSUME NEW S \in SUBSET Source
      PROVE  Cardinality(S) <= Cardinality(Source)
    BY LimitAssumption, FS_Subset
<1>7. SumsUp(sum, f)
    BY <1>5, <1>6 DEF SumsUpTo, SumsUp
<1> QED
    BY <1>7

\* Sums of naturals are naturals and grow with what is summed.
LEMMA SumsGrow ==
  ASSUME NEW f \in [Source -> Nat], NEW g \in [Source -> Nat],
         \A s \in Source : f[s] <= g[s],
         NEW v, SumsUp(v, f), NEW w, SumsUp(w, g)
  PROVE  v[Source] \in Nat /\ w[Source] \in Nat /\ v[Source] <= w[Source]
<1> DEFINE P == {S \in SUBSET Source :
                   v[S] \in Nat /\ w[S] \in Nat /\ v[S] <= w[S]}
<1>1. {} \in P
  <2>1. v[{}] = 0 /\ w[{}] = 0
      BY DEF SumsUp
  <2> QED
      BY <2>1
<1>2. ASSUME NEW S \in SUBSET Source, S # {}, S \ {First(S)} \in P
      PROVE  S \in P
  <2>1. First(S) \in Source
      BY <1>2, FirstTaken
  <2>2. /\ v[S] = f[First(S)] + v[S \ {First(S)}]
        /\ w[S] = g[First(S)] + w[S \ {First(S)}]
      BY <1>2 DEF SumsUp
  <2>3. /\ f[First(S)] \in Nat /\ g[First(S)] \in Nat
        /\ f[First(S)] <= g[First(S)]
      BY <2>1
  <2> QED
      BY <1>2, <2>2, <2>3
<1>3. P = SUBSET Source
  <2>1. P \in SUBSET SUBSET Source
      OBVIOUS
  <2> HIDE DEF P
  <2> QED
      BY <1>1, <1>2, <2>1, FoldInduction
<1> QED
    BY <1>3

\* One more row of one identity is one more row in all.
LEMMA SumsCount ==
  ASSUME NEW f \in [Source -> Nat], NEW g \in [Source -> Nat],
         NEW a \in Source, g = [f EXCEPT ![a] = @ + 1],
         NEW v, SumsUp(v, f), NEW w, SumsUp(w, g)
  PROVE  w[Source] = v[Source] + 1
<1> DEFINE P == {S \in SUBSET Source :
                   /\ v[S] \in Nat
                   /\ w[S] = v[S] + (IF a \in S THEN 1 ELSE 0)}
<1>1. {} \in P
  <2>1. v[{}] = 0 /\ w[{}] = 0
      BY DEF SumsUp
  <2> QED
      BY <2>1
<1>2. ASSUME NEW S \in SUBSET Source, S # {}, S \ {First(S)} \in P
      PROVE  S \in P
  <2>1. First(S) \in Source /\ First(S) \in S
      BY <1>2, FirstTaken
  <2>2. /\ v[S] = f[First(S)] + v[S \ {First(S)}]
        /\ w[S] = g[First(S)] + w[S \ {First(S)}]
      BY <1>2 DEF SumsUp
  <2>3. f[First(S)] \in Nat /\ v[S \ {First(S)}] \in Nat
      BY <1>2, <2>1
  <2>4. CASE First(S) = a
    <3>1. g[First(S)] = f[First(S)] + 1 /\ w[S \ {First(S)}] = v[S \ {First(S)}]
        BY <1>2, <2>1, <2>3, <2>4
    <3> QED
        BY <2>1, <2>2, <2>3, <2>4, <3>1
  <2>5. CASE First(S) # a
    <3>1. g[First(S)] = f[First(S)]
        BY <2>1, <2>5
    <3>2. a \in S <=> a \in S \ {First(S)}
        BY <2>5
    <3>3. w[S \ {First(S)}]
            = v[S \ {First(S)}] + (IF a \in S \ {First(S)} THEN 1 ELSE 0)
        BY <1>2
    <3> QED
        BY <2>2, <2>3, <3>1, <3>2, <3>3
  <2> QED
      BY <2>4, <2>5
<1>3. P = SUBSET Source
  <2>1. P \in SUBSET SUBSET Source
      OBVIOUS
  <2> HIDE DEF P
  <2> QED
      BY <1>1, <1>2, <2>1, FoldInduction
<1> QED
    BY <1>3

\* What GlobalBounded sums, by identity and in all; p stands for pending.
RowsOf(p) == [s \in Source |-> p[<<s, "recurrence">>]]
TotalOf(p) == MapThenSumSet(LAMBDA s : p[<<s, "recurrence">>], Source)

\* The fold of the accepted recurrence signals is a sum.
LEMMA TotalAdds ==
  ASSUME NEW p
  PROVE  \E sum : SumsUp(sum, RowsOf(p)) /\ TotalOf(p) = sum[Source]
<1> DEFINE Turn(w) ==
             [S \in SUBSET Source |->
                IF S = {} THEN 0
                ELSE p[<<First(S), "recurrence">>] + w[S \ {First(S)}]]
           sum == CHOOSE w : w = Turn(w)
<1>1. TotalOf(p) = sum[Source]
    BY DEF TotalOf, MapThenSumSet, MapThenFoldSet, First
<1>2. PICK v : SumsUp(v, RowsOf(p))
    BY SumsExist
<1>3. ASSUME NEW S \in SUBSET Source, S # {}
      PROVE  /\ RowsOf(p)[First(S)] = p[<<First(S), "recurrence">>]
             /\ S \ {First(S)} \in SUBSET Source
    BY <1>3, FirstTaken DEF RowsOf
<1>4. \E w : w = Turn(w)
  <2> DEFINE w == [S \in SUBSET Source |-> v[S]]
  <2>1. ASSUME NEW S \in SUBSET Source
        PROVE  w[S] = Turn(w)[S]
      BY <1>2, <1>3 DEF SumsUp
  <2>2. w = Turn(w)
      BY <2>1
  <2> QED
      BY <2>2
<1>5. sum = Turn(sum)
    BY <1>4
<1>6. ASSUME NEW w, NEW S \in SUBSET Source
      PROVE  Turn(w)[S] = IF S = {} THEN 0
                          ELSE RowsOf(p)[First(S)] + w[S \ {First(S)}]
    BY <1>3
<1> HIDE DEF sum, Turn
<1>7. SumsUp(sum, RowsOf(p))
    BY <1>5, <1>6 DEF SumsUp
<1> QED
    BY <1>1, <1>7

\* So is the fold of all the rows that CountGlobal looks at.
LEMMA RecentAdds ==
  \E sum : /\ SumsUp(sum, [s \in Source |-> Recent(s)])
           /\ RecentGlobal = sum[Source]
<1> DEFINE f == [s \in Source |-> Recent(s)]
           Turn(w) ==
             [S \in SUBSET Source |->
                IF S = {} THEN 0
                ELSE Recent(First(S)) + w[S \ {First(S)}]]
           sum == CHOOSE w : w = Turn(w)
<1>1. RecentGlobal = sum[Source]
    BY DEF RecentGlobal, MapThenSumSet, MapThenFoldSet, First
<1>2. PICK v : SumsUp(v, f)
    BY SumsExist
<1>3. ASSUME NEW S \in SUBSET Source, S # {}
      PROVE  /\ f[First(S)] = Recent(First(S))
             /\ S \ {First(S)} \in SUBSET Source
    BY <1>3, FirstTaken
<1>4. \E w : w = Turn(w)
  <2> DEFINE w == [S \in SUBSET Source |-> v[S]]
  <2>1. ASSUME NEW S \in SUBSET Source
        PROVE  w[S] = Turn(w)[S]
      BY <1>2, <1>3 DEF SumsUp
  <2>2. w = Turn(w)
      BY <2>1
  <2> QED
      BY <2>2
<1>5. sum = Turn(sum)
    BY <1>4
<1>6. ASSUME NEW w, NEW S \in SUBSET Source
      PROVE  Turn(w)[S] = IF S = {} THEN 0
                          ELSE f[First(S)] + w[S \ {First(S)}]
    BY <1>3
<1> HIDE DEF sum, Turn, f
<1>7. SumsUp(sum, f)
    BY <1>5, <1>6 DEF SumsUp
<1> QED
    BY <1>1, <1>7 DEF f

\* Totals are numbers, and follow the rows of every identity.
LEMMA TotalGrows ==
  ASSUME NEW p \in [Source \X Kind -> Nat], NEW q \in [Source \X Kind -> Nat],
         \A s \in Source : p[<<s, "recurrence">>] <= q[<<s, "recurrence">>]
  PROVE  TotalOf(p) \in Nat /\ TotalOf(q) \in Nat /\ TotalOf(p) <= TotalOf(q)
<1>1. PICK v : SumsUp(v, RowsOf(p)) /\ TotalOf(p) = v[Source]
    BY TotalAdds
<1>2. PICK w : SumsUp(w, RowsOf(q)) /\ TotalOf(q) = w[Source]
    BY TotalAdds
<1>3. /\ RowsOf(p) \in [Source -> Nat] /\ RowsOf(q) \in [Source -> Nat]
      /\ \A s \in Source : RowsOf(p)[s] <= RowsOf(q)[s]
    BY DEF RowsOf, Kind
<1> QED
    BY <1>1, <1>2, <1>3, SumsGrow

\* A new row counts once.
LEMMA TotalCounts ==
  ASSUME NEW p \in [Source \X Kind -> Nat], NEW a \in Source,
         NEW q, q = [p EXCEPT ![<<a, "recurrence">>] = @ + 1]
  PROVE  TotalOf(q) = TotalOf(p) + 1
<1>1. PICK v : SumsUp(v, RowsOf(p)) /\ TotalOf(p) = v[Source]
    BY TotalAdds
<1>2. PICK w : SumsUp(w, RowsOf(q)) /\ TotalOf(q) = w[Source]
    BY TotalAdds
<1>3. /\ q \in [Source \X Kind -> Nat]
      /\ \A s \in Source : q[<<s, "recurrence">>] =
           IF s = a THEN p[<<a, "recurrence">>] + 1 ELSE p[<<s, "recurrence">>]
    BY DEF Kind
<1>4. RowsOf(p) \in [Source -> Nat] /\ RowsOf(q) \in [Source -> Nat]
    BY <1>3 DEF RowsOf, Kind
<1>5. RowsOf(q) = [RowsOf(p) EXCEPT ![a] = @ + 1]
    BY <1>3, <1>4 DEF RowsOf
<1>6. w[Source] = v[Source] + 1
    BY <1>1, <1>2, <1>4, <1>5, SumsCount
<1> QED
    BY <1>1, <1>2, <1>6

\* Accepted recurrence signals are among the rows that CountGlobal looks at.
LEMMA TotalBelowRecent ==
  ASSUME TypeOK
  PROVE  RecentGlobal \in Nat /\ TotalOf(pending) <= RecentGlobal
<1> DEFINE f == [s \in Source |-> Recent(s)]
<1>1. PICK v : SumsUp(v, RowsOf(pending)) /\ TotalOf(pending) = v[Source]
    BY TotalAdds
<1>2. PICK w : SumsUp(w, f) /\ RecentGlobal = w[Source]
    BY RecentAdds
<1>3. ASSUME NEW s \in Source
      PROVE  /\ RowsOf(pending)[s] \in Nat /\ Recent(s) \in Nat
             /\ RowsOf(pending)[s] <= Recent(s)
  <2>1. /\ pending[<<s, "designation">>] \in Nat
        /\ pending[<<s, "recurrence">>] \in Nat /\ limited[s] \in Nat
      BY DEF TypeOK, Kind
  <2> QED
      BY <2>1 DEF RowsOf, Recent
<1>4. /\ RowsOf(pending) \in [Source -> Nat] /\ f \in [Source -> Nat]
      /\ \A s \in Source : RowsOf(pending)[s] <= f[s]
    BY <1>3 DEF RowsOf
<1> HIDE DEF f
<1> QED
    BY <1>1, <1>2, <1>4, SumsGrow

-----------------------------------------------------------------------------
(* The global limit.                                                       *)

\* The recurrence signals that have passed the global count and are not on
\* record yet.
PassedGlobal ==
  {t \in Task : at[t] = "record" /\ \E s \in Source : req[t] = <<s, "recurrence">>}

\* As Overshoot, for the recurrence signals of all identities.
GlobalOvershoot ==
  TotalOf(pending) + Cardinality(PassedGlobal) <= GlobalLimit + MaxInFlight - 1

\* A step that adds neither a recurrence row nor a passed signal keeps the sum.
LEMMA NothingAddedGlobally ==
  ASSUME TypeOK, TypeOK', GlobalOvershoot, PassedGlobal' \subseteq PassedGlobal,
         \A s \in Source :
           pending'[<<s, "recurrence">>] <= pending[<<s, "recurrence">>]
  PROVE  GlobalOvershoot'
<1>1. /\ pending \in [Source \X Kind -> Nat]
      /\ pending' \in [Source \X Kind -> Nat]
    BY DEF TypeOK
<1>2. /\ TotalOf(pending') \in Nat /\ TotalOf(pending) \in Nat
      /\ TotalOf(pending') <= TotalOf(pending)
    BY <1>1, TotalGrows
<1>3. PassedGlobal \in SUBSET Task /\ PassedGlobal' \in SUBSET PassedGlobal
    BY DEF PassedGlobal
<1>4. /\ Cardinality(PassedGlobal') \in Nat /\ Cardinality(PassedGlobal) \in Nat
      /\ Cardinality(PassedGlobal') <= Cardinality(PassedGlobal)
    BY <1>3, FewerTasks
<1>5. /\ TotalOf(pending') + Cardinality(PassedGlobal')
           <= TotalOf(pending) + Cardinality(PassedGlobal)
      /\ GlobalLimit + MaxInFlight - 1 \in Int
    BY <1>2, <1>4, LimitAssumption, InFlightAssumption
<1> QED
    BY <1>2, <1>4, <1>5 DEF GlobalOvershoot

\* A signal that passes has seen fewer rows than the global limit, and all that
\* have passed are inside.
LEMMA GlobalAdds ==
  ASSUME IngressInv, IngressTypeOK', InFlightExact', inFlight' <= MaxInFlight,
         GlobalOvershoot, NEW t \in Task, CountGlobal(t)
  PROVE  GlobalOvershoot'
<1>1. TypeOK /\ TypeOK'
    BY DEF IngressInv, IngressTypeOK
<1>2. pending' = pending /\ req' = req
    BY DEF CountGlobal
<1>3. /\ RecentGlobal \in Nat /\ TotalOf(pending) \in Nat
      /\ TotalOf(pending) <= RecentGlobal
  <2>1. pending \in [Source \X Kind -> Nat]
      BY <1>1 DEF TypeOK
  <2>2. \A s \in Source :
          pending[<<s, "recurrence">>] <= pending[<<s, "recurrence">>]
      BY <2>1 DEF Kind
  <2>3. TotalOf(pending) \in Nat
      BY <2>1, <2>2, TotalGrows
  <2> QED
      BY <1>1, <2>3, TotalBelowRecent
<1>4. CASE RecentGlobal < GlobalLimit
  <2>1. PassedGlobal' \in SUBSET Inside' /\ Inside' \in SUBSET Task
      BY DEF PassedGlobal, Inside, IngressTypeOK
  <2>2. /\ Cardinality(PassedGlobal') <= inFlight'
        /\ Cardinality(PassedGlobal') \in Nat /\ inFlight' \in Nat
      BY <2>1, FewerTasks DEF InFlightExact
  <2> QED
      BY <1>2, <1>3, <1>4, <2>2, LimitAssumption, InFlightAssumption
      DEF GlobalOvershoot
<1>5. CASE ~(RecentGlobal < GlobalLimit)
  <2>0. RecentGlobal >= GlobalLimit
      BY <1>3, <1>5, LimitAssumption
  <2>1. at' = [at EXCEPT ![t] = "refuse"]
      BY <2>0 DEF CountGlobal
  <2>2. ASSUME NEW u \in PassedGlobal' PROVE u \in PassedGlobal
      BY <1>1, <1>2, <2>1, <2>2 DEF PassedGlobal, TypeOK
  <2>3. \A s \in Source :
          pending'[<<s, "recurrence">>] <= pending[<<s, "recurrence">>]
      BY <1>1, <1>2 DEF TypeOK, Kind
  <2> QED
      BY <1>1, <2>2, <2>3, NothingAddedGlobally
<1> QED
    BY <1>4, <1>5

\* A recurrence signal that records moves from one summand to the other.
LEMMA GlobalMoves ==
  ASSUME TypeOK, TypeOK', GlobalOvershoot, NEW t \in Task, RecordPending(t)
  PROVE  GlobalOvershoot'
<1>1. pending \in [Source \X Kind -> Nat] /\ pending' \in [Source \X Kind -> Nat]
    BY DEF TypeOK
<1>2. CASE \E s \in Source : req[t] = <<s, "recurrence">>
  <2>1. PICK a \in Source : req[t] = <<a, "recurrence">>
      BY <1>2
  <2>2. pending' = [pending EXCEPT ![<<a, "recurrence">>] = @ + 1]
      BY <2>1 DEF RecordPending
  <2>3. TotalOf(pending') = TotalOf(pending) + 1
      BY <1>1, <2>2, TotalCounts
  <2>4. t \in PassedGlobal /\ PassedGlobal' = PassedGlobal \ {t}
      BY <1>2 DEF RecordPending, Finish, PassedGlobal, TypeOK, NoRequest
  <2>5. IsFiniteSet(PassedGlobal) /\ Cardinality(PassedGlobal) \in Nat
      BY TaskSets DEF PassedGlobal
  <2>6. Cardinality(PassedGlobal') = Cardinality(PassedGlobal) - 1
      BY <2>4, <2>5, FS_RemoveElement
  <2>7. TotalOf(pending) \in Nat
    <3>1. \A s \in Source :
            pending[<<s, "recurrence">>] <= pending[<<s, "recurrence">>]
        BY <1>1 DEF Kind
    <3> QED
        BY <1>1, <3>1, TotalGrows
  <2> QED
      BY <2>3, <2>5, <2>6, <2>7, LimitAssumption, InFlightAssumption
      DEF GlobalOvershoot
<1>3. CASE ~\E s \in Source : req[t] = <<s, "recurrence">>
  <2>1. PassedGlobal' \subseteq PassedGlobal
      BY <1>3 DEF RecordPending, Finish, PassedGlobal, TypeOK, NoRequest
  <2>2. \A s \in Source :
          pending'[<<s, "recurrence">>] <= pending[<<s, "recurrence">>]
      BY <1>1, <1>3 DEF RecordPending, Kind
  <2> QED
      BY <2>1, <2>2, NothingAddedGlobally
<1> QED
    BY <1>2, <1>3

\* Every step keeps the recurrence signals of all identities within the bound.
LEMMA GlobalStep ==
  IngressInv /\ GlobalOvershoot /\ [Next]_allVars => GlobalOvershoot'
<1> SUFFICES ASSUME IngressInv, GlobalOvershoot, [Next]_allVars
             PROVE  GlobalOvershoot'
    OBVIOUS
<1>1. IngressTypeOK /\ IngressTypeOK' /\ TypeOK /\ TypeOK'
    BY IngressTypes DEF IngressInv, IngressTypeOK
<1>2. InFlightExact' /\ inFlight' <= MaxInFlight
    BY CounterStep
<1>3. \A s \in Source : /\ pending[<<s, "recurrence">>] \in Nat
                         /\ pending'[<<s, "recurrence">>] \in Nat
    BY <1>1 DEF TypeOK, Kind
<1>4. ASSUME pending' = pending, PassedGlobal' \subseteq PassedGlobal
      PROVE  GlobalOvershoot'
  <2>1. ASSUME NEW s \in Source
        PROVE  pending'[<<s, "recurrence">>] <= pending[<<s, "recurrence">>]
    <3>1. pending[<<s, "recurrence">>] \in Nat
        BY <1>3
    <3> QED
        BY <1>4, <3>1
  <2> QED
      BY <1>1, <1>4, <2>1, NothingAddedGlobally
<1>5. ASSUME NEW t \in Task, NEW s \in Source, NEW kind \in Kind, Signal(t, s, kind)
      PROVE  GlobalOvershoot'
  <2>1. pending' = pending /\ PassedGlobal' \subseteq PassedGlobal
      BY <1>1, <1>5 DEF Signal, CountIdentity, PassedGlobal, TypeOK
  <2> QED
      BY <1>4, <2>1
<1>6. ASSUME NEW t \in Task, Handler(t) PROVE GlobalOvershoot'
  <2>1. CASE CountGlobal(t)
      BY <1>1, <1>2, <2>1, GlobalAdds
  <2>2. CASE RecordPending(t)
      BY <1>1, <2>2, GlobalMoves
  <2>3. CASE RecordLimited(t)
    <3>1. pending' = pending /\ PassedGlobal' \subseteq PassedGlobal
        BY <1>1, <2>3 DEF RecordLimited, Finish, PassedGlobal, TypeOK, NoRequest
    <3> QED
        BY <1>4, <3>1
  <2> QED
      BY <1>6, <2>1, <2>2, <2>3 DEF Handler
<1>7. ASSUME NEW t \in Task, Leave(t) PROVE GlobalOvershoot'
  <2>1. pending' = pending /\ PassedGlobal' \subseteq PassedGlobal
      BY <1>1, <1>7 DEF Leave, Finish, PassedGlobal, TypeOK, NoRequest
  <2> QED
      BY <1>4, <2>1
<1>8. CASE Expiry
  <2>1. PassedGlobal' \subseteq PassedGlobal
      BY <1>8 DEF Expiry, PendingExpires, LimitedExpires, PassedGlobal
  <2>2. ASSUME NEW s \in Source
        PROVE  pending'[<<s, "recurrence">>] <= pending[<<s, "recurrence">>]
    <3>1. CASE \E r \in Source \X Kind : PendingExpires(r)
      <4>1. PICK r \in Source \X Kind : PendingExpires(r)
          BY <3>1
      <4>2. /\ pending'[<<s, "recurrence">>] \in
                 {pending[<<s, "recurrence">>], pending[r] - 1}
            /\ <<s, "recurrence">> = r
                 \/ pending'[<<s, "recurrence">>] = pending[<<s, "recurrence">>]
          BY <1>1, <4>1 DEF PendingExpires, TypeOK, Kind
      <4> QED
          BY <1>3, <4>2
    <3>2. CASE \E u \in Source : LimitedExpires(u)
        BY <1>3, <3>2 DEF LimitedExpires
    <3> QED
        BY <1>8, <3>1, <3>2 DEF Expiry
  <2> QED
      BY <1>1, <2>1, <2>2, NothingAddedGlobally
<1>9. CASE Crash
  <2>1. pending' = pending /\ PassedGlobal' \subseteq PassedGlobal
      BY <1>9 DEF Crash, PassedGlobal
  <2> QED
      BY <1>4, <2>1
<1>10. CASE UNCHANGED vars
  <2>1. pending' = pending /\ PassedGlobal' \subseteq PassedGlobal
      BY <1>10 DEF vars, PassedGlobal
  <2> QED
      BY <1>4, <2>1
<1> QED
    BY <1>5, <1>6, <1>7, <1>8, <1>9, <1>10
    DEF Next, Acquire, Shutdown, Deadline, Close, Startup, allVars

\* No row is on record at the start.
LEMMA GlobalInit == IngressInit => GlobalOvershoot
<1> SUFFICES ASSUME IngressInit PROVE GlobalOvershoot
    OBVIOUS
<1>1. PICK sum : SumsUp(sum, RowsOf(pending)) /\ TotalOf(pending) = sum[Source]
    BY TotalAdds
<1> DEFINE P == {S \in SUBSET Source : sum[S] = 0}
<1>2. ASSUME NEW s \in Source PROVE RowsOf(pending)[s] = 0
    BY DEF RowsOf, IngressInit, Init, Kind
<1>3. {} \in P
    BY <1>1 DEF SumsUp
<1>4. ASSUME NEW S \in SUBSET Source, S # {}, S \ {First(S)} \in P
      PROVE  S \in P
  <2>1. RowsOf(pending)[First(S)] = 0
      BY <1>2, <1>4, FirstTaken
  <2>2. sum[S] = RowsOf(pending)[First(S)] + sum[S \ {First(S)}]
      BY <1>1, <1>4 DEF SumsUp
  <2> QED
      BY <1>4, <2>1, <2>2
<1>5. P = SUBSET Source
  <2>1. P \in SUBSET SUBSET Source
      OBVIOUS
  <2> HIDE DEF P
  <2> QED
      BY <1>3, <1>4, <2>1, FoldInduction
<1>6. TotalOf(pending) = 0
    BY <1>1, <1>5
<1>7. PassedGlobal = {}
    BY DEF PassedGlobal, IngressInit, Init
<1>8. Cardinality(PassedGlobal) = 0
    BY <1>7, FS_EmptySet
<1> QED
    BY <1>6, <1>8, LimitAssumption, InFlightAssumption DEF GlobalOvershoot

\* Recurrence signals accepted from all identities together exceed the global
\* limit by less than MAX_IN_FLIGHT_REQUESTS, for any number of identities and
\* clients.
THEOREM GlobalLimitHolds == Spec => []GlobalBounded
<1>1. IngressInit => GlobalOvershoot
    BY GlobalInit
<1>2. IngressInv /\ GlobalOvershoot /\ [Next]_allVars => GlobalOvershoot'
    BY GlobalStep
<1>3. IngressInv /\ GlobalOvershoot => GlobalBounded
  <2> SUFFICES ASSUME IngressInv, GlobalOvershoot
               PROVE  TotalOf(pending) <= GlobalLimit + MaxInFlight - 1
      BY Zenon DEF GlobalBounded, TotalOf
  <2>1. Cardinality(PassedGlobal) \in Nat
      BY TaskSets DEF PassedGlobal
  <2>2. pending \in [Source \X Kind -> Nat]
      BY DEF IngressInv, IngressTypeOK, TypeOK
  <2>3. \A s \in Source :
          pending[<<s, "recurrence">>] <= pending[<<s, "recurrence">>]
      BY <2>2 DEF Kind
  <2>4. TotalOf(pending) \in Nat
      BY <2>2, <2>3, TotalGrows
  <2> QED
      BY <2>1, <2>4, LimitAssumption, InFlightAssumption DEF GlobalOvershoot
<1> QED
    BY <1>1, <1>2, <1>3, IngressInvariant, PTL DEF Spec
=============================================================================
