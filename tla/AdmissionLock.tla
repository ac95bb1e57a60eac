--------------------------- MODULE AdmissionLock ---------------------------
(***************************************************************************)
(* _AdmissionLock (governor_service.py): the asyncio read-write lock that   *)
(* every admission takes in shared mode and every designation in exclusive *)
(* mode.  Each "async with mutex" body contains no await, so it is one     *)
(* atomic action here; the tasks interleave between two such bodies, where *)
(* the code awaits sleep(0) or runs the caller's critical section.         *)
(***************************************************************************)
EXTENDS Integers, FiniteSets

CONSTANTS
  Task,       \* requests that use the lock
  Designator, \* the tasks that call exclusive(); the others call shared()
  Nesting     \* the designators that may call shared() inside exclusive(), as
              \* /designate does when it has a replacement to commit

ASSUME TaskAssumption ==
  /\ IsFiniteSet(Task)
  /\ Designator \subseteq Task
  /\ Nesting \subseteq Designator

VARIABLES
  readers,         \* _readers
  writer,          \* _writer
  writeRequested,  \* _write_requested
  sh,              \* where each task is in shared()
  ex               \* where each task is in exclusive()

vars == <<readers, writer, writeRequested, sh, ex>>

\* "out": no call; "wait": polling in the loop; "in": in the caller's body.
Place == {"out", "wait", "in"}

TypeOK ==
  /\ readers \in Nat
  /\ writer \in BOOLEAN
  /\ writeRequested \in BOOLEAN
  /\ sh \in [Task -> Place]
  /\ ex \in [Task -> Place]

Init ==
  /\ readers = 0
  /\ writer = FALSE
  /\ writeRequested = FALSE
  /\ sh = [t \in Task |-> "out"]
  /\ ex = [t \in Task |-> "out"]

-----------------------------------------------------------------------------
(* Slips of the lock code, used to show that the properties below can fail. *)

\* shared() does not look at _write_requested.
AcquireSharedIgnoringRequest(t) ==
  /\ sh[t] = "wait"
  /\ ~writer
  /\ readers' = readers + 1
  /\ sh' = [sh EXCEPT ![t] = "in"]
  /\ UNCHANGED <<writer, writeRequested, ex>>

\* exclusive() does not wait for the readers to drain.
AcquireExclusiveIgnoringReaders(t) ==
  /\ ex[t] = "wait"
  /\ ~writer
  /\ writer' = TRUE
  /\ ex' = [ex EXCEPT ![t] = "in"]
  /\ UNCHANGED <<readers, writeRequested, sh>>

\* exclusive() takes the lock from its current writer.
AcquireExclusiveIgnoringWriter(t) ==
  /\ ex[t] = "wait"
  /\ readers = 0
  /\ writer' = TRUE
  /\ ex' = [ex EXCEPT ![t] = "in"]
  /\ UNCHANGED <<readers, writeRequested, sh>>

\* exclusive()'s finally clause leaves _write_requested raised.
ReleaseExclusiveKeepingRequest(t) ==
  /\ ex[t] = "in" /\ sh[t] = "out"
  /\ writer' = FALSE
  /\ ex' = [ex EXCEPT ![t] = "out"]
  /\ UNCHANGED <<readers, writeRequested, sh>>

\* Both the body and the finally clause of shared() count the task out.
ReleaseSharedTwice(t) ==
  /\ sh[t] = "in"
  /\ readers' = readers - 2
  /\ sh' = [sh EXCEPT ![t] = "out"]
  /\ UNCHANGED <<writer, writeRequested, ex>>

\* shared() counts its task out only when no designator is waiting.
ReleaseSharedLosingCount(t) ==
  /\ sh[t] = "in"
  /\ readers' = IF writeRequested THEN readers ELSE readers - 1
  /\ sh' = [sh EXCEPT ![t] = "out"]
  /\ UNCHANGED <<writer, writeRequested, ex>>

-----------------------------------------------------------------------------
(* shared() *)

\* An admission calls shared() on its own; a designator only from within
\* its exclusive section (_attempt_safe_continuity, _attempt_reconstruction).
MayCallShared(t) == t \in Designator => t \in Nesting /\ ex[t] = "in"

CallShared(t) ==
  /\ sh[t] = "out" /\ MayCallShared(t)
  /\ sh' = [sh EXCEPT ![t] = "wait"]
  /\ UNCHANGED <<readers, writer, writeRequested, ex>>

\* When the test under the mutex fails, the task polls again.
AcquireShared(t) ==
  /\ sh[t] = "wait"
  /\ ~writer /\ ~writeRequested
  /\ readers' = readers + 1
  /\ sh' = [sh EXCEPT ![t] = "in"]
  /\ UNCHANGED <<writer, writeRequested, ex>>

ReleaseShared(t) ==
  /\ sh[t] = "in"
  /\ readers' = readers - 1
  /\ sh' = [sh EXCEPT ![t] = "out"]
  /\ UNCHANGED <<writer, writeRequested, ex>>

-----------------------------------------------------------------------------
(* exclusive() *)

RequestExclusive(t) ==
  /\ t \in Designator /\ ex[t] = "out"
  /\ writeRequested' = TRUE
  /\ ex' = [ex EXCEPT ![t] = "wait"]
  /\ UNCHANGED <<readers, writer, sh>>

AcquireExclusive(t) ==
  /\ ex[t] = "wait"
  /\ readers = 0 /\ ~writer
  /\ writer' = TRUE
  /\ ex' = [ex EXCEPT ![t] = "in"]
  /\ UNCHANGED <<readers, writeRequested, sh>>

\* The finally clause clears the request flag too, even when another
\* designator is still polling.
ReleaseExclusive(t) ==
  /\ ex[t] = "in" /\ sh[t] = "out"
  /\ writer' = FALSE
  /\ writeRequested' = FALSE
  /\ ex' = [ex EXCEPT ![t] = "out"]
  /\ UNCHANGED <<readers, sh>>

-----------------------------------------------------------------------------
Step(t) == AcquireShared(t) \/ ReleaseShared(t)
           \/ AcquireExclusive(t) \/ ReleaseExclusive(t)

Next == \E t \in Task : CallShared(t) \/ RequestExclusive(t) \/ Step(t)

Spec == Init /\ [][Next]_vars

\* The event loop runs every ready task again and again (sleep(0) puts a
\* polling task back on the ready queue) and critical sections end.  Nothing
\* obliges a client to call.
FairSpec == Spec /\ \A t \in Task : WF_vars(Step(t))

\* The most favourable event loop: a designator that could get in again and
\* again does get in.
StrongFairSpec == FairSpec /\ \A t \in Task : SF_vars(AcquireExclusive(t))

-----------------------------------------------------------------------------
Sharers == {t \in Task : sh[t] = "in"}
Owners == {t \in Task : ex[t] = "in"}

\* The lock's two flags and its counter are exactly the tasks in the critical
\* sections: _readers never drifts (a lost or doubled decrement would let a
\* designation start beside an admission, or never start), _writer is raised
\* by the one owner, and a request flag is never left behind by a designator
\* that has gone (it would shut every admission out for good).
Accounting ==
  /\ readers = Cardinality(Sharers)
  /\ writer <=> Owners # {}
  /\ writeRequested => \E t \in Task : ex[t] # "out"

\* An admission and a designation are never in their critical sections
\* together, and neither are two designations: what the comment above
\* _AdmissionLock relies on to close the taint-check/commit race.
MutualExclusion ==
  /\ \A t \in Owners : Owners = {t}
  /\ Owners # {} => Sharers = {}

\* The lock implements the abstract read-write lock.
RW == INSTANCE RWLock WITH sharers <- Sharers, owners <- Owners
RWSpec == RW!Spec

\* "Signal that a write is requested so new readers back off": while its request
\* stands, a polling designator is not kept out by admissions, however many
\* arrive; it waits only for the readers inside and for other designators.
RequestHonoured ==
  \A t \in Designator :
    ex[t] = "wait" /\ writeRequested ~> ex[t] = "in" \/ ~writeRequested

\* A designation that asks for the lock gets it, whatever the admissions do.
DesignatorProceeds == \A t \in Designator : ex[t] = "wait" ~> ex[t] = "in"

\* An admission that asks for the lock gets it unless designations keep
\* coming: the last designation out leaves the lock open to admissions.
ReaderProceeds ==
  \A t \in Task \ Designator :
    <>[](sh[t] = "wait") => []<>(\E d \in Designator : ex[d] # "out")

\* "Single lock key, consistent acquisition order, no nesting": a designation
\* that is in its exclusive section always finishes it.
DesignationFinishes == \A t \in Designator : ex[t] = "in" ~> ex[t] = "out"
=============================================================================
