--------------------------- MODULE SqliteSession ---------------------------
(***************************************************************************)
(* How requests reach the SQLite file.  A handler inside transaction() has *)
(* a connection of its own and holds the write lock from BEGIN IMMEDIATE   *)
(* to COMMIT.  Every other backend call, of every request, goes through    *)
(* the one connection self._db: Python opens a deferred transaction on it  *)
(* before the first INSERT of whichever call comes first, and whichever    *)
(* call commits first ends it for all.  Nobody ever rolls it back.         *)
(***************************************************************************)
EXTENDS Integers, FiniteSets

CONSTANTS
  Task,     \* concurrent requests
  TxKey,    \* work done inside transaction()
  CallKey,  \* calls outside it that write several rows and commit
  NodeKey,  \* calls of commit_node outside it
  Parts,    \* rows written by each
  Shared,   \* the holder of the write lock when it is the shared connection
  NoOne     \* ... and when it is free

Key == TxKey \cup CallKey \cup NodeKey

ASSUME SessionAssumption ==
  /\ Parts \in Nat \ {0}
  /\ TxKey \cap (CallKey \cup NodeKey) = {} /\ CallKey \cap NodeKey = {}
  /\ Shared \notin Task /\ NoOne \notin Task /\ Shared # NoOne

VARIABLES
  durable,      \* rows in the file
  uncommitted,  \* rows written by the holder of the write lock
  writer,       \* the holder
  mode,         \* the transaction of the shared connection
  at,           \* what each request does next
  key,          \* what it is to write
  done,         \* how many rows of that it has written
  answered      \* requests answered with success

vars == <<durable, uncommitted, writer, mode, at, key, done, answered>>

NoKey == <<>>

Rows(k) == {k} \X (1..Parts)
Row == Key \X (1..Parts)

\* "auto": no transaction; "begun": deferred, nothing read or written yet;
\* "pinned": reads a snapshot that is still the file's last state, "behind":
\* one that no longer is; "writing": holds the write lock.
Mode == {"auto", "begun", "pinned", "behind", "writing"}

Place == {"idle", "begin", "write", "answer"}

TypeOK ==
  /\ durable \subseteq Row
  /\ uncommitted \subseteq Row
  /\ writer \in Task \cup {Shared, NoOne}
  /\ mode \in Mode
  /\ mode = "writing" <=> writer = Shared
  /\ at \in [Task -> Place]
  /\ key \in [Task -> Key \cup {NoKey}]
  /\ done \in [Task -> 0..Parts]
  /\ answered \subseteq Key
  /\ \A t \in Task : at[t] # "idle" => key[t] \in Key

Init ==
  /\ durable = {} /\ uncommitted = {}
  /\ writer = NoOne
  /\ mode = "auto"
  /\ at = [t \in Task |-> "idle"]
  /\ key = [t \in Task |-> NoKey]
  /\ done = [t \in Task |-> 0]
  /\ answered = {}

End(t) ==
  /\ at' = [at EXCEPT ![t] = "idle"]
  /\ key' = [key EXCEPT ![t] = NoKey]
  /\ done' = [done EXCEPT ![t] = 0]

WriteRow(t) ==
  /\ done[t] < Parts
  /\ uncommitted' = uncommitted \cup {<<key[t], done[t] + 1>>}
  /\ done' = [done EXCEPT ![t] = @ + 1]
  /\ UNCHANGED <<durable, at, key, answered>>

\* COMMIT by the holder of the write lock.
CommitRows ==
  /\ durable' = durable \cup uncommitted
  /\ uncommitted' = {}
  /\ writer' = NoOne

-----------------------------------------------------------------------------
(* Slips of the code, used to show that the properties below can fail.     *)

\* db.commit of the connection in transaction() is not replaced: every
\* backend call inside commits for itself.
TxWriteCommitting(t) ==
  /\ at[t] = "write" /\ key[t] \in TxKey
  /\ done[t] < Parts
  /\ durable' = durable \cup {<<key[t], done[t] + 1>>}
  /\ done' = [done EXCEPT ![t] = @ + 1]
  /\ UNCHANGED <<uncommitted, writer, mode, at, key, answered>>

\* BEGIN instead of BEGIN IMMEDIATE: the lock is not taken until a write.
TxBeginDeferred(t) ==
  /\ at[t] = "begin" /\ writer = NoOne
  /\ at' = [at EXCEPT ![t] = "write"]
  /\ UNCHANGED <<durable, uncommitted, writer, mode, key, done, answered>>

\* The call returns without its db.commit().
SharedCommitForgotten(t) ==
  /\ at[t] = "write" /\ key[t] \notin TxKey /\ done[t] = Parts
  /\ at' = [at EXCEPT ![t] = "answer"]
  /\ UNCHANGED <<durable, uncommitted, writer, mode, key, done, answered>>

\* The exception path of transaction() commits instead of rolling back.
TxRollbackCommitting(t) ==
  /\ at[t] = "write" /\ key[t] \in TxKey
  /\ CommitRows
  /\ End(t)
  /\ UNCHANGED <<mode, answered>>

\* db.commit is still noop_commit at the end of the block: closing the
\* connection drops the rows.
TxCommitNoop(t) ==
  /\ at[t] = "write" /\ key[t] \in TxKey /\ done[t] = Parts
  /\ uncommitted' = {}
  /\ writer' = NoOne
  /\ at' = [at EXCEPT ![t] = "answer"]
  /\ UNCHANGED <<durable, mode, key, done, answered>>

-----------------------------------------------------------------------------
\* A request, or a client's retry of one, reaches its first backend call.
Call(t, k) ==
  /\ at[t] = "idle"
  /\ at' = [at EXCEPT ![t] = IF k \in TxKey THEN "begin" ELSE "write"]
  /\ key' = [key EXCEPT ![t] = k]
  /\ UNCHANGED <<durable, uncommitted, writer, mode, done, answered>>

\* transaction(): a connection of its own, BEGIN IMMEDIATE.
TxBegin(t) ==
  /\ at[t] = "begin" /\ writer = NoOne
  /\ writer' = t
  /\ at' = [at EXCEPT ![t] = "write"]
  /\ UNCHANGED <<durable, uncommitted, mode, key, done, answered>>

\* ... or "database is locked" after five seconds: the request fails.
TxBusy(t) ==
  /\ at[t] = "begin" /\ writer # NoOne
  /\ End(t)
  /\ UNCHANGED <<durable, uncommitted, writer, mode, answered>>

\* A row of a backend call inside transaction(); the call's own commit is
\* noop_commit.
TxWrite(t) ==
  /\ at[t] = "write" /\ key[t] \in TxKey
  /\ WriteRow(t)
  /\ UNCHANGED <<writer, mode>>

\* The end of the block.  A snapshot the shared connection reads is now an
\* old one.
TxCommit(t) ==
  /\ at[t] = "write" /\ key[t] \in TxKey /\ done[t] = Parts
  /\ CommitRows
  /\ mode' = IF mode = "pinned" /\ ~(uncommitted \subseteq durable)
             THEN "behind" ELSE mode
  /\ at' = [at EXCEPT ![t] = "answer"]
  /\ UNCHANGED <<key, done, answered>>

\* Any exception inside the block.
TxRollback(t) ==
  /\ at[t] = "write" /\ key[t] \in TxKey
  /\ uncommitted' = {}
  /\ writer' = NoOne
  /\ End(t)
  /\ UNCHANGED <<durable, mode, answered>>

\* An INSERT on the shared connection takes the write lock and keeps it until
\* some call commits; it waits while a transaction() has the lock.
SharedWritable == writer \in {NoOne, Shared} /\ mode # "behind"

\* INSERT OR IGNORE finds the node's row: commit_node returns False at once,
\* without ending the transaction that the INSERT has opened.
NodeExists(t) ==
  /\ at[t] = "write" /\ key[t] \in NodeKey /\ done[t] = 0
  /\ SharedWritable
  /\ <<key[t], 1>> \in durable \cup uncommitted
  /\ writer' = Shared /\ mode' = "writing"
  /\ at' = [at EXCEPT ![t] = "answer"]
  /\ UNCHANGED <<durable, uncommitted, key, done, answered>>

SharedWrite(t) ==
  /\ at[t] = "write" /\ key[t] \notin TxKey
  /\ SharedWritable
  /\ ~(key[t] \in NodeKey /\ done[t] = 0 /\ <<key[t], 1>> \in durable \cup uncommitted)
  /\ writer' = Shared /\ mode' = "writing"
  /\ WriteRow(t)

\* The INSERT times out, or its connection reads an old snapshot and cannot
\* write at all.  The exception ends the request and leaves the deferred
\* transaction open.
SharedBusy(t) ==
  /\ at[t] = "write" /\ key[t] \notin TxKey /\ done[t] < Parts
  /\ ~SharedWritable
  /\ mode' = IF mode = "auto" THEN "begun" ELSE mode
  /\ End(t)
  /\ UNCHANGED <<durable, uncommitted, writer, answered>>

\* db.commit() of the shared connection: of this call's rows and of whatever
\* other calls have written there; nothing if another call committed already.
SharedCommit(t) ==
  /\ at[t] = "write" /\ key[t] \notin TxKey /\ done[t] = Parts
  /\ IF writer = Shared THEN CommitRows ELSE UNCHANGED <<durable, uncommitted, writer>>
  /\ mode' = "auto"
  /\ at' = [at EXCEPT ![t] = "answer"]
  /\ UNCHANGED <<key, done, answered>>

\* A SELECT of any read-only call, inside a transaction left open, pins it.
Select ==
  /\ mode = "begun"
  /\ mode' = "pinned"
  /\ UNCHANGED <<durable, uncommitted, writer, at, key, done, answered>>

Answer(t) ==
  /\ at[t] = "answer"
  /\ answered' = answered \cup {key[t]}
  /\ End(t)
  /\ UNCHANGED <<durable, uncommitted, writer, mode>>

\* The process dies; SQLite recovers what was committed.
Crash ==
  /\ uncommitted' = {}
  /\ writer' = NoOne
  /\ mode' = "auto"
  /\ at' = [t \in Task |-> "idle"]
  /\ key' = [t \in Task |-> NoKey]
  /\ done' = [t \in Task |-> 0]
  /\ UNCHANGED <<durable, answered>>

TaskStep(t) ==
  \/ \E k \in Key : Call(t, k)
  \/ TxBegin(t) \/ TxBusy(t) \/ TxWrite(t) \/ TxCommit(t) \/ TxRollback(t)
  \/ NodeExists(t) \/ SharedWrite(t) \/ SharedBusy(t) \/ SharedCommit(t)
  \/ Answer(t)

Next == (\E t \in Task : TaskStep(t)) \/ Select \/ Crash

Spec == Init /\ [][Next]_vars

-----------------------------------------------------------------------------
AllOrNothing(k) == Rows(k) \subseteq durable \/ Rows(k) \cap durable = {}

\* What a request writes inside transaction() is in the file altogether or
\* not at all, at every moment and after every crash, although the backend
\* calls inside it commit one by one elsewhere.
TxAtomic == \A k \in TxKey : AllOrNothing(k)

\* The same of the calls outside transaction(), once no request works on
\* them: the docstring of apply_quarantine_transaction says all-or-nothing.
CallAtomic ==
  \A k \in CallKey : (\A t \in Task : key[t] # k) => AllOrNothing(k)

\* A client that was answered with success finds its rows in the file, also
\* after a crash, whichever call committed them.
AnsweredDurable ==
  \A k \in answered \cap (TxKey \cup CallKey) : Rows(k) \subseteq durable

\* The same for commit_node, which answers "already there" on the strength of
\* a row that the call it repeats may not have committed yet.
RepeatDurable ==
  \A k \in answered \cap NodeKey : Rows(k) \subseteq durable

Inside(t) == at[t] = "write" /\ key[t] \in TxKey

\* Between BEGIN IMMEDIATE and COMMIT the file does not change under a
\* request: what its handler has read there is still so when it commits.
TxIsolated ==
  [][\A t \in Task : Inside(t) /\ Inside(t)' => durable' = durable]_vars

\* The shared connection is never left reading an old snapshot, on which no
\* write of any request succeeds any more.
NeverBehind == mode # "behind"

\* transaction() implements the atomic store.
Store == INSTANCE AtomicStore WITH
  Request <- TxKey,
  stored <- {k \in TxKey : Rows(k) \subseteq durable},
  answered <- answered \cap TxKey

StoreSpec == Store!Spec
=============================================================================
