# TLA+ verification of the GASC Governor Gateway

The gateway admits state writes of agents into a provenance DAG, lets a human or
a detector designate a node as poisoned, quarantines everything derived from it,
and repairs what it can. This directory holds TLA+ models of its core, the TLC
configurations that check them, and TLAPS proofs. Line numbers in
`PROJECT.json` refer to the source at the modelled commit.

## Inventory

| Component | State | Operations | Hard part | What makes it correct |
|---|---|---|---|---|
| Admission lock (`governor_service.py` 755-911) | `_readers`, `_writer`, `_write_requested` | `shared()`, `exclusive()` | polling tasks, a flag shared by all designators, a nested call | exclusion, exact counters, progress of both sides |
| Blast radius (`sqlite_backend.py` 316-404) | `nodes`, `edges` | bounded BFS, a sparse and a dense loop | depth bound, early exit, cycles, rows without a node | exactly the descendants within the bound |
| Admission: `/submit-candidate`, `/context-compacted`, `/seed-root` | `nodes`, `edges`, `tainted_rejections`, `shadow_decisions` | taint check, policy, commit, audit | check and commit are separated by awaits | nothing lands below a quarantined node unquarantined |
| Containment: `/designate`, `/detector/{source}` | `quarantine_ledger`, `quarantine_events` | blast radius, ledger write, digest | admissions in flight, crashes | the whole subtree is quarantined; the log tells what happened |
| Safe continuity (M3/M4) | `checkpoints`, `substitute_declarations`, `continuity_exposures`, a ledger snapshot | declare, expose, replace critical dependents | snapshot taken outside any lock, checks and writes in separate calls | replacements stand for quarantined nodes and rest on clean ones |
| SQLite session (`sqlite_backend.py` 20-57) | write lock, one shared connection, connections of `transaction()` | BEGIN IMMEDIATE, COMMIT, ROLLBACK, implicit BEGIN | calls outside `transaction()` share one connection and commit each other's rows; busy timeouts; crashes | all-or-nothing, durable once answered |
| Recovery (reconstruction, dispositions, R5 gate) | `repair_candidates`, horizons, a temporary table | plan, adapter calls with timeout, commit | two walks in one temporary table, late answers, rows written one by one | a reconstruction rests on what a blast radius left of the covers |
| Recurrence control (R6) | horizons, withdrawals | `/observe`, `/renew-trust` | check without lock, closures that go stale, amplification bound | no event withdraws more than the bound |
| Rate limiting | attempt rows | count, then record | two awaits | at most N per window |
| Backpressure and drain | `_in_flight`, `_drain_event`, `_ready` | enter, leave, drain, close, start | exceptions, restarts in one process, a deadline, handlers that hang | exact counter, closed when empty, shutdown ends |
| Tainted-action offers | `tainted_rejections` | reject, find a replacement, offer, complete on retry | offers go stale, retries repeat, ids are reused | an action completes once, on what was offered, on clean lineage |
| Admission policy (`evaluate_admission`, `policies/*.rego`) | - | combined query, two-query fallback | the same rules written twice, four transports that fail differently | fail closed |
| Signatures, tokens, detector mapping, migrations, reports | none of the protocol's | I/O and conversions | - | - |

Interactions. All handlers are coroutines of one asyncio process; they meet in
the admission lock (admissions shared, designations exclusive), in the SQLite
file (one write transaction at a time), in one shared connection to it, and in
the tables above. `/designate`
calls continuity and reconstruction *inside* its exclusive section; `/detector`
calls them after it. The policy engine is called inside the shared section. What
continuity exposes is what a refused agent is offered later.

Not every backend exists in practice: `MemoryStateBackend` and
`PostgresStateBackend` do not implement the abstract `transaction()` and cannot
be instantiated, so the models follow `SqliteStateBackend`.

## Modules

- **`RWLock`** - abstract read-write lock: who is inside, nothing about how.
- **`AdmissionLock`** - `_AdmissionLock`. `CallShared`/`AcquireShared`/`ReleaseShared`
  and `RequestExclusive`/`AcquireExclusive`/`ReleaseExclusive` are the bodies of
  the `async with mutex` blocks, which contain no await and are therefore
  atomic. A failed test under the mutex changes nothing, so polling is the
  acquire action staying disabled. `Nesting` holds the designators that call
  `shared()` inside `exclusive()`.
- **`Lineage`** - children, parents, closed sets and descendants of an edge
  table. Descendants are the least closed set that holds the root (no recursion,
  so that they can be reasoned about in proofs).
- **`BlastRadius`** - the traversal, one action per level: `SparseLevel` for
  tables of at most `SparseEdges` rows, `DenseLevel`/`DenseStop` above that, with
  the early exit `TotalExpected`. Any edge table is an initial state, cycles,
  self-loops and parents without a node row included: shadow mode and covers[]
  produce them. The table does not change during a walk. `/designate` and
  `/detector` walk under the exclusive lock, a refused submission inside its
  transaction, and the sparse loop reads all edges in one query; a *dense* walk of
  `/observe`, which has neither, beside a commit is outside the module.
- **`Containment`** - the handlers, run by concurrent requests (`Task`), over the
  tables. It uses the two results of the modules below it: the lock is the
  abstract one (`shared`, `exclusive`), and `compute_blast_radius` returns the
  descendants. `at[t]` is the step a request takes next, `seen[t]` what it has
  read and will still use: the gap between reading and acting is where the races
  are. `Raise` is an exception, or the cancellation of a request whose client went
  away, at any step outside a transaction; `Crash` ends all requests at any moment
  and rolls an open transaction back. What runs outside `transaction()` is written
  row by row (see below); `torn` remembers that a sweep of `/detector` was cut short
  between its rows.

  | Code | Actions |
  |---|---|
  | `submit_candidate` | `SubmitEnter` (lock, BEGIN, lookups), then `SubmitRaise` (any HTTPException: rollback), `SubmitTainted`, `SubmitDenied`, `SubmitAdmit`, or `SubmitShadow` |
  | `declare_context_compacted` | `CompactCheck` (outside the lock), `CompactCommit` (the node row), `Link` (one edge row), `LinkDone` |
  | `designate_poison` | `DesignateEnter` (lock, BEGIN, walk), `DesignateApply` |
  | `ingest_detector_event` | `DetectorEnter`, `DetectorLog` (the event row), `DetectorRow` (one ledger row), `DetectorDone` |
  | `_attempt_safe_continuity` | `ContinuityRead`, `ContinuityEmit` (once per dependent, then `Link`), `ContinuityFinish` |
  | `seed_root` | `SeedCheck`, `SeedCommit` |

  `Lax` names what clients may do that the gateway lets pass: reuse an id with
  other lineage, cover ids that do not exist, put covers on a payload that is not
  a COMPACTION. With `Lax = {}` clients are disciplined.
- **`MCContainment`** - symmetry sets for TLC.
- **`Recovery`** - repair and recurrence control over the lineage that clients have
  built: which compactions a walk plans for repair (by `/detector` under the
  exclusive lock and by `/observe` under none), the sweep, and the reconstruction
  that follows it, one step per SQL statement. The compactions a walk affects are
  looked up through `_blast_radius_tmp`, a temporary table of the one connection
  these handlers share (`tmp`): it is emptied, filled and read in three steps, and
  another walk may come in between. `crossed` remembers the compactions a walk took
  for affected on that account. Walks inside `transaction()` have a connection, and
  a table, of their own. `loc[t]` is what the coroutine holds in local variables:
  the closure of its walk, the candidates as it read them, the one in hand.
  `AttemptRaise` is the two `except` clauses, which change memory only; `Raise` is
  an exception elsewhere, or a cancellation; `Crash` falls between any two
  statements. Trust horizons are `active` or `expired` as `trust_expires_utc` is
  ahead or past. A lineage (`IsLineage`) need not be acyclic nor resolved, since
  `commit_node` tests neither.

  | Code | Actions |
  |---|---|
  | second half of `compute_blast_radius` | `ClearTmp`, `FillTmp` or `FillClash` (the INSERT fails on a row of another walk), `SelectAffected`, `PlanLook`, `PlanWrite` |
  | `ingest_detector_event` | `DetectorEnter`, (planning), `HookRead`, `HookNext` (one more walk and withdrawal for each horizon in the radius), `Apply` or `ApplyTorn` |
  | `observe_recurrence` | `ObserveEnter`, (planning, withdrawal) |
  | `process_recurrence`, `apply_withdrawal_transaction` | (planning), `Escalates`, `LogRecurrence`, `WithdrawRow`, `WithdrawDone` |
  | `_attempt_reconstruction` | `AttemptRead`, `AttemptNext`, `AskAdapter` or `BuildInline` or `AskRefused`, `Commit`, `Link`, `LinkDone`, `record_reintegration`, `record_reintegration_evidence`, `RecordReducible`; `AttemptRaise` |
  | `/reconstruct` of the adapter | `AdapterAgrees`, `AskAdapter` |
  | `/renew-trust` | `RenewCheck`, `renew_trust` |
- **`MCRecovery`** - the four lineages of the runs: a compaction and a compaction of a
  compaction as `/context-compacted` declares them; covers that are not declared
  parents, one of them not committed, for which the gateway's walk and the
  adapter's differ; and a cycle, below a commit that was cut short.
- **`RateLimit`** - the attempt counters in front of `/designate`, `/detector` and
  `/observe`: `CountIdentity`, `CountGlobal` (only `/observe`), then
  `RecordPending` or `RecordLimited`; rows leave the window one by one.
- **`Ingress`** - composes `RateLimit` with the middleware in front of it:
  `Acquire` (`_acquire_in_flight`), `Signal` and `Handler` (the steps of
  `RateLimit` by a request that is inside), `Leave` (the `finally` clause, at any
  point of the handler, since any backend call may raise), `Shutdown`,
  `Deadline`, `Close`, `Startup`, `Crash`. The test of the drain flag and the
  counter's update are one step: the lock between them is never held across an
  await, so taking it does not yield.
- **`AtomicStore`** - what handlers rely on when they use `transaction()`: rows of a
  request appear together, stay, and are there before the answer.
- **`SqliteSession`** - the connections to the database file. Inside
  `transaction()`: `TxBegin` (BEGIN IMMEDIATE), `TxWrite` (a backend call whose
  commit is `noop_commit`), `TxCommit`, `TxRollback`, `TxBusy` (the five second
  timeout). Outside, on the connection all handlers share: `SharedWrite`, one row
  per await, `SharedCommit`, `NodeExists` (the early return of `commit_node`),
  `SharedBusy`, `Select`. `mode` is the state of the shared connection: no
  transaction, a deferred one without a snapshot, one that reads a snapshot, one
  whose snapshot is outdated, one that writes. A request's rows are `Parts` of
  a key; a retry writes the same key again.
- **`AdmissionPolicy`** - `evaluate_admission` as an operator of what the policies
  look at (`Input`) and of how the queries fare (`Engine`). `Verdicts` is what a
  submission may be answered, given whether its parents exist and are clean.
- **`Offers`** - refusals, offers and retries of `/submit-candidate`, and the
  continuity that makes replacements.

  | Code | Actions and operators |
  |---|---|
  | `submit_candidate` (enforcing) | `SubmitTainted`, `SubmitAdmit`, over `Verdicts` |
  | `find_continuity_replacement` | `Nearest` (the search upwards), `Match` |
  | `record_tainted_rejection`, `record_tainted_offer` | `Rejected` |
  | `check_retry_completion` | `check_retry_completion` |
  | `designate_poison`, `ingest_detector_event` | `Designate`, `Detect`, `DetectTorn` (cut short between its rows) |
  | `_attempt_safe_continuity` | `Read`, `Serve`, `Record`, `Escalate`, `Return` |
  | `/continuity-expose`, `/declare-substitute`, `/checkpoint` | `ExposeCheck`, `Expose`; `DeclareCheck`, `Declare`; `DeclareCheckpoint` |
- **`MCOffers`** - the DAG, the substitutes and the checkpoints of the run.
- **`LineageProofs`, `BlastRadiusProofs`, `AdmissionLockProofs`,
  `ContainmentProofs`, `IngressProofs`, `SqliteSessionProofs`, `OffersProofs`,
  `RecoveryProofs`** - the theorems.

Definitions named as slips in the modules (`commit_node_replacing`,
`SparseLevelShort`, ...) are plausible mistakes in that code. Substituted for the
definition they shadow, each one makes TLC refute one property; this shows that
the properties are not vacuous (`PROJECT.json`, "mutants").

Rows outside `transaction()`. Such a call INSERTs row by row on the connection all
handlers share, and the `db.commit()` of any call makes durable what has been
written so far (`SqliteSession`). `Containment` and `Recovery` make each row a step
that is durable at once. Nothing is lost by that: if nobody commits between a row
and a crash, nobody has written after it either, and the file is as it was before
the row, where the model lets the crash strike as well. Nor is there a
`transaction()` in between, which could not begin while rows are uncommitted. A
SELECT with its `fetchall` is one step, and so is an `executemany`: each is one call
of the connection's thread. In `Recovery` the ledger rows of a complete sweep are
one step, since others only test the ledger for disjointness; `ApplyTorn` leaves
any part of them.

What `Containment` leaves out: the tables start empty (the seeding done by the
test-only reset endpoint is not modelled); `DesignateApply` is a designation
with nothing to replace (one that has something to replace never returns, see
`lock_nested`); reconstructions are not committed here, so there are no trust
horizons and the recurrence hook of `/submit-candidate` finds none; the
`repair_candidates` rows that the blast radius writes are read by no guard of
these handlers, and its temporary table is in `Recovery`. In continuity, *which* checkpoint or
substitute serves a dependent is any choice here and computed in `Offers`; the policy's verdict is
any choice the integrity rules allow, and computed in `Offers`; a digest is the
set it digests.

What `Recovery` leaves out: the lineage is fixed but for rebuilt nodes, so nothing is
admitted on top of these; the hook of `/submit-candidate` is therefore absent
too. Only `/detector` reconstructs: `/designate` hangs when there is something to
rebuild (`lock_nested`). Whether a summarizer is known, a checkpoint lies in the
frontier or external effects exist decides between two dispositions, and is a
choice between them. Continuity, which runs between sweep and reconstruction, is
in `Containment` and `Offers`. The implicit transaction that `DELETE FROM
_blast_radius_tmp` opens on the shared connection is not modelled; `SqliteSession`
has the transactions that other statements open.

What `Offers` leaves out: compactions and `/context-compacted`, shadow mode, and
reconstruction; submissions and sweeps are one step each, which the lock
(`AdmissionLock`, `Containment`) and `transaction()` (`SqliteSession`) justify. A
sweep of `/detector`, which has the lock and no transaction, may leave any part of
its ledger rows (`DetectTorn`). Times are compared only with the time of a sweep, so a time is the number of
sweeps before it, and admins state the true one. The authors of a rejected write
and of its retry matter only for the row `retry_of` names: a submission may
single out one row whose author differs. What continuity may serve is computed
when it reads the tables, in one step; the code reads five tables in five awaits.

What `SqliteSession` leaves out: the nested use of `transaction()`, which joins
the open one; checkpointing of the write-ahead log; a commit that itself fails.

## Runs

Passing:

| Run | Instance | Shows |
|---|---|---|
| `lock_safety` | 3 admissions, 2 designations | exact counters, exclusion, refinement of `RWLock`; a standing write request is honoured; admissions are shut out only while designations keep coming |
| `walk` | all edge tables over 4 ids, depth bounds 2 and 3, threshold 3 | the walk returns exactly the ids within the bound, all descendants if the bound is large enough, never anything else |
| `closed` | 3 ids, 2 requests, enforcing mode, disciplined clients, 2 parents and 2 covers, 2 sweeps | admissions clean and sweeps that end complete; P1: the ledger is closed under lineage until a `/detector` sweep is cut short, and afterwards the event log names what is missing (`ContainmentLogged`); the audit trail is backed; digests are those of the ledger |
| `handlers` | 3 ids (one drawn by the gateway), 2 requests, shadow mode, every endpoint, id reuse, 1 sweep | sweeps that end complete and history append-only, also over cyclic, unresolved and tainted lineage |
| `repair` | 4 lineages of 3 ids, with and without adapter, 2 requests, 2 signals, 2 rebuilt nodes | a REDUCIBLE disposition has its node with all its edges, horizon and evidence; a rebuilt node rests on a frontier of the root it was planned for, and with an adapter on one of the root it was attempted for; no recurrence event withdraws more nodes than the amplification bound |
| `ingress` | 3 clients, 2 places, 2 identities, limits 1, 2 and 2 | exact in-flight counter; limits overshot by fewer signals than there are places, however many clients there are; closed empty unless the deadline passed; every shutdown ends |
| `session` | 3 requests; 2 pieces of work inside `transaction()`, 1 call of two rows and 1 node outside it, retried at will | `transaction()` is atomic and isolated and implements `AtomicStore`; what was answered survives crashes |
| `offers` | 6 ids (2 of clients, 1 drawn by the gateway), 2 sweeps, 1 unlocked request, 1 checkpoint, 1 preparation by hand | whatever the policy engine does, admissions rest on committed clean parents; one row per refused id; offers are committed nodes; completions are new, clean writes on what was offered, and final; replacements stand for quarantined nodes |

Violations, each a disagreement between code and what the repository says of it
(`PROJECT.json`, "findings", quotes the lines):

| Run | Shows |
|---|---|
| `lock_nested` | `/designate` with a replacement to commit asks for the shared lock inside its own exclusive section and hangs; all admissions hang with it |
| `compaction_race` | `/context-compacted` checks its covers before it takes the lock and not again; a test of the repository calls the outcome a known limitation |
| `plan_race` | two walks meet in the temporary table of the shared connection, and one plans repairs for the radius of the other, or none |
| `half_written` | a call outside `transaction()` writes row by row on a connection that every other call commits: a crash leaves half of `apply_quarantine_transaction` |

More properties are stated in the modules and refuted by instances that are not
among the runs:

- `AdmissionLock`, `SPECIFICATION StrongFairSpec`, `Task = {a1, a2, d1, d2}`,
  `Designator = {d1, d2}`, `Nesting = {}`: the first designator out clears
  `_write_requested` for the second, which admissions then starve even under
  strong fairness (`DesignatorProceeds`; `governor_service.py` 809).
- `MCRecovery`, the constants of `Recovery_repair.cfg` with one request and one
  fresh id: a repair planned by a sweep that never reached the ledger (a crash, an
  exception, or an `/observe`) is carried out by a later designation, and the rebuilt node's
  predecessor is not quarantined (`PredecessorQuarantined`; `sqlite_backend.py`
  485, against "the quarantined original" of
  `docs/R6-recurrence-control-design.md` 129).
- `MCContainment`, `Node = {x, y, z}`, `FreshNode = {}`, `FallbackParent = x`,
  `Task = {t1}`, `Endpoint = {"designate", "seed-root"}`, `Lax = {"reuse"}`,
  `ShadowMode = FALSE`, `MaxParents = 1`, `MaxSweeps = 1`: a refused write quarantines its id
  alone; if that id was committed earlier its descendants stay clean
  (`ContainmentClosed`; `governor_service.py` 1377). With these values instead:
  - `Lax = {"untyped_covers"}`: covers of a STANDARD payload become edges
    unchecked (`ContainmentClosed`), although commit_node materializes them for
    the walk;
  - `Lax = {"dangling_covers"}`, four ids: a compaction covers an id that is
    refused and quarantined later, alone (`ContainmentClosed`);
  - `Lax = {}`, `Endpoint = {"detector", "continuity", "seed-root"}`,
    `FreshNode = {z}`: a replacement below the hard-coded fallback parent, which
    may itself be quarantined (`ContainmentClosed`);
  - `Lax = {}`, `Endpoint = {"designate", "detector", "continuity",
    "seed-root"}`, `FreshNode = {z}`, `FallbackParent = y`, `MaxSweeps = 2`, two requests: a
    replacement planned on a clean parent is committed after that parent was
    quarantined (`ReplacementClean`);
  - `Lax = {}`, `ShadowMode = TRUE`, `Endpoint = {"seed-root"}`: shadow mode
    writes no decision for what it commits (`ShadowAudited`).
- `SqliteSession`, the constants of `SqliteSession_safety.cfg`: a duplicate of
  `commit_node` is answered on a row that its first call has not committed, and a
  crash loses it (`RepeatDurable`); a busy timeout leaves a deferred transaction
  open on the shared connection, a SELECT pins its snapshot, and after the next
  commit elsewhere no write on it succeeds until the process restarts
  (`NeverBehind`).
- `MCOffers`, the constants of `Offers_retry.cfg`: an id exposed ahead of its
  commit is refused, quarantined, and offered as its own replacement
  (`OfferedClean`; `sqlite_backend.py` 969); an exposure is recorded after its
  node was quarantined (`ExposedClean`; `governor_service.py` 1969); a substitute
  declared after the sweep is offered, although "the continuity mechanism filters
  by declaration time" (`SubstitutePredates`; `sqlite_backend.py` 984 against
  `governor_service.py` 2046). In none of them is a tainted completion recorded:
  `CompletionClean` holds.

Bounds. `Node`, `Task`, `MaxParents`, `DepthBounds` and `SparseEdges`; in
`Containment` also `MaxSweeps`, the designations on record; in
`Recovery` also `Graphs`, `FreshNode` and `MaxSignals`, in `RateLimit`
`MaxLimited`, in `Offers` `MaxSweeps` and `MaxPrepared`, in `SqliteSession`
`Parts`. Three ids give a root, a child and a grandchild or a covering
node: enough for a node to be out of step with both an ancestor and a
descendant. Two requests are enough for every race that has one reader and one
writer of the ledger or two walks, and all races found are of that kind; the theorems below
remove the bound for the properties they state. Four ids give the walk a diamond
with a tail, a cycle off the root, a parent without a row, and levels on both
sides of the depth bounds; 16 possible edges lie on both sides of the threshold
3. In `Recovery` two signals are one that plans and one that rebuilds, or two
that rebuild the same candidate, or a walk that crosses another's, and two fresh
ids let both succeed; the closures lie on both sides of `MaxAmplification = 2`. In
`Containment` one sweep is enough to be torn or raced; `closed` has two, so that a
second one meets the ledger a torn one left. `MaxLimited` bounds
the refused attempts in the window, which only make the gateway stricter. In
`Ingress` three clients meet two places, so that one is refused, one outlives a
drain and a limit is overshot as far as it can be. In `SqliteSession` three
requests are one that holds the lock, one that waits and one that commits in
between; two rows are the least that can be torn. In `Offers` the chain of a root
and a critical dependent gives direct and ancestor offers; two sweeps let an
offer go stale, and two client ids are a refused write and its retry. The
theorems hold without these bounds.
`CHECK_DEADLOCK FALSE` in the `Containment`, `Recovery` and `Offers` runs: ids and
signals are a finite supply, so clients may have nothing left to send. In `lock_nested`
the hang is the point.

Symmetry is used only with invariants and action properties, over sets whose
members the configuration does not single out (`FullSymmetry` permutes the ids
only where `FreshNode` is empty and continuity, which reads `FallbackParent`, is
off).

Fairness. `FairSpec` of the lock is weak fairness of the acquire and release
steps of each task: `asyncio.sleep(0)` puts a polling task back on the ready
queue and the event loop runs ready tasks in turn; critical sections end because
what they await has timeouts. No client is obliged to call. `StrongFairSpec` is
stronger than what the loop gives, so that a starving designator does not depend
on an unlucky schedule. `Ingress` assumes weak fairness of `Deadline` and `Close`
only: the monotonic clock advances and the drain loop polls; no handler need
ever return. In `BlastRadius` the loop runs on.

## What is proved

All theorems hold for every value of the constants that the named assumptions
allow (finite sets of tasks and of ids where counting needs it).

- **Lock** (`AdmissionLockProofs`). `LockTyped`,
  `LockMutualExclusion`, `LockAccounting`, `LockRefinesRWLock`. The inductive invariant is the type invariant, the
  accounting and the exclusion together: none is inductive alone, since without
  the counter being exact `readers = 0` would not mean that no admission is
  inside.
- **Induction** (`LineageProofs`). The library's induction theorems take a
  predicate as a parameter, which the provers cannot instantiate. `LeastNatural`
  and `AllNaturals` say the same of sets (a set that holds 0 and successors is
  `Nat`), which they can use: the set of the numbers for which the claim holds is
  then an argument like any other. The proofs of what `Within` and the sum over
  identities compute rest on them.
- **Walk** (`BlastRadiusProofs`). `WalkTyped`, `WalkOnlyDescendants`, `WalkComplete`: complete
  on a database of at most MAX_TRAVERSAL_DEPTH nodes. The invariant says that
  everything behind the current level has been expanded, and that each level
  brought a new node, so depth stays below the number of nodes visited; hence the
  bound cannot be met on a small database, and the dense exit, which fires when
  all ids are visited, leaves a closed set. `WalkExact`: both loops return exactly
  the ids within the bound, on databases of any size. Its invariant (`Measured`)
  says that at depth `d` the ids within distance `d` have been visited; a loop
  that stops early has visited a closed set, and `WithinStops` shows by induction
  that larger distances add nothing to it.
- **Handlers** (`ContainmentProofs`), with all endpoints and any clients:
  `ContainmentTypes`, `HistoryAppendOnly`, `SweepsComplete`, `AuditTrailBacked`,
  and `AdmissionsClean` (for the enforcing mode). They rest on `BaseInv`: what a
  request has read under the lock or the transaction is still true when it acts
  on it, and a `/detector` sweep that is writing its rows is alone in the lock and
  has its event on record. This is the formal content of "closing the phantom race".
- **P1** for disciplined clients: `ContainmentHolds` (`ContainmentClosed`),
  `ContainmentOnRecord` (`ContainmentLogged`) and `DigestsFaithful`. P1 itself does
  not survive a sweep of `/detector` that is cut short between two rows
  (`half_written`); what does is that the events name every node the ledger lacks,
  because the event row is the first to be written. `Disciplined` is `Lax = {}`, enforcing mode, and no
  compaction or continuity. The invariant adds that an edge whose parent is not
  committed leads to a quarantined node (`ResolvedPart`), that a submission under
  decision resubmits only lineage the table holds (`ClientPart`), and that only
  the handlers of the setting run (`QuietPart`). Dropping any part of
  `Disciplined` is refuted: by `compaction_race` and the instances of `Containment`
  above; in shadow mode tainted writes are admitted on purpose.
- **Ingress** (`IngressProofs`): `IngressTyped`, `CounterExact`,
  `DrainedBeforeClose`, `RateLimitHolds`, `GlobalLimitHolds`. Counting and recording are separate
  calls, so the rate bound itself is not inductive: the invariant (`Overshoot`)
  counts rows on record together with the requests that have passed and will add
  one. Each request that passes saw fewer rows than the limit, and at most all
  that are inside are past the count at once; the counter being exact bounds them
  by `MaxInFlight`. This is where backpressure and rate limiting need each other.
  For the global limit (`GlobalOvershoot`) the rows of all identities are summed;
  the sum is a fold over a set in an order that is not known, so the lemmas
  `SumsExist` to `TotalCounts` first establish what it does when one identity's
  count changes.
- **Session** (`SqliteSessionProofs`): `SessionTyped`, `TransactionsAtomic`,
  `TransactionsIsolated`, `AnswersDurable`, `TransactionsRefineStore`, for any
  number of requests and rows. The invariant says that only the holder of the
  write lock has rows under way, that inside `transaction()` these are exactly the
  rows it has written, that the rows of a call outside it are in the file or
  under way for whichever call commits next, and that a request about to answer
  has its rows in the file. The refinement is what
  allows `Containment` and `Offers` to treat a request inside `transaction()` as
  atomic.
- **Offers** (`OffersProofs`): `OffersTyped`, `AdmissionsRest`, `OneRowPerId`,
  `OffersCommitted`, `CompletionsBacked`, `CompletionsClean`, `RowsWrittenOnce`,
  `ReplacementsQuarantined`, for every DAG to start from and any supply of ids,
  checkpoints and substitutes. The invariant adds that refused ids are in the
  ledger (`RowsQuarantined`: with the 409 for quarantined ids this gives one row
  per id), that edges lead to committed nodes (`ChildrenCommitted`: a new node has
  no edges yet), and that what a continuity loop carries is well formed and
  stands for nodes in the ledger (`CarriedPart`). `CompletionsClean` follows from
  the policy's verdict in the same step, so offers may be stale without harm.

- **Recovery** (`RecoveryProofs`): `RecoveryTyped`, `ReducibleIsBacked`,
  `RebuiltRestsOnFrontier`, `RebuiltDerivedTwice`, `WithdrawalsBacked`,
  `RebuiltOutside`, for every lineage, cyclic or unresolved, any set of requests,
  any finite supply of rebuilt ids and every amplification bound. None of the
  properties is inductive: a candidate stays in the local variables of a
  request across several statements while others replan, rebuild and sweep. The
  invariant (`RecoveryInv`) says what may be relied on at each of these:
  - `Grounded`: rebuilt nodes are leaves below the lineage that clients built, so
    blast radii restricted to it never change and closures only grow. That is why
    plans do not go stale;
  - `WalkOK`, `SweepOK`: a walk in progress holds the complete closure of its node,
    whatever the temporary table holds, and the compactions it still has to plan
    are affected by that closure or are among `crossed`. Frontiers are taken from
    the closure in memory, never from the table: this is why crossing walks may
    plan the wrong compaction but never a frontier inside their own radius;
  - `WithdrawOK`: the closure a request withdraws is within the bound and descends
    from the node of its event;
  - `AttemptOK`: candidates on record, and those a request has read, were planned
    from the radius of one root; the root of an attempt is quarantined;
  - `MakeOK`: how far the reintegration in hand has come: id, node row, edges,
    horizon, evidence, in this order;
  - `Apart`: a rebuilt id, and a recurrence event, is in the hands of one request,
    and of none once it is on record, so that no other request's step overwrites a
    horizon or adds to an event's withdrawals;
  - `Accounted`: the properties themselves, in the form the steps preserve.

  `RebuiltOutside` draws the conclusion R1 is for: a rebuilt node does not descend
  from the root whose radius it was planned for. It says nothing of other roots,
  and rightly: an earlier sweep may have quarantined part of the frontier, and
  where walks crossed that root need not be an ancestor of the compaction at all.

Only model-checked: the liveness properties (`RequestHonoured`,
`ReaderProceeds`, `ShutdownEnds`), since fairness and ENABLED are out of the
prover's reach. Every other property of the passing runs is a theorem.

`WalkComplete` needs the database to be no larger than the bound. A larger one
is contained in part only: `ExactWithinBound` says precisely which part. The
default bound is 1000.

## Plan

What the passing runs check is proved, but for liveness. What is left, in this
order:

1. In `Recovery`, a property on frontiers that hold nodes of an earlier sweep, and
   on designations between a rebuilt node's commit and its horizon.
2. P1 with compactions: that a step opens the ledger only where a compaction
   commits covers that were quarantined since its check (`compaction_race`).
3. Reconstruction commits inside `Containment`, so that admissions on top of
   rebuilt nodes and the recurrence hook of `/submit-candidate` are covered.

## Not modelled

ECDSA and JWT verification (cryptography; an inline reconstruction or replacement
overwrites the process-wide `RECOVERY_ADAPTER_PUBLIC_KEY`, which only signature
checks read), withdrawal reasons (`DIRECTLY_IMPLICATED` goes to the first of the
sorted closure; no guard reads it), transports of the policy engine (I/O; how
they fail is `Fate` in `AdmissionPolicy`), reports, calibration and debug endpoints
(read-only or fixtures), migrations, benchmarks and examples, and the two
backends that cannot be instantiated.
