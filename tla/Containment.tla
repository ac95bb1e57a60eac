---------------------------- MODULE Containment ----------------------------
(***************************************************************************)
(* The gateway's admission and containment handlers over the SQLite        *)
(* backend: /submit-candidate, /context-compacted, /designate,             *)
(* /detector/{source} and /seed-root, run by concurrent requests that      *)
(* share the nodes and edges tables, the quarantine ledger and its event   *)
(* log, the admission lock and SQLite's single write transaction.          *)
(*                                                                         *)
(* The lock is the abstract RWLock that AdmissionLock.tla implements.  A   *)
(* transaction() block is BEGIN IMMEDIATE ... COMMIT: it excludes every    *)
(* other writer, so its writes appear in one step, and an exception or a   *)
(* crash inside it leaves nothing behind.                                  *)
(*                                                                         *)
(* A call outside transaction() writes row by row on the connection that   *)
(* all handlers share, and whoever commits next on it makes the rows so    *)
(* far durable (SqliteSession.tla).  Each row is a step, durable at once:  *)
(* if nobody commits between a row and a crash, nothing has been written   *)
(* after it and the file is what it was before the row, where the crash    *)
(* may strike as well.  While rows are uncommitted no transaction() can    *)
(* begin; a row is written only while none is open.                        *)
(***************************************************************************)
EXTENDS Naturals, FiniteSets, Lineage

CONSTANTS
  Node,            \* payload ids
  FreshNode,       \* ids the gateway itself draws (uuid4), never a client
  FallbackParent,  \* "clean-parent-1"
  Task,            \* concurrent requests
  Endpoint,        \* the handlers in use besides /submit-candidate
  Lax,             \* liberties clients take that the gateway lets pass
  ShadowMode,      \* ENFORCEMENT_MODE = "shadow"
  MaxParents,      \* bound on the parents and on the covers of a payload
  MaxSweeps,       \* bound on the designations on record
  Blank            \* the payload of an idle task

AllEndpoints ==
  {"context-compacted", "designate", "detector", "continuity", "seed-root"}

\* "reuse": resubmit a committed id with other parents or covers;
\* "dangling_covers": cover ids that are not committed;
\* "untyped_covers": declare covers on a payload that is not a COMPACTION.
AllLiberties == {"reuse", "dangling_covers", "untyped_covers"}

Payload == [id : Node, parents : SUBSET Node, covers : SUBSET Node,
            compaction : BOOLEAN]

ASSUME ContainmentAssumption ==
  /\ FreshNode \subseteq Node
  /\ FallbackParent \in Node \ FreshNode
  /\ Endpoint \subseteq AllEndpoints
  /\ Lax \subseteq AllLiberties
  /\ ShadowMode \in BOOLEAN
  /\ MaxParents \in Nat /\ MaxSweeps \in Nat
  /\ Blank \notin Payload

VARIABLES
  nodes,       \* ids in the nodes table
  edges,       \* <<parent, child>> rows of the edges table
  ledger,      \* quarantine_ledger
  events,      \* quarantine_events
  rejections,  \* ids with a row in tainted_rejections
  decisions,   \* ids with a row in shadow_decisions
  torn,        \* history: a sweep of /detector was cut short
  shared,      \* tasks inside _admission_shared()
  exclusive,   \* tasks inside _admission_exclusive()
  txn,         \* tasks inside backend.transaction()
  at,          \* what each task does next
  arg,         \* the payload of each task's request
  seen         \* what the task has read and still relies on

\* The tables, and the history kept beside them.
tables == <<nodes, edges, ledger, events, rejections, decisions, torn>>
locks == <<shared, exclusive, txn>>
tasks == <<at, arg, seen>>
vars == <<nodes, edges, ledger, events, rejections, decisions, torn,
          shared, exclusive, txn, at, arg, seen>>

Place == {"idle", "decide", "compact", "link", "designate", "detect",
          "sweep", "continuity", "emit", "seed"}

Event == [by : {"designation", "detector", "tainted_parent"}, root : Node,
          cp : SUBSET Node, digest : SUBSET Node]

\* exist: the committed ids among those looked up (for a continuity loop, the
\* unquarantined ids it knows); tainted: the quarantined ones; cp: the
\* blast radius of a designation.
View == [exist : SUBSET Node, tainted : SUBSET Node, cp : SUBSET Node]

NoView == [exist |-> {}, tainted |-> {}, cp |-> {}]
SawRadius(c_p) == [exist |-> {}, tainted |-> {}, cp |-> c_p]
SawClean(ids) == [exist |-> ids, tainted |-> {}, cp |-> {}]

TypeOK ==
  /\ nodes \subseteq Node
  /\ edges \subseteq Node \X Node
  /\ ledger \subseteq Node
  /\ events \subseteq Event
  /\ rejections \subseteq Node
  /\ decisions \subseteq Node
  /\ torn \in BOOLEAN
  /\ shared \subseteq Task /\ exclusive \subseteq Task /\ txn \subseteq Task
  /\ at \in [Task -> Place]
  /\ arg \in [Task -> Payload \cup {Blank}]
  /\ seen \in [Task -> View]

\* init_db creates empty tables.
Init ==
  /\ nodes = {} /\ edges = {} /\ ledger = {}
  /\ events = {} /\ rejections = {} /\ decisions = {}
  /\ torn = FALSE
  /\ shared = {} /\ exclusive = {} /\ txn = {}
  /\ at = [t \in Task |-> "idle"]
  /\ arg = [t \in Task |-> Blank]
  /\ seen = [t \in Task |-> NoView]

-----------------------------------------------------------------------------
(* Slips of the backend, used to show that the properties below can fail.  *)

\* INSERT OR REPLACE: a second commit of an id rewrites its lineage.
commit_node_replacing(id, lineage) ==
  /\ nodes' = nodes \cup {id}
  /\ edges' = {e \in edges : e[2] # id} \cup (lineage \X {id})

\* One edge row whose parent is the whole list of parents.
commit_node_unrolled(id, lineage) ==
  /\ nodes' = nodes \cup {id}
  /\ edges' = edges \cup {<<lineage, id>>}

\* The digest leaves out what the ledger already holds.
digest_of_the_new(extra) == extra

\* The event is logged and the ledger rows are not.
apply_event_only(event, ids) ==
  /\ events' = events \cup {event}
  /\ UNCHANGED ledger

-----------------------------------------------------------------------------
(* The backend operations the handlers are built from.                     *)

\* INSERT OR IGNORE: a node that is already there keeps its edges.  Inside
\* transaction(), or with no edge rows to follow, the call is one step.
commit_node(id, lineage) ==
  IF id \in nodes
  THEN UNCHANGED <<nodes, edges>>
  ELSE /\ nodes' = nodes \cup {id}
       /\ edges' = edges \cup (lineage \X {id})

\* The complete set of descendants: BlastRadius.tla shows that the bounded
\* walk computes it on a database of at most MAX_TRAVERSAL_DEPTH nodes.
compute_blast_radius(E, root) == Descendants(E, Node, root)

\* A SHA-256 over the sorted ids: a digest stands for the set it digests.
compute_quarantine_digest(extra) == ledger \cup extra

\* The event and its ledger rows, inside transaction().
apply_quarantine_transaction(event, ids) ==
  /\ events' = events \cup {event}
  /\ ledger' = ledger \cup ids

\* The task starts, or goes on to, the step named place.
Become(t, place, payload, view) ==
  /\ at' = [at EXCEPT ![t] = place]
  /\ arg' = [arg EXCEPT ![t] = payload]
  /\ seen' = [seen EXCEPT ![t] = view]

Finish(t) == Become(t, "idle", Blank, NoView)

\* COMMIT or ROLLBACK, then out of the admission lock.
Release(t) ==
  /\ shared' = shared \ {t}
  /\ exclusive' = exclusive \ {t}
  /\ txn' = txn \ {t}

NoWriter == txn = {}

\* A sweep of /detector that ends here has not written all its rows.
CutShort(t) == at[t] = "sweep" /\ ~(seen[t].cp \subseteq ledger)

-----------------------------------------------------------------------------
(* /submit-candidate *)

\* What the schema lets through (at least one parent) and the client does.
Submittable(p) ==
  /\ p.parents # {}
  /\ Cardinality(p.parents) <= MaxParents
  /\ Cardinality(p.covers) <= MaxParents
  /\ p.id \in FreshNode => p.id \in nodes
  /\ \/ "reuse" \in Lax
     \/ p.id \notin nodes
     \/ Parents(edges, p.id) = p.parents \cup p.covers
  /\ "dangling_covers" \in Lax \/ p.covers \subseteq nodes
  /\ "untyped_covers" \in Lax \/ p.compaction \/ p.covers = {}

\* Slip: the shared lock is not taken.
SubmitEnterUnlocked(t, p) ==
  /\ at[t] = "idle" /\ Submittable(p)
  /\ NoWriter
  /\ txn' = {t}
  /\ Become(t, "decide", p,
       [exist |-> p.parents \cap nodes,
        tainted |-> ({p.id} \cup p.parents \cup p.covers) \cap ledger,
        cp |-> {}])
  /\ UNCHANGED <<tables, shared, exclusive>>

\* Slip: the ledger is read before the lock and the transaction are taken.
SubmitEnterUnguarded(t, p) ==
  /\ at[t] = "idle" /\ Submittable(p)
  /\ Become(t, "decide", p,
       [exist |-> p.parents \cap nodes,
        tainted |-> ({p.id} \cup p.parents \cup p.covers) \cap ledger,
        cp |-> {}])
  /\ UNCHANGED <<tables, locks>>

\* Lock, BEGIN IMMEDIATE, and the look-ups of the id, its parents and covers.
SubmitEnter(t, p) ==
  /\ at[t] = "idle" /\ Submittable(p)
  /\ exclusive = {} /\ NoWriter
  /\ shared' = shared \cup {t}
  /\ txn' = {t}
  /\ Become(t, "decide", p,
       [exist |-> p.parents \cap nodes,
        tainted |-> ({p.id} \cup p.parents \cup p.covers) \cap ledger,
        cp |-> {}])
  /\ UNCHANGED <<tables, exclusive>>

TaintedParents(t) == arg[t].parents \cap seen[t].tainted

\* The two HTTPExceptions raised before the policy is asked: 409 for a
\* quarantined id and 403 TAINTED_COVERS.
Barred(t) ==
  \/ arg[t].id \in seen[t].tainted
  \/ arg[t].compaction /\ arg[t].covers \cap seen[t].tainted # {}

\* Any HTTPException inside the transaction rolls it back: the two above, an
\* unreachable policy engine (503, possible for every request) and a parent
\* content hash that does not match (403).
SubmitRaise(t) ==
  /\ at[t] = "decide"
  /\ Release(t) /\ Finish(t)
  /\ UNCHANGED tables

\* A refused write with a quarantined parent is still committed, quarantined
\* alone, and logged against the first quarantined parent.
SubmitTainted(t) ==
  /\ at[t] = "decide" /\ ~ShadowMode /\ ~Barred(t)
  /\ LET p == arg[t] IN
     \E root \in TaintedParents(t) :
       /\ commit_node(p.id, p.parents \cup p.covers)
       /\ LET c_p == compute_blast_radius(edges', root) IN
          apply_quarantine_transaction(
            [by |-> "tainted_parent", root |-> root, cp |-> c_p,
             digest |-> compute_quarantine_digest(c_p \cup {p.id})],
            {p.id})
       /\ rejections' = rejections \cup {p.id}
       /\ decisions' = decisions \cup {p.id}
  /\ Release(t) /\ Finish(t)
  /\ UNCHANGED torn

\* The other refusals (unresolved parent, unfixed evidence boundary,
\* verification policy) are audited and commit nothing.
SubmitDenied(t) ==
  /\ at[t] = "decide" /\ ~ShadowMode /\ ~Barred(t)
  /\ TaintedParents(t) = {}
  /\ decisions' = decisions \cup {arg[t].id}
  /\ Release(t) /\ Finish(t)
  /\ UNCHANGED <<nodes, edges, ledger, events, rejections, torn>>

\* A duplicate is answered as a success and not audited again.
SubmitAdmit(t) ==
  /\ at[t] = "decide" /\ ~ShadowMode /\ ~Barred(t)
  /\ TaintedParents(t) = {}
  /\ arg[t].parents \subseteq seen[t].exist
  /\ LET p == arg[t] IN
       /\ commit_node(p.id, p.parents \cup p.covers)
       /\ decisions' = decisions \cup ({p.id} \ nodes)
  /\ Release(t) /\ Finish(t)
  /\ UNCHANGED <<ledger, events, rejections, torn>>

\* Shadow mode commits whatever the policy says.  The audit write below it
\* sits in the branch of the enforcing mode and is not reached.
SubmitShadow(t) ==
  /\ at[t] = "decide" /\ ShadowMode /\ ~Barred(t)
  /\ commit_node(arg[t].id, arg[t].parents \cup arg[t].covers)
  /\ Release(t) /\ Finish(t)
  /\ UNCHANGED <<ledger, events, rejections, decisions, torn>>

-----------------------------------------------------------------------------
(* /context-compacted *)

\* The covers are looked up and found unquarantined before any lock is held.
CompactCheck(t, id, covers) ==
  /\ "context-compacted" \in Endpoint
  /\ at[t] = "idle"
  /\ id \in FreshNode => id \in nodes
  /\ Cardinality(covers) <= MaxParents
  /\ covers \subseteq nodes
  /\ covers \cap ledger = {}
  /\ Become(t, "compact",
            [id |-> id, parents |-> covers, covers |-> covers,
             compaction |-> TRUE], NoView)
  /\ UNCHANGED <<tables, locks>>

\* Slip: the commit does not take the shared lock.
CompactCommitUnlocked(t) ==
  /\ at[t] = "compact" /\ NoWriter
  /\ nodes' = nodes \cup {arg[t].id}
  /\ Become(t, "link", arg[t], NoView)
  /\ UNCHANGED <<edges, ledger, events, rejections, decisions, torn, locks>>

\* The shared lock is held around the commit alone: first the row of the
\* node, and nothing more if it is there already ...
CompactCommit(t) ==
  /\ at[t] = "compact"
  /\ exclusive = {} /\ NoWriter
  /\ nodes' = nodes \cup {arg[t].id}
  /\ IF arg[t].id \in nodes
     THEN Finish(t) /\ UNCHANGED shared
     ELSE Become(t, "link", arg[t], NoView) /\ shared' = shared \cup {t}
  /\ UNCHANGED <<edges, ledger, events, rejections, decisions, torn,
                 exclusive, txn>>

\* ... then a row for every parent (a cover that is also a parent has no row
\* of its own) ...
Link(t) ==
  /\ at[t] = "link" /\ NoWriter
  /\ \E p \in arg[t].parents \ Parents(edges, arg[t].id) :
       edges' = edges \cup {<<p, arg[t].id>>}
  /\ UNCHANGED <<nodes, ledger, events, rejections, decisions, torn, locks,
                 tasks>>

\* ... and out of the lock: the request is answered, or a continuity loop
\* goes on to its next dependent.
LinkDone(t) ==
  /\ at[t] = "link"
  /\ arg[t].parents \subseteq Parents(edges, arg[t].id)
  /\ IF arg[t].compaction THEN Finish(t) ELSE Become(t, "emit", Blank, seen[t])
  /\ shared' = shared \ {t}
  /\ UNCHANGED <<tables, exclusive, txn>>

-----------------------------------------------------------------------------
(* /designate and /detector *)

\* Of the root only its id counts.
Designation(root) ==
  [id |-> root, parents |-> {}, covers |-> {}, compaction |-> FALSE]

\* The lock is taken; an unknown or quarantined root returns without a change.
MayDesignate(t, root) ==
  /\ at[t] = "idle"
  /\ exclusive = {} /\ shared = {}
  /\ root \in nodes \ ledger
  /\ Cardinality({e \in events : e.by # "tainted_parent"}) < MaxSweeps

\* The quarantine event of a request that has walked from its root.
Sentence(t, by) ==
  [by |-> by, root |-> arg[t].id, cp |-> seen[t].cp,
   digest |-> compute_quarantine_digest(seen[t].cp)]

DesignateEnter(t, root) ==
  /\ "designate" \in Endpoint
  /\ MayDesignate(t, root) /\ NoWriter
  /\ exclusive' = {t}
  /\ txn' = {t}
  /\ Become(t, "designate", Designation(root),
            SawRadius(compute_blast_radius(edges, root)))
  /\ UNCHANGED <<tables, shared>>

\* A designation with nothing to replace.  One that has a replacement to
\* commit stays inside its lock and its transaction (AdmissionLock.tla).
DesignateApply(t) ==
  /\ at[t] = "designate"
  /\ apply_quarantine_transaction(Sentence(t, "designation"), seen[t].cp)
  /\ Release(t) /\ Finish(t)
  /\ UNCHANGED <<nodes, edges, rejections, decisions, torn>>

\* /detector takes the lock and no transaction.
DetectorEnter(t, root) ==
  /\ "detector" \in Endpoint
  /\ MayDesignate(t, root)
  /\ exclusive' = {t}
  /\ Become(t, "detect", Designation(root),
            SawRadius(compute_blast_radius(edges, root)))
  /\ UNCHANGED <<tables, shared, txn>>

\* Slip: the event names its root and not the radius.
DetectorLogRoot(t) ==
  /\ at[t] = "detect" /\ NoWriter
  /\ events' = events \cup
                 {[Sentence(t, "detector") EXCEPT !.cp = {arg[t].id}]}
  /\ Become(t, "sweep", arg[t], seen[t])
  /\ UNCHANGED <<nodes, edges, ledger, rejections, decisions, torn, locks>>

\* apply_quarantine_transaction outside transaction(): the event row ...
DetectorLog(t) ==
  /\ at[t] = "detect" /\ NoWriter
  /\ events' = events \cup {Sentence(t, "detector")}
  /\ Become(t, "sweep", arg[t], seen[t])
  /\ UNCHANGED <<nodes, edges, ledger, rejections, decisions, torn, locks>>

\* ... the ledger rows, one INSERT OR IGNORE each ...
DetectorRow(t) ==
  /\ at[t] = "sweep" /\ NoWriter
  /\ \E n \in seen[t].cp \ ledger : ledger' = ledger \cup {n}
  /\ UNCHANGED <<nodes, edges, events, rejections, decisions, torn, locks,
                 tasks>>

\* ... and out of the lock.
DetectorDone(t) ==
  /\ at[t] = "sweep" /\ seen[t].cp \subseteq ledger
  /\ Release(t)
  /\ IF "continuity" \in Endpoint
     THEN Become(t, "continuity", Blank, NoView)
     ELSE Finish(t)
  /\ UNCHANGED tables

\* _attempt_safe_continuity reads the ledger and the DAG once: the ids it may
\* build on are the committed ones and the declared parents of its dependents.
ContinuityRead(t) ==
  /\ at[t] = "continuity"
  /\ Become(t, "emit", Blank,
            SawClean((nodes \cup {e[1] : e \in edges}) \ ledger))
  /\ UNCHANGED <<tables, locks>>

\* It then commits one replacement per critical dependent it can serve, below
\* parents that were clean when it read, or else below the fallback.
ContinuityEmit(t) ==
  /\ at[t] = "emit"
  /\ exclusive = {} /\ NoWriter
  /\ \E id \in FreshNode \ nodes,
        parents \in (SUBSET seen[t].exist \ {{}}) \cup {{FallbackParent}} :
       /\ nodes' = nodes \cup {id}
       /\ Become(t, "link", [id |-> id, parents |-> parents, covers |-> {},
                             compaction |-> FALSE], seen[t])
  /\ shared' = shared \cup {t}
  /\ UNCHANGED <<edges, ledger, events, rejections, decisions, torn,
                 exclusive, txn>>

ContinuityFinish(t) ==
  /\ at[t] = "emit"
  /\ Finish(t)
  /\ UNCHANGED <<tables, locks>>

-----------------------------------------------------------------------------
(* /seed-root *)

SeedCheck(t, root) ==
  /\ "seed-root" \in Endpoint
  /\ at[t] = "idle"
  /\ root \notin nodes \cup FreshNode
  /\ Become(t, "seed", Designation(root), NoView)
  /\ UNCHANGED <<tables, locks>>

SeedCommit(t) ==
  /\ at[t] = "seed" /\ NoWriter
  /\ commit_node(arg[t].id, {})
  /\ Finish(t)
  /\ UNCHANGED <<ledger, events, rejections, decisions, torn, locks>>

-----------------------------------------------------------------------------
(* Failure. *)

\* An exception (an I/O error, a busy timeout, a cancelled request) ends a
\* call outside transaction() between two rows.  Nothing rolls back the rows
\* it has written: the next commit on the shared connection keeps them.
Raise(t) ==
  /\ at[t] \in {"compact", "link", "detect", "sweep", "seed"}
  /\ torn' = (torn \/ CutShort(t))
  /\ Release(t) /\ Finish(t)
  /\ UNCHANGED <<nodes, edges, ledger, events, rejections, decisions>>

\* The process dies: requests and lock are gone, an open transaction is
\* rolled back, the rows written outside one survive the restart.
Crash ==
  /\ \E t \in Task : at[t] # "idle"
  /\ torn' = (torn \/ \E t \in Task : CutShort(t))
  /\ shared' = {} /\ exclusive' = {} /\ txn' = {}
  /\ at' = [t \in Task |-> "idle"]
  /\ arg' = [t \in Task |-> Blank]
  /\ seen' = [t \in Task |-> NoView]
  /\ UNCHANGED <<nodes, edges, ledger, events, rejections, decisions>>

-----------------------------------------------------------------------------
SubmitStep(t) ==
  \/ \E p \in Payload : SubmitEnter(t, p)
  \/ SubmitRaise(t) \/ SubmitTainted(t) \/ SubmitDenied(t)
  \/ SubmitAdmit(t) \/ SubmitShadow(t)

CompactStep(t) ==
  \/ \E id \in Node, covers \in SUBSET Node : CompactCheck(t, id, covers)
  \/ CompactCommit(t) \/ Link(t) \/ LinkDone(t)

DesignateStep(t) ==
  \/ \E root \in Node : DesignateEnter(t, root) \/ DetectorEnter(t, root)
  \/ DesignateApply(t)
  \/ DetectorLog(t) \/ DetectorRow(t) \/ DetectorDone(t)

ContinuityStep(t) ==
  ContinuityRead(t) \/ ContinuityEmit(t) \/ ContinuityFinish(t)

SeedStep(t) == (\E root \in Node : SeedCheck(t, root)) \/ SeedCommit(t)

Next ==
  \/ \E t \in Task : SubmitStep(t) \/ CompactStep(t) \/ DesignateStep(t)
                     \/ ContinuityStep(t) \/ SeedStep(t) \/ Raise(t)
  \/ Crash

Spec == Init /\ [][Next]_vars

-----------------------------------------------------------------------------
\* What sweeps under way are about to quarantine.
UnderSweep == UNION {seen[t].cp : t \in {u \in Task : at[u] = "sweep"}}

\* P1, containment: every node with a quarantined parent or cover is itself
\* quarantined, or is about to be by the sweep that is writing its rows, until
\* some sweep of /detector has been cut short.  What /designate, the admission
\* lock and the two commit paths are there for.
ContainmentClosed == torn \/ Closed(edges, ledger \cup UnderSweep)

\* What is left of P1 when sweeps are cut short: a node below a quarantined one
\* that is missing from the ledger is named by an event, so the log suffices to
\* complete every sweep that a crash or an exception tore.
ContainmentLogged ==
  \A e \in edges :
    e[1] \in ledger => e[2] \in ledger \cup UNION {v.cp : v \in events}

\* The last row of a /detector sweep is written and the request moves on.
SweepEnds(t) ==
  at[t] = "sweep" /\ seen[t].cp \subseteq ledger /\ at'[t] # "sweep"

\* A designation quarantines every descendant the root has when the ledger is
\* written, not the ones it had when the walk began: no admission, compaction
\* or replacement slips in between ("closing the phantom race").  /detector has
\* done so when its last row is in.
SweepComplete ==
  [][/\ \A e \in events' \ events : e.by = "designation" =>
          Descendants(edges', Node, e.root) \subseteq ledger'
     /\ \A t \in Task : SweepEnds(t) =>
          Descendants(edges', Node, arg[t].id) \subseteq ledger']_vars

\* A write that /submit-candidate lands in the DAG and leaves unquarantined has
\* parents that are committed and clean at the moment it lands, however the
\* designations interleave with its taint check.
AdmittedClean ==
  [][\A t \in Task :
       /\ at[t] = "decide"
       /\ arg[t].id \in nodes' \ nodes
       /\ arg[t].id \notin ledger'
       => arg[t].parents \subseteq nodes \ ledger']_vars

\* Committed lineage and quarantine are history: no request, retry, race or
\* crash takes a node, an edge or a taint fact back, and no node gets another
\* parent but from the call that is committing it.
AppendOnly ==
  [][/\ ledger \subseteq ledger' /\ nodes \subseteq nodes'
     /\ edges \subseteq edges'
     /\ \A n \in nodes :
          \/ Parents(edges', n) = Parents(edges, n)
          \/ \E t \in Task : at[t] = "link" /\ arg[t].id = n]_vars

\* The audit trail and the ledger account for each other.  Every refused
\* tainted write is in the DAG and in the ledger; what a /designate event names
\* is in the ledger; so is what a /detector event names, unless its rows are
\* being written or a sweep was cut short; and nothing is in the ledger that no
\* rejection and no event names, whatever was cut short.
AuditBacked ==
  /\ rejections \subseteq nodes \cap ledger
  /\ \A e \in events :
       /\ e.by = "designation" => e.cp \subseteq ledger
       /\ e.by = "detector" => torn \/ e.cp \subseteq ledger \cup UnderSweep
  /\ ledger \subseteq rejections \cup UNION {e.cp : e \in events}

\* The monotonic_ledger_digest_post_transition of an event digests the ledger
\* exactly as the event's transition leaves it: at once for the events of a
\* transaction, with the last row for those of /detector.  Once a sweep has
\* been cut short, refused writes digest rows that the ledger lacks.
DigestFaithful ==
  [][/\ \A e \in events' \ events :
          \/ e.by = "detector"
          \/ e.by = "tainted_parent" /\ torn
          \/ e.digest = ledger'
     /\ \A t \in Task : SweepEnds(t) =>
          \E e \in events : /\ e.by = "detector" /\ e.root = arg[t].id
                            /\ e.cp = seen[t].cp /\ e.digest = ledger']_vars

\* "Parents drawn only from the admissible frontier (unquarantined)": no parent
\* of a replacement is quarantined when its row is written.  The
\* fallback, which is not drawn from the frontier, is left aside here.
ReplacementClean ==
  [][\A e \in edges' \ edges :
       e[2] \in FreshNode => e[1] \notin ledger \ {FallbackParent}]_vars

\* "Decisions are recorded in shadow_decisions for auditing": in shadow mode
\* every node that a submission landed has its decision.
ShadowAudited ==
  ShadowMode => \A n \in nodes : Parents(edges, n) # {} => n \in decisions
=============================================================================
