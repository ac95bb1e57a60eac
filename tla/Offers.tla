------------------------------- MODULE Offers -------------------------------
(***************************************************************************)
(* What a refused agent is offered, and when its retry counts.  A write on *)
(* a quarantined parent is refused, quarantined and put on record; the     *)
(* gateway looks for a replacement of the parent, or of an ancestor of it, *)
(* that continuity or an admin has exposed, and offers it.  A later write  *)
(* on the replacement completes the rejected action.  Replacements come    *)
(* from checkpoints (M4) and declared substitutes (M3), read once after a  *)
(* sweep and committed later.                                              *)
(*                                                                         *)
(* /submit-candidate and a sweep are one step each: the admission lock     *)
(* (AdmissionLock, Containment) and transaction() (SqliteSession) make     *)
(* them so; /detector has the lock and no transaction, and its sweep may   *)
(* be cut short.  The handlers that take no lock are split at their        *)
(* awaits.                                                                 *)
(***************************************************************************)
EXTENDS Integers, FiniteSets, Lineage, AdmissionPolicy

CONSTANTS
  Node,            \* ids
  ClientNode,      \* ids that clients submit under, again and again
  FreshNode,       \* ids the gateway draws for replacements
  Task,            \* concurrent requests of the handlers without a lock
  CheckpointId,    \* ids of checkpoints
  Critical,        \* ids with criticality_weight > 0; replacements inherit it
  ClientTarget,    \* values clients give state_content.original_target
  Substitution,    \* pairs of a target and the substitute admins declare for it
  Snapshot,        \* pairs of a target and the records of a checkpoint of it
  Exposable,       \* ids designators expose
  FallbackParent,  \* "clean-parent-1"
  InitNode,        \* the DAG at the start
  InitEdge,
  MaxParents,      \* bound on declared parents
  MaxSweeps,       \* bound on sweeps
  MaxPrepared,     \* bound on exposures, declarations and checkpoints by hand
  NoNode

ASSUME OffersAssumption ==
  /\ IsFiniteSet(Node) /\ NoNode \notin Node
  /\ ClientNode \subseteq Node /\ FreshNode \subseteq Node /\ InitNode \subseteq Node
  /\ ClientNode \cap FreshNode = {} /\ InitNode \cap FreshNode = {}
  /\ ClientTarget \subseteq Node \cup {NoNode}
  /\ Substitution \subseteq Node \X Node /\ Snapshot \subseteq Node \X SUBSET Node
  /\ Exposable \subseteq Node
  /\ FallbackParent \in Node
  /\ InitEdge \subseteq InitNode \X InitNode
  /\ FreshNode \subseteq Critical
  /\ MaxSweeps \in Nat /\ MaxPrepared \in Nat

VARIABLES
  node, edge, ledger,  \* the tables of Containment
  target,              \* state_content.original_target of committed nodes
  exposed,             \* continuity_exposures, by node
  substitute,          \* substitute_declarations: target -> source and time
  checkpoint,          \* checkpoints: id -> target, referenced nodes and time
  rejection,           \* tainted_rejections
  now,                 \* sweeps so far, which is all that times are compared for
  prepared,            \* what admins and designators have asked for so far
  at, loc              \* each request's next step and local variables

tables == <<node, edge, ledger, target, exposed, substitute, checkpoint, rejection, now>>
vars == <<tables, prepared, at, loc>>

Maybe == Node \cup {NoNode}

Substitute == [source : Maybe, time : 0..MaxSweeps]
Checkpoint == [target : Maybe, refs : SUBSET Node, time : 0..MaxSweeps]
Rejection == [node : Node, parent : Node, offered : Maybe,
              type : {"none", "direct", "ancestor"}, completedBy : Maybe]

Place == {"idle", "read", "serve", "expose", "record", "declare"}

TypeOK ==
  /\ node \subseteq Node /\ ledger \subseteq Node /\ exposed \subseteq Node
  /\ edge \subseteq Node \X Node
  /\ target \in [Node -> Maybe]
  /\ substitute \in [Node -> Substitute]
  /\ checkpoint \in [CheckpointId -> Checkpoint]
  /\ rejection \subseteq Rejection
  /\ now \in 0..MaxSweeps
  /\ prepared \in 0..MaxPrepared
  /\ at \in [Task -> Place]

Idle == [swept |-> {}]

\* The DAG at the start is what clients and /seed-root have built.
Init ==
  /\ node = InitNode /\ edge = InitEdge
  /\ ledger = {} /\ exposed = {} /\ rejection = {}
  /\ target = [n \in Node |-> NoNode]
  /\ substitute = [n \in Node |-> [source |-> NoNode, time |-> 0]]
  /\ checkpoint = [k \in CheckpointId |-> [target |-> NoNode, refs |-> {}, time |-> 0]]
  /\ now = 0 /\ prepared = 0
  /\ at = [t \in Task |-> "idle"]
  /\ loc = [t \in Task |-> Idle]

Move(t, place, local) ==
  /\ at' = [at EXCEPT ![t] = place]
  /\ loc' = [loc EXCEPT ![t] = local]

-----------------------------------------------------------------------------
(* Backend operations.                                                     *)

\* INSERT OR IGNORE of a node with its lineage and content.
commit_node(n, P, orig) ==
  IF n \in node THEN UNCHANGED <<node, edge, target>>
  ELSE /\ node' = node \cup {n}
       /\ edge' = edge \cup (P \X {n})
       /\ target' = [target EXCEPT ![n] = orig]

\* Slip: an exposure counts although its record is not committed.
MatchUncommitted(c, N, T, Q) ==
  LET made == {n \in exposed : T[n] = c \/ n \notin N}
      declared == {substitute[c].source} \cap (N \ Q)
  IN  IF made # {} THEN made ELSE declared

\* What would replace a candidate: an exposed record made for it, or else its
\* declared substitute if that is committed and clean.
Match(c, N, T, Q) ==
  LET made == {n \in exposed \cap N : T[n] = c}
      declared == {substitute[c].source} \cap (N \ Q)
  IN  IF made # {} THEN made ELSE declared

\* The breadth-first search from root upwards through quarantined ids, up to
\* the first round that finds a candidate with a match.
Nearest(root, N, E, T, Q) ==
  LET Hits(S) == {c \in S : Match(c, N, T, Q) # {}}
      search[i \in 0..Cardinality(Node)] ==
        IF i = 0 THEN [front |-> {root} \cap Q, seen |-> {root}]
        ELSE LET last == search[i - 1]
                 up == UNION {Parents(E, n) : n \in last.front}
             IN  IF Hits(last.front) # {} THEN last
                 ELSE [front |-> (up \cap Q) \ last.seen, seen |-> last.seen \cup up]
  IN  Hits(search[Cardinality(Node)].front)

\* The first candidate with a match decides; the order of candidates found in
\* the same round, and of exposures, is the database's.
find_continuity_replacement(root, N, E, T, Q) ==
  UNION {[for : {c}, by : Match(c, N, T, Q)] : c \in Nearest(root, N, E, T, Q)}

\* record_tainted_rejection, and record_tainted_offer if there is one.
Rejected(n, root, found) ==
  LET row == [node |-> n, parent |-> root, offered |-> NoNode,
              type |-> "none", completedBy |-> NoNode]
      Offer(h) == {IF r.node = n /\ r.offered = NoNode
                   THEN [r EXCEPT !.offered = h.by,
                                  !.type = IF h.for = root THEN "direct" ELSE "ancestor"]
                   ELSE r : r \in rejection \cup {row}}
  IN  IF found = {} THEN {rejection \cup {row}} ELSE {Offer(h) : h \in found}

\* Slip: rows that are completed already are completed again.
check_retry_again(n, P, disowned) ==
  {IF r.offered \in P THEN [r EXCEPT !.completedBy = n] ELSE r : r \in rejection}

\* The rows that a write on P completes.  Its author counts only for the row
\* that retry_of names: disowned is that row's node if the authors differ.
check_retry_completion(n, P, disowned) ==
  LET done == {r.node : r \in {x \in rejection :
                 /\ x.completedBy = NoNode
                 /\ x.offered \in P
                 /\ x.node # disowned}}
  IN  {IF r.node \in done /\ r.completedBy = NoNode
       THEN [r EXCEPT !.completedBy = n] ELSE r : r \in rejection}

-----------------------------------------------------------------------------
(* /submit-candidate in enforcing mode.                                    *)

\* The schema wants at least one parent.
Lineages == {P \in SUBSET Node : P # {} /\ Cardinality(P) <= MaxParents}

\* A client declares parents, may claim any original_target in its content,
\* and any rejected write as the one it retries.  Ids the gateway draws are
\* known to clients once they are committed.
Submittable(n, P) ==
  /\ n \in ClientNode \cup (FreshNode \cap node)
  /\ P \cap FreshNode \subseteq node

\* Slip: a quarantined id may be submitted again.
SubmitTaintedAgain(n, P) ==
  /\ Submittable(n, P)
  /\ <<P \subseteq node, P \cap ledger = {}, "TAINTED_PARENT">> \in Verdicts
  /\ \E orig \in ClientTarget : commit_node(n, P, orig)
  /\ ledger' = ledger \cup {n}
  /\ \E root \in P \cap ledger :
       rejection' \in Rejected(n, root,
                        find_continuity_replacement(root, node', edge', target', ledger'))
  /\ UNCHANGED <<exposed, substitute, checkpoint, now, prepared, at, loc>>

\* Refused for a tainted parent: committed, quarantined alone, put on record
\* against the first tainted parent, and offered a replacement if there is one.
SubmitTainted(n, P) ==
  /\ Submittable(n, P)
  /\ n \notin ledger
  /\ <<P \subseteq node, P \cap ledger = {}, "TAINTED_PARENT">> \in Verdicts
  /\ \E orig \in ClientTarget : commit_node(n, P, orig)
  /\ ledger' = ledger \cup {n}
  /\ \E root \in P \cap ledger :
       rejection' \in Rejected(n, root,
                        find_continuity_replacement(root, node', edge', target', ledger'))
  /\ UNCHANGED <<exposed, substitute, checkpoint, now, prepared, at, loc>>

\* Slip: a duplicate, which commits nothing, completes what it retries.
SubmitAdmitRepeated(n, P) ==
  /\ Submittable(n, P)
  /\ n \notin ledger
  /\ <<P \subseteq node, P \cap ledger = {}, "ADMIT">> \in Verdicts
  /\ \E orig \in ClientTarget : commit_node(n, P, orig)
  /\ \E disowned \in {NoNode} \cup {r.node : r \in rejection} :
       rejection' = check_retry_completion(n, P, disowned)
  /\ UNCHANGED <<ledger, exposed, substitute, checkpoint, now, prepared, at, loc>>

\* Admitted.  A duplicate is answered as a success and changes nothing; nor
\* does any other refusal, failure or content hash mismatch.
SubmitAdmit(n, P) ==
  /\ Submittable(n, P)
  /\ n \notin ledger \cup node
  /\ <<P \subseteq node, P \cap ledger = {}, "ADMIT">> \in Verdicts
  /\ \E orig \in ClientTarget : commit_node(n, P, orig)
  /\ \E disowned \in {NoNode} \cup {r.node : r \in rejection} :
       rejection' = check_retry_completion(n, P, disowned)
  /\ UNCHANGED <<ledger, exposed, substitute, checkpoint, now, prepared, at, loc>>

-----------------------------------------------------------------------------
(* Sweeps and the continuity that follows them.                            *)

\* Children have a row of their own, so the descendants are among the nodes.
compute_blast_radius(root) == Descendants(edge, node, root)

\* The ledger rows of a sweep.
Contain(root, rows) ==
  /\ root \in node \ ledger
  /\ now < MaxSweeps
  /\ now' = now + 1
  /\ ledger' = ledger \cup rows
  /\ UNCHANGED <<node, edge, target, exposed, substitute, checkpoint, rejection>>

\* A designation with nothing to replace; /designate with something to
\* replace never returns (AdmissionLock).
Designate(root) ==
  /\ Contain(root, compute_blast_radius(root))
  /\ UNCHANGED <<prepared, at, loc>>

\* A crash or an exception between two ledger rows of /detector.
DetectTorn(root) ==
  /\ LET c_p == compute_blast_radius(root) IN
     \E rows \in SUBSET (c_p \ ledger) \ {{}, c_p \ ledger} : Contain(root, rows)
  /\ UNCHANGED <<prepared, at, loc>>

\* /detector goes on to _attempt_safe_continuity once it is out of the lock.
Detect(t, root) ==
  /\ at[t] = "idle"
  /\ Contain(root, compute_blast_radius(root))
  /\ Move(t, "read", [swept |-> compute_blast_radius(root), time |-> now'])
  /\ UNCHANGED prepared

\* get_critical_dependents.
Dependents(swept) ==
  {d \in Critical \cap node : ({d} \cup Parents(edge, d)) \cap swept # {}}

\* Slip: every parent counts as tainted.
RelevantUntested(d) == {d} \cup Parents(edge, d)

\* The quarantined ids behind a dependent.
Relevant(d) == ({d} \cup Parents(edge, d)) \cap ledger

\* M4: a checkpoint from before the containment, none of whose records is
\* quarantined, is replayed below the dependent's clean parents.
Replays(d, contained) ==
  LET clean == Parents(edge, d) \ ledger
      usable == {k \in CheckpointId :
                   /\ checkpoint[k].target \in Relevant(d)
                   /\ checkpoint[k].time < contained
                   /\ checkpoint[k].refs # {} /\ checkpoint[k].refs \cap ledger = {}}
  IN  {[for |-> checkpoint[k].target,
        on |-> IF clean = {} THEN {FallbackParent} ELSE clean] : k \in usable}

\* M3: a substitute from before the containment, committed and clean.
Substitutions(d, contained) ==
  {[for |-> c, on |-> {substitute[c].source}] :
     c \in {x \in Relevant(d) : /\ substitute[x].time < contained
                                /\ substitute[x].source \in node \ ledger}}

\* M4 is preferred.
Options(d, contained) ==
  IF Replays(d, contained) # {} THEN Replays(d, contained)
  ELSE Substitutions(d, contained)

\* The tables are read once, here in one step, and what each dependent may be
\* served follows from what they hold then.
Read(t) ==
  /\ at[t] = "read"
  /\ Move(t, "serve",
       [plan |-> [d \in Dependents(loc[t].swept) |-> Options(d, loc[t].time)]])
  /\ UNCHANGED <<tables, prepared>>

Without(plan, d) == [x \in DOMAIN plan \ {d} |-> plan[x]]

\* One dependent is served: the replacement is committed under the shared lock.
Serve(t) ==
  /\ at[t] = "serve"
  /\ \E d \in DOMAIN loc[t].plan, f \in FreshNode \ node :
     \E o \in loc[t].plan[d] :
       /\ commit_node(f, o.on, o.for)
       /\ Move(t, "record", [plan |-> Without(loc[t].plan, d), made |-> f])
  /\ UNCHANGED <<ledger, exposed, substitute, checkpoint, rejection, now, prepared>>

\* The replacement is exposed in a call of its own.
Record(t) ==
  /\ at[t] = "record"
  /\ exposed' = exposed \cup {loc[t].made}
  /\ Move(t, "serve", [plan |-> loc[t].plan])
  /\ UNCHANGED <<node, edge, ledger, target, substitute, checkpoint, rejection, now, prepared>>

\* A dependent without an admissible replacement is only reported.
Escalate(t) ==
  /\ at[t] = "serve"
  /\ \E d \in DOMAIN loc[t].plan :
       /\ loc[t].plan[d] = {}
       /\ Move(t, "serve", [plan |-> Without(loc[t].plan, d)])
  /\ UNCHANGED <<tables, prepared>>

Return(t) ==
  /\ at[t] = "serve" /\ DOMAIN loc[t].plan = {}
  /\ Move(t, "idle", Idle)
  /\ UNCHANGED <<tables, prepared>>

-----------------------------------------------------------------------------
(* What admins and designators prepare.  Nothing here takes a lock.        *)

Prepare == prepared < MaxPrepared /\ prepared' = prepared + 1

\* /continuity-expose: the id need not be committed.
ExposeCheck(t, n) ==
  /\ Prepare
  /\ at[t] = "idle"
  /\ n \notin ledger \cup (FreshNode \ node)
  /\ Move(t, "expose", [node |-> n])
  /\ UNCHANGED tables

Expose(t) ==
  /\ at[t] = "expose"
  /\ exposed' = exposed \cup {loc[t].node}
  /\ Move(t, "idle", Idle)
  /\ UNCHANGED <<node, edge, ledger, target, substitute, checkpoint, rejection, now, prepared>>

\* /declare-substitute: the time is the one the admin gives, who is honest.
DeclareCheck(t, c, source) ==
  /\ Prepare
  /\ at[t] = "idle"
  /\ source \in node \ ledger
  /\ Move(t, "declare", [target |-> c, source |-> source, time |-> now])
  /\ UNCHANGED tables

Declare(t) ==
  /\ at[t] = "declare"
  /\ substitute' = [substitute EXCEPT ![loc[t].target] =
                      [source |-> loc[t].source, time |-> loc[t].time]]
  /\ Move(t, "idle", Idle)
  /\ UNCHANGED <<node, edge, ledger, target, exposed, checkpoint, rejection, now, prepared>>

\* /checkpoint stores whatever it is given.
DeclareCheckpoint(k, c, refs) ==
  /\ Prepare
  /\ checkpoint' = [checkpoint EXCEPT ![k] = [target |-> c, refs |-> refs, time |-> now]]
  /\ UNCHANGED <<node, edge, ledger, target, exposed, substitute, rejection, now, at, loc>>

\* The process dies: requests are gone, committed rows stay.
Crash ==
  /\ \E t \in Task : at[t] # "idle"
  /\ at' = [t \in Task |-> "idle"]
  /\ loc' = [t \in Task |-> Idle]
  /\ UNCHANGED <<tables, prepared>>

Submit ==
  \E n \in ClientNode \cup FreshNode, P \in Lineages :
    SubmitTainted(n, P) \/ SubmitAdmit(n, P)

Continuity(t) ==
  \/ \E root \in Node : Detect(t, root)
  \/ Read(t) \/ Serve(t) \/ Record(t) \/ Escalate(t) \/ Return(t)

Admin(t) ==
  \/ \E n \in Exposable : ExposeCheck(t, n)
  \/ Expose(t)
  \/ \E p \in Substitution : DeclareCheck(t, p[1], p[2])
  \/ Declare(t)

Next ==
  \/ Submit
  \/ \E root \in Node : Designate(root) \/ DetectTorn(root)
  \/ \E t \in Task : Continuity(t) \/ Admin(t)
  \/ \E k \in CheckpointId, p \in Snapshot : DeclareCheckpoint(k, p[1], p[2])
  \/ Crash

Spec == Init /\ [][Next]_vars

-----------------------------------------------------------------------------
\* A write lands unquarantined, on a fresh client id, only if every parent it
\* declares is committed and clean at that moment: whatever the policy engine
\* does, the combined or the sequential path refuses or fails (evaluate_admission,
\* and the FAIL-CLOSED branch of submit_candidate).
AdmittedRests ==
  [][\A n \in (node' \ node) \ (ledger' \cup FreshNode) :
       Parents(edge', n) \subseteq node \ ledger]_vars

\* At most one rejection is on record for an id, so that the updates of
\* record_tainted_offer and check_retry_completion, which select rows by
\* node_id, touch the row they mean.  The 409 of submit_candidate gives it.
OneRow == \A r, s \in rejection : r.node = s.node => r = s

\* What is offered is a committed node, however exposures and commits interleave:
\* an exposure without a node row is passed over (find_continuity_replacement).
OfferedCommitted ==
  \A r \in rejection : r.offered # NoNode => r.offered \in node

\* A completed action was offered a replacement, and the write that completed
\* it is committed on that replacement (check_retry_completion: "Structural
\* match only: replacement must be among parents").
CompletionBacked ==
  \A r \in rejection : r.completedBy # NoNode =>
    /\ r.offered # NoNode
    /\ r.completedBy \in node
    /\ r.offered \in Parents(edge, r.completedBy)

\* Offers go stale, completions do not: a step that completes an action commits
\* a clean write on a replacement that is clean in that step, even if a sweep
\* has passed since the offer (submit_candidate, check_retry_completion).
CompletionClean ==
  [][\A r \in rejection' : r.completedBy # NoNode /\ r \notin rejection =>
       /\ r.completedBy \in node' \ (node \cup ledger')
       /\ r.offered \in node \ ledger]_vars

\* Offers and completions are final: a later offer or a second retry does not
\* rewrite them (the guards "offered = 0" and "completed = 0").
WriteOnce ==
  [][\A r \in rejection : \E s \in rejection' :
       /\ s.node = r.node /\ s.parent = r.parent
       /\ r.offered # NoNode => s.offered = r.offered /\ s.type = r.type
       /\ r.completedBy # NoNode => s.completedBy = r.completedBy]_vars

\* Every replacement the gateway commits stands for a quarantined node, though
\* the loop of _attempt_safe_continuity works on what it read before.
ReplacesQuarantined ==
  \A f \in FreshNode \cap node : target[f] \in ledger

-----------------------------------------------------------------------------
(* What the code does not give; the README names instances.                *)

\* A node that is offered is not quarantined at that time.
OfferedClean ==
  [][\A r \in rejection' \ rejection :
       r.offered # NoNode /\ r.completedBy = NoNode => r.offered \notin ledger']_vars

\* "no exposed item may be in Q", when it is recorded (/continuity-expose).
ExposedClean == [][(exposed' \ exposed) \cap ledger = {}]_vars

\* "the continuity mechanism filters by declaration time" (/declare-substitute):
\* a substitute declared since the latest sweep is not offered.
SubstitutePredates ==
  [][\A r \in rejection' \ rejection :
       r.offered # NoNode /\ r.completedBy = NoNode =>
         \/ r.offered \in exposed
         \/ \E c \in Node : substitute[c].source = r.offered /\ substitute[c].time < now]_vars
=============================================================================
