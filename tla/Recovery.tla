------------------------------ MODULE Recovery ------------------------------
(***************************************************************************)
(* Repair (R1-R5) and recurrence control (R6).  compute_blast_radius, run   *)
(* by /detector under the exclusive lock and by /observe under none, plans *)
(* the repair of the compactions it reaches; after its sweep, /detector    *)
(* attempts every pending reconstruction, commits the rebuilt node and     *)
(* opens a trust horizon for it; /renew-trust extends horizons.            *)
(*                                                                         *)
(* Every statement of these handlers runs outside transaction(), on the    *)
(* connection that all requests share, and is a step of its own, durable   *)
(* at once for the reason Containment.tla gives.  Two merges are exact: an *)
(* executemany is one call of the connection's thread, and the ledger rows *)
(* of a sweep are only tested for disjointness by others, so a reader      *)
(* between two rows sees what it would see before them or after them.      *)
(*                                                                         *)
(* The lineage that clients built is fixed here: only reconstructions add  *)
(* nodes.                                                                  *)
(***************************************************************************)
EXTENDS Naturals, FiniteSets, Sequences, Lineage

CONSTANTS
  Base,              \* ids that clients built lineage from
  Graphs,            \* the lineage they may have built
  FreshNode,         \* "reconstructed-<uuid4>"
  Task,              \* concurrent requests
  MaxSignals,        \* bound on the designations and observations
  MaxAmplification,  \* settings.MAX_WITHDRAWAL_AMPLIFICATION
  None

\* What commit_node leaves of client payloads.  It looks for no parent or cover
\* and for no cycle; the edge rows are those of the payload's parents and
\* covers, or some of them where a commit was cut short.
IsLineage(g) ==
  /\ g \in [nodes : SUBSET Base, declared : SUBSET (Base \X Base),
            covers : SUBSET (Base \X Base), edges : SUBSET (Base \X Base),
            carried : SUBSET (Base \X Base)]
  /\ \A e \in g.declared \cup g.covers : e[2] \in g.nodes
  /\ g.edges \subseteq g.declared \cup g.covers
  /\ g.carried \subseteq g.edges \cap g.declared

ASSUME RecoveryAssumption ==
  /\ IsFiniteSet(Base) /\ IsFiniteSet(FreshNode)
  /\ Base \cap FreshNode = {}
  /\ \A g \in Graphs : IsLineage(g)
  /\ MaxSignals \in Nat /\ MaxAmplification \in Nat
  /\ None \notin Base \cup FreshNode \cup Task

Node == Base \cup FreshNode

VARIABLES
  nodes,        \* ids in the nodes table
  declared,     \* <<parent, child>> of the payloads' commitments
  covers,       \* <<covered, compaction>> of the payloads' covers[]
  edges,        \* <<parent, child>> rows of the edges table
  carried,      \* those of edge_class CARRIED
  useAdapter,   \* RECOVERY_ADAPTER_URL is set
  ledger,       \* quarantine_ledger
  tmp,          \* _blast_radius_tmp, a table of the shared connection
  crossed,      \* history: compactions a walk took for affected that are not
  repair,       \* repair_candidates: compaction -> candidate
  horizon,      \* reintegration_horizon: node -> predecessor and state
  evidence,     \* ids in reintegration_evidence
  recurrences,  \* recurrence_events, in the order of their rows
  withdrawn,    \* withdrawal_ledger: node -> its event in that order, or 0
  signals,      \* designations and observations so far
  owner,        \* the task inside _admission_exclusive()
  at,           \* what each task does next
  loc           \* its local variables

graph == <<nodes, declared, covers, edges, carried, useAdapter>>
walk == <<tmp, crossed>>
incident == <<ledger, recurrences, withdrawn>>
rebuilding == <<repair, horizon, evidence>>
control == <<signals, owner>>
vars == <<nodes, declared, covers, edges, carried, useAdapter, ledger, tmp,
          crossed, repair, horizon, evidence, recurrences, withdrawn, signals,
          owner, at, loc>>

Covered(c) == Parents(covers, c)

Candidate ==
  [disposition : {"none", "PENDING", "REDUCIBLE", "IRREDUCIBLE"},
   frontier : SUBSET Base, rebuilt : FreshNode \cup {None}]

NoCandidate == [disposition |-> "none", frontier |-> {}, rebuilt |-> None]
Irreducible(F) ==
  [disposition |-> "IRREDUCIBLE", frontier |-> F, rebuilt |-> None]
Pending(F) == [disposition |-> "PENDING", frontier |-> F, rebuilt |-> None]
Terminal == {"REDUCIBLE", "IRREDUCIBLE"}

NoTrust == [state |-> "none", predecessor |-> None]

\* root, radius, hooks: the node designated or renewed, the c_p of its sweep
\* and the horizons still to be looked after; node, reach: where the walk in
\* hand began and its c_p; todo: the compactions still to be planned or
\* attempted; event: the recurrence event whose rows are written; plan:
\* repair_candidates as get_repair_candidates returned them; cur: the one in
\* hand; made: the id of the candidate built for it.
Locals ==
  [root : Node \cup {None}, radius : SUBSET Node, hooks : SUBSET Node,
   node : Node \cup {None}, reach : SUBSET Node, todo : SUBSET Base,
   event : Nat, plan : [Base -> Candidate], cur : Base \cup {None},
   made : FreshNode \cup {None}]

NoPlan == [c \in Base |-> NoCandidate]
NoLocals ==
  [root |-> None, radius |-> {}, hooks |-> {}, node |-> None, reach |-> {},
   todo |-> {}, event |-> 0, plan |-> NoPlan, cur |-> None, made |-> None]

Place == {"idle", "clear", "fill", "select", "plan", "planWrite", "withdraw",
          "hook", "read", "attempt", "ask", "commit", "link", "trust",
          "evidence", "record", "renew"}

TypeOK ==
  /\ nodes \subseteq Node
  /\ declared \subseteq Node \X Node /\ covers \subseteq Node \X Node
  /\ edges \subseteq Node \X Node /\ carried \subseteq Base \X Base
  /\ useAdapter \in BOOLEAN
  /\ ledger \subseteq Node /\ tmp \subseteq Node /\ crossed \subseteq Base
  /\ evidence \subseteq Node
  /\ repair \in [Base -> Candidate]
  /\ horizon \in [Node -> [state : {"none", "active", "expired"},
                           predecessor : Base \cup {None}]]
  /\ recurrences \in Seq([node : Node, escalated : BOOLEAN])
  /\ withdrawn \in [Node -> Nat]
  /\ signals \in 0..MaxSignals
  /\ owner \in Task \cup {None}
  /\ at \in [Task -> Place]
  /\ loc \in [Task -> Locals]

\* Nothing has been designated yet.
Init ==
  /\ \E g \in Graphs :
       /\ nodes = g.nodes /\ declared = g.declared /\ covers = g.covers
       /\ edges = g.edges /\ carried = g.carried
  /\ useAdapter \in BOOLEAN
  /\ ledger = {} /\ evidence = {} /\ tmp = {} /\ crossed = {}
  /\ recurrences = << >>
  /\ withdrawn = [n \in Node |-> 0]
  /\ repair = NoPlan
  /\ horizon = [n \in Node |-> NoTrust]
  /\ signals = 0
  /\ owner = None
  /\ at = [t \in Task |-> "idle"]
  /\ loc = [t \in Task |-> NoLocals]

Go(t, place, locals) ==
  /\ at' = [at EXCEPT ![t] = place]
  /\ loc' = [loc EXCEPT ![t] = locals]

Finish(t) == Go(t, "idle", NoLocals)

\* An exception unwinds the request, out of the lock if it was inside.
Leave(t) ==
  /\ Finish(t)
  /\ owner' = IF owner = t THEN None ELSE owner

-----------------------------------------------------------------------------
(* Slips of the code, used to show that the properties below can fail.     *)

\* The frontier is all of covers[].
FrontierUnfiltered(t) == Covered(loc[t].cur)

\* The adapter echoes the frontier it was asked for.
AdapterAgreesAlways(t) == TRUE

\* One edge row is written whose parent is the whole frontier.
LinkUnrolled(t) ==
  /\ at[t] = "link"
  /\ edges' = edges \cup {<<loc[t].plan[loc[t].cur].frontier, loc[t].made>>}
  /\ Go(t, "trust", loc[t])
  /\ UNCHANGED <<nodes, declared, covers, carried, useAdapter, walk, incident,
                 rebuilding, control>>

\* The disposition is recorded before the horizon and the evidence.
LinkThenRecord(t) ==
  /\ at[t] = "link"
  /\ loc[t].plan[loc[t].cur].frontier \subseteq Parents(edges, loc[t].made)
  /\ Go(t, "record", loc[t])
  /\ UNCHANGED <<graph, walk, incident, rebuilding, control>>

\* The circuit breaker is one too late.
EscalatesLate(t) == Cardinality(loc[t].reach) > MaxAmplification + 1

-----------------------------------------------------------------------------
(* compute_blast_radius. *)

\* The children of a CARRIED edge out of a set of ids.
Affected(ids) == UNION {Children(carried, n) : n \in ids}

\* The walk over the edges table, read at once below 10 000 edges.
Walk(t, locals, n) ==
  Go(t, "clear", [locals EXCEPT !.node = n,
                                !.reach = Descendants(edges, Node, n)])

\* /detector, under the exclusive lock and outside a transaction.
DetectorEnter(t, root) ==
  /\ at[t] = "idle" /\ owner = None
  /\ \A u \in Task : at[u] # "link"
  /\ root \in nodes \ ledger
  /\ owner' = t
  /\ signals < MaxSignals /\ signals' = signals + 1
  /\ Walk(t, [NoLocals EXCEPT !.root = root], root)
  /\ UNCHANGED <<graph, walk, incident, rebuilding>>

\* /observe, within its rate limits (RateLimit.tla), with no lock.
ObserveEnter(t, n) ==
  /\ at[t] = "idle"
  /\ n \in Base \cup nodes
  /\ signals < MaxSignals /\ signals' = signals + 1
  /\ Walk(t, NoLocals, n)
  /\ UNCHANGED <<graph, walk, incident, rebuilding, owner>>

\* The affected compactions are found by a join with a temporary table that
\* all walks share.  It is emptied ...
ClearTmp(t) ==
  /\ at[t] = "clear"
  /\ tmp' = {}
  /\ Go(t, "fill", loc[t])
  /\ UNCHANGED <<graph, crossed, incident, rebuilding, control>>

\* ... filled ...
FillTmp(t) ==
  /\ at[t] = "fill"
  /\ tmp \cap loc[t].reach = {}
  /\ tmp' = tmp \cup loc[t].reach
  /\ Go(t, "select", loc[t])
  /\ UNCHANGED <<graph, crossed, incident, rebuilding, control>>

\* ... which fails on an id that another walk has put there, with the rows
\* before it written (the ids are sorted, and any id may come first) ...
FillClash(t) ==
  /\ at[t] = "fill"
  /\ tmp \cap loc[t].reach # {}
  /\ \E rows \in SUBSET (loc[t].reach \ tmp) : tmp' = tmp \cup rows
  /\ Leave(t)
  /\ UNCHANGED <<graph, crossed, incident, rebuilding, signals>>

\* ... and joined, whatever it holds by then.
SelectAffected(t) ==
  /\ at[t] = "select"
  /\ Go(t, "plan", [loc[t] EXCEPT !.todo = Affected(tmp)])
  /\ crossed' = crossed \cup (Affected(tmp) \ Affected(loc[t].reach))
  /\ UNCHANGED <<graph, tmp, incident, rebuilding, control>>

\* R1 and R2.  A compaction that has reached a terminal disposition is left
\* alone.
PlanLook(t) ==
  /\ at[t] = "plan"
  /\ \E c \in loc[t].todo :
       LET rest == [loc[t] EXCEPT !.todo = @ \ {c}] IN
       IF repair[c].disposition \in Terminal
       THEN Go(t, "plan", rest)
       ELSE Go(t, "planWrite", [rest EXCEPT !.cur = c])
  /\ UNCHANGED <<graph, walk, incident, rebuilding, control>>

\* R1: what the compaction covers and this walk did not reach.
Frontier(t) == Covered(loc[t].cur) \ loc[t].reach

\* R2: pending with a frontier, a known summarizer and a checkpoint in the
\* frontier; irreducible without, or with external effects in the radius.
PlanWrite(t) ==
  /\ at[t] = "planWrite"
  /\ \E plan \in {Irreducible({})} \cup
                 {Pending(F) : F \in {Frontier(t)} \ {{}}} :
       repair' = [repair EXCEPT ![loc[t].cur] = plan]
  /\ Go(t, "plan", [loc[t] EXCEPT !.cur = None])
  /\ UNCHANGED <<graph, walk, incident, horizon, evidence, control>>

-----------------------------------------------------------------------------
(* R6: withdrawal, and the sweep it is part of. *)

\* The walk in hand is that of the designation, not of a recurrence.
Sweeping(t) == owner = t /\ loc[t].radius = {}

Escalates(t) == Cardinality(loc[t].reach) > MaxAmplification

\* process_recurrence, after its walk.  The circuit breaker: above the bound
\* the event is recorded and nothing is withdrawn.
LogRecurrence(t) ==
  /\ at[t] = "plan" /\ loc[t].todo = {} /\ ~Sweeping(t)
  /\ recurrences' = Append(recurrences, [node |-> loc[t].node,
                                         escalated |-> Escalates(t)])
  /\ Go(t, "withdraw",
        [loc[t] EXCEPT !.event = Len(recurrences) + 1,
                       !.reach = IF Escalates(t) THEN {} ELSE @])
  /\ UNCHANGED <<graph, walk, ledger, withdrawn, rebuilding, control>>

\* INSERT OR IGNORE: a row names the event that withdrew the node first.
WithdrawRow(t) ==
  /\ at[t] = "withdraw"
  /\ \E n \in {m \in loc[t].reach : withdrawn[m] = 0} :
       withdrawn' = [withdrawn EXCEPT ![n] = loc[t].event]
  /\ UNCHANGED <<graph, walk, ledger, recurrences, rebuilding, control, at, loc>>

\* /observe is answered; /detector looks after the next horizon.
WithdrawDone(t) ==
  /\ at[t] = "withdraw"
  /\ \A n \in loc[t].reach : withdrawn[n] # 0
  /\ IF owner = t
     THEN Go(t, "hook", [loc[t] EXCEPT !.node = None, !.reach = {}, !.event = 0])
     ELSE Finish(t)
  /\ UNCHANGED <<graph, walk, incident, rebuilding, control>>

\* get_active_horizon_set, once the sweep has planned.
HookRead(t) ==
  /\ at[t] = "plan" /\ loc[t].todo = {} /\ Sweeping(t)
  /\ Go(t, "hook",
        [loc[t] EXCEPT !.radius = loc[t].reach, !.node = None, !.reach = {},
           !.hooks = {n \in loc[t].reach : horizon[n].state = "active"}])
  /\ UNCHANGED <<graph, walk, incident, rebuilding, control>>

\* RENEWED_DESIGNATION, for every node of the radius with an active horizon.
HookNext(t) ==
  /\ at[t] = "hook"
  /\ \E n \in loc[t].hooks : Walk(t, [loc[t] EXCEPT !.hooks = @ \ {n}], n)
  /\ UNCHANGED <<graph, walk, incident, rebuilding, control>>

\* The ledger rows, and out of the lock ...
Apply(t) ==
  /\ at[t] = "hook" /\ loc[t].hooks = {}
  /\ ledger' = ledger \cup loc[t].radius
  /\ owner' = None
  /\ Go(t, "read", [loc[t] EXCEPT !.radius = {}])
  /\ UNCHANGED <<graph, walk, recurrences, withdrawn, rebuilding, signals>>

\* ... unless an exception, or a crash, cuts them short.
ApplyTorn(t) ==
  /\ at[t] = "hook" /\ loc[t].hooks = {}
  /\ \E rows \in SUBSET loc[t].radius \ {{}, loc[t].radius} :
       ledger' = ledger \cup rows
  /\ Leave(t)
  /\ UNCHANGED <<graph, walk, recurrences, withdrawn, rebuilding, signals>>

-----------------------------------------------------------------------------
(* _attempt_reconstruction, R3 to R5, after the lock has been released.    *)

\* On to the next candidate.
GoOn(t) == Go(t, "attempt", [loc[t] EXCEPT !.cur = None, !.made = None])

\* Every pending candidate is attempted, whichever sweep planned it.
AttemptRead(t) ==
  /\ at[t] = "read"
  /\ Go(t, "attempt",
        [loc[t] EXCEPT !.plan = repair,
           !.todo = {c \in Base : repair[c].disposition = "PENDING"}])
  /\ UNCHANGED <<graph, walk, incident, rebuilding, control>>

AttemptNext(t) ==
  /\ at[t] = "attempt"
  /\ IF loc[t].todo = {} THEN Finish(t)
     ELSE \E c \in loc[t].todo :
            Go(t, "ask", [loc[t] EXCEPT !.todo = @ \ {c}, !.cur = c])
  /\ UNCHANGED <<graph, walk, incident, rebuilding, control>>

\* R4: the adapter derives the frontier itself, walking only the declared
\* parents, and from the root of this request.
AdapterAgrees(t) ==
  loc[t].plan[loc[t].cur].frontier =
    Covered(loc[t].cur) \ Descendants(declared, Node, loc[t].root)

\* A candidate comes back and passes the signature, identity and frontier
\* checks.
Built(t) ==
  \E id \in FreshNode \ (nodes \cup {loc[u].made : u \in Task}) :
    Go(t, "commit", [loc[t] EXCEPT !.made = id])

AskAdapter(t) ==
  /\ at[t] = "ask" /\ useAdapter /\ AdapterAgrees(t)
  /\ Built(t)
  /\ UNCHANGED <<graph, walk, incident, rebuilding, control>>

\* REQ-009: without an adapter the gateway builds and signs the candidate
\* itself, on the frontier it planned.
BuildInline(t) ==
  /\ at[t] = "ask" /\ ~useAdapter
  /\ Built(t)
  /\ UNCHANGED <<graph, walk, incident, rebuilding, control>>

\* The adapter refuses or fails, or one of the checks does: there is a
\* disposition for it.
AskRefused(t) ==
  /\ at[t] = "ask" /\ useAdapter
  /\ repair' = [repair EXCEPT ![loc[t].cur] =
                  Irreducible(loc[t].plan[loc[t].cur].frontier)]
  /\ GoOn(t)
  /\ UNCHANGED <<graph, walk, incident, horizon, evidence, control>>

\* A timeout or any other exception: the disposition is set in memory and
\* the table keeps what it has, as do the rows written so far.
AttemptRaise(t) ==
  /\ at[t] \in {"ask", "commit", "link", "trust", "evidence", "record"}
  /\ GoOn(t)
  /\ UNCHANGED <<graph, walk, incident, rebuilding, control>>

\* R5: under the shared lock, the row of the candidate with its payload,
\* which declares and covers the frontier ...
Commit(t) ==
  /\ at[t] = "commit" /\ owner = None
  /\ LET lineage == loc[t].plan[loc[t].cur].frontier \X {loc[t].made} IN
       /\ nodes' = nodes \cup {loc[t].made}
       /\ declared' = declared \cup lineage
       /\ covers' = covers \cup lineage
  /\ Go(t, "link", loc[t])
  /\ UNCHANGED <<edges, carried, useAdapter, walk, incident, rebuilding,
                 control>>

\* ... then its edges, one row after the other (no CARRIED one among them).
Link(t) ==
  /\ at[t] = "link"
  /\ \E p \in loc[t].plan[loc[t].cur].frontier \ Parents(edges, loc[t].made) :
       edges' = edges \cup {<<p, loc[t].made>>}
  /\ UNCHANGED <<nodes, declared, covers, carried, useAdapter, walk, incident,
                 rebuilding, control, at, loc>>

\* All rows are there: the call commits and the lock is released.
LinkDone(t) ==
  /\ at[t] = "link"
  /\ loc[t].plan[loc[t].cur].frontier \subseteq Parents(edges, loc[t].made)
  /\ Go(t, "trust", loc[t])
  /\ UNCHANGED <<graph, walk, incident, rebuilding, control>>

record_reintegration(t) ==
  /\ at[t] = "trust"
  /\ horizon' = [horizon EXCEPT ![loc[t].made] =
                   [state |-> "active", predecessor |-> loc[t].cur]]
  /\ Go(t, "evidence", loc[t])
  /\ UNCHANGED <<graph, walk, incident, repair, evidence, control>>

record_reintegration_evidence(t) ==
  /\ at[t] = "evidence"
  /\ evidence' = evidence \cup {loc[t].made}
  /\ Go(t, "record", loc[t])
  /\ UNCHANGED <<graph, walk, incident, repair, horizon, control>>

RecordReducible(t) ==
  /\ at[t] = "record"
  /\ repair' = [repair EXCEPT ![loc[t].cur] =
                  [disposition |-> "REDUCIBLE", rebuilt |-> loc[t].made,
                   frontier |-> loc[t].plan[loc[t].cur].frontier]]
  /\ GoOn(t)
  /\ UNCHANGED <<graph, walk, incident, horizon, evidence, control>>

-----------------------------------------------------------------------------
(* Trust horizons. *)

\* /renew-trust: the node and its declared parents are not quarantined ...
\* (Only rebuilt nodes have a horizon; for another the update finds no row.)
RenewCheck(t, n) ==
  /\ at[t] = "idle"
  /\ ({n} \cup Parents(declared, n)) \cap ledger = {}
  /\ Go(t, "renew", [NoLocals EXCEPT !.root = n])
  /\ UNCHANGED <<graph, walk, incident, rebuilding, control>>

\* ... and then the row, if there is one, gets another horizon.
renew_trust(t) ==
  /\ at[t] = "renew"
  /\ horizon' = [horizon EXCEPT ![loc[t].root] =
                   IF @.state = "none" THEN @
                   ELSE [@ EXCEPT !.state = "active"]]
  /\ Finish(t)
  /\ UNCHANGED <<graph, walk, incident, repair, evidence, control>>

\* trust_expires_utc passes.
Expire(n) ==
  /\ horizon[n].state = "active"
  /\ horizon' = [horizon EXCEPT ![n].state = "expired"]
  /\ UNCHANGED <<graph, walk, incident, repair, evidence, control, at, loc>>

-----------------------------------------------------------------------------
(* Failures. *)

\* A statement raises outside the handlers of an attempt, or the client goes
\* away and the request is cancelled: the rows written so far stay.
Raise(t) ==
  /\ at[t] # "idle"
  /\ Leave(t)
  /\ UNCHANGED <<graph, walk, incident, rebuilding, signals>>

\* The process dies.  What unfinished calls have written may be left half
\* done; the temporary table goes with the connection.
Crash ==
  /\ \E t \in Task : at[t] # "idle"
  /\ tmp' = {} /\ owner' = None
  /\ at' = [t \in Task |-> "idle"]
  /\ loc' = [t \in Task |-> NoLocals]
  /\ UNCHANGED <<graph, crossed, incident, rebuilding, signals>>

-----------------------------------------------------------------------------
WalkStep(t) ==
  \/ \E n \in Node : DetectorEnter(t, n) \/ ObserveEnter(t, n)
  \/ ClearTmp(t) \/ FillTmp(t) \/ FillClash(t) \/ SelectAffected(t)
  \/ PlanLook(t) \/ PlanWrite(t)

SweepStep(t) ==
  \/ LogRecurrence(t) \/ WithdrawRow(t) \/ WithdrawDone(t)
  \/ HookRead(t) \/ HookNext(t) \/ Apply(t) \/ ApplyTorn(t)

AttemptStep(t) ==
  \/ AttemptRead(t) \/ AttemptNext(t) \/ AskAdapter(t) \/ BuildInline(t)
  \/ AskRefused(t) \/ AttemptRaise(t) \/ Commit(t) \/ Link(t) \/ LinkDone(t)
  \/ record_reintegration(t) \/ record_reintegration_evidence(t)
  \/ RecordReducible(t)

RenewStep(t) == (\E n \in FreshNode : RenewCheck(t, n)) \/ renew_trust(t)

Next ==
  \/ \E t \in Task :
       WalkStep(t) \/ SweepStep(t) \/ AttemptStep(t) \/ RenewStep(t) \/ Raise(t)
  \/ \E n \in FreshNode : Expire(n)
  \/ Crash

Spec == Init /\ [][Next]_vars

-----------------------------------------------------------------------------
\* A REDUCIBLE disposition on record names a rebuilt node that is committed
\* below exactly the recorded frontier, has its evidence, and has a horizon
\* that names the compaction it stands for: no crash, exception, half-written
\* commit or second request attempting the same candidate leaves a disposition
\* without its reintegration.
ReducibleBacked ==
  \A c \in Base : repair[c].disposition = "REDUCIBLE" =>
    LET n == repair[c].rebuilt IN
      /\ n \in nodes \cap evidence
      /\ Parents(edges, n) = repair[c].frontier
      /\ horizon[n].state # "none" /\ horizon[n].predecessor = c

\* The part of a relation that clients built; rebuilt nodes are its leaves.
OfBase(E) == E \cap (Base \X Base)

\* R1: what a rebuilt node declares is what the blast radius of one root left
\* of the covers of one compaction, so it does not descend from that root; and
\* its edge rows, all written or not, say no more.  The compaction was reached
\* by a CARRIED edge from that radius, unless two walks crossed in the shared
\* temporary table; and none of this depends on what was designated, observed
\* or replanned between planning and commit.
RebuiltFromFrontier ==
  nodes \cap FreshNode # {} =>
    LET Radius == [r \in Node |-> Descendants(OfBase(edges), Base \cup {r}, r)]
    IN \A n \in nodes \cap FreshNode :
         /\ Parents(edges, n) \subseteq Parents(declared, n)
         /\ \E c \in Base, r \in Node :
              /\ Parents(declared, n) = Covered(c) \ Radius[r]
              /\ c \in Affected(Radius[r]) \cup crossed

\* R4: with an adapter, a rebuilt node avoids the declared descendants of a
\* quarantined root as well: the derivation of the root it was attempted for,
\* not only that of the root it was planned for.
RebuiltTwiceDerived ==
  useAdapter /\ nodes \cap FreshNode # {} =>
    LET Radius ==
          [r \in ledger |-> Descendants(OfBase(declared), Base \cup {r}, r)] IN
      \A n \in nodes \cap FreshNode : \E c \in Base, r \in ledger :
        Parents(declared, n) = Covered(c) \ Radius[r]

\* R6: the rows that name one recurrence event, whether it was observed or
\* raised by the hook, are at most MaxAmplification descendants of its node,
\* and none when it was escalated: although the closure was computed earlier,
\* the rows are written one by one beside those of other events, and the graph
\* may have grown since.
WithdrawalBacked ==
  /\ \A n \in Node : withdrawn[n] \in 0..Len(recurrences)
  /\ \A i \in DOMAIN recurrences :
       LET W == {n \in Node : withdrawn[n] = i} IN
         W # {} =>
           /\ ~recurrences[i].escalated
           /\ Cardinality(W) <= MaxAmplification
           /\ W \subseteq Descendants(edges, Node, recurrences[i].node)

\* "Nodes that have a CARRIED edge originating from a node in c_p": the
\* compactions a walk plans are those affected by its own radius.
AffectedExact ==
  [][\A t \in Task : at[t] = "select" /\ at'[t] = "plan" =>
       loc'[t].todo = Affected(loc[t].reach)]_vars

\* "predecessor_id -- the quarantined original": the compaction that a rebuilt
\* node stands for is quarantined.
PredecessorQuarantined ==
  \A n \in FreshNode :
    horizon[n].state # "none" => horizon[n].predecessor \in ledger
=============================================================================
