--------------------------- MODULE RecoveryProofs ---------------------------
(***************************************************************************)
(* Repair and recurrence control: every REDUCIBLE disposition is backed by *)
(* its reintegration, every rebuilt node declares a frontier that excludes *)
(* the blast radius it was planned for, and no recurrence withdraws more   *)
(* than the amplification bound: for every lineage that clients can build, *)
(* cyclic, dangling or cut short, every number of requests, and every      *)
(* interleaving of their statements, exception and crash.                  *)
(***************************************************************************)
EXTENDS Recovery, LineageProofs, FiniteSetTheorems

-----------------------------------------------------------------------------
(* Lineage with rebuilt nodes as leaves.                                   *)

\* More edges, more descendants.
LEMMA DescendantsGrow ==
  ASSUME NEW V, NEW E, NEW F, E \subseteq F, NEW r
  PROVE  Descendants(E, V, r) \subseteq Descendants(F, V, r)
<1>1. ASSUME NEW S, Closed(F, S) PROVE Closed(E, S)
    BY <1>1 DEF Closed
<1> QED
    BY <1>1 DEF Descendants

\* When only client-built ids have children, the rebuilt ids do not matter to
\* the client-built descendants of a node.
LEMMA LeavesDoNotMatter ==
  ASSUME NEW E, E \subseteq Base \X Node, NEW r \in Node
  PROVE  Descendants(E, Node, r) \cap Base
           = Descendants(OfBase(E), Base \cup {r}, r) \cap Base
<1>1. ASSUME NEW n \in Base, n \in Descendants(E, Node, r),
             NEW S \in SUBSET (Base \cup {r}), r \in S, Closed(OfBase(E), S)
      PROVE  n \in S
  <2> DEFINE T == S \cup FreshNode
  <2>1. T \in SUBSET Node /\ r \in T
      BY <1>1 DEF Node
  <2>2. ASSUME NEW e \in E, e[1] \in T PROVE e[2] \in T
    <3>1. e[1] \in Base /\ e[2] \in Node /\ e = <<e[1], e[2]>>
        OBVIOUS
    <3>2. e[1] \in S
        BY <2>2, <3>1, RecoveryAssumption
    <3>3. CASE e[2] \in Base
      <4>1. e \in OfBase(E)
          BY <3>1, <3>3 DEF OfBase
      <4> QED
          BY <1>1, <3>2, <4>1 DEF Closed
    <3>4. CASE e[2] \in FreshNode
        BY <3>4
    <3> QED
        BY <3>1, <3>3, <3>4 DEF Node
  <2>3. Closed(E, T)
      BY <2>2 DEF Closed
  <2>4. n \in T
      BY <1>1, <2>1, <2>3 DEF Descendants
  <2> QED
      BY <2>4, RecoveryAssumption
<1>2. ASSUME NEW n \in Base, n \in Descendants(OfBase(E), Base \cup {r}, r),
             NEW S \in SUBSET Node, r \in S, Closed(E, S)
      PROVE  n \in S
  <2> DEFINE T == S \cap (Base \cup {r})
  <2>1. T \in SUBSET (Base \cup {r}) /\ r \in T
      BY <1>2
  <2>2. Closed(OfBase(E), T)
      BY <1>2 DEF Closed, OfBase
  <2>3. n \in T
      BY <1>2, <2>1, <2>2 DEF Descendants
  <2> QED
      BY <2>3
<1>3. Base \subseteq Node
    BY DEF Node
<1>4. ASSUME NEW n \in Base, n \in Descendants(E, Node, r)
      PROVE  n \in Descendants(OfBase(E), Base \cup {r}, r)
    BY <1>1, <1>4 DEF Descendants
<1>5. ASSUME NEW n \in Base, n \in Descendants(OfBase(E), Base \cup {r}, r)
      PROVE  n \in Descendants(E, Node, r)
    BY <1>2, <1>3, <1>5 DEF Descendants
<1> QED
    BY <1>4, <1>5

-----------------------------------------------------------------------------
(* The inductive invariant.                                                *)

\* The blast radius of an id, in the lineage that clients built.
Radius(r) == Descendants(OfBase(edges), Base \cup {r}, r)

\* F is what the blast radius of an id leaves of the covers of c, which a
\* CARRIED edge from that radius reaches unless walks have crossed.
Planned(c, F) ==
  \E r \in Node : /\ F = Covered(c) \ Radius(r)
                  /\ c \in Affected(Radius(r)) \cup crossed

\* F is what the declared descendants of a quarantined root leave of them.
Rederived(c, F) ==
  \E r \in ledger :
    F = Covered(c) \ Descendants(OfBase(declared), Base \cup {r}, r)

\* Only ids that clients chose are parents, only committed nodes have them.
Grounded ==
  /\ edges \subseteq Base \X nodes /\ declared \subseteq Base \X nodes
  /\ covers \subseteq Base \X nodes

Walking == {"clear", "fill", "select", "plan", "planWrite"}

\* A walk holds the blast radius of its node, complete as far as clients built
\* the lineage; what it plans is affected by that radius, or crossed.
WalkOK(t) ==
  LET l == loc[t] IN
  /\ at[t] \in Walking =>
       /\ l.node \in l.reach
       /\ l.reach \subseteq Descendants(edges, Node, l.node)
       /\ l.reach \cap Base = Radius(l.node) \cap Base
  /\ at[t] \in {"plan", "planWrite"} =>
       l.todo \subseteq Affected(l.reach) \cup crossed
  /\ at[t] = "planWrite" =>
       l.cur \in Base /\ l.cur \in Affected(l.reach) \cup crossed

\* The radius of a sweep holds its root; the first walk of a request inside the
\* lock is that of its root.
SweepOK(t) ==
  LET l == loc[t] IN
  /\ l.radius # {} => l.root \in l.radius
  /\ at[t] = "hook" => l.radius # {}
  /\ owner = t =>
       /\ at[t] \in Walking \cup {"withdraw", "hook"}
       /\ at[t] \in Walking /\ l.radius = {} => l.root = l.node
       /\ at[t] = "withdraw" => l.radius # {}

\* The rows of an event are written for a closure within the bound.
WithdrawOK(t) ==
  LET l == loc[t] IN
  at[t] = "withdraw" =>
    /\ l.event \in 1..Len(recurrences)
    /\ \A n \in Node : withdrawn[n] = l.event => n \in l.reach
    /\ l.reach \subseteq Descendants(edges, Node, recurrences[l.event].node)
    /\ recurrences[l.event].escalated => l.reach = {}
    /\ Cardinality(l.reach) <= MaxAmplification

\* A candidate is in hand; it has been built; its row is there; so are its
\* edges.
InHand == {"ask", "commit", "link", "trust", "evidence", "record"}
Made == {"commit", "link", "trust", "evidence", "record"}
Stored == {"link", "trust", "evidence", "record"}
Linked == {"trust", "evidence", "record"}

\* The candidates read were planned; the root of the request is quarantined.
AttemptOK(t) ==
  LET l == loc[t] IN
  /\ \A c \in Base : l.plan[c].disposition = "PENDING"
                       => Planned(c, l.plan[c].frontier)
  /\ at[t] \in {"read", "attempt"} \cup InHand => l.root \in ledger
  /\ at[t] \in {"attempt"} \cup InHand =>
       \A c \in l.todo : l.plan[c].disposition = "PENDING"
  /\ at[t] \in InHand =>
       l.cur \in Base /\ l.plan[l.cur].disposition = "PENDING"

\* How far the reintegration of the candidate in hand has come.
MakeOK(t) ==
  LET l == loc[t]
      F == l.plan[l.cur].frontier
  IN
  /\ l.made # None <=> at[t] \in Made
  /\ at[t] = "commit" =>
       l.made \notin nodes /\ (useAdapter => Rederived(l.cur, F))
  /\ at[t] \in Stored =>
       /\ l.made \in nodes /\ Parents(declared, l.made) = F
       /\ Parents(edges, l.made) \subseteq F
  /\ at[t] \in Linked => F \subseteq Parents(edges, l.made)
  /\ at[t] \in {"evidence", "record"} =>
       horizon[l.made].state # "none" /\ horizon[l.made].predecessor = l.cur
  /\ at[t] = "record" => l.made \in evidence

\* /renew-trust names a node.
RenewOK(t) == at[t] = "renew" => loc[t].root \in Node

TaskOK(t) ==
  WalkOK(t) /\ SweepOK(t) /\ WithdrawOK(t) /\ AttemptOK(t) /\ MakeOK(t) /\ RenewOK(t)

\* A rebuilt id is in the hands of one request, or of none once it is on
\* record; so is a recurrence event.
Apart ==
  /\ \A t, u \in Task : t # u /\ loc[t].made = loc[u].made => loc[t].made = None
  /\ \A c \in Base, u \in Task :
       repair[c].disposition = "REDUCIBLE" => loc[u].made # repair[c].rebuilt
  /\ \A t, u \in Task : t # u /\ at[t] = "withdraw" /\ at[u] = "withdraw"
                          => loc[t].event # loc[u].event

\* Pending candidates on record were planned.
PendingPlanned ==
  \A c \in Base : repair[c].disposition = "PENDING"
                    => Planned(c, repair[c].frontier)

\* What has been rebuilt, reintegrated and withdrawn is accounted for.
Accounted ==
  /\ ReducibleBacked
  /\ \A n \in nodes \cap FreshNode :
       /\ Parents(edges, n) \subseteq Parents(declared, n)
       /\ \E c \in Base : Planned(c, Parents(declared, n))
       /\ useAdapter => \E c \in Base : Rederived(c, Parents(declared, n))
  /\ WithdrawalBacked

RecoveryInv ==
  /\ TypeOK /\ Grounded
  /\ \A t \in Task : TaskOK(t)
  /\ Apart /\ PendingPlanned /\ Accounted

-----------------------------------------------------------------------------
(* Who writes what.                                                        *)

\* The graph is written by commits, dispositions by plans and attempts,
\* horizons by attempts, renewals and expiry, and withdrawals by recurrences.
LEMMA Writers ==
  [Next]_vars =>
    /\ (\E t \in Task : Commit(t) \/ Link(t)) \/ UNCHANGED graph
    /\ \/ \E t \in Task : PlanWrite(t) \/ AskRefused(t) \/ RecordReducible(t)
       \/ repair' = repair
    /\ \/ \E t \in Task : record_reintegration(t) \/ renew_trust(t)
       \/ \E n \in FreshNode : Expire(n)
       \/ horizon' = horizon
    /\ \/ \E t \in Task : LogRecurrence(t) \/ WithdrawRow(t)
       \/ UNCHANGED <<recurrences, withdrawn>>
<1> SUFFICES ASSUME [Next]_vars
    PROVE /\ (\E t \in Task : Commit(t) \/ Link(t)) \/ UNCHANGED graph
          /\ \/ \E t \in Task : PlanWrite(t) \/ AskRefused(t) \/ RecordReducible(t)
             \/ repair' = repair
          /\ \/ \E t \in Task : record_reintegration(t) \/ renew_trust(t)
             \/ \E n \in FreshNode : Expire(n)
             \/ horizon' = horizon
          /\ \/ \E t \in Task : LogRecurrence(t) \/ WithdrawRow(t)
             \/ UNCHANGED <<recurrences, withdrawn>>
    OBVIOUS
<1> USE DEF graph, incident, rebuilding
<1>1. ASSUME NEW t \in Task, WalkStep(t)
      PROVE  /\ UNCHANGED <<graph, horizon, recurrences, withdrawn>>
             /\ PlanWrite(t) \/ repair' = repair
    BY <1>1 DEF WalkStep, DetectorEnter, ObserveEnter, ClearTmp, FillTmp,
                FillClash, SelectAffected, PlanLook, PlanWrite
<1>2. ASSUME NEW t \in Task, SweepStep(t)
      PROVE  /\ UNCHANGED <<graph, horizon, repair>>
             /\ \/ LogRecurrence(t) \/ WithdrawRow(t)
                \/ UNCHANGED <<recurrences, withdrawn>>
    BY <1>2 DEF SweepStep, LogRecurrence, WithdrawRow, WithdrawDone, HookRead,
                HookNext, Apply, ApplyTorn
<1>3. ASSUME NEW t \in Task, AttemptStep(t)
      PROVE  /\ Commit(t) \/ Link(t) \/ UNCHANGED graph
             /\ AskRefused(t) \/ RecordReducible(t) \/ repair' = repair
             /\ record_reintegration(t) \/ horizon' = horizon
             /\ UNCHANGED <<recurrences, withdrawn>>
    BY <1>3 DEF AttemptStep, AttemptRead, AttemptNext, AskAdapter, BuildInline,
                AskRefused, AttemptRaise, Commit, Link, LinkDone,
                record_reintegration, record_reintegration_evidence,
                RecordReducible
<1>4. ASSUME NEW t \in Task, RenewStep(t) \/ Raise(t)
      PROVE  /\ UNCHANGED <<graph, repair, recurrences, withdrawn>>
             /\ renew_trust(t) \/ horizon' = horizon
    BY <1>4 DEF RenewStep, RenewCheck, renew_trust, Raise
<1>5. ASSUME NEW n \in FreshNode, Expire(n)
      PROVE  UNCHANGED <<graph, repair, recurrences, withdrawn>>
    BY <1>5 DEF Expire
<1>6. ASSUME Crash \/ UNCHANGED vars
      PROVE  UNCHANGED <<graph, repair, horizon, recurrences, withdrawn>>
    BY <1>6 DEF Crash, vars
<1> HIDE DEF graph
<1>7. \/ \E t \in Task : WalkStep(t) \/ SweepStep(t) \/ AttemptStep(t)
                         \/ RenewStep(t) \/ Raise(t)
      \/ \E n \in FreshNode : Expire(n)
      \/ Crash \/ UNCHANGED vars
    BY DEF Next
<1>8. (\E t \in Task : Commit(t) \/ Link(t)) \/ UNCHANGED graph
    BY <1>1, <1>2, <1>3, <1>4, <1>5, <1>6, <1>7
<1>9. \/ \E t \in Task : PlanWrite(t) \/ AskRefused(t) \/ RecordReducible(t)
      \/ repair' = repair
    BY <1>1, <1>2, <1>3, <1>4, <1>5, <1>6, <1>7
<1>10. \/ \E t \in Task : record_reintegration(t) \/ renew_trust(t)
       \/ \E n \in FreshNode : Expire(n)
       \/ horizon' = horizon
    BY <1>1, <1>2, <1>3, <1>4, <1>5, <1>6, <1>7
<1>11. \/ \E t \in Task : LogRecurrence(t) \/ WithdrawRow(t)
       \/ UNCHANGED <<recurrences, withdrawn>>
    BY <1>1, <1>2, <1>3, <1>4, <1>5, <1>6, <1>7
<1> QED
    BY <1>8, <1>9, <1>10, <1>11

\* A request enters the lock.
DetectorIn(u) == \E n \in Node : DetectorEnter(u, n)

\* Rows are never taken back, and the lock is entered by a request that begins.
LEMMA RowsStay ==
  [Next]_vars =>
    /\ ledger \subseteq ledger' /\ evidence \subseteq evidence'
    /\ crossed \subseteq crossed'
    /\ \A u \in Task : owner' = u => owner = u \/ DetectorIn(u)
<1> SUFFICES ASSUME [Next]_vars
             PROVE  /\ ledger \subseteq ledger' /\ evidence \subseteq evidence'
                    /\ crossed \subseteq crossed'
                    /\ \A u \in Task : owner' = u => owner = u \/ DetectorIn(u)
    OBVIOUS
<1> DEFINE Goal == /\ ledger \subseteq ledger' /\ evidence \subseteq evidence'
                   /\ crossed \subseteq crossed'
                   /\ \A u \in Task : owner' = u => owner = u \/ DetectorIn(u)
<1>0. \A u \in Task : u # None
    BY RecoveryAssumption
<1> USE DEF incident, rebuilding, walk, control, Leave
<1>1. ASSUME NEW t \in Task, WalkStep(t) PROVE Goal
  <2>1. CASE \E n \in Node : DetectorEnter(t, n)
      BY <2>1 DEF DetectorEnter, DetectorIn
  <2>2. CASE ~\E n \in Node : DetectorEnter(t, n)
      BY <1>0, <1>1, <2>2
      DEF WalkStep, ObserveEnter, ClearTmp, FillTmp, FillClash, SelectAffected,
          PlanLook, PlanWrite
  <2> QED
      BY <2>1, <2>2
<1>2. ASSUME NEW t \in Task, SweepStep(t) PROVE Goal
    BY <1>0, <1>2
    DEF SweepStep, LogRecurrence, WithdrawRow, WithdrawDone, HookRead, HookNext,
        Apply, ApplyTorn
<1>3. ASSUME NEW t \in Task, AttemptStep(t) PROVE Goal
    BY <1>3 DEF AttemptStep, AttemptRead, AttemptNext, AskAdapter, BuildInline,
                AskRefused, AttemptRaise, Commit, Link, LinkDone,
                record_reintegration, record_reintegration_evidence,
                RecordReducible
<1>4. ASSUME NEW t \in Task, RenewStep(t) \/ Raise(t) PROVE Goal
    BY <1>0, <1>4 DEF RenewStep, RenewCheck, renew_trust, Raise
<1>5. CASE (\E n \in FreshNode : Expire(n)) \/ Crash \/ UNCHANGED vars
    BY <1>0, <1>5 DEF Expire, Crash, vars
<1> HIDE DEF Goal
<1>6. Goal
    BY <1>1, <1>2, <1>3, <1>4, <1>5 DEF Next, Goal
<1> QED
    BY <1>6 DEF Goal

-----------------------------------------------------------------------------
(* What steps leave of the graph.                                          *)

\* The part of the state that a plan was made from stays as it is.
GraphKept ==
  /\ nodes \subseteq nodes' /\ edges \subseteq edges'
  /\ OfBase(edges') = OfBase(edges) /\ OfBase(declared') = OfBase(declared)
  /\ carried' = carried /\ useAdapter' = useAdapter
  /\ \A n \in nodes : Parents(declared', n) = Parents(declared, n)
  /\ \A c \in Base : Parents(covers', c) = Parents(covers, c)
  /\ \A n \in nodes : \/ Parents(edges', n) = Parents(edges, n)
                      \/ \E t \in Task :
                           /\ Link(t) /\ loc[t].made = n
                           /\ Parents(edges', n) \subseteq
                                Parents(edges, n) \cup
                                  loc[t].plan[loc[t].cur].frontier

\* What a request has in its hands, by its place.
LEMMA TaskFacts ==
  ASSUME RecoveryInv, NEW t \in Task
  PROVE  /\ at[t] \in Place /\ loc[t] \in Locals
         /\ at[t] \in Walking => loc[t].node \in Node
         /\ at[t] = "planWrite" => loc[t].cur \in Base
         /\ at[t] \in InHand =>
              loc[t].cur \in Base /\ loc[t].plan[loc[t].cur] \in Candidate
         /\ at[t] \in Made => loc[t].made \in FreshNode
<1>1. at[t] \in Place /\ loc[t] \in Locals
    BY DEF RecoveryInv, TypeOK
<1>2. /\ loc[t].reach \in SUBSET Node /\ loc[t].cur \in Base \cup {None}
      /\ loc[t].plan \in [Base -> Candidate] /\ loc[t].made \in FreshNode \cup {None}
    BY <1>1 DEF Locals
<1>3. WalkOK(t) /\ AttemptOK(t) /\ MakeOK(t)
    BY DEF RecoveryInv, TaskOK
<1> QED
    BY <1>1, <1>2, <1>3 DEF WalkOK, AttemptOK, MakeOK

\* A commit adds one node that declares and covers the frontier.
LEMMA CommitAddsNode ==
  ASSUME RecoveryInv, NEW t \in Task, Commit(t)
  PROVE  LET F == loc[t].plan[loc[t].cur].frontier
             n == loc[t].made
         IN /\ F \in SUBSET Base /\ n \in FreshNode \ nodes
            /\ nodes' = nodes \cup {n}
            /\ declared' = declared \cup (F \X {n})
            /\ covers' = covers \cup (F \X {n})
            /\ edges' = edges
            /\ Parents(declared', n) = F /\ Parents(edges', n) = {}
            /\ useAdapter' = useAdapter /\ carried' = carried
<1> DEFINE F == loc[t].plan[loc[t].cur].frontier
           n == loc[t].made
<1>1. at[t] = "commit" /\ TaskOK(t) /\ loc[t] \in Locals
    BY DEF Commit, RecoveryInv, TypeOK
<1>2. loc[t].cur \in Base /\ n \notin nodes /\ n \in FreshNode
    BY <1>1, TaskFacts DEF TaskOK, MakeOK, InHand, Made
<1>3. F \in SUBSET Base
    BY <1>1, <1>2 DEF Locals, Candidate
<1>4. /\ nodes' = nodes \cup {n} /\ declared' = declared \cup (F \X {n})
      /\ covers' = covers \cup (F \X {n}) /\ edges' = edges
      /\ useAdapter' = useAdapter /\ carried' = carried
    BY DEF Commit
<1>5. (\A e \in declared : e[2] # n) /\ (\A e \in edges : e[2] # n)
    BY <1>2 DEF RecoveryInv, Grounded
<1> HIDE DEF F, n
<1>6. Parents(declared', n) = F
  <2>1. ASSUME NEW e \in declared', e[2] = n PROVE e[1] \in F
      BY <1>4, <1>5, <2>1
  <2>2. ASSUME NEW f \in F PROVE \E e \in declared' : e[2] = n /\ e[1] = f
    <3>1. <<f, n>> \in declared'
        BY <1>4
    <3> QED
        BY <3>1
  <2> QED
      BY <2>1, <2>2 DEF Parents
<1>7. Parents(edges', n) = {}
    BY <1>4, <1>5 DEF Parents
<1> QED
    BY <1>2, <1>3, <1>4, <1>6, <1>7 DEF F, n

\* A row adds one parent out of the frontier.
LEMMA LinkAddsRow ==
  ASSUME RecoveryInv, NEW t \in Task, Link(t)
  PROVE  LET F == loc[t].plan[loc[t].cur].frontier
             n == loc[t].made
         IN /\ n \in FreshNode \cap nodes /\ at[t] = "link"
            /\ UNCHANGED <<nodes, declared, covers, carried, useAdapter, at, loc>>
            /\ \E p \in F \cap Base : /\ edges' = edges \cup {<<p, n>>}
                                      /\ Parents(edges', n) = Parents(edges, n) \cup {p}
<1> DEFINE F == loc[t].plan[loc[t].cur].frontier
           n == loc[t].made
<1>1. at[t] = "link" /\ TaskOK(t) /\ loc[t] \in Locals
    BY DEF Link, RecoveryInv, TypeOK
<1>2. loc[t].cur \in Base /\ n \in nodes /\ n \in FreshNode
    BY <1>1, TaskFacts DEF TaskOK, MakeOK, InHand, Made, Stored
<1>3. F \in SUBSET Base
    BY <1>1, <1>2 DEF Locals, Candidate
<1>4. PICK p \in F : edges' = edges \cup {<<p, n>>}
    BY DEF Link
<1>5. UNCHANGED <<nodes, declared, covers, carried, useAdapter, at, loc>>
    BY DEF Link
<1> HIDE DEF F, n
<1>6. Parents(edges', n) = Parents(edges, n) \cup {p}
  <2>1. <<p, n>> \in edges' /\ <<p, n>>[1] = p /\ <<p, n>>[2] = n
      BY <1>4
  <2> QED
      BY <1>4, <2>1 DEF Parents
<1> QED
    BY <1>1, <1>2, <1>3, <1>4, <1>5, <1>6 DEF F, n

\* Every step keeps that part; a rebuilt node changes nothing above it.
LEMMA GraphStep == RecoveryInv /\ [Next]_vars => GraphKept
<1> SUFFICES ASSUME RecoveryInv, [Next]_vars PROVE GraphKept
    OBVIOUS
<1>1. CASE UNCHANGED graph
    BY <1>1 DEF GraphKept, graph
<1>2. ASSUME NEW t \in Task, Commit(t) PROVE GraphKept
  <2> DEFINE F == loc[t].plan[loc[t].cur].frontier
             n == loc[t].made
  <2>1. /\ F \in SUBSET Base /\ n \in FreshNode \ nodes
        /\ nodes' = nodes \cup {n}
        /\ declared' = declared \cup (F \X {n})
        /\ covers' = covers \cup (F \X {n})
        /\ edges' = edges
        /\ useAdapter' = useAdapter /\ carried' = carried
      BY <1>2, CommitAddsNode
  <2> HIDE DEF F, n
  <2>2. n \notin Base
      BY <2>1, RecoveryAssumption
  <2>3. ASSUME NEW E PROVE OfBase(E \cup (F \X {n})) = OfBase(E)
      BY <2>2 DEF OfBase
  <2>4. ASSUME NEW E, NEW m, m # n
        PROVE  Parents(E \cup (F \X {n}), m) = Parents(E, m)
      BY <2>4 DEF Parents
  <2>5. OfBase(declared') = OfBase(declared)
      BY <2>1, <2>3
  <2>6. \A m \in nodes : Parents(declared', m) = Parents(declared, m)
      BY <2>1, <2>4
  <2>7. \A c \in Base : Parents(covers', c) = Parents(covers, c)
      BY <2>1, <2>2, <2>4
  <2> QED
      BY <2>1, <2>5, <2>6, <2>7 DEF GraphKept
<1>3. ASSUME NEW t \in Task, Link(t) PROVE GraphKept
  <2> DEFINE F == loc[t].plan[loc[t].cur].frontier
             n == loc[t].made
  <2>1. /\ n \in FreshNode \cap nodes
        /\ UNCHANGED <<nodes, declared, covers, carried, useAdapter>>
      BY <1>3, LinkAddsRow
  <2>2. PICK p \in F \cap Base : /\ edges' = edges \cup {<<p, n>>}
                                 /\ Parents(edges', n) = Parents(edges, n) \cup {p}
      BY <1>3, LinkAddsRow
  <2>3. \A m \in nodes : Parents(edges', m) = Parents(edges, m) \/ m = n
    <3> HIDE DEF n
    <3> QED
        BY <2>2 DEF Parents
  <2>4. n \notin Base
      BY <2>1, RecoveryAssumption
  <2>5. OfBase(edges') = OfBase(edges)
      BY <2>2, <2>4 DEF OfBase
  <2>6. edges \subseteq edges' /\ Parents(edges', n) \subseteq Parents(edges, n) \cup F
      BY <2>2
  <2> QED
      BY <1>3, <2>1, <2>3, <2>5, <2>6 DEF GraphKept
<1> QED
    BY <1>1, <1>2, <1>3, Writers

\* So plans, and the derivations behind them, stay valid.
LEMMA PlansKept ==
  ASSUME GraphKept, ledger \subseteq ledger', crossed \subseteq crossed'
  PROVE  /\ \A r : Radius(r)' = Radius(r)
         /\ \A S : Affected(S)' = Affected(S)
         /\ \A c \in Base : Covered(c)' = Covered(c)
         /\ \A c \in Base : \A F : Planned(c, F) => Planned(c, F)'
         /\ \A c \in Base : \A F : Rederived(c, F) => Rederived(c, F)'
         /\ \A r : Descendants(edges, Node, r) \subseteq Descendants(edges', Node, r)
<1>1. ASSUME NEW r PROVE Radius(r)' = Radius(r)
    BY DEF GraphKept, Radius
<1>2. ASSUME NEW c \in Base PROVE Covered(c)' = Covered(c)
    BY DEF GraphKept, Covered
<1>3. ASSUME NEW S PROVE Affected(S)' = Affected(S)
    BY DEF GraphKept, Affected
<1>4. ASSUME NEW c \in Base, NEW F, Planned(c, F) PROVE Planned(c, F)'
  <2>1. PICK r \in Node : /\ F = Covered(c) \ Radius(r)
                          /\ c \in Affected(Radius(r)) \cup crossed
      BY <1>4 DEF Planned
  <2>2. Affected(Radius(r))' = Affected(Radius(r))
      BY <1>1, <1>3
  <2> QED
      BY <1>1, <1>2, <2>1, <2>2 DEF Planned
<1>5. ASSUME NEW c \in Base, NEW F, Rederived(c, F) PROVE Rederived(c, F)'
    BY <1>2, <1>5 DEF Rederived, GraphKept
<1>6. ASSUME NEW r
      PROVE  Descendants(edges, Node, r) \subseteq Descendants(edges', Node, r)
    BY DescendantsGrow DEF GraphKept
<1> QED
    BY <1>1, <1>2, <1>3, <1>4, <1>5, <1>6

-----------------------------------------------------------------------------
(* Walks.                                                                  *)

\* Only ids that clients chose are covered.
LEMMA CoveredInBase ==
  ASSUME Grounded
  PROVE  \A c : Covered(c) \in SUBSET Base
BY DEF Grounded, Covered, Parents

\* Compactions are affected by the ids that clients chose.
LEMMA AffectedFacts ==
  ASSUME TypeOK
  PROVE  /\ \A S : Affected(S) \in SUBSET Base
         /\ \A S, T : S \cap Base = T \cap Base => Affected(S) = Affected(T)
<1>1. carried \subseteq Base \X Base
    BY DEF TypeOK
<1>2. \A S : \A x : x \in Affected(S) <=> \E e \in carried : e[1] \in S /\ e[2] = x
    BY DEF Affected, Children
<1>3. ASSUME NEW S PROVE Affected(S) \in SUBSET Base
    BY <1>1, <1>2
<1>4. ASSUME NEW S, NEW T, S \cap Base = T \cap Base, NEW x \in Affected(S)
      PROVE  x \in Affected(T)
  <2>1. PICK e \in carried : e[1] \in S /\ e[2] = x
      BY <1>2, <1>4
  <2>2. e[1] \in T
      BY <1>1, <1>4, <2>1
  <2> QED
      BY <1>2, <2>1, <2>2
<1>5. ASSUME NEW S, NEW T, S \cap Base = T \cap Base
      PROVE  Affected(S) = Affected(T)
  <2>1. Affected(S) \subseteq Affected(T) /\ Affected(T) \subseteq Affected(S)
      BY <1>4, <1>5
  <2> QED
      BY <2>1, <1>3
<1> QED
    BY <1>3, <1>5

\* The walk from a node: its descendants.
LEMMA WalkFacts ==
  ASSUME TypeOK, Grounded, NEW n \in Node
  PROVE  /\ Descendants(edges, Node, n) \in SUBSET Node
         /\ n \in Descendants(edges, Node, n)
         /\ Descendants(edges, Node, n) \cap Base = Radius(n) \cap Base
<1>1. edges \subseteq Base \X Node
    BY DEF Grounded, TypeOK
<1> QED
    BY <1>1, LeavesDoNotMatter, DescendantsRoot DEF Radius, Descendants

\* A request that goes on, and those that do not.
LEMMA GoFacts ==
  ASSUME TypeOK, NEW t \in Task, NEW p, NEW l, Go(t, p, l)
  PROVE  /\ at'[t] = p /\ loc'[t] = l
         /\ \A u \in Task : u # t => at'[u] = at[u] /\ loc'[u] = loc[u]
BY DEF Go, TypeOK

\* The local variables of a walk.
LEMMA WalkLocals ==
  ASSUME TypeOK, Grounded, NEW t \in Task, NEW l \in Locals, NEW n \in Node,
         Walk(t, l, n)
  PROVE  /\ at'[t] = "clear" /\ loc'[t] \in Locals
         /\ loc'[t].node = n /\ loc'[t].reach = Descendants(edges, Node, n)
         /\ loc'[t].root = l.root /\ loc'[t].radius = l.radius
         /\ loc'[t].hooks = l.hooks /\ loc'[t].todo = l.todo
         /\ loc'[t].event = l.event /\ loc'[t].plan = l.plan
         /\ loc'[t].cur = l.cur /\ loc'[t].made = l.made
         /\ \A u \in Task : u # t => at'[u] = at[u] /\ loc'[u] = loc[u]
<1> DEFINE R == Descendants(edges, Node, n)
<1>1. R \in SUBSET Node
    BY WalkFacts
<1>2. Go(t, "clear", [l EXCEPT !.node = n, !.reach = R])
    BY DEF Walk
<1>3. /\ at'[t] = "clear" /\ loc'[t] = [l EXCEPT !.node = n, !.reach = R]
      /\ \A u \in Task : u # t => at'[u] = at[u] /\ loc'[u] = loc[u]
    BY <1>2, GoFacts
<1> HIDE DEF R
<1>4. /\ loc'[t] \in Locals /\ loc'[t].node = n /\ loc'[t].reach = R
      /\ loc'[t].root = l.root /\ loc'[t].radius = l.radius
      /\ loc'[t].hooks = l.hooks /\ loc'[t].todo = l.todo
      /\ loc'[t].event = l.event /\ loc'[t].plan = l.plan
      /\ loc'[t].cur = l.cur /\ loc'[t].made = l.made
    BY <1>1, <1>3 DEF Locals
<1> QED
    BY <1>3, <1>4 DEF R

\* The local variables of a request that begins or has ended.
LEMMA NoLocalsFacts ==
  /\ NoLocals \in Locals /\ NoPlan \in [Base -> Candidate]
  /\ \A c \in Base : NoPlan[c].disposition = "none"
  /\ NoLocals.made = None /\ NoLocals.plan = NoPlan
  /\ NoLocals.radius = {} /\ NoLocals.root = None
<1>1. NoCandidate \in Candidate
    BY DEF NoCandidate, Candidate
<1>2. NoPlan \in [Base -> Candidate]
    BY <1>1 DEF NoPlan
<1>3. \A c \in Base : NoPlan[c].disposition = "none"
    BY DEF NoPlan, NoCandidate
<1>4. NoLocals \in Locals
    BY <1>2 DEF NoLocals, Locals
<1> QED
    BY <1>2, <1>3, <1>4 DEF NoLocals

\* A request that has ended promises nothing.
LEMMA Resting ==
  ASSUME NEW t \in Task, at[t] = "idle", loc[t] = NoLocals, owner # t
  PROVE  TaskOK(t)
BY NoLocalsFacts
DEF TaskOK, WalkOK, SweepOK, WithdrawOK, AttemptOK, MakeOK, RenewOK, Walking,
    InHand, Made, Stored, Linked

\* No request, and nothing designated.
LEMMA RecoveryInit == Init => RecoveryInv
<1> SUFFICES ASSUME Init PROVE RecoveryInv
    OBVIOUS
<1>1. PICK g \in Graphs :
        /\ nodes = g.nodes /\ declared = g.declared /\ covers = g.covers
        /\ edges = g.edges /\ carried = g.carried
    BY DEF Init
<1>2. IsLineage(g)
    BY RecoveryAssumption
<1>3. /\ nodes \subseteq Base /\ declared \subseteq Base \X Base
      /\ covers \subseteq Base \X Base /\ edges \subseteq Base \X Base
      /\ carried \subseteq Base \X Base
    BY <1>1, <1>2 DEF IsLineage
<1>4. \A e \in declared \cup covers \cup edges : e[2] \in nodes
    BY <1>1, <1>2 DEF IsLineage
<1>5. TypeOK
  <2>1. Base \subseteq Node
      BY DEF Node
  <2>2. horizon \in [Node -> [state : {"none", "active", "expired"},
                             predecessor : Base \cup {None}]]
      BY DEF Init, NoTrust
  <2>3. /\ at \in [Task -> Place] /\ loc \in [Task -> Locals]
        /\ repair \in [Base -> Candidate]
      BY NoLocalsFacts DEF Init, Place
  <2>4. withdrawn \in [Node -> Nat] /\ recurrences \in Seq([node : Node, escalated : BOOLEAN])
      BY DEF Init
  <2>5. signals \in 0..MaxSignals
      BY RecoveryAssumption DEF Init
  <2> QED
      BY <1>3, <2>1, <2>2, <2>3, <2>4, <2>5 DEF Init, TypeOK
<1>6. Grounded
    BY <1>3, <1>4 DEF Grounded
<1>7. \A t \in Task : TaskOK(t)
    BY Resting, RecoveryAssumption DEF Init
<1>8. \A c \in Base : repair[c].disposition = "none"
    BY NoLocalsFacts DEF Init
<1>9. \A t \in Task : loc[t].made = None /\ at[t] = "idle"
    BY NoLocalsFacts DEF Init
<1>10. Apart /\ PendingPlanned
    BY <1>8, <1>9 DEF Apart, PendingPlanned
<1>11. nodes \cap FreshNode = {}
    BY <1>3, RecoveryAssumption
<1>12. WithdrawalBacked
  <2>1. Len(recurrences) = 0 /\ DOMAIN recurrences = {}
      BY DEF Init
  <2> QED
      BY <2>1 DEF WithdrawalBacked, Init
<1>13. Accounted
    BY <1>8, <1>11, <1>12 DEF Accounted, ReducibleBacked
<1> QED
    BY <1>5, <1>6, <1>7, <1>10, <1>13 DEF RecoveryInv

-----------------------------------------------------------------------------
(* Types.                                                                  *)

\* A request that goes on stays in its types.
LEMMA GoTypes ==
  ASSUME TypeOK, NEW t \in Task, NEW p \in Place, NEW l \in Locals, Go(t, p, l)
  PROVE  at' \in [Task -> Place] /\ loc' \in [Task -> Locals]
BY DEF Go, TypeOK

\* The ends of a request, and the plans on record.
LEMMA EndTypes ==
  /\ \A l \in Locals : [l EXCEPT !.cur = None, !.made = None] \in Locals
  /\ \A F \in SUBSET Base : Irreducible(F) \in Candidate /\ Pending(F) \in Candidate
  /\ \A t \in Task : TypeOK /\ Leave(t) =>
       /\ at' \in [Task -> Place] /\ loc' \in [Task -> Locals]
       /\ owner' \in Task \cup {None}
<1>1. \A l \in Locals : [l EXCEPT !.cur = None, !.made = None] \in Locals
    BY DEF Locals
<1>2. \A F \in SUBSET Base : Irreducible(F) \in Candidate /\ Pending(F) \in Candidate
    BY DEF Irreducible, Pending, Candidate
<1>3. ASSUME NEW t \in Task, TypeOK, Leave(t)
      PROVE  /\ at' \in [Task -> Place] /\ loc' \in [Task -> Locals]
             /\ owner' \in Task \cup {None}
  <2>1. at' \in [Task -> Place] /\ loc' \in [Task -> Locals]
      BY <1>3, NoLocalsFacts, GoTypes DEF Leave, Finish, Place
  <2> QED
      BY <1>3, <2>1 DEF Leave, TypeOK
<1> QED
    BY <1>1, <1>2, <1>3

\* Walking and planning keep the types.
LEMMA WalkTypes ==
  ASSUME RecoveryInv, NEW t \in Task, WalkStep(t)
  PROVE  TypeOK'
<1>1. TypeOK /\ Grounded /\ at[t] \in Place /\ loc[t] \in Locals
    BY TaskFacts DEF RecoveryInv
<1>2. loc[t].reach \in SUBSET Node /\ loc[t].todo \in SUBSET Base
    BY <1>1 DEF Locals
<1> USE DEF graph, walk, incident, rebuilding, control
<1>3. ASSUME NEW n \in Node, DetectorEnter(t, n) \/ ObserveEnter(t, n) PROVE TypeOK'
  <2> DEFINE R == Descendants(edges, Node, n)
  <2>1. R \in SUBSET Node
      BY <1>1, WalkFacts
  <2>2. \/ Go(t, "clear", [[NoLocals EXCEPT !.root = n] EXCEPT !.node = n, !.reach = R])
        \/ Go(t, "clear", [NoLocals EXCEPT !.node = n, !.reach = R])
      BY <1>3 DEF DetectorEnter, ObserveEnter, Walk
  <2> HIDE DEF R
  <2>3. /\ [[NoLocals EXCEPT !.root = n] EXCEPT !.node = n, !.reach = R] \in Locals
        /\ [NoLocals EXCEPT !.node = n, !.reach = R] \in Locals
      BY <2>1, NoLocalsFacts DEF Locals
  <2>4. at' \in [Task -> Place] /\ loc' \in [Task -> Locals]
      BY <1>1, <2>2, <2>3, GoTypes DEF Place
  <2>5. signals' \in 0..MaxSignals /\ owner' \in Task \cup {None}
      BY <1>1, <1>3, RecoveryAssumption DEF DetectorEnter, ObserveEnter, TypeOK
  <2> QED
      BY <1>1, <1>3, <2>4, <2>5 DEF DetectorEnter, ObserveEnter, TypeOK
<1>4. CASE ClearTmp(t) \/ FillTmp(t)
  <2>1. at' \in [Task -> Place] /\ loc' \in [Task -> Locals]
      BY <1>1, <1>4, GoTypes DEF ClearTmp, FillTmp, Place
  <2> QED
      BY <1>1, <1>2, <1>4, <2>1 DEF ClearTmp, FillTmp, TypeOK
<1>5. CASE FillClash(t)
  <2>1. /\ at' \in [Task -> Place] /\ loc' \in [Task -> Locals]
        /\ owner' \in Task \cup {None}
      BY <1>1, <1>5, EndTypes DEF FillClash
  <2>2. tmp' \subseteq Node
      BY <1>1, <1>2, <1>5 DEF FillClash, TypeOK
  <2> QED
      BY <1>1, <1>5, <2>1, <2>2 DEF FillClash, TypeOK
<1>6. CASE SelectAffected(t)
  <2>1. Affected(tmp) \in SUBSET Base
      BY <1>1, AffectedFacts
  <2>2. [loc[t] EXCEPT !.todo = Affected(tmp)] \in Locals
      BY <1>1, <2>1 DEF Locals
  <2>3. at' \in [Task -> Place] /\ loc' \in [Task -> Locals]
      BY <1>1, <1>6, <2>2, GoTypes DEF SelectAffected, Place
  <2> QED
      BY <1>1, <1>6, <2>1, <2>3 DEF SelectAffected, TypeOK
<1>7. CASE PlanLook(t)
  <2>1. PICK c \in loc[t].todo :
          LET rest == [loc[t] EXCEPT !.todo = @ \ {c}] IN
          Go(t, "plan", rest) \/ Go(t, "planWrite", [rest EXCEPT !.cur = c])
      BY <1>7 DEF PlanLook
  <2>2. /\ [loc[t] EXCEPT !.todo = @ \ {c}] \in Locals
        /\ [[loc[t] EXCEPT !.todo = @ \ {c}] EXCEPT !.cur = c] \in Locals
      BY <1>1 DEF Locals
  <2>3. at' \in [Task -> Place] /\ loc' \in [Task -> Locals]
      BY <1>1, <2>1, <2>2, GoTypes DEF Place
  <2> QED
      BY <1>1, <1>7, <2>3 DEF PlanLook, TypeOK
<1>8. CASE PlanWrite(t)
  <2>1. loc[t].cur \in Base /\ Frontier(t) \in SUBSET Base
      BY <1>1, <1>8, TaskFacts, CoveredInBase DEF PlanWrite, Frontier
  <2>2. repair' \in [Base -> Candidate]
    <3>1. PICK plan \in {Irreducible({})} \cup
                        {Pending(F) : F \in {Frontier(t)} \ {{}}} :
            repair' = [repair EXCEPT ![loc[t].cur] = plan]
        BY <1>8 DEF PlanWrite
    <3>2. plan \in Candidate
        BY <2>1, EndTypes
    <3> QED
        BY <1>1, <3>1, <3>2 DEF TypeOK
  <2>3. [loc[t] EXCEPT !.cur = None] \in Locals
      BY <1>1 DEF Locals
  <2>4. at' \in [Task -> Place] /\ loc' \in [Task -> Locals]
      BY <1>1, <1>8, <2>3, GoTypes DEF PlanWrite, Place
  <2> QED
      BY <1>1, <1>8, <2>2, <2>4 DEF PlanWrite, TypeOK
<1> QED
    BY <1>3, <1>4, <1>5, <1>6, <1>7, <1>8 DEF WalkStep

\* So do recurrences and the sweep.
LEMMA SweepTypes ==
  ASSUME RecoveryInv, NEW t \in Task, SweepStep(t)
  PROVE  TypeOK'
<1>1. TypeOK /\ Grounded /\ at[t] \in Place /\ loc[t] \in Locals
    BY TaskFacts DEF RecoveryInv
<1>2. /\ loc[t].reach \in SUBSET Node /\ loc[t].radius \in SUBSET Node
      /\ loc[t].hooks \in SUBSET Node /\ loc[t].event \in Nat
    BY <1>1 DEF Locals
<1> USE DEF graph, walk, incident, rebuilding, control
<1>3. CASE LogRecurrence(t)
  <2> DEFINE e == [node |-> loc[t].node, escalated |-> Escalates(t)]
             R == IF Escalates(t) THEN {} ELSE loc[t].reach
             k == Len(recurrences) + 1
  <2>1. Escalates(t) \in BOOLEAN /\ loc[t].node \in Node /\ R \in SUBSET Node
      BY <1>2, <1>3, TaskFacts DEF Escalates, LogRecurrence, Walking
  <2>2. e \in [node : Node, escalated : BOOLEAN]
      BY <2>1
  <2>3. recurrences \in Seq([node : Node, escalated : BOOLEAN])
      BY <1>1 DEF TypeOK
  <2>4. k \in Nat
      BY <2>3
  <2>5. /\ recurrences' = Append(recurrences, e)
        /\ Go(t, "withdraw", [loc[t] EXCEPT !.event = k, !.reach = R])
      BY <1>3 DEF LogRecurrence
  <2> HIDE DEF e, R, k
  <2>6. recurrences' \in Seq([node : Node, escalated : BOOLEAN])
      BY <2>2, <2>3, <2>5
  <2>7. [loc[t] EXCEPT !.event = k, !.reach = R] \in Locals
      BY <1>1, <2>1, <2>4 DEF Locals
  <2>8. at' \in [Task -> Place] /\ loc' \in [Task -> Locals]
      BY <1>1, <2>5, <2>7, GoTypes DEF Place
  <2> QED
      BY <1>1, <1>3, <2>6, <2>8 DEF LogRecurrence, TypeOK
<1>4. CASE WithdrawRow(t)
  <2>1. withdrawn' \in [Node -> Nat]
      BY <1>1, <1>2, <1>4 DEF WithdrawRow, TypeOK
  <2> QED
      BY <1>1, <1>4, <2>1 DEF WithdrawRow, TypeOK
<1>5. CASE WithdrawDone(t)
  <2>1. [loc[t] EXCEPT !.node = None, !.reach = {}, !.event = 0] \in Locals
      BY <1>1 DEF Locals
  <2>2. at' \in [Task -> Place] /\ loc' \in [Task -> Locals]
      BY <1>1, <1>5, <2>1, NoLocalsFacts, GoTypes DEF WithdrawDone, Finish, Place
  <2> QED
      BY <1>1, <1>5, <2>2 DEF WithdrawDone, TypeOK
<1>6. CASE HookRead(t)
  <2> DEFINE H == {n \in loc[t].reach : horizon[n].state = "active"}
  <2>1. H \in SUBSET Node
      BY <1>2
  <2>2. Go(t, "hook", [loc[t] EXCEPT !.radius = loc[t].reach, !.node = None,
                                     !.reach = {}, !.hooks = H])
      BY <1>6 DEF HookRead
  <2> HIDE DEF H
  <2>3. [loc[t] EXCEPT !.radius = loc[t].reach, !.node = None, !.reach = {},
                       !.hooks = H] \in Locals
      BY <1>1, <1>2, <2>1 DEF Locals
  <2>4. at' \in [Task -> Place] /\ loc' \in [Task -> Locals]
      BY <1>1, <2>2, <2>3, GoTypes DEF Place
  <2> QED
      BY <1>1, <1>6, <2>4 DEF HookRead, TypeOK
<1>7. CASE HookNext(t)
  <2>1. PICK n \in loc[t].hooks : Walk(t, [loc[t] EXCEPT !.hooks = @ \ {n}], n)
      BY <1>7 DEF HookNext
  <2> DEFINE R == Descendants(edges, Node, n)
             l == [loc[t] EXCEPT !.hooks = @ \ {n}]
  <2>2. R \in SUBSET Node /\ n \in Node
      BY <1>1, <1>2, WalkFacts
  <2>3. l \in Locals
      BY <1>1 DEF Locals
  <2>4. Go(t, "clear", [l EXCEPT !.node = n, !.reach = R])
      BY <2>1 DEF Walk
  <2> HIDE DEF R, l
  <2>5. [l EXCEPT !.node = n, !.reach = R] \in Locals
      BY <2>2, <2>3 DEF Locals
  <2>6. at' \in [Task -> Place] /\ loc' \in [Task -> Locals]
      BY <1>1, <2>4, <2>5, GoTypes DEF Place
  <2> QED
      BY <1>1, <1>7, <2>6 DEF HookNext, TypeOK
<1>8. CASE Apply(t)
  <2>1. [loc[t] EXCEPT !.radius = {}] \in Locals
      BY <1>1 DEF Locals
  <2>2. at' \in [Task -> Place] /\ loc' \in [Task -> Locals]
      BY <1>1, <1>8, <2>1, GoTypes DEF Apply, Place
  <2> QED
      BY <1>1, <1>2, <1>8, <2>2 DEF Apply, TypeOK
<1>9. CASE ApplyTorn(t)
  <2>1. /\ at' \in [Task -> Place] /\ loc' \in [Task -> Locals]
        /\ owner' \in Task \cup {None}
      BY <1>1, <1>9, EndTypes DEF ApplyTorn
  <2>2. ledger' \subseteq Node
      BY <1>1, <1>2, <1>9 DEF ApplyTorn, TypeOK
  <2> QED
      BY <1>1, <1>9, <2>1, <2>2 DEF ApplyTorn, TypeOK
<1> QED
    BY <1>3, <1>4, <1>5, <1>6, <1>7, <1>8, <1>9 DEF SweepStep

\* So do attempts.
LEMMA AttemptTypes ==
  ASSUME RecoveryInv, NEW t \in Task, AttemptStep(t)
  PROVE  TypeOK'
<1>1. TypeOK /\ Grounded /\ at[t] \in Place /\ loc[t] \in Locals
    BY TaskFacts DEF RecoveryInv
<1> USE DEF graph, walk, incident, rebuilding, control
<1>2. ASSUME GoOn(t) PROVE at' \in [Task -> Place] /\ loc' \in [Task -> Locals]
    BY <1>1, <1>2, EndTypes, GoTypes DEF GoOn, Place
<1>3. CASE AttemptRead(t)
  <2>1. [loc[t] EXCEPT !.plan = repair,
           !.todo = {c \in Base : repair[c].disposition = "PENDING"}] \in Locals
      BY <1>1 DEF Locals, TypeOK
  <2>2. at' \in [Task -> Place] /\ loc' \in [Task -> Locals]
      BY <1>1, <1>3, <2>1, GoTypes DEF AttemptRead, Place
  <2> QED
      BY <1>1, <1>3, <2>2 DEF AttemptRead, TypeOK
<1>4. CASE AttemptNext(t)
  <2>1. \A c \in loc[t].todo :
          [loc[t] EXCEPT !.todo = @ \ {c}, !.cur = c] \in Locals
      BY <1>1 DEF Locals
  <2>2. at' \in [Task -> Place] /\ loc' \in [Task -> Locals]
      BY <1>1, <1>4, <2>1, NoLocalsFacts, GoTypes DEF AttemptNext, Finish, Place
  <2> QED
      BY <1>1, <1>4, <2>2 DEF AttemptNext, TypeOK
<1>5. CASE AskAdapter(t) \/ BuildInline(t)
  <2>1. \A n \in FreshNode : [loc[t] EXCEPT !.made = n] \in Locals
      BY <1>1 DEF Locals
  <2>2. at' \in [Task -> Place] /\ loc' \in [Task -> Locals]
      BY <1>1, <1>5, <2>1, GoTypes DEF AskAdapter, BuildInline, Built, Place
  <2> QED
      BY <1>1, <1>5, <2>2 DEF AskAdapter, BuildInline, TypeOK
<1>6. CASE AskRefused(t)
  <2>1. loc[t].cur \in Base /\ loc[t].plan[loc[t].cur].frontier \in SUBSET Base
      BY <1>6, TaskFacts DEF AskRefused, InHand, Candidate
  <2>2. repair' \in [Base -> Candidate]
      BY <1>1, <1>6, <2>1, EndTypes DEF AskRefused, TypeOK
  <2> QED
      BY <1>1, <1>2, <1>6, <2>2 DEF AskRefused, TypeOK
<1>7. CASE AttemptRaise(t)
    BY <1>1, <1>2, <1>7 DEF AttemptRaise, TypeOK
<1>8. CASE Commit(t)
  <2>1. at' \in [Task -> Place] /\ loc' \in [Task -> Locals]
      BY <1>1, <1>8, GoTypes DEF Commit, Place
  <2> DEFINE F == loc[t].plan[loc[t].cur].frontier
             n == loc[t].made
  <2>2. /\ F \in SUBSET Base /\ n \in FreshNode
        /\ nodes' = nodes \cup {n} /\ edges' = edges /\ carried' = carried
        /\ declared' = declared \cup (F \X {n}) /\ covers' = covers \cup (F \X {n})
      BY <1>8, CommitAddsNode
  <2> HIDE DEF F, n
  <2>3. F \X {n} \subseteq Node \X Node /\ n \in Node
      BY <2>2 DEF Node
  <2>4. /\ nodes' \subseteq Node /\ declared' \subseteq Node \X Node
        /\ covers' \subseteq Node \X Node /\ edges' \subseteq Node \X Node
        /\ carried' \subseteq Base \X Base
      BY <1>1, <2>2, <2>3 DEF TypeOK
  <2> QED
      BY <1>1, <1>8, <2>1, <2>4 DEF Commit, TypeOK
<1>9. CASE Link(t)
  <2>1. PICK p \in Base : edges' = edges \cup {<<p, loc[t].made>>}
      BY <1>9, LinkAddsRow
  <2>2. loc[t].made \in Node /\ p \in Node
      BY <1>9, LinkAddsRow DEF Node
  <2>3. edges' \subseteq Node \X Node
      BY <1>1, <2>1, <2>2 DEF TypeOK
  <2> QED
      BY <1>1, <1>9, <2>3 DEF Link, TypeOK
<1>10. CASE LinkDone(t)
  <2>1. at' \in [Task -> Place] /\ loc' \in [Task -> Locals]
      BY <1>1, <1>10, GoTypes DEF LinkDone, Place
  <2> QED
      BY <1>1, <1>10, <2>1 DEF LinkDone, TypeOK
<1>11. CASE record_reintegration(t)
  <2>1. loc[t].cur \in Base /\ loc[t].made \in Node
      BY <1>11, TaskFacts DEF record_reintegration, InHand, Made, Node
  <2>2. at' \in [Task -> Place] /\ loc' \in [Task -> Locals]
      BY <1>1, <1>11, GoTypes DEF record_reintegration, Place
  <2>3. horizon' \in [Node -> [state : {"none", "active", "expired"},
                              predecessor : Base \cup {None}]]
      BY <1>1, <1>11, <2>1 DEF record_reintegration, TypeOK
  <2> QED
      BY <1>1, <1>11, <2>2, <2>3 DEF record_reintegration, TypeOK
<1>12. CASE record_reintegration_evidence(t)
  <2>1. loc[t].made \in Node
      BY <1>12, TaskFacts DEF record_reintegration_evidence, Made, Node
  <2>2. at' \in [Task -> Place] /\ loc' \in [Task -> Locals]
      BY <1>1, <1>12, GoTypes DEF record_reintegration_evidence, Place
  <2> QED
      BY <1>1, <1>12, <2>1, <2>2 DEF record_reintegration_evidence, TypeOK
<1>13. CASE RecordReducible(t)
  <2>1. /\ loc[t].cur \in Base /\ loc[t].made \in FreshNode
        /\ loc[t].plan[loc[t].cur].frontier \in SUBSET Base
      BY <1>13, TaskFacts DEF RecordReducible, InHand, Made, Candidate
  <2>2. repair' \in [Base -> Candidate]
      BY <1>1, <1>13, <2>1 DEF RecordReducible, TypeOK, Candidate
  <2> QED
      BY <1>1, <1>2, <1>13, <2>2 DEF RecordReducible, TypeOK
<1> QED
    BY <1>3, <1>4, <1>5, <1>6, <1>7, <1>8, <1>9, <1>10, <1>11, <1>12, <1>13
    DEF AttemptStep

\* Every step keeps the types.
LEMMA RecoveryTypes == RecoveryInv /\ [Next]_vars => TypeOK'
<1> SUFFICES ASSUME RecoveryInv, [Next]_vars PROVE TypeOK'
    OBVIOUS
<1>1. TypeOK /\ FreshNode \subseteq Node
    BY DEF RecoveryInv, Node
<1> USE DEF graph, walk, incident, rebuilding, control
<1>2. ASSUME NEW t \in Task, NEW n \in FreshNode, RenewCheck(t, n) PROVE TypeOK'
  <2>1. [NoLocals EXCEPT !.root = n] \in Locals
      BY <1>1, NoLocalsFacts DEF Locals
  <2>2. at' \in [Task -> Place] /\ loc' \in [Task -> Locals]
      BY <1>1, <1>2, <2>1, GoTypes DEF RenewCheck, Place
  <2> QED
      BY <1>1, <1>2, <2>2 DEF RenewCheck, TypeOK
<1>3. ASSUME NEW t \in Task, renew_trust(t) PROVE TypeOK'
  <2>1. at' \in [Task -> Place] /\ loc' \in [Task -> Locals]
      BY <1>1, <1>3, NoLocalsFacts, GoTypes DEF renew_trust, Finish, Place
  <2>2. loc[t].root \in Node
      BY <1>3 DEF RecoveryInv, TaskOK, RenewOK, renew_trust
  <2>3. horizon' \in [Node -> [state : {"none", "active", "expired"},
                              predecessor : Base \cup {None}]]
      BY <1>1, <1>3, <2>2 DEF renew_trust, TypeOK
  <2> QED
      BY <1>1, <1>3, <2>1, <2>3 DEF renew_trust, TypeOK
<1>4. ASSUME NEW n \in FreshNode, Expire(n) PROVE TypeOK'
  <2>1. horizon' \in [Node -> [state : {"none", "active", "expired"},
                              predecessor : Base \cup {None}]]
      BY <1>1, <1>4 DEF Expire, TypeOK
  <2> QED
      BY <1>1, <1>4, <2>1 DEF Expire, TypeOK
<1>5. ASSUME NEW t \in Task, Raise(t) PROVE TypeOK'
  <2>1. /\ at' \in [Task -> Place] /\ loc' \in [Task -> Locals]
        /\ owner' \in Task \cup {None}
      BY <1>1, <1>5, EndTypes DEF Raise
  <2> QED
      BY <1>1, <1>5, <2>1 DEF Raise, TypeOK
<1>6. CASE Crash
  <2>1. at' \in [Task -> Place] /\ loc' \in [Task -> Locals]
      BY <1>6, NoLocalsFacts DEF Crash, Place
  <2> QED
      BY <1>1, <1>6, <2>1 DEF Crash, TypeOK
<1>7. CASE UNCHANGED vars
    BY <1>1, <1>7 DEF vars, TypeOK
<1> QED
    BY <1>2, <1>3, <1>4, <1>5, <1>6, <1>7, WalkTypes, SweepTypes, AttemptTypes
    DEF Next, RenewStep

-----------------------------------------------------------------------------
(* What a step does to the requests that do not go on.                     *)

\* A horizon is opened once, by the request that made the node; renewal and
\* expiry keep whom it stands for.
LEMMA HorizonStays ==
  ASSUME RecoveryInv, [Next]_vars, NEW n \in Node, horizon[n].state # "none",
         \A t \in Task : at[t] = "trust" => loc[t].made # n
  PROVE  /\ horizon'[n].state # "none"
         /\ horizon'[n].predecessor = horizon[n].predecessor
<1> DEFINE Goal == /\ horizon'[n].state # "none"
                   /\ horizon'[n].predecessor = horizon[n].predecessor
<1>1. horizon \in [Node -> [state : {"none", "active", "expired"},
                            predecessor : Base \cup {None}]]
    BY DEF RecoveryInv, TypeOK
<1>2. ASSUME NEW t \in Task, record_reintegration(t) PROVE Goal
    BY <1>1, <1>2 DEF record_reintegration
<1>3. ASSUME NEW t \in Task, renew_trust(t) PROVE Goal
  <2>1. CASE loc[t].root = n
    <3>1. horizon'[n] = [horizon[n] EXCEPT !.state = "active"]
        BY <1>1, <1>3, <2>1 DEF renew_trust
    <3> QED
        BY <1>1, <3>1
  <2>2. CASE loc[t].root # n
      BY <1>1, <1>3, <2>2 DEF renew_trust
  <2> QED
      BY <2>1, <2>2
<1>4. ASSUME NEW m \in FreshNode, Expire(m) PROVE Goal
    BY <1>1, <1>4 DEF Expire
<1>5. CASE horizon' = horizon
    BY <1>5
<1> QED
    BY <1>2, <1>3, <1>4, <1>5, Writers

\* The events on record stay, with the nodes they withdrew and, but for a row
\* of the request that has the event in hand, no others.
LEMMA EventsStay ==
  ASSUME RecoveryInv, [Next]_vars
  PROVE  /\ Len(recurrences) <= Len(recurrences')
         /\ \A i \in 1..Len(recurrences) : recurrences'[i] = recurrences[i]
         /\ \/ \A n \in Node : withdrawn'[n] = withdrawn[n]
            \/ \E t \in Task : \E m \in loc[t].reach :
                 /\ at[t] = "withdraw" /\ m \in Node /\ withdrawn[m] = 0
                 /\ recurrences' = recurrences
                 /\ withdrawn'[m] = loc[t].event
                 /\ \A n \in Node : n # m => withdrawn'[n] = withdrawn[n]
<1>1. /\ recurrences \in Seq([node : Node, escalated : BOOLEAN])
      /\ withdrawn \in [Node -> Nat] /\ loc \in [Task -> Locals]
    BY DEF RecoveryInv, TypeOK
<1>2. CASE UNCHANGED <<recurrences, withdrawn>>
    BY <1>1, <1>2
<1>3. ASSUME NEW t \in Task, LogRecurrence(t)
      PROVE  /\ Len(recurrences) <= Len(recurrences')
             /\ \A i \in 1..Len(recurrences) : recurrences'[i] = recurrences[i]
             /\ \A n \in Node : withdrawn'[n] = withdrawn[n]
  <2> DEFINE e == [node |-> loc[t].node, escalated |-> Escalates(t)]
  <2>1. recurrences' = Append(recurrences, e) /\ withdrawn' = withdrawn
      BY <1>3 DEF LogRecurrence
  <2> HIDE DEF e
  <2> QED
      BY <1>1, <2>1
<1>4. ASSUME NEW t \in Task, WithdrawRow(t)
      PROVE  /\ recurrences' = recurrences
             /\ \E m \in loc[t].reach :
                  /\ at[t] = "withdraw" /\ m \in Node /\ withdrawn[m] = 0
                  /\ withdrawn'[m] = loc[t].event
                  /\ \A n \in Node : n # m => withdrawn'[n] = withdrawn[n]
  <2>1. loc[t].reach \in SUBSET Node
      BY <1>1 DEF Locals
  <2> QED
      BY <1>1, <1>4, <2>1 DEF WithdrawRow
<1> QED
    BY <1>1, <1>2, <1>3, <1>4, Writers

\* A request that stays where it is keeps what its place promises.
LEMMA OthersOK ==
  ASSUME RecoveryInv, [Next]_vars, NEW u \in Task,
         at'[u] = at[u], loc'[u] = loc[u]
  PROVE  TaskOK(u)'
<1> DEFINE l == loc[u]
           F == l.plan[l.cur].frontier
<1>1. /\ GraphKept /\ ledger \subseteq ledger' /\ evidence \subseteq evidence'
      /\ crossed \subseteq crossed'
    BY GraphStep, RowsStay
<1>2. /\ \A r : Radius(r)' = Radius(r)
      /\ \A S : Affected(S)' = Affected(S)
      /\ \A c \in Base : \A G : Planned(c, G) => Planned(c, G)'
      /\ \A c \in Base : \A G : Rederived(c, G) => Rederived(c, G)'
      /\ \A r : Descendants(edges, Node, r) \subseteq Descendants(edges', Node, r)
    BY <1>1, PlansKept
<1>3. /\ WalkOK(u) /\ SweepOK(u) /\ WithdrawOK(u) /\ AttemptOK(u)
      /\ MakeOK(u) /\ RenewOK(u) /\ Apart
    BY DEF RecoveryInv, TaskOK
<1>4. WalkOK(u)'
    BY <1>1, <1>2, <1>3 DEF WalkOK
<1>5. SweepOK(u)'
  <2>1. ASSUME NEW n \in Node, DetectorEnter(u, n) PROVE FALSE
    <3>1. at[u] = "idle" /\ at'[u] = "clear"
        BY <2>1, GoFacts DEF DetectorEnter, Walk, RecoveryInv
    <3> QED
        BY <3>1
  <2>2. owner' = u => owner = u
      BY <2>1, RowsStay DEF DetectorIn
  <2> QED
      BY <1>3, <2>2 DEF SweepOK, Walking
<1>6. WithdrawOK(u)'
  <2> SUFFICES ASSUME at[u] = "withdraw"
      PROVE  /\ l.event \in 1..Len(recurrences')
             /\ \A n \in Node : withdrawn'[n] = l.event => n \in l.reach
             /\ l.reach \subseteq Descendants(edges', Node, recurrences'[l.event].node)
             /\ recurrences'[l.event].escalated => l.reach = {}
             /\ Cardinality(l.reach) <= MaxAmplification
      BY DEF WithdrawOK
  <2>1. /\ l.event \in 1..Len(recurrences)
        /\ \A n \in Node : withdrawn[n] = l.event => n \in l.reach
        /\ l.reach \subseteq Descendants(edges, Node, recurrences[l.event].node)
        /\ recurrences[l.event].escalated => l.reach = {}
        /\ Cardinality(l.reach) <= MaxAmplification
      BY <1>3 DEF WithdrawOK
  <2>2. recurrences'[l.event] = recurrences[l.event]
      BY <2>1, EventsStay
  <2>3. /\ Len(recurrences) \in Nat /\ Len(recurrences') \in Nat
        /\ Len(recurrences) <= Len(recurrences')
    <3>1. TypeOK /\ TypeOK'
        BY RecoveryTypes DEF RecoveryInv
    <3> QED
        BY <3>1, EventsStay DEF TypeOK
  <2>4. l.event \in 1..Len(recurrences')
      BY <2>1, <2>3
  <2>5. ASSUME NEW n \in Node, withdrawn'[n] = l.event PROVE n \in l.reach
    <3>1. CASE withdrawn'[n] = withdrawn[n]
        BY <2>1, <2>5, <3>1
    <3>2. ASSUME NEW t \in Task, n \in loc[t].reach, at[t] = "withdraw",
                 withdrawn'[n] = loc[t].event
          PROVE  n \in l.reach
        BY <1>3, <2>5, <3>2 DEF Apart
    <3> QED
        BY <3>1, <3>2, EventsStay
  <2> QED
      BY <1>2, <2>1, <2>2, <2>4, <2>5
<1>7. AttemptOK(u)'
    BY <1>1, <1>2, <1>3 DEF AttemptOK
<1>8. MakeOK(u)'
  <2>1. at[u] \in InHand => l.cur \in Base
      BY <1>3 DEF AttemptOK
  <2>2. ASSUME at[u] = "commit"
        PROVE  l.made \notin nodes' /\ (useAdapter' => Rederived(l.cur, F)')
    <3>1. l.made \notin nodes /\ (useAdapter => Rederived(l.cur, F)) /\ l.made # None
        BY <1>3, <2>2 DEF MakeOK, Made
    <3>2. l.made \notin nodes'
      <4>1. ASSUME NEW t \in Task, Commit(t) PROVE l.made \notin nodes'
        <5>1. nodes' = nodes \cup {loc[t].made}
            BY <4>1, CommitAddsNode
        <5>2. at'[t] = "link"
            BY <4>1, GoFacts DEF Commit, RecoveryInv
        <5>3. t # u
            BY <2>2, <5>2
        <5> QED
            BY <1>3, <3>1, <5>1, <5>3 DEF Apart
      <4>2. ASSUME NEW t \in Task, Link(t) PROVE nodes' = nodes
          BY <4>2 DEF Link
      <4> QED
          BY <3>1, <4>1, <4>2, Writers DEF graph
    <3> QED
        BY <1>1, <1>2, <2>1, <2>2, <3>1, <3>2 DEF GraphKept, InHand
  <2>3. ASSUME at[u] \in Stored
        PROVE  /\ l.made \in nodes' /\ Parents(declared', l.made) = F
               /\ Parents(edges', l.made) \subseteq F
    <3>1. /\ l.made \in nodes /\ Parents(declared, l.made) = F
          /\ Parents(edges, l.made) \subseteq F /\ l.made # None
        BY <1>3, <2>3 DEF MakeOK, Stored, Made
    <3>2. ASSUME NEW t \in Task, loc[t].made = l.made PROVE t = u
        BY <1>3, <3>1, <3>2 DEF Apart
    <3> QED
        BY <1>1, <3>1, <3>2 DEF GraphKept
  <2>4. ASSUME at[u] \in Linked PROVE F \subseteq Parents(edges', l.made)
    <3>1. Parents(edges, l.made) \subseteq Parents(edges', l.made)
        BY <1>1 DEF GraphKept, Parents
    <3> QED
        BY <1>3, <2>4, <3>1 DEF MakeOK
  <2>5. ASSUME at[u] \in {"evidence", "record"}
        PROVE  horizon'[l.made].state # "none" /\ horizon'[l.made].predecessor = l.cur
    <3>1. l.made \in Node
        BY <2>5, TaskFacts DEF Made, Node
    <3>2. \A t \in Task : at[t] = "trust" => loc[t].made # l.made
        BY <1>3, <2>5 DEF Apart, MakeOK, Made
    <3> QED
        BY <1>3, <2>5, <3>1, <3>2, HorizonStays DEF MakeOK
  <2> QED
      BY <1>1, <1>3, <2>2, <2>3, <2>4, <2>5 DEF MakeOK
<1>9. RenewOK(u)'
    BY <1>3 DEF RenewOK
<1> QED
    BY <1>4, <1>5, <1>6, <1>7, <1>8, <1>9 DEF TaskOK

-----------------------------------------------------------------------------
(* What a step does for the request that takes it.                         *)

\* A request that has ended promises nothing.
LEMMA IdleOK ==
  ASSUME NEW t \in Task, at'[t] = "idle", loc'[t] = NoLocals, owner' # t
  PROVE  TaskOK(t)'
BY NoLocalsFacts
DEF TaskOK, WalkOK, SweepOK, WithdrawOK, AttemptOK, MakeOK, RenewOK, Walking,
    InHand, Made, Stored, Linked

\* A request that leaves has ended.
LEMMA LeaveOK ==
  ASSUME TypeOK, NEW t \in Task, Leave(t)
  PROVE  /\ at'[t] = "idle" /\ loc'[t] = NoLocals /\ TaskOK(t)'
         /\ \A u \in Task : u # t => at'[u] = at[u] /\ loc'[u] = loc[u]
<1>1. Go(t, "idle", NoLocals)
    BY DEF Leave, Finish
<1>2. /\ at'[t] = "idle" /\ loc'[t] = NoLocals
      /\ \A u \in Task : u # t => at'[u] = at[u] /\ loc'[u] = loc[u]
    BY <1>1, GoFacts
<1>3. owner' # t
    BY RecoveryAssumption DEF Leave
<1> QED
    BY <1>2, <1>3, IdleOK

\* Before its attempts a request has nothing in hand.
LEMMA QuietOK ==
  ASSUME RecoveryInv, [Next]_vars, NEW t \in Task,
         at'[t] \in Walking \cup {"withdraw", "hook", "read"},
         loc'[t].plan \in {loc[t].plan, NoPlan}, loc'[t].made = None,
         at'[t] = "read" => loc'[t].root \in ledger'
  PROVE  AttemptOK(t)' /\ MakeOK(t)' /\ RenewOK(t)'
<1>1. \A c \in Base : \A G : Planned(c, G) => Planned(c, G)'
    BY GraphStep, RowsStay, PlansKept
<1>2. AttemptOK(t)
    BY DEF RecoveryInv, TaskOK
<1>3. AttemptOK(t)'
  <2>1. CASE loc'[t].plan = loc[t].plan
      BY <1>1, <1>2, <2>1 DEF AttemptOK, InHand, Walking
  <2>2. CASE loc'[t].plan = NoPlan
      BY <2>2, NoLocalsFacts DEF AttemptOK, InHand, Walking
  <2> QED
      BY <2>1, <2>2
<1> QED
    BY <1>3 DEF MakeOK, RenewOK, Walking, Made, Stored, Linked

\* Walking and planning.
LEMMA WalkActorOK ==
  ASSUME RecoveryInv, [Next]_vars, NEW t \in Task, WalkStep(t)
  PROVE  TaskOK(t)'
<1>1. /\ TypeOK /\ Grounded /\ loc[t] \in Locals
      /\ WalkOK(t) /\ SweepOK(t) /\ MakeOK(t)
    BY TaskFacts DEF RecoveryInv, TaskOK
<1>2. /\ \A r : Radius(r)' = Radius(r)
      /\ \A S : Affected(S)' = Affected(S)
      /\ \A r : Descendants(edges, Node, r) \subseteq Descendants(edges', Node, r)
      /\ crossed \subseteq crossed'
    BY GraphStep, RowsStay, PlansKept
<1>3. t # None
    BY RecoveryAssumption
<1>4. ASSUME NEW n \in Node, DetectorEnter(t, n) \/ ObserveEnter(t, n)
      PROVE  TaskOK(t)'
  <2> DEFINE R == Descendants(edges, Node, n)
  <2>1. R \in SUBSET Node /\ n \in R /\ R \cap Base = Radius(n) \cap Base
      BY <1>1, WalkFacts
  <2>2. R \subseteq Descendants(edges', Node, n)
      BY <1>2
  <2>3. PICK l \in {NoLocals, [NoLocals EXCEPT !.root = n]} :
          /\ Walk(t, l, n)
          /\ owner' = t => owner = t \/ l = [NoLocals EXCEPT !.root = n]
      BY <1>4 DEF DetectorEnter, ObserveEnter
  <2>4. /\ l \in Locals /\ l.radius = {} /\ l.plan = NoPlan /\ l.made = None
        /\ l = [NoLocals EXCEPT !.root = n] => l.root = n
      BY NoLocalsFacts DEF Locals
  <2>5. /\ at'[t] = "clear" /\ loc'[t].node = n /\ loc'[t].reach = R
        /\ loc'[t].root = l.root /\ loc'[t].radius = {}
        /\ loc'[t].plan = NoPlan /\ loc'[t].made = None
      BY <1>1, <2>3, <2>4, WalkLocals
  <2>6. owner' = t => l.root = n
    <3>1. owner # t
        BY <1>1, <1>4 DEF SweepOK, Walking, DetectorEnter, ObserveEnter
    <3> QED
        BY <2>3, <2>4, <3>1
  <2> HIDE DEF R
  <2>7. WalkOK(t)'
      BY <1>2, <2>1, <2>2, <2>5 DEF WalkOK, Walking
  <2>8. SweepOK(t)' /\ WithdrawOK(t)'
      BY <2>5, <2>6 DEF SweepOK, WithdrawOK, Walking
  <2>9. AttemptOK(t)' /\ MakeOK(t)' /\ RenewOK(t)'
      BY <2>5, QuietOK DEF Walking
  <2> QED
      BY <2>7, <2>8, <2>9 DEF TaskOK
<1>5. ASSUME at[t] \in Walking, at'[t] \in Walking, owner' = owner,
             loc'[t].node = loc[t].node, loc'[t].reach = loc[t].reach,
             loc'[t].root = loc[t].root, loc'[t].radius = loc[t].radius,
             loc'[t].plan = loc[t].plan, loc'[t].made = loc[t].made,
             at'[t] \in {"plan", "planWrite"} =>
               loc'[t].todo \subseteq Affected(loc[t].reach) \cup crossed',
             at'[t] = "planWrite" =>
               /\ loc'[t].cur \in Base
               /\ loc'[t].cur \in Affected(loc[t].reach) \cup crossed'
      PROVE  TaskOK(t)'
  <2>1. loc'[t].made = None
      BY <1>1, <1>5 DEF MakeOK, Made, Walking
  <2>2. WalkOK(t)'
      BY <1>1, <1>2, <1>5 DEF WalkOK
  <2>3. SweepOK(t)' /\ WithdrawOK(t)'
      BY <1>1, <1>5 DEF SweepOK, WithdrawOK, Walking
  <2>4. AttemptOK(t)' /\ MakeOK(t)' /\ RenewOK(t)'
      BY <1>5, <2>1, QuietOK DEF Walking
  <2> QED
      BY <2>2, <2>3, <2>4 DEF TaskOK
<1>6. CASE ClearTmp(t) \/ FillTmp(t)
  <2>1. /\ at[t] \in Walking /\ at'[t] \in {"fill", "select"} /\ loc'[t] = loc[t]
        /\ owner' = owner
      BY <1>1, <1>6, GoFacts DEF ClearTmp, FillTmp, Walking, control
  <2> QED
      BY <1>5, <2>1 DEF Walking
<1>7. CASE FillClash(t)
    BY <1>1, <1>7, LeaveOK DEF FillClash
<1>8. CASE SelectAffected(t)
  <2> DEFINE A == Affected(tmp)
  <2>1. /\ at[t] = "select" /\ at'[t] = "plan" /\ owner' = owner
        /\ loc'[t] = [loc[t] EXCEPT !.todo = A]
        /\ crossed' = crossed \cup (A \ Affected(loc[t].reach))
      BY <1>1, <1>8, GoFacts DEF SelectAffected, control
  <2> HIDE DEF A
  <2>2. /\ loc'[t].node = loc[t].node /\ loc'[t].reach = loc[t].reach
        /\ loc'[t].root = loc[t].root /\ loc'[t].radius = loc[t].radius
        /\ loc'[t].plan = loc[t].plan /\ loc'[t].made = loc[t].made
        /\ loc'[t].todo = A
      BY <1>1, <2>1 DEF Locals
  <2> QED
      BY <1>5, <2>1, <2>2 DEF Walking
<1>9. CASE PlanLook(t)
  <2>1. PICK c \in loc[t].todo :
          LET rest == [loc[t] EXCEPT !.todo = @ \ {c}] IN
          Go(t, "plan", rest) \/ Go(t, "planWrite", [rest EXCEPT !.cur = c])
      BY <1>9 DEF PlanLook
  <2>2. c \in Base /\ at[t] = "plan" /\ owner' = owner
      BY <1>1, <1>9 DEF Locals, PlanLook, control
  <2> DEFINE rest == [loc[t] EXCEPT !.todo = @ \ {c}]
  <2>3. /\ rest \in Locals /\ rest.node = loc[t].node /\ rest.reach = loc[t].reach
        /\ rest.root = loc[t].root /\ rest.radius = loc[t].radius
        /\ rest.plan = loc[t].plan /\ rest.made = loc[t].made
        /\ rest.todo = loc[t].todo \ {c}
      BY <1>1 DEF Locals
  <2>4. \/ at'[t] = "plan" /\ loc'[t] = rest
        \/ at'[t] = "planWrite" /\ loc'[t] = [rest EXCEPT !.cur = c]
      BY <1>1, <2>1, GoFacts
  <2> HIDE DEF rest
  <2>5. /\ loc'[t].node = loc[t].node /\ loc'[t].reach = loc[t].reach
        /\ loc'[t].root = loc[t].root /\ loc'[t].radius = loc[t].radius
        /\ loc'[t].plan = loc[t].plan /\ loc'[t].made = loc[t].made
        /\ loc'[t].todo = loc[t].todo \ {c}
        /\ at'[t] = "planWrite" => loc'[t].cur = c
      BY <2>3, <2>4 DEF Locals
  <2>6. loc[t].todo \subseteq Affected(loc[t].reach) \cup crossed
      BY <1>1, <2>2 DEF WalkOK
  <2> QED
      BY <1>2, <1>5, <2>2, <2>4, <2>5, <2>6 DEF Walking
<1>10. CASE PlanWrite(t)
  <2>1. /\ at[t] = "planWrite" /\ at'[t] = "plan" /\ owner' = owner
        /\ loc'[t] = [loc[t] EXCEPT !.cur = None]
      BY <1>1, <1>10, GoFacts DEF PlanWrite, control
  <2>2. /\ loc'[t].node = loc[t].node /\ loc'[t].reach = loc[t].reach
        /\ loc'[t].root = loc[t].root /\ loc'[t].radius = loc[t].radius
        /\ loc'[t].plan = loc[t].plan /\ loc'[t].made = loc[t].made
        /\ loc'[t].todo = loc[t].todo
      BY <1>1, <2>1 DEF Locals
  <2>3. loc[t].todo \subseteq Affected(loc[t].reach) \cup crossed
      BY <1>1, <2>1 DEF WalkOK
  <2> QED
      BY <1>2, <1>5, <2>1, <2>2, <2>3 DEF Walking
<1> QED
    BY <1>4, <1>6, <1>7, <1>8, <1>9, <1>10 DEF WalkStep

\* A closure that does not escalate is within the bound.
LEMMA WithinBound ==
  ASSUME RecoveryInv, NEW t \in Task
  PROVE  /\ IsFiniteSet(Node) /\ Escalates(t) \in BOOLEAN
         /\ ~Escalates(t) => Cardinality(loc[t].reach) <= MaxAmplification
         /\ Cardinality({}) <= MaxAmplification
<1>1. IsFiniteSet(Node)
    BY RecoveryAssumption, FS_Union DEF Node
<1>2. IsFiniteSet(loc[t].reach)
  <2>1. loc[t].reach \in SUBSET Node
      BY TaskFacts DEF Locals
  <2> QED
      BY <1>1, <2>1, FS_Subset
<1>3. Cardinality(loc[t].reach) \in Nat
    BY <1>2, FS_CardinalityType
<1>4. Cardinality({}) = 0
    BY FS_EmptySet
<1> QED
    BY <1>1, <1>3, <1>4, RecoveryAssumption DEF Escalates

\* Recurrences, and the sweep.
LEMMA SweepActorOK ==
  ASSUME RecoveryInv, [Next]_vars, NEW t \in Task, SweepStep(t)
  PROVE  TaskOK(t)'
<1>1. /\ TypeOK /\ Grounded /\ loc[t] \in Locals
      /\ WalkOK(t) /\ SweepOK(t) /\ WithdrawOK(t) /\ MakeOK(t)
    BY TaskFacts DEF RecoveryInv, TaskOK
<1>2. /\ \A r : Radius(r)' = Radius(r)
      /\ \A r : Descendants(edges, Node, r) \subseteq Descendants(edges', Node, r)
    BY GraphStep, RowsStay, PlansKept
<1>3. t # None
    BY RecoveryAssumption
<1>4. ASSUME at[t] \notin Made PROVE loc[t].made = None
    BY <1>1, <1>4 DEF MakeOK
<1>5. CASE LogRecurrence(t)
  <2> DEFINE e == [node |-> loc[t].node, escalated |-> Escalates(t)]
             R == IF Escalates(t) THEN {} ELSE loc[t].reach
             k == Len(recurrences) + 1
  <2>1. /\ recurrences' = Append(recurrences, e) /\ withdrawn' = withdrawn
        /\ Go(t, "withdraw", [loc[t] EXCEPT !.event = k, !.reach = R])
        /\ at[t] = "plan" /\ ~Sweeping(t) /\ owner' = owner
      BY <1>5 DEF LogRecurrence, control
  <2>2. e.node = loc[t].node /\ (e.escalated = Escalates(t))
      OBVIOUS
  <2>3. /\ R \subseteq Descendants(edges, Node, loc[t].node)
        /\ Escalates(t) => R = {}
        /\ Cardinality(R) <= MaxAmplification
      BY <1>1, <2>1, WithinBound DEF WalkOK, Walking
  <2>4. /\ recurrences \in Seq([node : Node, escalated : BOOLEAN])
        /\ e \in [node : Node, escalated : BOOLEAN]
      BY <1>1, <2>1, TaskFacts, WithinBound DEF TypeOK, Walking
  <2>5. \A n \in Node : withdrawn[n] \in 0..Len(recurrences)
      BY DEF RecoveryInv, Accounted, WithdrawalBacked
  <2> HIDE DEF e, R
  <2>6. /\ k \in 1..Len(recurrences') /\ recurrences'[k] = e
        /\ \A n \in Node : withdrawn'[n] # k
      BY <2>1, <2>4, <2>5
  <2> HIDE DEF k
  <2>7. /\ at'[t] = "withdraw"
        /\ loc'[t] = [loc[t] EXCEPT !.event = k, !.reach = R]
      BY <1>1, <2>1, GoFacts
  <2>8. /\ loc'[t].event = k /\ loc'[t].reach = R
        /\ loc'[t].root = loc[t].root /\ loc'[t].radius = loc[t].radius
        /\ loc'[t].plan = loc[t].plan /\ loc'[t].made = loc[t].made
      BY <1>1, <2>7 DEF Locals
  <2>9. WalkOK(t)'
      BY <2>7 DEF WalkOK, Walking
  <2>10. SweepOK(t)'
      BY <1>1, <2>1, <2>7, <2>8 DEF SweepOK, Sweeping, Walking
  <2>11. WithdrawOK(t)'
    <3>1. R \subseteq Descendants(edges', Node, recurrences'[k].node)
        BY <1>2, <2>2, <2>3, <2>6
    <3>2. recurrences'[k].escalated => R = {}
        BY <2>2, <2>3, <2>6
    <3> QED
        BY <2>3, <2>6, <2>7, <2>8, <3>1, <3>2 DEF WithdrawOK
  <2>12. AttemptOK(t)' /\ MakeOK(t)' /\ RenewOK(t)'
      BY <1>4, <2>1, <2>7, <2>8, QuietOK DEF Made
  <2> QED
      BY <2>9, <2>10, <2>11, <2>12 DEF TaskOK
<1>6. CASE WithdrawRow(t)
    BY <1>6, OthersOK DEF WithdrawRow
<1>7. CASE WithdrawDone(t)
  <2>1. CASE owner = t
    <3>1. /\ at[t] = "withdraw" /\ at'[t] = "hook" /\ owner' = owner
          /\ loc'[t] = [loc[t] EXCEPT !.node = None, !.reach = {}, !.event = 0]
        BY <1>1, <1>7, <2>1, GoFacts DEF WithdrawDone, control
    <3>2. /\ loc'[t].root = loc[t].root /\ loc'[t].radius = loc[t].radius
          /\ loc'[t].plan = loc[t].plan /\ loc'[t].made = loc[t].made
        BY <1>1, <3>1 DEF Locals
    <3>3. WalkOK(t)' /\ SweepOK(t)' /\ WithdrawOK(t)'
        BY <1>1, <2>1, <3>1, <3>2 DEF WalkOK, SweepOK, WithdrawOK, Walking
    <3>4. AttemptOK(t)' /\ MakeOK(t)' /\ RenewOK(t)'
        BY <1>4, <3>1, <3>2, QuietOK DEF Made
    <3> QED
        BY <3>3, <3>4 DEF TaskOK
  <2>2. CASE owner # t
    <3>1. at'[t] = "idle" /\ loc'[t] = NoLocals /\ owner' # t
        BY <1>1, <1>7, <2>2, GoFacts DEF WithdrawDone, Finish, control
    <3> QED
        BY <3>1, IdleOK
  <2> QED
      BY <2>1, <2>2
<1>8. CASE HookRead(t)
  <2> DEFINE H == {n \in loc[t].reach : horizon[n].state = "active"}
  <2>1. /\ at[t] = "plan" /\ Sweeping(t) /\ owner' = owner /\ at'[t] = "hook"
        /\ loc'[t] = [loc[t] EXCEPT !.radius = loc[t].reach, !.node = None,
                                    !.reach = {}, !.hooks = H]
      BY <1>1, <1>8, GoFacts DEF HookRead, control
  <2> HIDE DEF H
  <2>2. /\ loc'[t].root = loc[t].root /\ loc'[t].radius = loc[t].reach
        /\ loc'[t].plan = loc[t].plan /\ loc'[t].made = loc[t].made
      BY <1>1, <2>1 DEF Locals
  <2>3. loc[t].root \in loc[t].reach
      BY <1>1, <2>1 DEF WalkOK, SweepOK, Sweeping, Walking
  <2>4. WalkOK(t)' /\ SweepOK(t)' /\ WithdrawOK(t)'
      BY <2>1, <2>2, <2>3 DEF WalkOK, SweepOK, WithdrawOK, Walking
  <2>5. AttemptOK(t)' /\ MakeOK(t)' /\ RenewOK(t)'
      BY <1>4, <2>1, <2>2, QuietOK DEF Made
  <2> QED
      BY <2>4, <2>5 DEF TaskOK
<1>9. CASE HookNext(t)
  <2>1. PICK n \in loc[t].hooks : Walk(t, [loc[t] EXCEPT !.hooks = @ \ {n}], n)
      BY <1>9 DEF HookNext
  <2> DEFINE R == Descendants(edges, Node, n)
             l == [loc[t] EXCEPT !.hooks = @ \ {n}]
  <2>2. n \in Node /\ at[t] = "hook" /\ owner' = owner
      BY <1>1, <1>9 DEF Locals, HookNext, control
  <2>3. R \in SUBSET Node /\ n \in R /\ R \cap Base = Radius(n) \cap Base
      BY <1>1, <2>2, WalkFacts
  <2>4. R \subseteq Descendants(edges', Node, n)
      BY <1>2
  <2>5. /\ l \in Locals /\ l.root = loc[t].root /\ l.radius = loc[t].radius
        /\ l.plan = loc[t].plan /\ l.made = loc[t].made
      BY <1>1 DEF Locals
  <2>6. Walk(t, l, n)
      BY <2>1
  <2> HIDE DEF l
  <2>7. /\ at'[t] = "clear" /\ loc'[t].node = n /\ loc'[t].reach = R
        /\ loc'[t].root = loc[t].root /\ loc'[t].radius = loc[t].radius
        /\ loc'[t].plan = loc[t].plan /\ loc'[t].made = loc[t].made
      BY <1>1, <2>2, <2>5, <2>6, WalkLocals
  <2> HIDE DEF R
  <2>8. WalkOK(t)'
      BY <1>2, <2>3, <2>4, <2>7 DEF WalkOK, Walking
  <2>9. SweepOK(t)' /\ WithdrawOK(t)'
      BY <1>1, <2>2, <2>7 DEF SweepOK, WithdrawOK, Walking
  <2>10. AttemptOK(t)' /\ MakeOK(t)' /\ RenewOK(t)'
      BY <1>4, <2>2, <2>7, QuietOK DEF Made, Walking
  <2> QED
      BY <2>8, <2>9, <2>10 DEF TaskOK
<1>10. CASE Apply(t)
  <2>1. /\ at[t] = "hook" /\ at'[t] = "read" /\ owner' # t
        /\ loc'[t] = [loc[t] EXCEPT !.radius = {}]
        /\ ledger' = ledger \cup loc[t].radius
      BY <1>1, <1>3, <1>10, GoFacts DEF Apply
  <2>2. /\ loc'[t].root = loc[t].root /\ loc'[t].radius = {}
        /\ loc'[t].plan = loc[t].plan /\ loc'[t].made = loc[t].made
      BY <1>1, <2>1 DEF Locals
  <2>3. loc[t].root \in ledger'
      BY <1>1, <2>1 DEF SweepOK
  <2>4. WalkOK(t)' /\ SweepOK(t)' /\ WithdrawOK(t)'
      BY <2>1, <2>2 DEF WalkOK, SweepOK, WithdrawOK, Walking
  <2>5. AttemptOK(t)' /\ MakeOK(t)' /\ RenewOK(t)'
      BY <1>4, <2>1, <2>2, <2>3, QuietOK DEF Made
  <2> QED
      BY <2>4, <2>5 DEF TaskOK
<1>11. CASE ApplyTorn(t)
    BY <1>1, <1>11, LeaveOK DEF ApplyTorn
<1> QED
    BY <1>5, <1>6, <1>7, <1>8, <1>9, <1>10, <1>11 DEF SweepStep

\* With an adapter, a candidate that comes back was derived twice.
LEMMA AgreedIsRederived ==
  ASSUME RecoveryInv, NEW t \in Task, at[t] = "ask", AdapterAgrees(t)
  PROVE  Rederived(loc[t].cur, loc[t].plan[loc[t].cur].frontier)
<1> DEFINE r == loc[t].root
           F == loc[t].plan[loc[t].cur].frontier
<1>1. r \in ledger /\ r \in Node
    BY DEF RecoveryInv, TaskOK, AttemptOK, InHand, TypeOK
<1>2. declared \subseteq Base \X Node
    BY DEF RecoveryInv, Grounded, TypeOK
<1>3. Covered(loc[t].cur) \subseteq Base
    BY CoveredInBase DEF RecoveryInv
<1>4. F = Covered(loc[t].cur) \ Descendants(declared, Node, r)
    BY DEF AdapterAgrees
<1>5. Descendants(declared, Node, r) \cap Base
        = Descendants(OfBase(declared), Base \cup {r}, r) \cap Base
    BY <1>1, <1>2, LeavesDoNotMatter
<1> HIDE DEF r, F
<1>6. F = Covered(loc[t].cur) \ Descendants(OfBase(declared), Base \cup {r}, r)
    BY <1>3, <1>4, <1>5
<1>7. Rederived(loc[t].cur, F)
    BY <1>1, <1>6 DEF Rederived
<1> QED
    BY <1>7 DEF F

\* Reading, asking, committing and reintegrating.
LEMMA AttemptActorOK ==
  ASSUME RecoveryInv, [Next]_vars, NEW t \in Task, AttemptStep(t)
  PROVE  TaskOK(t)'
<1> DEFINE l == loc[t]
           F == l.plan[l.cur].frontier
<1>1. /\ TypeOK /\ Grounded /\ loc[t] \in Locals
      /\ SweepOK(t) /\ AttemptOK(t) /\ MakeOK(t)
    BY TaskFacts DEF RecoveryInv, TaskOK
<1>2. /\ \A c \in Base : \A G : Planned(c, G) => Planned(c, G)'
      /\ \A c \in Base : \A G : Rederived(c, G) => Rederived(c, G)'
      /\ ledger \subseteq ledger'
    BY GraphStep, RowsStay, PlansKept
<1>3. owner' = owner
    BY DEF AttemptStep, AttemptRead, AttemptNext, AskAdapter, BuildInline,
           AskRefused, AttemptRaise, Commit, Link, LinkDone,
           record_reintegration, record_reintegration_evidence,
           RecordReducible, control
<1>4. ASSUME at[t] \in {"attempt"} \cup InHand,
             at'[t] \in {"attempt"} \cup InHand,
             loc'[t].root = l.root, loc'[t].radius = l.radius,
             loc'[t].plan = l.plan,
             loc'[t].todo \subseteq l.todo,
             at'[t] = "attempt" \/ loc'[t].cur \in l.todo
               \/ (at[t] \in InHand /\ loc'[t].cur = l.cur),
             MakeOK(t)'
      PROVE  TaskOK(t)'
  <2>1. WalkOK(t)' /\ SweepOK(t)' /\ WithdrawOK(t)' /\ RenewOK(t)'
      BY <1>3, <1>1, <1>4
      DEF WalkOK, SweepOK, WithdrawOK, RenewOK, InHand, Walking
  <2>2. l.todo \subseteq Base
      BY <1>1 DEF Locals
  <2>3. AttemptOK(t)'
      BY <1>1, <1>2, <1>4, <2>2 DEF AttemptOK, InHand
  <2> QED
      BY <1>4, <2>1, <2>3 DEF TaskOK
<1>5. CASE AttemptRead(t)
  <2>1. /\ at[t] = "read" /\ at'[t] = "attempt"
        /\ loc'[t].root = l.root /\ loc'[t].radius = l.radius
        /\ loc'[t].made = l.made /\ loc'[t].plan = repair
        /\ loc'[t].todo = {c \in Base : repair[c].disposition = "PENDING"}
      BY <1>1, <1>5 DEF AttemptRead, Go, TypeOK, Locals
  <2>2. \A c \in Base : repair[c].disposition = "PENDING"
                          => Planned(c, repair[c].frontier)
      BY DEF RecoveryInv, PendingPlanned
  <2>3. \A c \in Base : repair[c].disposition = "PENDING"
                          => \A G : G = repair[c].frontier => Planned(c, G)'
      BY <1>2, <2>2
  <2>4. AttemptOK(t)'
      BY <1>1, <1>2, <2>1, <2>3 DEF AttemptOK, InHand
  <2>5. WalkOK(t)' /\ SweepOK(t)' /\ WithdrawOK(t)' /\ RenewOK(t)'
      BY <1>3, <1>1, <2>1 DEF WalkOK, SweepOK, WithdrawOK, RenewOK, Walking
  <2>6. MakeOK(t)'
      BY <1>1, <2>1 DEF MakeOK, Made, Stored, Linked
  <2> QED
      BY <2>4, <2>5, <2>6 DEF TaskOK
<1>6. CASE AttemptNext(t)
  <2>1. CASE l.todo = {}
    <3>1. at'[t] = "idle" /\ loc'[t] = NoLocals /\ owner' # t
        BY <1>3, <1>1, <1>6, <2>1, GoFacts
        DEF AttemptNext, Finish, SweepOK, Walking
    <3> QED
        BY <3>1, IdleOK
  <2>2. CASE l.todo # {}
    <3>1. PICK c \in l.todo : Go(t, "ask", [l EXCEPT !.todo = @ \ {c}, !.cur = c])
        BY <1>6, <2>2 DEF AttemptNext
    <3>2. /\ at[t] = "attempt" /\ at'[t] = "ask"
          /\ loc'[t].root = l.root /\ loc'[t].radius = l.radius
        /\ loc'[t].made = l.made /\ loc'[t].plan = l.plan
          /\ loc'[t].todo = l.todo \ {c} /\ loc'[t].cur = c
        BY <1>1, <1>6, <3>1 DEF AttemptNext, Go, TypeOK, Locals
    <3>3. MakeOK(t)'
        BY <1>1, <3>2 DEF MakeOK, Made, Stored, Linked
    <3> QED
        BY <1>4, <3>2, <3>3 DEF InHand
  <2> QED
      BY <2>1, <2>2
<1>7. CASE AskAdapter(t) \/ BuildInline(t)
  <2>1. PICK id \in FreshNode \ (nodes \cup {loc[u].made : u \in Task}) :
          Go(t, "commit", [l EXCEPT !.made = id])
      BY <1>7 DEF AskAdapter, BuildInline, Built
  <2>2. /\ at[t] = "ask" /\ at'[t] = "commit"
        /\ loc'[t].root = l.root /\ loc'[t].radius = l.radius
        /\ loc'[t].plan = l.plan /\ loc'[t].made = id
        /\ loc'[t].todo = l.todo /\ loc'[t].cur = l.cur
        /\ nodes' = nodes /\ useAdapter' = useAdapter
      BY <1>1, <1>7, <2>1
      DEF AskAdapter, BuildInline, Go, TypeOK, Locals, graph
  <2>3. id # None /\ id \notin nodes
      BY <2>1, RecoveryAssumption
  <2>4. useAdapter => Rederived(l.cur, F)
      BY <1>7, AgreedIsRederived DEF AskAdapter, BuildInline
  <2>5. l.cur \in Base
      BY <1>1, <2>2 DEF AttemptOK, InHand
  <2>6. \A G : G = F /\ useAdapter => Rederived(l.cur, G)
      BY <2>4
  <2>7. \A c \in Base : \A G : c = l.cur /\ G = F /\ useAdapter => Rederived(c, G)'
      BY <1>2, <2>5, <2>6
  <2>8. MakeOK(t)'
      BY <1>1, <2>2, <2>3, <2>5, <2>7 DEF MakeOK, Made, Stored, Linked
  <2> QED
      BY <1>4, <2>2, <2>8 DEF InHand
<1>8. CASE AskRefused(t) \/ AttemptRaise(t) \/ RecordReducible(t)
  <2>1. /\ at[t] \in InHand /\ at'[t] = "attempt"
        /\ loc'[t].root = l.root /\ loc'[t].radius = l.radius
        /\ loc'[t].plan = l.plan /\ loc'[t].made = None
        /\ loc'[t].todo = l.todo
    <3>1. at[t] \in InHand /\ GoOn(t)
        BY <1>8 DEF AskRefused, AttemptRaise, RecordReducible, InHand
    <3>2. at'[t] = "attempt" /\ loc'[t] = [l EXCEPT !.cur = None, !.made = None]
        BY <1>1, <3>1 DEF GoOn, Go, TypeOK
    <3> QED
        BY <1>1, <3>1, <3>2 DEF Locals
  <2>2. MakeOK(t)'
      BY <2>1 DEF MakeOK, Made, Stored, Linked
  <2> QED
      BY <1>4, <2>1, <2>2 DEF InHand
<1>9. CASE Commit(t)
  <2>1. at[t] = "commit" /\ at'[t] = "link" /\ loc'[t] = l
      BY <1>1, <1>9, GoFacts DEF Commit
  <2>2. /\ l.made \in nodes' /\ Parents(declared', l.made) = F
        /\ Parents(edges', l.made) = {}
      BY <1>9, CommitAddsNode
  <2>3. MakeOK(t)'
      BY <1>1, <2>1, <2>2 DEF MakeOK, Made, Stored, Linked
  <2> QED
      BY <1>4, <2>1, <2>3 DEF InHand
<1>10. CASE Link(t)
    BY <1>10, OthersOK DEF Link
<1>11. CASE LinkDone(t)
  <2>1. /\ at[t] = "link" /\ at'[t] = "trust" /\ loc'[t] = l
        /\ nodes' = nodes /\ declared' = declared /\ edges' = edges
        /\ F \subseteq Parents(edges, l.made)
      BY <1>1, <1>11, GoFacts DEF LinkDone, graph
  <2>2. MakeOK(t)'
      BY <1>1, <2>1 DEF MakeOK, Made, Stored, Linked
  <2> QED
      BY <1>4, <2>1, <2>2 DEF InHand
<1>12. CASE record_reintegration(t)
  <2>1. /\ at[t] = "trust" /\ at'[t] = "evidence" /\ loc'[t] = l
        /\ nodes' = nodes /\ declared' = declared /\ edges' = edges
      BY <1>1, <1>12 DEF record_reintegration, Go, TypeOK, graph
  <2>2. l.made \in Node
      BY <2>1, TaskFacts DEF Made, Node
  <2>3. horizon'[l.made].state = "active" /\ horizon'[l.made].predecessor = l.cur
      BY <1>1, <1>12, <2>2 DEF record_reintegration, TypeOK
  <2>4. MakeOK(t)'
      BY <1>1, <2>1, <2>3 DEF MakeOK, Made, Stored, Linked
  <2> QED
      BY <1>4, <2>1, <2>4 DEF InHand
<1>13. CASE record_reintegration_evidence(t)
  <2>1. /\ at[t] = "evidence" /\ at'[t] = "record" /\ loc'[t] = l
        /\ nodes' = nodes /\ declared' = declared /\ edges' = edges
        /\ horizon' = horizon
        /\ l.made \in evidence'
      BY <1>1, <1>13 DEF record_reintegration_evidence, Go, TypeOK, graph
  <2>2. MakeOK(t)'
      BY <1>1, <2>1 DEF MakeOK, Made, Stored, Linked
  <2> QED
      BY <1>4, <2>1, <2>2 DEF InHand
<1> QED
    BY <1>5, <1>6, <1>7, <1>8, <1>9, <1>12, <1>13, <1>10, <1>11 DEF AttemptStep

\* Only the request that takes a step moves, but for a crash.
LEMMA OneMoves ==
  ASSUME TypeOK, NEW t \in Task,
         \/ WalkStep(t) \/ SweepStep(t) \/ AttemptStep(t) \/ RenewStep(t)
         \/ Raise(t)
  PROVE  \A u \in Task : u # t => at'[u] = at[u] /\ loc'[u] = loc[u]
<1> USE DEF Go, Finish, Leave, GoOn, Walk, TypeOK
<1>1. CASE WalkStep(t)
    BY <1>1 DEF WalkStep, DetectorEnter, ObserveEnter, ClearTmp, FillTmp,
                FillClash, SelectAffected, PlanLook, PlanWrite
<1>2. CASE SweepStep(t)
    BY <1>2 DEF SweepStep, LogRecurrence, WithdrawRow, WithdrawDone, HookRead,
                HookNext, Apply, ApplyTorn
<1>3. CASE AttemptStep(t)
    BY <1>3 DEF AttemptStep, AttemptRead, AttemptNext, AskAdapter, BuildInline,
                Built, AskRefused, AttemptRaise, Commit, Link, LinkDone,
                record_reintegration, record_reintegration_evidence,
                RecordReducible
<1>4. CASE RenewStep(t) \/ Raise(t)
    BY <1>4 DEF RenewStep, RenewCheck, renew_trust, Raise
<1> QED
    BY <1>1, <1>2, <1>3, <1>4

\* Every step keeps the promises of every request.
LEMMA TasksOK ==
  ASSUME RecoveryInv, [Next]_vars, NEW u \in Task
  PROVE  TaskOK(u)'
<1>1. TypeOK /\ SweepOK(u) /\ u # None
    BY RecoveryAssumption DEF RecoveryInv, TaskOK
<1>2. ASSUME NEW t \in Task, u # t,
             \/ WalkStep(t) \/ SweepStep(t) \/ AttemptStep(t) \/ RenewStep(t)
             \/ Raise(t)
      PROVE  TaskOK(u)'
    BY <1>1, <1>2, OneMoves, OthersOK
<1>3. ASSUME WalkStep(u) \/ SweepStep(u) \/ AttemptStep(u) PROVE TaskOK(u)'
    BY <1>3, WalkActorOK, SweepActorOK, AttemptActorOK
<1>4. ASSUME NEW n \in FreshNode, RenewCheck(u, n) PROVE TaskOK(u)'
  <2>1. /\ at[u] = "idle" /\ at'[u] = "renew" /\ owner' = owner
        /\ loc'[u] = [NoLocals EXCEPT !.root = n]
      BY <1>1, <1>4, GoFacts DEF RenewCheck, control
  <2>2. /\ loc'[u].root = n /\ loc'[u].made = None /\ loc'[u].plan = NoPlan
        /\ loc'[u].radius = {}
      BY <2>1 DEF NoLocals
  <2>3. owner' # u
      BY <1>1, <2>1 DEF SweepOK, Walking
  <2> QED
      BY <2>1, <2>2, <2>3, NoLocalsFacts
      DEF TaskOK, WalkOK, SweepOK, WithdrawOK, AttemptOK, MakeOK, RenewOK,
          Walking, InHand, Made, Stored, Linked, Node
<1>5. ASSUME renew_trust(u) PROVE TaskOK(u)'
  <2>1. at[u] = "renew" /\ at'[u] = "idle" /\ loc'[u] = NoLocals /\ owner' = owner
      BY <1>1, <1>5, GoFacts DEF renew_trust, Finish, control
  <2>2. owner' # u
      BY <1>1, <2>1 DEF SweepOK, Walking
  <2> QED
      BY <2>1, <2>2, IdleOK
<1>6. ASSUME Raise(u) PROVE TaskOK(u)'
    BY <1>1, <1>6, LeaveOK DEF Raise
<1>7. CASE Crash
  <2>1. at'[u] = "idle" /\ loc'[u] = NoLocals /\ owner' # u
      BY <1>1, <1>7 DEF Crash
  <2> QED
      BY <2>1, IdleOK
<1>8. CASE (\E n \in FreshNode : Expire(n)) \/ UNCHANGED vars
  <2>1. at'[u] = at[u] /\ loc'[u] = loc[u]
      BY <1>8 DEF Expire, vars
  <2> QED
      BY <2>1, OthersOK
<1> QED
    BY <1>2, <1>3, <1>4, <1>5, <1>6, <1>7, <1>8 DEF Next, RenewStep


-----------------------------------------------------------------------------
(* What every step keeps of the record.                                    *)

\* Only ids that clients chose are parents.
LEMMA GroundedStep == RecoveryInv /\ [Next]_vars => Grounded'
<1> SUFFICES ASSUME RecoveryInv, [Next]_vars PROVE Grounded'
    OBVIOUS
<1>1. Grounded
    BY DEF RecoveryInv
<1>2. ASSUME NEW t \in Task, Commit(t) PROVE Grounded'
  <2> DEFINE F == loc[t].plan[loc[t].cur].frontier
             n == loc[t].made
  <2>1. /\ F \in SUBSET Base /\ nodes' = nodes \cup {n}
        /\ declared' = declared \cup (F \X {n})
        /\ covers' = covers \cup (F \X {n})
        /\ edges' = edges
      BY <1>2, CommitAddsNode
  <2> HIDE DEF F, n
  <2> QED
      BY <1>1, <2>1 DEF Grounded
<1>3. ASSUME NEW t \in Task, Link(t) PROVE Grounded'
  <2> DEFINE n == loc[t].made
  <2>1. /\ n \in nodes
        /\ UNCHANGED <<nodes, declared, covers>>
        /\ \E p \in Base : edges' = edges \cup {<<p, n>>}
      BY <1>3, LinkAddsRow
  <2> HIDE DEF n
  <2> QED
      BY <1>1, <2>1 DEF Grounded
<1>4. CASE UNCHANGED graph
    BY <1>1, <1>4 DEF Grounded, graph
<1> QED
    BY <1>2, <1>3, <1>4, Writers

\* A rebuilt id comes into the hands of a request when nobody has it, and
\* leaves them for good.
LEMMA MadeStep ==
  ASSUME RecoveryInv, [Next]_vars
  PROVE  \/ \A u \in Task : loc'[u].made \in {loc[u].made, None}
         \/ /\ repair' = repair
            /\ \E a \in Task :
               \E id \in FreshNode \ (nodes \cup {loc[u].made : u \in Task}) :
                 /\ loc'[a].made = id
                 /\ \A u \in Task : u # a => loc'[u].made = loc[u].made
<1> DEFINE Kept == \A u \in Task : loc'[u].made \in {loc[u].made, None}
           Drawn == /\ repair' = repair
                    /\ \E a \in Task :
                       \E id \in FreshNode \ (nodes \cup {loc[u].made : u \in Task}) :
                         /\ loc'[a].made = id
                         /\ \A u \in Task : u # a => loc'[u].made = loc[u].made
<1>1. TypeOK
    BY DEF RecoveryInv
<1>2. ASSUME NEW t \in Task,
             \/ WalkStep(t) \/ SweepStep(t) \/ AttemptStep(t) \/ RenewStep(t)
             \/ Raise(t),
             loc'[t].made \in {loc[t].made, None}
      PROVE  Kept
    BY <1>1, <1>2, OneMoves
<1>3. ASSUME NEW t \in Task, AskAdapter(t) \/ BuildInline(t) PROVE Drawn
  <2>1. PICK id \in FreshNode \ (nodes \cup {loc[u].made : u \in Task}) :
          Go(t, "commit", [loc[t] EXCEPT !.made = id])
      BY <1>3 DEF AskAdapter, BuildInline, Built
  <2>2. /\ loc'[t] = [loc[t] EXCEPT !.made = id]
        /\ \A u \in Task : u # t => loc'[u].made = loc[u].made
      BY <1>1, <2>1 DEF Go, TypeOK
  <2>3. loc'[t].made = id
      BY <1>1, <2>2 DEF TypeOK, Locals
  <2>4. repair' = repair
      BY <1>3 DEF AskAdapter, BuildInline, rebuilding
  <2> QED
      BY <2>2, <2>3, <2>4
<1>4. ASSUME NEW t \in Task,
             \/ WalkStep(t) \/ SweepStep(t) \/ AttemptStep(t) \/ RenewStep(t)
             \/ Raise(t),
             ~(AskAdapter(t) \/ BuildInline(t))
      PROVE  loc'[t].made \in {loc[t].made, None}
  <2>1. ASSUME at'[t] \in Made PROVE loc'[t].made = loc[t].made
    <3>1. ~(WalkStep(t) \/ SweepStep(t) \/ RenewStep(t) \/ Raise(t))
      <4> USE <1>1, <2>1 DEF Made, Go, Finish, Leave, Walk, TypeOK
      <4>1. ~WalkStep(t)
          BY DEF WalkStep, DetectorEnter, ObserveEnter, ClearTmp, FillTmp,
                 FillClash, SelectAffected, PlanLook, PlanWrite
      <4>2. ~SweepStep(t)
          BY DEF SweepStep, LogRecurrence, WithdrawRow, WithdrawDone, HookRead,
                 HookNext, Apply, ApplyTorn
      <4>3. ~RenewStep(t) /\ ~Raise(t)
          BY DEF RenewStep, RenewCheck, renew_trust, Raise
      <4> QED
          BY <4>1, <4>2, <4>3
    <3>2. AttemptStep(t)
        BY <1>4, <3>1
    <3> QED
        BY <1>1, <1>4, <2>1, <3>2
        DEF AttemptStep, AttemptRead, AttemptNext, AskRefused, AttemptRaise,
            Commit, Link, LinkDone, record_reintegration,
            record_reintegration_evidence, RecordReducible, Made, GoOn, Go,
            Finish, TypeOK
  <2>2. ASSUME at'[t] \notin Made PROVE loc'[t].made = None
    <3>1. MakeOK(t)'
        BY TasksOK, <1>4 DEF TaskOK
    <3> QED
        BY <2>2, <3>1 DEF MakeOK
  <2> QED
      BY <2>1, <2>2
<1>5. CASE (\E n \in FreshNode : Expire(n)) \/ UNCHANGED vars
    BY <1>5 DEF Expire, vars
<1>6. CASE Crash
    BY <1>6 DEF Crash, NoLocals
<1> QED
    BY <1>2, <1>3, <1>4, <1>5, <1>6 DEF Next

\* What a step may put on record for a compaction: nothing new, a refusal, a
\* plan made from the blast radius of a walk, or the reintegration in hand.
LEMMA RepairStep ==
  ASSUME RecoveryInv, [Next]_vars, NEW c \in Base
  PROVE  \/ repair'[c] = repair[c]
         \/ repair'[c].disposition = "IRREDUCIBLE"
         \/ /\ repair'[c].disposition = "PENDING"
            /\ Planned(c, repair'[c].frontier)
         \/ \E t \in Task :
              /\ RecordReducible(t) /\ c = loc[t].cur
              /\ repair'[c].disposition = "REDUCIBLE"
              /\ repair'[c].rebuilt = loc[t].made
              /\ repair'[c].frontier = loc[t].plan[loc[t].cur].frontier
<1> DEFINE Refused == repair'[c].disposition = "IRREDUCIBLE"
           Replanned == /\ repair'[c].disposition = "PENDING"
                        /\ Planned(c, repair'[c].frontier)
<1>1. TypeOK /\ Grounded /\ repair \in [Base -> Candidate]
    BY DEF RecoveryInv, TypeOK
<1>2. ASSUME NEW t \in Task, PlanWrite(t), c = loc[t].cur
      PROVE  Refused \/ Replanned
  <2>1. WalkOK(t) /\ at[t] = "planWrite"
      BY <1>2 DEF RecoveryInv, TaskOK, PlanWrite
  <2> DEFINE r == loc[t].node
  <2>2. /\ r \in Node /\ c \in Affected(loc[t].reach) \cup crossed
        /\ loc[t].reach \cap Base = Radius(r) \cap Base
      BY <1>2, <2>1, TaskFacts DEF WalkOK, Walking
  <2>3. Affected(loc[t].reach) = Affected(Radius(r))
      BY <1>1, <2>2, AffectedFacts
  <2>4. Frontier(t) = Covered(c) \ Radius(r)
    <3>1. Covered(c) \subseteq Base
        BY <1>1, CoveredInBase
    <3>2. Frontier(t) = Covered(c) \ loc[t].reach
        BY <1>2 DEF Frontier
    <3> QED
        BY <2>2, <3>1, <3>2
  <2>5. Planned(c, Frontier(t))
      BY <2>2, <2>3, <2>4 DEF Planned
  <2>6. PICK plan \in {Irreducible({})} \cup
                      {Pending(F) : F \in {Frontier(t)} \ {{}}} :
          repair' = [repair EXCEPT ![loc[t].cur] = plan]
      BY <1>2 DEF PlanWrite
  <2>7. repair'[c] = plan
      BY <1>1, <1>2, <2>6
  <2>8. CASE plan = Irreducible({})
      BY <2>7, <2>8 DEF Irreducible
  <2>9. CASE plan = Pending(Frontier(t))
    <3>1. /\ repair'[c].disposition = "PENDING"
          /\ repair'[c].frontier = Frontier(t)
        BY <2>7, <2>9 DEF Pending
    <3> QED
        BY <2>5, <3>1
  <2> QED
      BY <2>6, <2>8, <2>9
<1>3. ASSUME NEW t \in Task, AskRefused(t), c = loc[t].cur PROVE Refused
  <2>1. repair'[c] = Irreducible(loc[t].plan[loc[t].cur].frontier)
      BY <1>1, <1>3 DEF AskRefused
  <2> QED
      BY <2>1 DEF Irreducible
<1>4. ASSUME NEW t \in Task, PlanWrite(t) \/ AskRefused(t) \/ RecordReducible(t),
             c # loc[t].cur
      PROVE  repair'[c] = repair[c]
    BY <1>1, <1>4 DEF PlanWrite, AskRefused, RecordReducible
<1>5. ASSUME NEW t \in Task, RecordReducible(t), c = loc[t].cur
      PROVE  /\ repair'[c].disposition = "REDUCIBLE"
             /\ repair'[c].rebuilt = loc[t].made
             /\ repair'[c].frontier = loc[t].plan[loc[t].cur].frontier
    BY <1>1, <1>5 DEF RecordReducible
<1> HIDE DEF Refused, Replanned
<1>6. \/ repair'[c] = repair[c] \/ Refused \/ Replanned
      \/ \E t \in Task : RecordReducible(t) /\ c = loc[t].cur
    BY <1>2, <1>3, <1>4, Writers
<1> QED
    BY <1>5, <1>6 DEF Refused, Replanned

\* Plans on record stay plans.
LEMMA PendingStep == RecoveryInv /\ [Next]_vars => PendingPlanned'
<1> SUFFICES ASSUME RecoveryInv, [Next]_vars,
                    NEW c \in Base, repair'[c].disposition = "PENDING"
             PROVE  Planned(c, repair[c].frontier)'
    BY DEF PendingPlanned
<1>1. \A F : F = repair'[c].frontier /\ Planned(c, F)
              => Planned(c, repair[c].frontier)'
    BY GraphStep, RowsStay, PlansKept
<1>2. Planned(c, repair'[c].frontier)
  <2>1. CASE repair'[c] = repair[c]
      BY <2>1 DEF RecoveryInv, PendingPlanned
  <2>2. CASE repair'[c] # repair[c]
      BY <2>2, RepairStep
  <2> QED
      BY <2>1, <2>2
<1> QED
    BY <1>1, <1>2

\* A recurrence event comes into the hands of the request that logs it.
LEMMA EventStep ==
  ASSUME RecoveryInv, [Next]_vars, NEW u \in Task, at'[u] = "withdraw"
  PROVE  \/ at[u] = "withdraw" /\ loc'[u].event = loc[u].event
         \/ LogRecurrence(u) /\ loc'[u].event = Len(recurrences) + 1
<1>1. TypeOK /\ loc[u] \in Locals
    BY TaskFacts DEF RecoveryInv
<1>2. ASSUME NEW t \in Task,
             \/ WalkStep(t) \/ SweepStep(t) \/ AttemptStep(t) \/ RenewStep(t)
             \/ Raise(t)
      PROVE  \/ at[u] = "withdraw" /\ loc'[u].event = loc[u].event
             \/ LogRecurrence(u) /\ loc'[u].event = Len(recurrences) + 1
  <2>1. CASE u # t
      BY <1>1, <1>2, <2>1, OneMoves
  <2>2. CASE u = t
    <3> USE <1>1, <1>2, <2>2 DEF Go, Finish, Leave, GoOn, Walk, TypeOK
    <3>1. ~WalkStep(u)
        BY DEF WalkStep, DetectorEnter, ObserveEnter, ClearTmp, FillTmp,
               FillClash, SelectAffected, PlanLook, PlanWrite
    <3>2. ~AttemptStep(u)
        BY DEF AttemptStep, AttemptRead, AttemptNext, AskAdapter, BuildInline,
               Built, AskRefused, AttemptRaise, Commit, Link, LinkDone,
               record_reintegration, record_reintegration_evidence,
               RecordReducible
    <3>3. ~RenewStep(u) /\ ~Raise(u)
        BY DEF RenewStep, RenewCheck, renew_trust, Raise
    <3>4. LogRecurrence(u) \/ WithdrawRow(u)
        BY <3>1, <3>2, <3>3
        DEF SweepStep, WithdrawDone, HookRead, HookNext, Apply, ApplyTorn
    <3>5. CASE LogRecurrence(u)
      <4>1. loc'[u] = [loc[u] EXCEPT !.event = Len(recurrences) + 1,
                         !.reach = IF Escalates(u) THEN {} ELSE @]
          BY <3>5 DEF LogRecurrence
      <4>2. loc'[u].event = Len(recurrences) + 1
          BY <4>1 DEF Locals
      <4> QED
          BY <3>5, <4>2
    <3>6. CASE WithdrawRow(u)
        BY <3>6 DEF WithdrawRow
    <3> QED
        BY <3>4, <3>5, <3>6
  <2> QED
      BY <2>1, <2>2
<1>3. CASE (\E n \in FreshNode : Expire(n)) \/ UNCHANGED vars
    BY <1>3 DEF Expire, vars
<1>4. CASE Crash
    BY <1>4 DEF Crash
<1> QED
    BY <1>2, <1>3, <1>4 DEF Next

\* No id and no event is in two hands, and no id in hand is on record.
LEMMA ApartStep == RecoveryInv /\ [Next]_vars => Apart'
<1> SUFFICES ASSUME RecoveryInv, [Next]_vars PROVE Apart'
    OBVIOUS
<1> DEFINE Taken == nodes \cup {loc[u].made : u \in Task}
           Kept == \A u \in Task : loc'[u].made \in {loc[u].made, None}
           Drawn(a, id) ==
             /\ loc'[a].made = id
             /\ \A u \in Task : u # a => loc'[u].made = loc[u].made
<1>1. \/ Kept
      \/ /\ repair' = repair
         /\ \E a \in Task, id \in FreshNode \ Taken : Drawn(a, id)
    BY MadeStep
<1>2. TypeOK /\ Apart /\ ReducibleBacked
    BY DEF RecoveryInv, Accounted
<1>3. \A n \in FreshNode \cup nodes : n # None
    BY <1>2, RecoveryAssumption DEF TypeOK, Node
<1>4. ASSUME NEW t \in Task, NEW u \in Task, t # u, loc'[t].made = loc'[u].made
      PROVE  loc'[t].made = None
  <2>1. CASE Kept
      BY <1>2, <1>4, <2>1 DEF Apart
  <2>2. ASSUME NEW a \in Task, NEW id \in FreshNode \ Taken, Drawn(a, id)
        PROVE  loc'[t].made = None
      BY <1>2, <1>4, <2>2 DEF Apart
  <2> QED
      BY <1>1, <2>1, <2>2
<1>5. ASSUME NEW c \in Base, NEW u \in Task,
             repair'[c].disposition = "REDUCIBLE"
      PROVE  loc'[u].made # repair'[c].rebuilt
  <2>1. CASE repair'[c] = repair[c]
    <3>1. repair[c].rebuilt \in nodes /\ repair[c].rebuilt # None
        BY <1>2, <1>3, <1>5, <2>1 DEF ReducibleBacked
    <3>2. loc[u].made # repair[c].rebuilt
        BY <1>2, <1>5, <2>1 DEF Apart
    <3>3. CASE Kept
        BY <2>1, <3>1, <3>2, <3>3
    <3>4. ASSUME NEW a \in Task, NEW id \in FreshNode \ Taken, Drawn(a, id)
          PROVE  loc'[u].made # repair[c].rebuilt
        BY <3>1, <3>2, <3>4
    <3> QED
        BY <1>1, <2>1, <3>3, <3>4
  <2>2. ASSUME NEW t \in Task, RecordReducible(t), c = loc[t].cur,
               repair'[c].rebuilt = loc[t].made
        PROVE  loc'[u].made # repair'[c].rebuilt
    <3>1. loc[t].made # None
        BY <2>2 DEF RecoveryInv, TaskOK, MakeOK, RecordReducible, Made
    <3>2. loc'[t].made = None
      <4>1. loc[t] \in Locals
          BY <1>2 DEF TypeOK
      <4>2. loc'[t] = [loc[t] EXCEPT !.cur = None, !.made = None]
          BY <1>2, <2>2 DEF RecordReducible, GoOn, Go, TypeOK
      <4> QED
          BY <4>1, <4>2 DEF Locals
    <3>3. CASE u # t
      <4>1. loc'[u] = loc[u]
          BY <1>2, <2>2, <3>3, OneMoves DEF AttemptStep
      <4> QED
          BY <1>2, <2>2, <3>1, <3>3, <4>1 DEF Apart
    <3> QED
        BY <2>2, <3>1, <3>2, <3>3
  <2> QED
      BY <1>5, <2>1, <2>2, RepairStep
<1>6. ASSUME NEW t \in Task, NEW u \in Task, t # u,
             at'[t] = "withdraw", at'[u] = "withdraw"
      PROVE  loc'[t].event # loc'[u].event
  <2>1. Len(recurrences) \in Nat
      BY <1>2 DEF TypeOK
  <2>2. ASSUME NEW v \in Task, at[v] = "withdraw"
        PROVE  loc[v].event \in 1..Len(recurrences)
      BY <2>2 DEF RecoveryInv, TaskOK, WithdrawOK
  <2>3. ASSUME NEW v \in Task, NEW w \in Task, v # w, LogRecurrence(v),
               at'[w] = "withdraw"
        PROVE  at[w] = "withdraw" /\ loc'[w].event = loc[w].event
      BY <1>2, <2>3, OneMoves DEF SweepStep
  <2>4. CASE LogRecurrence(t)
    <3>1. loc'[t].event = Len(recurrences) + 1
      <4>1. at[t] # "withdraw"
          BY <2>4 DEF LogRecurrence
      <4> QED
          BY <1>6, <4>1, EventStep
    <3> QED
        BY <1>6, <2>1, <2>2, <2>3, <2>4, <3>1
  <2>5. CASE LogRecurrence(u)
    <3>1. loc'[u].event = Len(recurrences) + 1
      <4>1. at[u] # "withdraw"
          BY <2>5 DEF LogRecurrence
      <4> QED
          BY <1>6, <4>1, EventStep
    <3> QED
        BY <1>6, <2>1, <2>2, <2>3, <2>5, <3>1
  <2>6. CASE ~LogRecurrence(t) /\ ~LogRecurrence(u)
      BY <1>2, <1>6, <2>6, EventStep DEF Apart
  <2> QED
      BY <2>4, <2>5, <2>6
<1> QED
    BY <1>4, <1>5, <1>6 DEF Apart

\* A disposition is recorded after all of its reintegration, and none of that
\* is ever taken back.
LEMMA BackedStep == RecoveryInv /\ [Next]_vars => ReducibleBacked'
<1> SUFFICES ASSUME RecoveryInv, [Next]_vars,
                    NEW c \in Base, repair'[c].disposition = "REDUCIBLE"
             PROVE  LET n == repair'[c].rebuilt IN
                      /\ n \in nodes' \cap evidence'
                      /\ Parents(edges', n) = repair'[c].frontier
                      /\ horizon'[n].state # "none" /\ horizon'[n].predecessor = c
    BY DEF ReducibleBacked
<1>1. GraphKept /\ evidence \subseteq evidence' /\ nodes \subseteq Node
    BY GraphStep, RowsStay DEF RecoveryInv, TypeOK
<1>2. CASE repair'[c] = repair[c]
  <2> DEFINE n == repair[c].rebuilt
  <2>1. /\ n \in nodes \cap evidence /\ Parents(edges, n) = repair[c].frontier
        /\ horizon[n].state # "none" /\ horizon[n].predecessor = c
      BY <1>2 DEF RecoveryInv, Accounted, ReducibleBacked
  <2>2. \A t \in Task : loc[t].made # n
      BY <1>2 DEF RecoveryInv, Apart
  <2> HIDE DEF n
  <2>3. horizon'[n].state # "none" /\ horizon'[n].predecessor = c
      BY <1>1, <2>1, <2>2, HorizonStays
  <2>4. n \in nodes' \cap evidence' /\ Parents(edges', n) = repair[c].frontier
      BY <1>1, <2>1, <2>2 DEF GraphKept
  <2> QED
      BY <1>2, <2>3, <2>4 DEF n
<1>3. ASSUME NEW t \in Task, RecordReducible(t), c = loc[t].cur,
             repair'[c].rebuilt = loc[t].made,
             repair'[c].frontier = loc[t].plan[loc[t].cur].frontier
      PROVE  LET n == repair'[c].rebuilt IN
               /\ n \in nodes' \cap evidence'
               /\ Parents(edges', n) = repair'[c].frontier
               /\ horizon'[n].state # "none" /\ horizon'[n].predecessor = c
  <2>1. at[t] = "record" /\ MakeOK(t)
      BY <1>3 DEF RecoveryInv, TaskOK, RecordReducible
  <2>2. /\ nodes' = nodes /\ edges' = edges /\ horizon' = horizon
        /\ evidence' = evidence
      BY <1>3 DEF RecordReducible, graph
  <2> DEFINE n == loc[t].made
             F == loc[t].plan[loc[t].cur].frontier
  <2>3. /\ n \in nodes /\ n \in evidence
        /\ Parents(edges, n) \subseteq F /\ F \subseteq Parents(edges, n)
        /\ horizon[n].state # "none" /\ horizon[n].predecessor = c
      BY <1>3, <2>1 DEF MakeOK, Stored, Linked
  <2>4. repair'[c].rebuilt = n /\ repair'[c].frontier = F
      BY <1>3
  <2> HIDE DEF n, F
  <2>5. Parents(edges', n) = F
      BY <2>2, <2>3
  <2> QED
      BY <2>2, <2>3, <2>4, <2>5
<1> QED
    BY <1>2, <1>3, RepairStep

\* A rebuilt node is committed on a planned frontier, which with an adapter
\* has been derived a second time; it declares nothing else later, and its edge
\* rows never say more.
LEMMA RebuiltStep ==
  ASSUME RecoveryInv, [Next]_vars, NEW n \in nodes' \cap FreshNode
  PROVE  /\ Parents(edges', n) \subseteq Parents(declared', n)
         /\ \E c \in Base : Planned(c, Parents(declared, n))'
         /\ useAdapter' => \E c \in Base : Rederived(c, Parents(declared, n))'
<1>1. GraphKept
    BY GraphStep
<1>2. /\ \A c \in Base : \A F : Planned(c, F) => Planned(c, F)'
      /\ \A c \in Base : \A F : Rederived(c, F) => Rederived(c, F)'
    BY <1>1, RowsStay, PlansKept
<1>3. ASSUME NEW F, Parents(declared', n) = F,
             \E c \in Base : Planned(c, F),
             useAdapter => \E c \in Base : Rederived(c, F)
      PROVE  /\ \E c \in Base : Planned(c, Parents(declared, n))'
             /\ useAdapter' => \E c \in Base : Rederived(c, Parents(declared, n))'
  <2>1. \A c \in Base : Planned(c, F) => Planned(c, Parents(declared, n))'
      BY <1>2, <1>3
  <2>2. \A c \in Base : Rederived(c, F) => Rederived(c, Parents(declared, n))'
      BY <1>2, <1>3
  <2>3. useAdapter' = useAdapter
      BY <1>1 DEF GraphKept
  <2> QED
      BY <1>3, <2>1, <2>2, <2>3
<1>4. CASE n \in nodes
  <2> DEFINE F == Parents(declared, n)
  <2>1. Parents(declared', n) = F
      BY <1>1, <1>4 DEF GraphKept
  <2>2. /\ Parents(edges, n) \subseteq F
        /\ \E c \in Base : Planned(c, F)
        /\ useAdapter => \E c \in Base : Rederived(c, F)
      BY <1>4 DEF RecoveryInv, Accounted
  <2>3. ASSUME NEW t \in Task, Link(t), loc[t].made = n
        PROVE  loc[t].plan[loc[t].cur].frontier = F
      BY <2>3 DEF Link, RecoveryInv, TaskOK, MakeOK, Stored
  <2> HIDE DEF F
  <2>4. Parents(edges', n) \subseteq F
      BY <1>1, <1>4, <2>2, <2>3 DEF GraphKept
  <2> QED
      BY <1>3, <2>1, <2>2, <2>4
<1>5. CASE n \notin nodes
  <2>1. PICK t \in Task : Commit(t)
    <3>1. \A t \in Task : Link(t) => nodes' = nodes
        BY DEF Link
    <3> QED
        BY <1>5, <3>1, Writers DEF graph
  <2> DEFINE c == loc[t].cur
             F == loc[t].plan[c].frontier
  <2>2. /\ n = loc[t].made /\ Parents(declared', n) = F
        /\ Parents(edges', n) = {}
      BY <1>5, <2>1, CommitAddsNode
  <2>3. at[t] = "commit" /\ AttemptOK(t) /\ MakeOK(t)
      BY <2>1 DEF Commit, RecoveryInv, TaskOK
  <2>4. c \in Base /\ Planned(c, F)
      BY <2>3 DEF AttemptOK, InHand
  <2>5. useAdapter => Rederived(c, F)
      BY <2>3 DEF MakeOK
  <2> HIDE DEF c, F
  <2> QED
      BY <1>3, <2>2, <2>4, <2>5
<1> QED
    BY <1>4, <1>5

\* The rows of an event are written by the request that has it in hand, for the
\* closure that the event was logged for, which only grows in the graph.
LEMMA WithdrawStep == RecoveryInv /\ [Next]_vars => WithdrawalBacked'
<1> SUFFICES ASSUME RecoveryInv, [Next]_vars PROVE WithdrawalBacked'
    OBVIOUS
<1>1. /\ TypeOK /\ TypeOK' /\ WithdrawalBacked
    BY RecoveryTypes DEF RecoveryInv, Accounted
<1>2. /\ Len(recurrences) \in Nat /\ Len(recurrences') \in Nat
      /\ Len(recurrences) <= Len(recurrences')
      /\ DOMAIN recurrences = 1..Len(recurrences)
      /\ DOMAIN recurrences' = 1..Len(recurrences')
      /\ withdrawn \in [Node -> Nat] /\ withdrawn' \in [Node -> Nat]
    BY <1>1, EventsStay DEF TypeOK
<1>3. \A i \in 1..Len(recurrences) : recurrences'[i] = recurrences[i]
    BY EventsStay
<1>4. \A r : Descendants(edges, Node, r) \subseteq Descendants(edges', Node, r)
    BY GraphStep, RowsStay, PlansKept
<1>5. ASSUME NEW t \in Task, at[t] = "withdraw"
      PROVE  /\ loc[t].event \in 1..Len(recurrences)
             /\ \A n \in Node : withdrawn[n] = loc[t].event => n \in loc[t].reach
             /\ loc[t].reach \subseteq
                  Descendants(edges, Node, recurrences[loc[t].event].node)
             /\ recurrences[loc[t].event].escalated => loc[t].reach = {}
             /\ Cardinality(loc[t].reach) <= MaxAmplification
             /\ loc[t].reach \in SUBSET Node
    BY <1>5, TaskFacts DEF RecoveryInv, TaskOK, WithdrawOK, Locals
<1>6. ASSUME NEW n \in Node PROVE withdrawn'[n] \in 0..Len(recurrences')
  <2>1. withdrawn[n] \in 0..Len(recurrences)
      BY <1>1 DEF WithdrawalBacked
  <2>2. withdrawn'[n] \in 0..Len(recurrences)
      BY <1>2, <1>5, <2>1, EventsStay
  <2> QED
      BY <1>2, <2>2
<1>7. ASSUME NEW i \in 1..Len(recurrences'),
             {n \in Node : withdrawn'[n] = i} # {}
      PROVE  LET W == {n \in Node : withdrawn'[n] = i} IN
               /\ ~recurrences'[i].escalated
               /\ Cardinality(W) <= MaxAmplification
               /\ W \subseteq Descendants(edges', Node, recurrences'[i].node)
  <2> DEFINE W == {n \in Node : withdrawn[n] = i}
             V == {n \in Node : withdrawn'[n] = i}
  <2>1. i \in Nat /\ i # 0
      BY <1>2
  <2>2. CASE V = W
    <3>1. i \in 1..Len(recurrences)
      <4>1. PICK n \in Node : withdrawn[n] = i
          BY <1>7, <2>2
      <4>2. withdrawn[n] \in 0..Len(recurrences)
          BY <1>1 DEF WithdrawalBacked
      <4> QED
          BY <1>2, <2>1, <4>1, <4>2
    <3>2. /\ ~recurrences[i].escalated /\ Cardinality(W) <= MaxAmplification
          /\ W \subseteq Descendants(edges, Node, recurrences[i].node)
        BY <1>1, <1>2, <1>7, <2>2, <3>1 DEF WithdrawalBacked
    <3>3. recurrences'[i] = recurrences[i]
        BY <1>3, <3>1
    <3> HIDE DEF W, V
    <3>4. /\ ~recurrences'[i].escalated /\ Cardinality(V) <= MaxAmplification
          /\ V \subseteq Descendants(edges', Node, recurrences'[i].node)
        BY <1>4, <2>2, <3>2, <3>3
    <3> QED
        BY <3>4 DEF V
  <2>3. CASE V # W
    <3>0. PICK t \in Task : \E m \in loc[t].reach :
            /\ at[t] = "withdraw" /\ m \in Node /\ withdrawn[m] = 0
            /\ withdrawn'[m] = loc[t].event
            /\ \A n \in Node : n # m => withdrawn'[n] = withdrawn[n]
        BY <2>3, EventsStay
    <3>1. PICK m \in loc[t].reach :
            /\ at[t] = "withdraw" /\ m \in Node /\ withdrawn[m] = 0
            /\ withdrawn'[m] = loc[t].event
            /\ \A n \in Node : n # m => withdrawn'[n] = withdrawn[n]
        BY <3>0
    <3>2. i = loc[t].event
        BY <2>1, <2>3, <3>1
    <3>3. V \subseteq loc[t].reach
        BY <1>5, <3>1, <3>2
    <3>4. recurrences'[i] = recurrences[i]
        BY <1>3, <1>5, <3>1, <3>2
    <3>5. ~recurrences[i].escalated
        BY <1>5, <3>1, <3>2
    <3>6. Cardinality(V) <= MaxAmplification
      <4>1. IsFiniteSet(loc[t].reach)
          BY <1>5, <3>1, WithinBound, FS_Subset
      <4> HIDE DEF V
      <4>2. IsFiniteSet(V) /\ Cardinality(V) <= Cardinality(loc[t].reach)
          BY <3>3, <4>1, FS_Subset
      <4>3. Cardinality(V) \in Nat /\ Cardinality(loc[t].reach) \in Nat
          BY <4>1, <4>2, FS_CardinalityType
      <4> QED
          BY <1>5, <3>1, <4>2, <4>3, RecoveryAssumption
    <3>7. V \subseteq Descendants(edges', Node, recurrences'[i].node)
        BY <1>4, <1>5, <3>1, <3>2, <3>3, <3>4
    <3> QED
        BY <3>4, <3>5, <3>6, <3>7
  <2> QED
      BY <2>2, <2>3
<1> QED
    BY <1>2, <1>6, <1>7 DEF WithdrawalBacked

\* What has been rebuilt, reintegrated and withdrawn stays accounted for.
LEMMA AccountedStep == RecoveryInv /\ [Next]_vars => Accounted'
<1> SUFFICES ASSUME RecoveryInv, [Next]_vars PROVE Accounted'
    OBVIOUS
<1>1. \A n \in nodes' \cap FreshNode :
        /\ Parents(edges', n) \subseteq Parents(declared', n)
        /\ \E c \in Base : Planned(c, Parents(declared, n))'
        /\ useAdapter' => \E c \in Base : Rederived(c, Parents(declared, n))'
    BY RebuiltStep
<1> QED
    BY <1>1, BackedStep, WithdrawStep DEF Accounted

-----------------------------------------------------------------------------
(* The theorems.                                                           *)

\* The invariant holds of every behaviour: of every interleaving of the
\* statements of designations, observations, renewals and attempts, with every
\* exception and crash between two of them.
THEOREM RecoveryInvariant == Spec => []RecoveryInv
<1>1. RecoveryInv /\ [Next]_vars => RecoveryInv'
  <2> SUFFICES ASSUME RecoveryInv, [Next]_vars PROVE RecoveryInv'
      OBVIOUS
  <2>1. TypeOK' /\ Grounded' /\ Apart' /\ PendingPlanned' /\ Accounted'
      BY RecoveryTypes, GroundedStep, ApartStep, PendingStep, AccountedStep
  <2>2. \A t \in Task : TaskOK(t)'
      BY TasksOK
  <2> QED
      BY <2>1, <2>2 DEF RecoveryInv
<1> QED
    BY <1>1, RecoveryInit, PTL DEF Spec

\* Repair and recurrence control keep their types.
THEOREM RecoveryTyped == Spec => []TypeOK
<1>1. RecoveryInv => TypeOK
    BY DEF RecoveryInv
<1> QED
    BY <1>1, RecoveryInvariant, PTL

\* A REDUCIBLE disposition names a node that was committed below exactly its
\* frontier, with its evidence and its trust horizon on record.
THEOREM ReducibleIsBacked == Spec => []ReducibleBacked
<1>1. RecoveryInv => ReducibleBacked
    BY DEF RecoveryInv, Accounted
<1> QED
    BY <1>1, RecoveryInvariant, PTL

\* R1: a rebuilt node declares what the blast radius of one walk left of the
\* covers of one compaction, which that radius affects unless walks have crossed
\* in the temporary table; its edge rows say no more.
THEOREM RebuiltRestsOnFrontier == Spec => []RebuiltFromFrontier
<1>1. RecoveryInv => RebuiltFromFrontier
  <2> DEFINE R == [r \in Node |-> Descendants(OfBase(edges), Base \cup {r}, r)]
  <2> SUFFICES ASSUME RecoveryInv,
                      NEW n \in nodes \cap FreshNode
               PROVE  /\ Parents(edges, n) \subseteq Parents(declared, n)
                      /\ \E c \in Base, r \in Node :
                           /\ Parents(declared, n) = Covered(c) \ R[r]
                           /\ c \in Affected(R[r]) \cup crossed
      BY DEF RebuiltFromFrontier
  <2>1. Parents(edges, n) \subseteq Parents(declared, n)
      BY DEF RecoveryInv, Accounted
  <2>2. PICK c \in Base : Planned(c, Parents(declared, n))
      BY DEF RecoveryInv, Accounted
  <2>3. PICK r \in Node : /\ Parents(declared, n) = Covered(c) \ Radius(r)
                          /\ c \in Affected(Radius(r)) \cup crossed
      BY <2>2 DEF Planned
  <2>4. R[r] = Radius(r)
      BY DEF Radius
  <2> HIDE DEF R
  <2> QED
      BY <2>1, <2>3, <2>4
<1> QED
    BY <1>1, RecoveryInvariant, PTL

\* R4: with an adapter, a rebuilt node also declares what the declared
\* descendants of a quarantined root left of the covers of one compaction.
THEOREM RebuiltDerivedTwice == Spec => []RebuiltTwiceDerived
<1>1. RecoveryInv => RebuiltTwiceDerived
  <2> SUFFICES ASSUME RecoveryInv, useAdapter,
                      NEW n \in nodes \cap FreshNode
               PROVE  LET R == [r \in ledger |->
                                  Descendants(OfBase(declared), Base \cup {r}, r)]
                      IN \E c \in Base, r \in ledger :
                           Parents(declared, n) = Covered(c) \ R[r]
      BY DEF RebuiltTwiceDerived
  <2>1. PICK c \in Base : Rederived(c, Parents(declared, n))
      BY DEF RecoveryInv, Accounted
  <2> QED
      BY <2>1 DEF Rederived
<1> QED
    BY <1>1, RecoveryInvariant, PTL

\* R6: the withdrawals that name one recurrence are at most MaxAmplification
\* descendants of its node, and none when it was escalated.
THEOREM WithdrawalsBacked == Spec => []WithdrawalBacked
<1>1. RecoveryInv => WithdrawalBacked
    BY DEF RecoveryInv, Accounted
<1> QED
    BY <1>1, RecoveryInvariant, PTL

\* What R1 is for: the blast radius that a rebuilt node was planned for, which
\* affects the compaction it stands for unless walks have crossed, does not
\* reach the rebuilt node: neither by the rows that exist nor by those that its
\* payload still promises.
RebuiltOutsideRadius ==
  \A n \in nodes \cap FreshNode : \E c \in Base, r \in Node :
    /\ Parents(declared, n) \subseteq Covered(c)
    /\ c \in Affected(Descendants(edges, Node, r)) \cup crossed
    /\ Parents(declared, n) \cap Descendants(edges, Node, r) = {}
    /\ n \notin Descendants(edges, Node, r) \ {r}

\* A rebuilt node lies outside the blast radius it was planned for, and remains
\* outside whatever is rebuilt after it, in cyclic and dangling lineage too.
THEOREM RebuiltOutside == Spec => []RebuiltOutsideRadius
<1>1. RecoveryInv => RebuiltOutsideRadius
  <2> SUFFICES ASSUME RecoveryInv, NEW n \in nodes \cap FreshNode
               PROVE  \E c \in Base, r \in Node :
                        /\ Parents(declared, n) \subseteq Covered(c)
                        /\ c \in Affected(Descendants(edges, Node, r)) \cup crossed
                        /\ Parents(declared, n) \cap Descendants(edges, Node, r) = {}
                        /\ n \notin Descendants(edges, Node, r) \ {r}
      BY DEF RebuiltOutsideRadius
  <2>1. PICK c \in Base : Planned(c, Parents(declared, n))
      BY DEF RecoveryInv, Accounted
  <2>2. PICK r \in Node : /\ Parents(declared, n) = Covered(c) \ Radius(r)
                          /\ c \in Affected(Radius(r)) \cup crossed
      BY <2>1 DEF Planned
  <2> DEFINE D == Descendants(edges, Node, r)
  <2>3. /\ TypeOK /\ Grounded /\ edges \subseteq Base \X Node
        /\ Parents(edges, n) \subseteq Parents(declared, n)
      BY DEF RecoveryInv, Grounded, TypeOK, Accounted
  <2>4. D \cap Base = Radius(r) \cap Base /\ D \in SUBSET Node /\ r \in D
      BY <2>3, WalkFacts
  <2>5. Closed(edges, D)
      BY <2>3, DescendantsClosed DEF Node
  <2> HIDE DEF D
  <2>6. Affected(D) = Affected(Radius(r))
      BY <2>3, <2>4, AffectedFacts
  <2>7. Parents(declared, n) \subseteq Base
      BY <2>2, <2>3, CoveredInBase
  <2>8. Parents(declared, n) \cap D = {}
      BY <2>2, <2>4, <2>7
  <2>9. ASSUME n # r PROVE n \notin D
    <3>1. Closed(edges, D \ {n})
      <4>1. ASSUME NEW e \in edges, e[1] \in D, e[2] = n PROVE FALSE
        <5>1. e[1] \in Parents(edges, n)
            BY <4>1 DEF Parents
        <5> QED
            BY <2>3, <2>8, <4>1, <5>1
      <4> QED
          BY <2>5, <4>1 DEF Closed
    <3>2. D \subseteq D \ {n}
        BY <2>4, <2>9, <3>1, DescendantsLeast DEF D
    <3> QED
        BY <3>2
  <2> QED
      BY <2>2, <2>6, <2>8, <2>9 DEF D
<1> QED
    BY <1>1, RecoveryInvariant, PTL
=============================================================================
