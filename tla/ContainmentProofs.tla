------------------------- MODULE ContainmentProofs -------------------------
(***************************************************************************)
(* The admission and containment handlers for every number of ids and      *)
(* concurrent requests: what a request has read stays true until it writes *)
(* (BaseInv), from which the sweep and the admission properties follow for *)
(* all endpoints and clients; and containment itself for disciplined       *)
(* clients of /submit-candidate, /designate, /detector and /seed-root.     *)
(***************************************************************************)
EXTENDS Containment, LineageProofs

\* The places of a request that holds the admission lock and has still to act
\* on what it has read, or to finish what it writes.
Engaged == {"decide", "link", "designate", "detect", "sweep"}

\* A request that will look at its payload has one.
ArgPart ==
  \A t \in Task : at[t] \in Engaged \cup {"compact", "seed"} => arg[t] \in Payload

\* Who holds the admission lock and the write transaction, by place.
LockPart ==
  /\ exclusive # {} => shared = {}
  /\ \A t \in Task :
       /\ at[t] = "decide" => t \in shared /\ txn = {t}
       /\ at[t] = "link" => t \in shared
       /\ at[t] = "designate" => exclusive = {t} /\ txn = {t}
       /\ at[t] \in {"detect", "sweep"} => exclusive = {t}

\* What a submission has read is still so: ids committed, ids quarantined.
ReadPart ==
  \A t \in Task : at[t] = "decide" =>
    /\ seen[t].exist = arg[t].parents \cap nodes
    /\ seen[t].tainted =
         ({arg[t].id} \cup arg[t].parents \cup arg[t].covers) \cap ledger

\* The blast radius a designation has computed is still that of its root.
SweepPart ==
  \A t \in Task : at[t] \in {"designate", "detect", "sweep"} =>
    seen[t].cp = Descendants(edges, Node, arg[t].id)

\* The event of a sweep that is being written is on record, and its digest is
\* the one it would have if it were logged now.
SentencePart ==
  \A t \in Task : at[t] = "sweep" => Sentence(t, "detector") \in events

BaseInv ==
  TypeOK /\ ArgPart /\ LockPart /\ ReadPart /\ SweepPart /\ SentencePart

-----------------------------------------------------------------------------
\* What commit_node does to the tables, and that their types survive it.
LEMMA CommitFacts ==
  ASSUME TypeOK, NEW id \in Node, NEW L \in SUBSET Node, commit_node(id, L)
  PROVE  /\ nodes' \subseteq Node /\ edges' \subseteq Node \X Node
         /\ nodes \subseteq nodes' /\ edges \subseteq edges'
         /\ nodes' \subseteq nodes \cup {id} /\ id \in nodes'
         /\ \A n \in nodes : Parents(edges', n) = Parents(edges, n)
         /\ L = {} => edges' = edges
<1>1. CASE id \in nodes
    BY <1>1 DEF commit_node, TypeOK
<1>2. CASE id \notin nodes
  <2>1. nodes' = nodes \cup {id} /\ edges' = edges \cup (L \X {id})
      BY <1>2 DEF commit_node
  <2>2. \A n \in nodes : Parents(edges', n) = Parents(edges, n)
    <3> SUFFICES ASSUME NEW n \in nodes
                 PROVE  {f \in edges' : f[2] = n} = {f \in edges : f[2] = n}
        BY DEF Parents
    <3> QED
        BY <1>2, <2>1
  <2> QED
      BY <2>1, <2>2 DEF TypeOK
<1> QED
    BY <1>1, <1>2

\* Empty tables, free locks, idle tasks.
LEMMA BaseInit == Init => BaseInv
<1> SUFFICES ASSUME Init PROVE BaseInv
    OBVIOUS
<1>1. TypeOK
    BY DEF Init, TypeOK, Place, View, NoView
<1> QED
    BY <1>1 DEF Init, BaseInv, ArgPart, LockPart, ReadPart, SweepPart,
                SentencePart, Engaged

\* A step that changes neither nodes and ledger under a submission nor edges
\* and ledger under a sweep keeps what the requests it does not touch rely on.
LEMMA OthersKeep ==
  ASSUME BaseInv, NEW t \in Task, TypeOK', LockPart',
         \A u \in Task : u # t => /\ at'[u] = at[u]
                                  /\ arg'[u] = arg[u]
                                  /\ seen'[u] = seen[u],
         \A u \in Task : u # t /\ at[u] = "decide" => UNCHANGED <<nodes, ledger>>,
         \A u \in Task : u # t /\ at[u] \in {"designate", "detect", "sweep"} =>
                           UNCHANGED <<edges, ledger>>,
         events \subseteq events',
         at'[t] \in {"compact", "seed", "link"} => arg'[t] \in Payload,
         at'[t] \notin {"decide", "designate", "detect", "sweep"}
  PROVE  BaseInv'
<1>1. ArgPart'
    BY DEF BaseInv, ArgPart, Engaged
<1>2. ReadPart'
  <2> SUFFICES ASSUME NEW u \in Task, at'[u] = "decide"
               PROVE  /\ seen'[u].exist = arg'[u].parents \cap nodes'
                      /\ seen'[u].tainted = ({arg'[u].id} \cup arg'[u].parents
                                              \cup arg'[u].covers) \cap ledger'
      BY DEF ReadPart
  <2>1. u # t /\ at[u] = "decide"
      OBVIOUS
  <2> QED
      BY <2>1 DEF BaseInv, ReadPart
<1>3. SweepPart'
  <2> SUFFICES ASSUME NEW u \in Task, at'[u] \in {"designate", "detect", "sweep"}
               PROVE  seen'[u].cp = Descendants(edges', Node, arg'[u].id)
      BY DEF SweepPart
  <2>1. u # t /\ at[u] \in {"designate", "detect", "sweep"}
      OBVIOUS
  <2> QED
      BY <2>1 DEF BaseInv, SweepPart
<1>4. SentencePart'
  <2> SUFFICES ASSUME NEW u \in Task, at'[u] = "sweep"
               PROVE  Sentence(u, "detector")' \in events'
      BY DEF SentencePart
  <2>1. u # t /\ at[u] = "sweep"
      OBVIOUS
  <2>2. Sentence(u, "detector")' = Sentence(u, "detector")
      BY <2>1 DEF Sentence, compute_quarantine_digest
  <2> QED
      BY <2>1, <2>2 DEF BaseInv, SentencePart
<1> QED
    BY <1>1, <1>2, <1>3, <1>4 DEF BaseInv

\* A request inside the exclusive lock is alone there; one under decision
\* writes alone.
LEMMA Alone ==
  ASSUME BaseInv, NEW t \in Task, NEW u \in Task, u # t
  PROVE  /\ at[t] = "decide" => at[u] \notin {"decide", "designate", "detect", "sweep"}
         /\ at[t] = "link" => at[u] \notin {"designate", "detect", "sweep"}
         /\ at[t] \in {"designate", "detect", "sweep"} => at[u] \notin Engaged
BY DEF BaseInv, LockPart, Engaged

\* A step that ends a request inside the lock leaves the other requests as
\* they were: none of them was relying on what it wrote.
LEMMA LeaveStep ==
  ASSUME BaseInv, NEW t \in Task, Release(t), TypeOK', events \subseteq events',
         \A u \in Task : u # t => /\ at'[u] = at[u]
                                  /\ arg'[u] = arg[u]
                                  /\ seen'[u] = seen[u],
         at'[t] \in {"idle", "continuity"},
         \/ at[t] \in {"decide", "designate", "detect", "sweep"}
         \/ at[t] \in {"compact", "link", "seed"} /\ UNCHANGED <<nodes, edges, ledger>>
  PROVE  BaseInv'
<1>1. LockPart'
    BY Alone DEF BaseInv, LockPart, Release, Engaged
<1>2. /\ \A u \in Task : u # t /\ at[u] = "decide" => UNCHANGED <<nodes, ledger>>
      /\ \A u \in Task : u # t /\ at[u] \in {"designate", "detect", "sweep"} =>
                           UNCHANGED <<edges, ledger>>
    BY Alone DEF Engaged
<1> QED
    BY <1>1, <1>2, OthersKeep

\* A step of a request outside lock and transaction that may commit nodes
\* only when the lock and the database are free.
LEMMA OutsideStep ==
  ASSUME BaseInv, NEW t \in Task, TypeOK', UNCHANGED <<locks, ledger, events>>,
         at[t] \notin Engaged,
         \A u \in Task : u # t => /\ at'[u] = at[u]
                                  /\ arg'[u] = arg[u]
                                  /\ seen'[u] = seen[u],
         at'[t] \notin Engaged,
         at'[t] \in {"compact", "seed"} => arg'[t] \in Payload,
         nodes' # nodes => txn = {},
         edges' = edges
  PROVE  BaseInv'
<1>1. LockPart'
    BY DEF BaseInv, LockPart, locks, Engaged
<1>2. \A u \in Task : at[u] = "decide" => UNCHANGED <<nodes, ledger>>
    BY DEF BaseInv, LockPart
<1> QED
    BY <1>1, <1>2, OthersKeep DEF Engaged
-----------------------------------------------------------------------------
(* TypeOK, one lemma per kind of step.                                     *)

\* Ending or moving a request keeps the types of its bookkeeping.
LEMMA BecomeType ==
  ASSUME TypeOK, NEW t \in Task, NEW place \in Place,
         NEW p \in Payload \cup {Blank}, NEW v \in View,
         Become(t, place, p, v)
  PROVE  /\ at' \in [Task -> Place]
         /\ arg' \in [Task -> Payload \cup {Blank}]
         /\ seen' \in [Task -> View]
         /\ at'[t] = place /\ arg'[t] = p /\ seen'[t] = v
         /\ \A u \in Task : u # t => /\ at'[u] = at[u]
                                     /\ arg'[u] = arg[u]
                                     /\ seen'[u] = seen[u]
BY DEF TypeOK, Become

\* The view of a request that has read nothing.
LEMMA NoViewType == NoView \in View
BY DEF NoView, View

\* The bookkeeping of a request that ends.
LEMMA FinishType ==
  ASSUME TypeOK, NEW t \in Task, Finish(t)
  PROVE  /\ at' \in [Task -> Place]
         /\ arg' \in [Task -> Payload \cup {Blank}]
         /\ seen' \in [Task -> View]
         /\ at'[t] = "idle"
         /\ \A u \in Task : u # t => /\ at'[u] = at[u]
                                     /\ arg'[u] = arg[u]
                                     /\ seen'[u] = seen[u]
<1>1. "idle" \in Place
    BY DEF Place
<1> QED
    BY <1>1, NoViewType, BecomeType DEF Finish

\* The fields of a payload.
LEMMA PayloadFields ==
  ASSUME NEW p \in Payload
  PROVE  /\ p.id \in Node /\ p.parents \in SUBSET Node
         /\ p.covers \in SUBSET Node /\ p.compaction \in BOOLEAN
BY DEF Payload

\* A refused tainted write leaves well-typed tables.
LEMMA TaintedType ==
  ASSUME BaseInv, NEW t \in Task, SubmitTainted(t)
  PROVE  TypeOK'
<1> DEFINE p == arg[t]
<1>1. p \in Payload /\ p.id \in Node /\ p.parents \cup p.covers \in SUBSET Node
    BY PayloadFields DEF SubmitTainted, BaseInv, ArgPart, Engaged
<1>2. PICK root \in TaintedParents(t) :
        /\ commit_node(p.id, p.parents \cup p.covers)
        /\ LET c_p == compute_blast_radius(edges', root) IN
           apply_quarantine_transaction(
             [by |-> "tainted_parent", root |-> root, cp |-> c_p,
              digest |-> compute_quarantine_digest(c_p \cup {p.id})],
             {p.id})
        /\ rejections' = rejections \cup {p.id}
        /\ decisions' = decisions \cup {p.id}
    BY DEF SubmitTainted
<1>3. nodes' \subseteq Node /\ edges' \subseteq Node \X Node
    BY <1>1, <1>2, CommitFacts DEF BaseInv
<1>4. root \in Node
    BY <1>1, PayloadFields DEF TaintedParents
<1>5. compute_blast_radius(edges', root) \subseteq Node
    BY <1>4, DescendantsRoot DEF compute_blast_radius
<1>6. events' \subseteq Event /\ ledger' \subseteq Node
    BY <1>1, <1>2, <1>4, <1>5
       DEF apply_quarantine_transaction, compute_quarantine_digest, Event,
           BaseInv, TypeOK
<1>7. /\ at' \in [Task -> Place]
      /\ arg' \in [Task -> Payload \cup {Blank}]
      /\ seen' \in [Task -> View]
    BY FinishType DEF SubmitTainted, BaseInv
<1> QED
    BY <1>1, <1>2, <1>3, <1>6, <1>7
       DEF SubmitTainted, Release, BaseInv, TypeOK

\* The event of a designation is well typed, and so is its radius.
LEMMA SentenceType ==
  ASSUME BaseInv, NEW t \in Task, at[t] \in {"designate", "detect", "sweep"},
         NEW by \in {"designation", "detector"}
  PROVE  Sentence(t, by) \in Event /\ seen[t].cp \subseteq Node
<1>1. arg[t] \in Payload /\ arg[t].id \in Node
    BY PayloadFields DEF BaseInv, ArgPart, Engaged
<1>2. seen[t].cp \subseteq Node
    BY DEF BaseInv, TypeOK, View
<1> QED
    BY <1>1, <1>2 DEF Sentence, compute_quarantine_digest, Event, BaseInv, TypeOK

-----------------------------------------------------------------------------
(* BaseInv, one step per action.                                           *)

\* A submission enters: it alone writes, and it has just read the tables.
LEMMA SubmitEnterBase ==
  ASSUME BaseInv, NEW t \in Task, NEW p \in Payload, SubmitEnter(t, p)
  PROVE  BaseInv'
<1> DEFINE v == [exist |-> p.parents \cap nodes,
                 tainted |-> ({p.id} \cup p.parents \cup p.covers) \cap ledger,
                 cp |-> {}]
<1>1. Become(t, "decide", p, v) /\ v \in View /\ "decide" \in Place
    BY PayloadFields DEF SubmitEnter, View, Place, BaseInv, TypeOK
<1>2. TypeOK'
  <2>1. /\ at' \in [Task -> Place]
        /\ arg' \in [Task -> Payload \cup {Blank}]
        /\ seen' \in [Task -> View]
      BY <1>1, BecomeType DEF BaseInv
  <2> QED
      BY <2>1 DEF SubmitEnter, tables, BaseInv, TypeOK
<1>3. /\ at'[t] = "decide" /\ arg'[t] = p /\ seen'[t] = v
      /\ \A u \in Task : u # t => /\ at'[u] = at[u] /\ arg'[u] = arg[u]
                                  /\ seen'[u] = seen[u]
    BY <1>1, BecomeType DEF BaseInv
<1>4. \A u \in Task : at[u] \notin {"decide", "designate", "detect", "sweep"}
    BY DEF SubmitEnter, NoWriter, BaseInv, LockPart
<1>5. LockPart'
    BY <1>3, <1>4 DEF SubmitEnter, BaseInv, LockPart
<1>6. ArgPart'
    BY <1>3 DEF BaseInv, ArgPart
<1>7. ReadPart'
    BY <1>3, <1>4 DEF ReadPart, SubmitEnter, tables
<1>8. SweepPart' /\ SentencePart'
    BY <1>3, <1>4 DEF SweepPart, SentencePart
<1> QED
    BY <1>2, <1>5, <1>6, <1>7, <1>8 DEF BaseInv

\* The exits of a submission.
LEMMA SubmitExitBase ==
  ASSUME BaseInv, NEW t \in Task,
         \/ SubmitRaise(t) \/ SubmitTainted(t) \/ SubmitDenied(t)
         \/ SubmitAdmit(t) \/ SubmitShadow(t)
  PROVE  BaseInv'
<1>1. at[t] = "decide" /\ Release(t) /\ Finish(t)
    BY DEF SubmitRaise, SubmitTainted, SubmitDenied, SubmitAdmit, SubmitShadow
<1>2. arg[t] \in Payload /\ arg[t].id \in Node
      /\ arg[t].parents \cup arg[t].covers \in SUBSET Node
    BY <1>1, PayloadFields DEF BaseInv, ArgPart, Engaged
<1>3. /\ at' \in [Task -> Place]
      /\ arg' \in [Task -> Payload \cup {Blank}]
      /\ seen' \in [Task -> View]
    BY <1>1, FinishType DEF BaseInv
<1>4. TypeOK'
  <2>1. CASE SubmitRaise(t)
      BY <1>1, <1>3, <2>1 DEF SubmitRaise, tables, Release, BaseInv, TypeOK
  <2>2. CASE SubmitTainted(t)
      BY <2>2, TaintedType
  <2>3. CASE SubmitDenied(t)
      BY <1>1, <1>2, <1>3, <2>3 DEF SubmitDenied, Release, BaseInv, TypeOK
  <2>4. CASE SubmitAdmit(t)
    <3>1. nodes' \subseteq Node /\ edges' \subseteq Node \X Node
        BY <1>2, <2>4, CommitFacts DEF SubmitAdmit, BaseInv
    <3> QED
        BY <1>1, <1>2, <1>3, <2>4, <3>1
           DEF SubmitAdmit, Release, BaseInv, TypeOK
  <2>5. CASE SubmitShadow(t)
    <3>1. nodes' \subseteq Node /\ edges' \subseteq Node \X Node
        BY <1>2, <2>5, CommitFacts DEF SubmitShadow, BaseInv
    <3> QED
        BY <1>1, <1>3, <2>5, <3>1 DEF SubmitShadow, Release, BaseInv, TypeOK
  <2> QED
      BY <2>1, <2>2, <2>3, <2>4, <2>5
<1>5. events \subseteq events'
    BY DEF SubmitRaise, SubmitTainted, SubmitDenied, SubmitAdmit, SubmitShadow,
           tables, apply_quarantine_transaction
<1> QED
    BY <1>1, <1>4, <1>5, FinishType, LeaveStep DEF BaseInv

\* A designation enters with nobody else inside the admission lock.
LEMMA DesignationEnterBase ==
  ASSUME BaseInv, NEW t \in Task, NEW root \in Node,
         DesignateEnter(t, root) \/ DetectorEnter(t, root)
  PROVE  BaseInv'
<1> DEFINE v == SawRadius(compute_blast_radius(edges, root))
           place == IF DesignateEnter(t, root) THEN "designate" ELSE "detect"
<1>1. /\ Become(t, place, Designation(root), v)
      /\ exclusive = {} /\ shared = {} /\ exclusive' = {t} /\ shared' = {}
      /\ place = "designate" => txn = {} /\ txn' = {t}
      /\ place = "detect" => txn' = txn
      /\ UNCHANGED tables
    BY DEF DesignateEnter, DetectorEnter, MayDesignate, NoWriter
<1>2. /\ v = [exist |-> {}, tainted |-> {},
              cp |-> Descendants(edges, Node, root)]
      /\ v \in View
    BY DescendantsRoot DEF SawRadius, View, compute_blast_radius
<1>3. Designation(root) \in Payload /\ Designation(root).id = root
    BY DEF Designation, Payload
<1>4. place \in Place /\ place \in {"designate", "detect"}
    BY DEF Place
<1> HIDE DEF place, v
<1>5. /\ at' \in [Task -> Place]
      /\ arg' \in [Task -> Payload \cup {Blank}]
      /\ seen' \in [Task -> View]
      /\ at'[t] = place /\ arg'[t] = Designation(root) /\ seen'[t] = v
      /\ \A u \in Task : u # t => /\ at'[u] = at[u] /\ arg'[u] = arg[u]
                                  /\ seen'[u] = seen[u]
    BY <1>1, <1>2, <1>3, <1>4, BecomeType DEF BaseInv
<1>6. TypeOK'
  <2>1. txn' \subseteq Task /\ exclusive' \subseteq Task /\ shared' \subseteq Task
      BY <1>1, <1>4 DEF BaseInv, TypeOK
  <2> QED
      BY <1>1, <1>5, <2>1 DEF tables, BaseInv, TypeOK
<1>7. \A u \in Task : at[u] \notin Engaged
    BY <1>1 DEF BaseInv, LockPart, Engaged
<1>8. LockPart'
    BY <1>1, <1>4, <1>5, <1>7 DEF BaseInv, LockPart, Engaged
<1>9. ArgPart'
    BY <1>3, <1>5 DEF BaseInv, ArgPart
<1>10. ReadPart' /\ SweepPart' /\ SentencePart'
    BY <1>1, <1>2, <1>3, <1>4, <1>5, <1>7
       DEF ReadPart, SweepPart, SentencePart, tables, Engaged
<1> QED
    BY <1>6, <1>8, <1>9, <1>10 DEF BaseInv

\* /designate writes the ledger, commits and leaves the lock.
LEMMA DesignateApplyBase ==
  ASSUME BaseInv, NEW t \in Task, DesignateApply(t)
  PROVE  BaseInv'
<1>1. /\ at[t] = "designate" /\ Release(t) /\ Finish(t)
      /\ events' = events \cup {Sentence(t, "designation")}
      /\ ledger' = ledger \cup seen[t].cp
      /\ UNCHANGED <<nodes, edges, rejections, decisions, torn>>
    BY DEF DesignateApply, apply_quarantine_transaction
<1>2. TypeOK'
    BY <1>1, SentenceType, FinishType DEF Release, BaseInv, TypeOK
<1> QED
    BY <1>1, <1>2, FinishType, LeaveStep DEF BaseInv

\* /detector logs its event, writes a row, leaves the lock.
LEMMA DetectorBase ==
  ASSUME BaseInv, NEW t \in Task,
         DetectorLog(t) \/ DetectorRow(t) \/ DetectorDone(t)
  PROVE  BaseInv'
<1>1. at[t] \in {"detect", "sweep"} /\ exclusive = {t}
      /\ \A u \in Task : u # t => at[u] \notin Engaged
    BY Alone DEF DetectorLog, DetectorRow, DetectorDone, BaseInv, LockPart
<1>2. ASSUME DetectorLog(t) PROVE BaseInv'
  <2>1. /\ events' = events \cup {Sentence(t, "detector")}
        /\ Become(t, "sweep", arg[t], seen[t])
        /\ UNCHANGED <<nodes, edges, ledger, rejections, decisions, torn, locks>>
      BY <1>2 DEF DetectorLog
  <2>2. "sweep" \in Place /\ arg[t] \in Payload \cup {Blank} /\ seen[t] \in View
      BY DEF Place, BaseInv, TypeOK
  <2>3. /\ at' \in [Task -> Place]
        /\ arg' \in [Task -> Payload \cup {Blank}]
        /\ seen' \in [Task -> View]
        /\ at'[t] = "sweep" /\ arg'[t] = arg[t] /\ seen'[t] = seen[t]
        /\ \A u \in Task : u # t => /\ at'[u] = at[u] /\ arg'[u] = arg[u]
                                    /\ seen'[u] = seen[u]
      BY <2>1, <2>2, BecomeType DEF BaseInv
  <2>4. TypeOK'
      BY <1>1, <2>1, <2>3, SentenceType DEF locks, BaseInv, TypeOK
  <2>5. LockPart'
      BY <1>1, <2>1, <2>3 DEF locks, BaseInv, LockPart
  <2>6. ArgPart'
      BY <1>1, <2>3 DEF BaseInv, ArgPart, Engaged
  <2>7. ReadPart' /\ SweepPart'
      BY <1>1, <2>1, <2>3 DEF BaseInv, ReadPart, SweepPart, Engaged
  <2>8. SentencePart'
    <3> SUFFICES ASSUME NEW u \in Task, at'[u] = "sweep"
                 PROVE  Sentence(u, "detector")' \in events'
        BY DEF SentencePart
    <3>1. u = t
        BY <1>1, <2>3 DEF Engaged
    <3>2. Sentence(t, "detector")' = Sentence(t, "detector")
        BY <2>1, <2>3 DEF Sentence, compute_quarantine_digest
    <3> QED
        BY <2>1, <3>1, <3>2
  <2> QED
      BY <2>4, <2>5, <2>6, <2>7, <2>8 DEF BaseInv
<1>3. ASSUME DetectorRow(t) PROVE BaseInv'
  <2>1. PICK n \in seen[t].cp \ ledger : ledger' = ledger \cup {n}
      BY <1>3 DEF DetectorRow
  <2>2. /\ at[t] = "sweep"
        /\ UNCHANGED <<nodes, edges, events, rejections, decisions, torn, locks, tasks>>
      BY <1>3 DEF DetectorRow
  <2>3. TypeOK'
      BY <1>1, <2>1, <2>2, SentenceType DEF locks, tasks, BaseInv, TypeOK
  <2>4. LockPart' /\ ArgPart' /\ SweepPart'
      BY <2>2 DEF locks, tasks, BaseInv, LockPart, ArgPart, SweepPart
  <2>5. ReadPart'
      BY <1>1, <2>2 DEF ReadPart, tasks, Engaged
  <2>6. SentencePart'
    <3> SUFFICES ASSUME NEW u \in Task, at'[u] = "sweep"
                 PROVE  Sentence(u, "detector")' \in events'
        BY DEF SentencePart
    <3>1. u = t
        BY <1>1, <2>2 DEF tasks, Engaged
    <3>2. ledger' \cup seen'[t].cp = ledger \cup seen[t].cp
        BY <2>1, <2>2 DEF tasks
    <3>3. Sentence(t, "detector")' = Sentence(t, "detector")
        BY <2>2, <3>2 DEF Sentence, compute_quarantine_digest, tasks
    <3> QED
        BY <2>2, <3>1, <3>3 DEF BaseInv, SentencePart
  <2> QED
      BY <2>3, <2>4, <2>5, <2>6 DEF BaseInv
<1>4. ASSUME DetectorDone(t) PROVE BaseInv'
  <2>1. PICK place \in {"continuity", "idle"} : Become(t, place, Blank, NoView)
      BY <1>4 DEF DetectorDone, Finish
  <2>2. place \in Place
      BY DEF Place
  <2>3. /\ at' \in [Task -> Place]
        /\ arg' \in [Task -> Payload \cup {Blank}]
        /\ seen' \in [Task -> View]
        /\ at'[t] = place
        /\ \A u \in Task : u # t => /\ at'[u] = at[u] /\ arg'[u] = arg[u]
                                    /\ seen'[u] = seen[u]
      BY <2>1, <2>2, NoViewType, BecomeType DEF BaseInv
  <2>4. Release(t) /\ UNCHANGED tables
      BY <1>4 DEF DetectorDone
  <2>5. TypeOK'
      BY <2>3, <2>4 DEF Release, tables, BaseInv, TypeOK
  <2> QED
      BY <1>1, <2>1, <2>3, <2>4, <2>5, LeaveStep DEF tables
<1> QED
    BY <1>2, <1>3, <1>4

\* An exception ends a request between two rows.
LEMMA RaiseBase ==
  ASSUME BaseInv, NEW t \in Task, Raise(t)
  PROVE  BaseInv'
<1>1. /\ at[t] \in {"compact", "link", "detect", "sweep", "seed"}
      /\ Release(t) /\ Finish(t) /\ torn' \in BOOLEAN
      /\ UNCHANGED <<nodes, edges, ledger, events, rejections, decisions>>
    BY DEF Raise, BaseInv, TypeOK
<1>2. TypeOK'
    BY <1>1, FinishType DEF Release, BaseInv, TypeOK
<1> QED
    BY <1>1, <1>2, FinishType, LeaveStep DEF BaseInv

\* The row of a node, outside transaction() and under the shared lock: no
\* sweep is under way and no submission is being decided.
LEMMA EnterLink ==
  ASSUME BaseInv, NEW t \in Task, at[t] \notin Engaged,
         exclusive = {}, txn = {}, NEW p \in Payload, NEW v \in View,
         Become(t, "link", p, v), shared' = shared \cup {t},
         nodes' = nodes \cup {p.id},
         UNCHANGED <<edges, ledger, events, rejections, decisions, torn,
                     exclusive, txn>>
  PROVE  BaseInv'
<1>1. "link" \in Place /\ p.id \in Node
    BY PayloadFields DEF Place
<1>2. /\ at' \in [Task -> Place]
      /\ arg' \in [Task -> Payload \cup {Blank}]
      /\ seen' \in [Task -> View]
      /\ at'[t] = "link" /\ arg'[t] = p
      /\ \A u \in Task : u # t => /\ at'[u] = at[u] /\ arg'[u] = arg[u]
                                  /\ seen'[u] = seen[u]
    BY <1>1, BecomeType DEF BaseInv
<1>3. TypeOK'
    BY <1>1, <1>2 DEF BaseInv, TypeOK
<1>4. \A u \in Task : at[u] \notin {"decide", "designate", "detect", "sweep"}
    BY DEF BaseInv, LockPart
<1>5. LockPart'
    BY <1>2, <1>4 DEF BaseInv, LockPart
<1> QED
    BY <1>2, <1>3, <1>4, <1>5, OthersKeep

\* The edge rows of a commit outside transaction(), and its end.
LEMMA LinkBase ==
  ASSUME BaseInv, NEW t \in Task, Link(t) \/ LinkDone(t)
  PROVE  BaseInv'
<1>1. at[t] = "link" /\ t \in shared /\ arg[t] \in Payload /\ seen[t] \in View
    BY DEF Link, LinkDone, BaseInv, LockPart, ArgPart, TypeOK, Engaged
<1>2. arg[t].id \in Node /\ arg[t].parents \in SUBSET Node
    BY <1>1, PayloadFields
<1>3. \A u \in Task : at[u] \notin {"designate", "detect", "sweep"}
    BY <1>1, Alone DEF BaseInv
<1>4. ASSUME Link(t) PROVE BaseInv'
  <2>1. PICK p \in arg[t].parents \ Parents(edges, arg[t].id) :
               edges' = edges \cup {<<p, arg[t].id>>}
      BY <1>4 DEF Link
  <2>2. /\ txn = {}
        /\ UNCHANGED <<nodes, ledger, events, rejections, decisions, torn, locks, tasks>>
      BY <1>4 DEF Link, NoWriter
  <2>3. TypeOK'
      BY <1>2, <2>1, <2>2 DEF locks, tasks, BaseInv, TypeOK
  <2>4. LockPart'
      BY <2>2 DEF locks, tasks, BaseInv, LockPart
  <2> QED
      BY <1>1, <1>3, <2>2, <2>3, <2>4, OthersKeep DEF tasks
<1>5. ASSUME LinkDone(t) PROVE BaseInv'
  <2>1. PICK place \in {"idle", "emit"}, v \in View : Become(t, place, Blank, v)
      BY <1>1, <1>5, NoViewType DEF LinkDone, Finish
  <2>2. place \in Place
      BY DEF Place
  <2>3. /\ at' \in [Task -> Place]
        /\ arg' \in [Task -> Payload \cup {Blank}]
        /\ seen' \in [Task -> View]
        /\ at'[t] = place
        /\ \A u \in Task : u # t => /\ at'[u] = at[u] /\ arg'[u] = arg[u]
                                    /\ seen'[u] = seen[u]
      BY <2>1, <2>2, BecomeType DEF BaseInv
  <2>4. shared' = shared \ {t} /\ UNCHANGED <<tables, exclusive, txn>>
      BY <1>5 DEF LinkDone
  <2>5. TypeOK'
      BY <2>3, <2>4 DEF tables, BaseInv, TypeOK
  <2>6. LockPart'
      BY <2>3, <2>4 DEF BaseInv, LockPart
  <2> QED
      BY <2>1, <2>3, <2>4, <2>5, <2>6, OthersKeep DEF tables
<1> QED
    BY <1>4, <1>5

\* The steps of compaction, continuity and seed.
LEMMA OutsideBase ==
  ASSUME BaseInv, NEW t \in Task,
         CompactStep(t) \/ ContinuityStep(t) \/ SeedStep(t)
  PROVE  BaseInv'
<1>1. \A p \in {"idle", "compact", "emit", "seed"} : p \in Place /\ p \notin Engaged
    BY DEF Place, Engaged
<1>2. ASSUME NEW id \in Node, NEW covers \in SUBSET Node,
             CompactCheck(t, id, covers)
      PROVE  BaseInv'
  <2> DEFINE p == [id |-> id, parents |-> covers, covers |-> covers,
                   compaction |-> TRUE]
  <2>1. p \in Payload /\ Become(t, "compact", p, NoView)
      BY <1>2 DEF Payload, CompactCheck
  <2> HIDE DEF p
  <2>2. at[t] = "idle" /\ UNCHANGED <<tables, locks>>
      BY <1>2 DEF CompactCheck
  <2>3. TypeOK'
      BY <1>1, <2>1, <2>2, BecomeType, NoViewType DEF tables, locks, BaseInv, TypeOK
  <2> QED
      BY <1>1, <2>1, <2>2, <2>3, BecomeType, NoViewType, OutsideStep
         DEF tables, locks, BaseInv, Engaged
<1>3. ASSUME CompactCommit(t) PROVE BaseInv'
  <2>1. /\ at[t] = "compact" /\ exclusive = {} /\ txn = {}
        /\ nodes' = nodes \cup {arg[t].id}
        /\ UNCHANGED <<edges, ledger, events, rejections, decisions, torn,
                       exclusive, txn>>
      BY <1>3 DEF CompactCommit, NoWriter
  <2>2. arg[t] \in Payload /\ arg[t].id \in Node /\ at[t] \notin Engaged
      BY <2>1, PayloadFields DEF BaseInv, ArgPart, Engaged
  <2>3. CASE arg[t].id \in nodes
    <3>1. Finish(t) /\ shared' = shared
        BY <1>3, <2>3 DEF CompactCommit
    <3>2. TypeOK'
        BY <2>1, <2>2, <3>1, FinishType DEF BaseInv, TypeOK
    <3> QED
        BY <1>1, <2>1, <2>2, <3>1, <3>2, FinishType, OutsideStep DEF locks, BaseInv
  <2>4. CASE arg[t].id \notin nodes
    <3>1. Become(t, "link", arg[t], NoView) /\ shared' = shared \cup {t}
        BY <1>3, <2>4 DEF CompactCommit
    <3> QED
        BY <2>1, <2>2, <3>1, NoViewType, EnterLink
  <2> QED
      BY <2>3, <2>4
<1>4. ASSUME ContinuityRead(t) PROVE BaseInv'
  <2> DEFINE v == SawClean((nodes \cup {e[1] : e \in edges}) \ ledger)
  <2>1. /\ at[t] = "continuity" /\ UNCHANGED <<tables, locks>>
        /\ Become(t, "emit", Blank, v)
      BY <1>4 DEF ContinuityRead
  <2>2. v \in View
      BY DEF SawClean, View, BaseInv, TypeOK
  <2> HIDE DEF v
  <2>3. TypeOK'
      BY <1>1, <2>1, <2>2, BecomeType DEF tables, locks, BaseInv, TypeOK
  <2> QED
      BY <1>1, <2>1, <2>2, <2>3, BecomeType, OutsideStep
         DEF tables, locks, BaseInv, Engaged
<1>5. ASSUME ContinuityEmit(t) PROVE BaseInv'
  <2>1. /\ at[t] = "emit" /\ exclusive = {} /\ txn = {} /\ shared' = shared \cup {t}
        /\ UNCHANGED <<edges, ledger, events, rejections, decisions, torn,
                       exclusive, txn>>
      BY <1>5 DEF ContinuityEmit, NoWriter
  <2>2. PICK id \in FreshNode \ nodes,
             parents \in (SUBSET seen[t].exist \ {{}}) \cup {{FallbackParent}} :
          /\ nodes' = nodes \cup {id}
          /\ Become(t, "link", [id |-> id, parents |-> parents, covers |-> {},
                                compaction |-> FALSE], seen[t])
      BY <1>5 DEF ContinuityEmit
  <2> DEFINE p == [id |-> id, parents |-> parents, covers |-> {},
                   compaction |-> FALSE]
  <2>3. id \in Node /\ parents \in SUBSET Node /\ seen[t] \in View
      BY <2>2, ContainmentAssumption DEF BaseInv, TypeOK, View
  <2>4. p \in Payload /\ p.id = id /\ at[t] \notin Engaged
      BY <2>1, <2>3 DEF Payload, Engaged
  <2> HIDE DEF p
  <2>5. Become(t, "link", p, seen[t])
      BY <2>2 DEF p
  <2> QED
      BY <2>1, <2>2, <2>3, <2>4, <2>5, EnterLink
<1>6. ASSUME ContinuityFinish(t) PROVE BaseInv'
  <2>1. at[t] = "emit" /\ Finish(t) /\ UNCHANGED <<tables, locks>>
      BY <1>6 DEF ContinuityFinish
  <2>2. TypeOK'
      BY <2>1, FinishType DEF tables, locks, BaseInv, TypeOK
  <2> QED
      BY <1>1, <2>1, <2>2, FinishType, OutsideStep DEF tables, locks, BaseInv
<1>7. ASSUME NEW root \in Node, SeedCheck(t, root) PROVE BaseInv'
  <2>1. /\ at[t] = "idle" /\ UNCHANGED <<tables, locks>>
        /\ Become(t, "seed", Designation(root), NoView)
      BY <1>7 DEF SeedCheck
  <2>2. Designation(root) \in Payload
      BY DEF Designation, Payload
  <2>3. TypeOK'
      BY <1>1, <2>1, <2>2, BecomeType, NoViewType DEF tables, locks, BaseInv, TypeOK
  <2> QED
      BY <1>1, <2>1, <2>2, <2>3, BecomeType, NoViewType, OutsideStep
         DEF tables, locks, BaseInv, Engaged
<1>8. ASSUME SeedCommit(t) PROVE BaseInv'
  <2>1. /\ at[t] = "seed" /\ txn = {} /\ Finish(t)
        /\ commit_node(arg[t].id, {})
        /\ UNCHANGED <<ledger, events, rejections, decisions, torn, locks>>
      BY <1>8 DEF SeedCommit, NoWriter
  <2>2. arg[t].id \in Node
      BY <2>1, PayloadFields DEF BaseInv, ArgPart
  <2>3. nodes' \subseteq Node /\ edges' = edges
      BY <2>1, <2>2, CommitFacts DEF BaseInv
  <2>4. TypeOK'
      BY <2>1, <2>3, FinishType DEF locks, BaseInv, TypeOK
  <2> QED
      BY <1>1, <2>1, <2>3, <2>4, FinishType, OutsideStep DEF locks, BaseInv
<1> QED
    BY <1>2, <1>3, <1>4, <1>5, <1>6, <1>7, <1>8, LinkBase
       DEF CompactStep, ContinuityStep, SeedStep

\* Every step preserves BaseInv.
LEMMA BaseStep == BaseInv /\ [Next]_vars => BaseInv'
<1> SUFFICES ASSUME BaseInv, [Next]_vars PROVE BaseInv'
    OBVIOUS
<1>1. ASSUME NEW t \in Task, SubmitStep(t) PROVE BaseInv'
    BY <1>1, SubmitEnterBase, SubmitExitBase DEF SubmitStep
<1>2. ASSUME NEW t \in Task, DesignateStep(t) PROVE BaseInv'
    BY <1>2, DesignationEnterBase, DesignateApplyBase, DetectorBase
       DEF DesignateStep
<1>3. ASSUME NEW t \in Task, CompactStep(t) \/ ContinuityStep(t) \/ SeedStep(t)
      PROVE  BaseInv'
    BY <1>3, OutsideBase
<1>4. CASE Crash
  <2>1. \A t \in Task : at'[t] = "idle"
      BY <1>4 DEF Crash
  <2>2. TypeOK'
      BY <1>4, NoViewType DEF Crash, BaseInv, TypeOK, Place
  <2>3. exclusive' = {}
      BY <1>4 DEF Crash
  <2> QED
      BY <2>1, <2>2, <2>3
         DEF BaseInv, ArgPart, LockPart, ReadPart, SweepPart, SentencePart, Engaged
<1>5. CASE UNCHANGED vars
    BY <1>5 DEF vars, BaseInv, TypeOK, ArgPart, LockPart, ReadPart, SweepPart,
                SentencePart, Sentence, compute_quarantine_digest
<1> QED
    BY <1>1, <1>2, <1>3, <1>4, <1>5, RaiseBase DEF Next

\* What a request has read stays true until it writes, for any number of
\* requests, ids, endpoints and client liberties.
THEOREM BaseInvariant == Spec => []BaseInv
<1>1. Init => BaseInv
    BY BaseInit
<1>2. BaseInv /\ [Next]_vars => BaseInv'
    BY BaseStep
<1> QED
    BY <1>1, <1>2, PTL DEF Spec

\* Every reachable state is well typed.
THEOREM ContainmentTypes == Spec => []TypeOK
<1>1. BaseInv => TypeOK
    BY DEF BaseInv
<1> QED
    BY <1>1, BaseInvariant, PTL
-----------------------------------------------------------------------------
(* Sweeps, admissions and the audit trail, for all endpoints and clients.  *)

\* The steps that write the tables.
LEMMA Writers ==
  ASSUME [Next]_vars
  PROVE  \/ UNCHANGED <<nodes, edges, ledger, events, rejections>>
         \/ \E t \in Task :
              \/ SubmitTainted(t) \/ SubmitAdmit(t) \/ SubmitShadow(t)
              \/ CompactCommit(t) \/ Link(t) \/ ContinuityEmit(t) \/ SeedCommit(t)
              \/ DesignateApply(t) \/ DetectorLog(t) \/ DetectorRow(t)
<1> DEFINE Same == UNCHANGED <<nodes, edges, ledger, events, rejections>>
<1>1. ASSUME Crash \/ UNCHANGED vars PROVE Same
    BY <1>1 DEF Crash, vars
<1>2. ASSUME NEW t \in Task, Raise(t) PROVE Same
    BY <1>2 DEF Raise
<1>3. ASSUME NEW t \in Task, NEW p \in Payload, SubmitEnter(t, p) PROVE Same
    BY <1>3 DEF SubmitEnter, tables
<1>4. ASSUME NEW t \in Task, SubmitRaise(t) \/ SubmitDenied(t) PROVE Same
    BY <1>4 DEF SubmitRaise, SubmitDenied, tables
<1>5. ASSUME NEW t \in Task, NEW id, NEW covers, CompactCheck(t, id, covers) PROVE Same
    BY <1>5 DEF CompactCheck, tables
<1>6. ASSUME NEW t \in Task, LinkDone(t) \/ DetectorDone(t) PROVE Same
    BY <1>6 DEF LinkDone, DetectorDone, tables
<1>7. ASSUME NEW t \in Task, NEW root \in Node,
             DesignateEnter(t, root) \/ DetectorEnter(t, root) \/ SeedCheck(t, root)
      PROVE  Same
    BY <1>7 DEF DesignateEnter, DetectorEnter, SeedCheck, tables
<1>8. ASSUME NEW t \in Task, ContinuityRead(t) \/ ContinuityFinish(t) PROVE Same
    BY <1>8 DEF ContinuityRead, ContinuityFinish, tables
<1> HIDE DEF Same
<1> SUFFICES ASSUME ~Same
             PROVE  \E t \in Task :
                      \/ SubmitTainted(t) \/ SubmitAdmit(t) \/ SubmitShadow(t)
                      \/ CompactCommit(t) \/ Link(t) \/ ContinuityEmit(t) \/ SeedCommit(t)
                      \/ DesignateApply(t) \/ DetectorLog(t) \/ DetectorRow(t)
    BY DEF Same
<1> QED
    BY <1>1, <1>2, <1>3, <1>4, <1>5, <1>6, <1>7, <1>8
       DEF Next, SubmitStep, CompactStep, DesignateStep, ContinuityStep, SeedStep

\* What a step does to the tables: rows are only added, and a committed node
\* keeps its parents unless the call that commits it is still writing them.
LEMMA Monotone ==
  ASSUME BaseInv, [Next]_vars
  PROVE  /\ ledger \subseteq ledger' /\ nodes \subseteq nodes'
         /\ edges \subseteq edges'
         /\ \A n \in nodes :
              \/ Parents(edges', n) = Parents(edges, n)
              \/ \E t \in Task : at[t] = "link" /\ arg[t].id = n
<1> DEFINE Kept == /\ ledger \subseteq ledger' /\ nodes \subseteq nodes'
                   /\ edges \subseteq edges'
                   /\ \A n \in nodes :
                        \/ Parents(edges', n) = Parents(edges, n)
                        \/ \E t \in Task : at[t] = "link" /\ arg[t].id = n
<1>1. ASSUME NEW id \in Node, NEW L \in SUBSET Node, commit_node(id, L),
             ledger \subseteq ledger'
      PROVE  Kept
    BY <1>1, CommitFacts DEF BaseInv
<1>2. ASSUME nodes \subseteq nodes', edges' = edges, ledger \subseteq ledger'
      PROVE  Kept
    BY <1>2
<1>3. ASSUME NEW t \in Task, at[t] \in {"decide", "link", "seed"}
      PROVE  /\ arg[t].id \in Node /\ arg[t].parents \in SUBSET Node
             /\ arg[t].parents \cup arg[t].covers \in SUBSET Node
    BY <1>3, PayloadFields DEF BaseInv, ArgPart, Engaged
<1>4. CASE UNCHANGED <<nodes, edges, ledger, events, rejections>>
    BY <1>2, <1>4
<1>5. ASSUME NEW t \in Task, SubmitTainted(t) \/ SubmitAdmit(t) \/ SubmitShadow(t)
      PROVE  Kept
  <2>1. ledger \subseteq ledger' /\ at[t] = "decide"
        /\ commit_node(arg[t].id, arg[t].parents \cup arg[t].covers)
      BY <1>5 DEF SubmitTainted, SubmitAdmit, SubmitShadow, apply_quarantine_transaction
  <2> QED
      BY <1>1, <1>3, <2>1
<1>6. ASSUME NEW t \in Task,
             CompactCommit(t) \/ ContinuityEmit(t) \/ DesignateApply(t)
               \/ DetectorLog(t) \/ DetectorRow(t)
      PROVE  Kept
    BY <1>2, <1>6 DEF CompactCommit, ContinuityEmit, DesignateApply, DetectorLog,
                      DetectorRow, apply_quarantine_transaction
<1>7. ASSUME NEW t \in Task, Link(t) PROVE Kept
  <2>1. PICK p \in arg[t].parents \ Parents(edges, arg[t].id) :
               edges' = edges \cup {<<p, arg[t].id>>}
      BY <1>7 DEF Link
  <2>2. at[t] = "link" /\ UNCHANGED <<nodes, ledger>>
      BY <1>7 DEF Link
  <2>3. ASSUME NEW n \in nodes, n # arg[t].id
        PROVE  Parents(edges', n) = Parents(edges, n)
    <3> SUFFICES {f \in edges' : f[2] = n} = {f \in edges : f[2] = n}
        BY DEF Parents
    <3> QED
        BY <2>1, <2>3
  <2> QED
      BY <2>1, <2>2, <2>3
<1>8. ASSUME NEW t \in Task, SeedCommit(t) PROVE Kept
    BY <1>1, <1>3, <1>8 DEF SeedCommit
<1> QED
    BY <1>4, <1>5, <1>6, <1>7, <1>8, Writers

\* The steps that log an event, with the event they log.
LEMMA NewEvents ==
  ASSUME [Next]_vars, NEW e \in events' \ events
  PROVE  \E t \in Task :
           \/ SubmitTainted(t) /\ e.by = "tainted_parent"
           \/ /\ DesignateApply(t) /\ e = Sentence(t, "designation")
              /\ ledger' = ledger \cup seen[t].cp
           \/ DetectorLog(t) /\ e = Sentence(t, "detector")
<1>1. events' # events
    OBVIOUS
<1>2. PICK t \in Task : SubmitTainted(t) \/ DesignateApply(t) \/ DetectorLog(t)
    BY <1>1, Writers
       DEF SubmitAdmit, SubmitShadow, CompactCommit, Link, ContinuityEmit, SeedCommit,
           DetectorRow
<1>3. CASE SubmitTainted(t)
  <2>1. e.by = "tainted_parent"
      BY <1>3 DEF SubmitTainted, apply_quarantine_transaction
  <2> QED
      BY <1>3, <2>1
<1>4. CASE DesignateApply(t)
    BY <1>4 DEF DesignateApply, apply_quarantine_transaction
<1>5. CASE DetectorLog(t)
    BY <1>5 DEF DetectorLog
<1> QED
    BY <1>2, <1>3, <1>4, <1>5

\* No request, race or crash takes back or rewrites committed lineage or
\* quarantine, whatever the clients send.
THEOREM HistoryAppendOnly == Spec => AppendOnly
<1>1. BaseInv /\ [Next]_vars =>
        [/\ ledger \subseteq ledger' /\ nodes \subseteq nodes'
         /\ edges \subseteq edges'
         /\ \A n \in nodes :
              \/ Parents(edges', n) = Parents(edges, n)
              \/ \E t \in Task : at[t] = "link" /\ arg[t].id = n]_vars
    BY Monotone
<1> QED
    BY <1>1, BaseInvariant, PTL DEF Spec, AppendOnly

\* A request that is writing the rows of a sweep is left where it is by the
\* others, and its own step changes no edge.
LEMMA SweepLeaves ==
  ASSUME BaseInv, [Next]_vars, NEW t \in Task, at[t] = "sweep", at'[t] # "sweep"
  PROVE  UNCHANGED <<nodes, edges, ledger, events>>
<1>1. ASSUME NEW u \in Task, NEW place, NEW p, NEW v, Become(u, place, p, v)
      PROVE  u = t
    BY <1>1 DEF Become, BaseInv, TypeOK
<1>2. ASSUME NEW u \in Task, Finish(u) PROVE u = t
    BY <1>1, <1>2 DEF Finish
<1>3. CASE Crash
    BY <1>3 DEF Crash
<1>4. ~UNCHANGED vars
    BY DEF vars
<1>5. ASSUME NEW u \in Task, SubmitStep(u) PROVE FALSE
    BY <1>1, <1>2, <1>5 DEF SubmitStep, SubmitEnter, SubmitRaise, SubmitTainted,
                            SubmitDenied, SubmitAdmit, SubmitShadow
<1>6. ASSUME NEW u \in Task, CompactStep(u) PROVE FALSE
  <2>1. ASSUME NEW id, NEW covers, CompactCheck(u, id, covers) PROVE FALSE
      BY <1>1, <2>1 DEF CompactCheck
  <2>2. ~CompactCommit(u) /\ ~Link(u) /\ ~LinkDone(u)
      BY <1>1, <1>2 DEF CompactCommit, Link, LinkDone, tasks
  <2> QED
      BY <1>6, <2>1, <2>2 DEF CompactStep
<1>7. ASSUME NEW u \in Task, ContinuityStep(u) \/ SeedStep(u) PROVE FALSE
  <2>1. ~ContinuityRead(u) /\ ~ContinuityFinish(u) /\ ~SeedCommit(u)
      BY <1>1, <1>2 DEF ContinuityRead, ContinuityFinish, SeedCommit
  <2>2. ~ContinuityEmit(u)
      BY <1>1 DEF ContinuityEmit
  <2>3. \A root \in Node : ~SeedCheck(u, root)
      BY <1>1 DEF SeedCheck
  <2> QED
      BY <1>7, <2>1, <2>2, <2>3 DEF ContinuityStep, SeedStep
<1>8. ASSUME NEW u \in Task, DesignateStep(u) PROVE DetectorDone(u)
  <2>1. \A root \in Node : ~DesignateEnter(u, root) /\ ~DetectorEnter(u, root)
      BY <1>1 DEF DesignateEnter, DetectorEnter, MayDesignate
  <2>2. ~DesignateApply(u) /\ ~DetectorLog(u) /\ ~DetectorRow(u)
      BY <1>1, <1>2 DEF DesignateApply, DetectorLog, DetectorRow, tasks
  <2> QED
      BY <1>8, <2>1, <2>2 DEF DesignateStep
<1>9. ASSUME NEW u \in Task, DetectorDone(u) \/ Raise(u)
      PROVE  UNCHANGED <<nodes, edges, ledger, events>>
    BY <1>9 DEF DetectorDone, Raise, tables
<1> QED
    BY <1>3, <1>4, <1>5, <1>6, <1>7, <1>8, <1>9 DEF Next

\* A designation leaves no descendant of its root outside the ledger, at any
\* number of concurrent requests and with every endpoint in use: /designate as
\* it commits, /detector as it writes its last row.
THEOREM SweepsComplete == Spec => SweepComplete
<1> DEFINE Done == /\ \A e \in events' \ events : e.by = "designation" =>
                        Descendants(edges', Node, e.root) \subseteq ledger'
                   /\ \A t \in Task : SweepEnds(t) =>
                        Descendants(edges', Node, arg[t].id) \subseteq ledger'
<1>1. ASSUME BaseInv, [Next]_vars PROVE Done
  <2>1. ASSUME NEW e \in events' \ events, e.by = "designation"
        PROVE  Descendants(edges', Node, e.root) \subseteq ledger'
    <3>1. PICK t \in Task : /\ DesignateApply(t) /\ e = Sentence(t, "designation")
                            /\ ledger' = ledger \cup seen[t].cp
        BY <1>1, <2>1, NewEvents DEF Sentence
    <3>2. at[t] = "designate" /\ edges' = edges /\ e.root = arg[t].id
        BY <3>1 DEF DesignateApply, Sentence
    <3>3. seen[t].cp = Descendants(edges', Node, e.root)
        BY <1>1, <3>2 DEF BaseInv, SweepPart
    <3> QED
        BY <3>1, <3>3
  <2>2. ASSUME NEW t \in Task, SweepEnds(t)
        PROVE  Descendants(edges', Node, arg[t].id) \subseteq ledger'
    <3>1. at[t] = "sweep" /\ seen[t].cp \subseteq ledger
          /\ UNCHANGED <<edges, ledger>>
        BY <1>1, <2>2, SweepLeaves DEF SweepEnds
    <3> QED
        BY <1>1, <3>1 DEF BaseInv, SweepPart
  <2> QED
      BY <2>1, <2>2
<1>2. BaseInv /\ [Next]_vars => [Done]_vars
    BY <1>1
<1> QED
    BY <1>2, BaseInvariant, PTL DEF Spec, SweepComplete

\* A node lands from a request that is being decided only by that request's
\* own step, and the ledger it was decided on is the ledger it lands under.
LEMMA DecidedAlone ==
  ASSUME BaseInv, [Next]_vars, NEW t \in Task, at[t] = "decide"
  PROVE  \/ SubmitRaise(t) \/ SubmitTainted(t) \/ SubmitDenied(t)
         \/ SubmitAdmit(t) \/ SubmitShadow(t) \/ Crash
         \/ UNCHANGED <<nodes, edges, ledger>> /\ at'[t] = at[t] /\ arg'[t] = arg[t]
<1> DEFINE Still == UNCHANGED <<nodes, edges, ledger>>
                    /\ at'[t] = at[t] /\ arg'[t] = arg[t]
<1>1. txn = {t} /\ exclusive = {} /\ ~NoWriter
    BY DEF BaseInv, LockPart, NoWriter
<1>2. ASSUME NEW u \in Task, u # t
      PROVE  at[u] \notin {"decide", "designate", "detect", "sweep"}
    BY <1>2, Alone
<1>3. ASSUME NEW u \in Task, u # t, NEW place, NEW p, NEW v, Become(u, place, p, v)
      PROVE  at'[t] = at[t] /\ arg'[t] = arg[t]
    BY <1>3 DEF Become, BaseInv, TypeOK
<1>4. ASSUME NEW u \in Task, u # t, SubmitStep(u) PROVE Still
    BY <1>1, <1>2, <1>4 DEF SubmitStep, SubmitEnter, SubmitRaise, SubmitTainted,
                            SubmitDenied, SubmitAdmit, SubmitShadow
<1>5. ASSUME NEW u \in Task, u # t, CompactStep(u) PROVE Still
  <2>1. ASSUME NEW id, NEW covers, CompactCheck(u, id, covers) PROVE Still
      BY <1>3, <1>5, <2>1 DEF CompactCheck, tables
  <2>2. ~CompactCommit(u) /\ ~Link(u)
      BY <1>1 DEF CompactCommit, Link
  <2>3. CASE LinkDone(u)
      BY <1>3, <1>5, <2>3 DEF LinkDone, Finish, tables
  <2> QED
      BY <1>5, <2>1, <2>2, <2>3 DEF CompactStep
<1>6. ASSUME NEW u \in Task, u # t, DesignateStep(u) PROVE Still
  <2>1. ASSUME NEW root \in Node, DesignateEnter(u, root) \/ DetectorEnter(u, root)
        PROVE  FALSE
    <3>1. t \in shared
        BY DEF BaseInv, LockPart
    <3> QED
        BY <2>1, <3>1 DEF DesignateEnter, DetectorEnter, MayDesignate
  <2> QED
      BY <1>2, <1>6, <2>1 DEF DesignateStep, DesignateApply, DetectorLog, DetectorRow,
                              DetectorDone
<1>7. ASSUME NEW u \in Task, u # t, ContinuityStep(u) PROVE Still
    BY <1>1, <1>3, <1>7
       DEF ContinuityStep, ContinuityRead, ContinuityEmit, ContinuityFinish, Finish,
           tables
<1>8. ASSUME NEW u \in Task, u # t, SeedStep(u) PROVE Still
    BY <1>1, <1>3, <1>8 DEF SeedStep, SeedCheck, SeedCommit, tables
<1>9. ASSUME NEW u \in Task, u # t, Raise(u) PROVE Still
    BY <1>3, <1>9 DEF Raise, Finish
<1>10. CASE UNCHANGED vars
    BY <1>10 DEF vars
<1>11. /\ ~CompactStep(t) /\ ~DesignateStep(t) /\ ~ContinuityStep(t) /\ ~SeedStep(t)
       /\ ~Raise(t)
    BY DEF CompactStep, CompactCheck, CompactCommit, Link, LinkDone, DesignateStep,
           DesignateEnter, DetectorEnter, MayDesignate, DesignateApply, DetectorLog,
           DetectorRow, DetectorDone, ContinuityStep, ContinuityRead, ContinuityEmit,
           ContinuityFinish, SeedStep, SeedCheck, SeedCommit, Raise
<1>12. \A p \in Payload : ~SubmitEnter(t, p)
    BY DEF SubmitEnter
<1> QED
    BY <1>4, <1>5, <1>6, <1>7, <1>8, <1>9, <1>10, <1>11, <1>12 DEF Next, SubmitStep

\* While the gateway enforces, what /submit-candidate lands and leaves
\* unquarantined has committed, clean parents, for any clients and endpoints.
THEOREM AdmissionsClean ==
  ASSUME ~ShadowMode
  PROVE  Spec => AdmittedClean
<1>1. ASSUME BaseInv, [Next]_vars
      PROVE  [\A t \in Task :
                /\ at[t] = "decide"
                /\ arg[t].id \in nodes' \ nodes
                /\ arg[t].id \notin ledger'
                => arg[t].parents \subseteq nodes \ ledger']_vars
  <2> SUFFICES ASSUME NEW t \in Task, at[t] = "decide",
                      arg[t].id \in nodes' \ nodes, arg[t].id \notin ledger'
               PROVE  arg[t].parents \subseteq nodes \ ledger'
      OBVIOUS
  <2>1. SubmitAdmit(t)
    <3>1. ~SubmitTainted(t)
        BY DEF SubmitTainted, apply_quarantine_transaction
    <3>2. ~SubmitRaise(t) /\ ~SubmitDenied(t) /\ ~SubmitShadow(t) /\ ~Crash
        BY DEF SubmitRaise, SubmitDenied, SubmitShadow, Crash, tables
    <3> QED
        BY <1>1, <3>1, <3>2, DecidedAlone
  <2>2. ledger' = ledger /\ arg[t].parents \subseteq seen[t].exist
        /\ arg[t].parents \cap seen[t].tainted = {}
      BY <2>1 DEF SubmitAdmit, TaintedParents
  <2> QED
      BY <1>1, <2>2 DEF BaseInv, ReadPart
<1> QED
    BY <1>1, BaseInvariant, PTL DEF Spec, AdmittedClean

\* There is one sweep at most: what is under it is the radius of the request
\* that writes it.
LEMMA OneSweep ==
  BaseInv => /\ \A t \in Task : at[t] = "sweep" => UnderSweep = seen[t].cp
             /\ (\A t \in Task : at[t] # "sweep") => UnderSweep = {}
<1> SUFFICES ASSUME BaseInv
             PROVE  /\ \A t \in Task : at[t] = "sweep" => UnderSweep = seen[t].cp
                    /\ (\A t \in Task : at[t] # "sweep") => UnderSweep = {}
    OBVIOUS
<1>1. ASSUME NEW t \in Task, at[t] = "sweep" PROVE UnderSweep = seen[t].cp
  <2>1. {u \in Task : at[u] = "sweep"} = {t}
      BY <1>1, Alone DEF Engaged
  <2> QED
      BY <2>1 DEF UnderSweep
<1>2. ASSUME \A t \in Task : at[t] # "sweep" PROVE UnderSweep = {}
  <2>1. {u \in Task : at[u] = "sweep"} = {}
      BY <1>2
  <2> QED
      BY <2>1 DEF UnderSweep
<1> QED
    BY <1>1, <1>2

\* How the set under sweep changes: as DetectorLog starts one, and as one ends,
\* when its rows are all in the ledger or the cut is on record.
LEMMA SweepSteps ==
  ASSUME BaseInv, [Next]_vars
  PROVE  /\ torn => torn'
         /\ \/ UnderSweep' = UnderSweep
            \/ \E t \in Task : DetectorLog(t) /\ UnderSweep = {} /\ UnderSweep' = seen[t].cp
            \/ /\ UNCHANGED <<nodes, edges, ledger, events, rejections>>
               /\ UnderSweep' = {} /\ (torn' \/ UnderSweep \subseteq ledger)
<1> DEFINE Ends == /\ UNCHANGED <<nodes, edges, ledger, events, rejections>>
                   /\ UnderSweep' = {} /\ (torn' \/ UnderSweep \subseteq ledger)
           Goal == \/ UnderSweep' = UnderSweep
                   \/ \E t \in Task : DetectorLog(t) /\ UnderSweep = {}
                                      /\ UnderSweep' = seen[t].cp
                   \/ Ends
<1>0. BaseInv'
    BY BaseStep
<1>1. /\ \A t \in Task : at'[t] = "sweep" => UnderSweep' = seen'[t].cp
      /\ (\A t \in Task : at'[t] # "sweep") => UnderSweep' = {}
  <2>1. (BaseInv => /\ \A t \in Task : at[t] = "sweep" => UnderSweep = seen[t].cp
                    /\ (\A t \in Task : at[t] # "sweep") => UnderSweep = {})'
      BY OneSweep, PTL
  <2> QED
      BY <1>0, <2>1
<1>2. /\ \A t \in Task : at[t] = "sweep" => UnderSweep = seen[t].cp
      /\ (\A t \in Task : at[t] # "sweep") => UnderSweep = {}
    BY OneSweep
<1>3. ASSUME UNCHANGED tasks PROVE UnderSweep' = UnderSweep
    BY <1>3 DEF UnderSweep, tasks
<1>4. ASSUME NEW t \in Task, NEW place, NEW p, NEW v, Become(t, place, p, v),
             at[t] # "sweep", place # "sweep"
      PROVE  UnderSweep' = UnderSweep
  <2>1. at'[t] # "sweep"
        /\ \A u \in Task : u # t => at'[u] = at[u] /\ seen'[u] = seen[u]
      BY <1>4 DEF Become, BaseInv, TypeOK
  <2>2. CASE \A u \in Task : at[u] # "sweep"
      BY <1>1, <1>2, <2>1, <2>2
  <2>3. ASSUME NEW u \in Task, at[u] = "sweep" PROVE UnderSweep' = UnderSweep
      BY <1>1, <1>2, <1>4, <2>1, <2>3
  <2> QED
      BY <2>2, <2>3
<1>5. ASSUME NEW t \in Task, Finish(t), at[t] # "sweep" PROVE UnderSweep' = UnderSweep
    BY <1>4, <1>5 DEF Finish
<1>6. ASSUME NEW t \in Task, NEW place, NEW p, NEW v, Become(t, place, p, v),
             at[t] = "sweep", place # "sweep"
      PROVE  UnderSweep' = {}
  <2>1. \A u \in Task : at'[u] # "sweep"
    <3>1. \A u \in Task : u # t => at[u] # "sweep"
        BY <1>6, Alone DEF Engaged
    <3> QED
        BY <1>6, <3>1 DEF Become, BaseInv, TypeOK
  <2> QED
      BY <1>1, <2>1
<1>7. ASSUME NEW t \in Task, SubmitStep(t) PROVE Goal /\ torn' = torn
    BY <1>4, <1>5, <1>7 DEF SubmitStep, SubmitEnter, SubmitRaise, SubmitTainted,
                            SubmitDenied, SubmitAdmit, SubmitShadow, tables
<1>8. ASSUME NEW t \in Task, CompactStep(t) PROVE Goal /\ torn' = torn
  <2>1. ASSUME NEW id, NEW covers, CompactCheck(t, id, covers) PROVE Goal /\ torn' = torn
      BY <1>4, <2>1 DEF CompactCheck, tables
  <2>2. CASE CompactCommit(t) \/ Link(t) \/ LinkDone(t)
      BY <1>3, <1>4, <1>5, <2>2 DEF CompactCommit, Link, LinkDone, tables
  <2> QED
      BY <1>8, <2>1, <2>2 DEF CompactStep
<1>9. ASSUME NEW t \in Task, ContinuityStep(t) \/ SeedStep(t) PROVE Goal /\ torn' = torn
  <2>1. CASE ContinuityRead(t) \/ ContinuityFinish(t) \/ SeedCommit(t)
      BY <1>4, <1>5, <2>1 DEF ContinuityRead, ContinuityFinish, SeedCommit, tables
  <2>2. CASE ContinuityEmit(t)
      BY <1>4, <2>2 DEF ContinuityEmit
  <2>3. ASSUME NEW root \in Node, SeedCheck(t, root) PROVE Goal /\ torn' = torn
      BY <1>4, <2>3 DEF SeedCheck, tables
  <2> QED
      BY <1>9, <2>1, <2>2, <2>3 DEF ContinuityStep, SeedStep
<1>10. ASSUME NEW t \in Task, DesignateStep(t) PROVE Goal /\ torn' = torn
  <2>1. ASSUME NEW root \in Node, DesignateEnter(t, root) \/ DetectorEnter(t, root)
        PROVE  Goal /\ torn' = torn
      BY <1>4, <2>1 DEF DesignateEnter, DetectorEnter, MayDesignate, tables
  <2>2. CASE DesignateApply(t) \/ DetectorRow(t)
      BY <1>3, <1>5, <2>2 DEF DesignateApply, DetectorRow
  <2>3. CASE DetectorLog(t)
    <3>1. at[t] = "detect" /\ torn' = torn /\ Become(t, "sweep", arg[t], seen[t])
        BY <2>3 DEF DetectorLog
    <3>2. \A u \in Task : at[u] # "sweep"
        BY <3>1, Alone DEF Engaged
    <3>3. at'[t] = "sweep" /\ seen'[t] = seen[t]
        BY <3>1 DEF Become, BaseInv, TypeOK
    <3> QED
        BY <1>1, <1>2, <2>3, <3>1, <3>2, <3>3
  <2>4. CASE DetectorDone(t)
    <3>1. /\ at[t] = "sweep" /\ seen[t].cp \subseteq ledger /\ UNCHANGED tables
        BY <2>4 DEF DetectorDone
    <3>2. UnderSweep' = {}
        BY <1>6, <2>4, <3>1 DEF DetectorDone, Finish
    <3> QED
        BY <1>2, <3>1, <3>2 DEF tables
  <2> QED
      BY <1>10, <2>1, <2>2, <2>3, <2>4 DEF DesignateStep
<1>11. ASSUME NEW t \in Task, Raise(t) PROVE Goal /\ (torn => torn')
  <2>1. /\ torn' = (torn \/ CutShort(t)) /\ Finish(t)
        /\ UNCHANGED <<nodes, edges, ledger, events, rejections>>
      BY <1>11 DEF Raise
  <2>2. CASE at[t] # "sweep"
      BY <1>5, <2>1, <2>2
  <2>3. CASE at[t] = "sweep"
    <3>1. UnderSweep' = {} /\ UnderSweep = seen[t].cp
        BY <1>2, <1>6, <2>1, <2>3 DEF Finish
    <3> QED
        BY <2>1, <2>3, <3>1 DEF CutShort
  <2> QED
      BY <2>1, <2>2, <2>3
<1>12. ASSUME Crash PROVE Goal /\ (torn => torn')
  <2>1. /\ torn' = (torn \/ \E t \in Task : CutShort(t))
        /\ \A t \in Task : at'[t] = "idle"
        /\ UNCHANGED <<nodes, edges, ledger, events, rejections>>
      BY <1>12 DEF Crash
  <2>2. UnderSweep' = {}
      BY <1>1, <2>1
  <2>3. torn' \/ UnderSweep \subseteq ledger
    <3>1. CASE \A t \in Task : at[t] # "sweep"
        BY <1>2, <3>1
    <3>2. ASSUME NEW t \in Task, at[t] = "sweep"
          PROVE  torn' \/ UnderSweep \subseteq ledger
        BY <1>2, <2>1, <3>2 DEF CutShort
    <3> QED
        BY <3>1, <3>2
  <2> QED
      BY <2>1, <2>2, <2>3
<1>13. ASSUME UNCHANGED vars PROVE Goal /\ (torn => torn')
    BY <1>3, <1>13 DEF vars, tasks
<1> QED
    BY <1>7, <1>8, <1>9, <1>10, <1>11, <1>12, <1>13 DEF Next

\* A node that is quarantined or about to be stays so, until a cut is on record.
LEMMA DoomedStays ==
  ASSUME BaseInv, [Next]_vars
  PROVE  torn' \/ ledger \cup UnderSweep \subseteq ledger' \cup UnderSweep'
<1>1. ledger \subseteq ledger'
    BY Monotone
<1> QED
    BY <1>1, SweepSteps

\* Every audit record is backed by the rows it speaks of and every row by a
\* record, across crashes, exceptions and concurrent requests; for /detector
\* until one of its sweeps is cut short.
THEOREM AuditTrailBacked == Spec => []AuditBacked
<1>1. Init => AuditBacked
    BY DEF Init, AuditBacked
<1>2. ASSUME BaseInv, AuditBacked, [Next]_vars PROVE AuditBacked'
  <2>1. ledger \subseteq ledger' /\ nodes \subseteq nodes'
      BY <1>2, Monotone
  <2>2. rejections' \subseteq nodes' \cap ledger'
    <3>1. ASSUME NEW t \in Task, SubmitTainted(t)
          PROVE  rejections' \subseteq nodes' \cap ledger'
      <4>1. /\ rejections' = rejections \cup {arg[t].id}
            /\ arg[t].id \in ledger'
            /\ commit_node(arg[t].id, arg[t].parents \cup arg[t].covers)
          BY <3>1 DEF SubmitTainted, apply_quarantine_transaction
      <4>2. arg[t].id \in nodes'
          BY <4>1 DEF commit_node
      <4> QED
          BY <1>2, <2>1, <4>1, <4>2 DEF AuditBacked
    <3>2. CASE rejections' = rejections
        BY <1>2, <2>1, <3>2 DEF AuditBacked
    <3>3. rejections' = rejections \/ \E t \in Task : SubmitTainted(t)
        BY <1>2, Writers
           DEF SubmitAdmit, SubmitShadow, CompactCommit, Link, ContinuityEmit,
               SeedCommit, DesignateApply, DetectorLog, DetectorRow
    <3> QED
        BY <3>1, <3>2, <3>3
  <2>3. ASSUME NEW e \in events', e.by = "designation" PROVE e.cp \subseteq ledger'
    <3>1. CASE e \in events
        BY <1>2, <2>1, <2>3, <3>1 DEF AuditBacked
    <3>2. CASE e \notin events
        BY <1>2, <2>3, <3>2, NewEvents DEF Sentence
    <3> QED
        BY <3>1, <3>2
  <2>4. ASSUME NEW e \in events', e.by = "detector"
        PROVE  torn' \/ e.cp \subseteq ledger' \cup UnderSweep'
    <3>1. CASE e \in events
        BY <1>2, <2>4, <3>1, DoomedStays, SweepSteps DEF AuditBacked
    <3>2. CASE e \notin events
      <4>1. PICK t \in Task : DetectorLog(t) /\ e = Sentence(t, "detector")
          BY <1>2, <2>4, <3>2, NewEvents DEF Sentence
      <4>2. at[t] = "detect" /\ at'[t] = "sweep" /\ seen'[t] = seen[t]
          BY <1>2, <4>1 DEF DetectorLog, Become, BaseInv, TypeOK
      <4>3. e.cp = seen[t].cp
          BY <4>1 DEF Sentence
      <4>4. seen'[t].cp \subseteq UnderSweep'
          BY <4>2 DEF UnderSweep
      <4> QED
          BY <4>2, <4>3, <4>4
    <3> QED
        BY <3>1, <3>2
  <2>5. ledger' \subseteq rejections' \cup UNION {e.cp : e \in events'}
    <3>1. events \subseteq events' /\ rejections \subseteq rejections'
        BY <1>2, Writers
           DEF SubmitTainted, SubmitAdmit, SubmitShadow, CompactCommit, Link,
               ContinuityEmit, SeedCommit, DesignateApply, DetectorLog, DetectorRow,
               apply_quarantine_transaction
    <3>2. ASSUME NEW n \in ledger PROVE n \in rejections' \cup UNION {e.cp : e \in events'}
        BY <1>2, <3>1, <3>2 DEF AuditBacked
    <3>3. ASSUME NEW t \in Task, SubmitTainted(t)
          PROVE  ledger' \subseteq ledger \cup rejections'
        BY <3>3 DEF SubmitTainted, apply_quarantine_transaction
    <3>4. ASSUME NEW t \in Task, DesignateApply(t)
          PROVE  ledger' \subseteq ledger \cup UNION {e.cp : e \in events'}
      <4>1. ledger' = ledger \cup Sentence(t, "designation").cp
            /\ Sentence(t, "designation") \in events'
          BY <3>4 DEF DesignateApply, apply_quarantine_transaction, Sentence
      <4> QED
          BY <4>1
    <3>5. ASSUME NEW t \in Task, DetectorRow(t)
          PROVE  ledger' \subseteq ledger \cup UNION {e.cp : e \in events'}
      <4>1. at[t] = "sweep" /\ events' = events
            /\ ledger' \subseteq ledger \cup seen[t].cp
          BY <3>5 DEF DetectorRow
      <4>2. Sentence(t, "detector") \in events'
          BY <1>2, <4>1 DEF BaseInv, SentencePart
      <4>3. Sentence(t, "detector").cp = seen[t].cp
          BY DEF Sentence
      <4> QED
          BY <4>1, <4>2, <4>3
    <3>6. \/ ledger' = ledger
          \/ \E t \in Task : SubmitTainted(t) \/ DesignateApply(t) \/ DetectorRow(t)
        BY <1>2, Writers
           DEF SubmitAdmit, SubmitShadow, CompactCommit, Link, ContinuityEmit,
               SeedCommit, DetectorLog
    <3> QED
        BY <3>2, <3>3, <3>4, <3>5, <3>6
  <2> QED
      BY <2>2, <2>3, <2>4, <2>5 DEF AuditBacked
<1> QED
    BY <1>1, <1>2, BaseInvariant, PTL DEF Spec

-----------------------------------------------------------------------------
(* Containment itself, for disciplined clients of the enforcing gateway.   *)

\* The setting of the containment theorems: clients take none of the
\* liberties of Lax, the gateway enforces, and neither /context-compacted nor
\* the continuity loop commits nodes.  Each of these is needed: without it TLC
\* finds ContainmentClosed violated (README, "What is proved").
Disciplined ==
  /\ Lax = {} /\ ~ShadowMode
  /\ "context-compacted" \notin Endpoint /\ "continuity" \notin Endpoint

\* Only the handlers of the disciplined setting run.
QuietPart ==
  \A t \in Task : at[t] \notin {"compact", "link", "continuity", "emit"}

\* An edge leads to a committed node, and one from an id that is not committed
\* (the unresolved parent of a refused write) leads to a quarantined one.
ResolvedPart ==
  \A e \in edges : e[2] \in nodes /\ (e[1] \in nodes \/ e[2] \in ledger)

\* A submission under decision still resubmits the lineage the table holds,
\* and covers what is committed.
ClientPart ==
  \A t \in Task : at[t] = "decide" =>
    /\ \/ arg[t].id \notin nodes
       \/ Parents(edges, arg[t].id) = arg[t].parents \cup arg[t].covers
    /\ arg[t].covers \subseteq nodes
    /\ arg[t].compaction \/ arg[t].covers = {}

\* The parts that speak of the tables.
TablePart == ResolvedPart /\ ContainmentClosed /\ ContainmentLogged

ClosedInv == BaseInv /\ QuietPart /\ ClientPart /\ TablePart

\* A step that writes neither lineage nor ledger preserves the table parts,
\* whether it starts a sweep, ends one or leaves it alone.
LEMMA TablesAlone ==
  ASSUME ClosedInv, [Next]_vars, UNCHANGED <<nodes, edges, ledger>>
  PROVE  TablePart'
<1>1. events \subseteq events'
  <2> SUFFICES ASSUME NEW t \in Task,
                      \/ SubmitTainted(t) \/ SubmitAdmit(t) \/ SubmitShadow(t)
                      \/ CompactCommit(t) \/ Link(t) \/ ContinuityEmit(t) \/ SeedCommit(t)
                      \/ DesignateApply(t) \/ DetectorLog(t) \/ DetectorRow(t)
               PROVE  events \subseteq events'
      BY Writers
  <2> QED
      BY DEF SubmitTainted, SubmitAdmit, SubmitShadow, CompactCommit, Link,
             ContinuityEmit, SeedCommit, DesignateApply, DetectorLog, DetectorRow,
             apply_quarantine_transaction
<1>2. ResolvedPart'
    BY DEF ClosedInv, TablePart, ResolvedPart
<1>3. ContainmentLogged'
    BY <1>1 DEF ClosedInv, TablePart, ContainmentLogged
<1>4. ContainmentClosed'
  <2>1. CASE UnderSweep' = UnderSweep
      BY <2>1, SweepSteps DEF ClosedInv, TablePart, ContainmentClosed
  <2>2. ASSUME NEW t \in Task, DetectorLog(t), UnderSweep = {}, UnderSweep' = seen[t].cp
        PROVE  ContainmentClosed'
    <3>1. at[t] = "detect" /\ arg[t].id \in Node /\ edges \subseteq Node \X Node
        BY <2>2, PayloadFields DEF DetectorLog, ClosedInv, BaseInv, ArgPart, TypeOK, Engaged
    <3>2. Closed(edges, seen[t].cp)
        BY <3>1, DescendantsClosed DEF ClosedInv, BaseInv, SweepPart
    <3> QED
        BY <2>2, <3>2, SweepSteps
           DEF ClosedInv, TablePart, ContainmentClosed, Closed
  <2>3. CASE UnderSweep' = {} /\ (torn' \/ UnderSweep \subseteq ledger)
      BY <2>3, SweepSteps DEF ClosedInv, TablePart, ContainmentClosed, Closed
  <2> QED
      BY <2>1, <2>2, <2>3, SweepSteps DEF ClosedInv
<1> QED
    BY <1>2, <1>3, <1>4 DEF TablePart

\* Handlers outside the disciplined setting never start.
LEMMA QuietStep ==
  ASSUME Disciplined, ClosedInv, [Next]_vars
  PROVE  QuietPart'
<1>1. ASSUME NEW t \in Task, NEW place, NEW p, NEW v, Become(t, place, p, v),
             place \notin {"compact", "link", "continuity", "emit"}
      PROVE  QuietPart'
    BY <1>1 DEF Become, QuietPart, ClosedInv, BaseInv, TypeOK
<1>2. ASSUME NEW t \in Task, Finish(t) PROVE QuietPart'
    BY <1>1, <1>2 DEF Finish
<1>3. ASSUME NEW t \in Task, SubmitStep(t) PROVE QuietPart'
  <2>1. ASSUME NEW p \in Payload, SubmitEnter(t, p) PROVE QuietPart'
      BY <1>1, <2>1 DEF SubmitEnter
  <2>2. CASE \/ SubmitRaise(t) \/ SubmitTainted(t) \/ SubmitDenied(t)
             \/ SubmitAdmit(t) \/ SubmitShadow(t)
      BY <1>2, <2>2 DEF SubmitRaise, SubmitTainted, SubmitDenied, SubmitAdmit,
                        SubmitShadow
  <2> QED
      BY <1>3, <2>1, <2>2 DEF SubmitStep
<1>4. ASSUME NEW t \in Task, CompactStep(t) \/ ContinuityStep(t) PROVE FALSE
    BY <1>4 DEF CompactStep, CompactCheck, CompactCommit, Link, LinkDone, ContinuityStep,
                ContinuityRead, ContinuityEmit, ContinuityFinish, Disciplined, ClosedInv,
                QuietPart
<1>5. ASSUME NEW t \in Task, DesignateStep(t) PROVE QuietPart'
  <2>1. ASSUME NEW root \in Node, DesignateEnter(t, root) \/ DetectorEnter(t, root)
        PROVE  QuietPart'
      BY <1>1, <2>1 DEF DesignateEnter, DetectorEnter
  <2>2. CASE DetectorLog(t)
      BY <1>1, <2>2 DEF DetectorLog
  <2>3. CASE DetectorRow(t)
      BY <2>3 DEF DetectorRow, tasks, ClosedInv, QuietPart
  <2>4. CASE DesignateApply(t) \/ DetectorDone(t)
      BY <1>2, <2>4 DEF DesignateApply, DetectorDone, Disciplined
  <2> QED
      BY <1>5, <2>1, <2>2, <2>3, <2>4 DEF DesignateStep
<1>6. ASSUME NEW t \in Task, SeedStep(t) PROVE QuietPart'
    BY <1>1, <1>2, <1>6 DEF SeedStep, SeedCheck, SeedCommit
<1>7. ASSUME NEW t \in Task, Raise(t) PROVE QuietPart'
    BY <1>2, <1>7 DEF Raise
<1>8. CASE Crash
    BY <1>8 DEF Crash, QuietPart
<1>9. CASE UNCHANGED vars
    BY <1>9 DEF vars, QuietPart, ClosedInv
<1> QED
    BY <1>3, <1>4, <1>5, <1>6, <1>7, <1>8, <1>9 DEF Next

\* A request comes to be decided only by its own SubmitEnter.
LEMMA DecidedBy ==
  ASSUME BaseInv, [Next]_vars, NEW t \in Task, at[t] # "decide", at'[t] = "decide"
  PROVE  \E p \in Payload : SubmitEnter(t, p)
<1>1. ASSUME NEW u \in Task, NEW place, NEW p, NEW v, Become(u, place, p, v)
      PROVE  u = t /\ place = "decide"
    BY <1>1 DEF Become, BaseInv, TypeOK
<1>2. ASSUME NEW u \in Task, Finish(u) PROVE FALSE
    BY <1>1, <1>2 DEF Finish
<1>3. ASSUME NEW u \in Task, SubmitStep(u) PROVE \E p \in Payload : SubmitEnter(t, p)
    BY <1>1, <1>2, <1>3 DEF SubmitStep, SubmitEnter, SubmitRaise, SubmitTainted,
                            SubmitDenied, SubmitAdmit, SubmitShadow
<1>4. ASSUME NEW u \in Task, CompactStep(u) PROVE FALSE
  <2>1. ASSUME NEW id, NEW covers, CompactCheck(u, id, covers) PROVE FALSE
    <3>1. PICK p, v : Become(u, "compact", p, v)
        BY <2>1 DEF CompactCheck
    <3> QED
        BY <1>1, <3>1
  <2>2. ~CompactCommit(u) /\ ~Link(u) /\ ~LinkDone(u)
      BY <1>1, <1>2 DEF CompactCommit, Link, LinkDone, tasks
  <2> QED
      BY <1>4, <2>1, <2>2 DEF CompactStep
<1>5. ASSUME NEW u \in Task, ContinuityStep(u) PROVE FALSE
  <2>1. ASSUME ContinuityEmit(u) PROVE FALSE
    <3>1. PICK p, v : Become(u, "link", p, v)
        BY <2>1 DEF ContinuityEmit
    <3> QED
        BY <1>1, <3>1
  <2>2. ~ContinuityRead(u) /\ ~ContinuityFinish(u)
      BY <1>1, <1>2 DEF ContinuityRead, ContinuityFinish
  <2> QED
      BY <1>5, <2>1, <2>2 DEF ContinuityStep
<1>6. ASSUME NEW u \in Task, DesignateStep(u) PROVE FALSE
    BY <1>1, <1>2, <1>6 DEF DesignateStep, DesignateEnter, DetectorEnter, DesignateApply,
                            DetectorLog, DetectorRow, DetectorDone, tasks
<1>7. ASSUME NEW u \in Task, SeedStep(u) \/ Raise(u) PROVE FALSE
    BY <1>1, <1>2, <1>7 DEF SeedStep, SeedCheck, SeedCommit, Raise
<1>8. ~Crash /\ ~UNCHANGED vars
    BY DEF Crash, vars
<1> QED
    BY <1>3, <1>4, <1>5, <1>6, <1>7, <1>8 DEF Next

\* The client's discipline holds when a submission enters and nothing disturbs
\* it until the submission leaves.
LEMMA ClientStep ==
  ASSUME Disciplined, ClosedInv, [Next]_vars
  PROVE  ClientPart'
<1> SUFFICES ASSUME NEW t \in Task, at'[t] = "decide"
             PROVE  /\ \/ arg'[t].id \notin nodes'
                       \/ Parents(edges', arg'[t].id) = arg'[t].parents \cup arg'[t].covers
                    /\ arg'[t].covers \subseteq nodes'
                    /\ arg'[t].compaction \/ arg'[t].covers = {}
    BY DEF ClientPart
<1>1. CASE at[t] = "decide"
  <2>1. ASSUME Finish(t) PROVE FALSE
      BY <2>1 DEF Finish, Become, ClosedInv, BaseInv, TypeOK
  <2>2. UNCHANGED <<nodes, edges, ledger>> /\ arg'[t] = arg[t]
    <3>1. ~Crash
        BY DEF Crash
    <3> QED
        BY <1>1, <2>1, <3>1, DecidedAlone
           DEF ClosedInv, SubmitRaise, SubmitTainted, SubmitDenied, SubmitAdmit,
               SubmitShadow
  <2> QED
      BY <1>1, <2>2 DEF ClosedInv, ClientPart
<1>2. CASE at[t] # "decide"
  <2>1. PICK p \in Payload : SubmitEnter(t, p)
      BY <1>2, DecidedBy DEF ClosedInv
  <2>2. arg'[t] = p /\ UNCHANGED <<nodes, edges>>
      BY <2>1 DEF SubmitEnter, Become, tables, ClosedInv, BaseInv, TypeOK
  <2>3. Submittable(p)
      BY <2>1 DEF SubmitEnter
  <2> QED
      BY <2>2, <2>3 DEF Submittable, Disciplined
<1> QED
    BY <1>1, <1>2

\* No sweep is under way beside a submission that is decided, nor after it.
LEMMA DecideNoSweep ==
  ASSUME ClosedInv, [Next]_vars, NEW t \in Task, at[t] = "decide"
  PROVE  UnderSweep = {} /\ UnderSweep' = {}
<1>1. \A u \in Task : at[u] \notin {"detect", "sweep"}
    BY Alone DEF ClosedInv
<1>2. UnderSweep = {}
    BY <1>1, OneSweep DEF ClosedInv
<1>3. \A u \in Task : ~DetectorLog(u)
    BY <1>1 DEF DetectorLog
<1> QED
    BY <1>2, <1>3, SweepSteps DEF ClosedInv

\* A refused tainted write quarantines its id alone.  Without torn sweeps that
\* is enough: the id is new, or it would have been quarantined with the parent
\* already.  With them its event names what lies below it.
LEMMA TaintedClosed ==
  ASSUME ClosedInv, [Next]_vars, NEW t \in Task, SubmitTainted(t)
  PROVE  TablePart'
<1> DEFINE p == arg[t]
           L == p.parents \cup p.covers
<1>1. at[t] = "decide" /\ ~Barred(t) /\ torn' = torn
    BY DEF SubmitTainted
<1>2. PICK root \in TaintedParents(t) :
        /\ commit_node(p.id, L) /\ ledger' = ledger \cup {p.id}
        /\ events \subseteq events'
        /\ [by |-> "tainted_parent", root |-> root,
            cp |-> compute_blast_radius(edges', root),
            digest |-> compute_quarantine_digest(
                         compute_blast_radius(edges', root) \cup {p.id})] \in events'
    BY DEF SubmitTainted, apply_quarantine_transaction
<1>3. p \in Payload /\ L \subseteq Node /\ p.id \in Node
    BY <1>1, PayloadFields DEF ClosedInv, BaseInv, ArgPart, Engaged
<1>4. root \in p.parents /\ root \in ledger /\ root \in Node
    BY <1>1, <1>2, <1>3 DEF TaintedParents, ClosedInv, BaseInv, ReadPart
<1>5. p.id \notin ledger
    BY <1>1 DEF Barred, ClosedInv, BaseInv, ReadPart
<1>6. UnderSweep = {} /\ UnderSweep' = {}
    BY <1>1, DecideNoSweep
<1>7. /\ p.id \in nodes' /\ nodes \subseteq nodes' /\ edges' \subseteq Node \X Node
      /\ \A e \in edges' : e \in edges \/ e[2] = p.id
    BY <1>2, <1>3 DEF commit_node, ClosedInv, BaseInv, TypeOK
<1>8. \E e \in edges' : e[1] = root /\ e[2] = p.id
  <2>1. CASE p.id \in nodes
    <3>1. edges' = edges /\ root \in Parents(edges, p.id)
        BY <1>1, <1>2, <1>4, <2>1 DEF commit_node, ClosedInv, ClientPart
    <3> QED
        BY <3>1 DEF Parents
  <2>2. CASE p.id \notin nodes
    <3>1. <<root, p.id>> \in edges'
        BY <1>2, <1>4, <2>2 DEF commit_node
    <3> QED
        BY <3>1
  <2> QED
      BY <2>1, <2>2
<1>9. ResolvedPart'
    BY <1>2, <1>7 DEF ClosedInv, TablePart, ResolvedPart
<1>10. ContainmentClosed'
  <2> SUFFICES ASSUME ~torn PROVE Closed(edges', ledger')
      BY <1>1, <1>6 DEF ContainmentClosed
  <2>1. Closed(edges, ledger)
      BY <1>6 DEF ClosedInv, TablePart, ContainmentClosed
  <2>2. p.id \notin nodes
    <3> SUFFICES ASSUME p.id \in nodes PROVE FALSE
        OBVIOUS
    <3>1. edges' = edges
        BY <1>2 DEF commit_node
    <3> QED
        BY <1>4, <1>5, <1>8, <2>1, <3>1 DEF Closed
  <2> QED
      BY <1>2, <1>7, <2>1, <2>2 DEF ClosedInv, TablePart, ResolvedPart, Closed
<1>11. ContainmentLogged'
  <2> SUFFICES ASSUME NEW e \in edges', e[1] \in ledger'
               PROVE  e[2] \in ledger' \cup UNION {v.cp : v \in events'}
      BY DEF ContainmentLogged
  <2>1. CASE e[2] = p.id
      BY <1>2, <2>1
  <2>2. CASE e[2] # p.id /\ e[1] \in ledger
      BY <1>2, <1>7, <2>2 DEF ClosedInv, TablePart, ContainmentLogged
  <2>3. CASE e[1] = p.id
    <3>1. /\ root \in Descendants(edges', Node, root)
          /\ Closed(edges', Descendants(edges', Node, root))
        BY <1>4, <1>7, DescendantsRoot, DescendantsClosed
    <3>2. e[2] \in Descendants(edges', Node, root)
        BY <1>8, <2>3, <3>1 DEF Closed
    <3> QED
        BY <1>2, <3>2 DEF compute_blast_radius
  <2> QED
      BY <1>2, <2>1, <2>2, <2>3
<1> QED
    BY <1>9, <1>10, <1>11 DEF TablePart

\* An admitted write hangs below committed ids none of which is quarantined.
LEMMA AdmitClosed ==
  ASSUME ClosedInv, [Next]_vars, NEW t \in Task, SubmitAdmit(t)
  PROVE  TablePart'
<1> DEFINE p == arg[t]
           L == p.parents \cup p.covers
<1>1. /\ at[t] = "decide" /\ ~Barred(t) /\ commit_node(p.id, L)
      /\ UNCHANGED <<ledger, events, torn>>
      /\ p.parents \cap seen[t].tainted = {} /\ p.parents \subseteq seen[t].exist
    BY DEF SubmitAdmit, TaintedParents
<1>2. L \subseteq nodes
    BY <1>1 DEF ClosedInv, BaseInv, ReadPart, ClientPart
<1>3. L \cap ledger = {}
  <2>1. p.parents \cap ledger = {}
      BY <1>1 DEF ClosedInv, BaseInv, ReadPart
  <2>2. p.covers \cap ledger = {}
      BY <1>1 DEF Barred, ClosedInv, BaseInv, ReadPart, ClientPart
  <2> QED
      BY <2>1, <2>2
<1>4. UnderSweep = {} /\ UnderSweep' = {}
    BY <1>1, DecideNoSweep
<1>5. CASE p.id \in nodes
    BY <1>1, <1>5, TablesAlone DEF commit_node
<1>6. CASE p.id \notin nodes
  <2>1. nodes' = nodes \cup {p.id} /\ edges' = edges \cup (L \X {p.id})
      BY <1>1, <1>6 DEF commit_node
  <2>2. \A e \in edges' : e \in edges \/ (e[1] \in L /\ e[2] = p.id)
      BY <2>1
  <2>3. ResolvedPart'
      BY <1>1, <1>2, <2>1, <2>2 DEF ClosedInv, TablePart, ResolvedPart
  <2>4. ContainmentClosed'
      BY <1>1, <1>3, <1>4, <2>2 DEF ClosedInv, TablePart, ContainmentClosed, Closed
  <2>5. ContainmentLogged'
      BY <1>1, <1>3, <2>2 DEF ClosedInv, TablePart, ContainmentLogged
  <2> QED
      BY <2>3, <2>4, <2>5 DEF TablePart
<1> QED
    BY <1>5, <1>6

\* A designation adds a set that is closed under children, at once or row by
\* row.
LEMMA DesignationClosed ==
  ASSUME ClosedInv, [Next]_vars, NEW t \in Task, DesignateApply(t) \/ DetectorRow(t)
  PROVE  TablePart'
<1>1. /\ at[t] \in {"designate", "sweep"} /\ UNCHANGED <<nodes, edges, torn>>
      /\ ledger \subseteq ledger' /\ ledger' \subseteq ledger \cup seen[t].cp
      /\ events \subseteq events'
    BY DEF DesignateApply, DetectorRow, apply_quarantine_transaction
<1>2. arg[t].id \in Node /\ edges \subseteq Node \X Node
    BY <1>1, PayloadFields DEF ClosedInv, BaseInv, ArgPart, TypeOK, Engaged
<1>3. Closed(edges, seen[t].cp)
    BY <1>1, <1>2, DescendantsClosed DEF ClosedInv, BaseInv, SweepPart
<1>4. ResolvedPart'
    BY <1>1 DEF ClosedInv, TablePart, ResolvedPart
<1>5. CASE DesignateApply(t)
  <2>1. ledger' = ledger \cup seen[t].cp
      BY <1>5 DEF DesignateApply, apply_quarantine_transaction
  <2>2. UnderSweep' = UnderSweep
    <3>1. \A u \in Task : at[u] # "sweep" /\ ~DetectorLog(u)
        BY <1>5, Alone DEF DesignateApply, DetectorLog, ClosedInv, Engaged
    <3>2. UnderSweep = {}
        BY <3>1, OneSweep DEF ClosedInv
    <3> QED
        BY <3>1, <3>2, SweepSteps DEF ClosedInv
  <2> QED
      BY <1>1, <1>3, <1>4, <2>1, <2>2
         DEF ClosedInv, TablePart, ContainmentClosed, ContainmentLogged, Closed
<1>6. CASE DetectorRow(t)
  <2>1. at[t] = "sweep" /\ UNCHANGED tasks
      BY <1>6 DEF DetectorRow
  <2>2. UnderSweep = seen[t].cp /\ UnderSweep' = UnderSweep
    <3>1. UnderSweep = seen[t].cp
        BY <2>1, OneSweep DEF ClosedInv
    <3>2. UnderSweep' = UnderSweep
        BY <2>1 DEF UnderSweep, tasks
    <3> QED
        BY <3>1, <3>2
  <2>3. ledger' \cup UnderSweep' = ledger \cup UnderSweep
      BY <1>1, <2>2
  <2>4. ContainmentClosed'
      BY <1>1, <2>3 DEF ClosedInv, TablePart, ContainmentClosed
  <2>5. Sentence(t, "detector") \in events' /\ Sentence(t, "detector").cp = seen[t].cp
      BY <1>1, <2>1 DEF ClosedInv, BaseInv, SentencePart, Sentence
  <2>6. seen[t].cp \subseteq UNION {v.cp : v \in events'}
      BY <2>5
  <2>7. ContainmentLogged'
      BY <1>1, <1>3, <2>6 DEF ClosedInv, TablePart, ContainmentLogged, Closed
  <2> QED
      BY <1>4, <2>4, <2>7 DEF TablePart
<1> QED
    BY <1>5, <1>6

\* Every step of the disciplined setting preserves ClosedInv.
LEMMA ClosedStep ==
  ASSUME Disciplined, ClosedInv, [Next]_vars
  PROVE  ClosedInv'
<1>1. BaseInv' /\ QuietPart' /\ ClientPart'
    BY BaseStep, QuietStep, ClientStep DEF ClosedInv
<1>2. ASSUME NEW t \in Task PROVE ~SubmitShadow(t) /\ ~CompactCommit(t) /\ ~Link(t)
                                  /\ ~ContinuityEmit(t)
    BY DEF SubmitShadow, CompactCommit, Link, ContinuityEmit, Disciplined, ClosedInv,
           QuietPart
<1>3. ASSUME NEW t \in Task, DetectorLog(t) PROVE TablePart'
    BY <1>3, TablesAlone DEF DetectorLog
<1>4. ASSUME NEW t \in Task, SeedCommit(t) PROVE TablePart'
  <2>1. arg[t].id \in Node /\ at[t] = "seed"
      BY <1>4, PayloadFields DEF SeedCommit, ClosedInv, BaseInv, ArgPart
  <2>2. nodes \subseteq nodes' /\ edges' = edges /\ UNCHANGED <<ledger, events, torn>>
      BY <1>4, <2>1, CommitFacts DEF SeedCommit, ClosedInv, BaseInv
  <2>3. UnderSweep' = UnderSweep
    <3>1. /\ at'[t] # "sweep"
          /\ \A u \in Task : u # t => at'[u] = at[u] /\ seen'[u] = seen[u]
        BY <1>4, FinishType DEF SeedCommit, ClosedInv, BaseInv
    <3>2. {u \in Task : at'[u] = "sweep"} = {u \in Task : at[u] = "sweep"}
        BY <2>1, <3>1
    <3>3. \A u \in {v \in Task : at[v] = "sweep"} : seen'[u] = seen[u]
        BY <2>1, <3>1
    <3> QED
        BY <3>2, <3>3 DEF UnderSweep
  <2>4. ResolvedPart'
      BY <2>2 DEF ClosedInv, TablePart, ResolvedPart
  <2>5. ContainmentClosed'
      BY <2>2, <2>3 DEF ClosedInv, TablePart, ContainmentClosed
  <2>6. ContainmentLogged'
      BY <2>2 DEF ClosedInv, TablePart, ContainmentLogged
  <2> QED
      BY <2>4, <2>5, <2>6 DEF TablePart
<1>5. TablePart'
  <2>1. CASE UNCHANGED <<nodes, edges, ledger>>
      BY <2>1, TablesAlone
  <2>2. ASSUME NEW t \in Task, SubmitTainted(t) \/ SubmitAdmit(t) PROVE TablePart'
      BY <2>2, TaintedClosed, AdmitClosed
  <2>3. ASSUME NEW t \in Task, DesignateApply(t) \/ DetectorRow(t) PROVE TablePart'
      BY <2>3, DesignationClosed
  <2> QED
      BY <1>2, <1>3, <1>4, <2>1, <2>2, <2>3, Writers
<1> QED
    BY <1>1, <1>5 DEF ClosedInv

\* The inductive invariant behind the three containment theorems.
THEOREM ClosedInvariant ==
  ASSUME Disciplined
  PROVE  Spec => []ClosedInv
<1>1. Init => ClosedInv
    BY BaseInit DEF Init, ClosedInv, QuietPart, ClientPart, TablePart, ResolvedPart,
                    ContainmentClosed, ContainmentLogged, Closed
<1>2. ClosedInv /\ [Next]_vars => ClosedInv'
    BY ClosedStep
<1> QED
    BY <1>1, <1>2, PTL DEF Spec

\* P1: no committed node below a quarantined one is left unquarantined, with
\* any number of concurrent submissions, designations, detector alerts and
\* seeds, until a crash or an exception cuts a sweep of /detector short.
THEOREM ContainmentHolds ==
  ASSUME Disciplined
  PROVE  Spec => []ContainmentClosed
<1>1. ClosedInv => ContainmentClosed
    BY DEF ClosedInv, TablePart
<1> QED
    BY <1>1, ClosedInvariant, PTL

\* And whatever is cut short, what the ledger lacks below a quarantined node is
\* named by an event that is on record.
THEOREM ContainmentOnRecord ==
  ASSUME Disciplined
  PROVE  Spec => []ContainmentLogged
<1>1. ClosedInv => ContainmentLogged
    BY DEF ClosedInv, TablePart
<1> QED
    BY <1>1, ClosedInvariant, PTL

\* The digest an event carries is that of the ledger its transition leaves: the
\* blast radius a refused write digests is in the ledger already, and nothing
\* enters the ledger beside a sweep.
THEOREM DigestsFaithful ==
  ASSUME Disciplined
  PROVE  Spec => DigestFaithful
<1> DEFINE Right == /\ \A e \in events' \ events :
                         \/ e.by = "detector"
                         \/ e.by = "tainted_parent" /\ torn
                         \/ e.digest = ledger'
                    /\ \A t \in Task : SweepEnds(t) =>
                         \E e \in events :
                           /\ e.by = "detector" /\ e.root = arg[t].id
                           /\ e.cp = seen[t].cp /\ e.digest = ledger'
<1>1. ASSUME ClosedInv, ClosedInv', [Next]_vars PROVE Right
  <2>1. ASSUME NEW e \in events' \ events
        PROVE  \/ e.by = "detector"
               \/ e.by = "tainted_parent" /\ torn
               \/ e.digest = ledger'
    <3>1. PICK t \in Task :
             \/ SubmitTainted(t) /\ e.by = "tainted_parent"
             \/ e = Sentence(t, "designation") /\ ledger' = ledger \cup seen[t].cp
             \/ e = Sentence(t, "detector")
        BY <1>1, <2>1, NewEvents
    <3>2. ASSUME SubmitTainted(t), ~torn PROVE e.digest = ledger'
      <4>1. PICK root \in TaintedParents(t) :
              /\ e.digest = ledger \cup (compute_blast_radius(edges', root) \cup {arg[t].id})
              /\ ledger' = ledger \cup {arg[t].id}
          BY <2>1, <3>2 DEF SubmitTainted, apply_quarantine_transaction,
                            compute_quarantine_digest
      <4>2. at[t] = "decide" /\ torn' = torn
          BY <3>2 DEF SubmitTainted
      <4>3. root \in ledger /\ root \in Node
          BY <1>1, <4>2, PayloadFields
             DEF TaintedParents, ClosedInv, BaseInv, ReadPart, ArgPart, Engaged
      <4>4. UnderSweep' = {}
          BY <1>1, <4>2, DecideNoSweep
      <4>5. Closed(edges', ledger') /\ ledger' \in SUBSET Node
          BY <1>1, <3>2, <4>2, <4>4
             DEF ClosedInv, TablePart, BaseInv, TypeOK, ContainmentClosed
      <4>6. compute_blast_radius(edges', root) \subseteq ledger'
          BY <4>1, <4>3, <4>5, DescendantsLeast DEF compute_blast_radius
      <4> QED
          BY <4>1, <4>6
    <3> QED
        BY <3>1, <3>2 DEF Sentence, compute_quarantine_digest
  <2>2. ASSUME NEW t \in Task, SweepEnds(t)
        PROVE  \E e \in events : /\ e.by = "detector" /\ e.root = arg[t].id
                                 /\ e.cp = seen[t].cp /\ e.digest = ledger'
    <3>1. at[t] = "sweep" /\ seen[t].cp \subseteq ledger /\ ledger' = ledger
        BY <1>1, <2>2, SweepLeaves DEF SweepEnds, ClosedInv
    <3>2. Sentence(t, "detector") \in events
        BY <1>1, <3>1 DEF ClosedInv, BaseInv, SentencePart
    <3>3. /\ Sentence(t, "detector").by = "detector"
          /\ Sentence(t, "detector").root = arg[t].id
          /\ Sentence(t, "detector").cp = seen[t].cp
          /\ Sentence(t, "detector").digest = ledger'
        BY <3>1 DEF Sentence, compute_quarantine_digest
    <3> QED
        BY <3>2, <3>3
  <2> QED
      BY <2>1, <2>2
<1>2. ClosedInv /\ [Next]_vars => [Right]_vars
    BY <1>1, ClosedStep
<1> QED
    BY <1>2, ClosedInvariant, PTL DEF Spec, DigestFaithful
=============================================================================
