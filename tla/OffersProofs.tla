---------------------------- MODULE OffersProofs ----------------------------
(***************************************************************************)
(* What is on record about refused writes can be trusted, whatever sweeps, *)
(* exposures and declarations interleave with offers and retries: for      *)
(* every DAG, any clients and any number of concurrent requests.           *)
(***************************************************************************)
EXTENDS Offers, TLAPS

\* A refused write stays in the ledger, so its id cannot be refused again.
RowsQuarantined == \A r \in rejection : r.node \in ledger

\* No lineage is on record for an id that is not committed.
ChildrenCommitted == \A e \in edge : e[2] \in node

\* What a request carries from one step to the next, with the ledger Q.
Carried(place, l, Q) ==
  /\ place \in {"serve", "record"} =>
       \A d \in DOMAIN l.plan : \A o \in l.plan[d] : o.for \in Q /\ o.on \subseteq Node
  /\ place = "record" => l.made \in Node
  /\ place = "expose" => l.node \in Node
  /\ place = "declare" =>
       l.target \in Node /\ l.source \in Node /\ l.time \in 0..MaxSweeps

\* A replacement planned for a quarantined node is still for a quarantined
\* node when it is committed.
CarriedPart ==
  /\ loc = [t \in Task |-> loc[t]]
  /\ \A t \in Task : Carried(at[t], loc[t], ledger)

\* The inductive invariant.
OffersInv ==
  /\ TypeOK
  /\ RowsQuarantined /\ ChildrenCommitted /\ CarriedPart
  /\ OneRow /\ OfferedCommitted /\ CompletionBacked
  /\ ReplacesQuarantined

-----------------------------------------------------------------------------
\* evaluate_admission admits only what allow_state_write allows, on either
\* path and however the queries fare.
LEMMA AdmitAllowed ==
  ASSUME NEW i \in Input, NEW e \in Engine, evaluate_admission(i, e) = "ADMIT"
  PROVE  i.resolved /\ i.clean
<1>1. CASE e.first = "abort"
    BY <1>1 DEF evaluate_admission
<1>2. CASE e.first # "abort" /\ (e.first = "error" \/ ~e.combined)
  <2>1. evaluate_sequentially(i, e) = "ADMIT"
      BY <1>2 DEF evaluate_admission
  <2>2. allow_state_write(i)
      BY <2>1 DEF evaluate_sequentially, Refusal
  <2> QED
      BY <2>2 DEF allow_state_write
<1>3. CASE e.first # "abort" /\ ~(e.first = "error" \/ ~e.combined)
  <2>1. allow_state_write(i)
      BY <1>3 DEF evaluate_admission, Refusal
  <2> QED
      BY <2>1 DEF allow_state_write
<1> QED
    BY <1>1, <1>2, <1>3

\* The verdict as submit_candidate meets it.
LEMMA AdmitVerdict ==
  ASSUME NEW a \in BOOLEAN, NEW c \in BOOLEAN, <<a, c, "ADMIT">> \in Verdicts
  PROVE  a /\ c
<1>1. PICK i \in Input, e \in Engine :
        <<a, c, "ADMIT">> = <<i.resolved, i.clean, evaluate_admission(i, e)>>
    BY DEF Verdicts
<1>2. a = i.resolved /\ c = i.clean /\ evaluate_admission(i, e) = "ADMIT"
    BY <1>1
<1> QED
    BY <1>2, AdmitAllowed

\* A replacement that is found is a committed node.
LEMMA FoundCommitted ==
  ASSUME NEW root, NEW N, NEW E, NEW T, NEW Q,
         NEW h \in find_continuity_replacement(root, N, E, T, Q)
  PROVE  h.by \in N
<1>1. PICK c : h \in [for : {c}, by : Match(c, N, T, Q)]
    BY DEF find_continuity_replacement
<1>2. Match(c, N, T, Q) \subseteq N
    BY DEF Match
<1> QED
    BY <1>1, <1>2

\* The rows R are those of the table and a new one of n, offered one of N if
\* anything.
AddsRow(R, n, N) ==
  \E row \in Rejection :
    /\ R = rejection \cup {row}
    /\ row.node = n /\ row.completedBy = NoNode
    /\ row.offered \in N \cup {NoNode}

\* A refusal of an id without a row adds one row and leaves the others alone.
LEMMA RejectedRow ==
  ASSUME NEW n \in Node, NEW root \in Node, NEW found, NEW N \in SUBSET Node,
         \A h \in found : h.by \in N,
         \A r \in rejection : r.node # n,
         NEW R \in Rejected(n, root, found)
  PROVE  AddsRow(R, n, N)
<1> USE DEF AddsRow
<1> DEFINE row == [node |-> n, parent |-> root, offered |-> NoNode,
                   type |-> "none", completedBy |-> NoNode]
<1>1. row \in Rejection
    BY DEF Rejection, Maybe
<1>2. CASE found = {}
  <2>1. R = rejection \cup {row}
      BY <1>2 DEF Rejected
  <2> QED
      BY <1>1, <2>1
<1>3. CASE found # {}
  <2> DEFINE Offer(h) == {IF r.node = n /\ r.offered = NoNode
                   THEN [r EXCEPT !.offered = h.by,
                                  !.type = IF h.for = root THEN "direct" ELSE "ancestor"]
                   ELSE r : r \in rejection \cup {row}}
  <2>1. PICK h \in found : R = Offer(h)
      BY <1>3 DEF Rejected
  <2> DEFINE new == [row EXCEPT !.offered = h.by,
                                !.type = IF h.for = root THEN "direct" ELSE "ancestor"]
  <2>2. h.by \in N /\ h.by \in Node
      BY <2>1
  <2>3. new \in Rejection /\ new.node = n /\ new.completedBy = NoNode /\ new.offered = h.by
      BY <2>2 DEF Rejection, Maybe
  <2>4. Offer(h) = rejection \cup {new}
    <3>1. row.node = n /\ row.offered = NoNode
        OBVIOUS
    <3> HIDE DEF row, new
    <3>2. \A r \in rejection : ~(r.node = n /\ r.offered = NoNode)
        OBVIOUS
    <3> QED
        BY <3>1, <3>2 DEF new
  <2> QED
      BY <2>1, <2>2, <2>3, <2>4
<1> QED
    BY <1>2, <1>3

\* A retry changes rows only by completing pending ones that were offered one
\* of its parents.
LEMMA CompletedRows ==
  ASSUME OneRow, rejection \subseteq Rejection,
         NEW n, NEW P, NEW disowned,
         NEW R, R = check_retry_completion(n, P, disowned)
  PROVE  /\ \A s \in R : \E r \in rejection :
              /\ s.node = r.node
              /\ \/ s = r
                 \/ /\ s = [r EXCEPT !.completedBy = n]
                    /\ r.completedBy = NoNode /\ r.offered \in P
         /\ \A r \in rejection :
              \/ r \in R
              \/ r.completedBy = NoNode /\ [r EXCEPT !.completedBy = n] \in R
         /\ \A s, u \in R : s.node = u.node => s = u
<1> DEFINE done == {r.node : r \in {x \in rejection :
                 /\ x.completedBy = NoNode
                 /\ x.offered \in P
                 /\ x.node # disowned}}
           New(r) == IF r.node \in done /\ r.completedBy = NoNode
                     THEN [r EXCEPT !.completedBy = n] ELSE r
<1>1. R = {New(r) : r \in rejection}
    BY DEF check_retry_completion
<1>2. \A r \in rejection : r.node \in done => r.offered \in P
    BY DEF OneRow
<1>3. \A r \in rejection : New(r).node = r.node
    BY DEF Rejection
<1>4. \A r \in rejection :
        \/ New(r) = r
        \/ New(r) = [r EXCEPT !.completedBy = n] /\ r.completedBy = NoNode /\ r.offered \in P
    BY <1>2
<1> HIDE DEF New
<1>5. \A s, u \in R : s.node = u.node => s = u
    BY <1>1, <1>3 DEF OneRow
<1> QED
    BY <1>1, <1>3, <1>4, <1>5

-----------------------------------------------------------------------------
\* The tables at the start satisfy the invariant.
LEMMA OffersInitially == Init => OffersInv
<1> SUFFICES ASSUME Init PROVE OffersInv
    OBVIOUS
<1> USE OffersAssumption DEF Init
<1>1. TypeOK
    BY DEF TypeOK, Maybe, Substitute, Checkpoint, Rejection, Place
<1>2. CarriedPart
    BY DEF CarriedPart, Carried
<1>3. ChildrenCommitted
    BY DEF ChildrenCommitted
<1>4. ReplacesQuarantined
    BY DEF ReplacesQuarantined
<1> QED
    BY <1>1, <1>2, <1>3, <1>4 DEF OffersInv, RowsQuarantined, OneRow,
       OfferedCommitted, CompletionBacked

\* What a request carries stays good while the ledger grows.
LEMMA StillCarried ==
  ASSUME CarriedPart, ledger \subseteq ledger', UNCHANGED <<at, loc>>
  PROVE  CarriedPart'
    BY DEF CarriedPart, Carried

\* A request that moves on brings along what its next step needs.
LEMMA NowCarried ==
  ASSUME TypeOK, CarriedPart, ledger \subseteq ledger',
         NEW t \in Task, NEW place \in Place, NEW local, Move(t, place, local),
         Carried(place, local, ledger')
  PROVE  CarriedPart' /\ at' \in [Task -> Place]
<1>1. at' \in [Task -> Place]
    BY DEF TypeOK, Move
<1>2. loc' = [u \in Task |-> loc'[u]]
    BY DEF CarriedPart, Move
<1>3. ASSUME NEW u \in Task PROVE Carried(at'[u], loc'[u], ledger')
  <2>1. CASE u = t
    <3>1. at'[u] = place /\ loc'[u] = local
        BY <2>1 DEF TypeOK, CarriedPart, Move
    <3> QED
        BY <3>1
  <2>2. CASE u # t
    <3>1. at'[u] = at[u] /\ loc'[u] = loc[u]
        BY <2>2 DEF TypeOK, CarriedPart, Move
    <3>2. Carried(at[u], loc[u], ledger)
        BY DEF CarriedPart
    <3>3. Carried(at[u], loc[u], ledger')
        BY <3>2 DEF Carried
    <3> QED
        BY <3>1, <3>3
  <2> QED
      BY <2>1, <2>2
<1> QED
    BY <1>1, <1>2, <1>3 DEF CarriedPart

\* Rows that are left alone stay backed while the tables grow.
LEMMA RowsKept ==
  ASSUME OffersInv, UNCHANGED rejection,
         node \subseteq node', edge \subseteq edge', ledger \subseteq ledger'
  PROVE  (RowsQuarantined /\ OneRow /\ OfferedCommitted /\ CompletionBacked)'
<1>1. RowsQuarantined' /\ OneRow'
    BY DEF OffersInv, RowsQuarantined, OneRow
<1>2. OfferedCommitted'
    BY DEF OffersInv, OfferedCommitted
<1>3. CompletionBacked'
    BY DEF OffersInv, CompletionBacked, Parents
<1> QED
    BY <1>1, <1>2, <1>3

\* A commit keeps the tables well formed and only adds to them.
LEMMA CommitKeeps ==
  ASSUME OffersInv, NEW n \in Node, NEW P \in SUBSET Node, NEW orig \in Maybe,
         commit_node(n, P, orig)
  PROVE  /\ node \subseteq node' /\ edge \subseteq edge'
         /\ node' \subseteq Node /\ edge' \subseteq Node \X Node
         /\ target' \in [Node -> Maybe]
         /\ n \in node'
         /\ ChildrenCommitted'
         /\ n \notin node => node' = node \cup {n} /\ Parents(edge', n) = P
         /\ \A m \in Node : m # n \/ m \in node => target'[m] = target[m]
         /\ n \notin node => target'[n] = orig
         /\ node' \subseteq node \cup {n}
<1> USE DEF OffersInv, TypeOK, ChildrenCommitted
<1>1. CASE n \in node
    BY <1>1 DEF commit_node
<1>2. CASE n \notin node
  <2>1. node' = node \cup {n} /\ edge' = edge \cup (P \X {n})
        /\ target' = [target EXCEPT ![n] = orig]
      BY <1>2 DEF commit_node
  <2>2. Parents(edge', n) = P
    <3>1. \A e \in edge : e[2] # n
        BY <1>2
    <3>2. \A e \in edge' : e[2] = n => e[1] \in P
        BY <2>1, <3>1
    <3>3. \A p \in P : <<p, n>> \in edge'
        BY <2>1
    <3>4. Parents(edge', n) \subseteq P
        BY <3>2 DEF Parents
    <3>5. ASSUME NEW p \in P PROVE p \in Parents(edge', n)
      <4>1. <<p, n>>[2] = n /\ <<p, n>>[1] = p
          OBVIOUS
      <4> QED
          BY <3>3, <4>1 DEF Parents
    <3> QED
        BY <3>4, <3>5
  <2>3. ChildrenCommitted'
      BY <2>1
  <2>4. edge' \subseteq Node \X Node
      BY <2>1
  <2>5. /\ target' \in [Node -> Maybe]
        /\ target'[n] = orig
        /\ \A m \in Node : m # n \/ m \in node => target'[m] = target[m]
      BY <1>2, <2>1
  <2> QED
      BY <1>2, <2>1, <2>2, <2>3, <2>4, <2>5
<1> QED
    BY <1>1, <1>2

-----------------------------------------------------------------------------
\* Clients' commits leave the replacements on record as they are.
LEMMA ClientCommit ==
  ASSUME OffersInv, NEW n \in ClientNode \cup FreshNode, NEW P \in Lineages,
         Submittable(n, P), \E orig \in ClientTarget : commit_node(n, P, orig),
         ledger \subseteq ledger'
  PROVE  /\ n \in Node /\ P \subseteq Node
         /\ node \subseteq node' /\ edge \subseteq edge'
         /\ node' \subseteq Node /\ edge' \subseteq Node \X Node
         /\ target' \in [Node -> Maybe]
         /\ n \in node'
         /\ ChildrenCommitted'
         /\ n \notin node => node' = node \cup {n} /\ Parents(edge', n) = P
         /\ node' \subseteq node \cup {n}
         /\ ReplacesQuarantined'
<1> USE OffersAssumption
<1>1. n \in Node /\ P \in SUBSET Node
    BY DEF Lineages
<1>2. PICK orig \in ClientTarget : commit_node(n, P, orig)
    OBVIOUS
<1>3. orig \in Maybe
    BY DEF Maybe
<1>4. /\ node \subseteq node' /\ edge \subseteq edge'
      /\ node' \subseteq Node /\ edge' \subseteq Node \X Node
      /\ target' \in [Node -> Maybe]
      /\ n \in node'
      /\ ChildrenCommitted'
      /\ n \notin node => node' = node \cup {n} /\ Parents(edge', n) = P
      /\ \A m \in Node : m # n \/ m \in node => target'[m] = target[m]
      /\ node' \subseteq node \cup {n}
    BY <1>1, <1>2, <1>3, CommitKeeps
<1>5. n \in node \/ n \notin FreshNode
    BY DEF Submittable
<1>6. ReplacesQuarantined'
    BY <1>4, <1>5 DEF OffersInv, ReplacesQuarantined
<1> QED
    BY <1>1, <1>4, <1>6

\* A refused write.
LEMMA SubmitTaintedKeeps ==
  ASSUME OffersInv, NEW n \in ClientNode \cup FreshNode, NEW P \in Lineages,
         SubmitTainted(n, P)
  PROVE  /\ OffersInv'
         /\ \E row \in Rejection : /\ rejection' = rejection \cup {row}
                                   /\ row.completedBy = NoNode
<1>1. ledger' = ledger \cup {n} /\ n \notin ledger /\ Submittable(n, P)
      /\ UNCHANGED <<exposed, substitute, checkpoint, now, prepared, at, loc>>
    BY DEF SubmitTainted
<1>2. /\ n \in Node /\ P \subseteq Node
      /\ node \subseteq node' /\ edge \subseteq edge'
      /\ node' \subseteq Node /\ edge' \subseteq Node \X Node
      /\ target' \in [Node -> Maybe]
      /\ ChildrenCommitted'
      /\ ReplacesQuarantined'
    BY <1>1, ClientCommit DEF SubmitTainted
<1>3. PICK root \in P \cap ledger :
        rejection' \in Rejected(n, root,
          find_continuity_replacement(root, node', edge', target', ledger'))
    BY DEF SubmitTainted
<1>4. \A h \in find_continuity_replacement(root, node', edge', target', ledger') :
        h.by \in node'
    BY FoundCommitted
<1>5. \A r \in rejection : r.node # n
    BY <1>1 DEF OffersInv, RowsQuarantined
<1>6. PICK row \in Rejection :
        /\ rejection' = rejection \cup {row}
        /\ row.node = n /\ row.completedBy = NoNode
        /\ row.offered \in node' \cup {NoNode}
  <2>1. n \in Node /\ root \in Node /\ node' \in SUBSET Node
      BY <1>2, <1>3
  <2> DEFINE found == find_continuity_replacement(root, node', edge', target', ledger')
  <2>2. rejection' \in Rejected(n, root, found) /\ \A h \in found : h.by \in node'
      BY <1>3, <1>4
  <2> HIDE DEF found
  <2>3. PICK N \in SUBSET Node : N = node'
      BY <2>1
  <2>4. PICK F : F = found
      OBVIOUS
  <2>5. PICK R \in Rejected(n, root, F) : R = rejection'
      BY <2>2, <2>4
  <2>6. \A h \in F : h.by \in N
      BY <2>2, <2>3, <2>4
  <2>7. AddsRow(R, n, N)
      BY <1>5, <2>1, <2>5, <2>6, RejectedRow
  <2> QED
      BY <2>3, <2>5, <2>7 DEF AddsRow
<1>7. TypeOK'
    BY <1>1, <1>2, <1>6 DEF OffersInv, TypeOK
<1>8. CarriedPart'
    BY <1>1, StillCarried DEF OffersInv
<1>9. RowsQuarantined' /\ OneRow'
    BY <1>1, <1>5, <1>6 DEF OffersInv, RowsQuarantined, OneRow
<1>10. OfferedCommitted'
    BY <1>2, <1>6 DEF OffersInv, OfferedCommitted
<1>11. CompletionBacked'
    BY <1>2, <1>6 DEF OffersInv, CompletionBacked, Parents
<1> QED
    BY <1>2, <1>6, <1>7, <1>8, <1>9, <1>10, <1>11 DEF OffersInv

\* An admitted write rests on committed, clean parents, and completes what was
\* offered one of them.
LEMMA SubmitAdmitKeeps ==
  ASSUME OffersInv, NEW n \in ClientNode \cup FreshNode, NEW P \in Lineages,
         SubmitAdmit(n, P)
  PROVE  /\ OffersInv'
         /\ n \notin node \cup ledger' /\ node' = node \cup {n}
         /\ Parents(edge', n) = P
         /\ P \subseteq node \ ledger
         /\ \A s \in rejection' : \/ s \in rejection
                                  \/ s.completedBy = n /\ s.offered \in P
         /\ \A r \in rejection :
              \/ r \in rejection'
              \/ r.completedBy = NoNode /\ [r EXCEPT !.completedBy = n] \in rejection'
<1>1. n \notin ledger /\ n \notin node /\ Submittable(n, P)
      /\ UNCHANGED <<ledger, exposed, substitute, checkpoint, now, prepared, at, loc>>
    BY DEF SubmitAdmit
<1>2. /\ n \in Node /\ P \subseteq Node
      /\ node \subseteq node' /\ edge \subseteq edge'
      /\ node' \subseteq Node /\ edge' \subseteq Node \X Node
      /\ target' \in [Node -> Maybe]
      /\ ChildrenCommitted'
      /\ node' = node \cup {n} /\ Parents(edge', n) = P
      /\ ReplacesQuarantined'
    BY <1>1, ClientCommit DEF SubmitAdmit
<1>3. P \subseteq node /\ P \cap ledger = {}
  <2>1. <<P \subseteq node, P \cap ledger = {}, "ADMIT">> \in Verdicts
      BY DEF SubmitAdmit
  <2>2. (P \subseteq node) \in BOOLEAN /\ (P \cap ledger = {}) \in BOOLEAN
      OBVIOUS
  <2> QED
      BY <2>1, <2>2, AdmitVerdict
<1>4. PICK disowned : rejection' = check_retry_completion(n, P, disowned)
    BY DEF SubmitAdmit
<1>5. /\ \A s \in rejection' : \E r \in rejection :
           /\ s.node = r.node
           /\ \/ s = r
              \/ /\ s = [r EXCEPT !.completedBy = n]
                 /\ r.completedBy = NoNode /\ r.offered \in P
      /\ \A r \in rejection :
           \/ r \in rejection'
           \/ r.completedBy = NoNode /\ [r EXCEPT !.completedBy = n] \in rejection'
      /\ \A s, u \in rejection' : s.node = u.node => s = u
  <2>1. OneRow /\ rejection \subseteq Rejection
      BY DEF OffersInv, TypeOK
  <2> QED
      BY <1>4, <2>1, CompletedRows
<1>6. \A r \in rejection :
        LET s == [r EXCEPT !.completedBy = n] IN
          s \in Rejection /\ s.completedBy = n /\ s.offered = r.offered /\ s.node = r.node
    BY <1>2 DEF OffersInv, TypeOK, Rejection, Maybe
<1>7. \A s \in rejection' : \E r \in rejection :
        /\ s \in Rejection /\ s.node = r.node /\ s.offered = r.offered
        /\ s = r \/ (s.completedBy = n /\ s.offered \in P)
  <2>1. TAKE s \in rejection'
  <2>2. PICK r \in rejection :
           \/ s = r
           \/ s = [r EXCEPT !.completedBy = n] /\ r.offered \in P
      BY <1>5
  <2>3. r \in Rejection
      BY DEF OffersInv, TypeOK
  <2>4. CASE s = r
      BY <2>3, <2>4
  <2>5. CASE s = [r EXCEPT !.completedBy = n] /\ r.offered \in P
      BY <1>6, <2>5
  <2> QED
      BY <2>2, <2>4, <2>5
<1>8. TypeOK'
    BY <1>1, <1>2, <1>7 DEF OffersInv, TypeOK
<1>9. CarriedPart'
    BY <1>1, StillCarried DEF OffersInv
<1>10. RowsQuarantined' /\ OneRow'
    BY <1>1, <1>5, <1>7 DEF OffersInv, RowsQuarantined, OneRow
<1>11. OfferedCommitted'
    BY <1>2, <1>7 DEF OffersInv, OfferedCommitted
<1>12. CompletionBacked'
  <2> SUFFICES ASSUME NEW s \in rejection', s.completedBy # NoNode
               PROVE  /\ s.offered # NoNode
                      /\ s.completedBy \in node'
                      /\ s.offered \in Parents(edge', s.completedBy)
      BY DEF CompletionBacked
  <2>1. CASE s \in rejection
      BY <1>2, <2>1 DEF OffersInv, CompletionBacked, Parents
  <2>2. CASE s.completedBy = n /\ s.offered \in P
      BY <1>2, <2>2, OffersAssumption
  <2> QED
      BY <1>7, <2>1, <2>2
<1>13. OffersInv'
    BY <1>2, <1>8, <1>9, <1>10, <1>11, <1>12 DEF OffersInv
<1> QED
    BY <1>1, <1>2, <1>3, <1>5, <1>7, <1>13

-----------------------------------------------------------------------------
\* A step that commits and records nothing keeps what is said of the tables.
LEMMA TablesKept ==
  ASSUME OffersInv, UNCHANGED <<node, edge, target, rejection>>,
         ledger \subseteq ledger', TypeOK', CarriedPart'
  PROVE  OffersInv'
<1>1. (RowsQuarantined /\ OneRow /\ OfferedCommitted /\ CompletionBacked)'
    BY RowsKept
<1>2. ChildrenCommitted' /\ ReplacesQuarantined'
    BY DEF OffersInv, ChildrenCommitted, ReplacesQuarantined
<1> QED
    BY <1>1, <1>2 DEF OffersInv

\* A sweep adds committed ids to the ledger.
LEMMA ContainKeeps ==
  ASSUME OffersInv, NEW root, NEW rows \in SUBSET compute_blast_radius(root),
         Contain(root, rows), UNCHANGED prepared
  PROVE  /\ ledger \subseteq ledger'
         /\ at' \in [Task -> Place] => TypeOK'
         /\ UNCHANGED <<node, edge, target, rejection>>
<1>1. compute_blast_radius(root) \subseteq node
    BY DEF compute_blast_radius, Descendants
<1>2. now' \in 0..MaxSweeps
    BY OffersAssumption DEF Contain, OffersInv, TypeOK
<1> QED
    BY <1>1, <1>2 DEF Contain, OffersInv, TypeOK

\* What a dependent may be served replaces a quarantined node.
LEMMA OptionsQuarantined ==
  ASSUME OffersInv, NEW d, NEW contained, NEW o \in Options(d, contained)
  PROVE  o.for \in ledger /\ o.on \subseteq Node
<1> USE OffersAssumption DEF OffersInv, TypeOK
<1>1. Parents(edge, d) \subseteq Node
    BY DEF Parents
<1>2. Relevant(d) \subseteq ledger
    BY DEF Relevant
<1>3. CASE o \in Replays(d, contained)
    BY <1>1, <1>2, <1>3 DEF Replays
<1>4. CASE o \in Substitutions(d, contained)
  <2>1. PICK c \in Relevant(d) : /\ substitute[c].source \in node
                                 /\ o = [for |-> c, on |-> {substitute[c].source}]
      BY <1>4 DEF Substitutions
  <2> QED
      BY <1>2, <2>1
<1> QED
    BY <1>3, <1>4 DEF Options

\* A request of continuity.
LEMMA ContinuityKeeps ==
  ASSUME OffersInv, NEW t \in Task, Continuity(t)
  PROVE  OffersInv' /\ (rejection' = rejection)
<1> USE DEF Place
<1>0. TypeOK /\ CarriedPart /\ Carried(at[t], loc[t], ledger)
    BY DEF OffersInv, CarriedPart
<1>1. ASSUME NEW root \in Node, Detect(t, root) PROVE OffersInv' /\ (rejection' = rejection)
  <2>1. Contain(root, compute_blast_radius(root)) /\ UNCHANGED prepared
        /\ Move(t, "read", [swept |-> compute_blast_radius(root), time |-> now'])
      BY <1>1 DEF Detect
  <2>2. ledger \subseteq ledger' /\ UNCHANGED <<node, edge, target, rejection>>
      BY <2>1, ContainKeeps
  <2>3. CarriedPart' /\ at' \in [Task -> Place]
    <3> DEFINE local == [swept |-> compute_blast_radius(root), time |-> now']
    <3>1. Carried("read", local, ledger')
        BY DEF Carried
    <3>2. Move(t, "read", local)
        BY <2>1
    <3> HIDE DEF local
    <3> QED
        BY <1>0, <2>2, <3>1, <3>2, NowCarried
  <2> QED
      BY <2>1, <2>2, <2>3, ContainKeeps, TablesKept
<1>2. CASE Read(t)
  <2> DEFINE local == [plan |-> [d \in Dependents(loc[t].swept) |-> Options(d, loc[t].time)]]
  <2>1. Move(t, "serve", local) /\ UNCHANGED <<tables, prepared>>
      BY <1>2 DEF Read
  <2>2. Carried("serve", local, ledger')
      BY <2>1, OptionsQuarantined DEF Carried, tables
  <2> HIDE DEF local
  <2>3. CarriedPart' /\ at' \in [Task -> Place]
      BY <1>0, <2>1, <2>2, NowCarried DEF tables
  <2>4. TypeOK'
      BY <1>0, <2>1, <2>3 DEF TypeOK, tables
  <2> QED
      BY <2>1, <2>3, <2>4, TablesKept DEF tables
<1>3. CASE Serve(t)
  <2>1. PICK d \in DOMAIN loc[t].plan, f \in FreshNode \ node : \E o \in loc[t].plan[d] :
          /\ commit_node(f, o.on, o.for)
          /\ Move(t, "record", [plan |-> Without(loc[t].plan, d), made |-> f])
      BY <1>3 DEF Serve
  <2>2. PICK o \in loc[t].plan[d] :
          /\ commit_node(f, o.on, o.for)
          /\ Move(t, "record", [plan |-> Without(loc[t].plan, d), made |-> f])
      BY <2>1
  <2>3. at[t] = "serve"
        /\ UNCHANGED <<ledger, exposed, substitute, checkpoint, rejection, now, prepared>>
      BY <1>3 DEF Serve
  <2>4. o.for \in ledger /\ o.on \in SUBSET Node /\ o.for \in Maybe /\ f \in Node
      BY <1>0, <2>2, <2>3, OffersAssumption DEF Carried, TypeOK, Maybe
  <2>5. PICK P \in SUBSET Node, orig \in Maybe :
          P = o.on /\ orig = o.for /\ commit_node(f, P, orig)
      BY <2>2, <2>4
  <2>6. /\ node \subseteq node' /\ edge \subseteq edge'
        /\ node' \subseteq Node /\ edge' \subseteq Node \X Node
        /\ target' \in [Node -> Maybe]
        /\ ChildrenCommitted'
        /\ \A m \in Node : m # f \/ m \in node => target'[m] = target[m]
        /\ target'[f] = orig
        /\ node' \subseteq node \cup {f}
      BY <2>4, <2>5, CommitKeeps
  <2>7. ReplacesQuarantined'
      BY <2>3, <2>4, <2>5, <2>6, OffersAssumption DEF OffersInv, ReplacesQuarantined
  <2>8. CarriedPart' /\ at' \in [Task -> Place]
    <3> DEFINE local == [plan |-> Without(loc[t].plan, d), made |-> f]
    <3>1. Carried("record", local, ledger')
        BY <1>0, <2>3, <2>4 DEF Carried, Without
    <3>2. Move(t, "record", local)
        BY <2>2
    <3> HIDE DEF local
    <3> QED
        BY <1>0, <2>3, <3>1, <3>2, NowCarried
  <2>9. TypeOK'
      BY <1>0, <2>3, <2>6, <2>8 DEF TypeOK
  <2>10. (RowsQuarantined /\ OneRow /\ OfferedCommitted /\ CompletionBacked)'
      BY <2>3, <2>6, RowsKept
  <2> QED
      BY <2>3, <2>6, <2>7, <2>8, <2>9, <2>10 DEF OffersInv
<1>4. CASE Record(t)
  <2> DEFINE local == [plan |-> loc[t].plan]
  <2>1. /\ Move(t, "serve", local) /\ at[t] = "record"
        /\ exposed' = exposed \cup {loc[t].made}
        /\ UNCHANGED <<node, edge, ledger, target, substitute, checkpoint, rejection, now, prepared>>
      BY <1>4 DEF Record
  <2>2. Carried("serve", local, ledger') /\ loc[t].made \in Node
      BY <1>0, <2>1 DEF Carried
  <2> HIDE DEF local
  <2>3. CarriedPart' /\ at' \in [Task -> Place]
      BY <1>0, <2>1, <2>2, NowCarried
  <2>4. TypeOK'
      BY <1>0, <2>1, <2>2, <2>3 DEF TypeOK
  <2> QED
      BY <2>1, <2>3, <2>4, TablesKept
<1>5. CASE Escalate(t)
  <2>1. PICK d : Move(t, "serve", [plan |-> Without(loc[t].plan, d)])
      BY <1>5 DEF Escalate
  <2> DEFINE local == [plan |-> Without(loc[t].plan, d)]
  <2>2. Move(t, "serve", local) /\ at[t] = "serve" /\ UNCHANGED <<tables, prepared>>
      BY <1>5, <2>1 DEF Escalate
  <2>3. Carried("serve", local, ledger')
      BY <1>0, <2>2 DEF Carried, Without, tables
  <2> HIDE DEF local
  <2>4. CarriedPart' /\ at' \in [Task -> Place]
      BY <1>0, <2>2, <2>3, NowCarried DEF tables
  <2>5. TypeOK'
      BY <1>0, <2>2, <2>4 DEF TypeOK, tables
  <2> QED
      BY <2>2, <2>4, <2>5, TablesKept DEF tables
<1>6. CASE Return(t)
  <2>1. Move(t, "idle", Idle) /\ UNCHANGED <<tables, prepared>>
      BY <1>6 DEF Return
  <2>2. Carried("idle", Idle, ledger')
      BY DEF Carried
  <2>3. CarriedPart' /\ at' \in [Task -> Place]
      BY <1>0, <2>1, <2>2, NowCarried DEF tables
  <2>4. TypeOK'
      BY <1>0, <2>1, <2>3 DEF TypeOK, tables
  <2> QED
      BY <2>1, <2>3, <2>4, TablesKept DEF tables
<1> QED
    BY <1>1, <1>2, <1>3, <1>4, <1>5, <1>6 DEF Continuity

\* A request of an admin or a designator.
LEMMA AdminKeeps ==
  ASSUME OffersInv, NEW t \in Task, Admin(t)
  PROVE  OffersInv' /\ (rejection' = rejection)
<1> USE DEF Place
<1>0. TypeOK /\ CarriedPart /\ Carried(at[t], loc[t], ledger)
    BY DEF OffersInv, CarriedPart
<1>1. Carried("idle", Idle, ledger')
    BY DEF Carried
<1>2. ASSUME Prepare PROVE prepared' \in 0..MaxPrepared
    BY <1>0, <1>2, OffersAssumption DEF Prepare, TypeOK
<1>3. ASSUME NEW n \in Exposable, ExposeCheck(t, n)
      PROVE  OffersInv' /\ (rejection' = rejection)
  <2> DEFINE local == [node |-> n]
  <2>1. Move(t, "expose", local) /\ Prepare /\ UNCHANGED tables
      BY <1>3 DEF ExposeCheck
  <2>2. Carried("expose", local, ledger')
      BY OffersAssumption DEF Carried
  <2> HIDE DEF local
  <2>3. CarriedPart' /\ at' \in [Task -> Place]
      BY <1>0, <2>1, <2>2, NowCarried DEF tables
  <2>4. TypeOK'
      BY <1>0, <1>2, <2>1, <2>3 DEF TypeOK, tables
  <2> QED
      BY <2>1, <2>3, <2>4, TablesKept DEF tables
<1>4. CASE Expose(t)
  <2>1. /\ Move(t, "idle", Idle) /\ at[t] = "expose"
        /\ exposed' = exposed \cup {loc[t].node}
        /\ UNCHANGED <<node, edge, ledger, target, substitute, checkpoint, rejection, now, prepared>>
      BY <1>4 DEF Expose
  <2>2. loc[t].node \in Node
      BY <1>0, <2>1 DEF Carried
  <2>3. CarriedPart' /\ at' \in [Task -> Place]
      BY <1>0, <1>1, <2>1, NowCarried
  <2>4. TypeOK'
      BY <1>0, <2>1, <2>2, <2>3 DEF TypeOK
  <2> QED
      BY <2>1, <2>3, <2>4, TablesKept
<1>5. ASSUME NEW p \in Substitution, DeclareCheck(t, p[1], p[2])
      PROVE  OffersInv' /\ (rejection' = rejection)
  <2> DEFINE local == [target |-> p[1], source |-> p[2], time |-> now]
  <2>1. Move(t, "declare", local) /\ Prepare /\ UNCHANGED tables
      BY <1>5 DEF DeclareCheck
  <2>2. p[1] \in Node /\ p[2] \in Node
      BY OffersAssumption
  <2>3. Carried("declare", local, ledger')
      BY <1>0, <2>2 DEF Carried, TypeOK
  <2> HIDE DEF local
  <2>4. CarriedPart' /\ at' \in [Task -> Place]
      BY <1>0, <2>1, <2>3, NowCarried DEF tables
  <2>5. TypeOK'
      BY <1>0, <1>2, <2>1, <2>4 DEF TypeOK, tables
  <2> QED
      BY <2>1, <2>4, <2>5, TablesKept DEF tables
<1>6. CASE Declare(t)
  <2>1. /\ Move(t, "idle", Idle) /\ at[t] = "declare"
        /\ substitute' = [substitute EXCEPT ![loc[t].target] =
                            [source |-> loc[t].source, time |-> loc[t].time]]
        /\ UNCHANGED <<node, edge, ledger, target, exposed, checkpoint, rejection, now, prepared>>
      BY <1>6 DEF Declare
  <2>2. /\ loc[t].target \in Node
        /\ [source |-> loc[t].source, time |-> loc[t].time] \in Substitute
      BY <1>0, <2>1 DEF Carried, Substitute, Maybe
  <2>3. CarriedPart' /\ at' \in [Task -> Place]
      BY <1>0, <1>1, <2>1, NowCarried
  <2>4. substitute' \in [Node -> Substitute]
      BY <1>0, <2>1, <2>2 DEF TypeOK
  <2>5. TypeOK'
      BY <1>0, <2>1, <2>3, <2>4 DEF TypeOK
  <2> QED
      BY <2>1, <2>3, <2>5, TablesKept
<1> QED
    BY <1>3, <1>4, <1>5, <1>6 DEF Admin

\* The steps that are not a submission leave the rows alone.
LEMMA OtherSteps ==
  ASSUME OffersInv, [Next]_vars, ~Submit
  PROVE  OffersInv' /\ (rejection' = rejection)
<1>0. TypeOK /\ CarriedPart
    BY DEF OffersInv
<1>1. ASSUME NEW root \in Node, Designate(root) \/ DetectTorn(root)
      PROVE  OffersInv' /\ (rejection' = rejection)
  <2>1. PICK rows \in SUBSET compute_blast_radius(root) :
          Contain(root, rows) /\ UNCHANGED <<prepared, at, loc>>
      BY <1>1 DEF Designate, DetectTorn
  <2>2. /\ ledger \subseteq ledger' /\ UNCHANGED <<node, edge, target, rejection>>
        /\ TypeOK'
      BY <1>0, <2>1, ContainKeeps DEF TypeOK
  <2>3. CarriedPart'
      BY <1>0, <2>1, <2>2, StillCarried
  <2> QED
      BY <2>2, <2>3, TablesKept
<1>2. ASSUME NEW k \in CheckpointId, NEW p \in Snapshot, DeclareCheckpoint(k, p[1], p[2])
      PROVE  OffersInv' /\ (rejection' = rejection)
  <2>1. /\ Prepare
        /\ checkpoint' = [checkpoint EXCEPT ![k] =
                            [target |-> p[1], refs |-> p[2], time |-> now]]
        /\ UNCHANGED <<node, edge, ledger, target, exposed, substitute, rejection, now, at, loc>>
      BY <1>2 DEF DeclareCheckpoint
  <2>2. prepared' \in 0..MaxPrepared
      BY <1>0, <2>1, OffersAssumption DEF Prepare, TypeOK
  <2>3. p[1] \in Node /\ p[2] \in SUBSET Node
      BY OffersAssumption
  <2>4. checkpoint' \in [CheckpointId -> Checkpoint]
      BY <1>0, <2>1, <2>3 DEF TypeOK, Checkpoint, Maybe
  <2>5. TypeOK'
      BY <1>0, <2>1, <2>2, <2>4 DEF TypeOK
  <2>6. CarriedPart'
      BY <1>0, <2>1, StillCarried
  <2> QED
      BY <2>1, <2>5, <2>6, TablesKept
<1>3. CASE Crash
  <2>1. /\ at' = [t \in Task |-> "idle"] /\ loc' = [t \in Task |-> Idle]
        /\ UNCHANGED <<tables, prepared>>
      BY <1>3 DEF Crash
  <2>2. TypeOK'
      BY <1>0, <2>1 DEF TypeOK, tables, Place
  <2>3. CarriedPart'
      BY <2>1 DEF CarriedPart, Carried
  <2> QED
      BY <2>1, <2>2, <2>3, TablesKept DEF tables
<1>4. CASE UNCHANGED vars
  <2>1. UNCHANGED <<tables, prepared, at, loc>>
      BY <1>4 DEF vars
  <2>2. TypeOK'
      BY <1>0, <2>1 DEF TypeOK, tables
  <2>3. CarriedPart'
      BY <1>0, <2>1, StillCarried DEF tables
  <2> QED
      BY <2>1, <2>2, <2>3, TablesKept DEF tables
<1> QED
    BY <1>1, <1>2, <1>3, <1>4, ContinuityKeeps, AdminKeeps DEF Next

\* Every step keeps the invariant.
LEMMA OffersStep ==
  ASSUME OffersInv, [Next]_vars
  PROVE  OffersInv'
<1>1. CASE Submit
    BY <1>1, SubmitTaintedKeeps, SubmitAdmitKeeps DEF Submit
<1> QED
    BY <1>1, OtherSteps

\* The inductive invariant holds in every reachable state: for every DAG, with
\* any sweeps, exposures and declarations, and through crashes.
THEOREM OffersInvariant == Spec => []OffersInv
<1> QED
    BY OffersInitially, OffersStep, PTL DEF Spec

\* Every reachable state is well typed.
THEOREM OffersTyped == Spec => []TypeOK
<1>1. OffersInv => TypeOK
    BY DEF OffersInv
<1> QED
    BY <1>1, OffersInvariant, PTL

\* An id has one rejection on record at most, since submit_candidate answers
\* 409 for an id in the ledger and a refused id never leaves it.
THEOREM OneRowPerId == Spec => []OneRow
<1>1. OffersInv => OneRow
    BY DEF OffersInv
<1> QED
    BY <1>1, OffersInvariant, PTL

\* What find_continuity_replacement offers is committed.
THEOREM OffersCommitted == Spec => []OfferedCommitted
<1>1. OffersInv => OfferedCommitted
    BY DEF OffersInv
<1> QED
    BY <1>1, OffersInvariant, PTL

\* A completion on record is backed by a committed write on the replacement
\* that was offered.
THEOREM CompletionsBacked == Spec => []CompletionBacked
<1>1. OffersInv => CompletionBacked
    BY DEF OffersInv
<1> QED
    BY <1>1, OffersInvariant, PTL

\* Continuity replaces quarantined nodes only, though it acts on old reads.
THEOREM ReplacementsQuarantined == Spec => []ReplacesQuarantined
<1>1. OffersInv => ReplacesQuarantined
    BY DEF OffersInv
<1> QED
    BY <1>1, OffersInvariant, PTL

-----------------------------------------------------------------------------
(* What a step may never do.                                               *)

\* Only continuity commits outside a submission, under ids of its own.
LEMMA OtherCommits ==
  ASSUME [Next]_vars, ~Submit
  PROVE  node' \ node \subseteq FreshNode
<1>1. ASSUME NEW t \in Task, Continuity(t) PROVE node' \ node \subseteq FreshNode
  <2>1. CASE Serve(t)
      BY <2>1 DEF Serve, commit_node
  <2>2. CASE Read(t) \/ Record(t) \/ Escalate(t) \/ Return(t)
      BY <2>2 DEF Read, Record, Escalate, Return, tables
  <2>3. ASSUME NEW root \in Node, Detect(t, root) PROVE node' = node
      BY <2>3 DEF Detect, Contain
  <2> QED
      BY <1>1, <2>1, <2>2, <2>3 DEF Continuity
<1>2. ASSUME NEW t \in Task, Admin(t) PROVE node' = node
    BY <1>2 DEF Admin, ExposeCheck, Expose, DeclareCheck, Declare, tables
<1>3. ASSUME NEW root \in Node, Designate(root) \/ DetectTorn(root)
      PROVE  node' = node
    BY <1>3 DEF Designate, DetectTorn, Contain
<1>4. ASSUME NEW k, NEW p, DeclareCheckpoint(k, p[1], p[2]) PROVE node' = node
    BY <1>4 DEF DeclareCheckpoint
<1>5. CASE Crash \/ UNCHANGED vars
    BY <1>5 DEF Crash, vars, tables
<1> QED
    BY <1>1, <1>2, <1>3, <1>4, <1>5 DEF Next

\* Whatever the policy engine does, an unquarantined write of a client rests
\* on parents that are committed and clean when it lands.
THEOREM AdmissionsRest == Spec => AdmittedRests
<1> DEFINE Rests == \A n \in (node' \ node) \ (ledger' \cup FreshNode) :
                      Parents(edge', n) \subseteq node \ ledger
<1>1. ASSUME OffersInv, [Next]_vars PROVE Rests
  <2>1. ASSUME NEW n \in ClientNode \cup FreshNode, NEW P \in Lineages, SubmitTainted(n, P)
        PROVE  Rests
    <3>1. ledger' = ledger \cup {n}
        BY <2>1 DEF SubmitTainted
    <3>2. node' \subseteq node \cup {n}
        BY <2>1 DEF SubmitTainted, commit_node
    <3> QED
        BY <3>1, <3>2
  <2>2. ASSUME NEW n \in ClientNode \cup FreshNode, NEW P \in Lineages, SubmitAdmit(n, P)
        PROVE  Rests
    <3>1. node' = node \cup {n} /\ Parents(edge', n) = P /\ P \subseteq node \ ledger
        BY <1>1, <2>2, SubmitAdmitKeeps
    <3> QED
        BY <3>1
  <2>3. CASE ~Submit
      BY <1>1, <2>3, OtherCommits
  <2> QED
      BY <2>1, <2>2, <2>3 DEF Submit
<1>2. OffersInv /\ [Next]_vars => [Rests]_vars
    BY <1>1
<1> QED
    BY <1>2, OffersInvariant, PTL DEF Spec, AdmittedRests

\* An action is completed by a new clean write on a replacement that is clean
\* at that time, even if the offer is older than the last sweep.
THEOREM CompletionsClean == Spec => CompletionClean
<1> DEFINE Clean == \A r \in rejection' : r.completedBy # NoNode /\ r \notin rejection =>
                      /\ r.completedBy \in node' \ (node \cup ledger')
                      /\ r.offered \in node \ ledger
<1>1. ASSUME OffersInv, [Next]_vars PROVE Clean
  <2>1. ASSUME NEW n \in ClientNode \cup FreshNode, NEW P \in Lineages, SubmitTainted(n, P)
        PROVE  Clean
      BY <1>1, <2>1, SubmitTaintedKeeps
  <2>2. ASSUME NEW n \in ClientNode \cup FreshNode, NEW P \in Lineages, SubmitAdmit(n, P)
        PROVE  Clean
    <3>1. /\ n \notin node \cup ledger' /\ node' = node \cup {n}
          /\ P \subseteq node \ ledger
          /\ \A s \in rejection' : \/ s \in rejection
                                   \/ s.completedBy = n /\ s.offered \in P
        BY <1>1, <2>2, SubmitAdmitKeeps
    <3> QED
        BY <3>1
  <2>3. CASE ~Submit
      BY <1>1, <2>3, OtherSteps
  <2> QED
      BY <2>1, <2>2, <2>3 DEF Submit
<1>2. OffersInv /\ [Next]_vars => [Clean]_vars
    BY <1>1
<1> QED
    BY <1>2, OffersInvariant, PTL DEF Spec, CompletionClean

\* Offers and completions are never rewritten.
THEOREM RowsWrittenOnce == Spec => WriteOnce
<1> DEFINE Once == \A r \in rejection : \E s \in rejection' :
                     /\ s.node = r.node /\ s.parent = r.parent
                     /\ r.offered # NoNode => s.offered = r.offered /\ s.type = r.type
                     /\ r.completedBy # NoNode => s.completedBy = r.completedBy
<1>1. ASSUME OffersInv, [Next]_vars PROVE Once
  <2>1. ASSUME rejection \subseteq rejection' PROVE Once
      BY <2>1
  <2>2. ASSUME NEW n \in ClientNode \cup FreshNode, NEW P \in Lineages, SubmitTainted(n, P)
        PROVE  Once
      BY <1>1, <2>1, <2>2, SubmitTaintedKeeps
  <2>3. ASSUME NEW n \in ClientNode \cup FreshNode, NEW P \in Lineages, SubmitAdmit(n, P)
        PROVE  Once
    <3>1. TAKE r \in rejection
    <3>2. \/ r \in rejection'
          \/ r.completedBy = NoNode /\ [r EXCEPT !.completedBy = n] \in rejection'
        BY <1>1, <2>3, SubmitAdmitKeeps
    <3>3. CASE r \in rejection'
        BY <3>3
    <3>4. CASE r.completedBy = NoNode /\ [r EXCEPT !.completedBy = n] \in rejection'
      <4>1. r \in Rejection
          BY <1>1 DEF OffersInv, TypeOK
      <4> DEFINE s == [r EXCEPT !.completedBy = n]
      <4>2. s.node = r.node /\ s.parent = r.parent /\ s.offered = r.offered /\ s.type = r.type
          BY <4>1 DEF Rejection
      <4> QED
          BY <3>4, <4>2
    <3> QED
        BY <3>2, <3>3, <3>4
  <2>4. CASE ~Submit
      BY <1>1, <2>1, <2>4, OtherSteps
  <2> QED
      BY <2>2, <2>3, <2>4 DEF Submit
<1>2. OffersInv /\ [Next]_vars => [Once]_vars
    BY <1>1
<1> QED
    BY <1>2, OffersInvariant, PTL DEF Spec, WriteOnce
=============================================================================
