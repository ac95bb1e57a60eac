---------------------------- MODULE AtomicStore ----------------------------
(***************************************************************************)
(* What the handlers of /submit-candidate and /designate rely on when they *)
(* put their backend calls inside transaction(): what a request writes is  *)
(* in the file altogether or not at all, stays there through crashes, and  *)
(* is there before the client has its answer.                              *)
(***************************************************************************)
CONSTANT Request

VARIABLES
  stored,   \* requests whose rows are in the file
  answered  \* requests answered with success

Init == stored = {} /\ answered = {}

\* All rows of one request become durable.
Store(k) ==
  /\ stored' = stored \cup {k}
  /\ UNCHANGED answered

\* The client hears of a success.
Answer(k) ==
  /\ k \in stored
  /\ answered' = answered \cup {k}
  /\ UNCHANGED stored

Next == \E k \in Request : Store(k) \/ Answer(k)

Spec == Init /\ [][Next]_<<stored, answered>>
=============================================================================
