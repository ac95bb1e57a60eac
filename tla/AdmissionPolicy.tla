-------------------------- MODULE AdmissionPolicy --------------------------
(***************************************************************************)
(* evaluate_admission and the rego rules it asks for: one query of the     *)
(* combined policy or, where that is not deployed or fails, a query of the *)
(* integrity policy and then one of the verification policy.  The same     *)
(* rules are written twice in policies/, and the answers come back through *)
(* one of four transports that fail in different ways.                     *)
(***************************************************************************)

\* What the policies look at.  quarantine_set_Q holds the quarantined parents,
\* so "the frontier contains quarantined ancestors" is ~clean.
Input == [resolved : BOOLEAN,  \* every declared parent exists
          clean    : BOOLEAN,  \* no declared parent is quarantined
          fixed    : BOOLEAN,  \* the evidence boundary has a time
          planner  : BOOLEAN,  \* the submission carries planner output
          fresh    : BOOLEAN,  \* its id is not that of the replaced node, "none"
          identity : BOOLEAN,  \* is_nhi, unexpired, of the right scope
          passed   : BOOLEAN]  \* verifier_execution_status is PASSED

\* gasc_integrity, and the same rules in gasc_admission_combined.
allow_state_write(i) == i.resolved /\ i.clean /\ i.fixed

\* gasc_verification, and the same rules in gasc_admission_combined.
allow_reintegration(i) == ~i.planner /\ i.fresh /\ i.clean /\ i.identity /\ i.passed

\* How the three queries fare.  The combined policy may be absent: its result
\* is then undefined, which every transport turns into False.  A query may
\* raise PolicyEvaluationError (engine unreachable, exit code, entrypoint not
\* found) or another exception (abort of the WASM module, unparseable output).
Fate == {"answers", "error", "abort"}
Engine == [combined : BOOLEAN, first : Fate, second : Fate, third : Fate]

\* A refusal names a tainted parent if there is one.
Refusal(i) == IF i.clean THEN "LINEAGE_INVALID" ELSE "TAINTED_PARENT"

-----------------------------------------------------------------------------
(* Slips of the code, used to show that properties can fail.               *)

\* An undefined result of the combined policy counts as no objection.
evaluate_open(i, e) ==
  IF e.first = "answers"
  THEN IF e.combined /\ ~allow_state_write(i) THEN Refusal(i) ELSE "ADMIT"
  ELSE "UNAVAILABLE"

-----------------------------------------------------------------------------
\* The sequential path; a failing query is answered 503, or 500.
evaluate_sequentially(i, e) ==
  IF e.second # "answers" THEN "UNAVAILABLE"
  ELSE IF ~allow_state_write(i) THEN Refusal(i)
  ELSE IF e.third # "answers" THEN "UNAVAILABLE"
  ELSE IF ~allow_reintegration(i) THEN "VERIFICATION_FAILED"
  ELSE "ADMIT"

\* A combined answer decides; its absence or failure is not a refusal.
evaluate_admission(i, e) ==
  IF e.first = "abort" THEN "UNAVAILABLE"
  ELSE IF e.first = "error" \/ ~e.combined THEN evaluate_sequentially(i, e)
  ELSE IF ~allow_state_write(i) THEN Refusal(i)
  ELSE IF ~allow_reintegration(i) THEN "VERIFICATION_FAILED"
  ELSE "ADMIT"

\* What a submission may be answered, over all that is not the DAG's to say.
Verdicts ==
  {<<i.resolved, i.clean, evaluate_admission(i, e)>> : i \in Input, e \in Engine}
=============================================================================
