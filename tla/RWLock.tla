------------------------------- MODULE RWLock -------------------------------
(***************************************************************************)
(* What _AdmissionLock promises its callers: any number of tasks inside    *)
(* shared(), or one task inside exclusive(), and never both.  The detailed *)
(* lock of AdmissionLock.tla implements this specification.                *)
(***************************************************************************)
CONSTANT Task

VARIABLES sharers,  \* tasks between the enter and the exit of shared()
          owners    \* tasks between the enter and the exit of exclusive()

vars == <<sharers, owners>>

TypeOK == sharers \subseteq Task /\ owners \subseteq Task

Init == sharers = {} /\ owners = {}

EnterShared(t) ==
  /\ owners = {}
  /\ sharers' = sharers \cup {t}
  /\ UNCHANGED owners

ExitShared(t) ==
  /\ t \in sharers
  /\ sharers' = sharers \ {t}
  /\ UNCHANGED owners

EnterExclusive(t) ==
  /\ owners = {} /\ sharers = {}
  /\ owners' = {t}
  /\ UNCHANGED sharers

ExitExclusive(t) ==
  /\ owners = {t}
  /\ owners' = {}
  /\ UNCHANGED sharers

Next == \E t \in Task : EnterShared(t) \/ ExitShared(t)
                        \/ EnterExclusive(t) \/ ExitExclusive(t)

Spec == Init /\ [][Next]_vars
=============================================================================
