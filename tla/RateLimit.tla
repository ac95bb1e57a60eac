----------------------------- MODULE RateLimit -----------------------------
(***************************************************************************)
(* The attempt counters in front of /designate, /detector and /observe:    *)
(* rows of signal_attempts younger than CONTINUATION_HORIZON_SECONDS are   *)
(* counted, and the attempt is then recorded, in separate backend calls    *)
(* with other requests in between.  All kinds and outcomes count.  Which   *)
(* requests run at all is decided before, see Ingress.                     *)
(***************************************************************************)
EXTENDS Integers, FiniteSets, FiniteSetsExt

CONSTANTS
  Task,              \* concurrent requests
  Source,            \* designator identities
  DesignationLimit,  \* settings.DESIGNATION_RATE_LIMIT
  RecurrenceLimit,   \* settings.RECURRENCE_SIGNAL_RATE_LIMIT
  GlobalLimit,       \* settings.RECURRENCE_SIGNAL_GLOBAL_LIMIT
  MaxLimited         \* bound on the refused attempts in the window when a
                     \* request arrives

ASSUME LimitAssumption ==
  /\ IsFiniteSet(Task) /\ Task # {}
  /\ IsFiniteSet(Source)
  /\ DesignationLimit \in Nat /\ RecurrenceLimit \in Nat /\ GlobalLimit \in Nat
  /\ MaxLimited \in Nat

\* signal_kind; /detector and /designate both record designations.
Kind == {"designation", "recurrence"}

Limit(kind) ==
  IF kind = "designation" THEN DesignationLimit ELSE RecurrenceLimit

VARIABLES
  pending,  \* rows in the window with outcome PENDING, by source and kind
  limited,  \* rows in the window with outcome RATE_LIMITED, by source
  at,       \* what each task does next
  req       \* the source and kind of its request

vars == <<pending, limited, at, req>>

NoRequest == <<>>

Place == {"idle", "global", "record", "refuse"}

TypeOK ==
  /\ pending \in [Source \X Kind -> Nat]
  /\ limited \in [Source -> Nat]
  /\ at \in [Task -> Place]
  /\ req \in [Task -> (Source \X Kind) \cup {NoRequest}]
  /\ \A t \in Task : at[t] # "idle" => req[t] # NoRequest

Init ==
  /\ pending = [r \in Source \X Kind |-> 0]
  /\ limited = [s \in Source |-> 0]
  /\ at = [t \in Task |-> "idle"]
  /\ req = [t \in Task |-> NoRequest]

Finish(t) ==
  /\ at' = [at EXCEPT ![t] = "idle"]
  /\ req' = [req EXCEPT ![t] = NoRequest]

\* count_recent_signals and count_recent_signals_global.
Recent(s) ==
  pending[<<s, "designation">>] + pending[<<s, "recurrence">>] + limited[s]
RecentGlobal == MapThenSumSet(Recent, Source)

-----------------------------------------------------------------------------
(* Slips of the code, used to show that the properties below can fail.     *)

\* The test is ">" instead of ">=".
CountGlobalLate(t) ==
  /\ at[t] = "global"
  /\ at' = [at EXCEPT ![t] =
              IF RecentGlobal > GlobalLimit THEN "refuse" ELSE "record"]
  /\ UNCHANGED <<pending, limited, req>>

\* A refused attempt is taken off the count instead of being added to it.
RecordLimitedBackwards(t) ==
  /\ at[t] = "refuse"
  /\ pending' = [pending EXCEPT ![req[t]] = @ - 1]
  /\ Finish(t)
  /\ UNCHANGED limited

-----------------------------------------------------------------------------
\* The identity's own rows are counted; only /observe counts all of them too.
CountIdentity(t, s, kind) ==
  /\ at[t] = "idle" /\ limited[s] <= MaxLimited
  /\ req' = [req EXCEPT ![t] = <<s, kind>>]
  /\ at' = [at EXCEPT ![t] =
              IF Recent(s) >= Limit(kind) THEN "refuse"
              ELSE IF kind = "recurrence" THEN "global" ELSE "record"]
  /\ UNCHANGED <<pending, limited>>

CountGlobal(t) ==
  /\ at[t] = "global"
  /\ at' = [at EXCEPT ![t] =
              IF RecentGlobal >= GlobalLimit THEN "refuse" ELSE "record"]
  /\ UNCHANGED <<pending, limited, req>>

\* "Record the attempt BEFORE processing": whatever becomes of the signal
\* afterwards, its row stays.
RecordPending(t) ==
  /\ at[t] = "record"
  /\ pending' = [pending EXCEPT ![req[t]] = @ + 1]
  /\ Finish(t)
  /\ UNCHANGED limited

\* A refused attempt is a row as well.
RecordLimited(t) ==
  /\ at[t] = "refuse"
  /\ limited' = [limited EXCEPT ![req[t][1]] = @ + 1]
  /\ Finish(t)
  /\ UNCHANGED pending

\* A row becomes older than the window.
PendingExpires(r) ==
  /\ pending[r] > 0
  /\ pending' = [pending EXCEPT ![r] = @ - 1]
  /\ UNCHANGED <<limited, at, req>>

LimitedExpires(s) ==
  /\ limited[s] > 0
  /\ limited' = [limited EXCEPT ![s] = @ - 1]
  /\ UNCHANGED <<pending, at, req>>
=============================================================================
