------------------------------ MODULE Ingress ------------------------------
(***************************************************************************)
(* The way into the gateway: the backpressure middleware with its counter  *)
(* of requests in flight, the drain at shutdown, and behind it the attempt *)
(* counters of RateLimit.  _acquire_in_flight and _release_in_flight await *)
(* nothing but a lock that nobody holds across an await, so each is one    *)
(* step.  /ready and lifespan messages pass uncounted and change nothing.  *)
(***************************************************************************)
EXTENDS RateLimit

CONSTANT MaxInFlight  \* settings.MAX_IN_FLIGHT_REQUESTS

ASSUME InFlightAssumption == MaxInFlight \in Nat \ {0}

VARIABLES
  inFlight,  \* _in_flight
  slot,      \* how far the middleware and the handler have come with a request
  status,    \* "up"; "draining" and "down" with _drain_event set, not _ready
  late       \* the drain deadline has passed

gate == <<inFlight, slot, status, late>>

allVars == <<vars, gate>>

\* A request is counted against its identity at most once.
Slot == {"out", "entered", "counted"}

Inside == {t \in Task : slot[t] # "out"}

IngressTypeOK ==
  /\ TypeOK
  /\ inFlight \in Nat
  /\ slot \in [Task -> Slot]
  /\ status \in {"up", "draining", "down"}
  /\ late \in BOOLEAN
  /\ \A t \in Task : at[t] # "idle" => slot[t] = "counted"

IngressInit ==
  /\ Init
  /\ inFlight = 0
  /\ slot = [t \in Task |-> "out"]
  /\ status = "up"
  /\ late = FALSE

\* max(0, _in_flight - 1)
Decremented(n) == IF n > 0 THEN n - 1 ELSE 0

-----------------------------------------------------------------------------
(* Slips of the code, used to show that the properties below can fail.     *)

\* The test is ">" instead of ">=".
AcquireLate(t) ==
  /\ slot[t] = "out" /\ status = "up" /\ inFlight <= MaxInFlight
  /\ inFlight' = inFlight + 1
  /\ slot' = [slot EXCEPT ![t] = "entered"]
  /\ UNCHANGED <<vars, status, late>>

\* The drain flag is not looked at.
AcquireDraining(t) ==
  /\ slot[t] = "out" /\ inFlight < MaxInFlight
  /\ inFlight' = inFlight + 1
  /\ slot' = [slot EXCEPT ![t] = "entered"]
  /\ UNCHANGED <<vars, status, late>>

\* A new start resets the counter while old requests still run.
StartupResetting ==
  /\ status = "down"
  /\ status' = "up" /\ late' = FALSE /\ inFlight' = 0
  /\ UNCHANGED <<vars, slot>>

\* The drain waits for the requests however long they take.
ClosePatient ==
  /\ status = "draining" /\ inFlight = 0
  /\ status' = "down"
  /\ UNCHANGED <<vars, inFlight, slot, late>>

-----------------------------------------------------------------------------
\* _acquire_in_flight lets a request in; otherwise it answers 503 while
\* draining, 429 when full, and changes nothing.
Acquire(t) ==
  /\ slot[t] = "out" /\ status = "up" /\ inFlight < MaxInFlight
  /\ inFlight' = inFlight + 1
  /\ slot' = [slot EXCEPT ![t] = "entered"]
  /\ UNCHANGED <<vars, status, late>>

\* A handler of a signal endpoint counts the identity's attempts before it
\* does anything else with the backend.
Signal(t, s, kind) ==
  /\ slot[t] = "entered"
  /\ CountIdentity(t, s, kind)
  /\ slot' = [slot EXCEPT ![t] = "counted"]
  /\ UNCHANGED <<inFlight, status, late>>

\* The finally clause of the middleware: the handler has returned, or a
\* backend call has raised at any point of it.  Handlers of other endpoints
\* leave without having counted.
Leave(t) ==
  /\ slot[t] # "out"
  /\ Finish(t)
  /\ slot' = [slot EXCEPT ![t] = "out"]
  /\ inFlight' = Decremented(inFlight)
  /\ UNCHANGED <<pending, limited, status, late>>

\* shutdown_event stops admission at once, and the backend is closed when
\* nobody is left or the deadline has passed.
Shutdown ==
  /\ status = "up"
  /\ status' = "draining" /\ late' = FALSE
  /\ UNCHANGED <<vars, inFlight, slot>>

Deadline ==
  /\ status = "draining" /\ ~late
  /\ late' = TRUE
  /\ UNCHANGED <<vars, inFlight, slot, status>>

Close ==
  /\ status = "draining" /\ (inFlight = 0 \/ late)
  /\ status' = "down"
  /\ UNCHANGED <<vars, inFlight, slot, late>>

\* startup_event of another lifespan in the same process: the counter is kept,
\* for requests that outlived the deadline.
Startup ==
  /\ status = "down"
  /\ status' = "up" /\ late' = FALSE
  /\ UNCHANGED <<vars, inFlight, slot>>

\* The process dies and is started again; the attempts on record stay.
Crash ==
  /\ at' = [t \in Task |-> "idle"]
  /\ req' = [t \in Task |-> NoRequest]
  /\ slot' = [t \in Task |-> "out"]
  /\ inFlight' = 0 /\ status' = "up" /\ late' = FALSE
  /\ UNCHANGED <<pending, limited>>

Handler(t) ==
  /\ CountGlobal(t) \/ RecordPending(t) \/ RecordLimited(t)
  /\ UNCHANGED gate

Expiry ==
  /\ \/ \E r \in Source \X Kind : PendingExpires(r)
     \/ \E s \in Source : LimitedExpires(s)
  /\ UNCHANGED gate

Next ==
  \/ \E t \in Task : \/ Acquire(t) \/ Handler(t) \/ Leave(t)
                     \/ \E s \in Source, kind \in Kind : Signal(t, s, kind)
  \/ Expiry
  \/ Shutdown \/ Deadline \/ Close \/ Startup \/ Crash

\* time.monotonic() reaches the deadline and the drain loop polls on; nothing
\* is assumed of clients or handlers.
Spec ==
  /\ IngressInit /\ [][Next]_allVars
  /\ WF_allVars(Deadline) /\ WF_allVars(Close)

-----------------------------------------------------------------------------
\* The counter is the number of requests inside, through exceptions, restarts
\* of the lifespan and requests that outlive a drain: otherwise the gateway
\* would refuse for ever, or close under a running request.
InFlightExact == inFlight = Cardinality(Inside)

\* Counting and recording an attempt are separate calls, so concurrent requests
\* of one identity can all pass below the limit; but no more of them than the
\* middleware lets in: however many clients there are, an identity has at most
\* MaxInFlight - 1 signals too many accepted within a horizon.
RateBounded ==
  \A s \in Source, kind \in Kind :
    pending[<<s, kind>>] <= Limit(kind) + MaxInFlight - 1

\* The same for the recurrence signals of all identities together, designed
\* against many compromised credentials.
GlobalBounded ==
  MapThenSumSet(LAMBDA s : pending[<<s, "recurrence">>], Source)
    <= GlobalLimit + MaxInFlight - 1

\* Unless the deadline passed first, the backend is closed with nobody inside,
\* and nobody enters afterwards.
ClosedEmpty == status = "down" /\ ~late => Inside = {}

\* A shutdown ends, also when a handler hangs.
ShutdownEnds == status = "draining" ~> status # "draining"
=============================================================================
