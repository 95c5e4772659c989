--------------------------------- MODULE Alerts ---------------------------------
(***************************************************************************)
(* What follows a completed health check of one connection                 *)
(* (services/schedule-runner.js, services/alert-policy-evaluator.js):      *)
(* findings are compared with their history, new and worsened ones are     *)
(* mailed, then one alert policy is evaluated and due escalations are      *)
(* processed.  Nothing orders the runs: health checks of one connection,   *)
(* and of others, may be here together.  Every await ends a step.          *)
(***************************************************************************)
EXTENDS Integers, FiniteSets

CONSTANTS
    Keys,           \* finding_key
    MaxSev,         \* severities 1..MaxSev (rankOf); 0 is no row
    Threshold,      \* severity_threshold of the schedule
    Lengths,        \* possible lengths of the policy's escalation_chain
    Runs,           \* runs in progress at the same time
    MaxEvents,      \* bound: alert events
    MaxFaults       \* bound: failed queries and restarts

ASSUME ConstantsAssumption ==
    /\ MaxSev \in Nat /\ Threshold \in 1..MaxSev
    /\ Lengths \subseteq Nat
    /\ "none" \notin Keys
    /\ IsFiniteSet(Runs)
    /\ MaxEvents \in Nat /\ MaxFaults \in Nat

VARIABLES
    finding,        \* finding_history: severity; 0 is resolved or no row
    settled,        \* history: severities no alert is due for, since it resolved
    outdated,       \* history: runs whose finding was resolved after they read it
    recent,         \* last_alert_sent_at is less than 6 hours ago
    chain,          \* length of the policy's escalation_chain
    events,         \* alert_events
    forgotten,      \* history: events whose run failed before it set the timer
    run,            \* where each run is and what it holds
    faults

findingVars == <<finding, settled, outdated, recent>>
eventVars == <<chain, events, forgotten>>
vars == <<findingVars, eventVars, run, faults>>

Severity == 0..MaxSev
\* Indices of escalation_chain.
Steps == 0..chain - 1
Ids == 1..MaxEvents

Delta == {"findings", "upsert", "window", "send", "record"}
Creating == {"notify", "arm"}
Evaluating == {"resolve", "create"} \cup Creating
At == {"idle", "policies", "due", "escalate", "advance"} \cup Delta \cup Evaluating

\* first: the policy's notification_channels have had their notice; notified:
\* steps of the chain that have; batch: escalation_step of the due events still
\* to do; -1 for the others.
TypeOK ==
    /\ finding \in [Keys -> Severity]
    /\ settled \in [Keys -> SUBSET Severity]
    /\ outdated \subseteq Runs
    /\ recent \in BOOLEAN
    /\ chain \in Lengths
    /\ events \in [Ids ->
           [status : {"none", "triggered", "acknowledged", "escalated", "resolved"},
            everResolved : BOOLEAN, step : Nat, timer : BOOLEAN,
            first : BOOLEAN, notified : SUBSET Steps]]
    /\ forgotten \subseteq Ids
    /\ run \in [Runs -> [at : At, rows : [Keys -> Severity], todo : SUBSET Keys,
                         key : Keys \cup {"none"}, prev : Severity, deltas : [Keys -> Severity],
                         event : 0..MaxEvents, batch : [Ids -> Nat \cup {-1}]]]
    /\ faults \in 0..MaxFaults

Nothing == [k \in Keys |-> 0]
NoBatch == [e \in Ids |-> -1]
Idle == [at |-> "idle", rows |-> Nothing, todo |-> {}, key |-> "none",
         prev |-> 0, deltas |-> Nothing, event |-> 0, batch |-> NoBatch]

Init ==
    /\ finding = Nothing
    /\ settled = [k \in Keys |-> {}]
    /\ outdated = {}
    /\ recent = FALSE
    /\ chain \in Lengths
    /\ events = [e \in Ids |-> [status |-> "none", everResolved |-> FALSE, step |-> 0,
                                timer |-> FALSE, first |-> FALSE, notified |-> {}]]
    /\ forgotten = {}
    /\ run = [r \in Runs |-> Idle]
    /\ faults = 0

\* A run goes on with nothing in hand.
Enter(r, at) == run' = [run EXCEPT ![r] = [Idle EXCEPT !.at = at]]
GoTo(r, at) == run' = [run EXCEPT ![r].at = at]
\* The alerts for the deltas of the runs rs are decided: mailed, or withheld
\* within the window or by a failure.
Settle(rs) ==
    settled' = [k \in Keys |-> settled[k] \cup UNION {1..run[r].deltas[k] : r \in rs}]
-----------------------------------------------------------------------------
(* The world *)

\* Six hours pass; no run takes that long from its check to its record.
WindowPasses ==
    /\ recent
    /\ \A r \in Runs : run[r].at \notin {"send", "record"}
    /\ recent' = FALSE
    /\ UNCHANGED <<finding, settled, outdated, eventVars, run, faults>>

AcknowledgeEvent(e) ==
    /\ events[e].status \in {"triggered", "escalated"}
    /\ events' = [events EXCEPT ![e].status = "acknowledged"]
    /\ UNCHANGED <<findingVars, chain, forgotten, run, faults>>
-----------------------------------------------------------------------------
(* runDeltaForConnection *)

\* The newest row that is not ok of each key, among the last 200 of all runs;
\* whether this run has been stored by now or not, they may say anything.
Begin(r, rows) ==
    /\ run[r].at = "idle"
    /\ run' = [run EXCEPT ![r] = [Idle EXCEPT
           !.at = "findings", !.rows = rows,
           !.todo = {k \in Keys : rows[k] >= Threshold}]]
    /\ UNCHANGED <<findingVars, eventVars, faults>>

\* upsertFinding: the open row, if any.
SelectFinding(r, k) ==
    /\ run[r].at = "findings" /\ k \in run[r].todo
    /\ run' = [run EXCEPT ![r].at = "upsert", ![r].key = k,
           ![r].prev = finding[k]]
    /\ UNCHANGED <<findingVars, eventVars, faults>>

\* The finding is stored in severity s, with or without a delta.  INSERT ... ON
\* CONFLICT reopens; UPDATE by id leaves a resolved row resolved, and writes
\* into the row that another run has reopened: without a delta, no alert is made.
Store(r, isDelta) ==
    LET k == run[r].key  s == run[r].rows[k] IN
    /\ run[r].at = "upsert"
    /\ finding' = [finding EXCEPT ![k] = IF run[r].prev = 0 \/ @ # 0 THEN s ELSE 0]
    /\ settled' = [settled EXCEPT ![k] =
           IF r \in outdated /\ ~isDelta /\ finding[k] # 0 THEN @ \cup 1..s ELSE @]
    /\ outdated' = outdated \ {r}
    /\ run' = [run EXCEPT ![r].at = "findings", ![r].todo = @ \ {k},
           ![r].key = "none", ![r].prev = 0, ![r].deltas[k] = IF isDelta THEN s ELSE 0]
    /\ UNCHANGED <<recent, eventVars, faults>>

\* Mutant: a finding that is stored counts as known.
UpsertKnown(r) == Store(r, run[r].prev = 0)

\* isNew or isWorsened.
UpsertFinding(r) ==
    Store(r, run[r].prev = 0 \/ run[r].rows[run[r].key] > run[r].prev)

\* Without deltas the run ends here, policies or not.
ResolveStaleFindings(r) ==
    LET gone == {k \in Keys : run[r].rows[k] = 0} IN
    /\ run[r].at = "findings" /\ run[r].todo = {}
    /\ finding' = [k \in Keys |-> IF k \in gone THEN 0 ELSE finding[k]]
    /\ settled' = [k \in Keys |-> IF k \in gone THEN {} ELSE settled[k]]
    /\ outdated' = outdated \cup {q \in Runs : run[q].prev # 0 /\ run[q].key \in gone}
    /\ IF run[r].deltas = Nothing
       THEN Enter(r, "idle")
       ELSE run' = [run EXCEPT ![r].at = "window", ![r].rows = Nothing]
    /\ UNCHANGED <<recent, eventVars, faults>>

\* Of the schedule: an alert for any finding in any severity suppresses the
\* next ones, and the run ends, policies or not.
WasAlertRecentlySent(r) ==
    /\ run[r].at = "window"
    /\ IF recent THEN Settle({r}) /\ Enter(r, "idle")
                 ELSE GoTo(r, "send") /\ UNCHANGED settled
    /\ UNCHANGED <<finding, outdated, recent, eventVars, faults>>

SendAlert(r, ok) ==
    /\ run[r].at = "send"
    /\ Settle({r})
    /\ Enter(r, IF ok THEN "record" ELSE "policies")
    /\ UNCHANGED <<finding, outdated, recent, eventVars, faults>>

RecordAlertSent(r) ==
    /\ run[r].at = "record"
    /\ recent' = TRUE
    /\ Enter(r, "policies")
    /\ UNCHANGED <<finding, settled, outdated, eventVars, faults>>
-----------------------------------------------------------------------------
(* evaluatePoliciesForConnection *)

\* Mutant: an acknowledged event does not count as open.
OpenUnacknowledged == {e \in Ids : events[e].status \in {"triggered", "escalated"}}

Open == {e \in Ids : events[e].status \in {"triggered", "acknowledged", "escalated"}}

\* The policy is switched off (togglePolicy), and escalations are not looked at
\* either; or the metric is missing, in range, out of range but not for long
\* enough, or out of range.
Evaluate(r, value) ==
    /\ run[r].at = "policies"
    /\ \/ value = "off" /\ Enter(r, "idle")
       \/ value \in {"missing", "new"} /\ Enter(r, "due")
       \/ /\ value = "calm"         \* getOpenEvent: the newest
          /\ \E e \in Open : /\ \A f \in Open : f <= e
                             /\ run' = [run EXCEPT ![r].at = "resolve", ![r].event = e]
       \/ value = "calm" /\ Open = {} /\ Enter(r, "due")
       \/ value = "firing" /\ Open # {} /\ Enter(r, "due")
       \/ value = "firing" /\ Open = {} /\ Enter(r, "create")
    /\ UNCHANGED <<findingVars, eventVars, faults>>

ResolveEvent(r) ==
    /\ run[r].at = "resolve"
    /\ events' = [events EXCEPT ![run[r].event].status = "resolved",
                                ![run[r].event].everResolved = TRUE]
    /\ Enter(r, "due")
    /\ UNCHANGED <<findingVars, chain, forgotten, faults>>

CreateEvent(r, e) ==
    /\ run[r].at = "create"
    /\ events[e].status = "none" /\ \A f \in Ids : f < e => events[f].status # "none"
    /\ events' = [events EXCEPT ![e].status = "triggered"]
    /\ run' = [run EXCEPT ![r].at = "notify", ![r].event = e]
    /\ UNCHANGED <<findingVars, chain, forgotten, faults>>

\* Bound: the event is not stored.
NoRoom(r) ==
    /\ run[r].at = "create" /\ \A e \in Ids : events[e].status # "none"
    /\ Enter(r, "due")
    /\ UNCHANGED <<findingVars, eventVars, faults>>

\* To notification_channels, none of which is a step of the chain;
\* sendNotifications never throws, and what is sent or not is appended.
Notify(r) ==
    /\ run[r].at = "notify"
    /\ events' = [events EXCEPT ![run[r].event].first = TRUE]
    /\ IF chain > 0 THEN GoTo(r, "arm") ELSE Enter(r, "due")
    /\ UNCHANGED <<findingVars, chain, forgotten, faults>>

\* It makes every event 'escalated', also one acknowledged or resolved.
AdvanceEscalation(e, step) ==
    events' = [events EXCEPT ![e].step = step, ![e].status = "escalated",
                             ![e].timer = TRUE]

SetEscalationStep(e, step) ==
    events' = [events EXCEPT ![e].step = step, ![e].timer = FALSE]

\* Mutant: the chain is entered another step later.
StartAtOne(r) ==
    /\ run[r].at = "arm"
    /\ AdvanceEscalation(run[r].event, 1)
    /\ Enter(r, "due")
    /\ UNCHANGED <<findingVars, chain, forgotten, faults>>

\* With the delay of step 0, which is never notified: the next one is step 1.
StartEscalation(r) ==
    /\ run[r].at = "arm"
    /\ AdvanceEscalation(run[r].event, 0)
    /\ Enter(r, "due")
    /\ UNCHANGED <<findingVars, chain, forgotten, faults>>
-----------------------------------------------------------------------------
(* runDueEscalations, for all connections *)

\* next_escalation_at is set; whether it has passed is up to the clock.
Armed == {e \in Ids : events[e].status \in {"triggered", "escalated"} /\ events[e].timer}

Rest(batch) == IF batch = NoBatch THEN Idle
               ELSE [Idle EXCEPT !.at = "escalate", !.batch = batch]
\* e is done.
Drop(r, e) == run' = [run EXCEPT ![r] = Rest([@.batch EXCEPT ![e] = -1])]

\* From "idle": the run of another connection.
GetDueEscalations(r, passed) ==
    /\ run[r].at \in {"idle", "due"}
    /\ run' = [run EXCEPT ![r] =
           Rest([e \in Ids |-> IF e \in passed THEN events[e].step ELSE -1])]
    /\ UNCHANGED <<findingVars, eventVars, faults>>

ClearEscalationTimer(r, e) ==
    /\ run[r].at = "escalate" /\ run[r].batch[e] # -1
    /\ run[r].batch[e] + 1 >= chain
    /\ events' = [events EXCEPT ![e].timer = FALSE]
    /\ Drop(r, e)
    /\ UNCHANGED <<findingVars, chain, forgotten, faults>>

\* Mutant: the end of the chain is not looked for.
NotifyUnchecked(r, e) ==
    /\ run[r].at = "escalate" /\ run[r].batch[e] # -1
    /\ events' = [events EXCEPT ![e].notified = @ \cup {run[r].batch[e] + 1}]
    /\ run' = [run EXCEPT ![r].at = "advance", ![r].event = e]
    /\ UNCHANGED <<findingVars, chain, forgotten, faults>>

NotifyStep(r, e) ==
    LET next == run[r].batch[e] + 1 IN
    /\ run[r].at = "escalate" /\ run[r].batch[e] # -1 /\ next < chain
    /\ events' = [events EXCEPT ![e].notified = @ \cup {next}]
    /\ run' = [run EXCEPT ![r].at = "advance", ![r].event = e]
    /\ UNCHANGED <<findingVars, chain, forgotten, faults>>

\* Mutant: the timer of the step after the next one is not set.
AdvanceTooShort(r) ==
    LET e == run[r].event  next == run[r].batch[e] + 1 IN
    /\ run[r].at = "advance"
    /\ SetEscalationStep(e, next)
    /\ Drop(r, e)
    /\ UNCHANGED <<findingVars, chain, forgotten, faults>>

Advance(r) ==
    LET e == run[r].event  next == run[r].batch[e] + 1 IN
    /\ run[r].at = "advance"
    /\ IF next + 1 < chain THEN AdvanceEscalation(e, next)
                           ELSE SetEscalationStep(e, next)
    /\ Drop(r, e)
    /\ UNCHANGED <<findingVars, chain, forgotten, faults>>
-----------------------------------------------------------------------------
(* Failures *)

\* Events whose timer nobody will set when the runs rs stop here.
Unarmed(rs) == {run[r].event : r \in {q \in rs : run[q].at \in Creating}}

\* A query fails.  Each part is caught apart: the findings do not stop the
\* policies, nor a policy the escalations, nor one escalation the next.
RunFails(r) ==
    /\ run[r].at # "idle" /\ faults < MaxFaults
    /\ Settle({r})
    /\ outdated' = outdated \ {r}
    /\ forgotten' = forgotten \cup Unarmed({r})
    /\ \/ run[r].at \in Delta /\ Enter(r, "policies")
       \/ run[r].at \in {"policies", "due"} /\ Enter(r, "idle")
       \/ run[r].at \in {"policies"} \cup Evaluating /\ Enter(r, "due")
       \/ run[r].at = "advance" /\ Drop(r, run[r].event)
       \/ /\ run[r].at = "escalate"
          /\ \E e \in Ids : run[r].batch[e] # -1 /\ Drop(r, e)
    /\ faults' = faults + 1
    /\ UNCHANGED <<finding, recent, chain, events>>

CloudRestart ==
    /\ faults < MaxFaults /\ \E r \in Runs : run[r].at # "idle"
    /\ Settle(Runs)
    /\ outdated' = {}
    /\ forgotten' = forgotten \cup Unarmed(Runs)
    /\ run' = [r \in Runs |-> Idle]
    /\ faults' = faults + 1
    /\ UNCHANGED <<finding, recent, chain, events>>
-----------------------------------------------------------------------------
Deltas(r) ==
    \/ \E rows \in [Keys -> Severity] : Begin(r, rows)
    \/ UpsertFinding(r) \/ ResolveStaleFindings(r)
    \/ \E k \in Keys : SelectFinding(r, k)
    \/ WasAlertRecentlySent(r)
    \/ \E ok \in BOOLEAN : SendAlert(r, ok)
    \/ RecordAlertSent(r)

Policies(r) ==
    \/ \E value \in {"off", "missing", "new", "calm", "firing"} : Evaluate(r, value)
    \/ ResolveEvent(r) \/ NoRoom(r) \/ Notify(r) \/ StartEscalation(r)
    \/ \E e \in Ids : CreateEvent(r, e)

Escalations(r) ==
    \/ \E passed \in SUBSET Armed : GetDueEscalations(r, passed)
    \/ Advance(r)
    \/ \E e \in Ids : ClearEscalationTimer(r, e) \/ NotifyStep(r, e)

Next ==
    \/ \E e \in Ids : AcknowledgeEvent(e)
    \/ \E r \in Runs : Deltas(r) \/ Policies(r) \/ Escalations(r) \/ RunFails(r)
    \/ WindowPasses \/ CloudRestart

Spec == Init /\ [][Next]_vars
-----------------------------------------------------------------------------
(* Properties *)

\* Whatever the order of overlapping runs, the alert for the severity of an open
\* finding has been decided since it last resolved, or will be by a run in
\* progress: no run takes it for known before.  What was withheld within the
\* window of the schedule, or by a failure, is not made up for, nor is what an
\* outdated run writes into a reopened row (upsertFinding, runDeltaForConnection).
NoSeverityForgotten ==
    \A k \in Keys :
        \/ 1..finding[k] \subseteq settled[k]
        \/ \E r \in Runs : finding[k] <= run[r].deltas[k]

\* After step 0, which the code passes over, each step of the chain is notified
\* only after the first notice and the steps before it, although stale runs set
\* escalation_step back (evaluatePolicy, processEscalation).
NoStepSkipped ==
    \A e \in Ids : \A s \in events[e].notified :
        events[e].first /\ 1..s \subseteq events[e].notified

\* An event that is open and not acknowledged has had its first notice and every
\* step of its chain after step 0, has a timer or is in the hands of the run that
\* created it, or that run failed.  A chain of one step notifies nobody.
EscalationNotForgotten ==
    \A e \in Ids : events[e].status \in {"triggered", "escalated"} =>
        \/ events[e].first /\ 1..chain - 1 \subseteq events[e].notified
        \/ events[e].timer
        \/ e \in forgotten
        \/ \E r \in Runs : run[r].at \in Creating /\ run[r].event = e

\* "Notify additional channels if alert isn't acknowledged after a delay": an
\* escalated event without a timer has been through its chain.  The code never
\* notifies escalation_chain[0]: processEscalation starts with step 1.
ChainIsNotified ==
    \A e \in Ids : events[e].status = "escalated" /\ ~events[e].timer =>
        events[e].notified = Steps

\* "don't re-trigger if already open": overlapping runs trigger at most once each.
Unresolved == {e \in Ids : events[e].status # "none" /\ ~events[e].everResolved}
Creators == {r \in Runs : run[r].at = "create"}
DuplicatesAreBounded ==
    Cardinality(Unresolved) + Cardinality(Creators) <= Cardinality(Runs)
=============================================================================
