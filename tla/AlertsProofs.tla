---------------------------- MODULE AlertsProofs ----------------------------
(***************************************************************************)
(* Theorems about Alerts, for any findings, chains and number of events    *)
(* and any finite number of overlapping runs.                              *)
(***************************************************************************)
EXTENDS Alerts, FiniteSetTheorems, TLAPS

\* What a run holds at each of its steps.
Held ==
    \A r \in Runs :
        /\ run[r].at = "upsert" => run[r].key \in run[r].todo
        /\ run[r].at \in {"findings", "upsert"} =>
               \A k \in run[r].todo : run[r].deltas[k] = 0
        /\ run[r].at \notin {"findings", "upsert", "window", "send"} =>
               run[r].deltas = Nothing
        /\ run[r].at \in {"resolve", "advance"} \cup Creating => run[r].event \in Ids
        /\ run[r].at = "advance" => /\ run[r].batch[run[r].event] # -1
                                    /\ run[r].batch[run[r].event] + 1 < chain

Facts == TypeOK /\ Held

RunType == [at : At, rows : [Keys -> Severity], todo : SUBSET Keys,
            key : Keys \cup {"none"}, prev : Severity, deltas : [Keys -> Severity],
            event : 0..MaxEvents, batch : [Ids -> Nat \cup {-1}]]

EventType == [status : {"none", "triggered", "acknowledged", "escalated", "resolved"},
              everResolved : BOOLEAN, step : Nat, timer : BOOLEAN,
              first : BOOLEAN, notified : SUBSET Steps]

-----------------------------------------------------------------------------
(* Types and what the runs hold *)

\* A run that starts a part anew is well formed.
LEMMA IdleType ==
  /\ Idle \in RunType
  /\ Idle.deltas = Nothing /\ Idle.at = "idle"
  <1>1. 0 \in Severity /\ 0 \in 0..MaxEvents
    BY ConstantsAssumption DEF Severity
  <1> QED BY <1>1 DEF RunType, Idle, Nothing, NoBatch, At

\* What the runs rs settle are severities.
LEMMA SettleType ==
  ASSUME TypeOK, NEW rs \in SUBSET Runs, Settle(rs)
  PROVE  settled' \in [Keys -> SUBSET Severity]
  <1>1. \A r \in rs, k \in Keys : 1..run[r].deltas[k] \subseteq Severity
    BY ConstantsAssumption DEF TypeOK, Severity
  <1> QED BY <1>1 DEF TypeOK, Settle

\* No run has begun.
LEMMA InitFacts == Init => Facts
  <1> SUFFICES ASSUME Init PROVE Facts
    OBVIOUS
  <1>1. 0 \in Severity
    BY ConstantsAssumption DEF Severity
  <1>2. TypeOK
    <2>1. finding \in [Keys -> Severity]
      BY <1>1 DEF Init, Nothing
    <2>2. run \in [Runs -> RunType]
      BY IdleType DEF Init
    <2>3. faults \in 0..MaxFaults
      BY ConstantsAssumption DEF Init
    <2>4. events \in [Ids ->
           EventType]
      BY DEF Init, EventType
    <2> QED BY <2>1, <2>2, <2>3, <2>4 DEF Init, TypeOK, RunType, EventType
  <1>3. Held
    BY DEF Init, Held, Idle, Creating
  <1> QED BY <1>2, <1>3 DEF Facts

\* Entering a part with nothing in hand.
LEMMA EnterFacts ==
  ASSUME Facts, NEW r \in Runs,
         NEW at \in {"idle", "record", "policies", "due", "create"}, Enter(r, at),
         UNCHANGED chain
  PROVE  /\ run' \in [Runs -> RunType]
         /\ Held'
  <1> DEFINE I == [Idle EXCEPT !.at = at]
  <1>1. /\ I \in RunType
        /\ I.at = at /\ I.deltas = Nothing
    BY IdleType DEF RunType, At, Delta, Evaluating
  <1> HIDE DEF I
  <1>2. run' = [run EXCEPT ![r] = I]
    BY DEF Enter, I
  <1> QED BY <1>1, <1>2 DEF Facts, TypeOK, RunType, Held, Creating

\* Finishing an event of the batch.
LEMMA DropFacts ==
  ASSUME Facts, NEW r \in Runs, NEW e \in Ids, Drop(r, e), UNCHANGED chain
  PROVE  /\ run' \in [Runs -> RunType]
         /\ Held'
         /\ run'[r].at \in {"idle", "escalate"}
         /\ \A f \in Ids : run'[r].batch[f] \in {-1, run[r].batch[f]}
         /\ \A q \in Runs \ {r} : run'[q] = run[q]
  <1> DEFINE b == [run[r].batch EXCEPT ![e] = -1]
             I == Rest(b)
  <1>1. b \in [Ids -> Nat \cup {-1}] /\ \A f \in Ids : b[f] \in {-1, run[r].batch[f]}
    BY DEF Facts, TypeOK
  <1> HIDE DEF b
  <1>2. /\ I \in RunType
        /\ I.at \in {"idle", "escalate"} /\ I.deltas = Nothing /\ I.batch = b
    <2>1. CASE b = NoBatch
      BY <2>1, IdleType DEF Rest, Idle
    <2>2. CASE b # NoBatch
      BY <1>1, <2>2, IdleType DEF Rest, RunType, At
    <2> QED BY <2>1, <2>2
  <1> HIDE DEF I
  <1>3. run' = [run EXCEPT ![r] = I]
    BY DEF Drop, I, b
  <1> QED BY <1>1, <1>2, <1>3 DEF Facts, TypeOK, RunType, Held, Creating

\* Typed variables and what is held are all there is to show.
LEMMA FactsFromParts ==
  ASSUME Facts, UNCHANGED chain, finding' \in [Keys -> Severity],
         settled' \in [Keys -> SUBSET Severity], outdated' \subseteq Runs, recent' \in BOOLEAN,
         events' \in [Ids -> EventType], forgotten' \subseteq Ids,
         run' \in [Runs -> RunType], faults' \in 0..MaxFaults, Held'
  PROVE  Facts'
  <1>1. Steps' = Steps /\ chain' \in Lengths
    BY DEF Facts, TypeOK, Steps
  <1> QED BY <1>1 DEF Facts, TypeOK, RunType, EventType

\* The types, variable by variable.
LEMMA Typed ==
  ASSUME Facts
  PROVE  /\ finding \in [Keys -> Severity] /\ settled \in [Keys -> SUBSET Severity]
         /\ outdated \subseteq Runs /\ recent \in BOOLEAN /\ events \in [Ids -> EventType]
         /\ forgotten \subseteq Ids /\ run \in [Runs -> RunType]
         /\ faults \in 0..MaxFaults /\ chain \in Nat /\ TypeOK
  BY ConstantsAssumption DEF Facts, TypeOK, RunType, EventType

\* The comparison with the history keeps the facts.
LEMMA DeltasFacts ==
  ASSUME Facts, NEW r \in Runs, Deltas(r)
  PROVE  Facts'
  <1>0. TypeOK /\ run[r] \in RunType
    BY Typed
  <1>1. CASE \E rows \in [Keys -> Severity] : Begin(r, rows)
    <2>1. PICK rows \in [Keys -> Severity] : Begin(r, rows)
      BY <1>1
    <2> DEFINE I == [Idle EXCEPT !.at = "findings", !.rows = rows,
                                 !.todo = {k \in Keys : rows[k] >= Threshold}]
    <2>2. /\ I \in RunType /\ I.at = "findings"
          /\ \A k \in I.todo : I.deltas[k] = 0
      BY IdleType DEF RunType, At, Delta, Nothing
    <2> HIDE DEF I
    <2>3. run' = [run EXCEPT ![r] = I]
      BY <2>1 DEF Begin, I
    <2>4. run' \in [Runs -> RunType]
      BY <2>2, <2>3, Typed
    <2>5. Held'
      <3>1. UNCHANGED chain
        BY <2>1 DEF Begin, eventVars
      <3> QED BY <2>2, <2>3, <3>1, Typed DEF Held, Facts, Creating
    <2> QED BY <2>1, <2>4, <2>5, Typed, FactsFromParts DEF Begin, findingVars, eventVars
  <1>2. CASE \E k \in Keys : SelectFinding(r, k)
    <2>1. PICK k \in Keys : SelectFinding(r, k)
      BY <1>2
    <2>2. run' \in [Runs -> RunType]
      <3>1. finding[k] \in Severity /\ "upsert" \in At
        BY Typed DEF At, Delta
      <3> DEFINE I == [run[r] EXCEPT !.at = "upsert", !.key = k, !.prev = finding[k]]
      <3>2. I \in RunType
        BY <1>0, <3>1 DEF RunType
      <3>3. run' = [run EXCEPT ![r] = I]
        BY <2>1 DEF SelectFinding
      <3> HIDE DEF I
      <3> QED BY <3>2, <3>3, Typed
    <2>3. Held'
      BY <2>1, Typed DEF SelectFinding, Held, Facts, Creating, eventVars, RunType
    <2> QED BY <2>1, <2>2, <2>3, Typed, FactsFromParts DEF SelectFinding, findingVars, eventVars
  <1>3. CASE UpsertFinding(r)
    <2> DEFINE k == run[r].key
               d == [run[r].deltas EXCEPT ![k] =
                       IF run[r].prev = 0 \/ run[r].rows[k] > run[r].prev
                       THEN run[r].rows[k] ELSE 0]
    <2>1. k \in Keys /\ k \in run[r].todo /\ run[r].rows[k] \in Severity /\ 0 \in Severity
      BY <1>0, <1>3, ConstantsAssumption DEF UpsertFinding, Store, Facts, Held, RunType, Severity
    <2>2. finding' \in [Keys -> Severity]
      BY <1>3, <2>1, Typed DEF UpsertFinding, Store
    <2>9. settled' \in [Keys -> SUBSET Severity] /\ outdated' \subseteq Runs
      <3>1. 1..run[r].rows[k] \subseteq Severity
        BY <2>1, ConstantsAssumption DEF Severity
      <3> QED BY <1>3, <2>1, <3>1, Typed DEF UpsertFinding, Store
    <2>3. d \in [Keys -> Severity] /\ \A l \in run[r].todo \ {k} : d[l] = 0
      BY <1>0, <1>3, <2>1 DEF UpsertFinding, Store, Facts, Held, RunType
    <2>4. /\ run' = [run EXCEPT ![r].at = "findings", ![r].todo = @ \ {k},
                        ![r].key = "none", ![r].prev = 0, ![r].deltas = d]
          /\ UNCHANGED <<recent, chain, events, forgotten, faults>>
      BY <1>0, <1>3, Typed DEF UpsertFinding, Store, eventVars, RunType
    <2> HIDE DEF d, k
    <2>5. run' \in [Runs -> RunType]
      BY <2>1, <2>3, <2>4, Typed DEF RunType, At, Delta
    <2>6. Held'
      BY <2>3, <2>4, Typed DEF Held, Facts, Creating, RunType
    <2> QED BY <2>2, <2>4, <2>5, <2>6, <2>9, Typed, FactsFromParts
  <1>4. CASE ResolveStaleFindings(r)
    <2>1. /\ finding' \in [Keys -> Severity] /\ settled' \in [Keys -> SUBSET Severity]
          /\ outdated' \subseteq Runs
      BY <1>4, Typed, ConstantsAssumption DEF ResolveStaleFindings, Severity
    <2>2. CASE Enter(r, "idle")
      BY <1>4, <2>1, <2>2, Typed, EnterFacts, FactsFromParts DEF ResolveStaleFindings, eventVars
    <2>3. CASE run' = [run EXCEPT ![r].at = "window", ![r].rows = Nothing]
      <3>1. run' \in [Runs -> RunType]
        BY ZenonT(30), <2>3, Typed, IdleType DEF RunType, At, Delta, Nothing, Severity
      <3>2. Held'
        BY <1>4, <2>3, Typed DEF ResolveStaleFindings, Held, Facts, Creating, RunType, eventVars
      <3> QED BY <1>4, <2>1, <3>1, <3>2, Typed, FactsFromParts DEF ResolveStaleFindings, eventVars
    <2> QED BY <1>4, <2>2, <2>3 DEF ResolveStaleFindings
  <1>5. CASE WasAlertRecentlySent(r)
    <2>1. CASE recent
      BY <1>5, <2>1, Typed, SettleType, EnterFacts, FactsFromParts DEF WasAlertRecentlySent, eventVars
    <2>2. CASE ~recent
      <3>0. /\ run' = [run EXCEPT ![r].at = "send"] /\ "send" \in At
            /\ UNCHANGED chain /\ run[r].at = "window"
        BY <1>5, <2>2 DEF WasAlertRecentlySent, GoTo, eventVars, At, Delta
      <3>1. run' \in [Runs -> RunType]
        BY ZenonT(30), <3>0, Typed DEF RunType
      <3>2. Held'
        BY <3>0, Typed DEF Held, Facts, Creating, RunType
      <3> QED BY <1>5, <2>2, <3>1, <3>2, Typed, FactsFromParts DEF WasAlertRecentlySent, eventVars
    <2> QED BY <2>1, <2>2
  <1>6. CASE \E ok \in BOOLEAN : SendAlert(r, ok)
    BY <1>6, Typed, SettleType, EnterFacts, FactsFromParts DEF SendAlert, eventVars
  <1>7. CASE RecordAlertSent(r)
    BY <1>7, Typed, EnterFacts, FactsFromParts DEF RecordAlertSent, eventVars
  <1> QED BY <1>1, <1>2, <1>3, <1>4, <1>5, <1>6, <1>7 DEF Deltas

\* Holding an event.
LEMMA HoldFacts ==
  ASSUME Facts, NEW r \in Runs, NEW e \in Ids,
         NEW at \in {"resolve", "notify", "arm"},
         run[r].deltas = Nothing, UNCHANGED chain,
         run' = [run EXCEPT ![r] = [@ EXCEPT !.at = at, !.event = e]]
  PROVE  run' \in [Runs -> RunType] /\ Held'
  <1>1. at \in At /\ e \in 0..MaxEvents
    BY DEF At, Evaluating, Creating, Ids
  <1> DEFINE I == [run[r] EXCEPT !.at = at, !.event = e]
  <1>2. I \in RunType /\ I.at = at /\ I.event = e /\ I.deltas = Nothing
    <2>1. run[r] \in RunType
      BY Typed
    <2> QED BY <1>1, <2>1 DEF RunType
  <1>3. run' = [run EXCEPT ![r] = I]
    OBVIOUS
  <1> HIDE DEF I
  <1> QED BY <1>2, <1>3, Typed DEF Held, Facts, Creating

\* An event whose fields keep their types.
LEMMA EventTyped ==
  ASSUME Facts, NEW e \in Ids, NEW E \in EventType, events' = [events EXCEPT ![e] = E]
  PROVE  events' \in [Ids -> EventType]
  BY Typed

\* The evaluation of the policy keeps the facts.
LEMMA PoliciesFacts ==
  ASSUME Facts, NEW r \in Runs, Policies(r)
  PROVE  Facts'
  <1>0. TypeOK /\ run[r] \in RunType
    BY Typed
  <1>1. CASE \E value \in {"off", "missing", "new", "calm", "firing"} : Evaluate(r, value)
    <2>1. /\ UNCHANGED <<finding, settled, outdated, recent, chain, events, forgotten, faults>>
          /\ run[r].at = "policies"
      BY <1>1 DEF Evaluate, findingVars, eventVars
    <2>2. CASE \E at \in {"idle", "due", "create"} : Enter(r, at)
      BY <2>1, <2>2, Typed, EnterFacts, FactsFromParts
    <2>3. CASE \E e \in Open : run' = [run EXCEPT ![r].at = "resolve", ![r].event = e]
      <3>1. PICK e \in Ids : run' = [run EXCEPT ![r].at = "resolve", ![r].event = e]
        BY <2>3 DEF Open
      <3>2. run' = [run EXCEPT ![r] = [@ EXCEPT !.at = "resolve", !.event = e]]
        BY <3>1
      <3>3. run[r].deltas = Nothing
        BY <2>1 DEF Facts, Held
      <3> QED BY <2>1, <3>2, <3>3, Typed, HoldFacts, FactsFromParts
    <2> QED BY <1>1, <2>2, <2>3 DEF Evaluate
  <1>2. CASE ResolveEvent(r)
    <2> DEFINE E == [events[run[r].event] EXCEPT !.status = "resolved", !.everResolved = TRUE]
    <2>1. run[r].event \in Ids
      BY <1>2 DEF ResolveEvent, Facts, Held
    <2>2. E \in EventType
      BY <2>1, Typed DEF EventType
    <2>3. events' = [events EXCEPT ![run[r].event] = E]
      BY <1>2 DEF ResolveEvent
    <2>4. events' \in [Ids -> EventType]
      BY <2>1, <2>2, <2>3, EventTyped
    <2> QED BY <1>2, <2>4, Typed, EnterFacts, FactsFromParts DEF ResolveEvent, findingVars
  <1>3. CASE NoRoom(r)
    BY <1>3, Typed, EnterFacts, FactsFromParts DEF NoRoom, findingVars, eventVars
  <1>4. CASE Notify(r)
    <2> DEFINE E == [events[run[r].event] EXCEPT !.first = TRUE]
    <2>1. run[r].event \in Ids /\ run[r].deltas = Nothing
      BY <1>4 DEF Notify, Facts, Held, Creating
    <2>2. E \in EventType
      BY <2>1, Typed DEF EventType
    <2>3. events' = [events EXCEPT ![run[r].event] = E]
      BY <1>4 DEF Notify
    <2>4. events' \in [Ids -> EventType]
      BY <2>1, <2>2, <2>3, EventTyped
    <2>5. CASE Enter(r, "due")
      BY <1>4, <2>4, <2>5, Typed, EnterFacts, FactsFromParts DEF Notify, findingVars
    <2>6. CASE GoTo(r, "arm")
      <3>1. run' = [run EXCEPT ![r] = [@ EXCEPT !.at = "arm", !.event = run[r].event]]
        BY <1>0, <2>6, Typed DEF GoTo, RunType
      <3> QED BY <1>4, <2>1, <2>4, <3>1, Typed, HoldFacts, FactsFromParts DEF Notify, findingVars
    <2> QED BY <1>4, <2>5, <2>6 DEF Notify
  <1>5. CASE StartEscalation(r)
    <2> DEFINE E == [events[run[r].event] EXCEPT !.step = 0, !.status = "escalated",
                                                 !.timer = TRUE]
    <2>1. run[r].event \in Ids
      BY <1>5 DEF StartEscalation, Facts, Held, Creating
    <2>2. E \in EventType
      BY <2>1, Typed DEF EventType
    <2>3. events' = [events EXCEPT ![run[r].event] = E]
      BY <1>5 DEF StartEscalation, AdvanceEscalation
    <2>4. events' \in [Ids -> EventType]
      BY <2>1, <2>2, <2>3, EventTyped
    <2> QED BY <1>5, <2>4, Typed, EnterFacts, FactsFromParts DEF StartEscalation, findingVars
  <1>6. CASE \E e \in Ids : CreateEvent(r, e)
    <2>0. PICK e \in Ids : CreateEvent(r, e)
      BY <1>6
    <2> DEFINE E == [events[e] EXCEPT !.status = "triggered"]
    <2>1. E \in EventType
      BY Typed DEF EventType
    <2>2. events' = [events EXCEPT ![e] = E]
      BY <2>0 DEF CreateEvent
    <2>3. events' \in [Ids -> EventType]
      BY <2>1, <2>2, EventTyped
    <2>4. run[r].deltas = Nothing
      BY <2>0 DEF CreateEvent, Facts, Held
    <2>5. run' = [run EXCEPT ![r] = [@ EXCEPT !.at = "notify", !.event = e]]
      BY <2>0 DEF CreateEvent
    <2> QED BY <2>0, <2>3, <2>4, <2>5, Typed, HoldFacts, FactsFromParts DEF CreateEvent, findingVars
  <1> QED BY <1>1, <1>2, <1>3, <1>4, <1>5, <1>6 DEF Policies

\* So do the escalations: a step that is notified is in the chain.
LEMMA EscalationsFacts ==
  ASSUME Facts, NEW r \in Runs, Escalations(r)
  PROVE  Facts'
  <1>0. TypeOK /\ run[r] \in RunType /\ chain \in Nat
    BY Typed
  <1>1. CASE \E passed \in SUBSET Armed : GetDueEscalations(r, passed)
    <2>1. PICK passed \in SUBSET Armed : GetDueEscalations(r, passed)
      BY <1>1
    <2> DEFINE b == [e \in Ids |-> IF e \in passed THEN events[e].step ELSE -1]
               I == Rest(b)
    <2>2. b \in [Ids -> Nat \cup {-1}]
      BY Typed DEF EventType
    <2> HIDE DEF b
    <2>3. I \in RunType /\ I.at \in {"idle", "escalate"} /\ I.deltas = Nothing
      <3>1. CASE b = NoBatch
        BY <3>1, IdleType DEF Rest
      <3>2. CASE b # NoBatch
        BY <2>2, <3>2, IdleType DEF Rest, RunType, At
      <3> QED BY <3>1, <3>2
    <2> HIDE DEF I
    <2>4. run' = [run EXCEPT ![r] = I] /\ UNCHANGED <<findingVars, eventVars, faults>>
      BY <2>1 DEF GetDueEscalations, I, b
    <2>5. run' \in [Runs -> RunType]
      BY <2>3, <2>4, Typed
    <2>6. Held'
      BY <2>3, <2>4, Typed DEF Held, Facts, Creating, eventVars
    <2> QED BY <2>4, <2>5, <2>6, Typed, FactsFromParts DEF findingVars, eventVars
  <1>2. CASE \E e \in Ids : ClearEscalationTimer(r, e)
    <2>0. PICK e \in Ids : ClearEscalationTimer(r, e)
      BY <1>2
    <2> DEFINE E == [events[e] EXCEPT !.timer = FALSE]
    <2>1. E \in EventType
      BY Typed DEF EventType
    <2>2. events' = [events EXCEPT ![e] = E]
      BY <2>0 DEF ClearEscalationTimer
    <2>3. events' \in [Ids -> EventType]
      BY <2>1, <2>2, EventTyped
    <2> QED BY <2>0, <2>3, Typed, DropFacts, FactsFromParts DEF ClearEscalationTimer, findingVars
  <1>3. CASE \E e \in Ids : NotifyStep(r, e)
    <2>0. PICK e \in Ids : NotifyStep(r, e)
      BY <1>3
    <2> DEFINE n == run[r].batch[e] + 1
               E == [events[e] EXCEPT !.notified = @ \cup {n}]
               I == [run[r] EXCEPT !.at = "advance", !.event = e]
    <2>1. run[r].batch[e] \in Nat /\ n < chain /\ n \in Steps
      BY <1>0, <2>0 DEF NotifyStep, RunType, Steps
    <2>2. E \in EventType
      BY <2>1, Typed DEF EventType
    <2>3. events' = [events EXCEPT ![e] = E]
      BY <2>0 DEF NotifyStep
    <2>4. events' \in [Ids -> EventType]
      BY <2>2, <2>3, EventTyped
    <2>5. /\ I \in RunType /\ I.at = "advance" /\ I.event = e
          /\ I.batch = run[r].batch /\ I.deltas = run[r].deltas
      <3>1. e \in 0..MaxEvents /\ "advance" \in At
        BY DEF At, Ids
      <3> QED BY <1>0, <3>1 DEF RunType
    <2>6. I.deltas = Nothing
      BY <2>0, <2>5 DEF NotifyStep, Facts, Held
    <2>7. run' = [run EXCEPT ![r] = I] /\ UNCHANGED chain
      BY <2>0 DEF NotifyStep
    <2> HIDE DEF I
    <2>8. run' \in [Runs -> RunType]
      BY <2>5, <2>7, Typed
    <2>9. Held'
      BY <2>1, <2>5, <2>6, <2>7, Typed DEF Held, Facts, Creating
    <2> QED BY <2>0, <2>4, <2>8, <2>9, Typed, FactsFromParts DEF NotifyStep, findingVars
  <1>4. CASE Advance(r)
    <2> DEFINE e == run[r].event
               n == run[r].batch[e] + 1
    <2>1. e \in Ids /\ n \in Nat
      BY <1>0, <1>4 DEF Advance, Facts, Held, RunType
    <2>2. events' \in [Ids -> EventType]
      <3>1. CASE AdvanceEscalation(e, n)
        <4> DEFINE E == [events[e] EXCEPT !.step = n, !.status = "escalated", !.timer = TRUE]
        <4>1. E \in EventType
          BY <2>1, Typed DEF EventType
        <4>2. events' = [events EXCEPT ![e] = E]
          BY <3>1 DEF AdvanceEscalation
        <4> HIDE DEF E, e
        <4> QED BY <2>1, <4>1, <4>2, EventTyped
      <3>2. CASE SetEscalationStep(e, n)
        <4> DEFINE E == [events[e] EXCEPT !.step = n, !.timer = FALSE]
        <4>1. E \in EventType
          BY <2>1, Typed DEF EventType
        <4>2. events' = [events EXCEPT ![e] = E]
          BY <3>2 DEF SetEscalationStep
        <4> HIDE DEF E, e
        <4> QED BY <2>1, <4>1, <4>2, EventTyped
      <3> QED BY <1>4, <3>1, <3>2 DEF Advance
    <2> QED BY <1>4, <2>1, <2>2, Typed, DropFacts, FactsFromParts DEF Advance, findingVars
  <1> QED BY <1>1, <1>2, <1>3, <1>4 DEF Escalations

\* A failure and a restart keep them.
LEMMA FailuresFacts ==
  ASSUME Facts, \/ \E r \in Runs : RunFails(r)
                \/ CloudRestart
  PROVE  Facts'
  <1>0. faults \in Nat /\ MaxFaults \in Nat
    BY Typed, ConstantsAssumption
  <1>1. CASE \E r \in Runs : RunFails(r)
    <2>1. PICK r \in Runs : RunFails(r)
      BY <1>1
    <2>2. /\ UNCHANGED <<finding, recent, chain, events>>
          /\ outdated' \subseteq Runs /\ faults' \in 0..MaxFaults
          /\ settled' \in [Keys -> SUBSET Severity]
      BY <1>0, <2>1, Typed, SettleType DEF RunFails
    <2>3. forgotten' \subseteq Ids
      BY <2>1, Typed DEF RunFails, Unarmed, Facts, Held
    <2>4. CASE \E at \in {"idle", "policies", "due"} : Enter(r, at)
      BY <2>2, <2>3, <2>4, Typed, EnterFacts, FactsFromParts
    <2>5. CASE \E e \in Ids : Drop(r, e)
      BY <2>2, <2>3, <2>5, Typed, DropFacts, FactsFromParts
    <2>6. run[r].at = "advance" => run[r].event \in Ids
      BY DEF Facts, Held
    <2> QED BY <2>1, <2>4, <2>5, <2>6 DEF RunFails
  <1>2. CASE CloudRestart
    <2>1. /\ UNCHANGED <<finding, recent, chain, events>>
          /\ outdated' \subseteq Runs /\ faults' \in 0..MaxFaults
          /\ settled' \in [Keys -> SUBSET Severity]
      BY <1>0, <1>2, Typed, SettleType DEF CloudRestart
    <2>2. forgotten' \subseteq Ids
      BY <1>2, Typed DEF CloudRestart, Unarmed, Facts, Held
    <2>3. run' \in [Runs -> RunType]
      BY <1>2, IdleType DEF CloudRestart
    <2>4. Held'
      BY <1>2, IdleType DEF CloudRestart, Held, Creating, Idle
    <2> QED BY <2>1, <2>2, <2>3, <2>4, Typed, FactsFromParts
  <1> QED BY <1>1, <1>2

\* And what happens outside the runs.
LEMMA WorldFacts ==
  ASSUME Facts, \/ \E e \in Ids : AcknowledgeEvent(e)
                \/ WindowPasses
                \/ UNCHANGED vars
  PROVE  Facts'
  <1>1. CASE \E e \in Ids : AcknowledgeEvent(e)
    <2>0. PICK e \in Ids : AcknowledgeEvent(e)
      BY <1>1
    <2> DEFINE E == [events[e] EXCEPT !.status = "acknowledged"]
    <2>1. E \in EventType
      BY Typed DEF EventType
    <2>2. events' = [events EXCEPT ![e] = E]
      BY <2>0 DEF AcknowledgeEvent
    <2>3. events' \in [Ids -> EventType]
      BY <2>1, <2>2, EventTyped
    <2> QED BY <2>0, <2>3, Typed, FactsFromParts DEF AcknowledgeEvent, findingVars, Held, Facts
  <1>2. CASE WindowPasses \/ UNCHANGED vars
    BY <1>2, Typed, FactsFromParts DEF WindowPasses, findingVars, eventVars, vars, Held, Facts
  <1> QED BY <1>1, <1>2

\* Every step.
LEMMA NextFacts == Facts /\ [Next]_vars => Facts'
  BY DeltasFacts, PoliciesFacts, EscalationsFacts, FailuresFacts, WorldFacts DEF Next

\* The facts hold in every state.
LEMMA FactsAlways == Spec => []Facts
  BY InitFacts, NextFacts, PTL DEF Spec

\* Type correctness of the findings, the events and the runs: in particular no
\* level beyond the end of the chain is ever notified, although each run goes
\* by the escalation_step it read (runDueEscalations).
THEOREM AlertTypes == Spec => []TypeOK
  BY FactsAlways, PTL DEF Facts
-----------------------------------------------------------------------------
(* No severity is forgotten *)

\* No alert is due for severity s of k, or a run in progress holds it.
Cover(k, s) == \/ 1..s \subseteq settled[k]
               \/ \E r \in Runs : s <= run[r].deltas[k]

\* The severity of each finding is covered, and the one that a run compares
\* with its own row: were the stored severity covered but not the one read,
\* the run would take an alert for decided that nobody will send.  Runs that read
\* it before it resolved do just that, and what they store is excused.
Covered ==
    /\ \A k \in Keys : Cover(k, finding[k])
    /\ \A r \in Runs : run[r].at = "upsert" /\ r \notin outdated =>
           Cover(run[r].key, run[r].prev)

\* What a run that starts a part anew holds.
LEMMA EnterFields ==
  ASSUME Facts, NEW r \in Runs, NEW at, Enter(r, at)
  PROVE  /\ run'[r].at = at /\ run'[r].event = 0
         /\ run'[r].deltas = Nothing /\ run'[r].batch = NoBatch
         /\ \A q \in Runs \ {r} : run'[q] = run[q]
  BY Typed DEF Enter, Idle

\* A run that finishes an event holds no deltas.
LEMMA DropFields ==
  ASSUME Facts, NEW r \in Runs, NEW e, Drop(r, e)
  PROVE  /\ run'[r].at \in {"idle", "escalate"} /\ run'[r].deltas = Nothing
         /\ \A q \in Runs \ {r} : run'[q] = run[q]
  BY Typed DEF Drop, Rest, Idle

\* No delta of k is given up undecided, and no new one is due in a severity
\* that was read: what was covered stays covered.
Kept ==
    /\ \A k \in Keys : settled[k] \subseteq settled'[k]
    /\ \A r \in Runs, k \in Keys : \/ run'[r].deltas[k] = run[r].deltas[k]
                                   \/ 1..run[r].deltas[k] \subseteq settled'[k]

\* What is covered stays so when deltas are kept or settled.
LEMMA CoverKept ==
  ASSUME Facts, Facts', Kept
  PROVE  \A k \in Keys : \A s \in Severity : Cover(k, s) => Cover(k, s)'
  <1> SUFFICES ASSUME NEW k \in Keys, NEW s \in Severity, Cover(k, s)
               PROVE  Cover(k, s)'
    OBVIOUS
  <1>1. CASE 1..s \subseteq settled[k]
    BY <1>1 DEF Cover, Kept
  <1>2. CASE \E r \in Runs : s <= run[r].deltas[k]
    <2>1. PICK r \in Runs : s <= run[r].deltas[k]
      BY <1>2
    <2>2. CASE run'[r].deltas[k] = run[r].deltas[k]
      BY <2>1, <2>2 DEF Cover
    <2>3. CASE 1..run[r].deltas[k] \subseteq settled'[k]
      <3>1. run[r].deltas[k] \in Nat /\ s \in Nat
        BY Typed, ConstantsAssumption DEF RunType, Severity
      <3>2. 1..s \subseteq 1..run[r].deltas[k]
        BY <2>1, <3>1
      <3> QED BY <2>3, <3>2 DEF Cover
    <2> QED BY <2>2, <2>3 DEF Kept
  <1> QED BY <1>1, <1>2 DEF Cover

\* Settling the deltas of a run lets go of them.
LEMMA SettleKeeps ==
  ASSUME Facts, NEW rs \in SUBSET Runs, Settle(rs)
  PROVE  /\ \A k \in Keys : settled[k] \subseteq settled'[k]
         /\ \A r \in rs, k \in Keys : 1..run[r].deltas[k] \subseteq settled'[k]
  BY Typed DEF Settle

\* A run without deltas has none to let go of.
LEMMA NothingKeeps ==
  ASSUME Facts, NEW r \in Runs, run[r].deltas = Nothing
  PROVE  \A k \in Keys : 1..run[r].deltas[k] = {}
  BY DEF Nothing

\* Every step but the end of findings keeps or settles its deltas.
LEMMA NextKeeps ==
  Facts /\ [Next]_vars => Kept \/ \E r \in Runs : ResolveStaleFindings(r)
  <1> SUFFICES ASSUME Facts, [Next]_vars, \A r \in Runs : ~ResolveStaleFindings(r)
               PROVE  Kept
    OBVIOUS
  <1>0. settled \in [Keys -> SUBSET Severity]
    BY Typed
  <1>1. ASSUME NEW r \in Runs, Deltas(r) PROVE Kept
    <2>1. CASE \E rows \in [Keys -> Severity] : Begin(r, rows)
      <3>1. run[r].deltas = Nothing /\ settled' = settled
            /\ \A q \in Runs \ {r} : run'[q] = run[q]
        BY <2>1, Typed DEF Begin, Facts, Held, findingVars
      <3> QED BY <3>1, NothingKeeps DEF Kept
    <2>2. CASE UpsertFinding(r)
      <3>1. /\ \A k \in Keys : settled[k] \subseteq settled'[k]
            /\ \A q \in Runs \ {r} : run'[q] = run[q]
        BY <2>2, Typed DEF UpsertFinding, Store
      <3>2. run[r].key \in Keys /\ run[r].deltas[run[r].key] = 0
        BY <2>2, Typed DEF UpsertFinding, Store, Facts, Held, RunType
      <3>3. \A k \in Keys \ {run[r].key} : run'[r].deltas[k] = run[r].deltas[k]
        BY <2>2, Typed DEF UpsertFinding, Store, RunType
      <3> QED BY <3>1, <3>2, <3>3 DEF Kept
    <2>4. CASE \E k \in Keys : SelectFinding(r, k)
      BY <2>4, Typed DEF SelectFinding, Kept, findingVars, RunType
    <2>5. CASE WasAlertRecentlySent(r)
      <3>1. CASE recent
        BY <2>5, <3>1, SettleKeeps, EnterFields DEF WasAlertRecentlySent, Kept
      <3>2. CASE ~recent
        BY <2>5, <3>2, Typed DEF WasAlertRecentlySent, GoTo, Kept, RunType
      <3> QED BY <3>1, <3>2
    <2>6. CASE \E ok \in BOOLEAN : SendAlert(r, ok)
      BY <2>6, SettleKeeps, EnterFields DEF SendAlert, Kept
    <2>7. CASE RecordAlertSent(r)
      <3>1. run[r].deltas = Nothing /\ settled' = settled
        BY <2>7 DEF RecordAlertSent, Facts, Held
      <3> QED BY <2>7, <3>1, NothingKeeps, EnterFields DEF RecordAlertSent, Kept
    <2> QED BY <1>1, <2>1, <2>2, <2>4, <2>5, <2>6, <2>7 DEF Deltas
  <1>2. ASSUME NEW r \in Runs, Policies(r) \/ Escalations(r) PROVE Kept
    <2>1. settled' = settled /\ run[r].deltas = Nothing
      <3>1. settled' = settled
        BY <1>2 DEF Policies, Escalations, Evaluate, ResolveEvent, NoRoom, Notify,
              StartEscalation, CreateEvent, GetDueEscalations, Advance,
              ClearEscalationTimer, NotifyStep, findingVars
      <3>2. run[r].at \notin {"findings", "upsert", "window", "send"}
        BY <1>2 DEF Policies, Escalations, Evaluate, ResolveEvent, NoRoom, Notify,
              StartEscalation, CreateEvent, GetDueEscalations, Advance,
              ClearEscalationTimer, NotifyStep
      <3> QED BY <3>1, <3>2 DEF Facts, Held
    <2>2. \A q \in Runs \ {r} : run'[q] = run[q]
      <3>1. run' = [run EXCEPT ![r] = run'[r]]
        BY <1>2, Typed DEF Policies, Escalations, Evaluate, ResolveEvent, NoRoom, Notify,
              StartEscalation, CreateEvent, GetDueEscalations, Advance,
              ClearEscalationTimer, NotifyStep, Enter, GoTo, Drop
      <3> QED BY <3>1, Typed
    <2> QED BY <2>1, <2>2, NothingKeeps DEF Kept
  <1>3. ASSUME NEW r \in Runs, RunFails(r) PROVE Kept
    <2>1. \A q \in Runs \ {r} : run'[q] = run[q]
      BY <1>3, EnterFields, DropFields DEF RunFails
    <2> QED BY <1>3, <2>1, SettleKeeps DEF RunFails, Kept
  <1>4. CASE \/ \E e \in Ids : AcknowledgeEvent(e)
             \/ WindowPasses
             \/ UNCHANGED vars
    BY <1>4 DEF AcknowledgeEvent, WindowPasses, vars, Kept, findingVars
  <1>5. CASE CloudRestart
    BY <1>5, SettleKeeps DEF CloudRestart, Kept
  <1> QED BY <1>1, <1>2, <1>3, <1>4, <1>5 DEF Next

\* A severity of 0 needs no alert, and a lesser one no other alert.
LEMMA CoverDown ==
  ASSUME Facts
  PROVE  \A k \in Keys : /\ Cover(k, 0)
                         /\ \A s, t \in Severity : s <= t /\ Cover(k, t) => Cover(k, s)
  <1> SUFFICES ASSUME NEW k \in Keys
               PROVE  /\ Cover(k, 0)
                      /\ \A s, t \in Severity : s <= t /\ Cover(k, t) => Cover(k, s)
    OBVIOUS
  <1>1. Cover(k, 0)
    BY DEF Cover
  <1>2. ASSUME NEW s \in Severity, NEW t \in Severity, s <= t, Cover(k, t)
        PROVE  Cover(k, s)
    <2>1. s \in Nat /\ t \in Nat /\ \A r \in Runs : run[r].deltas[k] \in Nat
      BY Typed, ConstantsAssumption DEF Severity, RunType
    <2>2. 1..s \subseteq 1..t
      BY <1>2, <2>1
    <2> QED BY <1>2, <2>1, <2>2 DEF Cover
  <1> QED BY <1>1, <1>2

\* A step that stores no severity and resolves none leaves the findings, and what
\* the runs have read, or reads what is stored.
Reads ==
    /\ finding' = finding
    /\ \A r \in Runs : run'[r].at = "upsert" =>
           \/ /\ run[r].at = "upsert" /\ (r \in outdated => r \in outdated')
              /\ run'[r].key = run[r].key /\ run'[r].prev = run[r].prev
           \/ run'[r].key \in Keys /\ run'[r].prev = finding[run'[r].key]

\* Only upsertFinding stores a severity, and resolveStaleFindings removes it.
LEMMA NextReads ==
  Facts /\ [Next]_vars =>
      Reads \/ \E r \in Runs : UpsertFinding(r) \/ ResolveStaleFindings(r)
  <1> SUFFICES ASSUME Facts, [Next]_vars,
                      \A r \in Runs : ~UpsertFinding(r) /\ ~ResolveStaleFindings(r)
               PROVE  Reads
    OBVIOUS
  <1>1. ASSUME NEW r \in Runs, Deltas(r) PROVE Reads
    <2>1. CASE \E rows \in [Keys -> Severity] : Begin(r, rows)
      BY <2>1, Typed DEF Begin, Reads, findingVars
    <2>3. CASE \E k \in Keys : SelectFinding(r, k)
      BY <2>3, Typed DEF SelectFinding, Reads, findingVars, RunType
    <2>4. CASE WasAlertRecentlySent(r)
      <3>1. \A q \in Runs : run'[q] = run[q] \/ run'[q].at \in {"idle", "send"}
        BY <2>4, EnterFields, Typed DEF WasAlertRecentlySent, GoTo, RunType
      <3> QED BY <2>4, <3>1 DEF WasAlertRecentlySent, Reads
    <2>5. CASE \E ok \in BOOLEAN : SendAlert(r, ok)
      BY <2>5, EnterFields DEF SendAlert, Reads
    <2>6. CASE RecordAlertSent(r)
      BY <2>6, EnterFields DEF RecordAlertSent, Reads
    <2> QED BY <1>1, <2>1, <2>3, <2>4, <2>5, <2>6 DEF Deltas
  <1>2. ASSUME NEW r \in Runs, Policies(r) PROVE Reads
    <2>1. finding' = finding /\ outdated' = outdated
      BY <1>2 DEF Policies, Evaluate, ResolveEvent, NoRoom, Notify,
            StartEscalation, CreateEvent, findingVars
    <2>2. \A q \in Runs : run'[q] = run[q] \/ run'[q].at # "upsert"
      <3>1. CASE \E at \in {"idle", "due", "create"} : Enter(r, at)
        BY <3>1, EnterFields
      <3>2. CASE \E at \in {"resolve", "notify", "arm"} :
                   \/ run' = [run EXCEPT ![r].at = at]
                   \/ \E e \in Ids : run' = [run EXCEPT ![r].at = at, ![r].event = e]
        BY <3>2, Typed DEF RunType
      <3> QED BY <1>2, <3>1, <3>2 DEF Policies, Evaluate, ResolveEvent, NoRoom, Notify,
            StartEscalation, CreateEvent, GoTo, Open
    <2> QED BY <2>1, <2>2 DEF Reads
  <1>3. ASSUME NEW r \in Runs, Escalations(r) PROVE Reads
    <2>1. finding' = finding /\ outdated' = outdated
      BY <1>3 DEF Escalations, GetDueEscalations, Advance, ClearEscalationTimer,
            NotifyStep, findingVars
    <2>2. \A q \in Runs : run'[q] = run[q] \/ run'[q].at # "upsert"
      <3>1. CASE \E e : Drop(r, e)
        BY <3>1, DropFields
      <3>2. CASE \E b : run' = [run EXCEPT ![r] = Rest(b)]
        BY <3>2, Typed DEF Rest, Idle
      <3>3. CASE \E e \in Ids : run' = [run EXCEPT ![r].at = "advance", ![r].event = e]
        BY <3>3, Typed DEF RunType
      <3> QED BY <1>3, <3>1, <3>2, <3>3 DEF Escalations, GetDueEscalations, Advance,
            ClearEscalationTimer, NotifyStep
    <2> QED BY <2>1, <2>2 DEF Reads
  <1>4. ASSUME NEW r \in Runs, RunFails(r) PROVE Reads
    BY <1>4, EnterFields, DropFields DEF RunFails, Reads
  <1>5. CASE \/ \E e \in Ids : AcknowledgeEvent(e)
             \/ WindowPasses
             \/ UNCHANGED vars
    <2>1. finding' = finding /\ run' = run /\ outdated' = outdated
      BY <1>5 DEF AcknowledgeEvent, WindowPasses, vars, findingVars
    <2> QED BY <2>1 DEF Reads
  <1>6. CASE CloudRestart
    BY <1>6, IdleType DEF CloudRestart, Reads
  <1> QED BY <1>1, <1>2, <1>3, <1>4, <1>5, <1>6 DEF Next

\* What is stored and what is read stays covered.
LEMMA ReadsCovered ==
  ASSUME Facts, Facts', Covered, Kept, Reads
  PROVE  Covered'
  <1>1. \A k \in Keys : \A s \in Severity : Cover(k, s) => Cover(k, s)'
    BY CoverKept
  <1>2. \A k \in Keys : finding[k] \in Severity
    BY Typed
  <1>3. \A k \in Keys : Cover(k, finding[k])'
    BY <1>1, <1>2 DEF Reads, Covered, Cover
  <1>4. ASSUME NEW r \in Runs, run'[r].at = "upsert", r \notin outdated'
        PROVE  Cover(run[r].key, run[r].prev)'
    <2>1. CASE /\ run[r].at = "upsert" /\ r \notin outdated
               /\ run'[r].key = run[r].key /\ run'[r].prev = run[r].prev
      <3>1. run[r].key \in Keys /\ run[r].prev \in Severity
        BY <2>1, Typed DEF RunType, Facts, Held
      <3> QED BY <1>1, <2>1, <3>1 DEF Covered, Cover
    <2>2. CASE run'[r].key \in Keys /\ run'[r].prev = finding[run'[r].key]
      BY <1>1, <1>2, <2>2 DEF Covered, Cover
    <2> QED BY <1>4, <2>1, <2>2 DEF Reads
  <1> QED BY <1>3, <1>4 DEF Covered

\* What is stored without a delta was covered when it was read, unless that is
\* outdated.
LEMMA UpsertCovered ==
  ASSUME Facts, Facts', Covered, Kept, NEW r \in Runs, UpsertFinding(r)
  PROVE  Covered'
  <1>1. \A k \in Keys : \A s \in Severity : Cover(k, s) => Cover(k, s)'
    BY CoverKept
  <1>2. PICK k \in Keys, s \in Severity, p \in Severity :
            k = run[r].key /\ s = run[r].rows[k] /\ p = run[r].prev
    BY Typed DEF UpsertFinding, Store, Facts, Held, RunType
  <1>3. s \in Nat /\ p \in Nat
    BY <1>2, ConstantsAssumption DEF Severity
  <1>4. finding'[k] \in {0, s} /\ \A l \in Keys \ {k} : finding'[l] = finding[l]
    BY <1>2, Typed DEF UpsertFinding, Store
  <1>5. Cover(k, finding[k])'
    <2>1. CASE finding'[k] = 0
      BY <2>1 DEF Cover
    <2>2. CASE p = 0 \/ s > p
      <3>1. run'[r].deltas[k] = s
        BY <1>2, <2>2, Typed DEF UpsertFinding, Store, RunType
      <3> QED BY <1>3, <1>4, <3>1, <2>1 DEF Cover
    <2>3. CASE ~(p = 0 \/ s > p) /\ r \notin outdated
      <3>1. Cover(k, p)
        BY <1>2, <2>3 DEF UpsertFinding, Store, Covered
      <3>2. Cover(k, s)
        BY <1>2, <1>3, <2>3, <3>1, CoverDown
      <3>3. Cover(k, s)'
        BY <1>1, <1>2, <3>2
      <3> QED BY <1>4, <2>1, <3>3 DEF Cover
    <2>4. CASE ~(p = 0 \/ s > p) /\ r \in outdated /\ finding'[k] # 0
      <3>1. finding[k] # 0 /\ finding'[k] = s
        BY <1>2, <1>4, <2>4, Typed DEF UpsertFinding, Store
      <3>2. 1..s \subseteq settled'[k]
        BY <1>2, <2>4, <3>1, Typed DEF UpsertFinding, Store
      <3> QED BY <3>1, <3>2 DEF Cover
    <2> QED BY <2>1, <2>2, <2>3, <2>4
  <1>6. \A l \in Keys : Cover(l, finding[l])'
    BY <1>1, <1>4, <1>5, Typed DEF Covered, Cover
  <1>7. ASSUME NEW q \in Runs, run'[q].at = "upsert", q \notin outdated'
        PROVE  Cover(run[q].key, run[q].prev)'
    <2>1. run'[q] = run[q] /\ run[q].at = "upsert" /\ q \notin outdated
      BY <1>7, Typed DEF UpsertFinding, Store, RunType
    <2>2. run[q].key \in Keys /\ run[q].prev \in Severity
      BY <2>1, Typed DEF RunType, Facts, Held
    <2> QED BY <1>1, <2>1, <2>2 DEF Covered, Cover
  <1> QED BY <1>6, <1>7 DEF Covered

\* What is resolved needs no alert; the runs that have read it are outdated.
LEMMA ResolveCovered ==
  ASSUME Facts, Facts', Covered, NEW r \in Runs, ResolveStaleFindings(r)
  PROVE  Covered'
  <1> DEFINE gone == {k \in Keys : run[r].rows[k] = 0}
  <1>1. /\ \A k \in gone : finding'[k] = 0
        /\ \A k \in Keys \ gone : finding'[k] = finding[k] /\ settled'[k] = settled[k]
        /\ outdated' = outdated \cup {q \in Runs : run[q].prev # 0 /\ run[q].key \in gone}
    BY Typed DEF ResolveStaleFindings
  <1>2. /\ run'[r].at \in {"idle", "window"} /\ run'[r].deltas = run[r].deltas
        /\ \A q \in Runs \ {r} : run'[q] = run[q]
    <2>1. CASE Enter(r, "idle")
      BY <2>1, EnterFields, Typed DEF ResolveStaleFindings, RunType
    <2>2. CASE run' = [run EXCEPT ![r].at = "window", ![r].rows = Nothing]
      BY <2>2, Typed DEF RunType
    <2> QED BY <2>1, <2>2, Typed DEF ResolveStaleFindings
  <1> HIDE DEF gone
  <1>3. \A q \in Runs : run'[q].deltas = run[q].deltas
    BY <1>2
  <1>4. \A k \in Keys \ gone : \A s \in Severity : Cover(k, s) => Cover(k, s)'
    BY <1>1, <1>3 DEF Cover
  <1>5. \A k \in Keys : Cover(k, 0)'
    BY DEF Cover
  <1>6. ASSUME NEW k \in Keys PROVE Cover(k, finding[k])'
    <2>1. CASE k \in gone
      BY <1>1, <1>5, <2>1 DEF Cover
    <2>2. CASE k \notin gone
      BY <1>1, <1>4, <2>2, Typed DEF Covered, Cover
    <2> QED BY <2>1, <2>2
  <1>7. ASSUME NEW q \in Runs, run'[q].at = "upsert", q \notin outdated'
        PROVE  Cover(run[q].key, run[q].prev)'
    <2>1. run'[q] = run[q] /\ run[q].at = "upsert" /\ q \notin outdated
      BY <1>1, <1>2, <1>7
    <2>2. run[q].key \in Keys /\ run[q].prev \in Severity
      BY <2>1, Typed DEF RunType, Facts, Held
    <2>3. CASE run[q].prev = 0
      BY <1>5, <2>1, <2>2, <2>3 DEF Cover
    <2>4. CASE run[q].key \notin gone
      BY <1>4, <2>1, <2>2, <2>4 DEF Covered, Cover
    <2> QED BY <1>1, <1>7, <2>3, <2>4
  <1> QED BY <1>6, <1>7 DEF Covered

\* Every step keeps what is stored and what is read covered.
LEMMA NextCovered == Facts /\ Covered /\ [Next]_vars => Covered'
  <1> SUFFICES ASSUME Facts, Covered, [Next]_vars PROVE Covered'
    OBVIOUS
  <1>1. Facts'
    BY NextFacts
  <1>2. CASE \E r \in Runs : ResolveStaleFindings(r)
    BY <1>1, <1>2, ResolveCovered
  <1>3. CASE \A r \in Runs : ~ResolveStaleFindings(r)
    <2>1. Kept
      BY <1>3, NextKeeps
    <2>2. Reads \/ \E r \in Runs : UpsertFinding(r)
      BY <1>3, NextReads
    <2> QED BY <1>1, <2>1, <2>2, ReadsCovered, UpsertCovered
  <1> QED BY <1>2, <1>3

\* No overlap of two runs of one connection loses an alert: since a finding last
\* resolved, the alert for its severity has been decided, or is in the deltas of
\* a run, or an outdated run stored it (runDeltaForConnection, upsertFinding).
THEOREM SeveritiesAreSettled == Spec => []NoSeverityForgotten
  <1>1. Init => Covered
    <2>1. Init => \A k \in Keys : finding[k] = 0 /\ 1..0 \subseteq settled[k]
      BY DEF Init, Nothing
    <2>2. Init => \A r \in Runs : run[r].at # "upsert"
      BY DEF Init, Idle
    <2> QED BY <2>1, <2>2 DEF Covered, Cover
  <1>2. Covered => NoSeverityForgotten
    BY DEF Covered, Cover, NoSeverityForgotten
  <1> QED BY <1>1, <1>2, InitFacts, NextFacts, NextCovered, PTL DEF Spec
-----------------------------------------------------------------------------
(* No step of the chain is skipped *)

Holding == {"resolve", "advance"} \cup Creating

\* The first notice and the steps up to n, but for step 0, have been notified.
UpTo(E, n) == E.first /\ 1..n \subseteq E.notified

\* So it is for each step that has been notified, and for escalation_step while
\* the timer is set.
EventPaced(e) ==
    /\ \A s \in events[e].notified : UpTo(events[e], s)
    /\ events[e].timer => UpTo(events[e], events[e].step)

\* So it is for the step that a run read, however old it is.
RunPaced(r) ==
    /\ \A e \in Ids : run[r].batch[e] # -1 =>
           events[e].status # "none" /\ UpTo(events[e], run[r].batch[e])
    /\ run[r].at \in Holding => events[run[r].event].status # "none"
    /\ run[r].at = "arm" => events[run[r].event].first
    /\ run[r].at = "advance" =>
           UpTo(events[run[r].event], run[r].batch[run[r].event] + 1)

Paced == (\A e \in Ids : EventPaced(e)) /\ (\A r \in Runs : RunPaced(r))

\* Events are not unmade, nor notices unsent.
Grown == \A e \in Ids : /\ events[e].first => events'[e].first
                        /\ events[e].notified \subseteq events'[e].notified
                        /\ events[e].status # "none" => events'[e].status # "none"

\* A run that does nothing.
LEMMA OthersPaced ==
  ASSUME Facts, Grown, NEW r \in Runs, RunPaced(r), run'[r] = run[r]
  PROVE  RunPaced(r)'
  <1>1. run[r].at \in Holding => run[r].event \in Ids
    BY DEF Facts, Held, Holding
  <1>2. run[r].at \in {"arm", "advance"} => run[r].at \in Holding
    BY DEF Holding, Creating
  <1> QED BY <1>1, <1>2 DEF Grown, RunPaced, UpTo

\* A run that holds no event, and no step that it did not hold before.
LEMMA LetGoPaced ==
  ASSUME Facts, Grown, NEW r \in Runs, RunPaced(r), run'[r].at \notin Holding,
         \A e \in Ids : run'[r].batch[e] \in {-1, run[r].batch[e]}
  PROVE  RunPaced(r)'
  <1>1. run'[r].at # "arm" /\ run'[r].at # "advance"
    BY DEF Holding, Creating
  <1> QED BY <1>1 DEF Grown, RunPaced, UpTo

\* The step of a run that lets go, and leaves the events alone or lets them grow.
LetsGo(r) ==
    /\ \A q \in Runs \ {r} : run'[q] = run[q]
    /\ run'[r].at \notin Holding
    /\ \A e \in Ids : run'[r].batch[e] \in {-1, run[r].batch[e]}

\* Entering a part that holds nothing.
LEMMA EnterLetsGo ==
  ASSUME Facts, NEW r \in Runs, NEW at, at \notin Holding, Enter(r, at)
  PROVE  LetsGo(r)
  BY EnterFields DEF LetsGo, NoBatch

\* Finishing an event.
LEMMA DropLetsGo ==
  ASSUME Facts, NEW r \in Runs, NEW e \in Ids, Drop(r, e), UNCHANGED chain
  PROVE  LetsGo(r)
  BY DropFacts DEF LetsGo, Holding, Creating

\* The comparison with the history holds no event.
LEMMA DeltasLetGo ==
  ASSUME Facts, NEW r \in Runs, Deltas(r)
  PROVE  LetsGo(r) /\ UNCHANGED eventVars
  <1> USE DEF Holding, Creating
  <1>1. CASE \E rows \in [Keys -> Severity] : Begin(r, rows)
    <2>1. PICK rows \in [Keys -> Severity] : Begin(r, rows)
      BY <1>1
    <2>2. run'[r].at = "findings" /\ run'[r].batch = NoBatch
          /\ \A q \in Runs \ {r} : run'[q] = run[q]
      BY <2>1, Typed DEF Begin, Idle
    <2> QED BY <2>1, <2>2 DEF LetsGo, NoBatch, Begin
  <1>2. CASE \E k \in Keys : SelectFinding(r, k)
    BY <1>2, Typed DEF SelectFinding, LetsGo, RunType
  <1>3. CASE UpsertFinding(r)
    BY <1>3, Typed DEF UpsertFinding, Store, LetsGo, RunType
  <1>4. CASE ResolveStaleFindings(r)
    <2>1. CASE Enter(r, "idle")
      BY <1>4, <2>1, EnterLetsGo DEF ResolveStaleFindings
    <2>2. CASE run' = [run EXCEPT ![r].at = "window", ![r].rows = Nothing]
      BY <1>4, <2>2, Typed DEF ResolveStaleFindings, LetsGo, RunType
    <2> QED BY <1>4, <2>1, <2>2 DEF ResolveStaleFindings
  <1>5. CASE WasAlertRecentlySent(r)
    <2>1. CASE recent
      BY <1>5, <2>1, EnterLetsGo DEF WasAlertRecentlySent
    <2>2. CASE ~recent
      BY <1>5, <2>2, Typed DEF WasAlertRecentlySent, GoTo, LetsGo, RunType
    <2> QED BY <2>1, <2>2
  <1>6. CASE \E ok \in BOOLEAN : SendAlert(r, ok)
    BY <1>6, EnterLetsGo DEF SendAlert
  <1>7. CASE RecordAlertSent(r)
    BY <1>7, EnterLetsGo DEF RecordAlertSent
  <1> QED BY <1>1, <1>2, <1>3, <1>4, <1>5, <1>6, <1>7 DEF Deltas

\* Nor do a failure and a restart.
LEMMA FailuresLetGo ==
  ASSUME Facts, NEW r \in Runs, RunFails(r)
  PROVE  LetsGo(r)
  <1>1. CASE \E at \in {"policies", "idle", "due"} : Enter(r, at)
    BY <1>1, EnterLetsGo DEF Holding, Creating
  <1>2. CASE \E e \in Ids : Drop(r, e)
    BY <1>2, DropLetsGo DEF RunFails
  <1>3. run[r].at = "advance" => run[r].event \in Ids
    BY DEF Facts, Held
  <1> QED BY <1>1, <1>2, <1>3 DEF RunFails

\* A step that lets go keeps the pace if it keeps that of the events.
LEMMA LetsGoPaced ==
  ASSUME Facts, Paced, Grown, NEW r \in Runs, LetsGo(r), \A e \in Ids : EventPaced(e)'
  PROVE  Paced'
  <1>1. \A q \in Runs : RunPaced(q)'
    BY OthersPaced, LetGoPaced DEF Paced, LetsGo
  <1> QED BY <1>1 DEF Paced

\* One event changes and grows.
LEMMA OneGrown ==
  ASSUME Facts, NEW e \in Ids, NEW E \in EventType, events' = [events EXCEPT ![e] = E],
         events[e].first => E.first, events[e].notified \subseteq E.notified,
         E.status # "none"
  PROVE  Grown
  BY Typed DEF Grown

\* One event changes; the others keep the pace.
LEMMA OnePaced ==
  ASSUME Facts, Paced, NEW e \in Ids, NEW E \in EventType, events' = [events EXCEPT ![e] = E],
         \A s \in E.notified : UpTo(E, s), E.timer => UpTo(E, E.step)
  PROVE  \A f \in Ids : EventPaced(f)'
  <1>1. \A f \in Ids : events'[f] = IF f = e THEN E ELSE events[f]
    BY Typed
  <1> QED BY <1>1 DEF EventPaced, Paced

\* The evaluation of a policy keeps the pace.
LEMMA PoliciesPaced ==
  ASSUME Facts, Paced, NEW r \in Runs, Policies(r)
  PROVE  Paced'
  <1> USE DEF Holding, Creating
  <1>1. CASE \E value \in {"off", "missing", "new", "calm", "firing"} : Evaluate(r, value)
    <2>1. events' = events /\ Grown /\ \A e \in Ids : EventPaced(e)'
      BY <1>1 DEF Evaluate, eventVars, Grown, Paced, EventPaced
    <2>2. CASE \E at \in {"idle", "due", "create"} : Enter(r, at)
      BY <2>1, <2>2, EnterLetsGo, LetsGoPaced
    <2>3. CASE \E e \in Open : run' = [run EXCEPT ![r].at = "resolve", ![r].event = e]
      <3>1. PICK e \in Ids : /\ run' = [run EXCEPT ![r].at = "resolve", ![r].event = e]
                            /\ events[e].status # "none"
        BY <2>3 DEF Open
      <3>2. /\ run'[r].at = "resolve" /\ run'[r].event = e /\ run'[r].batch = run[r].batch
            /\ \A q \in Runs \ {r} : run'[q] = run[q]
        BY <3>1, Typed DEF RunType
      <3>3. RunPaced(r)'
        BY <2>1, <3>1, <3>2 DEF RunPaced, Paced
      <3> QED BY <2>1, <3>2, <3>3, OthersPaced DEF Paced
    <2> QED BY <1>1, <2>2, <2>3 DEF Evaluate
  <1>2. CASE ResolveEvent(r)
    <2> DEFINE E == [events[run[r].event] EXCEPT !.status = "resolved", !.everResolved = TRUE]
    <2>1. PICK e \in Ids : e = run[r].event
      BY <1>2 DEF ResolveEvent, Facts, Held
    <2>2. /\ E \in EventType /\ E.status = "resolved" /\ E.notified = events[e].notified
          /\ E.first = events[e].first /\ E.timer = events[e].timer /\ E.step = events[e].step
      BY <2>1, Typed DEF EventType
    <2>3. events' = [events EXCEPT ![e] = E]
      BY <1>2, <2>1 DEF ResolveEvent
    <2> HIDE DEF E
    <2>4. Grown
      BY <2>2, <2>3, OneGrown
    <2>5. \A f \in Ids : EventPaced(f)'
      BY <2>2, <2>3, OnePaced DEF Paced, EventPaced, UpTo
    <2> QED BY <1>2, <2>4, <2>5, EnterLetsGo, LetsGoPaced DEF ResolveEvent
  <1>3. CASE NoRoom(r)
    BY <1>3, EnterLetsGo, LetsGoPaced DEF NoRoom, eventVars, Grown, Paced, EventPaced
  <1>4. CASE Notify(r)
    <2> DEFINE E == [events[run[r].event] EXCEPT !.first = TRUE]
    <2>1. PICK e \in Ids : e = run[r].event
      BY <1>4 DEF Notify, Facts, Held
    <2>2. /\ E \in EventType /\ E.status = events[e].status
          /\ E.first /\ E.notified = events[e].notified
          /\ E.timer = events[e].timer /\ E.step = events[e].step
      BY <2>1, Typed DEF EventType
    <2>3. events' = [events EXCEPT ![e] = E]
      BY <1>4, <2>1 DEF Notify
    <2> HIDE DEF E
    <2>4. E.status # "none"
      BY <1>4, <2>1, <2>2 DEF Paced, RunPaced, Notify
    <2>5. Grown
      BY <2>2, <2>3, <2>4, OneGrown
    <2>6. \A f \in Ids : EventPaced(f)'
      BY <2>2, <2>3, OnePaced DEF Paced, EventPaced, UpTo
    <2>7. CASE Enter(r, "due")
      BY <2>5, <2>6, <2>7, EnterLetsGo, LetsGoPaced
    <2>8. CASE GoTo(r, "arm")
      <3>1. /\ run'[r].at = "arm" /\ run'[r].event = e /\ run'[r].batch = run[r].batch
            /\ \A q \in Runs \ {r} : run'[q] = run[q]
        BY <2>1, <2>8, Typed DEF GoTo, RunType
      <3>2. events'[e] = E
        BY <2>3, Typed
      <3>3. RunPaced(r)'
        BY <2>2, <2>4, <2>5, <3>1, <3>2 DEF RunPaced, Paced, Grown, UpTo
      <3> QED BY <2>5, <2>6, <3>1, <3>3, OthersPaced DEF Paced
    <2> QED BY <1>4, <2>7, <2>8 DEF Notify
  <1>5. CASE StartEscalation(r)
    <2> DEFINE E == [events[run[r].event] EXCEPT !.step = 0, !.status = "escalated",
                                                 !.timer = TRUE]
    <2>1. PICK e \in Ids : e = run[r].event
      BY <1>5 DEF StartEscalation, Facts, Held
    <2>2. /\ E \in EventType /\ E.status = "escalated" /\ E.step = 0
          /\ E.first = events[e].first /\ E.notified = events[e].notified
      BY <2>1, Typed DEF EventType
    <2>3. events' = [events EXCEPT ![e] = E]
      BY <1>5, <2>1 DEF StartEscalation, AdvanceEscalation
    <2>4. E.first
      BY <1>5, <2>1, <2>2 DEF StartEscalation, Paced, RunPaced
    <2> HIDE DEF E
    <2>5. Grown
      BY <2>2, <2>3, OneGrown
    <2>6. \A f \in Ids : EventPaced(f)'
      BY <2>2, <2>3, <2>4, OnePaced DEF Paced, EventPaced, UpTo
    <2> QED BY <1>5, <2>5, <2>6, EnterLetsGo, LetsGoPaced DEF StartEscalation
  <1>6. CASE \E e \in Ids : CreateEvent(r, e)
    <2>1. PICK e \in Ids : CreateEvent(r, e)
      BY <1>6
    <2> DEFINE E == [events[e] EXCEPT !.status = "triggered"]
    <2>2. /\ E \in EventType /\ E.status = "triggered" /\ E.notified = events[e].notified
          /\ E.first = events[e].first /\ E.timer = events[e].timer /\ E.step = events[e].step
      BY Typed DEF EventType
    <2>3. events' = [events EXCEPT ![e] = E]
      BY <2>1 DEF CreateEvent
    <2> HIDE DEF E
    <2>4. Grown
      BY <2>2, <2>3, OneGrown
    <2>5. \A f \in Ids : EventPaced(f)'
      BY <2>2, <2>3, OnePaced DEF Paced, EventPaced, UpTo
    <2>6. /\ run'[r].at = "notify" /\ run'[r].event = e /\ run'[r].batch = run[r].batch
          /\ \A q \in Runs \ {r} : run'[q] = run[q]
      BY <2>1, Typed DEF CreateEvent, RunType
    <2>7. events'[e] = E
      BY <2>3, Typed
    <2>8. RunPaced(r)'
      BY <2>2, <2>4, <2>6, <2>7 DEF RunPaced, Paced, Grown, UpTo
    <2> QED BY <2>4, <2>5, <2>6, <2>8, OthersPaced DEF Paced
  <1> QED BY <1>1, <1>2, <1>3, <1>4, <1>5, <1>6 DEF Policies

\* Two initial segments that meet make a longer one.
LEMMA Segment ==
  ASSUME NEW n \in Nat, NEW S, 1..n - 1 \subseteq S
  PROVE  1..n \subseteq S \cup {n}
  OBVIOUS

\* So do the escalations, whatever step each run has read.
LEMMA EscalationsPaced ==
  ASSUME Facts, Paced, NEW r \in Runs, Escalations(r)
  PROVE  Paced'
  <1> USE DEF Holding, Creating
  <1>0. run[r] \in RunType /\ chain \in Nat
    BY Typed
  <1>1. CASE \E passed \in SUBSET Armed : GetDueEscalations(r, passed)
    <2>1. PICK passed \in SUBSET Armed : GetDueEscalations(r, passed)
      BY <1>1
    <2> DEFINE b == [e \in Ids |-> IF e \in passed THEN events[e].step ELSE -1]
    <2>2. /\ run' = [run EXCEPT ![r] = Rest(b)] /\ events' = events
      BY <2>1 DEF GetDueEscalations, eventVars
    <2>3. \A e \in Ids : b[e] # -1 =>
              events[e].status # "none" /\ UpTo(events[e], b[e])
      BY <2>1 DEF Armed, Paced, EventPaced
    <2>4. b = NoBatch \/ (b # NoBatch)
      OBVIOUS
    <2> HIDE DEF b
    <2>5. /\ run'[r].at \in {"idle", "escalate"} /\ run'[r].batch = b
          /\ \A q \in Runs \ {r} : run'[q] = run[q]
      BY <2>2, <2>4, Typed DEF Rest, Idle
    <2>6. RunPaced(r)'
      BY <2>2, <2>3, <2>5 DEF RunPaced
    <2>7. Grown /\ \A e \in Ids : EventPaced(e)'
      BY <2>2 DEF Grown, Paced, EventPaced
    <2> QED BY <2>5, <2>6, <2>7, OthersPaced DEF Paced
  <1>2. CASE \E e \in Ids : ClearEscalationTimer(r, e)
    <2>1. PICK e \in Ids : ClearEscalationTimer(r, e)
      BY <1>2
    <2> DEFINE E == [events[e] EXCEPT !.timer = FALSE]
    <2>2. /\ E \in EventType /\ E.status = events[e].status
          /\ E.first = events[e].first /\ E.notified = events[e].notified /\ ~E.timer
      BY Typed DEF EventType
    <2>3. events' = [events EXCEPT ![e] = E]
      BY <2>1 DEF ClearEscalationTimer
    <2> HIDE DEF E
    <2>4. E.status # "none"
      BY <2>1, <2>2 DEF Paced, RunPaced, ClearEscalationTimer
    <2>5. Grown
      BY <2>2, <2>3, <2>4, OneGrown
    <2>6. \A f \in Ids : EventPaced(f)'
      BY <2>2, <2>3, OnePaced DEF Paced, EventPaced, UpTo
    <2> QED BY <2>1, <2>5, <2>6, DropLetsGo, LetsGoPaced DEF ClearEscalationTimer
  <1>3. CASE \E e \in Ids : NotifyStep(r, e)
    <2>1. PICK e \in Ids : NotifyStep(r, e)
      BY <1>3
    <2>2. PICK n \in Nat : n = run[r].batch[e] + 1 /\ n \in Steps
      BY <1>0, <2>1 DEF NotifyStep, RunType, Steps
    <2> DEFINE E == [events[e] EXCEPT !.notified = @ \cup {n}]
    <2>3. /\ E \in EventType /\ E.status = events[e].status
          /\ E.first = events[e].first /\ E.notified = events[e].notified \cup {n}
          /\ E.timer = events[e].timer /\ E.step = events[e].step
      BY <2>2, Typed DEF EventType
    <2>4. events' = [events EXCEPT ![e] = E]
      BY <2>1, <2>2 DEF NotifyStep
    <2> HIDE DEF E
    <2>5. /\ E.status # "none" /\ UpTo(events[e], n - 1)
      BY <1>0, <2>1, <2>2, <2>3 DEF Paced, RunPaced, NotifyStep, RunType
    <2>6. UpTo(E, n)
      BY <2>2, <2>3, <2>5, Segment DEF UpTo
    <2>7. Grown
      BY <2>3, <2>4, <2>5, OneGrown
    <2>8. \A f \in Ids : EventPaced(f)'
      BY <2>3, <2>4, <2>6, OnePaced DEF Paced, EventPaced, UpTo
    <2>9. /\ run'[r].at = "advance" /\ run'[r].event = e /\ run'[r].batch = run[r].batch
          /\ \A q \in Runs \ {r} : run'[q] = run[q]
      BY <2>1, Typed DEF NotifyStep, RunType
    <2>10. events'[e] = E
      BY <2>4, Typed
    <2>11. RunPaced(r)'
      BY <2>2, <2>5, <2>6, <2>7, <2>9, <2>10 DEF RunPaced, Paced, Grown, UpTo
    <2> QED BY <2>7, <2>8, <2>9, <2>11, OthersPaced DEF Paced
  <1>4. CASE Advance(r)
    <2>1. PICK e \in Ids, n \in Nat : e = run[r].event /\ n = run[r].batch[e] + 1
      BY <1>0, <1>4 DEF Advance, Facts, Held, RunType
    <2>2. UpTo(events[e], n) /\ events[e].status # "none"
      BY <1>4, <2>1 DEF Advance, Paced, RunPaced
    <2>3. Grown /\ \A f \in Ids : EventPaced(f)'
      <3>1. CASE AdvanceEscalation(e, n)
        <4> DEFINE E == [events[e] EXCEPT !.step = n, !.status = "escalated", !.timer = TRUE]
        <4>1. /\ E \in EventType /\ E.status = "escalated" /\ E.step = n
              /\ E.first = events[e].first /\ E.notified = events[e].notified
          BY <2>1, Typed DEF EventType
        <4>2. events' = [events EXCEPT ![e] = E]
          BY <3>1 DEF AdvanceEscalation
        <4> HIDE DEF E
        <4> QED BY <2>2, <4>1, <4>2, OneGrown, OnePaced DEF Paced, EventPaced, UpTo
      <3>2. CASE SetEscalationStep(e, n)
        <4> DEFINE E == [events[e] EXCEPT !.step = n, !.timer = FALSE]
        <4>1. /\ E \in EventType /\ E.status = events[e].status /\ ~E.timer
              /\ E.first = events[e].first /\ E.notified = events[e].notified
          BY <2>1, Typed DEF EventType
        <4>2. events' = [events EXCEPT ![e] = E]
          BY <3>2 DEF SetEscalationStep
        <4> HIDE DEF E
        <4> QED BY <2>2, <4>1, <4>2, OneGrown, OnePaced DEF Paced, EventPaced, UpTo
      <3> QED BY <1>4, <2>1, <3>1, <3>2 DEF Advance
    <2> QED BY <1>4, <2>1, <2>3, DropLetsGo, LetsGoPaced DEF Advance
  <1> QED BY <1>1, <1>2, <1>3, <1>4 DEF Escalations

\* Every step keeps the pace.
LEMMA NextPaced == Facts /\ Paced /\ [Next]_vars => Paced'
  <1> SUFFICES ASSUME Facts, Paced, [Next]_vars PROVE Paced'
    OBVIOUS
  <1>1. UNCHANGED events => Grown /\ \A e \in Ids : EventPaced(e)'
    BY DEF Grown, Paced, EventPaced
  <1>2. ASSUME NEW r \in Runs, Deltas(r) PROVE Paced'
    BY <1>1, <1>2, DeltasLetGo, LetsGoPaced DEF eventVars
  <1>3. ASSUME NEW r \in Runs, RunFails(r) PROVE Paced'
    BY <1>1, <1>3, FailuresLetGo, LetsGoPaced DEF RunFails
  <1>4. CASE CloudRestart
    <2>1. events' = events /\ run' = [r \in Runs |-> Idle]
      BY <1>4 DEF CloudRestart
    <2>2. \A r \in Runs : run'[r].at \notin Holding
                        /\ \A e \in Ids : run'[r].batch[e] = -1
      BY <2>1 DEF Idle, NoBatch, Holding, Creating
    <2>3. \A r \in Runs : RunPaced(r)'
      BY <1>1, <2>1, <2>2, LetGoPaced DEF Paced
    <2> QED BY <1>1, <2>1, <2>3 DEF Paced
  <1>5. CASE \E e \in Ids : AcknowledgeEvent(e)
    <2>1. PICK e \in Ids : AcknowledgeEvent(e)
      BY <1>5
    <2> DEFINE E == [events[e] EXCEPT !.status = "acknowledged"]
    <2>2. /\ E \in EventType /\ E.status = "acknowledged" /\ E.notified = events[e].notified
          /\ E.first = events[e].first /\ E.timer = events[e].timer /\ E.step = events[e].step
      BY Typed DEF EventType
    <2>3. events' = [events EXCEPT ![e] = E] /\ run' = run
      BY <2>1 DEF AcknowledgeEvent
    <2> HIDE DEF E
    <2>4. Grown
      BY <2>2, <2>3, OneGrown
    <2>5. \A f \in Ids : EventPaced(f)'
      BY <2>2, <2>3, OnePaced DEF Paced, EventPaced, UpTo
    <2> QED BY <2>3, <2>4, <2>5, OthersPaced DEF Paced
  <1>6. CASE WindowPasses \/ UNCHANGED vars
    <2>1. events' = events /\ run' = run
      BY <1>6 DEF WindowPasses, vars, eventVars
    <2> QED BY <1>1, <2>1, OthersPaced DEF Paced
  <1> QED BY <1>2, <1>3, <1>4, <1>5, <1>6, PoliciesPaced, EscalationsPaced DEF Next

\* Nobody has been notified yet.
LEMMA InitPaced == Init => Paced
  BY DEF Init, Paced, EventPaced, RunPaced, UpTo, Idle, NoBatch, Holding, Creating

\* However many runs process one event, and with whatever step they read, each
\* step that is notified comes after the first notice and the steps from 1 to the
\* one before it; step 0 is passed over (evaluatePolicy, processEscalation).
THEOREM StepsInOrder == Spec => []NoStepSkipped
  <1>1. Paced => NoStepSkipped
    BY DEF Paced, EventPaced, UpTo, NoStepSkipped
  <1> QED BY <1>1, InitFacts, InitPaced, NextFacts, NextPaced, PTL DEF Spec
-----------------------------------------------------------------------------
(* No escalation is forgotten *)

\* The run that created e still has to set its timer.
InCreation(e) == \E r \in Runs : run[r].at \in Creating /\ run[r].event = e

Cared(e) == events[e].status \in {"triggered", "escalated"} =>
                \/ UpTo(events[e], chain - 1)
                \/ events[e].timer
                \/ e \in forgotten
                \/ InCreation(e)

\* Up to the last step of the chain.
LEMMA ToTheEnd ==
  ASSUME Facts, NEW E, NEW n \in Nat, n + 1 >= chain, UpTo(E, n)
  PROVE  UpTo(E, chain - 1)
  <1>1. 1..chain - 1 \subseteq 1..n
    BY Typed
  <1> QED BY <1>1 DEF UpTo

\* An event that a step leaves alone is cared for when its creator goes on.
LEMMA OthersCared ==
  ASSUME Facts, Facts', UNCHANGED chain, NEW f \in Ids, Cared(f), events'[f] = events[f],
         forgotten \subseteq forgotten',
         \A r \in Runs : run[r].at \in Creating /\ run[r].event = f =>
             \/ run'[r].at \in Creating /\ run'[r].event = f
             \/ f \in forgotten'
  PROVE  Cared(f)'
  BY DEF Cared, InCreation, UpTo

\* A run that was not creating an event, and the others do nothing.
LEMMA QuietCared ==
  ASSUME Facts, Facts', UNCHANGED <<chain, forgotten>>, NEW r \in Runs,
         run[r].at \notin Creating, \A q \in Runs \ {r} : run'[q] = run[q],
         NEW f \in Ids, Cared(f), events'[f] = events[f]
  PROVE  Cared(f)'
  <1>1. \A q \in Runs : run[q].at \in Creating => run'[q] = run[q]
    OBVIOUS
  <1> QED BY <1>1, OthersCared

\* The evaluation of a policy leaves each open event with a timer or a run.
LEMMA PoliciesCared ==
  ASSUME Facts, Facts', Paced', \A e \in Ids : Cared(e), NEW r \in Runs, Policies(r), NEW f \in Ids
  PROVE  Cared(f)'
  <1> USE DEF Creating
  <1>0. run[r] \in RunType /\ chain \in Nat
    BY Typed
  <1>1. CASE \/ \E value \in {"off", "missing", "new", "calm", "firing"} : Evaluate(r, value)
             \/ NoRoom(r)
    <2>1. events' = events /\ UNCHANGED <<chain, forgotten>> /\ run[r].at \notin Creating
      BY <1>1 DEF Evaluate, NoRoom, eventVars
    <2>2. \A q \in Runs \ {r} : run'[q] = run[q]
      <3>1. CASE \E at \in {"idle", "due", "create"} : Enter(r, at)
        BY <3>1, EnterFields
      <3>2. CASE \E e \in Open : run' = [run EXCEPT ![r].at = "resolve", ![r].event = e]
        BY <3>2, Typed
      <3> QED BY <1>1, <3>1, <3>2 DEF Evaluate, NoRoom
    <2> QED BY <2>1, <2>2, QuietCared
  <1>2. CASE ResolveEvent(r)
    <2>1. run[r].event \in Ids /\ \A q \in Runs \ {r} : run'[q] = run[q]
      BY <1>2, EnterFields DEF ResolveEvent, Facts, Held
    <2>2. CASE f = run[r].event
      <3>1. events'[f].status = "resolved"
        BY <1>2, <2>1, <2>2, Typed DEF ResolveEvent, EventType
      <3> QED BY <3>1 DEF Cared
    <2>3. CASE f # run[r].event
      <3>1. events'[f] = events[f] /\ run[r].at \notin Creating /\ UNCHANGED <<chain, forgotten>>
        BY <1>2, <2>3, Typed DEF ResolveEvent
      <3> QED BY <2>1, <3>1, QuietCared
    <2> QED BY <2>2, <2>3
  <1>3. CASE Notify(r)
    <2>1. PICK e \in Ids : e = run[r].event
      BY <1>3 DEF Notify, Facts, Held
    <2>2. UNCHANGED <<chain, forgotten>> /\ run[r].at = "notify"
      BY <1>3 DEF Notify
    <2>3. CASE f = e
      <3>1. CASE Enter(r, "due")
        <4>1. events'[f].first
          BY <1>3, <2>1, <2>3, Typed DEF Notify, EventType
        <4>3. CASE chain = 0
          <5>1. 1..chain' - 1 = {}
            BY <2>2, <4>3
          <5> QED BY <4>1, <5>1 DEF Cared, UpTo
        <4>4. CASE chain > 0
          <5>1. run' = [run EXCEPT ![r].at = "arm"]
            BY <1>3, <4>4 DEF Notify, GoTo
          <5>2. run'[r].at = "arm" /\ run'[r].event = f
            BY <1>0, <2>1, <2>3, <5>1, Typed DEF RunType
          <5> QED BY <5>2 DEF Cared, InCreation
        <4> QED BY <1>0, <4>3, <4>4
      <3>2. CASE GoTo(r, "arm")
        <4>1. run'[r].at = "arm" /\ run'[r].event = f
          BY <1>0, <2>1, <2>3, <3>2, Typed DEF GoTo, RunType
        <4> QED BY <4>1 DEF Cared, InCreation
      <3> QED BY <1>3, <3>1, <3>2 DEF Notify
    <2>4. CASE f # e
      <3>1. events'[f] = events[f]
        BY <1>3, <2>1, <2>4, Typed DEF Notify
      <3>2. \A q \in Runs : run[q].at \in Creating /\ run[q].event = f =>
                run'[q].at \in Creating /\ run'[q].event = f
        <4>1. \A q \in Runs \ {r} : run'[q] = run[q]
          BY <1>3, EnterFields, Typed DEF Notify, GoTo
        <4> QED BY <2>1, <2>4, <4>1
      <3> QED BY <2>2, <3>1, <3>2, OthersCared
    <2> QED BY <2>3, <2>4
  <1>4. CASE StartEscalation(r)
    <2>1. PICK e \in Ids : e = run[r].event
      BY <1>4 DEF StartEscalation, Facts, Held
    <2>2. UNCHANGED <<chain, forgotten>> /\ \A q \in Runs \ {r} : run'[q] = run[q]
      BY <1>4, EnterFields DEF StartEscalation
    <2>3. CASE f = e
      <3>1. events'[f].timer
        BY <1>4, <2>1, <2>3, Typed DEF StartEscalation, AdvanceEscalation, EventType
      <3> QED BY <3>1 DEF Cared
    <2>4. CASE f # e
      <3>1. events'[f] = events[f]
        BY <1>4, <2>1, <2>4, Typed DEF StartEscalation, AdvanceEscalation
      <3> QED BY <2>1, <2>2, <2>4, <3>1, OthersCared
    <2> QED BY <2>3, <2>4
  <1>5. CASE \E e \in Ids : CreateEvent(r, e)
    <2>1. PICK e \in Ids : CreateEvent(r, e)
      BY <1>5
    <2>2. /\ run'[r].at = "notify" /\ run'[r].event = e /\ UNCHANGED <<chain, forgotten>>
          /\ \A q \in Runs \ {r} : run'[q] = run[q]
      BY <2>1, Typed DEF CreateEvent, RunType
    <2>3. CASE f = e
      BY <2>2, <2>3 DEF Cared, InCreation
    <2>4. CASE f # e
      <3>1. events'[f] = events[f] /\ run[r].at \notin Creating
        BY <2>1, <2>4, Typed DEF CreateEvent
      <3> QED BY <2>2, <3>1, QuietCared
    <2> QED BY <2>3, <2>4
  <1> QED BY <1>1, <1>2, <1>3, <1>4, <1>5 DEF Policies

\* A timer is cleared only when the chain has been gone through.
LEMMA EscalationsCared ==
  ASSUME Facts, Facts', Paced, Paced', \A e \in Ids : Cared(e), NEW r \in Runs, Escalations(r), NEW f \in Ids
  PROVE  Cared(f)'
  <1> USE DEF Creating
  <1>0. run[r] \in RunType /\ chain \in Nat
    BY Typed
  <1>1. UNCHANGED <<chain, forgotten>> /\ run[r].at \notin Creating
    BY DEF Escalations, GetDueEscalations, ClearEscalationTimer, NotifyStep, Advance, eventVars
  <1>2. \A q \in Runs \ {r} : run'[q] = run[q]
    <2>1. run' = [run EXCEPT ![r] = run'[r]]
      BY Typed DEF Escalations, GetDueEscalations, Advance, ClearEscalationTimer,
            NotifyStep, Drop
    <2> QED BY <2>1, Typed
  <1>3. events'[f] = events[f] => Cared(f)'
    BY <1>1, <1>2, QuietCared
  <1>4. CASE \E passed \in SUBSET Armed : GetDueEscalations(r, passed)
    BY <1>3, <1>4 DEF GetDueEscalations, eventVars
  <1>5. CASE \E e \in Ids : ClearEscalationTimer(r, e)
    <2>1. PICK e \in Ids : ClearEscalationTimer(r, e)
      BY <1>5
    <2>2. CASE f = e
      <3>1. PICK n \in Nat : n = run[r].batch[f]
        BY <1>0, <2>1, <2>2 DEF ClearEscalationTimer, RunType
      <3>2. UpTo(events[f], chain - 1)
        BY <2>1, <2>2, <3>1, ToTheEnd DEF ClearEscalationTimer, Paced, RunPaced
      <3>3. /\ events'[f].first = events[f].first
            /\ events'[f].notified = events[f].notified
        BY <2>1, <2>2, Typed DEF ClearEscalationTimer, EventType
      <3> QED BY <1>1, <3>2, <3>3 DEF Cared, UpTo
    <2>3. CASE f # e
      BY <1>3, <2>1, <2>3, Typed DEF ClearEscalationTimer
    <2> QED BY <2>2, <2>3
  <1>6. CASE \E e \in Ids : NotifyStep(r, e)
    <2>1. PICK e \in Ids : NotifyStep(r, e)
      BY <1>6
    <2>2. CASE f = e
      <3>1. /\ events'[f].status = events[f].status /\ events'[f].timer = events[f].timer
            /\ events'[f].first = events[f].first
            /\ events[f].notified \subseteq events'[f].notified
        BY <2>1, <2>2, Typed DEF NotifyStep, EventType
      <3>2. InCreation(f) => InCreation(f)'
        BY <1>1, <1>2 DEF InCreation
      <3> QED BY <1>1, <3>1, <3>2 DEF Cared, UpTo
    <2>3. CASE f # e
      BY <1>3, <2>1, <2>3, Typed DEF NotifyStep
    <2> QED BY <2>2, <2>3
  <1>7. CASE Advance(r)
    <2>1. PICK e \in Ids, n \in Nat : e = run[r].event /\ n = run[r].batch[e] + 1
      BY <1>0, <1>7 DEF Advance, Facts, Held, RunType
    <2>2. CASE f = e
      <3>1. CASE AdvanceEscalation(e, n)
        <4>1. events'[f].timer
          BY <2>2, <3>1, Typed DEF AdvanceEscalation, EventType
        <4> QED BY <4>1 DEF Cared
      <3>2. CASE n + 1 >= chain /\ SetEscalationStep(e, n)
        <4>1. UpTo(events[f], n)
          BY <1>7, <2>1, <2>2 DEF Advance, Paced, RunPaced
        <4>2. UpTo(events[f], chain - 1)
          BY <3>2, <4>1, ToTheEnd
        <4>3. /\ events'[f].first = events[f].first
              /\ events'[f].notified = events[f].notified
          BY <2>2, <3>2, Typed DEF SetEscalationStep, EventType
        <4> QED BY <1>1, <4>2, <4>3 DEF Cared, UpTo
      <3> QED BY <1>0, <1>7, <2>1, <3>1, <3>2 DEF Advance
    <2>3. CASE f # e
      BY <1>3, <1>7, <2>1, <2>3, Typed DEF Advance, AdvanceEscalation, SetEscalationStep
    <2> QED BY <2>2, <2>3
  <1> QED BY <1>4, <1>5, <1>6, <1>7 DEF Escalations

\* Every step leaves the open events with a timer or a run, or notes the failure.
LEMMA NextCared ==
  Facts /\ Paced /\ EscalationNotForgotten /\ [Next]_vars => EscalationNotForgotten'
  <1> SUFFICES ASSUME Facts, Paced, EscalationNotForgotten, [Next]_vars, NEW f \in Ids
               PROVE  Cared(f)'
    BY DEF EscalationNotForgotten, Cared, InCreation, UpTo
  <1>1. Facts' /\ Paced' /\ \A e \in Ids : Cared(e)
    BY NextFacts, NextPaced DEF EscalationNotForgotten, Cared, InCreation, UpTo
  <1>2. ASSUME NEW r \in Runs, Deltas(r) PROVE Cared(f)'
    <2>1. run[r].at \notin Creating
      BY <1>2 DEF Creating, Deltas, Begin, SelectFinding, UpsertFinding, Store, ResolveStaleFindings,
            WasAlertRecentlySent, SendAlert, RecordAlertSent
    <2>2. UNCHANGED <<chain, events, forgotten>> /\ \A q \in Runs \ {r} : run'[q] = run[q]
      BY <1>2, DeltasLetGo DEF LetsGo, eventVars
    <2> QED BY <1>1, <2>1, <2>2, QuietCared
  <1>3. ASSUME NEW r \in Runs, RunFails(r) PROVE Cared(f)'
    <2>1. UNCHANGED <<chain, events>> /\ \A q \in Runs \ {r} : run'[q] = run[q]
      BY <1>3, FailuresLetGo DEF LetsGo, RunFails
    <2>2. forgotten' = forgotten \cup Unarmed({r})
      BY <1>3 DEF RunFails
    <2>3. run[r].at \in Creating => run[r].event \in forgotten'
      BY <2>2 DEF Unarmed
    <2> QED BY <1>1, <2>1, <2>2, <2>3, OthersCared
  <1>4. CASE CloudRestart
    <2>1. UNCHANGED <<chain, events>> /\ forgotten' = forgotten \cup Unarmed(Runs)
      BY <1>4 DEF CloudRestart
    <2>2. \A r \in Runs : run[r].at \in Creating => run[r].event \in forgotten'
      BY <2>1 DEF Unarmed
    <2> QED BY <1>1, <2>1, <2>2, OthersCared
  <1>5. CASE \E e \in Ids : AcknowledgeEvent(e)
    <2>1. PICK e \in Ids : AcknowledgeEvent(e)
      BY <1>5
    <2>2. CASE f = e
      <3>1. events'[f].status = "acknowledged"
        BY <2>1, <2>2, Typed DEF AcknowledgeEvent, EventType
      <3> QED BY <3>1 DEF Cared
    <2>3. CASE f # e
      <3>1. events'[f] = events[f] /\ UNCHANGED <<chain, forgotten, run>>
        BY <2>1, <2>3, Typed DEF AcknowledgeEvent
      <3> QED BY <1>1, <3>1, OthersCared
    <2> QED BY <2>2, <2>3
  <1>6. CASE WindowPasses \/ UNCHANGED vars
    <2>1. UNCHANGED <<chain, events, forgotten, run>>
      BY <1>6 DEF WindowPasses, vars, eventVars
    <2> QED BY <1>1, <2>1, OthersCared
  <1> QED BY <1>1, <1>2, <1>3, <1>4, <1>5, <1>6, PoliciesCared, EscalationsCared DEF Next

\* An open event that nobody has acknowledged goes through the steps of its chain
\* after step 0, whatever stale runs set its escalation_step back to, unless the
\* run that created it failed before it set its timer (evaluatePolicy).
THEOREM EscalationsGoOn == Spec => []EscalationNotForgotten
  <1>1. Init => EscalationNotForgotten
    BY DEF Init, EscalationNotForgotten
  <1> QED BY <1>1, InitFacts, InitPaced, NextFacts, NextPaced, NextCared, PTL DEF Spec
-----------------------------------------------------------------------------
(* Duplicate events are bounded by the runs that overlap *)

\* A resolved event has been resolved, whatever revived it since.
ResolvedOnce == \A e \in Ids : events[e].status = "resolved" => events[e].everResolved

\* The sets that are counted are finite.
LEMMA CountsFinite ==
  /\ IsFiniteSet(Unresolved) /\ IsFiniteSet(Creators) /\ IsFiniteSet(Runs)
  /\ Cardinality(Unresolved) \in Nat /\ Cardinality(Creators) \in Nat
  /\ Cardinality(Runs) \in Nat
  <1>1. IsFiniteSet(Ids)
    BY ConstantsAssumption, FS_Interval DEF Ids
  <1>2. Unresolved \subseteq Ids /\ Creators \subseteq Runs
    BY DEF Unresolved, Creators
  <1> QED BY <1>1, <1>2, ConstantsAssumption, FS_Subset, FS_CardinalityType

\* So are those of the next state.
LEMMA CountsFiniteNext ==
  /\ IsFiniteSet(Unresolved') /\ IsFiniteSet(Creators')
  /\ Cardinality(Unresolved') \in Nat /\ Cardinality(Creators') \in Nat
  <1>1. IsFiniteSet(Ids)
    BY ConstantsAssumption, FS_Interval DEF Ids
  <1>2. Unresolved' \subseteq Ids /\ Creators' \subseteq Runs
    BY DEF Unresolved, Creators
  <1> QED BY <1>1, <1>2, ConstantsAssumption, FS_Subset, FS_CardinalityType

\* Neither more unresolved events nor more runs about to create one.
LEMMA FewerBounded ==
  ASSUME DuplicatesAreBounded, Unresolved' \subseteq Unresolved, Creators' \subseteq Creators
  PROVE  DuplicatesAreBounded'
  <1>1. /\ Cardinality(Unresolved') <= Cardinality(Unresolved)
        /\ Cardinality(Creators') <= Cardinality(Creators)
    BY CountsFinite, FS_Subset
  <1>2. Cardinality(Unresolved') + Cardinality(Creators') <= Cardinality(Runs)
    BY <1>1, CountsFinite, CountsFiniteNext DEF DuplicatesAreBounded
  <1> QED BY <1>2 DEF DuplicatesAreBounded

\* A step that changes no status and no resolution, but to escalated or
\* acknowledged, and lets no run create an event.
LEMMA QuietBounded ==
  ASSUME Facts, ResolvedOnce, DuplicatesAreBounded,
         \A e \in Ids : /\ events'[e].status \in {events[e].status, "escalated", "acknowledged"}
                        /\ events[e].status = "none" => events'[e].status = "none"
                        /\ events'[e].everResolved = events[e].everResolved,
         \A r \in Runs : run'[r].at = "create" => run[r].at = "create"
  PROVE  ResolvedOnce' /\ DuplicatesAreBounded'
  <1>1. ResolvedOnce'
    BY DEF ResolvedOnce
  <1>2. Unresolved' \subseteq Unresolved /\ Creators' \subseteq Creators
    BY DEF Unresolved, Creators
  <1> QED BY <1>1, <1>2, FewerBounded

\* An event becomes unresolved in place of a run that was about to create it,
\* and a run is about to create one only when none is unresolved.
LEMMA PoliciesBounded ==
  ASSUME Facts, Paced, ResolvedOnce, DuplicatesAreBounded, NEW r \in Runs, Policies(r)
  PROVE  ResolvedOnce' /\ DuplicatesAreBounded'
  <1>1. CASE \E value \in {"off", "missing", "new", "calm", "firing"} : Evaluate(r, value)
    <2>1. events' = events /\ Unresolved' = Unresolved
      BY <1>1 DEF Evaluate, eventVars, Unresolved
    <2>2. ResolvedOnce'
      BY <2>1 DEF ResolvedOnce
    <2>3. CASE Open = {}
      <3>1. Unresolved = {}
        BY <2>3, Typed DEF Open, Unresolved, ResolvedOnce, EventType
      <3>2. Cardinality(Unresolved') = 0
        BY <2>1, <3>1, FS_EmptySet
      <3>3. Creators' \subseteq Runs
        BY DEF Creators
      <3>4. Cardinality(Creators') <= Cardinality(Runs)
        BY <3>3, CountsFinite, FS_Subset
      <3>5. Cardinality(Unresolved') + Cardinality(Creators') <= Cardinality(Runs)
        BY <3>2, <3>4, CountsFinite, CountsFiniteNext
      <3> QED BY <2>2, <3>5 DEF DuplicatesAreBounded
    <2>4. CASE Open # {}
      <3>1. CASE Enter(r, "idle") \/ Enter(r, "due")
        BY <2>1, <2>2, <3>1, EnterFields, FewerBounded DEF Creators
      <3>2. CASE \E e \in Open : run' = [run EXCEPT ![r].at = "resolve", ![r].event = e]
        BY <2>1, <2>2, <3>2, Typed, FewerBounded DEF Creators, RunType
      <3> QED BY <1>1, <2>4, <3>1, <3>2 DEF Evaluate
    <2> QED BY <2>3, <2>4
  <1>2. CASE ResolveEvent(r)
    <2>1. PICK e \in Ids : e = run[r].event
      BY <1>2 DEF ResolveEvent, Facts, Held
    <2>2. /\ events'[e].status = "resolved" /\ events'[e].everResolved
          /\ \A f \in Ids \ {e} : events'[f] = events[f]
      BY <1>2, <2>1, Typed DEF ResolveEvent, EventType
    <2>3. ResolvedOnce' /\ Unresolved' \subseteq Unresolved
      BY <2>2 DEF ResolvedOnce, Unresolved
    <2>4. Creators' \subseteq Creators
      BY <1>2, EnterFields DEF ResolveEvent, Creators
    <2> QED BY <2>3, <2>4, FewerBounded
  <1>3. CASE NoRoom(r)
    BY <1>3, EnterFields, QuietBounded DEF NoRoom, eventVars
  <1>4. CASE Notify(r)
    <2>1. PICK e \in Ids : e = run[r].event
      BY <1>4 DEF Notify, Facts, Held, Creating
    <2>2. \A f \in Ids : /\ events'[f].status = events[f].status
                         /\ events'[f].everResolved = events[f].everResolved
      BY <1>4, <2>1, Typed DEF Notify, EventType
    <2>3. \A q \in Runs : run'[q].at = "create" => run[q].at = "create"
      BY <1>4, EnterFields, Typed DEF Notify, GoTo, RunType
    <2> QED BY <2>2, <2>3, QuietBounded
  <1>5. CASE StartEscalation(r)
    <2>1. PICK e \in Ids : e = run[r].event /\ events[e].status # "none"
      BY <1>5 DEF StartEscalation, Facts, Held, Paced, RunPaced, Holding, Creating
    <2>2. \A f \in Ids : /\ events'[f].status \in {events[f].status, "escalated"}
                         /\ events[f].status = "none" => events'[f].status = "none"
                         /\ events'[f].everResolved = events[f].everResolved
      BY <1>5, <2>1, Typed DEF StartEscalation, AdvanceEscalation, EventType
    <2> QED BY <1>5, <2>2, EnterFields, QuietBounded DEF StartEscalation
  <1>6. CASE \E e \in Ids : CreateEvent(r, e)
    <2>1. PICK e \in Ids : CreateEvent(r, e)
      BY <1>6
    <2>2. /\ events'[e].status = "triggered"
          /\ \A f \in Ids \ {e} : events'[f] = events[f]
          /\ run'[r].at = "notify" /\ \A q \in Runs \ {r} : run'[q] = run[q]
      BY <2>1, Typed DEF CreateEvent, EventType, RunType
    <2>3. ResolvedOnce' /\ Unresolved' \subseteq Unresolved \cup {e}
      BY <2>2 DEF ResolvedOnce, Unresolved
    <2>4. Creators' = Creators \ {r} /\ r \in Creators
      BY <2>1, <2>2 DEF CreateEvent, Creators
    <2>5. Cardinality(Creators') = Cardinality(Creators) - 1
      BY <2>4, CountsFinite, FS_RemoveElement
    <2>6. Cardinality(Unresolved') <= Cardinality(Unresolved) + 1
      <3>1. /\ IsFiniteSet(Unresolved \cup {e})
            /\ Cardinality(Unresolved \cup {e}) <= Cardinality(Unresolved) + 1
            /\ Cardinality(Unresolved \cup {e}) \in Nat
        <4>1. /\ IsFiniteSet(Unresolved \cup {e})
              /\ \/ Cardinality(Unresolved \cup {e}) = Cardinality(Unresolved)
                 \/ Cardinality(Unresolved \cup {e}) = Cardinality(Unresolved) + 1
          BY CountsFinite, FS_AddElement
        <4> QED BY <4>1, CountsFinite
      <3>2. Cardinality(Unresolved') <= Cardinality(Unresolved \cup {e})
        BY <2>3, <3>1, FS_Subset
      <3> QED BY <3>1, <3>2, CountsFinite, CountsFiniteNext
    <2>7. Cardinality(Unresolved') + Cardinality(Creators') <= Cardinality(Runs)
      BY <2>5, <2>6, CountsFinite, CountsFiniteNext DEF DuplicatesAreBounded
    <2> QED BY <2>3, <2>7 DEF DuplicatesAreBounded
  <1> QED BY <1>1, <1>2, <1>3, <1>4, <1>5, <1>6 DEF Policies

\* An escalation may revive a resolved event, but makes no new one.
LEMMA EscalationsBounded ==
  ASSUME Facts, Paced, ResolvedOnce, DuplicatesAreBounded, NEW r \in Runs, Escalations(r)
  PROVE  ResolvedOnce' /\ DuplicatesAreBounded'
  <1>1. \A q \in Runs : run'[q].at = "create" => run[q].at = "create"
    <2>1. CASE \E e : Drop(r, e)
      BY <2>1, DropFields
    <2>2. CASE \E b : run' = [run EXCEPT ![r] = Rest(b)]
      BY <2>2, Typed DEF Rest, Idle
    <2>3. CASE \E e \in Ids : run' = [run EXCEPT ![r].at = "advance", ![r].event = e]
      BY <2>3, Typed DEF RunType
    <2> QED BY <2>1, <2>2, <2>3 DEF Escalations, GetDueEscalations, Advance,
            ClearEscalationTimer, NotifyStep
  <1>2. CASE \E passed \in SUBSET Armed : GetDueEscalations(r, passed)
    BY <1>1, <1>2, QuietBounded DEF GetDueEscalations, eventVars
  <1>3. CASE \E e \in Ids : ClearEscalationTimer(r, e) \/ NotifyStep(r, e)
    <2>1. \A f \in Ids : /\ events'[f].status = events[f].status
                         /\ events'[f].everResolved = events[f].everResolved
      BY <1>3, Typed DEF ClearEscalationTimer, NotifyStep, EventType
    <2> QED BY <1>1, <2>1, QuietBounded
  <1>4. CASE Advance(r)
    <2>1. PICK e \in Ids : e = run[r].event /\ events[e].status # "none"
      BY <1>4 DEF Advance, Facts, Held, Paced, RunPaced, Holding
    <2>2. \A f \in Ids : /\ events'[f].status \in {events[f].status, "escalated"}
                         /\ events[f].status = "none" => events'[f].status = "none"
                         /\ events'[f].everResolved = events[f].everResolved
      BY <1>4, <2>1, Typed DEF Advance, AdvanceEscalation, SetEscalationStep, EventType
    <2> QED BY <1>1, <2>2, QuietBounded
  <1> QED BY <1>2, <1>3, <1>4 DEF Escalations

\* Every step.
LEMMA NextBounded ==
  Facts /\ Paced /\ ResolvedOnce /\ DuplicatesAreBounded /\ [Next]_vars
    => ResolvedOnce' /\ DuplicatesAreBounded'
  <1> SUFFICES ASSUME Facts, Paced, ResolvedOnce, DuplicatesAreBounded, [Next]_vars
               PROVE  ResolvedOnce' /\ DuplicatesAreBounded'
    OBVIOUS
  <1>1. ASSUME NEW r \in Runs, Deltas(r) PROVE ResolvedOnce' /\ DuplicatesAreBounded'
    <2>1. events' = events /\ \A q \in Runs \ {r} : run'[q] = run[q]
      BY <1>1, DeltasLetGo DEF LetsGo, eventVars
    <2>2. run'[r].at # "create"
      <3>1. CASE \E at \in {"idle", "policies", "record"} : Enter(r, at)
        BY <3>1, EnterFields
      <3>2. CASE \E rows \in [Keys -> Severity] : Begin(r, rows)
        BY <3>2, Typed DEF Begin, Idle
      <3>3. CASE (\E k \in Keys : SelectFinding(r, k)) \/ UpsertFinding(r)
        <4>1. CASE \E k \in Keys : SelectFinding(r, k)
          BY <4>1, Typed DEF SelectFinding, RunType
        <4>2. CASE UpsertFinding(r)
          BY <4>2, Typed DEF UpsertFinding, Store, RunType
        <4> QED BY <3>3, <4>1, <4>2
      <3>4. CASE ResolveStaleFindings(r)
        BY <3>1, <3>4, Typed DEF ResolveStaleFindings, RunType
      <3>5. CASE WasAlertRecentlySent(r)
        BY <3>1, <3>5, Typed DEF WasAlertRecentlySent, GoTo, RunType
      <3>6. CASE (\E ok \in BOOLEAN : SendAlert(r, ok)) \/ RecordAlertSent(r)
        BY <3>1, <3>6 DEF SendAlert, RecordAlertSent
      <3> QED BY <1>1, <3>2, <3>3, <3>4, <3>5, <3>6 DEF Deltas
    <2> QED BY <2>1, <2>2, QuietBounded
  <1>2. ASSUME NEW r \in Runs, RunFails(r) PROVE ResolvedOnce' /\ DuplicatesAreBounded'
    <2>1. events' = events
      BY <1>2 DEF RunFails
    <2>2. \A q \in Runs : run'[q].at = "create" => run[q].at = "create"
      BY <1>2, EnterFields, DropFields DEF RunFails
    <2> QED BY <2>1, <2>2, QuietBounded
  <1>3. CASE CloudRestart
    <2>1. events' = events /\ \A r \in Runs : run'[r].at = "idle"
      BY <1>3, IdleType DEF CloudRestart
    <2> QED BY <2>1, QuietBounded
  <1>4. CASE \E e \in Ids : AcknowledgeEvent(e)
    <2>1. PICK e \in Ids : AcknowledgeEvent(e)
      BY <1>4
    <2>2. run' = run
          /\ \A f \in Ids : /\ events'[f].status \in {events[f].status, "acknowledged"}
                            /\ events[f].status = "none" => events'[f].status = "none"
                            /\ events'[f].everResolved = events[f].everResolved
      BY <2>1, Typed DEF AcknowledgeEvent, EventType
    <2> QED BY <2>2, QuietBounded
  <1>5. CASE WindowPasses \/ UNCHANGED vars
    <2>1. events' = events /\ run' = run
      BY <1>5 DEF WindowPasses, vars, eventVars
    <2> QED BY <2>1, QuietBounded
  <1> QED BY <1>1, <1>2, <1>3, <1>4, <1>5, PoliciesBounded, EscalationsBounded DEF Next

\* getOpenEvent and createEvent are two awaits, so overlapping runs may open
\* several events of one policy; never more than there are runs.
THEOREM DuplicatesBounded == Spec => []DuplicatesAreBounded
  <1>1. Init => ResolvedOnce /\ DuplicatesAreBounded
    <2> SUFFICES ASSUME Init PROVE ResolvedOnce /\ DuplicatesAreBounded
      OBVIOUS
    <2>1. Unresolved = {} /\ Creators = {}
      BY DEF Init, Unresolved, Creators, Idle
    <2>2. Cardinality(Unresolved) = 0 /\ Cardinality(Creators) = 0
      BY <2>1, FS_EmptySet
    <2>3. Cardinality(Unresolved) + Cardinality(Creators) <= Cardinality(Runs)
      BY <2>2, CountsFinite
    <2> QED BY <2>3 DEF Init, ResolvedOnce, DuplicatesAreBounded
  <1> QED BY <1>1, InitFacts, InitPaced, NextFacts, NextPaced, NextBounded, PTL DEF Spec
=============================================================================
