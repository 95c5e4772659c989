----------------------------- MODULE TicketEngine -----------------------------
(***************************************************************************)
(* TuneOps tickets (services/tuneops-ticket-engine.js, db/tuneops-tickets  *)
(* .js, routes/tuneops.js) of one company with one Oracle connection.  A   *)
(* health check that completes starts the engine that turns findings into  *)
(* tickets and does not wait for it.  Nothing keeps the health checks of a *)
(* connection apart, so runs of the engine overlap; meanwhile users move   *)
(* tickets and create others by hand.  Every await of a run ends a step.   *)
(***************************************************************************)
EXTENDS Integers, Sequences, FiniteSets, FiniteSetsExt

CONSTANTS
    Checks,     \* canonical keys: the checks of the connection
    Engines,    \* runs of the engine under way at one time
    MaxManual   \* bound: tickets created by hand

ASSUME ConstantsAssumption ==
    /\ "null" \notin Checks
    /\ IsFiniteSet(Engines)
    /\ MaxManual \in Nat

VARIABLES
    tickets,    \* the rows of tuneops_tickets, by id
    engine,     \* processHealthCheckFindings: where each run is and what it holds
    posting,    \* POST /tickets between its two queries: the number, or 0
    overlap,    \* history: the most runs that were ever under way at once
    alone       \* history: no run has joined the one that is under way

vars == <<tickets, engine, posting, overlap, alone>>

Severities == {"warning", "critical"}      \* STATUS_TO_SEVERITY of amber, red
Statuses == {"OPEN", "ACKNOWLEDGED", "CONFIRMED", "EXECUTING", "REOPENED",
             "RESOLVED"}
Ticket == [number : Nat, key : Checks \cup {"null"},
           severity : Severities \cup {"info"}, status : Statuses,
           resolved_by : {"null", "user"}]

\* What a run sees of each check: the severity of its newest row, or none.
Results == [Checks -> Severities \cup {"none"}]

Run == [pc : {"idle", "load", "next", "worsen", "resolved", "reopen", "number",
              "insert", "close"},
        active : Results, todo : SUBSET Checks, key : Checks \cup {"null"},
        ref : Nat, open : SUBSET Nat]

TypeOK ==
    /\ tickets \in Seq(Ticket)
    /\ engine \in [Engines -> Run]
    /\ posting \in Nat
    /\ overlap \in Nat
    /\ alone \in BOOLEAN

Idle == [pc |-> "idle", active |-> [c \in Checks |-> "none"], todo |-> {},
         key |-> "null", ref |-> 0, open |-> {}]

Busy == {e \in Engines : engine[e].pc # "idle"}

Init ==
    /\ tickets = <<>>
    /\ engine = [e \in Engines |-> Idle]
    /\ posting = 0
    /\ overlap = 0 /\ alone = TRUE
-----------------------------------------------------------------------------
(* processHealthCheckFindings *)

\* Run e is at p, and goes on as r.
At(e, p) == engine[e].pc = p
GoesTo(e, r) ==
    /\ engine' = [engine EXCEPT ![e] = r]
    /\ UNCHANGED <<posting, overlap, alone>>

\* The end of the AI analysis, whatever other runs of the connection are doing.
HealthCheckCompletes(e) ==
    /\ At(e, "idle")
    /\ engine' = [engine EXCEPT ![e] = [Idle EXCEPT !.pc = "load"]]
    /\ overlap' = IF overlap > Cardinality(Busy) THEN overlap
                                                 ELSE Cardinality(Busy) + 1
    /\ alone' = (Busy = {})
    /\ UNCHANGED <<tickets, posting>>

\* The newest row of each key among the last 200 of the connection.  They are
\* read once; the rows of this run are stored by a transaction that nobody
\* waits for, others by overlapping runs, and older ones fall out of the 200
\* depending on how many there are: the run may see anything.
LoadResults(e, seen) ==
    /\ At(e, "load")
    /\ GoesTo(e, [engine[e] EXCEPT !.pc = "next", !.active = seen,
                      !.todo = {c \in Checks : seen[c] # "none"}])
    /\ UNCHANGED tickets

WithKey(c, S) == {i \in DOMAIN tickets :
                    tickets[i].key = c /\ tickets[i].status \in S}

\* The loop goes on with the next finding.
GoOn(e) == GoesTo(e, [engine[e] EXCEPT !.pc = "next", !.key = "null", !.ref = 0])

\* Mutant: the open statuses without EXECUTING, as in the comment above the
\* query ("in OPEN or ACKNOWLEDGED status").
FindOpenNotExecuting(e, c) ==
    /\ At(e, "next") /\ c \in engine[e].todo
    /\ LET open == WithKey(c, Statuses \ {"RESOLVED", "EXECUTING"}) IN
       GoesTo(e, [engine[e] EXCEPT !.todo = @ \ {c}, !.key = c,
                     !.pc  = IF open = {} THEN "resolved" ELSE "worsen",
                     !.ref = IF open = {} THEN 0 ELSE Max(open)])
    /\ UNCHANGED tickets

\* The newest of the open tickets.
FindOpenByCanonicalKey(e, c) ==
    /\ At(e, "next") /\ c \in engine[e].todo
    /\ LET open == WithKey(c, Statuses \ {"RESOLVED"}) IN
       GoesTo(e, [engine[e] EXCEPT !.todo = @ \ {c}, !.key = c,
                     !.pc  = IF open = {} THEN "resolved" ELSE "worsen",
                     !.ref = IF open = {} THEN 0 ELSE Max(open)])
    /\ UNCHANGED tickets

\* The one resolved last, of those there are: times are not modelled.
FindResolvedByCanonicalKey(e) ==
    /\ At(e, "resolved")
    /\ LET old == WithKey(engine[e].key, {"RESOLVED"}) IN
       \/ /\ old = {}
          /\ GoesTo(e, [engine[e] EXCEPT !.pc = "number"])
       \/ \E i \in old :
             GoesTo(e, [engine[e] EXCEPT !.pc = "reopen", !.ref = i])
    /\ UNCHANGED tickets

Rank == [info |-> 1, warning |-> 2, critical |-> 3]
Found(e) == engine[e].active[engine[e].key]

\* Mutant: the severity follows the finding.
SetSeverity(e) ==
    /\ At(e, "worsen")
    /\ tickets' = [tickets EXCEPT ![engine[e].ref].severity = Found(e)]
    /\ GoOn(e)

\* UPDATE ... WHERE id = $1 and the severity is lower, whatever the status.
WorsenSeverity(e) ==
    /\ At(e, "worsen")
    /\ tickets' = [tickets EXCEPT ![engine[e].ref].severity =
                      IF Rank[@] < Rank[Found(e)] THEN Found(e) ELSE @]
    /\ GoOn(e)

\* Mutant: the statuses are upper case in the database only.
ReopenLowerCase(e) ==
    /\ At(e, "reopen")
    /\ tickets' = [tickets EXCEPT ![engine[e].ref] =
                      [@ EXCEPT !.status = "reopened", !.resolved_by = "null",
                                !.severity = Found(e)]]
    /\ GoOn(e)

\* UPDATE ... WHERE id = $1, whatever the status is by now.
ReopenTicket(e) ==
    /\ At(e, "reopen")
    /\ tickets' = [tickets EXCEPT ![engine[e].ref] =
                      [@ EXCEPT !.status = "REOPENED", !.resolved_by = "null",
                                !.severity = Found(e)]]
    /\ GoOn(e)

NextTicketNumber ==
    IF tickets = <<>> THEN 1 ELSE tickets[Len(tickets)].number + 1

\* Mutant: a table without the UNIQUE constraint.
NumberMayRepeat(n) == TRUE

\* The UNIQUE constraint that ON CONFLICT (ticket_number) of insertDemoTickets
\* presupposes; the INSERT of createTicket fails without it.
NumberIsFree(n) == \A i \in DOMAIN tickets : tickets[i].number # n

NewTicket(n, key, severity) ==
    [number |-> n, key |-> key, severity |-> severity, status |-> "OPEN",
     resolved_by |-> "null"]

ReadNumber(e) ==
    /\ At(e, "number")
    /\ GoesTo(e, [engine[e] EXCEPT !.pc = "insert", !.ref = NextTicketNumber])
    /\ UNCHANGED tickets

CreateTicket(e) ==
    /\ At(e, "insert") /\ NumberIsFree(engine[e].ref)
    /\ tickets' = Append(tickets, NewTicket(engine[e].ref, engine[e].key, Found(e)))
    /\ GoOn(e)

\* The number went to another ticket: the run ends here, in its catch.
CreateTicketFails(e) ==
    /\ At(e, "insert") /\ ~NumberIsFree(engine[e].ref)
    /\ GoesTo(e, Idle)
    /\ UNCHANGED tickets

Resolvable == {"OPEN", "ACKNOWLEDGED", "CONFIRMED", "REOPENED"}

\* Mutant: a finding that came back is forgotten when it goes again.
SelectNotReopened(e) ==
    /\ At(e, "next") /\ engine[e].todo = {}
    /\ GoesTo(e, [engine[e] EXCEPT !.pc = "close",
                     !.open = {i \in DOMAIN tickets :
                                 /\ tickets[i].key # "null"
                                 /\ tickets[i].status \in Resolvable \ {"REOPENED"}
                                 /\ engine[e].active[tickets[i].key] = "none"}])
    /\ UNCHANGED tickets

\* Mutant: activeKeys is not looked at.
SelectActiveToo(e) ==
    /\ At(e, "next") /\ engine[e].todo = {}
    /\ GoesTo(e, [engine[e] EXCEPT !.pc = "close",
                     !.open = {i \in DOMAIN tickets :
                                 /\ tickets[i].key # "null"
                                 /\ tickets[i].status \in Resolvable}])
    /\ UNCHANGED tickets

\* The open tickets of the connection whose key is not active.
SelectOpenTickets(e) ==
    /\ At(e, "next") /\ engine[e].todo = {}
    /\ GoesTo(e, [engine[e] EXCEPT !.pc = "close",
                     !.open = {i \in DOMAIN tickets :
                                 /\ tickets[i].key # "null"
                                 /\ tickets[i].status \in Resolvable
                                 /\ engine[e].active[tickets[i].key] = "none"}])
    /\ UNCHANGED tickets

\* Mutant: tickets whose fix is being executed are resolved, too.
AutoResolveExecuting(e, i) ==
    /\ At(e, "close") /\ i \in engine[e].open
    /\ tickets' = [j \in DOMAIN tickets |->
                     IF j \in WithKey(tickets[i].key, Statuses \ {"RESOLVED"})
                     THEN [tickets[j] EXCEPT !.status = "RESOLVED"]
                     ELSE tickets[j]]
    /\ GoesTo(e, [engine[e] EXCEPT !.open = @ \ {i}])

\* All the tickets with the key of ticket i, once for each that was selected;
\* resolved_by is left as it is.
AutoResolveByCanonicalKey(e, i) ==
    /\ At(e, "close") /\ i \in engine[e].open
    /\ tickets' = [j \in DOMAIN tickets |->
                     IF j \in WithKey(tickets[i].key, Resolvable)
                     THEN [tickets[j] EXCEPT !.status = "RESOLVED"]
                     ELSE tickets[j]]
    /\ GoesTo(e, [engine[e] EXCEPT !.open = @ \ {i}])

EngineEnds(e) ==
    /\ At(e, "close") /\ engine[e].open = {}
    /\ GoesTo(e, Idle)
    /\ UNCHANGED tickets

\* Any of its queries fails: caught and logged.
EngineFails(e) ==
    /\ e \in Busy
    /\ GoesTo(e, Idle)
    /\ UNCHANGED tickets
-----------------------------------------------------------------------------
(* Users *)

\* UPDATE ... WHERE ticket_number = $1 AND status IN (from): the read before it
\* only decides what is answered.
UserMove(i, from, to, resolver) ==
    /\ i \in DOMAIN tickets /\ tickets[i].status \in from
    /\ tickets' = [tickets EXCEPT ![i] =
                      [@ EXCEPT !.status = to, !.resolved_by = resolver]]
    /\ UNCHANGED <<engine, posting, overlap, alone>>

ConfirmTicket(i)     == UserMove(i, {"OPEN", "REOPENED"}, "CONFIRMED", "null")
AcknowledgeTicket(i) == UserMove(i, {"OPEN", "REOPENED"}, "ACKNOWLEDGED", "null")
ExecuteTicket(i)     == UserMove(i, {"CONFIRMED"}, "EXECUTING", "null")
ResolveTicket(i)     == UserMove(i, {"EXECUTING", "CONFIRMED", "OPEN", "REOPENED"},
                                 "RESOLVED", "user")

\* POST /tickets: createTicket reads the number, then inserts.
PostReadsNumber ==
    /\ posting = 0
    /\ Cardinality({i \in DOMAIN tickets : tickets[i].key = "null"}) < MaxManual
    /\ posting' = NextTicketNumber
    /\ UNCHANGED <<tickets, engine, overlap, alone>>

PostTicket ==
    /\ posting # 0
    /\ tickets' = IF NumberIsFree(posting)
                  THEN Append(tickets, NewTicket(posting, "null", "info"))
                  ELSE tickets
    /\ posting' = 0
    /\ UNCHANGED <<engine, overlap, alone>>
-----------------------------------------------------------------------------
\* The process ends: runs and requests are gone.
CloudRestart ==
    /\ Busy # {} \/ posting # 0
    /\ engine' = [e \in Engines |-> Idle] /\ posting' = 0
    /\ UNCHANGED <<tickets, overlap, alone>>

EngineStep(e) ==
    \/ HealthCheckCompletes(e)
    \/ \E seen \in Results : LoadResults(e, seen)
    \/ \E c \in Checks : FindOpenByCanonicalKey(e, c)
    \/ FindResolvedByCanonicalKey(e)
    \/ WorsenSeverity(e)
    \/ ReopenTicket(e)
    \/ ReadNumber(e)
    \/ CreateTicket(e)
    \/ CreateTicketFails(e)
    \/ SelectOpenTickets(e)
    \/ \E i \in DOMAIN tickets : AutoResolveByCanonicalKey(e, i)
    \/ EngineEnds(e)
    \/ EngineFails(e)

UserStep ==
    \/ \E i \in DOMAIN tickets : \/ ConfirmTicket(i) \/ AcknowledgeTicket(i)
                                 \/ ExecuteTicket(i) \/ ResolveTicket(i)
    \/ PostReadsNumber
    \/ PostTicket

Next == (\E e \in Engines : EngineStep(e)) \/ UserStep \/ CloudRestart

Spec == Init /\ [][Next]_vars
-----------------------------------------------------------------------------
(* Safety *)

TicketsOf(c) == {i \in DOMAIN tickets : tickets[i].key = c}

\* The engine looks for a ticket, and creates one awaits later.  A finding has
\* at most as many tickets as runs have overlapped, one if none have: whatever
\* users and failures do, duplicates do not add up over time.
DuplicatesAreBounded == \A c \in Checks : Cardinality(TicketsOf(c)) <= overlap

\* The tickets of the company are numbered in the order of their creation and
\* without gaps, though number and insert are separate and users race with the
\* runs.
NumbersInOrder == \A i \in DOMAIN tickets : tickets[i].number = i

\* A run that got as far as closing tickets has left none of the findings it
\* saw without a ticket, unless a user has resolved that ticket or another run
\* has joined in.
ReportedHasTicket ==
    \A e \in Engines : alone /\ At(e, "close") =>
        \A c \in Checks : engine[e].active[c] # "none" =>
            \E i \in TicketsOf(c) :
                tickets[i].status # "RESOLVED" \/ tickets[i].resolved_by = "user"

\* A run about to end that no other has joined leaves open only tickets of
\* findings it saw, and those whose fix a user is executing.
ClearedIsClosed ==
    \A e \in Engines : alone /\ At(e, "close") /\ engine[e].open = {} =>
        \A i \in DOMAIN tickets :
            tickets[i].key # "null" /\ tickets[i].status \in Resolvable
            => engine[e].active[tickets[i].key] # "none"

\* A run that others have joined is about to reopen ticket i, which it found
\* resolved: by now it may be open again.
LateReopen(i) == ~alone /\ \E e \in Engines : At(e, "reopen") /\ engine[e].ref = i

\* The severity of an open ticket never goes down but by a late reopening.
SeverityOnlyRises ==
    [][\A i \in DOMAIN tickets :
          tickets[i].status # "RESOLVED" =>
              \/ Rank[tickets[i].severity] <= Rank[tickets'[i].severity]
              \/ LateReopen(i)]_vars

\* Runs and users together keep to the state machine of the tickets.
Lifecycle == INSTANCE TicketLifecycle WITH
    serial <- overlap <= 1,
    status <- [i \in DOMAIN tickets |->
                 IF tickets[i].status = "RESOLVED" /\ tickets[i].resolved_by = "null"
                 THEN "CLEARED" ELSE tickets[i].status]

FollowsLifecycle == Lifecycle!Spec
=============================================================================
