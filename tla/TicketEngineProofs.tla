-------------------------- MODULE TicketEngineProofs --------------------------
(***************************************************************************)
(* Theorems about TicketEngine.  A run keeps what a query told it over the *)
(* awaits that follow; the inductive invariant says how much of it is      *)
(* still true then, whatever users and other runs do meanwhile, and counts *)
(* the runs that believe a finding to have no open ticket.                 *)
(***************************************************************************)
EXTENDS TicketEngine, FiniteSetTheorems, SequenceTheorems,
        WellFoundedInduction, TLAPS

\* Runs that overlap have been counted; one that is alone is the only one.
Joined ==
    /\ Cardinality(Busy) <= overlap
    /\ ~alone => overlap >= 2
    /\ alone => \A e, f \in Busy : e = f

\* Where a run has found no open ticket of its finding.
Unfound == {"resolved", "reopen", "number", "insert"}

OpenOf(c)   == {i \in TicketsOf(c) : tickets[i].status # "RESOLVED"}
Seeking(c)  == {e \in Engines : engine[e].key = c /\ engine[e].pc \in Unfound}
Creating(c) == {e \in Engines : engine[e].key = c
                                /\ engine[e].pc \in {"number", "insert"}}

\* Tickets that are there or on their way.  A run that will create one has seen
\* all tickets of the finding resolved, and then none of them: in between each
\* was reopened by another run that had seen it resolved.
CountedOf(c) ==
    /\ Cardinality(TicketsOf(c)) + Cardinality(Creating(c)) <= overlap
    /\ Cardinality(OpenOf(c)) + Cardinality(Seeking(c)) <= overlap

Counted == \A c \in Checks : CountedOf(c)

Working == Unfound \cup {"worsen"}

\* What run e knows of the finding it works on, and of the tickets it selected.
HoldingOf(e) ==
    /\ engine[e].pc \in Working \cup {"next"} =>
          \A c \in engine[e].todo : engine[e].active[c] # "none"
    /\ engine[e].pc \in Working =>
          engine[e].key \in Checks /\ engine[e].active[engine[e].key] # "none"
    /\ engine[e].pc \in {"worsen", "reopen"} =>
          engine[e].ref \in TicketsOf(engine[e].key)
    /\ At(e, "reopen") =>
          /\ tickets[engine[e].ref].status # "OPEN"
          /\ alone => tickets[engine[e].ref].status = "RESOLVED"
    /\ At(e, "close") =>
          \A i \in engine[e].open :
              /\ i \in DOMAIN tickets /\ tickets[i].key \in Checks
              /\ engine[e].active[tickets[i].key] = "none"

Holding == \A e \in Engines : HoldingOf(e)

\* A number that was read is at most the next one; if it is free, it is that.
Numbering ==
    /\ NumbersInOrder
    /\ posting \in 0..Len(tickets) + 1
    /\ \A e \in Engines : At(e, "insert") => engine[e].ref \in 1..Len(tickets) + 1

\* The finding has a ticket, and nobody but a user has resolved it.
Served(c) ==
    \E i \in TicketsOf(c) :
        tickets[i].status # "RESOLVED" \/ tickets[i].resolved_by = "user"

\* The findings that are through the loop of run e.
Reporting(e) ==
    /\ At(e, "worsen") => Served(engine[e].key)
    /\ engine[e].pc \in Working \cup {"next", "close"} =>
          \A c \in Checks :
              \/ engine[e].active[c] = "none"
              \/ ~At(e, "close") /\ c \in engine[e].todo
              \/ engine[e].pc \in Working /\ c = engine[e].key
              \/ Served(c)

\* The tickets that the second loop of run e still has to close.
Closing(e) ==
    At(e, "close") =>
        \A i \in DOMAIN tickets :
            tickets[i].key # "null" /\ tickets[i].status \in Resolvable =>
                engine[e].active[tickets[i].key] # "none" \/ i \in engine[e].open

Undisturbed == alone => \A e \in Engines : Reporting(e) /\ Closing(e)

Later == Joined /\ Counted /\ Holding /\ Numbering /\ Undisturbed

IInv == TypeOK /\ Later
-----------------------------------------------------------------------------
(* Operators *)

\* A set of positions that is not empty has a last one.
LEMMA MaxIsIn ==
  ASSUME NEW n \in Nat, NEW S \in SUBSET (1..n), S # {}
  PROVE  Max(S) \in S
  <1> DEFINE R == OpToRel(<, Nat)
             T == {n - i : i \in S}
  <1>1. IsWellFoundedOn(R, Nat)
    BY NatLessThanWellFounded
  <1>2. \A a, b \in Nat : a < b => <<a, b>> \in R
    BY DEF OpToRel
  <1> HIDE DEF R
  <1>3. T \subseteq Nat /\ T # {}
    <2>1. \A i \in S : n - i \in Nat
      OBVIOUS
    <2> QED BY <2>1
  <1>4. PICK m \in T : \A y \in T : ~ (<<y, m>> \in R)
    BY <1>1, <1>3, WFMin
  <1>5. PICK i \in S : m = n - i
    OBVIOUS
  <1>6. ASSUME NEW j \in S PROVE j <= i
    <2>1. n - j \in T /\ n - j \in Nat /\ m \in Nat
      OBVIOUS
    <2>2. ~ (n - j < m)
      BY <1>2, <1>4, <2>1
    <2> QED BY <1>5, <2>1, <2>2
  <1>7. \E x \in S : \A y \in S : x >= y
    BY <1>6
  <1> QED BY <1>7 DEF Max

\* Two sets that do not grow are together as small as they were.
LEMMA Fewer ==
  ASSUME NEW A, NEW B, IsFiniteSet(A), IsFiniteSet(B),
         NEW C \in SUBSET A, NEW D \in SUBSET B,
         NEW n \in Nat, NEW m \in Nat, n <= m,
         Cardinality(A) + Cardinality(B) <= n
  PROVE  Cardinality(C) + Cardinality(D) <= m
  <1>1. /\ Cardinality(C) <= Cardinality(A) /\ Cardinality(D) <= Cardinality(B)
        /\ Cardinality(A) \in Nat /\ Cardinality(B) \in Nat
        /\ Cardinality(C) \in Nat /\ Cardinality(D) \in Nat
    BY FS_Subset, FS_CardinalityType
  <1> QED BY <1>1

\* What one set gains the other loses.
LEMMA Handed ==
  ASSUME NEW A, NEW B, IsFiniteSet(A), IsFiniteSet(B), NEW x, NEW y \in B,
         NEW C \in SUBSET (A \cup {x}), NEW D \in SUBSET (B \ {y}),
         NEW n \in Nat, Cardinality(A) + Cardinality(B) <= n
  PROVE  Cardinality(C) + Cardinality(D) <= n
  <1>1. /\ IsFiniteSet(A \cup {x}) /\ Cardinality(A) \in Nat
        /\ Cardinality(A \cup {x}) <= Cardinality(A) + 1
    <2>1. Cardinality(A) \in Nat
      BY FS_CardinalityType
    <2>2. /\ IsFiniteSet(A \cup {x})
          /\ Cardinality(A \cup {x}) = IF x \in A THEN Cardinality(A)
                                                  ELSE Cardinality(A) + 1
      BY FS_AddElement
    <2> QED BY <2>1, <2>2
  <1>2. /\ IsFiniteSet(B \ {y}) /\ Cardinality(B) \in Nat
        /\ Cardinality(B \ {y}) = Cardinality(B) - 1
    BY FS_RemoveElement, FS_CardinalityType
  <1>3. Cardinality(A \cup {x}) + Cardinality(B \ {y}) <= n
        /\ Cardinality(A \cup {x}) \in Nat /\ Cardinality(B \ {y}) \in Nat
    BY <1>1, <1>2, FS_CardinalityType
  <1> QED BY <1>1, <1>2, <1>3, Fewer
-----------------------------------------------------------------------------
(* Tables and runs *)

\* The table of tickets as a function.
LEMMA TicketsAreFunction ==
  ASSUME TypeOK
  PROVE  /\ Len(tickets) \in Nat /\ DOMAIN tickets = 1..Len(tickets)
         /\ tickets \in [DOMAIN tickets -> Ticket]
  BY LenProperties DEF TypeOK

\* An update of columns leaves a table, with as many tickets as there were.
LEMMA UpdatedIsTable ==
  ASSUME TypeOK, tickets' \in [DOMAIN tickets -> Ticket]
  PROVE  tickets' \in Seq(Ticket) /\ Len(tickets') = Len(tickets)
  <1>1. /\ Len(tickets) \in Nat /\ DOMAIN tickets = 1..Len(tickets)
    BY TicketsAreFunction
  <1>2. tickets' \in Seq(Ticket)
    BY <1>1, SeqDef
  <1>3. Len(tickets') \in Nat /\ DOMAIN tickets' = 1..Len(tickets')
    BY <1>2, LenProperties
  <1>4. 1..Len(tickets) = 1..Len(tickets')
    BY <1>1, <1>3
  <1> QED BY <1>1, <1>2, <1>3, <1>4

\* The sets that are counted are finite.
LEMMA SetsAreFinite ==
  ASSUME TypeOK, NEW c
  PROVE  /\ IsFiniteSet(TicketsOf(c)) /\ IsFiniteSet(OpenOf(c))
         /\ IsFiniteSet(Seeking(c)) /\ IsFiniteSet(Creating(c))
         /\ IsFiniteSet(Busy)
  <1>1. IsFiniteSet(DOMAIN tickets)
    BY TicketsAreFunction, FS_Interval
  <1>2. IsFiniteSet(TicketsOf(c)) /\ IsFiniteSet(OpenOf(c))
    BY <1>1, FS_Subset DEF TicketsOf, OpenOf
  <1>3. /\ IsFiniteSet(Seeking(c)) /\ IsFiniteSet(Creating(c))
        /\ IsFiniteSet(Busy)
    BY ConstantsAssumption, FS_Subset DEF Seeking, Creating, Busy
  <1> QED BY <1>2, <1>3

\* A step of a run leaves the other runs where they are.
LEMMA RunMoves ==
  ASSUME TypeOK, NEW e \in Engines, NEW r, GoesTo(e, r)
  PROVE  /\ engine'[e] = r
         /\ \A f \in Engines : f # e => engine'[f] = engine[f]
         /\ posting' = posting /\ overlap' = overlap /\ alone' = alone
  BY DEF TypeOK, GoesTo

\* Tickets are never taken away, nor given another number or finding, and none
\* becomes open as if it were new.
Grows ==
    /\ DOMAIN tickets \subseteq DOMAIN tickets'
    /\ Len(tickets) <= Len(tickets') /\ Len(tickets') \in Nat
    /\ \A i \in DOMAIN tickets :
          /\ tickets'[i].key = tickets[i].key
          /\ tickets'[i].number = tickets[i].number
          /\ tickets'[i].status = "OPEN" => tickets[i].status = "OPEN"

\* A query changes none.
LEMMA SameTable ==
  ASSUME TypeOK, UNCHANGED tickets
  PROVE  /\ Grows /\ NumbersInOrder' = NumbersInOrder
         /\ \A c : /\ TicketsOf(c)' = TicketsOf(c) /\ OpenOf(c)' = OpenOf(c)
                   /\ Served(c)' = Served(c)
  BY TicketsAreFunction DEF Grows, NumbersInOrder, TicketsOf, OpenOf, Served
-----------------------------------------------------------------------------
(* What a step does to the tickets *)

\* A new ticket is a ticket.
LEMMA NewTicketType ==
  ASSUME NEW n \in Nat, NEW key \in Checks \cup {"null"},
         NEW severity \in Severities \cup {"info"}
  PROVE  NewTicket(n, key, severity) \in Ticket
  BY DEF NewTicket, Ticket, Statuses

\* A number that is free is the next one.
LEMMA FreeIsNext ==
  ASSUME TypeOK, NumbersInOrder, NEW n \in 1..Len(tickets) + 1, NumberIsFree(n)
  PROVE  n = Len(tickets) + 1
  BY TicketsAreFunction DEF NumberIsFree, NumbersInOrder

\* The last ticket has the highest number.
LEMMA NextIsNext ==
  ASSUME TypeOK, NumbersInOrder
  PROVE  NextTicketNumber = Len(tickets) + 1 /\ NextTicketNumber \in Nat
  <1>1. CASE tickets = <<>>
    BY <1>1, EmptySeq DEF NextTicketNumber
  <1>2. CASE tickets # <<>>
    <2>1. Len(tickets) \in DOMAIN tickets /\ Len(tickets) \in Nat
      BY <1>2, EmptySeq, TicketsAreFunction DEF TypeOK
    <2> QED BY <1>2, <2>1 DEF NextTicketNumber, NumbersInOrder
  <1> QED BY <1>1, <1>2

\* An update by id touches one ticket.
LEMMA UpdateOne ==
  ASSUME TypeOK, NEW i \in DOMAIN tickets, NEW t,
         tickets' = [tickets EXCEPT ![i] = t]
  PROVE  /\ DOMAIN tickets' = DOMAIN tickets /\ Len(tickets') = Len(tickets)
         /\ tickets'[i] = t
         /\ \A j \in DOMAIN tickets : j # i => tickets'[j] = tickets[j]
         /\ t \in Ticket => tickets' \in Seq(Ticket)
  <1>1. /\ DOMAIN tickets' = DOMAIN tickets /\ Len(tickets') = Len(tickets)
        /\ tickets'[i] = t
        /\ \A j \in DOMAIN tickets : j # i => tickets'[j] = tickets[j]
    BY TicketsAreFunction DEF TypeOK
  <1>2. ASSUME t \in Ticket PROVE tickets' \in Seq(Ticket)
    BY <1>2, TicketsAreFunction, UpdatedIsTable
  <1> QED BY <1>1, <1>2

\* A new ticket goes to the end.
LEMMA Appended ==
  ASSUME TypeOK, NEW t, tickets' = Append(tickets, t)
  PROVE  /\ DOMAIN tickets' = DOMAIN tickets \cup {Len(tickets) + 1}
         /\ Len(tickets') = Len(tickets) + 1
         /\ tickets'[Len(tickets) + 1] = t
         /\ \A i \in DOMAIN tickets : tickets'[i] = tickets[i]
         /\ Len(tickets) + 1 \notin DOMAIN tickets
         /\ t \in Ticket => tickets' \in Seq(Ticket)
  BY TicketsAreFunction DEF TypeOK

\* Of ticket i the severity, the status and the resolver may change.
Rewritten(i) ==
    /\ DOMAIN tickets' = DOMAIN tickets /\ Len(tickets') = Len(tickets)
    /\ tickets'[i].key = tickets[i].key /\ tickets'[i].number = tickets[i].number
    /\ tickets'[i].status = "OPEN" => tickets[i].status = "OPEN"
    /\ \A j \in DOMAIN tickets : j # i => tickets'[j] = tickets[j]
    /\ tickets' \in Seq(Ticket)

\* Nothing is added to the findings then, and others than i have not changed.
LEMMA RewrittenGrows ==
  ASSUME TypeOK, NumbersInOrder, NEW i \in DOMAIN tickets, Rewritten(i)
  PROVE  /\ Grows /\ NumbersInOrder'
         /\ \A c : /\ TicketsOf(c)' = TicketsOf(c)
                   /\ OpenOf(c)' \subseteq OpenOf(c) \cup {i}
                   /\ (tickets[i].status = "RESOLVED" =>
                          tickets'[i].status = "RESOLVED")
                      => OpenOf(c)' \subseteq OpenOf(c)
                   /\ /\ Served(c)
                      /\ tickets'[i].status = "RESOLVED" =>
                            \/ tickets'[i].resolved_by = "user"
                            \/ /\ tickets[i].status = "RESOLVED"
                               /\ tickets[i].resolved_by # "user"
                      => Served(c)'
  <1>1. Grows /\ NumbersInOrder'
    BY TicketsAreFunction DEF Rewritten, Grows, NumbersInOrder
  <1>2. ASSUME NEW c
        PROVE  /\ TicketsOf(c)' = TicketsOf(c)
               /\ OpenOf(c)' \subseteq OpenOf(c) \cup {i}
               /\ (tickets[i].status = "RESOLVED" => tickets'[i].status = "RESOLVED")
                  => OpenOf(c)' \subseteq OpenOf(c)
    BY DEF Rewritten, TicketsOf, OpenOf
  <1>3. ASSUME NEW c, Served(c),
               tickets'[i].status = "RESOLVED" =>
                  \/ tickets'[i].resolved_by = "user"
                  \/ /\ tickets[i].status = "RESOLVED"
                     /\ tickets[i].resolved_by # "user"
        PROVE  Served(c)'
    <2>1. PICK j \in TicketsOf(c) :
             tickets[j].status # "RESOLVED" \/ tickets[j].resolved_by = "user"
      BY <1>3 DEF Served
    <2>2. tickets'[j].status # "RESOLVED" \/ tickets'[j].resolved_by = "user"
      BY <1>3, <2>1 DEF Rewritten, TicketsOf
    <2>3. j \in TicketsOf(c)'
      BY <1>2, <2>1
    <2> QED BY <2>2, <2>3 DEF Served
  <1> QED BY <1>1, <1>2, <1>3

\* A user moves one ticket, and leaves alone those that are resolved.
LEMMA MoveOne ==
  ASSUME TypeOK, NEW i, NEW from \in SUBSET (Statuses \ {"RESOLVED"}),
         NEW to \in Statuses \ {"OPEN"}, NEW resolver \in {"null", "user"},
         UserMove(i, from, to, resolver)
  PROVE  /\ i \in DOMAIN tickets /\ Rewritten(i)
         /\ tickets[i].status \in from /\ tickets'[i].status = to
         /\ tickets'[i].resolved_by = resolver
         /\ tickets'[i].severity = tickets[i].severity
  <1>1. i \in DOMAIN tickets /\ tickets[i] \in Ticket
    BY TicketsAreFunction DEF UserMove
  <1> DEFINE t == [tickets[i] EXCEPT !.status = to, !.resolved_by = resolver]
  <1>2. tickets' = [tickets EXCEPT ![i] = t] /\ tickets[i].status \in from
    BY DEF UserMove
  <1>3. /\ t.status = to /\ t.resolved_by = resolver
        /\ t.severity = tickets[i].severity
        /\ t.key = tickets[i].key /\ t.number = tickets[i].number
        /\ t \in Ticket
    BY <1>1 DEF Ticket
  <1> HIDE DEF t
  <1> QED BY <1>1, <1>2, <1>3, UpdateOne DEF Rewritten

\* What a user asked for: the four moves.
LEMMA UserMoves ==
  ASSUME TypeOK, NEW i,
         \/ ConfirmTicket(i) \/ AcknowledgeTicket(i)
         \/ ExecuteTicket(i) \/ ResolveTicket(i)
  PROVE  /\ i \in DOMAIN tickets /\ Rewritten(i)
         /\ tickets[i].status # "RESOLVED"
         /\ tickets'[i].severity = tickets[i].severity
         /\ tickets'[i].status \notin {"OPEN", "REOPENED"}
         /\ tickets'[i].status \in Resolvable => tickets[i].status \in Resolvable
         /\ tickets'[i].status = "RESOLVED" => tickets'[i].resolved_by = "user"
         /\ tickets'[i].status # "RESOLVED" => tickets'[i].resolved_by = "null"
         /\ UNCHANGED <<engine, posting, overlap, alone>>
  <1>1. CASE ConfirmTicket(i)
    <2>1. {"OPEN", "REOPENED"} \in SUBSET (Statuses \ {"RESOLVED"})
          /\ "CONFIRMED" \in Statuses \ {"OPEN"}
      BY DEF Statuses
    <2>2. UserMove(i, {"OPEN", "REOPENED"}, "CONFIRMED", "null")
      BY <1>1 DEF ConfirmTicket
    <2>3. /\ i \in DOMAIN tickets /\ Rewritten(i)
          /\ tickets[i].status \in {"OPEN", "REOPENED"}
          /\ tickets'[i].status = "CONFIRMED" /\ tickets'[i].resolved_by = "null"
          /\ tickets'[i].severity = tickets[i].severity
      BY <2>1, <2>2, MoveOne
    <2> QED BY <2>2, <2>3 DEF UserMove, Resolvable
  <1>2. CASE AcknowledgeTicket(i)
    <2>1. {"OPEN", "REOPENED"} \in SUBSET (Statuses \ {"RESOLVED"})
          /\ "ACKNOWLEDGED" \in Statuses \ {"OPEN"}
      BY DEF Statuses
    <2>2. UserMove(i, {"OPEN", "REOPENED"}, "ACKNOWLEDGED", "null")
      BY <1>2 DEF AcknowledgeTicket
    <2>3. /\ i \in DOMAIN tickets /\ Rewritten(i)
          /\ tickets[i].status \in {"OPEN", "REOPENED"}
          /\ tickets'[i].status = "ACKNOWLEDGED" /\ tickets'[i].resolved_by = "null"
          /\ tickets'[i].severity = tickets[i].severity
      BY <2>1, <2>2, MoveOne
    <2> QED BY <2>2, <2>3 DEF UserMove, Resolvable
  <1>3. CASE ExecuteTicket(i)
    <2>1. {"CONFIRMED"} \in SUBSET (Statuses \ {"RESOLVED"})
          /\ "EXECUTING" \in Statuses \ {"OPEN"}
      BY DEF Statuses
    <2>2. UserMove(i, {"CONFIRMED"}, "EXECUTING", "null")
      BY <1>3 DEF ExecuteTicket
    <2>3. /\ i \in DOMAIN tickets /\ Rewritten(i)
          /\ tickets[i].status \in {"CONFIRMED"}
          /\ tickets'[i].status = "EXECUTING" /\ tickets'[i].resolved_by = "null"
          /\ tickets'[i].severity = tickets[i].severity
      BY <2>1, <2>2, MoveOne
    <2> QED BY <2>2, <2>3 DEF UserMove, Resolvable
  <1>4. CASE ResolveTicket(i)
    <2>1. {"EXECUTING", "CONFIRMED", "OPEN", "REOPENED"}
             \in SUBSET (Statuses \ {"RESOLVED"})
          /\ "RESOLVED" \in Statuses \ {"OPEN"}
      BY DEF Statuses
    <2>2. UserMove(i, {"EXECUTING", "CONFIRMED", "OPEN", "REOPENED"}, "RESOLVED",
                   "user")
      BY <1>4 DEF ResolveTicket
    <2>3. /\ i \in DOMAIN tickets /\ Rewritten(i)
          /\ tickets[i].status # "RESOLVED"
          /\ tickets'[i].status = "RESOLVED" /\ tickets'[i].resolved_by = "user"
          /\ tickets'[i].severity = tickets[i].severity
      BY <2>1, <2>2, MoveOne
    <2> QED BY <2>2, <2>3 DEF UserMove, Resolvable
  <1> QED BY <1>1, <1>2, <1>3, <1>4

\* The finding of a run that updates a ticket.
LEMMA FoundType ==
  ASSUME TypeOK, NEW e \in Engines, engine[e].pc \in Working, HoldingOf(e)
  PROVE  engine[e] \in Run /\ engine[e].key \in Checks /\ Found(e) \in Severities
  BY DEF TypeOK, HoldingOf, Found, Run, Results

\* WorsenSeverity raises the severity of one ticket, if it changes it.
LEMMA WorsenOne ==
  ASSUME TypeOK, NEW e \in Engines, HoldingOf(e), WorsenSeverity(e)
  PROVE  /\ engine[e].ref \in DOMAIN tickets /\ Rewritten(engine[e].ref)
         /\ tickets'[engine[e].ref].status = tickets[engine[e].ref].status
         /\ tickets'[engine[e].ref].resolved_by = tickets[engine[e].ref].resolved_by
         /\ Rank[tickets[engine[e].ref].severity]
               <= Rank[tickets'[engine[e].ref].severity]
  <1> DEFINE i == engine[e].ref
             t == [tickets[i] EXCEPT !.severity =
                      IF Rank[@] < Rank[Found(e)] THEN Found(e) ELSE @]
  <1>1. i \in DOMAIN tickets /\ tickets[i] \in Ticket /\ Found(e) \in Severities
    BY FoundType, TicketsAreFunction
    DEF WorsenSeverity, At, HoldingOf, TicketsOf, Working
  <1>2. tickets' = [tickets EXCEPT ![i] = t]
    BY DEF WorsenSeverity
  <1>3. /\ t.status = tickets[i].status /\ t.resolved_by = tickets[i].resolved_by
        /\ t.key = tickets[i].key /\ t.number = tickets[i].number
    BY <1>1 DEF Ticket
  <1>4. t \in Ticket
    BY <1>1 DEF Ticket
  <1>5. Rank[tickets[i].severity] <= Rank[t.severity]
    BY <1>1 DEF Ticket, Severities, Rank
  <1> HIDE DEF t
  <1> QED BY <1>1, <1>2, <1>3, <1>4, <1>5, UpdateOne DEF Rewritten

\* ReopenTicket reopens one ticket, which was not as new.
LEMMA ReopenOne ==
  ASSUME TypeOK, NEW e \in Engines, HoldingOf(e), ReopenTicket(e)
  PROVE  /\ engine[e].ref \in DOMAIN tickets /\ Rewritten(engine[e].ref)
         /\ tickets[engine[e].ref].status # "OPEN"
         /\ alone => tickets[engine[e].ref].status = "RESOLVED"
         /\ tickets'[engine[e].ref].status = "REOPENED"
         /\ tickets'[engine[e].ref].resolved_by = "null"
  <1> DEFINE i == engine[e].ref
             t == [tickets[i] EXCEPT !.status = "REOPENED", !.resolved_by = "null",
                                     !.severity = Found(e)]
  <1>1. i \in DOMAIN tickets /\ tickets[i] \in Ticket /\ Found(e) \in Severities
    BY FoundType, TicketsAreFunction
    DEF ReopenTicket, At, HoldingOf, TicketsOf, Working, Unfound
  <1>2. tickets' = [tickets EXCEPT ![i] = t]
    BY DEF ReopenTicket
  <1>3. /\ t.status = "REOPENED" /\ t.resolved_by = "null"
        /\ t.key = tickets[i].key /\ t.number = tickets[i].number
        /\ t \in Ticket
    BY <1>1 DEF Ticket, Statuses
  <1>4. /\ tickets[i].status # "OPEN"
        /\ alone => tickets[i].status = "RESOLVED"
    BY DEF HoldingOf, ReopenTicket
  <1> HIDE DEF t
  <1> QED BY <1>1, <1>2, <1>3, <1>4, UpdateOne DEF Rewritten

\* AutoResolveByCanonicalKey resolves the tickets of a finding that can be.
LEMMA AutoResolveAll ==
  ASSUME TypeOK, NEW e \in Engines, NEW i, AutoResolveByCanonicalKey(e, i)
  PROVE  /\ DOMAIN tickets' = DOMAIN tickets /\ Len(tickets') = Len(tickets)
         /\ tickets' \in Seq(Ticket)
         /\ \A j \in DOMAIN tickets :
               /\ j \notin WithKey(tickets[i].key, Resolvable) =>
                     tickets'[j] = tickets[j]
               /\ j \in WithKey(tickets[i].key, Resolvable) =>
                     /\ tickets'[j].status = "RESOLVED"
                     /\ tickets'[j].key = tickets[j].key
                     /\ tickets'[j].number = tickets[j].number
                     /\ tickets'[j].severity = tickets[j].severity
                     /\ tickets'[j].resolved_by = tickets[j].resolved_by
  <1>1. tickets' = [j \in DOMAIN tickets |->
                      IF j \in WithKey(tickets[i].key, Resolvable)
                      THEN [tickets[j] EXCEPT !.status = "RESOLVED"]
                      ELSE tickets[j]]
    BY DEF AutoResolveByCanonicalKey
  <1>2. ASSUME NEW j \in DOMAIN tickets
        PROVE  /\ [tickets[j] EXCEPT !.status = "RESOLVED"] \in Ticket
               /\ tickets[j] \in Ticket
               /\ [tickets[j] EXCEPT !.status = "RESOLVED"].status = "RESOLVED"
               /\ [tickets[j] EXCEPT !.status = "RESOLVED"].key = tickets[j].key
               /\ [tickets[j] EXCEPT !.status = "RESOLVED"].number
                     = tickets[j].number
               /\ [tickets[j] EXCEPT !.status = "RESOLVED"].severity
                     = tickets[j].severity
               /\ [tickets[j] EXCEPT !.status = "RESOLVED"].resolved_by
                     = tickets[j].resolved_by
    BY TicketsAreFunction DEF Ticket, Statuses
  <1>3. tickets' \in [DOMAIN tickets -> Ticket]
    BY <1>1, <1>2
  <1>4. tickets' \in Seq(Ticket) /\ Len(tickets') = Len(tickets)
    BY <1>3, UpdatedIsTable
  <1> QED BY <1>1, <1>2, <1>4
-----------------------------------------------------------------------------
(* Counting *)

\* Where a step of run e leads decides what it counts as then.
LEMMA RunCounts ==
  ASSUME TypeOK, NEW e \in Engines, NEW r, GoesTo(e, r), NEW c
  PROVE  /\ (r.pc \in Unfound /\ r.key = c => e \in Seeking(c))
            => Seeking(c)' \subseteq Seeking(c)
         /\ ~ (r.pc \in Unfound /\ r.key = c)
            => Seeking(c)' \subseteq Seeking(c) \ {e}
         /\ (r.pc \in {"number", "insert"} /\ r.key = c => e \in Creating(c))
            => Creating(c)' \subseteq Creating(c)
         /\ ~ (r.pc \in {"number", "insert"} /\ r.key = c)
            => Creating(c)' \subseteq Creating(c) \ {e}
         /\ Creating(c)' \subseteq Creating(c) \cup {e}
         /\ Busy' \subseteq Busy \cup {e}
  BY RunMoves DEF Seeking, Creating, Busy

\* Whoever creates a ticket was seeking one.
LEMMA CreatorsSeek ==
  ASSUME NEW c
  PROVE  Creating(c) \subseteq Seeking(c) /\ Seeking(c) \subseteq Busy
  BY DEF Creating, Seeking, Unfound, Busy

\* A finding of which nothing more is counted than before.
LEMMA QuietOf ==
  ASSUME TypeOK, NEW c, CountedOf(c), overlap' \in Nat, overlap <= overlap',
         TicketsOf(c)' \subseteq TicketsOf(c), OpenOf(c)' \subseteq OpenOf(c),
         Creating(c)' \subseteq Creating(c), Seeking(c)' \subseteq Seeking(c)
  PROVE  CountedOf(c)'
  <1>1. overlap \in Nat
    BY DEF TypeOK
  <1>2. Cardinality(TicketsOf(c)') + Cardinality(Creating(c)') <= overlap'
    BY <1>1, SetsAreFinite, Fewer DEF CountedOf
  <1>3. Cardinality(OpenOf(c)') + Cardinality(Seeking(c)') <= overlap'
    BY <1>1, SetsAreFinite, Fewer DEF CountedOf
  <1> QED BY <1>2, <1>3 DEF CountedOf

\* A run that goes on without a new belief: no more is counted, if no ticket is
\* created or reopened.
LEMMA QuietRun ==
  ASSUME TypeOK, Counted, NEW e \in Engines, NEW r, GoesTo(e, r),
         r.pc \in Unfound => engine[e].pc \in Unfound /\ r.key = engine[e].key,
         r.pc \in {"number", "insert"} => engine[e].pc \in {"number", "insert"},
         \A c \in Checks : /\ TicketsOf(c)' \subseteq TicketsOf(c)
                           /\ OpenOf(c)' \subseteq OpenOf(c)
  PROVE  Counted'
  <1> SUFFICES ASSUME NEW c \in Checks PROVE CountedOf(c)'
      BY DEF Counted
  <1>1. overlap' = overlap /\ overlap \in Nat
    BY DEF GoesTo, TypeOK
  <1>2. r.pc \in Unfound /\ r.key = c => e \in Seeking(c)
    BY DEF Seeking
  <1>3. r.pc \in {"number", "insert"} /\ r.key = c => e \in Creating(c)
    BY DEF Creating, Unfound
  <1>4. Creating(c)' \subseteq Creating(c) /\ Seeking(c)' \subseteq Seeking(c)
    BY <1>2, <1>3, RunCounts
  <1> QED BY <1>1, <1>4, QuietOf DEF Counted
-----------------------------------------------------------------------------
(* Steps of a run *)

\* What the others hold stays true, and a run that is alone is the only one:
\* what is left to show of a step of run e.
LEMMA StepKeeps ==
  ASSUME IInv, NEW e \in Busy, NEW r \in Run, GoesTo(e, r), Grows,
         tickets' \in Seq(Ticket), NumbersInOrder', Counted', HoldingOf(e)',
         r.pc = "insert" => r.ref \in 1..Len(tickets') + 1,
         alone => Reporting(e)' /\ Closing(e)'
  PROVE  IInv'
  <1> TypeOK /\ Joined /\ Holding /\ Numbering /\ Undisturbed
    BY DEF IInv, Later
  <1>1. /\ e \in Engines /\ engine'[e] = r
        /\ \A f \in Engines : f # e => engine'[f] = engine[f]
        /\ posting' = posting /\ overlap' = overlap /\ alone' = alone
    BY RunMoves DEF Busy
  <1>2. TypeOK'
    BY DEF TypeOK, GoesTo
  <1>3. Joined'
    <2>1. Busy' \subseteq Busy
      BY <1>1 DEF Busy
    <2>2. Cardinality(Busy') <= Cardinality(Busy)
          /\ Cardinality(Busy) \in Nat /\ Cardinality(Busy') \in Nat
      BY <2>1, SetsAreFinite, FS_Subset, FS_CardinalityType
    <2>3. overlap \in Nat
      BY DEF TypeOK
    <2> QED BY <1>1, <2>1, <2>2, <2>3 DEF Joined
  <1>4. Holding'
    <2>1. ASSUME NEW f \in Engines, f # e PROVE HoldingOf(f)'
      <3>1. engine'[f] = engine[f] /\ HoldingOf(f)
        BY <1>1, <2>1 DEF Holding
      <3>2. engine[f].pc \in Working => engine[f].key \in Checks
        BY <3>1 DEF HoldingOf
      <3>3. \A c : TicketsOf(c) \subseteq TicketsOf(c)'
        BY DEF Grows, TicketsOf
      <3>4. At(f, "reopen") => ~alone
        BY <2>1 DEF Joined, At, Busy
      <3>5. At(f, "reopen") => /\ engine[f].ref \in DOMAIN tickets
                               /\ tickets'[engine[f].ref].status # "OPEN"
        BY <3>1 DEF HoldingOf, At, TicketsOf, Grows
      <3>6. \A i \in DOMAIN tickets : i \in DOMAIN tickets'
                                        /\ tickets'[i].key = tickets[i].key
        BY DEF Grows
      <3> QED BY <1>1, <3>1, <3>3, <3>4, <3>5, <3>6 DEF HoldingOf, At
    <2> QED BY <2>1 DEF Holding
  <1>5. Numbering'
    <2>1. Len(tickets) \in Nat /\ Len(tickets') \in Nat
          /\ Len(tickets) <= Len(tickets')
      BY TicketsAreFunction DEF Grows
    <2>2. \A f \in Engines : At(f, "insert")' =>
             engine'[f].ref \in 1..Len(tickets') + 1
      BY <1>1, <2>1 DEF Numbering, At
    <2> QED BY <1>1, <2>1, <2>2 DEF Numbering
  <1>6. Undisturbed'
    <2> SUFFICES ASSUME alone, NEW f \in Engines
                 PROVE  Reporting(f)' /\ Closing(f)'
        BY <1>1 DEF Undisturbed
    <2>1. CASE f # e
      <3>1. engine[f].pc = "idle"
        BY <2>1 DEF Joined, Busy
      <3>2. engine'[f].pc = "idle"
        BY <1>1, <2>1, <3>1
      <3> QED BY <3>2 DEF Reporting, Closing, At, Working, Unfound
    <2> QED BY <2>1
  <1> QED BY <1>2, <1>3, <1>4, <1>5, <1>6 DEF IInv, Later

\* A query changes no ticket.
LEMMA QueryKeeps ==
  ASSUME IInv, NEW e \in Busy, NEW r \in Run, GoesTo(e, r), UNCHANGED tickets,
         Counted', HoldingOf(e)',
         r.pc = "insert" => r.ref \in 1..Len(tickets) + 1,
         alone => Reporting(e)' /\ Closing(e)'
  PROVE  IInv'
  <1>1. TypeOK /\ NumbersInOrder
    BY DEF IInv, Later, Numbering
  <1>2. Grows /\ NumbersInOrder' /\ tickets' \in Seq(Ticket)
    BY <1>1, SameTable DEF TypeOK
  <1> QED BY <1>2, StepKeeps

\* A run that ends holds nothing.
LEMMA EndKeeps ==
  ASSUME IInv, NEW e \in Busy, GoesTo(e, Idle), UNCHANGED tickets
  PROVE  IInv'
  <1>1. TypeOK /\ Counted
    BY DEF IInv, Later
  <1>2. Idle \in Run /\ Idle.pc = "idle"
    BY DEF Idle, Run, Results
  <1>3. Counted'
    <2>1. \A c \in Checks : /\ TicketsOf(c)' \subseteq TicketsOf(c)
                            /\ OpenOf(c)' \subseteq OpenOf(c)
      BY <1>1, SameTable
    <2> QED BY <1>1, <1>2, <2>1, QuietRun DEF Busy, Unfound
  <1>4. engine'[e].pc = "idle"
    BY <1>1, <1>2, RunMoves DEF Busy
  <1>5. HoldingOf(e)' /\ Reporting(e)' /\ Closing(e)'
    BY <1>4 DEF HoldingOf, Reporting, Closing, At, Working, Unfound
  <1> QED BY <1>2, <1>3, <1>5, QueryKeeps

\* The parts of the invariant that the steps of a run use.
LEMMA Parts ==
  ASSUME IInv, NEW e \in Engines
  PROVE  /\ TypeOK /\ Joined /\ Counted /\ HoldingOf(e) /\ NumbersInOrder
         /\ alone => Reporting(e) /\ Closing(e)
         /\ engine[e] \in Run
         /\ At(e, "insert") => engine[e].ref \in 1..Len(tickets) + 1
         /\ Len(tickets) \in Nat /\ DOMAIN tickets = 1..Len(tickets)
  <1>1. TypeOK /\ Joined /\ Counted /\ Holding /\ Numbering /\ Undisturbed
    BY DEF IInv, Later
  <1> QED BY <1>1, TicketsAreFunction
          DEF TypeOK, Holding, Numbering, Undisturbed

\* The queries of FindOpen and FindResolved in the terms of the counting.
LEMMA WithKeyIs ==
  ASSUME TypeOK, NEW c
  PROVE  /\ WithKey(c, Statuses \ {"RESOLVED"}) = OpenOf(c)
         /\ WithKey(c, {"RESOLVED"}) = TicketsOf(c) \ OpenOf(c)
  <1>1. \A i \in DOMAIN tickets : tickets[i].status \in Statuses
    BY TicketsAreFunction DEF Ticket
  <1> QED BY <1>1 DEF WithKey, OpenOf, TicketsOf

\* A run that has read the rows holds nothing of a ticket yet.
LEMMA LoadKeeps ==
  ASSUME IInv, NEW e \in Engines, NEW seen \in Results, LoadResults(e, seen)
  PROVE  IInv'
  <1> DEFINE r == [engine[e] EXCEPT !.pc = "next", !.active = seen,
                                    !.todo = {c \in Checks : seen[c] # "none"}]
  <1>1. TypeOK /\ Counted /\ engine[e] \in Run
    BY Parts
  <1>2. /\ r \in Run /\ r.pc = "next" /\ r.active = seen
        /\ r.todo = {c \in Checks : seen[c] # "none"}
    BY <1>1 DEF Run
  <1>3. GoesTo(e, r) /\ UNCHANGED tickets /\ e \in Busy
    BY DEF LoadResults, At, Busy
  <1> HIDE DEF r
  <1>4. Counted'
    <2>1. \A c \in Checks : /\ TicketsOf(c)' \subseteq TicketsOf(c)
                            /\ OpenOf(c)' \subseteq OpenOf(c)
      BY <1>1, <1>3, SameTable
    <2> QED BY <1>1, <1>2, <1>3, <2>1, QuietRun DEF Unfound
  <1>5. engine'[e] = r
    BY <1>1, <1>3, RunMoves
  <1>6. HoldingOf(e)' /\ Reporting(e)' /\ Closing(e)'
    BY <1>2, <1>5 DEF HoldingOf, Reporting, Closing, At, Working, Unfound
  <1> QED BY <1>2, <1>3, <1>4, <1>6, QueryKeeps

\* A run that finds an open ticket goes on to worsen it; one that finds none is
\* counted from then on, and as there is none, all that are counted are runs.
LEMMA FindOpenKeeps ==
  ASSUME IInv, NEW e \in Engines, NEW c \in Checks, FindOpenByCanonicalKey(e, c)
  PROVE  IInv'
  <1> DEFINE open == WithKey(c, Statuses \ {"RESOLVED"})
             r == [engine[e] EXCEPT !.todo = @ \ {c}, !.key = c,
                      !.pc  = IF open = {} THEN "resolved" ELSE "worsen",
                      !.ref = IF open = {} THEN 0 ELSE Max(open)]
  <1>1. /\ TypeOK /\ Joined /\ Counted /\ engine[e] \in Run
        /\ HoldingOf(e) /\ (alone => Reporting(e))
        /\ Len(tickets) \in Nat /\ DOMAIN tickets = 1..Len(tickets)
    BY Parts
  <1>2. open = OpenOf(c)
    BY <1>1, WithKeyIs
  <1>3. /\ open \subseteq TicketsOf(c)
        /\ open # {} => Max(open) \in open /\ Max(open) \in Nat
    <2>1. open \in SUBSET (1..Len(tickets)) /\ open \subseteq TicketsOf(c)
      BY <1>1 DEF WithKey, TicketsOf
    <2> HIDE DEF open, r
    <2>2. open # {} => Max(open) \in open
      BY <1>1, <2>1, MaxIsIn
    <2>3. \A i \in open : i \in Nat
      BY <1>1, <2>1
    <2> QED BY <2>1, <2>2, <2>3
  <1>4. /\ GoesTo(e, r) /\ UNCHANGED tickets /\ e \in Busy
        /\ engine[e].pc = "next" /\ c \in engine[e].todo
    BY DEF FindOpenByCanonicalKey, At, Busy
  <1> HIDE DEF open
  <1>5. /\ r \in Run /\ r.key = c /\ r.todo = engine[e].todo \ {c}
        /\ r.active = engine[e].active
        /\ IF open = {} THEN r.pc = "resolved"
                        ELSE r.pc = "worsen" /\ r.ref = Max(open)
    BY <1>1, <1>3 DEF Run
  <1> HIDE DEF r
  <1>6. engine'[e] = r /\ overlap' = overlap /\ overlap \in Nat
    BY <1>1, <1>4, RunMoves DEF TypeOK
  <1>7. \A d : /\ TicketsOf(d)' = TicketsOf(d) /\ OpenOf(d)' = OpenOf(d)
               /\ Served(d)' = Served(d)
    BY <1>1, <1>4, SameTable
  <1>8. Counted'
    <2>1. CASE open # {}
      BY <1>1, <1>4, <1>5, <1>7, <2>1, QuietRun DEF Unfound
    <2>2. ASSUME open = {}, NEW d \in Checks PROVE CountedOf(d)'
      <3>1. Creating(d)' \subseteq Creating(d) \ {e}
        BY <1>1, <1>4, <1>5, <2>2, RunCounts
      <3>2. CASE d # c
        <4>1. Seeking(d)' \subseteq Seeking(d) \ {e}
          BY <1>1, <1>4, <1>5, <3>2, RunCounts
        <4> QED BY <1>1, <1>6, <1>7, <3>1, <4>1, QuietOf DEF Counted
      <3>3. CASE d = c
        <4>1. /\ IsFiniteSet(TicketsOf(c)) /\ IsFiniteSet(Creating(c))
              /\ IsFiniteSet(Busy)
          BY <1>1, SetsAreFinite
        <4>2. Cardinality(TicketsOf(c)') + Cardinality(Creating(c)') <= overlap
          BY <1>1, <1>6, <1>7, <3>1, <3>3, <4>1, Fewer DEF Counted, CountedOf
        <4>3. OpenOf(c)' = {} /\ Seeking(c)' \subseteq Busy
          <5>1. Seeking(c)' \subseteq Busy' /\ Busy' \subseteq Busy
            BY <1>1, <1>4, RunCounts DEF Seeking, Busy, Unfound
          <5> QED BY <1>2, <1>7, <2>2, <5>1
        <4>4. /\ Cardinality(OpenOf(c)') = 0
              /\ Cardinality(Seeking(c)') <= Cardinality(Busy)
              /\ Cardinality(Seeking(c)') \in Nat /\ Cardinality(Busy) \in Nat
          BY <4>1, <4>3, FS_EmptySet, FS_Subset, FS_CardinalityType
        <4>5. Cardinality(OpenOf(c)') + Cardinality(Seeking(c)') <= overlap
          BY <1>1, <1>6, <4>4 DEF Joined
        <4> QED BY <1>6, <3>3, <4>2, <4>5 DEF CountedOf
      <3> QED BY <3>2, <3>3
    <2> QED BY <2>1, <2>2 DEF Counted
  <1>9. ASSUME alone PROVE Reporting(e)' /\ Closing(e)'
    <2>1. Reporting(e)
      BY <1>1, <1>9
    <2>2. open # {} => Served(c)
      BY <1>2, <1>3 DEF Served, OpenOf
    <2> QED BY <1>4, <1>5, <1>6, <1>7, <2>1, <2>2
            DEF Reporting, Closing, At, Working, Unfound
  <1>10. HoldingOf(e)'
    <2>1. \A d \in engine[e].todo : engine[e].active[d] # "none"
      BY <1>1, <1>4 DEF HoldingOf
    <2>2. r.pc = "worsen" => r.ref \in TicketsOf(c)
      BY <1>3, <1>5
    <2> QED BY <1>4, <1>5, <1>6, <1>7, <2>1, <2>2
            DEF HoldingOf, At, Working, Unfound
  <1> QED BY <1>4, <1>5, <1>8, <1>9, <1>10, QueryKeeps

\* A run that finds all tickets resolved, but none, has counted as one that
\* seeks a ticket; it counts as one that creates a ticket from then on.
LEMMA FindResolvedKeeps ==
  ASSUME IInv, NEW e \in Engines, FindResolvedByCanonicalKey(e)
  PROVE  IInv'
  <1>1. /\ TypeOK /\ Counted /\ HoldingOf(e) /\ (alone => Reporting(e))
        /\ engine[e] \in Run /\ Len(tickets) \in Nat
        /\ DOMAIN tickets = 1..Len(tickets)
    BY Parts
  <1>0. /\ engine[e].pc = "resolved" /\ e \in Busy /\ UNCHANGED tickets
        /\ engine[e].key \in Checks /\ engine[e].active[engine[e].key] # "none"
    BY <1>1 DEF FindResolvedByCanonicalKey, At, Busy, HoldingOf, Working, Unfound
  <1>2. PICK k \in Checks : k = engine[e].key
    BY <1>0
  <1>3. WithKey(k, {"RESOLVED"}) = TicketsOf(k) \ OpenOf(k)
    BY <1>1, WithKeyIs
  <1>4. \A d : /\ TicketsOf(d)' = TicketsOf(d) /\ OpenOf(d)' = OpenOf(d)
               /\ Served(d)' = Served(d)
    BY <1>0, <1>1, SameTable
  <1>5. ASSUME NEW r \in Run, GoesTo(e, r), Counted', r.pc \in {"number", "reopen"},
               r.key = k, r.active = engine[e].active, r.todo = engine[e].todo,
               r.pc = "reopen" => r.ref \in TicketsOf(k) \ OpenOf(k)
        PROVE  IInv'
    <2>1. engine'[e] = r /\ alone' = alone
      BY <1>1, <1>5, RunMoves
    <2>2. HoldingOf(e)'
      <3>1. r.pc = "reopen" => /\ r.ref \in TicketsOf(k)
                               /\ tickets[r.ref].status = "RESOLVED"
        BY <1>5 DEF TicketsOf, OpenOf
      <3> QED BY <1>0, <1>1, <1>2, <1>4, <1>5, <2>1, <3>1
              DEF HoldingOf, At, Working, Unfound
    <2>3. ASSUME alone PROVE Reporting(e)' /\ Closing(e)'
      BY <1>0, <1>1, <1>2, <1>4, <1>5, <2>1, <2>3
      DEF Reporting, Closing, At, Working, Unfound
    <2> QED BY <1>0, <1>5, <2>2, <2>3, QueryKeeps
  <1>6. ASSUME TicketsOf(k) \ OpenOf(k) = {},
               GoesTo(e, [engine[e] EXCEPT !.pc = "number"])
        PROVE  IInv'
    <2> DEFINE r == [engine[e] EXCEPT !.pc = "number"]
    <2>1. /\ r \in Run /\ r.pc = "number" /\ r.key = k
          /\ r.active = engine[e].active /\ r.todo = engine[e].todo
      BY <1>1, <1>2 DEF Run
    <2>4. GoesTo(e, r)
      BY <1>6
    <2> HIDE DEF r
    <2>2. overlap' = overlap /\ overlap \in Nat
      BY <1>1, <2>4 DEF GoesTo, TypeOK
    <2>5. TicketsOf(k) \subseteq OpenOf(k)
      BY <1>6
    <2>3. ASSUME NEW d \in Checks PROVE CountedOf(d)'
      <3>1. Seeking(d)' \subseteq Seeking(d)
        <4>1. r.pc \in Unfound /\ r.key = d => e \in Seeking(d)
          BY <1>0, <1>2, <2>1 DEF Seeking, Unfound
        <4> QED BY <1>1, <2>4, <4>1, RunCounts
      <3>2. CASE d # k
        <4>1. Creating(d)' \subseteq Creating(d)
          BY <1>1, <2>1, <2>4, <3>2, RunCounts
        <4> QED BY <1>1, <1>4, <2>2, <3>1, <4>1, QuietOf DEF Counted
      <3>3. CASE d = k
        <4>1. TicketsOf(k)' \subseteq OpenOf(k)
          BY <1>4, <2>5
        <4>2. Creating(k)' \subseteq Seeking(k)
          <5>1. Creating(k)' \subseteq Seeking(k)'
            BY DEF Creating, Seeking, Unfound
          <5> QED BY <3>1, <3>3, <5>1
        <4>3. /\ IsFiniteSet(OpenOf(k)) /\ IsFiniteSet(Seeking(k))
              /\ Cardinality(OpenOf(k)) + Cardinality(Seeking(k)) <= overlap
          BY <1>1, SetsAreFinite DEF Counted, CountedOf
        <4>4. Cardinality(TicketsOf(k)') + Cardinality(Creating(k)') <= overlap
          BY <2>2, <4>1, <4>2, <4>3, Fewer
        <4>5. Cardinality(OpenOf(k)') + Cardinality(Seeking(k)') <= overlap
          BY <1>4, <2>2, <3>1, <3>3, <4>3, Fewer
        <4> QED BY <2>2, <3>3, <4>4, <4>5 DEF CountedOf
      <3> QED BY <3>2, <3>3
    <2> QED BY <1>5, <2>1, <2>3, <2>4 DEF Counted
  <1>7. ASSUME NEW i \in TicketsOf(k) \ OpenOf(k),
               GoesTo(e, [engine[e] EXCEPT !.pc = "reopen", !.ref = i])
        PROVE  IInv'
    <2> DEFINE r == [engine[e] EXCEPT !.pc = "reopen", !.ref = i]
    <2>1. i \in Nat
      BY <1>1 DEF TicketsOf
    <2>2. /\ r \in Run /\ r.pc = "reopen" /\ r.key = k /\ r.ref = i
          /\ r.active = engine[e].active /\ r.todo = engine[e].todo
      BY <1>1, <1>2, <2>1 DEF Run
    <2>3. GoesTo(e, r)
      BY <1>7
    <2> HIDE DEF r
    <2>4. Counted'
      BY <1>0, <1>1, <1>2, <1>4, <2>2, <2>3, QuietRun DEF Unfound
    <2> QED BY <1>5, <2>2, <2>3, <2>4
  <1> QED BY <1>2, <1>3, <1>6, <1>7 DEF FindResolvedByCanonicalKey

\* The number that a run reads is the next one.
LEMMA ReadNumberKeeps ==
  ASSUME IInv, NEW e \in Engines, ReadNumber(e)
  PROVE  IInv'
  <1> DEFINE r == [engine[e] EXCEPT !.pc = "insert", !.ref = NextTicketNumber]
  <1>1. /\ TypeOK /\ Counted /\ HoldingOf(e) /\ (alone => Reporting(e))
        /\ engine[e] \in Run /\ Len(tickets) \in Nat /\ NumbersInOrder
    BY Parts
  <1>2. NextTicketNumber = Len(tickets) + 1 /\ NextTicketNumber \in Nat
    BY <1>1, NextIsNext
  <1>3. /\ r \in Run /\ r.pc = "insert" /\ r.ref = Len(tickets) + 1
        /\ r.key = engine[e].key
        /\ r.active = engine[e].active /\ r.todo = engine[e].todo
    BY <1>1, <1>2 DEF Run
  <1>4. /\ GoesTo(e, r) /\ UNCHANGED tickets /\ e \in Busy
        /\ engine[e].pc = "number"
    BY DEF ReadNumber, At, Busy
  <1> HIDE DEF r
  <1>5. /\ engine'[e] = r
        /\ \A d : /\ TicketsOf(d)' = TicketsOf(d) /\ OpenOf(d)' = OpenOf(d)
                  /\ Served(d)' = Served(d)
    BY <1>1, <1>4, RunMoves, SameTable
  <1>6. Counted'
    BY <1>1, <1>3, <1>4, <1>5, QuietRun DEF Unfound
  <1>7. HoldingOf(e)' /\ (alone => Reporting(e)' /\ Closing(e)')
    BY <1>1, <1>3, <1>4, <1>5
    DEF HoldingOf, Reporting, Closing, At, Working, Unfound
  <1> QED BY <1>1, <1>3, <1>4, <1>6, <1>7, QueryKeeps

\* A run that is through with the findings holds nothing of a ticket any more,
\* and has selected the findings of all open tickets it did not see.
LEMMA SelectKeeps ==
  ASSUME IInv, NEW e \in Engines, SelectOpenTickets(e)
  PROVE  IInv'
  <1> DEFINE open == {i \in DOMAIN tickets :
                        /\ tickets[i].key # "null"
                        /\ tickets[i].status \in Resolvable
                        /\ engine[e].active[tickets[i].key] = "none"}
             r == [engine[e] EXCEPT !.pc = "close", !.open = open]
  <1>1. /\ TypeOK /\ Counted /\ (alone => Reporting(e)) /\ engine[e] \in Run
        /\ Len(tickets) \in Nat /\ DOMAIN tickets = 1..Len(tickets)
    BY Parts
  <1>2. open \in SUBSET Nat
    BY <1>1
  <1>3. /\ r \in Run /\ r.pc = "close" /\ r.active = engine[e].active
        /\ r.todo = engine[e].todo /\ r.open = open
    <2> HIDE DEF open
    <2> QED BY <1>1, <1>2 DEF Run
  <1>4. /\ GoesTo(e, r) /\ UNCHANGED tickets /\ e \in Busy
        /\ engine[e].pc = "next" /\ engine[e].todo = {}
    BY DEF SelectOpenTickets, At, Busy
  <1> HIDE DEF r
  <1>5. /\ engine'[e] = r
        /\ \A d : /\ TicketsOf(d)' = TicketsOf(d) /\ OpenOf(d)' = OpenOf(d)
                  /\ Served(d)' = Served(d)
    BY <1>1, <1>4, RunMoves, SameTable
  <1>6. Counted'
    BY <1>1, <1>3, <1>4, <1>5, QuietRun DEF Unfound
  <1>7. HoldingOf(e)'
    <2>1. \A i \in open : /\ i \in DOMAIN tickets /\ tickets[i].key \in Checks
                          /\ engine[e].active[tickets[i].key] = "none"
      BY <1>1, TicketsAreFunction DEF Ticket
    <2> HIDE DEF open
    <2> QED BY <1>3, <1>4, <1>5, <2>1 DEF HoldingOf, At, Working, Unfound
  <1>8. Closing(e)'
    BY <1>3, <1>4, <1>5 DEF Closing
  <1>9. alone => Reporting(e)'
    BY <1>1, <1>3, <1>4, <1>5 DEF Reporting, At, Working, Unfound
  <1> QED BY <1>3, <1>4, <1>6, <1>7, <1>8, <1>9, QueryKeeps

\* Back to the loop, with the finding served: what is left to show.
LEMMA GoOnKeeps ==
  ASSUME IInv, NEW e \in Engines, engine[e].pc \in Working, GoOn(e), Grows,
         tickets' \in Seq(Ticket), NumbersInOrder', Counted',
         alone => \A c \in Checks : Served(c) \/ c = engine[e].key => Served(c)'
  PROVE  IInv'
  <1> DEFINE r == [engine[e] EXCEPT !.pc = "next", !.key = "null", !.ref = 0]
  <1>1. /\ TypeOK /\ HoldingOf(e) /\ (alone => Reporting(e)) /\ engine[e] \in Run
    BY Parts
  <1>2. /\ r \in Run /\ r.pc = "next" /\ r.active = engine[e].active
        /\ r.todo = engine[e].todo
    BY <1>1 DEF Run
  <1>3. GoesTo(e, r) /\ e \in Busy
    BY DEF GoOn, Busy, Working, Unfound
  <1> HIDE DEF r
  <1>4. engine'[e] = r
    BY <1>1, <1>3, RunMoves
  <1>5. HoldingOf(e)'
    BY <1>1, <1>2, <1>4 DEF HoldingOf, At, Working, Unfound
  <1>6. ASSUME alone PROVE Reporting(e)' /\ Closing(e)'
    <2>1. ASSUME NEW c \in Checks
          PROVE  \/ engine[e].active[c] = "none"
                 \/ c \in engine[e].todo
                 \/ Served(c)'
      BY <1>1, <1>6 DEF Reporting
    <2> QED BY <1>2, <1>4, <2>1 DEF Reporting, Closing, At, Working, Unfound
  <1> QED BY <1>2, <1>3, <1>5, <1>6, StepKeeps

\* Where GoOn leads: not where a run is counted.
LEMMA GoOnCounts ==
  ASSUME TypeOK, NEW e \in Engines, GoOn(e), NEW c
  PROVE  /\ Seeking(c)' \subseteq Seeking(c) \ {e}
         /\ Creating(c)' \subseteq Creating(c) \ {e}
         /\ overlap' = overlap
  <1> DEFINE r == [engine[e] EXCEPT !.pc = "next", !.key = "null", !.ref = 0]
  <1>1. engine[e] \in Run
    BY DEF TypeOK
  <1>2. r.pc = "next"
    BY <1>1 DEF Run
  <1>3. GoesTo(e, r)
    BY DEF GoOn
  <1> HIDE DEF r
  <1> QED BY <1>2, <1>3, RunCounts, RunMoves DEF Unfound

\* A ticket that is worsened keeps its status, and serves the finding.
LEMMA WorsenKeeps ==
  ASSUME IInv, NEW e \in Engines, WorsenSeverity(e)
  PROVE  IInv'
  <1>1. /\ TypeOK /\ Counted /\ HoldingOf(e) /\ NumbersInOrder
        /\ alone => Reporting(e)
    BY Parts
  <1>2. engine[e].pc = "worsen" /\ GoOn(e)
    BY DEF WorsenSeverity, At
  <1>3. PICK i \in DOMAIN tickets :
           /\ Rewritten(i) /\ tickets'[i].status = tickets[i].status
           /\ tickets'[i].resolved_by = tickets[i].resolved_by
    BY <1>1, WorsenOne
  <1>4. /\ Grows /\ NumbersInOrder'
        /\ \A c : /\ TicketsOf(c)' = TicketsOf(c)
                  /\ OpenOf(c)' \subseteq OpenOf(c)
                  /\ Served(c) => Served(c)'
    BY <1>1, <1>3, RewrittenGrows
  <1>5. Counted'
    <2> SUFFICES ASSUME NEW c \in Checks PROVE CountedOf(c)'
        BY DEF Counted
    <2>1. Seeking(c)' \subseteq Seeking(c) /\ Creating(c)' \subseteq Creating(c)
          /\ overlap' = overlap /\ overlap \in Nat
      BY <1>1, <1>2, GoOnCounts DEF TypeOK
    <2> QED BY <1>1, <1>4, <2>1, QuietOf DEF Counted
  <1>6. alone => Served(engine[e].key)
    BY <1>1, <1>2 DEF Reporting, At
  <1>7. alone => \A c \in Checks : Served(c) \/ c = engine[e].key => Served(c)'
    BY <1>4, <1>6
  <1>8. tickets' \in Seq(Ticket) /\ engine[e].pc \in Working
    BY <1>2, <1>3 DEF Rewritten, Working
  <1> QED BY <1>2, <1>4, <1>5, <1>7, <1>8, GoOnKeeps

\* The run that reopens a ticket was counted as one that seeks one.
LEMMA ReopenKeeps ==
  ASSUME IInv, NEW e \in Engines, ReopenTicket(e)
  PROVE  IInv'
  <1>1. TypeOK /\ Counted /\ HoldingOf(e) /\ NumbersInOrder
    BY Parts
  <1>2. engine[e].pc = "reopen" /\ GoOn(e)
    BY DEF ReopenTicket, At
  <1>3. PICK i \in DOMAIN tickets :
           /\ i = engine[e].ref /\ Rewritten(i) /\ tickets'[i].status = "REOPENED"
    BY <1>1, ReopenOne
  <1>4. i \in TicketsOf(engine[e].key)
    BY <1>1, <1>2, <1>3 DEF HoldingOf
  <1>5. /\ Grows /\ NumbersInOrder'
        /\ \A c : /\ TicketsOf(c)' = TicketsOf(c)
                  /\ OpenOf(c)' \subseteq OpenOf(c) \cup {i}
                  /\ Served(c) => Served(c)'
    BY <1>1, <1>3, RewrittenGrows
  <1>6. Counted'
    <2> SUFFICES ASSUME NEW c \in Checks PROVE CountedOf(c)'
        BY DEF Counted
    <2>1. /\ Seeking(c)' \subseteq Seeking(c) \ {e}
          /\ Creating(c)' \subseteq Creating(c) \ {e}
          /\ overlap' = overlap /\ overlap \in Nat
      BY <1>1, <1>2, GoOnCounts DEF TypeOK
    <2>2. CASE i \notin TicketsOf(c)
      <3>1. OpenOf(c)' \subseteq OpenOf(c)
        <4>1. OpenOf(c)' \subseteq TicketsOf(c)'
          BY DEF OpenOf
        <4> QED BY <1>5, <2>2, <4>1
      <3> QED BY <1>1, <1>5, <2>1, <3>1, QuietOf DEF Counted
    <2>3. CASE i \in TicketsOf(c)
      <3>1. e \in Seeking(c)
        BY <1>2, <1>4, <2>3 DEF Seeking, TicketsOf, Unfound
      <3>2. /\ IsFiniteSet(OpenOf(c)) /\ IsFiniteSet(Seeking(c))
            /\ IsFiniteSet(TicketsOf(c)) /\ IsFiniteSet(Creating(c))
            /\ CountedOf(c)
        BY <1>1, SetsAreFinite DEF Counted
      <3>3. Cardinality(OpenOf(c)') + Cardinality(Seeking(c)') <= overlap
        BY <1>5, <2>1, <3>1, <3>2, Handed DEF CountedOf
      <3>4. Cardinality(TicketsOf(c)') + Cardinality(Creating(c)') <= overlap
        BY <1>5, <2>1, <3>2, Fewer DEF CountedOf
      <3> QED BY <2>1, <3>3, <3>4 DEF CountedOf
    <2> QED BY <2>2, <2>3
  <1>7. ASSUME NEW c \in Checks, Served(c) \/ c = engine[e].key PROVE Served(c)'
    <2>1. ASSUME c = engine[e].key PROVE Served(c)'
      <3>1. i \in TicketsOf(c)'
        BY <1>4, <1>5, <2>1
      <3> QED BY <1>3, <3>1 DEF Served
    <2> QED BY <1>5, <1>7, <2>1
  <1>8. tickets' \in Seq(Ticket) /\ engine[e].pc \in Working
    BY <1>2, <1>3 DEF Rewritten, Working, Unfound
  <1> QED BY <1>2, <1>5, <1>6, <1>7, <1>8, GoOnKeeps

\* A new ticket, and what it is counted as.
LEMMA NewCounts ==
  ASSUME TypeOK, NumbersInOrder, NEW n \in Nat, NEW key \in Checks \cup {"null"},
         NEW severity \in Severities \cup {"info"}, n = Len(tickets) + 1,
         tickets' = Append(tickets, NewTicket(n, key, severity))
  PROVE  /\ Grows /\ NumbersInOrder' /\ tickets' \in Seq(Ticket)
         /\ \A c : /\ TicketsOf(c)' \subseteq TicketsOf(c) \cup {n}
                   /\ OpenOf(c)' \subseteq OpenOf(c) \cup {n}
                   /\ c # key => /\ TicketsOf(c)' \subseteq TicketsOf(c)
                                 /\ OpenOf(c)' \subseteq OpenOf(c)
                   /\ Served(c) \/ c = key => Served(c)'
         /\ \A i \in DOMAIN tickets : tickets'[i] = tickets[i]
         /\ \A i \in DOMAIN tickets' : i \in DOMAIN tickets \/ tickets'[i].key = key
  <1> DEFINE t == NewTicket(n, key, severity)
  <1>1. t.number = n /\ t.key = key /\ t.status = "OPEN" /\ t \in Ticket
    BY NewTicketType DEF NewTicket
  <1>2. tickets' = Append(tickets, t)
    OBVIOUS
  <1> HIDE DEF t
  <1>3. /\ DOMAIN tickets' = DOMAIN tickets \cup {n} /\ Len(tickets') = n
        /\ tickets'[n] = t /\ n \notin DOMAIN tickets
        /\ \A i \in DOMAIN tickets : tickets'[i] = tickets[i]
        /\ tickets' \in Seq(Ticket)
    BY <1>1, <1>2, Appended
  <1>4. Grows /\ NumbersInOrder'
    BY <1>1, <1>3, TicketsAreFunction DEF Grows, NumbersInOrder
  <1>5. ASSUME NEW c
        PROVE  /\ TicketsOf(c)' \subseteq TicketsOf(c) \cup {n}
               /\ OpenOf(c)' \subseteq OpenOf(c) \cup {n}
               /\ c # key => /\ TicketsOf(c)' \subseteq TicketsOf(c)
                             /\ OpenOf(c)' \subseteq OpenOf(c)
    BY <1>1, <1>3 DEF TicketsOf, OpenOf
  <1>6. ASSUME NEW c, Served(c) \/ c = key PROVE Served(c)'
    <2>1. CASE Served(c)
      BY <1>3, <2>1 DEF Served, TicketsOf
    <2>2. CASE c = key
      BY <1>1, <1>3, <2>2 DEF Served, TicketsOf
    <2> QED BY <1>6, <2>1, <2>2
  <1> QED BY <1>1, <1>3, <1>4, <1>5, <1>6

\* The run that creates a ticket was counted as one that would.
LEMMA CreateKeeps ==
  ASSUME IInv, NEW e \in Engines, CreateTicket(e)
  PROVE  IInv'
  <1>1. /\ TypeOK /\ Counted /\ HoldingOf(e) /\ NumbersInOrder
        /\ At(e, "insert") => engine[e].ref \in 1..Len(tickets) + 1
        /\ Len(tickets) \in Nat
    BY Parts
  <1>2. engine[e].pc = "insert" /\ GoOn(e) /\ NumberIsFree(engine[e].ref)
        /\ engine[e].pc \in Working
    BY DEF CreateTicket, At, Working, Unfound
  <1>3. engine[e].key \in Checks /\ Found(e) \in Severities
    BY <1>1, <1>2, FoundType
  <1>4. PICK n \in Nat : n = engine[e].ref /\ n = Len(tickets) + 1
    BY <1>1, <1>2, FreeIsNext DEF At
  <1>5. PICK k \in Checks : k = engine[e].key
    BY <1>3
  <1>6. tickets' = Append(tickets, NewTicket(n, k, Found(e)))
    BY <1>4, <1>5 DEF CreateTicket
  <1>7. /\ Grows /\ NumbersInOrder' /\ tickets' \in Seq(Ticket)
        /\ \A c : /\ TicketsOf(c)' \subseteq TicketsOf(c) \cup {n}
                  /\ OpenOf(c)' \subseteq OpenOf(c) \cup {n}
                  /\ c # k => /\ TicketsOf(c)' \subseteq TicketsOf(c)
                              /\ OpenOf(c)' \subseteq OpenOf(c)
                  /\ Served(c) \/ c = k => Served(c)'
    BY <1>1, <1>3, <1>4, <1>6, NewCounts
  <1>8. Counted'
    <2> SUFFICES ASSUME NEW c \in Checks PROVE CountedOf(c)'
        BY DEF Counted
    <2>1. /\ Seeking(c)' \subseteq Seeking(c) \ {e}
          /\ Creating(c)' \subseteq Creating(c) \ {e}
          /\ overlap' = overlap /\ overlap \in Nat
      BY <1>1, <1>2, GoOnCounts DEF TypeOK
    <2>2. CASE c # k
      BY <1>1, <1>7, <2>1, <2>2, QuietOf DEF Counted
    <2>3. CASE c = k
      <3>1. e \in Seeking(c) /\ e \in Creating(c)
        BY <1>2, <1>5, <2>3 DEF Seeking, Creating, Unfound
      <3>2. /\ IsFiniteSet(OpenOf(c)) /\ IsFiniteSet(Seeking(c))
            /\ IsFiniteSet(TicketsOf(c)) /\ IsFiniteSet(Creating(c))
            /\ CountedOf(c)
        BY <1>1, SetsAreFinite DEF Counted
      <3>3. /\ TicketsOf(c)' \subseteq TicketsOf(c) \cup {n}
            /\ OpenOf(c)' \subseteq OpenOf(c) \cup {n}
        BY <1>7
      <3>4. Cardinality(OpenOf(c)') + Cardinality(Seeking(c)') <= overlap
        BY <2>1, <3>1, <3>2, <3>3, Handed DEF CountedOf
      <3>5. Cardinality(TicketsOf(c)') + Cardinality(Creating(c)') <= overlap
        BY <2>1, <3>1, <3>2, <3>3, Handed DEF CountedOf
      <3> QED BY <2>1, <3>4, <3>5 DEF CountedOf
    <2> QED BY <2>2, <2>3
  <1>9. \A c \in Checks : Served(c) \/ c = engine[e].key => Served(c)'
    BY <1>5, <1>7
  <1> QED BY <1>2, <1>7, <1>8, <1>9, GoOnKeeps

\* The tickets that are resolved are of a finding that the run did not see.
LEMMA AutoResolveKeeps ==
  ASSUME IInv, NEW e \in Engines, NEW i, AutoResolveByCanonicalKey(e, i)
  PROVE  IInv'
  <1> DEFINE r == [engine[e] EXCEPT !.open = @ \ {i}]
  <1>1. /\ TypeOK /\ Counted /\ NumbersInOrder /\ engine[e] \in Run
        /\ HoldingOf(e) /\ (alone => Reporting(e) /\ Closing(e))
    BY Parts
  <1>2. /\ r \in Run /\ r.pc = engine[e].pc /\ r.active = engine[e].active
        /\ r.todo = engine[e].todo /\ r.open = engine[e].open \ {i}
    BY <1>1 DEF Run
  <1>3. /\ GoesTo(e, r) /\ e \in Busy /\ engine[e].pc = "close"
        /\ i \in engine[e].open
    BY DEF AutoResolveByCanonicalKey, At, Busy
  <1> HIDE DEF r
  <1>4. engine'[e] = r
    BY <1>1, <1>3, RunMoves
  <1>5. PICK c \in Checks : c = tickets[i].key /\ engine[e].active[c] = "none"
    BY <1>1, <1>3 DEF HoldingOf, At
  <1>6. /\ DOMAIN tickets' = DOMAIN tickets /\ Len(tickets') = Len(tickets)
        /\ tickets' \in Seq(Ticket)
        /\ \A j \in DOMAIN tickets :
              /\ tickets'[j].key = tickets[j].key
              /\ tickets'[j].number = tickets[j].number
              /\ \/ tickets'[j] = tickets[j]
                 \/ tickets[j].key = c /\ tickets'[j].status = "RESOLVED"
              /\ tickets[j].key = c => tickets'[j].status \notin Resolvable
    <2>1. \A j \in DOMAIN tickets : j \in WithKey(c, Resolvable) <=>
             tickets[j].key = c /\ tickets[j].status \in Resolvable
      BY DEF WithKey
    <2>2. "RESOLVED" \notin Resolvable
      BY DEF Resolvable
    <2>3. /\ DOMAIN tickets' = DOMAIN tickets /\ Len(tickets') = Len(tickets)
          /\ tickets' \in Seq(Ticket)
          /\ \A j \in DOMAIN tickets :
                /\ j \notin WithKey(c, Resolvable) => tickets'[j] = tickets[j]
                /\ j \in WithKey(c, Resolvable) =>
                      /\ tickets'[j].status = "RESOLVED"
                      /\ tickets'[j].key = tickets[j].key
                      /\ tickets'[j].number = tickets[j].number
      BY <1>1, <1>5, AutoResolveAll
    <2> QED BY <2>1, <2>2, <2>3
  <1>7. Grows /\ NumbersInOrder'
    BY <1>1, <1>6, TicketsAreFunction DEF Grows, NumbersInOrder
  <1>8. ASSUME NEW d PROVE TicketsOf(d)' = TicketsOf(d) /\ OpenOf(d)' \subseteq OpenOf(d)
    BY <1>6 DEF TicketsOf, OpenOf
  <1>9. Counted'
    BY <1>1, <1>2, <1>3, <1>8, QuietRun DEF Unfound
  <1>10. HoldingOf(e)'
    <2>1. \A j \in r.open : /\ j \in DOMAIN tickets' /\ tickets'[j].key \in Checks
                            /\ r.active[tickets'[j].key] = "none"
      BY <1>1, <1>2, <1>3, <1>6 DEF HoldingOf, At
    <2> QED BY <1>2, <1>3, <1>4, <2>1 DEF HoldingOf, At, Working, Unfound
  <1>11. ASSUME alone PROVE Reporting(e)' /\ Closing(e)'
    <2>1. Reporting(e) /\ Closing(e)
      BY <1>1, <1>11
    <2>2. ASSUME NEW d \in Checks, Served(d), d # c PROVE Served(d)'
      BY <1>6, <2>2 DEF Served, TicketsOf
    <2>3. Reporting(e)'
      BY <1>2, <1>3, <1>4, <1>5, <2>1, <2>2 DEF Reporting, At, Working, Unfound
    <2>4. Closing(e)'
      <3> SUFFICES ASSUME NEW j \in DOMAIN tickets', tickets'[j].key # "null",
                          tickets'[j].status \in Resolvable,
                          r.active[tickets'[j].key] = "none"
                   PROVE  j \in r.open
          BY <1>4 DEF Closing
      <3>1. tickets[j].key # c /\ tickets'[j] = tickets[j] /\ j \in DOMAIN tickets
        BY <1>6
      <3>2. j \in engine[e].open
        BY <1>2, <1>3, <2>1, <3>1 DEF Closing, At
      <3> QED BY <1>2, <1>5, <3>1, <3>2
    <2> QED BY <2>3, <2>4
  <1> QED BY <1>2, <1>3, <1>6, <1>7, <1>9, <1>10, <1>11, StepKeeps

\* A run that joins others is counted, and none of them is alone any more.
LEMMA CompletesKeeps ==
  ASSUME IInv, NEW e \in Engines, HealthCheckCompletes(e)
  PROVE  IInv'
  <1> DEFINE r == [Idle EXCEPT !.pc = "load"]
  <1>1. /\ TypeOK /\ Joined /\ Counted /\ NumbersInOrder
        /\ Len(tickets) \in Nat /\ Holding /\ Numbering
    BY Parts DEF IInv, Later
  <1>2. r \in Run /\ r.pc = "load"
    BY DEF Idle, Run, Results
  <1>3. /\ engine' = [engine EXCEPT ![e] = r]
        /\ UNCHANGED <<tickets, posting>> /\ alone' = (Busy = {})
        /\ overlap' = IF overlap > Cardinality(Busy) THEN overlap
                                                     ELSE Cardinality(Busy) + 1
        /\ e \notin Busy
    BY DEF HealthCheckCompletes, At, Busy
  <1> HIDE DEF r
  <1>4. engine'[e] = r /\ \A f \in Engines : f # e => engine'[f] = engine[f]
    BY <1>1, <1>3 DEF TypeOK
  <1>5. /\ \A d : /\ TicketsOf(d)' = TicketsOf(d) /\ OpenOf(d)' = OpenOf(d)
                  /\ Served(d)' = Served(d)
        /\ NumbersInOrder'
    BY <1>1, <1>3, SameTable
  <1>6. Busy' = Busy \cup {e}
    BY <1>2, <1>4 DEF Busy
  <1>7. /\ Cardinality(Busy) \in Nat /\ Cardinality(Busy') = Cardinality(Busy) + 1
        /\ Busy # {} => Cardinality(Busy) # 0
        /\ overlap \in Nat
    <2>1. IsFiniteSet(Busy) /\ overlap \in Nat
      BY <1>1, SetsAreFinite DEF TypeOK
    <2>2. Cardinality(Busy) \in Nat /\ Cardinality(Busy') = Cardinality(Busy) + 1
      BY <1>3, <1>6, <2>1, FS_CardinalityType, FS_AddElement
    <2>3. Busy # {} => Cardinality(Busy) # 0
      BY <2>1, FS_EmptySet
    <2> QED BY <2>1, <2>2, <2>3
  <1>8. /\ overlap' \in Nat /\ overlap <= overlap' /\ Cardinality(Busy') <= overlap'
        /\ Busy # {} => overlap' >= 2
    BY <1>3, <1>7
  <1>9. TypeOK'
    <2>1. alone' \in BOOLEAN /\ engine' \in [Engines -> Run]
      BY <1>1, <1>2, <1>3 DEF TypeOK
    <2> QED BY <1>1, <1>3, <1>8, <2>1 DEF TypeOK
  <1>10. Joined'
    BY <1>3, <1>6, <1>8 DEF Joined
  <1>11. Counted'
    <2> SUFFICES ASSUME NEW c \in Checks PROVE CountedOf(c)'
        BY DEF Counted
    <2>1. Creating(c)' \subseteq Creating(c) /\ Seeking(c)' \subseteq Seeking(c)
      BY <1>2, <1>4 DEF Creating, Seeking, Unfound
    <2> QED BY <1>1, <1>5, <1>8, <2>1, QuietOf DEF Counted
  <1>12. Holding'
    <2> SUFFICES ASSUME NEW f \in Engines PROVE HoldingOf(f)'
        BY DEF Holding
    <2>1. CASE f = e
      BY <1>2, <1>4, <2>1 DEF HoldingOf, At, Working, Unfound
    <2>2. CASE f # e
      <3>1. engine'[f] = engine[f] /\ HoldingOf(f)
        BY <1>1, <1>4, <2>2 DEF Holding
      <3>2. At(f, "reopen") => ~alone'
        BY <1>3 DEF At, Busy
      <3> QED BY <1>3, <1>5, <3>1, <3>2 DEF HoldingOf, At
    <2> QED BY <2>1, <2>2
  <1>13. Numbering'
    <2>1. \A f \in Engines : At(f, "insert")' => At(f, "insert") /\ engine'[f] = engine[f]
      BY <1>2, <1>4 DEF At
    <2> QED BY <1>1, <1>3, <1>5, <2>1 DEF Numbering
  <1>14. Undisturbed'
    <2> SUFFICES ASSUME Busy = {}, NEW f \in Engines
                 PROVE  Reporting(f)' /\ Closing(f)'
        BY <1>3 DEF Undisturbed
    <2>1. engine'[f].pc \in {"idle", "load"}
      BY <1>2, <1>4 DEF Busy
    <2> QED BY <2>1 DEF Reporting, Closing, At, Working, Unfound
  <1> QED BY <1>9, <1>10, <1>11, <1>12, <1>13, <1>14 DEF IInv, Later

\* Every step of a run keeps the invariant.
LEMMA EngineKeeps ==
  ASSUME IInv, NEW e \in Engines, EngineStep(e)
  PROVE  IInv'
  <1>1. CASE CreateTicketFails(e) \/ EngineEnds(e) \/ EngineFails(e)
    <2>1. e \in Busy /\ GoesTo(e, Idle) /\ UNCHANGED tickets
      BY <1>1 DEF CreateTicketFails, EngineEnds, EngineFails, At, Busy
    <2> QED BY <2>1, EndKeeps
  <1> QED BY <1>1, CompletesKeeps, LoadKeeps, FindOpenKeeps, FindResolvedKeeps,
             WorsenKeeps, ReopenKeeps, ReadNumberKeeps, CreateKeeps, SelectKeeps,
             AutoResolveKeeps
          DEF EngineStep
-----------------------------------------------------------------------------
(* Steps of users, and restarts *)

\* What the runs hold stays true while users act: they leave resolved tickets
\* alone, and create none that has a finding.
LEMMA UsersKeep ==
  ASSUME IInv, UNCHANGED <<engine, overlap, alone>>, Grows,
         tickets' \in Seq(Ticket), NumbersInOrder',
         posting' \in 0..Len(tickets') + 1,
         \A c \in Checks : /\ TicketsOf(c)' \subseteq TicketsOf(c)
                           /\ OpenOf(c)' \subseteq OpenOf(c)
                           /\ Served(c) => Served(c)',
         \A i \in DOMAIN tickets : tickets[i].status = "RESOLVED" =>
                                      tickets'[i].status = "RESOLVED",
         \A i \in DOMAIN tickets' :
            tickets'[i].key # "null" /\ tickets'[i].status \in Resolvable =>
               i \in DOMAIN tickets /\ tickets[i].status \in Resolvable
  PROVE  IInv'
  <1>1. /\ TypeOK /\ Joined /\ Counted /\ Holding /\ Numbering /\ Undisturbed
        /\ Len(tickets) \in Nat /\ Len(tickets') \in Nat
        /\ Len(tickets) <= Len(tickets')
    BY TicketsAreFunction DEF IInv, Later, Grows
  <1>2. TypeOK'
    <2>1. posting' \in Nat
      BY <1>1
    <2> QED BY <1>1, <2>1 DEF TypeOK
  <1>3. Joined'
    BY <1>1 DEF Joined, Busy
  <1>4. Counted'
    <2> SUFFICES ASSUME NEW c \in Checks PROVE CountedOf(c)'
        BY DEF Counted
    <2>1. Creating(c)' = Creating(c) /\ Seeking(c)' = Seeking(c)
      BY DEF Creating, Seeking
    <2>2. overlap' = overlap /\ overlap \in Nat
      BY <1>1 DEF TypeOK
    <2> QED BY <1>1, <2>1, <2>2, QuietOf DEF Counted
  <1>5. Holding'
    <2> SUFFICES ASSUME NEW f \in Engines PROVE HoldingOf(f)'
        BY DEF Holding
    <2>1. HoldingOf(f)
      BY <1>1 DEF Holding
    <2>2. \A c : TicketsOf(c) \subseteq TicketsOf(c)'
      BY DEF Grows, TicketsOf
    <2>3. At(f, "reopen") => engine[f].ref \in DOMAIN tickets
      BY <2>1 DEF HoldingOf, At, TicketsOf
    <2> QED BY <2>1, <2>2, <2>3 DEF HoldingOf, At, Grows
  <1>6. Numbering'
    <2>1. \A f \in Engines : At(f, "insert")' => engine'[f].ref \in 1..Len(tickets') + 1
      BY <1>1 DEF Numbering, At
    <2> QED BY <2>1 DEF Numbering
  <1>7. Undisturbed'
    <2> SUFFICES ASSUME alone, NEW f \in Engines
                 PROVE  Reporting(f)' /\ Closing(f)'
        BY DEF Undisturbed
    <2>1. Reporting(f) /\ Closing(f)
      BY <1>1 DEF Undisturbed
    <2>2. At(f, "worsen") => engine[f].key \in Checks
      BY <1>1 DEF Holding, HoldingOf, At, Working
    <2>3. Reporting(f)'
      <3>1. At(f, "worsen")' => Served(engine[f].key)'
        BY <2>1, <2>2 DEF Reporting, At
      <3> QED BY <2>1, <3>1 DEF Reporting, At
    <2>4. Closing(f)'
      BY <2>1 DEF Closing, At, Grows
    <2> QED BY <2>3, <2>4
  <1> QED BY <1>2, <1>3, <1>4, <1>5, <1>6, <1>7 DEF IInv, Later

\* Every step of a user keeps the invariant.
LEMMA UserStepKeeps ==
  ASSUME IInv, UserStep
  PROVE  IInv'
  <1>1. /\ TypeOK /\ NumbersInOrder /\ Len(tickets) \in Nat
        /\ posting \in 0..Len(tickets) + 1
    BY TicketsAreFunction DEF IInv, Later, Numbering
  <1>2. ASSUME NEW i \in DOMAIN tickets, \/ ConfirmTicket(i) \/ AcknowledgeTicket(i)
                                         \/ ExecuteTicket(i) \/ ResolveTicket(i)
        PROVE  IInv'
    <2>1. /\ Rewritten(i) /\ tickets[i].status # "RESOLVED"
          /\ tickets'[i].status \in Resolvable => tickets[i].status \in Resolvable
          /\ tickets'[i].status = "RESOLVED" => tickets'[i].resolved_by = "user"
          /\ UNCHANGED <<engine, posting, overlap, alone>>
      BY <1>1, <1>2, UserMoves
    <2>2. /\ Grows /\ NumbersInOrder'
          /\ \A c : /\ TicketsOf(c)' \subseteq TicketsOf(c)
                    /\ OpenOf(c)' \subseteq OpenOf(c)
                    /\ Served(c) => Served(c)'
      BY <1>1, <2>1, RewrittenGrows
    <2>3. /\ tickets' \in Seq(Ticket) /\ posting' \in 0..Len(tickets') + 1
          /\ DOMAIN tickets' = DOMAIN tickets
          /\ \A j \in DOMAIN tickets : j # i => tickets'[j] = tickets[j]
      BY <1>1, <2>1 DEF Rewritten
    <2>4. /\ \A j \in DOMAIN tickets : tickets[j].status = "RESOLVED" =>
                                          tickets'[j].status = "RESOLVED"
          /\ \A j \in DOMAIN tickets' :
                tickets'[j].key # "null" /\ tickets'[j].status \in Resolvable =>
                   j \in DOMAIN tickets /\ tickets[j].status \in Resolvable
      BY <2>1, <2>3
    <2> QED BY <2>1, <2>2, <2>3, <2>4, UsersKeep
  <1>3. ASSUME UNCHANGED <<tickets, engine, overlap, alone>>,
               posting' \in 0..Len(tickets') + 1
        PROVE  IInv'
    <2>1. /\ Grows /\ NumbersInOrder' /\ tickets' \in Seq(Ticket)
          /\ \A c : /\ TicketsOf(c)' = TicketsOf(c) /\ OpenOf(c)' = OpenOf(c)
                    /\ Served(c)' = Served(c)
      BY <1>1, <1>3, SameTable DEF TypeOK
    <2> QED BY <1>3, <2>1, UsersKeep
  <1>4. CASE PostReadsNumber
    <2>1. posting' = Len(tickets) + 1 /\ UNCHANGED <<tickets, engine, overlap, alone>>
      BY <1>1, <1>4, NextIsNext DEF PostReadsNumber
    <2> QED BY <1>1, <1>3, <2>1
  <1>5. CASE PostTicket
    <2>1. posting' = 0 /\ UNCHANGED <<engine, overlap, alone>> /\ posting # 0
      BY <1>5 DEF PostTicket
    <2>2. CASE ~NumberIsFree(posting)
      <3>1. tickets' = tickets
        BY <1>5, <2>2 DEF PostTicket
      <3> QED BY <1>1, <1>3, <2>1, <3>1
    <2>3. CASE NumberIsFree(posting)
      <3>1. PICK n \in Nat : n = posting /\ n = Len(tickets) + 1
        BY <1>1, <2>1, <2>3, FreeIsNext
      <3>2. tickets' = Append(tickets, NewTicket(n, "null", "info"))
        BY <1>5, <2>3, <3>1 DEF PostTicket
      <3>3. /\ Grows /\ NumbersInOrder' /\ tickets' \in Seq(Ticket)
            /\ \A c : /\ c # "null" => /\ TicketsOf(c)' \subseteq TicketsOf(c)
                                       /\ OpenOf(c)' \subseteq OpenOf(c)
                      /\ Served(c) => Served(c)'
            /\ \A i \in DOMAIN tickets : tickets'[i] = tickets[i]
            /\ \A i \in DOMAIN tickets' :
                  i \in DOMAIN tickets \/ tickets'[i].key = "null"
        BY <1>1, <3>1, <3>2, NewCounts
      <3>4. posting' \in 0..Len(tickets') + 1
        BY <2>1, <3>3 DEF Grows
      <3> QED BY <2>1, <3>3, <3>4, UsersKeep, ConstantsAssumption
    <2> QED BY <2>2, <2>3
  <1> QED BY <1>2, <1>4, <1>5 DEF UserStep

\* After a restart no run holds anything.
LEMMA RestartKeeps ==
  ASSUME IInv, CloudRestart
  PROVE  IInv'
  <1>1. /\ TypeOK /\ Joined /\ Counted /\ Numbering /\ NumbersInOrder
        /\ Len(tickets) \in Nat
    BY TicketsAreFunction DEF IInv, Later, Numbering
  <1>2. /\ engine' = [e \in Engines |-> Idle] /\ posting' = 0
        /\ UNCHANGED <<tickets, overlap, alone>>
        /\ Idle.pc = "idle" /\ Idle \in Run
    BY DEF CloudRestart, Idle, Run, Results
  <1>3. \A e \in Engines : engine'[e].pc = "idle"
    BY <1>2
  <1>4. /\ NumbersInOrder'
        /\ \A c : TicketsOf(c)' = TicketsOf(c) /\ OpenOf(c)' = OpenOf(c)
    BY <1>1, <1>2, SameTable
  <1>5. TypeOK'
    BY <1>1, <1>2 DEF TypeOK
  <1>6. Joined'
    <2>1. Busy' = {} /\ Cardinality(Busy') = 0
      BY <1>3, FS_EmptySet DEF Busy
    <2>2. overlap \in Nat
      BY <1>1 DEF TypeOK
    <2> QED BY <1>1, <1>2, <2>1, <2>2 DEF Joined
  <1>7. Counted'
    <2> SUFFICES ASSUME NEW c \in Checks PROVE CountedOf(c)'
        BY DEF Counted
    <2>1. Creating(c)' \subseteq Creating(c) /\ Seeking(c)' \subseteq Seeking(c)
      BY <1>3 DEF Creating, Seeking, Unfound
    <2>2. overlap' = overlap /\ overlap \in Nat
      BY <1>1, <1>2 DEF TypeOK
    <2> QED BY <1>1, <1>4, <2>1, <2>2, QuietOf DEF Counted
  <1>8. Holding' /\ Numbering' /\ Undisturbed'
    BY <1>1, <1>2, <1>3, <1>4
    DEF Holding, HoldingOf, Numbering, Undisturbed, Reporting, Closing, At, Working,
        Unfound
  <1> QED BY <1>5, <1>6, <1>7, <1>8 DEF IInv, Later
-----------------------------------------------------------------------------
(* Theorems *)

\* No ticket and no run.
LEMMA InitIInv == Init => IInv
  <1> SUFFICES ASSUME Init PROVE IInv
      OBVIOUS
  <1>1. TypeOK
    BY EmptySeq DEF Init, Idle, TypeOK, Run, Results
  <1>2. /\ DOMAIN tickets = {} /\ Len(tickets) = 0 /\ posting = 0
        /\ overlap = 0 /\ alone = TRUE
        /\ \A e \in Engines : engine[e].pc = "idle"
    BY DEF Init, Idle
  <1>3. Busy = {} /\ Cardinality({}) = 0
    BY <1>2, FS_EmptySet DEF Busy
  <1>4. Joined
    BY <1>2, <1>3 DEF Joined
  <1>5. Counted
    <2> SUFFICES ASSUME NEW c \in Checks PROVE CountedOf(c)
        BY DEF Counted
    <2>1. TicketsOf(c) = {} /\ OpenOf(c) = {} /\ Creating(c) = {} /\ Seeking(c) = {}
      BY <1>2 DEF TicketsOf, OpenOf, Creating, Seeking, Unfound
    <2> QED BY <1>2, <1>3, <2>1 DEF CountedOf
  <1>6. Holding /\ Numbering /\ Undisturbed
    BY <1>2 DEF Holding, HoldingOf, Numbering, NumbersInOrder, Undisturbed, Reporting,
                Closing, At, Working, Unfound
  <1> QED BY <1>1, <1>4, <1>5, <1>6 DEF IInv, Later

\* Every step keeps the invariant.
LEMMA NextIInv == IInv /\ [Next]_vars => IInv'
  <1> SUFFICES ASSUME IInv, [Next]_vars PROVE IInv'
      OBVIOUS
  <1>1. CASE UNCHANGED vars
    <2>1. TypeOK /\ NumbersInOrder /\ posting \in 0..Len(tickets) + 1
      BY DEF IInv, Later, Numbering
    <2>2. UNCHANGED <<tickets, engine, posting, overlap, alone>>
      BY <1>1 DEF vars
    <2>3. /\ Grows /\ NumbersInOrder' /\ tickets' \in Seq(Ticket)
          /\ \A c : /\ TicketsOf(c)' = TicketsOf(c) /\ OpenOf(c)' = OpenOf(c)
                    /\ Served(c)' = Served(c)
      BY <2>1, <2>2, SameTable DEF TypeOK
    <2> QED BY <2>1, <2>2, <2>3, UsersKeep
  <1>2. CASE Next
    BY <1>2, EngineKeeps, UserStepKeeps, RestartKeeps DEF Next
  <1> QED BY <1>1, <1>2

\* The invariant holds in every state.
LEMMA Invariance == Spec => []IInv
  BY InitIInv, NextIInv, PTL DEF Spec

\* The tables and the runs have their types.
THEOREM TypeInvariant == Spec => []TypeOK
  <1>1. IInv => TypeOK
    BY DEF IInv
  <1> QED BY <1>1, Invariance, PTL

\* A finding has at most as many tickets as runs have overlapped, for any number
\* of checks, runs, users' moves and failures.
THEOREM DuplicatesDoNotAddUp == Spec => []DuplicatesAreBounded
  <1>1. ASSUME IInv PROVE DuplicatesAreBounded
    <2> SUFFICES ASSUME NEW c \in Checks PROVE Cardinality(TicketsOf(c)) <= overlap
        BY DEF DuplicatesAreBounded
    <2>1. TypeOK /\ CountedOf(c) /\ overlap \in Nat
      BY <1>1 DEF IInv, Later, Counted, TypeOK
    <2>2. Cardinality(TicketsOf(c)) \in Nat /\ Cardinality(Creating(c)) \in Nat
      BY <2>1, SetsAreFinite, FS_CardinalityType
    <2> QED BY <2>1, <2>2 DEF CountedOf
  <1> QED BY <1>1, Invariance, PTL

\* Tickets are numbered in order and without gaps.
THEOREM NumbersAreInOrder == Spec => []NumbersInOrder
  <1>1. IInv => NumbersInOrder
    BY DEF IInv, Later, Numbering
  <1> QED BY <1>1, Invariance, PTL

\* What a run that was alone reported has a ticket that only a user may have
\* resolved.
THEOREM ReportedFindingsHaveTickets == Spec => []ReportedHasTicket
  <1>1. IInv => ReportedHasTicket
    BY DEF IInv, Later, Undisturbed, Reporting, ReportedHasTicket, Served, At, Working,
           Unfound
  <1> QED BY <1>1, Invariance, PTL

\* What a run that was alone no longer saw is closed when it ends.
THEOREM ClearedFindingsAreClosed == Spec => []ClearedIsClosed
  <1>1. IInv => ClearedIsClosed
    BY DEF IInv, Later, Undisturbed, Closing, ClearedIsClosed
  <1> QED BY <1>1, Invariance, PTL
-----------------------------------------------------------------------------
(* Steps *)

\* What every step does to the tickets: nothing, a new one, or some move.
LEMMA TicketSteps ==
  ASSUME IInv, [Next]_vars
  PROVE  \/ UNCHANGED tickets
         \/ \E e \in Engines, i \in DOMAIN tickets :
               AutoResolveByCanonicalKey(e, i) /\ HoldingOf(e)
         \/ \E e \in Engines : WorsenSeverity(e) /\ HoldingOf(e)
         \/ \E e \in Engines : ReopenTicket(e) /\ HoldingOf(e)
         \/ \E n, key, severity : tickets' = Append(tickets, NewTicket(n, key, severity))
         \/ \E i \in DOMAIN tickets : \/ ConfirmTicket(i) \/ AcknowledgeTicket(i)
                                      \/ ExecuteTicket(i) \/ ResolveTicket(i)
  <1>1. CASE UNCHANGED vars
    BY <1>1 DEF vars
  <1>2. CASE CloudRestart
    BY <1>2 DEF CloudRestart
  <1>3. CASE UserStep
    <2>1. CASE PostReadsNumber \/ PostTicket
      BY <2>1 DEF PostReadsNumber, PostTicket
    <2> QED BY <1>3, <2>1 DEF UserStep
  <1>4. ASSUME NEW e \in Engines, EngineStep(e)
        PROVE  \/ UNCHANGED tickets
               \/ \E i \in DOMAIN tickets : AutoResolveByCanonicalKey(e, i)
               \/ WorsenSeverity(e) \/ ReopenTicket(e) \/ CreateTicket(e)
    BY <1>4 DEF EngineStep, HealthCheckCompletes, LoadResults,
                FindOpenByCanonicalKey, FindResolvedByCanonicalKey, ReadNumber,
                CreateTicketFails, SelectOpenTickets, EngineEnds, EngineFails
  <1>5. \A e \in Engines : HoldingOf(e)
    BY DEF IInv, Later, Holding
  <1>6. ASSUME NEW e \in Engines, CreateTicket(e)
        PROVE  \E n, key, severity :
                  tickets' = Append(tickets, NewTicket(n, key, severity))
    BY <1>6 DEF CreateTicket
  <1> QED BY <1>1, <1>2, <1>3, <1>4, <1>5, <1>6 DEF Next

\* A run that is alone reopens a ticket only if it is still resolved: a ticket
\* that goes back from another status goes back by a late reopening.
LEMMA LateOrResolved ==
  ASSUME TypeOK, NEW e \in Engines, HoldingOf(e), ReopenTicket(e)
  PROVE  \/ tickets[engine[e].ref].status = "RESOLVED"
         \/ ~alone /\ LateReopen(engine[e].ref)
  <1>1. At(e, "reopen")
    BY DEF ReopenTicket
  <1> QED BY <1>1 DEF HoldingOf, LateReopen

\* The severity of an open ticket never goes down, whatever runs find, but by a
\* late reopening.
THEOREM SeverityRises == Spec => SeverityOnlyRises
  <1> DEFINE Step == \A i \in DOMAIN tickets :
                       tickets[i].status # "RESOLVED" =>
                          \/ Rank[tickets[i].severity] <= Rank[tickets'[i].severity]
                          \/ LateReopen(i)
  <1>1. ASSUME IInv, [Next]_vars PROVE Step
    <2> TypeOK
      BY <1>1 DEF IInv
    <2>1. \A i \in DOMAIN tickets :
            tickets'[i].severity = tickets[i].severity =>
              Rank[tickets[i].severity] <= Rank[tickets'[i].severity]
      <3> SUFFICES ASSUME NEW i \in DOMAIN tickets
                   PROVE  Rank[tickets[i].severity] <= Rank[tickets[i].severity]
          OBVIOUS
      <3>1. tickets[i] \in Ticket
        BY TicketsAreFunction
      <3> QED BY <3>1 DEF Ticket, Severities, Rank
    <2>2. CASE UNCHANGED tickets
      BY <2>1, <2>2
    <2>3. ASSUME NEW e \in Engines, NEW j \in DOMAIN tickets,
                 AutoResolveByCanonicalKey(e, j)
          PROVE  Step
      <3>1. \A i \in DOMAIN tickets : tickets'[i].severity = tickets[i].severity
        BY <2>3, AutoResolveAll
      <3> QED BY <2>1, <3>1
    <2>4. ASSUME NEW e \in Engines, WorsenSeverity(e), HoldingOf(e) PROVE Step
      <3>1. PICK i \in DOMAIN tickets :
               Rewritten(i) /\ Rank[tickets[i].severity] <= Rank[tickets'[i].severity]
        BY <2>4, WorsenOne
      <3>2. \A j \in DOMAIN tickets : j # i => tickets'[j] = tickets[j]
        BY <3>1 DEF Rewritten
      <3> QED BY <2>1, <3>1, <3>2
    <2>5. ASSUME NEW e \in Engines, ReopenTicket(e), HoldingOf(e) PROVE Step
      <3>1. PICK i \in DOMAIN tickets :
               Rewritten(i) /\ (tickets[i].status = "RESOLVED" \/ LateReopen(i))
        BY <2>5, ReopenOne, LateOrResolved
      <3>2. \A j \in DOMAIN tickets : j # i => tickets'[j] = tickets[j]
        BY <3>1 DEF Rewritten
      <3> QED BY <2>1, <3>1, <3>2
    <2>6. ASSUME NEW n, NEW key, NEW severity,
                 tickets' = Append(tickets, NewTicket(n, key, severity))
          PROVE  Step
      <3>1. \A i \in DOMAIN tickets : tickets'[i] = tickets[i]
        BY <2>6, Appended
      <3> QED BY <2>1, <3>1
    <2>7. ASSUME NEW i \in DOMAIN tickets,
                 \/ ConfirmTicket(i) \/ AcknowledgeTicket(i)
                 \/ ExecuteTicket(i) \/ ResolveTicket(i)
          PROVE  Step
      <3>1. Rewritten(i) /\ tickets'[i].severity = tickets[i].severity
        BY <2>7, UserMoves
      <3>2. \A j \in DOMAIN tickets : j # i => tickets'[j] = tickets[j]
        BY <3>1 DEF Rewritten
      <3> QED BY <2>1, <3>1, <3>2
    <2> QED BY <1>1, <2>2, <2>3, <2>4, <2>5, <2>6, <2>7, TicketSteps
  <1> QED BY <1>1, Invariance, PTL DEF Spec, SeverityOnlyRises
-----------------------------------------------------------------------------
(* Refinement *)

\* The status of ticket t, and those of a table, as TicketLifecycle sees them.
StatusOf(t) == IF t.status = "RESOLVED" /\ t.resolved_by = "null"
               THEN "CLEARED" ELSE t.status

ShownIn(table) == [i \in DOMAIN table |-> StatusOf(table[i])]

Shown == ShownIn(tickets)
ShownOf(i) == StatusOf(tickets[i])
Serial == overlap <= 1

\* The statuses are a sequence as long as the table.
LEMMA ShownIsSeq ==
  ASSUME NEW table \in Seq(Ticket)
  PROVE  /\ ShownIn(table) \in Seq(Statuses \cup {"CLEARED"})
         /\ Len(ShownIn(table)) = Len(table)
  <1>1. Len(table) \in Nat /\ DOMAIN table = 1..Len(table)
    BY LenProperties
  <1>2. ASSUME NEW i \in DOMAIN table
        PROVE  StatusOf(table[i]) \in Statuses \cup {"CLEARED"}
    <2>1. table[i] \in Ticket
      BY <1>1, ElementOfSeq
    <2> QED BY <2>1 DEF StatusOf, Ticket
  <1>3. ShownIn(table) \in [1..Len(table) -> Statuses \cup {"CLEARED"}]
    BY <1>1, <1>2 DEF ShownIn
  <1>4. ShownIn(table) \in Seq(Statuses \cup {"CLEARED"})
    BY <1>1, <1>3, SeqDef
  <1>5. 1..Len(ShownIn(table)) = 1..Len(table) /\ Len(ShownIn(table)) \in Nat
    BY <1>1, <1>3, <1>4, LenProperties
  <1> QED BY <1>1, <1>4, <1>5

\* Only a resolved ticket has a resolver.
Resolvers == \A i \in DOMAIN tickets :
                tickets[i].status # "RESOLVED" => tickets[i].resolved_by = "null"

\* Every step leaves it so.
LEMMA ResolversHold == Spec => []Resolvers
  <1>1. Init => Resolvers
    BY DEF Init, Resolvers
  <1>2. ASSUME IInv, Resolvers, [Next]_vars PROVE Resolvers'
    <2> TypeOK
      BY <1>2 DEF IInv
    <2>1. CASE UNCHANGED tickets
      BY <1>2, <2>1 DEF Resolvers
    <2>2. ASSUME NEW e \in Engines, NEW j \in DOMAIN tickets,
                 AutoResolveByCanonicalKey(e, j)
          PROVE  Resolvers'
      BY <1>2, <2>2, AutoResolveAll DEF Resolvers
    <2>3. ASSUME NEW i \in DOMAIN tickets, Rewritten(i),
                 \/ tickets'[i].status = "RESOLVED"
                 \/ tickets'[i].resolved_by = "null"
                 \/ /\ tickets'[i].status = tickets[i].status
                    /\ tickets'[i].resolved_by = tickets[i].resolved_by
          PROVE  Resolvers'
      BY <1>2, <2>3 DEF Resolvers, Rewritten
    <2>4. ASSUME NEW e \in Engines, WorsenSeverity(e), HoldingOf(e) PROVE Resolvers'
      <3>1. PICK i \in DOMAIN tickets :
               /\ Rewritten(i)
               /\ tickets'[i].status = tickets[i].status
               /\ tickets'[i].resolved_by = tickets[i].resolved_by
        BY <2>4, WorsenOne
      <3> QED BY <2>3, <3>1
    <2>5. ASSUME NEW e \in Engines, ReopenTicket(e), HoldingOf(e) PROVE Resolvers'
      <3>1. PICK i \in DOMAIN tickets :
               Rewritten(i) /\ tickets'[i].resolved_by = "null"
        BY <2>5, ReopenOne
      <3> QED BY <2>3, <3>1
    <2>6. ASSUME NEW n, NEW key, NEW severity,
                 tickets' = Append(tickets, NewTicket(n, key, severity))
          PROVE  Resolvers'
      <3>1. NewTicket(n, key, severity).resolved_by = "null"
        BY DEF NewTicket
      <3> QED BY <1>2, <2>6, <3>1, Appended DEF Resolvers
    <2>7. ASSUME NEW i \in DOMAIN tickets,
                 \/ ConfirmTicket(i) \/ AcknowledgeTicket(i)
                 \/ ExecuteTicket(i) \/ ResolveTicket(i)
          PROVE  Resolvers'
      <3>1. Rewritten(i) /\ (\/ tickets'[i].status = "RESOLVED"
                             \/ tickets'[i].resolved_by = "null")
        BY <2>7, UserMoves
      <3> QED BY <2>3, <3>1
    <2> QED BY <1>2, <2>1, <2>2, <2>4, <2>5, <2>6, <2>7, TicketSteps
  <1> QED BY <1>1, <1>2, Invariance, PTL DEF Spec

\* Runs that join are counted in a step of their own.
LEMMA OverlapSteps ==
  ASSUME IInv, [Next]_vars
  PROVE  \/ UNCHANGED overlap
         \/ UNCHANGED tickets /\ overlap \in Nat /\ overlap' \in Nat
            /\ overlap <= overlap'
  <1>1. CASE UNCHANGED vars
    BY <1>1 DEF vars
  <1>2. CASE UserStep \/ CloudRestart
    BY <1>2 DEF UserStep, CloudRestart, ConfirmTicket, AcknowledgeTicket,
                ExecuteTicket, ResolveTicket, UserMove, PostReadsNumber, PostTicket
  <1>3. ASSUME NEW e \in Engines, EngineStep(e), ~ HealthCheckCompletes(e)
        PROVE  UNCHANGED overlap
    BY <1>3 DEF EngineStep, LoadResults, FindOpenByCanonicalKey,
                FindResolvedByCanonicalKey, WorsenSeverity, ReopenTicket, ReadNumber,
                CreateTicket, CreateTicketFails, SelectOpenTickets,
                AutoResolveByCanonicalKey, EngineEnds, EngineFails, GoOn, GoesTo
  <1>4. ASSUME NEW e \in Engines, HealthCheckCompletes(e)
        PROVE  UNCHANGED tickets /\ overlap \in Nat /\ overlap' \in Nat
               /\ overlap <= overlap'
    <2>1. IsFiniteSet(Busy) /\ overlap \in Nat
      BY SetsAreFinite DEF IInv, TypeOK
    <2>2. Cardinality(Busy) \in Nat
      BY <2>1, FS_CardinalityType
    <2> QED BY <1>4, <2>1, <2>2 DEF HealthCheckCompletes
  <1> QED BY <1>1, <1>2, <1>3, <1>4 DEF Next

\* A set with at most one member.
LEMMA OnlyOne ==
  ASSUME NEW S, IsFiniteSet(S), Cardinality(S) <= 1, NEW i \in S, NEW j \in S
  PROVE  i = j
  <1>1. /\ IsFiniteSet(S \ {i}) /\ Cardinality(S \ {i}) = Cardinality(S) - 1
        /\ Cardinality(S) \in Nat /\ Cardinality(S \ {i}) \in Nat
    BY FS_RemoveElement, FS_CardinalityType
  <1>2. S \ {i} = {}
    BY <1>1, FS_EmptySet
  <1> QED BY <1>2

\* One ticket that changes its status changes one entry.
LEMMA OneShown ==
  ASSUME TypeOK, NEW i \in DOMAIN tickets, Rewritten(i), NEW to, ShownOf(i)' = to
  PROVE  /\ Shown' = [Shown EXCEPT ![i] = to] /\ Shown[i] = ShownOf(i)
         /\ DOMAIN Shown = DOMAIN tickets
         /\ ShownOf(i) = to => Shown' = Shown
  <1>1. Shown' = [j \in DOMAIN tickets |-> IF j = i THEN to ELSE ShownOf(j)]
    <2>1. \A j \in DOMAIN tickets : j # i => ShownOf(j)' = ShownOf(j)
      BY DEF ShownOf, StatusOf, Rewritten
    <2> QED BY <2>1 DEF Shown, ShownIn, ShownOf, Rewritten
  <1> QED BY <1>1 DEF Shown, ShownIn, ShownOf

\* A user's move is one of TicketLifecycle.
LEMMA MoveIsMove ==
  ASSUME TypeOK, NEW i \in DOMAIN tickets, Rewritten(i), UNCHANGED overlap,
         NEW to, <<ShownOf(i), to>> \in Lifecycle!UserMoves, ShownOf(i)' = to
  PROVE  Lifecycle!Next
  <1>1. Shown' = [Shown EXCEPT ![i] = to] /\ Shown[i] = ShownOf(i)
        /\ DOMAIN Shown = DOMAIN tickets
    BY OneShown
  <1> DEFINE move == <<ShownOf(i), to>>
  <1>2. move[1] = ShownOf(i) /\ move[2] = to
    OBVIOUS
  <1>3. Lifecycle!Move(i)
    BY <1>1, <1>2 DEF Lifecycle!Move, Shown, ShownIn, ShownOf, StatusOf
  <1> QED BY <1>1, <1>3 DEF Lifecycle!Next, Shown, ShownIn, ShownOf, StatusOf

\* Reopening is a Reopen, or changes no status.
LEMMA ReopenIsReopen ==
  ASSUME TypeOK, NEW i \in DOMAIN tickets, Rewritten(i), UNCHANGED overlap,
         ShownOf(i)' = "REOPENED",
         ShownOf(i) \in {"RESOLVED", "CLEARED", "REOPENED"}
                   \cup IF Serial THEN {}
                        ELSE {"CONFIRMED", "ACKNOWLEDGED", "EXECUTING"}
  PROVE  Lifecycle!Next \/ Shown' = Shown
  <1>1. /\ Shown' = [Shown EXCEPT ![i] = "REOPENED"] /\ Shown[i] = ShownOf(i)
        /\ DOMAIN Shown = DOMAIN tickets
        /\ ShownOf(i) = "REOPENED" => Shown' = Shown
    BY OneShown
  <1>2. CASE ShownOf(i) # "REOPENED"
    <2>1. Lifecycle!Reopen(i)
      BY <1>1, <1>2 DEF Lifecycle!Reopen, Serial, Shown, ShownIn, ShownOf, StatusOf
    <2> QED BY <1>1, <2>1 DEF Lifecycle!Next, Shown, ShownIn, ShownOf, StatusOf
  <1> QED BY <1>1, <1>2

\* A new ticket is a Create.
LEMMA NewIsCreate ==
  ASSUME TypeOK, TypeOK', NEW n, NEW key, NEW severity, UNCHANGED overlap,
         tickets' = Append(tickets, NewTicket(n, key, severity))
  PROVE  Lifecycle!Next
  <1> DEFINE S == Statuses \cup {"CLEARED"}
  <1>1. /\ DOMAIN tickets' = DOMAIN tickets \cup {Len(tickets) + 1}
        /\ Len(tickets') = Len(tickets) + 1
        /\ tickets'[Len(tickets) + 1] = NewTicket(n, key, severity)
        /\ \A i \in DOMAIN tickets : tickets'[i] = tickets[i]
        /\ Len(tickets) + 1 \notin DOMAIN tickets
    BY Appended
  <1>2. Shown \in Seq(S) /\ Len(Shown) = Len(tickets)
    BY ShownIsSeq DEF TypeOK, Shown
  <1>3. Shown' \in Seq(S) /\ Len(Shown') = Len(tickets')
    BY ShownIsSeq DEF TypeOK, Shown
  <1>4. \A i \in DOMAIN tickets : Shown'[i] = Shown[i]
    BY <1>1 DEF Shown, ShownIn, ShownOf, StatusOf
  <1>5. Shown'[Len(tickets) + 1] = "OPEN"
    BY <1>1 DEF Shown, ShownIn, ShownOf, StatusOf, NewTicket
  <1>6. DOMAIN tickets = 1..Len(tickets) /\ Len(tickets) \in Nat /\ "OPEN" \in S
    BY TicketsAreFunction DEF Statuses
  <1> HIDE DEF S
  <1>7. Append(Shown, "OPEN") \in Seq(S) /\ Len(Append(Shown, "OPEN")) = Len(tickets) + 1
        /\ Append(Shown, "OPEN")[Len(tickets) + 1] = "OPEN"
        /\ \A i \in 1..Len(tickets) : Append(Shown, "OPEN")[i] = Shown[i]
    BY <1>2, <1>6, AppendProperties
  <1>8. \A i \in 1..Len(Shown') : Shown'[i] = Append(Shown, "OPEN")[i]
    BY <1>1, <1>3, <1>4, <1>5, <1>6, <1>7
  <1>9. Len(Shown') = Len(Append(Shown, "OPEN"))
    BY <1>1, <1>3, <1>7
  <1>10. Shown' = Append(Shown, "OPEN")
    BY <1>3, <1>7, <1>8, <1>9, SeqEqual
  <1> QED BY <1>10 DEF Lifecycle!Next, Lifecycle!Create, Shown, ShownIn, ShownOf, StatusOf

\* Resolving the tickets of a finding is a Clear of all of them, of one as long
\* as no runs have overlapped; or there is none.
LEMMA AutoResolveIsClear ==
  ASSUME IInv, Resolvers, NEW e \in Engines, NEW n, HoldingOf(e),
         AutoResolveByCanonicalKey(e, n)
  PROVE  Lifecycle!Next \/ Shown' = Shown
  <1> PICK c \in Checks : c = tickets[n].key
    BY DEF AutoResolveByCanonicalKey, HoldingOf
  <1>0. PICK S : S = WithKey(c, Resolvable)
    OBVIOUS
  <1>1. TypeOK /\ CountedOf(c) /\ UNCHANGED overlap /\ overlap \in Nat
    BY DEF IInv, Later, Counted, TypeOK, AutoResolveByCanonicalKey, GoesTo
  <1>2. /\ S \subseteq TicketsOf(c) /\ S \subseteq DOMAIN tickets
        /\ \A i \in S : tickets[i].status \in Resolvable
    BY <1>0 DEF WithKey, TicketsOf
  <1>3. /\ DOMAIN tickets' = DOMAIN tickets
        /\ \A i \in DOMAIN tickets :
              /\ i \notin S => tickets'[i] = tickets[i]
              /\ i \in S => /\ tickets'[i].status = "RESOLVED"
                            /\ tickets'[i].resolved_by = tickets[i].resolved_by
    BY <1>0, <1>1, AutoResolveAll
  <1>4. \A i \in S : /\ ShownOf(i)' = "CLEARED"
                     /\ ShownOf(i) \in Lifecycle!Clearable
    BY <1>2, <1>3 DEF Resolvers, Resolvable, ShownOf, StatusOf, Lifecycle!Clearable
  <1>5. \A i \in DOMAIN tickets : i \notin S => ShownOf(i)' = ShownOf(i)
    BY <1>3 DEF ShownOf, StatusOf
  <1>6. Shown' = [i \in DOMAIN tickets |-> IF i \in S THEN "CLEARED" ELSE ShownOf(i)]
    BY <1>2, <1>3, <1>4, <1>5 DEF Shown, ShownIn, ShownOf
  <1>7. CASE S = {}
    BY <1>6, <1>7 DEF Shown, ShownIn, ShownOf
  <1>8. CASE S # {}
    <2>1. ASSUME Serial, NEW i \in S, NEW j \in S PROVE i = j
      <3>1. IsFiniteSet(TicketsOf(c)) /\ IsFiniteSet(Creating(c))
        BY <1>1, SetsAreFinite
      <3>2. Cardinality(TicketsOf(c)) <= 1
        <4>1. Cardinality(TicketsOf(c)) \in Nat /\ Cardinality(Creating(c)) \in Nat
          BY <3>1, FS_CardinalityType
        <4> QED BY <1>1, <2>1, <4>1 DEF CountedOf, Serial
      <3> QED BY <1>2, <3>1, <3>2, OnlyOne
    <2>2. Lifecycle!Clear(S)
      <3>1. \A i \in S : Shown[i] \in Lifecycle!Clearable
        BY <1>2, <1>4 DEF Shown, ShownIn, ShownOf
      <3>2. Shown' = [i \in DOMAIN Shown |-> IF i \in S THEN "CLEARED" ELSE Shown[i]]
        BY <1>6 DEF Shown, ShownIn, ShownOf
      <3> QED BY <1>1, <1>8, <2>1, <3>1, <3>2
              DEF Lifecycle!Clear, Serial, Shown, ShownIn, StatusOf
    <2>3. S \in SUBSET DOMAIN Shown
      BY <1>2 DEF Shown, ShownIn
    <2>4. \E T \in SUBSET DOMAIN Shown : Lifecycle!Clear(T)
      BY <2>2, <2>3, Zenon
    <2> QED BY <2>4, Zenon DEF Lifecycle!Next, Shown, ShownIn, StatusOf
  <1> QED BY <1>7, <1>8

\* Runs and users together implement the state machine of TicketLifecycle, for
\* any checks and runs, any number of tickets and any failures.
THEOREM ImplementsLifecycle == Spec => FollowsLifecycle
  <1>1. Init => Lifecycle!Init
    BY EmptySeq DEF Init, Lifecycle!Init
  <1>2. ASSUME IInv, Resolvers, [Next]_vars
        PROVE  Lifecycle!Next \/ (Shown' = Shown /\ Serial' = Serial)
    <2> TypeOK /\ TypeOK'
      BY <1>2, NextIInv DEF IInv
    <2>1. CASE UNCHANGED tickets
      <3>1. Shown' = Shown
        BY <2>1 DEF Shown, ShownIn, ShownOf, StatusOf
      <3>2. Serial' = Serial \/ Serial' = FALSE
        BY <1>2, OverlapSteps DEF Serial
      <3>3. CASE Serial' = FALSE
        <4>1. Lifecycle!Overlap
          BY <3>1, <3>3 DEF Lifecycle!Overlap, Shown, ShownIn, ShownOf, StatusOf, Serial
        <4> QED BY <4>1 DEF Lifecycle!Next
      <3> QED BY <3>1, <3>2, <3>3
    <2>2. UNCHANGED tickets \/ UNCHANGED overlap
      BY <1>2, OverlapSteps
    <2>3. ASSUME UNCHANGED overlap, Lifecycle!Next \/ Shown' = Shown
          PROVE  Lifecycle!Next \/ (Shown' = Shown /\ Serial' = Serial)
      BY <2>3 DEF Serial
    <2>4. ASSUME NEW e \in Engines, NEW i \in DOMAIN tickets,
                 AutoResolveByCanonicalKey(e, i), HoldingOf(e)
          PROVE  Lifecycle!Next \/ Shown' = Shown
      BY <1>2, <2>4, AutoResolveIsClear
    <2>5. ASSUME NEW e \in Engines, WorsenSeverity(e), HoldingOf(e)
          PROVE  Lifecycle!Next \/ Shown' = Shown
      <3>1. PICK i \in DOMAIN tickets :
               /\ Rewritten(i)
               /\ tickets'[i].status = tickets[i].status
               /\ tickets'[i].resolved_by = tickets[i].resolved_by
        BY <2>5, WorsenOne
      <3>2. ShownOf(i)' = ShownOf(i)
        BY <3>1 DEF ShownOf, StatusOf
      <3> QED BY <3>1, <3>2, OneShown
    <2>6. ASSUME UNCHANGED overlap, NEW e \in Engines, ReopenTicket(e), HoldingOf(e)
          PROVE  Lifecycle!Next \/ Shown' = Shown
      <3>1. PICK i \in DOMAIN tickets :
               /\ Rewritten(i) /\ tickets[i].status # "OPEN"
               /\ alone => tickets[i].status = "RESOLVED"
               /\ tickets'[i].status = "REOPENED"
        BY <2>6, ReopenOne
      <3>2. Serial => alone
        <4>1. Joined /\ overlap \in Nat
          BY <1>2 DEF IInv, Later, TypeOK
        <4> QED BY <4>1 DEF Joined, Serial
      <3>3. tickets[i].status \in Statuses
        BY TicketsAreFunction DEF Ticket
      <3>4. ShownOf(i)' = "REOPENED"
        BY <3>1 DEF ShownOf, StatusOf
      <3>5. ShownOf(i) \in {"RESOLVED", "CLEARED", "REOPENED"}
               \cup IF Serial THEN {} ELSE {"CONFIRMED", "ACKNOWLEDGED", "EXECUTING"}
        BY <3>1, <3>2, <3>3 DEF ShownOf, StatusOf, Statuses
      <3> QED BY <2>6, <3>1, <3>4, <3>5, ReopenIsReopen
    <2>7. ASSUME UNCHANGED overlap, NEW n, NEW key, NEW severity,
                 tickets' = Append(tickets, NewTicket(n, key, severity))
          PROVE  Lifecycle!Next
      BY <2>7, NewIsCreate
    <2>8. ASSUME UNCHANGED overlap, NEW i \in DOMAIN tickets, NEW from, NEW to,
                 NEW resolver \in {"null", "user"}, UserMove(i, from, to, resolver),
                 from \subseteq Statuses \ {"RESOLVED"},
                 to \in Statuses \ {"OPEN"}, to = "RESOLVED" => resolver = "user",
                 from \X {to} \subseteq Lifecycle!UserMoves
          PROVE  Lifecycle!Next
      <3>1. /\ Rewritten(i) /\ tickets[i].status \in from
            /\ tickets'[i].status = to /\ tickets'[i].resolved_by = resolver
        BY <2>8, MoveOne
      <3>2. ShownOf(i) = tickets[i].status /\ ShownOf(i)' = to
        BY <2>8, <3>1 DEF ShownOf, StatusOf
      <3>3. <<ShownOf(i), to>> \in Lifecycle!UserMoves
        BY <2>8, <3>1, <3>2
      <3> QED BY <2>8, <3>1, <3>2, <3>3, MoveIsMove
    <2>9. ASSUME UNCHANGED overlap, NEW i \in DOMAIN tickets,
                 \/ ConfirmTicket(i) \/ AcknowledgeTicket(i)
                 \/ ExecuteTicket(i) \/ ResolveTicket(i)
          PROVE  Lifecycle!Next
      <3>1. /\ {"OPEN", "REOPENED"} \X {"CONFIRMED"} \subseteq Lifecycle!UserMoves
            /\ {"OPEN", "REOPENED"} \X {"ACKNOWLEDGED"} \subseteq Lifecycle!UserMoves
            /\ {"CONFIRMED"} \X {"EXECUTING"} \subseteq Lifecycle!UserMoves
            /\ {"EXECUTING", "CONFIRMED", "OPEN", "REOPENED"} \X {"RESOLVED"}
                  \subseteq Lifecycle!UserMoves
        BY DEF Lifecycle!UserMoves
      <3>2. /\ {"EXECUTING", "CONFIRMED", "OPEN", "REOPENED"}
                  \subseteq Statuses \ {"RESOLVED"}
            /\ {"CONFIRMED", "ACKNOWLEDGED", "EXECUTING", "RESOLVED"}
                  \subseteq Statuses \ {"OPEN"}
        BY DEF Statuses
      <3>3. CASE ConfirmTicket(i)
        BY <2>8, <2>9, <3>1, <3>2, <3>3 DEF ConfirmTicket
      <3>4. CASE AcknowledgeTicket(i)
        BY <2>8, <2>9, <3>1, <3>2, <3>4 DEF AcknowledgeTicket
      <3>5. CASE ExecuteTicket(i)
        BY <2>8, <2>9, <3>1, <3>2, <3>5 DEF ExecuteTicket
      <3>6. CASE ResolveTicket(i)
        BY <2>8, <2>9, <3>1, <3>2, <3>6 DEF ResolveTicket
      <3> QED BY <2>9, <3>3, <3>4, <3>5, <3>6
    <2> QED BY <1>2, <2>1, <2>2, <2>3, <2>4, <2>5, <2>6, <2>7, <2>9, TicketSteps
  <1>3. ASSUME IInv, Resolvers, [Next]_vars
        PROVE  [Lifecycle!Next]_(Lifecycle!vars)
    BY <1>2, <1>3 DEF Lifecycle!vars, Shown, ShownIn, ShownOf, StatusOf, Serial
  <1> QED BY <1>1, <1>3, Invariance, ResolversHold, PTL
          DEF Spec, FollowsLifecycle, Lifecycle!Spec
=============================================================================
