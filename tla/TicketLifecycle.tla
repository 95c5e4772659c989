--------------------------- MODULE TicketLifecycle ---------------------------
(***************************************************************************)
(* What the TuneOps pages promise about a ticket: "Status transitions      *)
(* enforce valid state machine" (routes/tuneops.js).  Only the statuses    *)
(* are seen here, in the order in which the tickets were created; CLEARED  *)
(* is a RESOLVED ticket that no user resolved.  The promise is kept by     *)
(* health checks that complete one after another; once two of a connection *)
(* have overlapped, a late one may reopen a ticket that is being worked on.*)
(***************************************************************************)
EXTENDS Integers, Sequences

VARIABLES status,
          serial    \* no two health checks have overlapped

vars == <<status, serial>>

\* What a user may ask for.
UserMoves ==
    ({"OPEN", "REOPENED"} \X {"CONFIRMED", "ACKNOWLEDGED"})
    \cup {<<"CONFIRMED", "EXECUTING">>}
    \cup ({"OPEN", "REOPENED", "CONFIRMED", "EXECUTING"} \X {"RESOLVED"})

Clearable == {"OPEN", "REOPENED", "CONFIRMED", "ACKNOWLEDGED"}

Init == status = <<>> /\ serial = TRUE

Create == status' = Append(status, "OPEN") /\ UNCHANGED serial

Move(i) ==
    /\ \E move \in UserMoves :
          /\ status[i] = move[1]
          /\ status' = [status EXCEPT ![i] = move[2]]
    /\ UNCHANGED serial

\* A health check finds the problem again.
Reopen(i) ==
    /\ status[i] \in {"RESOLVED", "CLEARED"}
            \cup IF serial THEN {} ELSE {"CONFIRMED", "ACKNOWLEDGED", "EXECUTING"}
    /\ status' = [status EXCEPT ![i] = "REOPENED"]
    /\ UNCHANGED serial

\* A health check does not find the problem any more: its ticket is cleared,
\* with its duplicates if there can be any.
Clear(S) ==
    /\ S # {} /\ \A i \in S : status[i] \in Clearable
    /\ serial => \A i, j \in S : i = j
    /\ status' = [i \in DOMAIN status |-> IF i \in S THEN "CLEARED" ELSE status[i]]
    /\ UNCHANGED serial

Overlap == serial' = FALSE /\ UNCHANGED status

Next ==
    \/ Create
    \/ \E i \in DOMAIN status : Move(i) \/ Reopen(i)
    \/ \E S \in SUBSET DOMAIN status : Clear(S)
    \/ Overlap

Spec == Init /\ [][Next]_vars
=============================================================================
