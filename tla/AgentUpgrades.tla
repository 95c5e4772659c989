--------------------------- MODULE AgentUpgrades ----------------------------
(***************************************************************************)
(* Automatic upgrades of an agent below AUTO_UPGRADE_TARGET:               *)
(* evaluateAutoUpgrade of routes/agent.js, started and not awaited by every *)
(* poll and heartbeat whose key is accepted, over the rows of              *)
(* agent_upgrade_audit (db/agent-upgrade-audit.js).  Each await of an      *)
(* evaluation ends a step of it, so evaluations overlap.                   *)
(*                                                                         *)
(* Audit rows are the elements of Rows, all with the present target.  A    *)
(* row that no window, promise or evaluation refers to any more is reused  *)
(* for the next insert.                                                    *)
(***************************************************************************)
EXTENDS KeyRotation, FiniteSets

CONSTANTS Rows,         \* audit rows that are not yet history
          Evals,        \* evaluations under way at one time
          MaxFailures,  \* AUTO_UPGRADE_MAX_FAILURES
          None,         \* no row
          MaxUpgradingRotations  \* bound on the rotations of a connection
                                 \* that upgrades automatically

ASSUME UpgradeConstants ==
    /\ IsFiniteSet(Rows) /\ IsFiniteSet(Evals)
    /\ MaxFailures \in Nat \ {0}
    /\ None \notin Rows
    /\ MaxUpgradingRotations \in Nat

VARIABLES
    autoUpgrade, \* auto_upgrade_enabled of the connection
    upToDate,    \* the agent reports AUTO_UPGRADE_TARGET
    auditStatus, \* the status column
    backdated,   \* rows whose triggered_at is out of the windows
    waiting,     \* rows whose sendToAgent promise is pending
    evalAt,      \* where each evaluation is
    evalRow      \* the row it has inserted

upgradeVars == <<autoUpgrade, upToDate, auditStatus, backdated, waiting,
                 evalAt, evalRow>>

UpgradeTypeOK ==
    /\ autoUpgrade \in BOOLEAN
    /\ upToDate \in BOOLEAN
    /\ auditStatus \in [Rows -> {"none", "queued", "in_progress", "completed",
                                 "failed"}]
    /\ backdated \in SUBSET Rows
    /\ waiting \in SUBSET Rows
    /\ evalAt \in [Evals -> {"idle", "closing", "behind", "counted",
                             "inserting", "marking"}]
    /\ evalRow \in [Evals -> Rows \cup {None}]

\* Every variable of the two modules has its type.
TypeOK == KeyTypeOK /\ UpgradeTypeOK

UpgradeInit ==
    /\ autoUpgrade \in BOOLEAN
    /\ upToDate = FALSE
    /\ auditStatus = [r \in Rows |-> "none"]
    /\ backdated = {} /\ waiting = {}
    /\ evalAt = [e \in Evals |-> "idle"]
    /\ evalRow = [e \in Evals |-> None]

InFlight(r) == auditStatus[r] \in {"queued", "in_progress"}

\* The rows getActiveUpgrade finds.
Active == {r \in Rows : InFlight(r) /\ r \notin backdated}

\* The rows recentFailureCount counts.
RecentFailures == {r \in Rows : auditStatus[r] = "failed" /\ r \notin backdated}

\* The rows an evaluation is about to mark.
Marked == {r \in Rows : \E e \in Evals : evalRow[e] = r}

\* Nothing refers to the row any more, and neither window selects it now or
\* later: a mark that came after its reset leaves it in progress, to be
\* completed or expired outside of them.
Spare(r) ==
    /\ r \notin waiting \cup Marked
    /\ auditStatus[r] \in {"none", "completed"} \/ r \in backdated
-----------------------------------------------------------------------------
(* evaluateAutoUpgrade *)

\* It is called with the version the agent reports.  Below the target it
\* returns at once unless the policy is on; a poll never reports a runbook.
StartEvaluation(e) ==
    /\ evalAt[e] = "idle"
    /\ evalAt' = [evalAt EXCEPT ![e] = IF upToDate THEN "closing"
                                      ELSE IF autoUpgrade THEN "behind"
                                      ELSE "idle"]
    /\ UNCHANGED <<autoUpgrade, upToDate, auditStatus, backdated, waiting,
                   evalRow>>

\* completeUpgradeOnHeartbeat: every row in flight is completed.
CompleteOnHeartbeat(e) ==
    /\ evalAt[e] = "closing"
    /\ evalAt' = [evalAt EXCEPT ![e] = "idle"]
    /\ auditStatus' = [r \in Rows |-> IF InFlight(r) THEN "completed"
                                                     ELSE auditStatus[r]]
    /\ UNCHANGED <<autoUpgrade, upToDate, backdated, waiting, evalRow>>

\* Mutant: the suppression tests for more than the limit.
CountFailuresOffByOne(e) ==
    /\ evalAt[e] = "behind"
    /\ evalAt' = [evalAt EXCEPT ![e] =
                     IF Cardinality(RecentFailures) > MaxFailures
                     THEN "idle" ELSE "counted"]
    /\ UNCHANGED <<autoUpgrade, upToDate, auditStatus, backdated, waiting,
                   evalRow>>

\* recentFailureCount: suppressed at the limit.
CountFailures(e) ==
    /\ evalAt[e] = "behind"
    /\ evalAt' = [evalAt EXCEPT ![e] =
                     IF Cardinality(RecentFailures) >= MaxFailures
                     THEN "idle" ELSE "counted"]
    /\ UNCHANGED <<autoUpgrade, upToDate, auditStatus, backdated, waiting,
                   evalRow>>

\* Mutant: getActiveUpgrade looks for queued rows only.
CheckQueued(e) ==
    /\ evalAt[e] = "counted"
    /\ evalAt' = [evalAt EXCEPT ![e] =
                     IF \E r \in Active : auditStatus[r] = "queued"
                     THEN "idle" ELSE "inserting"]
    /\ UNCHANGED <<autoUpgrade, upToDate, auditStatus, backdated, waiting,
                   evalRow>>

\* getActiveUpgrade: nothing is done while a row is in flight.
CheckActive(e) ==
    /\ evalAt[e] = "counted"
    /\ evalAt' = [evalAt EXCEPT ![e] = IF Active # {} THEN "idle"
                                                      ELSE "inserting"]
    /\ UNCHANGED <<autoUpgrade, upToDate, auditStatus, backdated, waiting,
                   evalRow>>

\* insertUpgradeAudit, then sendToAgent, which is not awaited.
InsertAudit(e, r) ==
    /\ evalAt[e] = "inserting"
    /\ Spare(r)
    /\ evalAt' = [evalAt EXCEPT ![e] = "marking"]
    /\ evalRow' = [evalRow EXCEPT ![e] = r]
    /\ auditStatus' = [auditStatus EXCEPT ![r] = "queued"]
    /\ backdated' = backdated \ {r}
    /\ waiting' = waiting \cup {r}
    /\ UNCHANGED <<autoUpgrade, upToDate>>

\* Mutant: the status is misspelt.
MarkInProgressMisspelt(e) ==
    /\ evalAt[e] = "marking"
    /\ evalAt' = [evalAt EXCEPT ![e] = "idle"]
    /\ evalRow' = [evalRow EXCEPT ![e] = None]
    /\ auditStatus' = [auditStatus EXCEPT ![evalRow[e]] = "in-progress"]
    /\ UNCHANGED <<autoUpgrade, upToDate, backdated, waiting>>

\* markUpgradeInProgress, whatever the row's status is by now.
MarkInProgress(e) ==
    /\ evalAt[e] = "marking"
    /\ evalAt' = [evalAt EXCEPT ![e] = "idle"]
    /\ evalRow' = [evalRow EXCEPT ![e] = None]
    /\ auditStatus' = [auditStatus EXCEPT ![evalRow[e]] = "in_progress"]
    /\ UNCHANGED <<autoUpgrade, upToDate, backdated, waiting>>
-----------------------------------------------------------------------------
(* What happens to a row and to the agent *)

\* The promise settles: completed when the agent answers ok, failed when it
\* does not, when the channel fails or after 320 s.
SendSettles(r) ==
    /\ r \in waiting
    /\ waiting' = waiting \ {r}
    /\ \E s \in {"completed", "failed"} :
          auditStatus' = [auditStatus EXCEPT ![r] = s]
    /\ UNCHANGED <<autoUpgrade, upToDate, backdated, evalAt, evalRow>>

\* expireTimedOutUpgrades, from the cron: rows in flight for ten minutes, so
\* none whose promise is still pending.
ExpireTimedOut(rows) ==
    /\ rows # {}
    /\ auditStatus' = [r \in Rows |-> IF r \in rows THEN "failed"
                                                    ELSE auditStatus[r]]
    /\ UNCHANGED <<autoUpgrade, upToDate, backdated, waiting, evalAt, evalRow>>

\* resetRecentFailures takes them all; they age out of the last 24 h one by one.
ForgetFailures ==
    \E rows \in SUBSET RecentFailures :
        /\ rows # {}
        /\ backdated' = backdated \cup rows
        /\ UNCHANGED <<autoUpgrade, upToDate, auditStatus, waiting, evalAt,
                       evalRow>>

\* The agent comes back with the target version, because of a command, even
\* one whose answer is lost, or of an upgrade on the host.
AgentUpgraded ==
    /\ ~upToDate
    /\ upToDate' = TRUE
    /\ UNCHANGED <<autoUpgrade, auditStatus, backdated, waiting, evalAt,
                   evalRow>>

\* A restart drops the promises and the evaluations.
UpgradeRestart ==
    /\ waiting' = {}
    /\ evalAt' = [e \in Evals |-> "idle"]
    /\ evalRow' = [e \in Evals |-> None]
    /\ UNCHANGED <<autoUpgrade, upToDate, auditStatus, backdated>>
-----------------------------------------------------------------------------
UpgradeStep ==
    \/ \E e \in Evals :
          \/ CompleteOnHeartbeat(e) \/ CountFailures(e)
          \/ CheckActive(e) \/ MarkInProgress(e)
          \/ \E r \in Rows : InsertAudit(e, r)
    \/ \E r \in Rows : SendSettles(r)
    \/ \E rows \in SUBSET {r \in Rows : InFlight(r) /\ r \notin waiting} :
          ExpireTimedOut(rows)
    \/ ForgetFailures \/ AgentUpgraded

\* An accepted poll starts an evaluation; so does a heartbeat, which the
\* agent sends from a thread of its own with the same key.
PollAndEvaluate == Poll /\ \E e \in Evals : StartEvaluation(e)

Heartbeat ==
    /\ Accepted(agentKey)
    /\ \E e \in Evals : StartEvaluation(e)
    /\ UNCHANGED keyVars

Restart == ServerRestart /\ UpgradeRestart

Init == KeyInit /\ UpgradeInit

Next ==
    \/ /\ KeyStep
       /\ autoUpgrade => current' <= MaxUpgradingRotations
       /\ UNCHANGED upgradeVars
    \/ UpgradeStep /\ UNCHANGED keyVars
    \/ PollAndEvaluate \/ Heartbeat \/ Restart

vars == <<keyVars, upgradeVars>>

Spec == Init /\ [][Next]_vars
-----------------------------------------------------------------------------
(* What the safety rails really bound *)

Stage(at) == {e \in Evals : evalAt[e] = at}

\* The rows that count against the agent now or may do so without another
\* insert: a promise that is rejected late fails even a row that a heartbeat
\* of the upgraded agent has completed.
Attempts == RecentFailures \cup Active \cup Marked \cup waiting

\* The rail of AUTO_UPGRADE_MAX_FAILURES recent failures and the check for a
\* row in flight are read one after the other and neither locks: evaluations
\* that overlap, and a row that fails between the two reads, exceed the limit
\* by no more than two attempts per evaluation, less one.
AttemptsAreBounded ==
    Cardinality(Attempts) + 1 <= MaxFailures + 2 * Cardinality(Evals)

\* There are never more upgrades in flight than evaluations overlap, even
\* though marking a row can bring a finished one back.
UpgradesAtOnce ==
    Cardinality(Active) <= Cardinality(Evals)
=============================================================================
