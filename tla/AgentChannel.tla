---------------------------- MODULE AgentChannel ----------------------------
(***************************************************************************)
(* The durable command channel between the TuneVault cloud and one on-prem *)
(* agent: services/agent-channel.js over db/agent-command-queue.js, the    *)
(* /poll and /respond handlers of routes/agent.js and the single-threaded  *)
(* loop of agent/poll.py.                                                  *)
(*                                                                         *)
(* A command is one row of agent_command_queue, with one caller of         *)
(* sendToAgent (or of enqueueCommand, for the Detached ones).  A poll is   *)
(* one POST /api/agent/poll request; its slot is reused once nothing in    *)
(* the process refers to it any more.  Each await of the source separates  *)
(* two actions.  A result is the number of the run that produced it.       *)
(***************************************************************************)
EXTENDS Naturals, Sequences, FiniteSets

CONSTANTS Cmds,       \* request ids that may be enqueued
          Detached,   \* those enqueued by enqueueCommand: nobody waits
          Polls,      \* slots for concurrent POST /api/agent/poll requests
          MaxFaults   \* bound on crashes, lost messages and lost races

ASSUME ConstantsAssumption ==
    /\ Detached \subseteq Cmds
    /\ IsFiniteSet(Polls)
    /\ MaxFaults \in Nat
    /\ Cardinality(Polls) > MaxFaults  \* a fault can leak one slot for good

VARIABLES
    \* agent_command_queue
    status,      \* status column of each command
    overdue,     \* claim_expires_at < NOW()
    result,      \* result column: a run number, 0 while it is NULL
    queue,       \* commands in the order of enqueued_at
    \* sendToAgent, one per command
    caller,      \* where it is
    answer,      \* the result it resolved with; 0: an empty 200 made up here
    \* waitForWork, one per poll slot
    pollAt,      \* where it is; "orphan": settled before subscribe() returned
    wakeups,     \* claims that NOTIFY callbacks of this poll have in flight
    inHand,      \* rows its callbacks claimed, finish() not yet resolved
    \* the LISTEN client of the process
    hooked,      \* polls whose callback is in _listeners(agent_cmd:<conn>)
    registered,  \* _listeners has an entry for that channel
    listening,   \* the current client really LISTENs on that channel
    \* deliverResult, one record per POST /api/agent/respond in progress
    posts,
    \* run_poll_loop; at most one of the three sets is non-empty
    awaiting,    \* the poll whose response the agent waits for
    executing,   \* the command it executes
    posting,     \* the command whose result it is posting
    \* history
    runs,        \* how often the agent was given the command
    lapsed,      \* how often a claim on it was reverted to pending
    faults

tableVars  == <<status, overdue, result, queue>>
callerVars == <<caller, answer>>
pollVars   == <<pollAt, wakeups, inHand>>
listenVars == <<hooked, registered, listening>>
agentVars  == <<awaiting, executing, posting, runs>>
vars == <<tableVars, callerVars, pollVars, listenVars, posts, agentVars,
          lapsed, faults>>

CallerPhases == {"idle", "inserted", "subscribing", "listening", "deaf",
                 "fetching", "resolved", "rejected", "detached", "gone"}
\* sendToAgent's promise is pending and its timer is armed.
Waiting == {"subscribing", "listening", "deaf", "fetching"}
PollPhases == {"idle", "arrived", "claiming", "subscribing", "holding", "orphan"}
\* waitForWork's promise is pending.
Open == {"arrived", "claiming", "subscribing", "holding"}

TypeOK ==
    /\ status  \in [Cmds -> {"absent", "pending", "claimed", "completed"}]
    /\ overdue \in [Cmds -> BOOLEAN]
    /\ result  \in [Cmds -> Nat]
    /\ queue   \in Seq(Cmds)
    /\ caller  \in [Cmds -> CallerPhases]
    /\ answer  \in [Cmds -> Nat]
    /\ pollAt  \in [Polls -> PollPhases]
    /\ wakeups \in [Polls -> Nat]
    /\ inHand  \in [Polls -> SUBSET Cmds]
    /\ hooked  \in SUBSET Polls
    /\ registered \in BOOLEAN
    /\ listening  \in BOOLEAN
    /\ posts   \in SUBSET [cmd : Cmds, run : Nat, stored : BOOLEAN]
    /\ awaiting  \in SUBSET Polls
    /\ executing \in SUBSET Cmds
    /\ posting   \in SUBSET Cmds
    /\ runs    \in [Cmds -> Nat]
    /\ lapsed  \in [Cmds -> Nat]
    /\ faults  \in 0..MaxFaults

Init ==
    /\ status  = [c \in Cmds |-> "absent"]
    /\ overdue = [c \in Cmds |-> FALSE]
    /\ result  = [c \in Cmds |-> 0]
    /\ queue   = << >>
    /\ caller  = [c \in Cmds |-> "idle"]
    /\ answer  = [c \in Cmds |-> 0]
    /\ pollAt  = [p \in Polls |-> "idle"]
    /\ wakeups = [p \in Polls |-> 0]
    /\ inHand  = [p \in Polls |-> {}]
    /\ hooked = {} /\ registered = FALSE /\ listening = FALSE
    /\ posts = {}
    /\ awaiting = {} /\ executing = {} /\ posting = {}
    /\ runs   = [c \in Cmds |-> 0]
    /\ lapsed = [c \in Cmds |-> 0]
    /\ faults = 0

Fault == faults < MaxFaults /\ faults' = faults + 1

-----------------------------------------------------------------------------
(* sendToAgent / enqueueCommand *)

\* db.enqueueCommand: INSERT of a pending row.
EnqueueCommand(c) ==
    /\ caller[c] = "idle"
    /\ caller' = [caller EXCEPT ![c] = "inserted"]
    /\ status' = [status EXCEPT ![c] = "pending"]
    /\ queue'  = Append(queue, c)
    /\ UNCHANGED <<overdue, result, answer, pollVars, listenVars, posts,
                   agentVars, lapsed, faults>>

\* Whether a NOTIFY on agent_cmd reaches the process: while a LISTEN is in
\* flight it may fall on either side of it.
Heard == IF \E p \in Polls : pollAt[p] \in {"subscribing", "orphan"}
         THEN BOOLEAN ELSE {listening}

\* notifyAgentCmd: pg_notify starts a claim in the callback of every hooked
\* poll.  sendToAgent then arms its timer and subscribes to the result
\* channel; enqueueCommand returns.
NotifyAgentCmd(c) ==
    /\ caller[c] = "inserted"
    /\ caller' = [caller EXCEPT ![c] = IF c \in Detached THEN "detached"
                                                         ELSE "subscribing"]
    /\ \E heard \in Heard :
          wakeups' = [p \in Polls |-> IF heard /\ p \in hooked
                                     THEN wakeups[p] + 1 ELSE wakeups[p]]
    /\ UNCHANGED <<tableVars, answer, pollAt, inHand, listenVars, posts,
                   agentVars, lapsed, faults>>

\* LISTEN on agent_result:<requestId> returned; the row is not read again.
ResultSubscribed(c) ==
    /\ caller[c] = "subscribing"
    /\ caller' = [caller EXCEPT ![c] = "listening"]
    /\ UNCHANGED <<tableVars, answer, pollVars, listenVars, posts, agentVars,
                   lapsed, faults>>

\* The notification callback reads the completed row back; without one it
\* resolves with what the payload says, which is an empty 200.
GetCompletedResult(c) ==
    /\ caller[c] = "fetching"
    /\ caller' = [caller EXCEPT ![c] = "resolved"]
    /\ answer' = [answer EXCEPT ![c] = IF status[c] = "completed"
                                       THEN result[c] ELSE 0]
    /\ UNCHANGED <<tableVars, pollVars, listenVars, posts, agentVars, lapsed,
                   faults>>

\* Mutant: cleanup forgets clearTimeout.
SendTimeoutNotCleared(c) ==
    /\ caller[c] \in Waiting \cup {"resolved"}
    /\ caller' = [caller EXCEPT ![c] = "rejected"]
    /\ UNCHANGED <<tableVars, answer, pollVars, listenVars, posts, agentVars,
                   lapsed, faults>>

\* The timer rejects; the row stays as it is and will still be executed.
SendTimeout(c) ==
    /\ caller[c] \in Waiting
    /\ caller' = [caller EXCEPT ![c] = "rejected"]
    /\ UNCHANGED <<tableVars, answer, pollVars, listenVars, posts, agentVars,
                   lapsed, faults>>
-----------------------------------------------------------------------------
(* waitForWork and the queue operations it calls *)

\* Mutant: the subselect of claimNextCommand lacks the filter on status.
IsNextOfAnyStatus(c) == queue # << >> /\ Head(queue) = c

\* claimNextCommand takes the oldest pending row.
IsNext(c) ==
    \E i \in DOMAIN queue :
        /\ queue[i] = c
        /\ status[c] = "pending"
        /\ \A j \in 1..(i - 1) : status[queue[j]] # "pending"

ClaimRow(c) ==
    /\ IsNext(c)
    /\ status'  = [status EXCEPT ![c] = "claimed"]
    /\ overdue' = [overdue EXCEPT ![c] = FALSE]
    /\ UNCHANGED <<result, queue>>

\* res.json(work) of poll p, work being {} or one command: only an agent
\* that still waits for this response starts to execute it.
Respond(p, work) ==
    /\ awaiting'  = awaiting \ {p}
    /\ executing' = IF p \in awaiting THEN work ELSE executing
    /\ runs' = [c \in Cmds |-> IF p \in awaiting /\ c \in work
                               THEN runs[c] + 1 ELSE runs[c]]
    /\ UNCHANGED posting

\* Mutant: unsubscribe deletes the entry without looking at the set's size.
UnsubscribeAll(p) ==
    /\ hooked' = hooked \ {p}
    /\ registered' = FALSE /\ listening' = FALSE

\* The unsubscribe closure: drop the callback and, when the set is empty,
\* the entry, with an UNLISTEN.
Unsubscribe(p) ==
    /\ hooked' = hooked \ {p}
    /\ IF hooked \ {p} = {}
       THEN registered' = FALSE /\ listening' = FALSE
       ELSE UNCHANGED <<registered, listening>>

\* run_poll_loop posts to /api/agent/poll.
PollArrives(p) ==
    /\ awaiting = {} /\ executing = {} /\ posting = {}
    /\ pollAt[p] = "idle" /\ p \notin hooked
    /\ wakeups[p] = 0 /\ inHand[p] = {}
    /\ awaiting' = {p}
    /\ pollAt' = [pollAt EXCEPT ![p] = "arrived"]
    /\ UNCHANGED <<tableVars, callerVars, wakeups, inHand, listenVars, posts,
                   executing, posting, runs, lapsed, faults>>

\* Mutant: expireStaleClaims filters on the wrong status.
StalePending(c) == status[c] = "pending" /\ overdue[c]

Stale(c) == status[c] = "claimed" /\ overdue[c]

\* Mutant: a claim that lapses fails its command, the way failCommand would,
\* instead of returning it to the queue.
ExpireAsFailed(p) ==
    /\ pollAt[p] = "arrived"
    /\ pollAt' = [pollAt EXCEPT ![p] = "claiming"]
    /\ status' = [c \in Cmds |-> IF Stale(c) THEN "failed" ELSE status[c]]
    /\ overdue' = [c \in Cmds |-> IF Stale(c) THEN FALSE ELSE overdue[c]]
    /\ lapsed' = [c \in Cmds |-> IF Stale(c) THEN lapsed[c] + 1 ELSE lapsed[c]]
    /\ UNCHANGED <<result, queue, callerVars, wakeups, inHand, listenVars,
                   posts, agentVars, faults>>

\* expireStaleClaims, one UPDATE.  The upsertChannelState that follows only
\* feeds isAgentConnected.
ExpireStaleClaims(p) ==
    /\ pollAt[p] = "arrived"
    /\ pollAt' = [pollAt EXCEPT ![p] = "claiming"]
    /\ status' = [c \in Cmds |-> IF Stale(c) THEN "pending" ELSE status[c]]
    /\ overdue' = [c \in Cmds |-> IF Stale(c) THEN FALSE ELSE overdue[c]]
    /\ lapsed' = [c \in Cmds |-> IF Stale(c) THEN lapsed[c] + 1 ELSE lapsed[c]]
    /\ UNCHANGED <<result, queue, callerVars, wakeups, inHand, listenVars,
                   posts, agentVars, faults>>

\* The first claim of a poll finds a row: answer at once.
ClaimAtOnce(p, c) ==
    /\ pollAt[p] = "claiming"
    /\ ClaimRow(c)
    /\ Respond(p, {c})
    /\ pollAt' = [pollAt EXCEPT ![p] = "idle"]
    /\ UNCHANGED <<callerVars, wakeups, inHand, listenVars, posts, lapsed,
                   faults>>

\* The first claim finds none: arm the hold timer and subscribe.  Only the
\* poll that creates the entry issues LISTEN and waits for it.
StartHold(p) ==
    /\ pollAt[p] = "claiming"
    /\ \A c \in Cmds : ~IsNext(c)
    /\ IF registered
       THEN /\ pollAt' = [pollAt EXCEPT ![p] = "holding"]
            /\ hooked' = hooked \cup {p}
            /\ UNCHANGED registered
       ELSE /\ pollAt' = [pollAt EXCEPT ![p] = "subscribing"]
            /\ registered' = TRUE
            /\ UNCHANGED hooked
    /\ UNCHANGED <<tableVars, callerVars, wakeups, inHand, listening, posts,
                   agentVars, lapsed, faults>>

\* LISTEN returned.  If the entry is gone by now, adding the callback throws
\* and only the timer is left.  Pending rows are not looked for again.
CmdSubscribed(p) ==
    /\ pollAt[p] \in {"subscribing", "orphan"}
    /\ pollAt' = [pollAt EXCEPT ![p] = IF @ = "orphan" THEN "idle"
                                                       ELSE "holding"]
    /\ hooked' = IF registered THEN hooked \cup {p} ELSE hooked
    /\ listening' = registered
    /\ UNCHANGED <<tableVars, callerVars, wakeups, inHand, registered, posts,
                   agentVars, lapsed, faults>>

\* A callback's claim finds a row and calls finish, which clears the timer
\* and unsubscribes.  On a promise already settled the row is kept by nobody.
ClaimOnNotify(p, c) ==
    /\ wakeups[p] > 0
    /\ ClaimRow(c)
    /\ inHand' = [inHand EXCEPT ![p] = IF pollAt[p] \in Open
                                       THEN @ \cup {c} ELSE @]
    /\ wakeups' = [wakeups EXCEPT ![p] = @ - 1]
    /\ Unsubscribe(p)
    /\ UNCHANGED <<callerVars, pollAt, posts, agentVars, lapsed, faults>>

\* A callback's claim finds nothing: the poll stays waiting.
NothingOnNotify(p) ==
    /\ wakeups[p] > 0
    /\ \A c \in Cmds : ~IsNext(c)
    /\ wakeups' = [wakeups EXCEPT ![p] = @ - 1]
    /\ UNCHANGED <<tableVars, callerVars, pollAt, inHand, listenVars, posts,
                   agentVars, lapsed, faults>>

\* finish resolves with one claimed row; a second one claimed by the same
\* poll meanwhile is dropped.
FinishWithWork(p, c) ==
    /\ c \in inHand[p]
    /\ Respond(p, {c})
    /\ inHand' = [inHand EXCEPT ![p] = {}]
    /\ pollAt' = [pollAt EXCEPT ![p] = "idle"]
    /\ UNCHANGED <<tableVars, callerVars, wakeups, listenVars, posts, lapsed,
                   faults>>

\* Mutant: finish(null) leaves the callback where it is.
FinishEmptyStaysHooked(p) ==
    /\ inHand[p] = {}
    /\ Respond(p, {})
    /\ UNCHANGED <<tableVars, callerVars, wakeups, inHand, listenVars, posts,
                   lapsed>>

\* finish(null): the hold timer fired and no row is in hand (a callback that
\* claimed one has cleared the timer).
FinishEmpty(p) ==
    /\ inHand[p] = {}
    /\ Respond(p, {})
    /\ IF p \in hooked THEN Unsubscribe(p) ELSE UNCHANGED listenVars
    /\ UNCHANGED <<tableVars, callerVars, wakeups, inHand, posts, lapsed>>

\* Mutant: the hold timer is armed only once subscribe() has returned.
HoldExpiresIfHooked(p) ==
    /\ pollAt[p] = "holding" /\ wakeups[p] = 0 /\ p \in hooked
    /\ FinishEmpty(p)
    /\ pollAt' = [pollAt EXCEPT ![p] = "idle"]
    /\ UNCHANGED faults

HoldExpires(p) ==
    /\ pollAt[p] = "holding" /\ wakeups[p] = 0
    /\ FinishEmpty(p)
    /\ pollAt' = [pollAt EXCEPT ![p] = "idle"]
    /\ UNCHANGED faults

\* The timer fires while a claim or the LISTEN itself is in flight; in the
\* second case unsub is still undefined and the callback will stay hooked.
HoldExpiresInFlight(p) ==
    /\ \/ /\ pollAt[p] = "holding" /\ wakeups[p] > 0
          /\ pollAt' = [pollAt EXCEPT ![p] = "idle"]
       \/ /\ pollAt[p] = "subscribing"
          /\ pollAt' = [pollAt EXCEPT ![p] = "orphan"]
    /\ FinishEmpty(p)
    /\ Fault
-----------------------------------------------------------------------------
(* deliverResult, inside POST /api/agent/respond *)

\* findByRequestId and completeCommand: the UPDATE names the row only, so it
\* completes whatever status the row has.
CompleteCommand(m) ==
    /\ m \in posts /\ ~m.stored
    /\ status'  = [status EXCEPT ![m.cmd] = "completed"]
    /\ result'  = [result EXCEPT ![m.cmd] = m.run]
    /\ overdue' = [overdue EXCEPT ![m.cmd] = FALSE]
    /\ posts' = (posts \ {m}) \cup {[m EXCEPT !.stored = TRUE]}
    /\ UNCHANGED <<queue, callerVars, pollVars, listenVars, agentVars, lapsed,
                   faults>>

\* Mutant: deliverResult notifies before it stores.
NotifyBeforeStoring(m) ==
    /\ m \in posts
    /\ caller' = IF caller[m.cmd] = "listening"
                 THEN [caller EXCEPT ![m.cmd] = "fetching"] ELSE caller
    /\ UNCHANGED <<tableVars, answer, pollVars, listenVars, posts, agentVars,
                   lapsed, faults>>

\* notifyAgentResult and the HTTP response: a caller that listens by now is
\* woken, and the agent that still waits for the response goes on.
NotifyAgentResult(m) ==
    /\ m \in posts /\ m.stored
    /\ caller' = IF caller[m.cmd] = "listening"
                 THEN [caller EXCEPT ![m.cmd] = "fetching"] ELSE caller
    /\ posts' = posts \ {m}
    /\ posting' = IF m.run = runs[m.cmd] THEN posting \ {m.cmd} ELSE posting
    /\ UNCHANGED <<tableVars, answer, pollVars, listenVars, awaiting,
                   executing, runs, lapsed, faults>>
-----------------------------------------------------------------------------
(* The agent, time and failures *)

\* _execute_work returned: POST /api/agent/respond.
SubmitResult(c) ==
    /\ c \in executing
    /\ executing' = {} /\ posting' = {c}
    /\ posts' = posts \cup {[cmd |-> c, run |-> runs[c], stored |-> FALSE]}
    /\ UNCHANGED <<tableVars, callerVars, pollVars, listenVars, awaiting, runs,
                   lapsed, faults>>

\* 60 s have passed since the claim.
ClaimExpires(c) ==
    /\ status[c] = "claimed" /\ ~overdue[c]
    /\ overdue' = [overdue EXCEPT ![c] = TRUE]
    /\ UNCHANGED <<status, result, queue, callerVars, pollVars, listenVars,
                   posts, agentVars, lapsed, faults>>

\* The agent process dies, or one of its requests fails or times out: it
\* never retries, it goes back to polling.  A poll or a respond request that
\* reached the cloud goes on there.
AgentDropsWork ==
    /\ awaiting \cup executing \cup posting # {}
    /\ awaiting' = {} /\ executing' = {} /\ posting' = {}
    /\ Fault
    /\ UNCHANGED <<tableVars, callerVars, pollVars, listenVars, posts, runs,
                   lapsed>>

\* The LISTEN client fails.  _listeners keeps its entries, so what was
\* subscribed is deaf and a LISTEN in progress rejects.
ListenClientError ==
    /\ Fault
    /\ listening' = FALSE
    /\ caller' = [c \in Cmds |-> IF caller[c] \in {"subscribing", "listening"}
                                 THEN "deaf" ELSE caller[c]]
    /\ pollAt' = [p \in Polls |-> CASE pollAt[p] = "subscribing" -> "holding"
                                    [] pollAt[p] = "orphan" -> "idle"
                                    [] OTHER -> pollAt[p]]
    /\ UNCHANGED <<tableVars, answer, wakeups, inHand, hooked, registered,
                   posts, agentVars, lapsed>>

\* The Node process restarts: rows survive, everything in memory is lost.
CloudRestart ==
    /\ Fault
    /\ caller' = [c \in Cmds |-> IF caller[c] \in Waiting \cup {"inserted"}
                                 THEN "gone" ELSE caller[c]]
    /\ pollAt'  = [p \in Polls |-> "idle"]
    /\ wakeups' = [p \in Polls |-> 0]
    /\ inHand'  = [p \in Polls |-> {}]
    /\ hooked' = {} /\ registered' = FALSE /\ listening' = FALSE
    /\ posts' = {}
    /\ awaiting' = {} /\ posting' = {}
    /\ UNCHANGED <<tableVars, answer, executing, runs, lapsed>>
-----------------------------------------------------------------------------
CommandStep(c) ==
    \/ EnqueueCommand(c) \/ NotifyAgentCmd(c) \/ ResultSubscribed(c)
    \/ GetCompletedResult(c) \/ SendTimeout(c)
    \/ SubmitResult(c) \/ ClaimExpires(c)

PollStep(p) ==
    \/ PollArrives(p) \/ ExpireStaleClaims(p) \/ StartHold(p)
    \/ CmdSubscribed(p) \/ NothingOnNotify(p)
    \/ HoldExpires(p) \/ HoldExpiresInFlight(p)

ClaimStep(p, c) ==
    \/ ClaimAtOnce(p, c) \/ ClaimOnNotify(p, c) \/ FinishWithWork(p, c)

RespondStep(m) == CompleteCommand(m) \/ NotifyAgentResult(m)

FailureStep == AgentDropsWork \/ ListenClientError \/ CloudRestart

Next ==
    \/ \E c \in Cmds : CommandStep(c)
    \/ \E p \in Polls : PollStep(p)
    \/ \E p \in Polls, c \in Cmds : ClaimStep(p, c)
    \/ \E m \in posts : RespondStep(m)
    \/ FailureStep

Spec == Init /\ [][Next]_vars
-----------------------------------------------------------------------------
(* Safety *)

\* Polls of this process that claimed c and have not answered yet.
HeldBy(c) == {p \in Polls : c \in inHand[p]}

\* A command is handed out at most once more than claims on it have lapsed:
\* whatever polls, callbacks and zombie requests of a restarted agent race
\* for it, only the 60 s expiry makes a second delivery possible.  (SKIP
\* LOCKED claim of claimNextCommand; finish of waitForWork.)
BoundedRedelivery ==
    \A c \in Cmds : runs[c] + Cardinality(HeldBy(c)) <= lapsed[c] + 1

\* sendToAgent resolves only with the output of a run of its own command,
\* after that command is durably completed: the made-up empty 200 of the
\* callback's fallback branch is never reached.
AnswerIsARun ==
    \A c \in Cmds : caller[c] = "resolved" =>
        status[c] = "completed" /\ answer[c] \in 1..runs[c]

\* The LISTEN bookkeeping: a poll that can be notified is in a channel that
\* has an entry, so an UNLISTEN never silences a poll that is still hooked.
HookedIsRegistered == hooked # {} => registered

\* Callbacks that no poll will remove: the poll settled while its subscribe()
\* was under way, and has been or will be hooked afterwards.
Leaked == {p \in Polls : \/ pollAt[p] = "orphan"
                         \/ pollAt[p] = "idle" /\ p \in hooked}

\* However polls, claims, LISTENs and failures interleave, a callback stays in
\* _listeners for good only through one race of the hold timer against the
\* LISTEN each: every other way out of waitForWork unsubscribes.
LeaksAreLostRaces == Cardinality(Leaked) <= faults

\* What a command and its caller look like to those who use the channel.
PhaseSeen == [c \in Cmds |-> CASE status[c] = "absent"    -> "absent"
                               [] status[c] = "completed" -> "done"
                               [] OTHER                   -> "queued"]
ReplySeen ==
    [c \in Cmds |-> CASE caller[c] = "resolved" -> "answered"
                      [] caller[c] \in {"rejected", "gone", "detached"} -> "closed"
                      [] OTHER -> "open"]

\* What DurableCommands promises of the channel, for every command.
DC == INSTANCE DurableCommands WITH
        phase <- PhaseSeen, outcome <- result, extra <- lapsed,
        reply <- ReplySeen
ImplementsDurableCommands == DC!Spec

(* What the comments of the source say and the code does not do *)

\* "NOTIFY ... so sendToAgent resolves" (agent-channel.js:19): no caller
\* sleeps on a result that is stored and already notified.
NoSleepOnStoredResult ==
    \A c \in Cmds : caller[c] = "listening" /\ status[c] = "completed" =>
        \E m \in posts : m.cmd = c

\* "re-checks on NOTIFY or timeout" (agent-channel.js:16): without faults, a
\* poll whose hold timer fires returns empty only if no row that has been
\* notified is pending.
TimeoutRechecks ==
    [][\A p \in Polls :
         pollAt[p] = "holding" /\ pollAt'[p] = "idle" /\ inHand[p] = {} =>
             \A c \in Cmds : status[c] = "pending" => caller[c] = "inserted"]_vars
-----------------------------------------------------------------------------
(* Liveness under the fairness of timers, handlers and the agent *)

\* What the process and the agent do by themselves: every started handler
\* goes on, timers fire, the agent polls again.  Callers owe nothing, and no
\* failure is owed.
Fairness ==
    /\ \A c \in Cmds :
         /\ WF_vars(NotifyAgentCmd(c)) /\ WF_vars(ResultSubscribed(c))
         /\ WF_vars(GetCompletedResult(c)) /\ WF_vars(SendTimeout(c))
         /\ WF_vars(SubmitResult(c)) /\ WF_vars(ClaimExpires(c))
    /\ WF_vars(\E p \in Polls : PollArrives(p))
    /\ \A p \in Polls :
         /\ WF_vars(ExpireStaleClaims(p)) /\ WF_vars(StartHold(p))
         /\ WF_vars(CmdSubscribed(p)) /\ WF_vars(NothingOnNotify(p))
         /\ WF_vars(HoldExpires(p))
         /\ WF_vars(\E c \in Cmds : ClaimStep(p, c))
    /\ WF_vars(\E m \in posts : RespondStep(m))

FairSpec == Spec /\ Fairness

\* Every enqueued command is eventually completed, through any finite number
\* of crashes, restarts, lost messages and lost wakeups.
EventuallyCompleted ==
    \A c \in Cmds : status[c] = "pending" ~> status[c] = "completed"

\* waitForWork settles: whichever of the first claim, the callbacks and the
\* hold timer wins, and whatever became of the LISTEN, no poll hangs.
PollsAreAnswered ==
    \A p \in Polls : pollAt[p] = "arrived" ~> pollAt[p] \notin Open
=============================================================================
