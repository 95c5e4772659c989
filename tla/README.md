# TuneVault in TLA+

TuneVault manages Oracle databases and E-Business Suites that it cannot reach
directly. A Node/Express process in the cloud (`server.js`, one instance, on
Postgres) talks to an agent that the customer installs next to the database.
This directory holds models of the parts of the system in which *order* decides
what happens, the TLC configurations that check them on small instances, and
proofs that hold for every instance. Paths below are those of the repository.

- [Running it](#running-it)
- [Inventory](#inventory): the system's parts, modelled or not
- [Plan](#plan)
- [AgentChannel](#agentchannel-the-durable-command-channel) /
  [EbsJobs](#ebsjobs-long-operations-on-top-of-the-channel) /
  [SshPool](#sshpool-pooled-ssh-clients) /
  [KeyRotation and AgentUpgrades](#keyrotation-and-agentupgrades-what-a-poll-decides) /
  [TicketEngine](#ticketengine-findings-become-tickets) /
  [Billing](#billing-plans-credits-and-caps) /
  [Alerts](#alerts-what-follows-a-health-check)
- [What the checks found](#what-the-checks-found)
- [Proofs](#proofs)
- [Fairness](#fairness)
- [What is only model-checked](#what-is-only-model-checked)
- [Not modelled](#not-modelled)

## Running it

    tlc -workers 2 -config AgentChannel.cfg MCAgentChannel.tla
    tlapm AgentChannelProofs.tla

| Run | Module | Config | Question |
|---|---|---|---|
| `channel` | MCAgentChannel | AgentChannel.cfg | Do races for a command respect the delivery budget, are answers real results, does only a lost race leak a callback, does the channel implement DurableCommands? |
| `channel_live` | MCAgentChannel | AgentChannelLive.cfg | Is every command completed and every poll answered, whatever one fault destroys? |
| `channel_sleep` | MCAgentChannel | AgentChannelSleep.cfg | Can a caller sleep on a stored result? (it can) |
| `channel_recheck` | MCAgentChannel | AgentChannelRecheck.cfg | Is a pending row looked for again at the timeout? (it is not) |
| `ebs_jobs` | MCEbsJobs | EbsJobs.cfg | Does a job tell the truth about its command, does the table implement DurableJobs, and does every job end? |
| `ssh_pool` | MCSshPool | SshPool.cfg | Is the pool bounded, open and free of leaks of its own making? |
| `ssh_pool_evict` | MCSshPool | SshPoolEvict.cfg | Are clients with replaced settings evicted? (they are not) |
| `agent_upgrades` | MCAgentUpgrades | AgentUpgrades.cfg | Is an agent cut off only by a late or overlapping rotation, and what do the rails of automatic upgrades bound? |
| `tickets` | MCTicketEngine | TicketEngine.cfg | Do findings and tickets correspond, whatever users, failures and overlapping runs do during a run? |
| `billing` | MCBilling | Billing.cfg | Does every plan, credit and free check have its payment or its count? |
| `alerts` | MCAlerts | Alerts.cfg | Is a worsening alerted about, and | `alerts` | MCAlerts | Alerts.cfg | Is the alert for a worsening ever taken for decided before it is, and does an event go through its chain, from its second step on, in order and to the end? |
| `alerts_chain` | MCAlerts | AlertsChain.cfg | Is everyone in an escalation chain notified in the end? (the first step never is) |

## Inventory

State is in Postgres unless a column says *memory*: what is in memory is lost
when the process restarts, and everything between two `await`s is one step.

| Component | State | Operations | Interacts with | What is hard | What makes it correct |
|---|---|---|---|---|---|
| **Agent command channel** `services/agent-channel.js`, `db/agent-command-queue.js` | `agent_command_queue` rows; *memory*: `_listeners`, the LISTEN client, pending promises and timers | `sendToAgent`, `enqueueCommand`, `waitForWork`, `deliverResult`, claim, complete, expire | Agent API, every feature that runs something on premises; Postgres NOTIFY | polls, callbacks, timers and restarts race for one row; NOTIFY is lossy; LISTEN is set up across awaits | no command lost, none delivered more often than claims lapse, answers are real, no poll hangs |
| **Agent poll loop** `agent/poll.py` | *memory of the agent*: what it executes, back-off, watchdog tier | poll, execute, respond; self-upgrade, key rotation | Agent API | never retries a respond; dies at any point | always polls again |
| **Agent HTTP API** `routes/agent.js`, `db/agent.js` | registration tokens, tunnels, heartbeats | register, confirm, poll, respond, heartbeat, uninstall, restore | channel, upgrades, EBS jobs | fire-and-forget work after the response; two valid keys | a tunnel has one owner; state follows the last heartbeat |
| **Long EBS operations** `routes/ebs-ops.js`, `db/ebs-jobs.js` | `ebs_jobs` | create, start, complete, watchdog | channel, respond handler | job updates are not awaited; the watchdog races them | the job never claims more than happened; it ends |
| **SSH client pool** `services/oracle-runner.js` | *memory*: a Map of ssh2 clients | get, touch, evict (LRU, idle, settings), events of a client | Oracle checks, SSH settings | cap checked before an asynchronous connect; late events of old clients | pooled clients are open, bounded in number, and use current settings |
| **Key rotation** `routes/key-rotation.js` | current and previous key, grace deadline | rotate, verify | agent API, channel | the command that carries the key is durable, the grace window is 5 min | the agent is locked out only by a late or overlapping rotation |
| **Agent upgrades** `db/agent-upgrade-audit.js` | upgrade rows | evaluate at poll, complete, fail | channel, heartbeat | check-then-insert in a fire-and-forget; unconditional final marks | attempts and upgrades in flight are bounded |
| **Restart-loop detection** `db/agent-restart-events.js` | restart events, a flag | report, clear at poll | agent API | flag set and cleared by unordered steps | a looping agent stays flagged |
| **TuneOps tickets** `services/tuneops-ticket-engine.js`, `db/tuneops-tickets.js` | tickets, events | create or link, confirm, execute, resolve, acknowledge, reopen, auto-resolve | health checks, users | find-then-create; number read-then-insert; users act during a run; runs overlap | at most as many tickets of a finding as runs overlapped; legal transitions |
| **Scheduled findings** `services/schedule-runner.js` | finding history, last alert | upsert, delta, alert | health checks, mail | record before alert; 6 h suppression; failed sends | a worsening is reported once |
| **Alert policies** `services/alert-policy-evaluator.js` | open events, escalation step | evaluate, advance, resolve | health checks, mail | check-then-insert; crash between notify and advance | one open event per policy; steps in order |
| **Install jobs** `routes/install-jobs.js`, `db/install-jobs.js` | jobs, log lines; *memory*: worker | create under caps, status, log, stream | SSH | worker dies with the process; replay against live lines | a job ends; caps hold |
| **Payments and credits** `db/payments.js` | credits, subscriptions | capture, decrement, scheduled change | payment provider | repeated captures against decrements | credits are neither lost nor minted |
| **Tier caps** `middleware/tier-enforce.js` | counts | check, then insert | every create route | check and insert apart | the cap holds |
| **Oracle worker** `agent/oracle_worker.py` | *memory of the agent*: driver mode | connect, fall back to thick, retry | poll loop | one-way mode switch | a retry uses the right mode |
| **First run and outreach locks**, **authentication, MFA, SSO**, **other agent programs** (`cli.py`, `bootstrap.py`, `probes.py`, `oracle-proxy.py`), **Oracle and EBS checks**, **SSH executor and consoles**, **EBS control and runbooks**, **mail** | mostly none between calls | | | guarded single updates, cryptography, parsers, sequential scripts over the channel | |
| **Web server and crons** `server.js` | timers | start, crons | all | a restart loses every promise and timer | what must survive is in a row |

`PROJECT.json` repeats this list with the status of each part, and lists the
hazards of the code at the lines where they bite.

## Plan

Ordered by what the system depends on most. Each step is a component, its MC
module and its proofs; all of them are done.

1. **AgentChannel** refining **DurableCommands**; **AgentChannelProofs**.
2. **EbsJobs**, composed with AgentChannel, refining **DurableJobs**; **EbsJobsProofs**.
3. **SshPool**; **SshPoolProofs**.
4. **TicketEngine** refining **TicketLifecycle**; **TicketEngineProofs**.
5. **Billing**: orders, plan changes, credits, quotas, caps; **BillingProofs**.
6. **Alerts**: finding history, alert policies, escalation; **AlertsProofs**.
7. **KeyRotation**; **KeyRotationProofs**.
8. **AgentUpgrades**, composed with KeyRotation; **AgentUpgradesProofs**.

Four parts of the inventory were weighed for a module and left out: install
jobs, restart loops, the Oracle worker, and registration of a tunnel.
[Not modelled](#not-modelled) says why.

## AgentChannel: the durable command channel

`AgentChannel.tla` models `services/agent-channel.js` over
`db/agent-command-queue.js`, the `/poll` and `/respond` handlers of
`routes/agent.js`, and the single-threaded loop of `agent/poll.py`, for one
agent.

**State.** A command is a row (`status`, `overdue` for an expired claim,
`result`, `queue` for the order of `enqueued_at`) with one caller: of
`sendToAgent`, or of `enqueueCommand` for the `Detached` ones. A result is the
number of the run that produced it, which is what tells a real answer from a
made-up or a foreign one. A poll slot is one POST `/api/agent/poll` with its
`waitForWork` promise (`pollAt`), the claims its NOTIFY callbacks have in flight
(`wakeups`) and the rows they got (`inHand`); it is reused when nothing refers to
it any more. The LISTEN client is three facts: which callbacks are in the set
(`hooked`), whether the channel has an entry in `_listeners` (`registered`), and
whether Postgres really delivers to the current client (`listening`). The agent
waits for a poll, executes, or posts. `runs` and `lapsed` are history.

**Actions.** One per stretch of code between two awaits.

| Code | Actions |
|---|---|
| `sendToAgent`, `enqueueCommand` | `EnqueueCommand`, `NotifyAgentCmd`, `ResultSubscribed`, `GetCompletedResult`, `SendTimeout` |
| POST `/poll`, `waitForWork` | `PollArrives`, `ExpireStaleClaims`, `ClaimAtOnce` or `StartHold`, `CmdSubscribed`, `ClaimOnNotify` or `NothingOnNotify`, `FinishWithWork`, `HoldExpires`, `HoldExpiresInFlight` |
| POST `/respond`, `deliverResult` | `CompleteCommand`, `NotifyAgentResult` |
| `run_poll_loop` | `PollArrives`, `Respond` (the agent's half of an answer), `SubmitResult` |
| time, failures | `ClaimExpires`, `AgentDropsWork`, `ListenClientError`, `CloudRestart` |

`HoldExpiresInFlight` is the timer of `waitForWork` firing while a claim or the
LISTEN itself is in flight. In the second case `unsub` is not yet assigned, so
the callback is added to a poll that has already answered and stays there: such
a leaked callback later claims one row for nobody. It is counted as a fault
because it needs a 25 s timer to fire inside a query.

**Abstractions.** NOTIFY is delivered with `pg_notify` unless a LISTEN is in
flight, when it may fall on either side; a later delivery only adds a claim
attempt. A database error at an await ends like a lost message, a timeout or a
restart, which are there. `upsertChannelState` and the queue metrics only feed
the 30-second online check and the dashboard. Deleting a connection (which
cascades to its rows) is not modelled. `failCommand` has no caller, so `status`
never becomes `failed`. A failed `connect()` of the LISTEN client may leave a
dead client behind, depending on a private field of the driver; this is listed
as a hazard and not modelled. The requests of an agent that died go on in the cloud
(`AgentDropsWork`) and overlap with those of its successor; two live agents on one
connection are not modelled.

**Abstract specification.** `DurableCommands.tla` says what the rest of the cloud
relies on, without polls, claims, listeners or processes: a command is queued
once; it runs once, and once more per extra delivery; what is stored is the
output of one of its runs; an answer is the stored result, or the caller is let
go without one. `DC` in AgentChannel is the refinement mapping: a pending or
claimed row is *queued*, `extra` is the number of lapsed claims.

**Properties.** `BoundedRedelivery`: runs plus rows in hand never exceed lapsed
claims plus one, whatever polls, callbacks and requests of a dead agent race for
the row. `AnswerIsARun`: `sendToAgent` resolves only with the output of a run of
its own command, so the fallback branch of its callback (an empty 200) is dead
code. `HookedIsRegistered`: an UNLISTEN never silences a hooked poll's entry.
`LeaksAreLostRaces`: a callback stays in `_listeners` for nobody only when a hold
timer fired inside its LISTEN; no other way out of `waitForWork` leaves one.
`EventuallyCompleted` and `PollsAreAnswered` are the liveness of the queue and of
`waitForWork`.

**Bounds.** `channel`: a waiting and a detached command, 3 polls, 2 faults, polls
symmetric; about 1.2 million states. Three polls are two that hold at the same
time plus a leaked one; two faults are a restart and a lost message, or two
leaked callbacks. A slot whose callback leaked is never free again, hence the
assumption that there are more polls than faults: by the theorem `Leaks` some slot
is then always free of them.
`channel_live`: 2 commands, 2 polls, 1 fault and no symmetry, which would not be
sound for liveness; about 100 000 states. `MaxFaults` bounds crashes, lost
messages and lost races together. Nothing else needs a bound: a command is enqueued
once, and it takes a fault, or a second row claimed by one poll, for a claim to lapse
and the command to run again.

**Fairness.** Weak fairness of every started handler, timer and claim deadline,
and of the agent polling when it is idle: event loop, timers and the endless loop
of the agent, which a supervisor restarts. Callers owe no request and no failure
is owed. The fairness of the claim is per poll, over the commands.

## EbsJobs: long operations on top of the channel

`EbsJobs.tla` EXTENDS AgentChannel: a handler that contains a step of the channel
is that step plus what it does to the job. `POST middleware-run` is `CreateJob`
then `EnqueueJob`; the poll handler's `startJob`, which it does not await, is put
in `starting` by `HandOut` and applied by `StartJob`; the respond handler's
`setImmediate` is `Responded` and `CompleteJob`; the cron of `server.js` is
`JobGrowsOld` (45 minutes) and `TimeoutStaleJobs`. A restart loses what is
between two steps (`JobsRestart`). `ChannelStep` is every other step of the
channel. The agent-online gate before `createJob` is left out, and a failing
`enqueueCommand` is the restart between the two inserts.

The result that a job shows may be that of an earlier run than the one stored,
after a redelivery; `completeJob` also turns a timed-out job into a done one when
its command, still pending, runs later. No document says otherwise, so both are
in the model and neither is a finding.

**Abstract specification.** `DurableJobs.tla` EXTENDS DurableCommands with the table a
user polls: a job is created before its command, its status only goes forward, a
report overrules a time-out, and `done` shows the output of a run of a completed
command, the stored one unless the command was delivered again. The mapping is
that of the channel, with `outcome` for what is shown.

`DoneHasResult`: a done job carries the output of a run, of a command completed by
then, and the very output that the command stores unless a claim of it lapsed.
`RunningWasHandedOut`: "running" is never shown for a command that was not
offered. `ImplementsDurableJobs`: among other things, neither a late `startJob` nor
the watchdog takes "done" back, and a job is never started before its command is
in the queue.
`JobsSettle`: every queued job ends, whatever is lost; only the watchdog and the
job updates are fair here, so it does not depend on any agent.

Bounds: a job and an ordinary command, 2 polls, 1 fault (the restart between any
two steps); about 750 000 states. A second job would only repeat the first: the
statements name one row, except the watchdog's, which treats rows alike.

## SshPool: pooled SSH clients

`SshPool.tla` models the Map of `services/oracle-runner.js` with its iteration
order (`before`; the LRU entry is the first one), the callers of `getSshClient`,
the events of the ssh2 clients, the reaper, and the handler of
`routes/ssh-connectivity.js` that saves settings and evicts. A caller reads its
row (`LoadRow`), then takes a pooled client (`UsePooled`) or makes room and
connects (`StartConnect`, `DecryptFails` when the key cannot be decrypted). The
entry is made only at `'ready'` (`Ready`). `'error'` and `'close'` delete the
entry of the *connection*, whichever client it names (`ClientError`, `Closed`).
`staleRow` and `outdated` track who works with replaced settings.

Keys matter: `Ids` are the integers of `oracle_connections.id`; `PathParam(i)` is
the string in the URL. A JavaScript Map does not convert, and so neither does the
model.

Abstractions: client events are the environment, in any order ssh2 can produce
(before `'ready'` a failure is always an `'error'`: its 15-second timer). Commands
last at most 30 s and the reaper waits 5 minutes, so `Reap` never takes a client
in use; LRU eviction and settings eviction may. A restart is the initial state.
The command lines and the parsing of their output are left out.

`OvershootIsBounded`: the cap is checked when a connect starts and the entry is
made when it ends, so `MAX_SSH_POOL_SIZE` is exceeded, but pool and connects in
progress stay below the cap plus the number of concurrent callers. (The header of
`tests/ssh-pool-lru.test.js` claims the cap itself, for the sequential
insertions it makes.) `PooledIsOpen`: `getSshClient` never finds a client that is
closed or belongs to another connection, in spite of late events.
`DroppedOnlyByRace`: an open client leaves the pool unclosed only because another
client of the same connection replaced it or died; LRU, reaper and settings never
leak one.

Bounds: 3 connections, 2 callers, 3 clients, cap 1, all symmetric; about a million
states. Two callers overshoot the cap, two clients of one connection make the
late-event races, and the third client is being evicted at the same time.

## KeyRotation and AgentUpgrades: what a poll decides

`KeyRotation.tla` models a rotation of the API key of one connection:
`routes/key-rotation.js`, `rotateConnectionKey` and `ackKeyRotation` of
`db/agent.js`, the key check in front of `/poll` and `/respond`, and
`_handle_rotate_key` of `agent/poll.py`. Keys are numbered as they are generated,
0 being the one of the installation, so the previous key is always the one
before the current. The command of a rotation is a row of the queue of
AgentChannel, reduced to what a rotation can tell apart; wake-ups and the races
inside a request are modelled there. A poll reverts claims that have lapsed, so a
rotation can be executed twice. A poll with a key that is refused gets a 403 and
changes nothing. `SetKeyByHand` is `tunevault-agent rotate-key`.

Two history variables state under which condition a property is claimed:
`hurried`, a rotation was made while another was pending, and `late`, the grace
window closed before the agent had the key.

`AgentUpgrades.tla` EXTENDS KeyRotation with `evaluateAutoUpgrade`, which every
accepted poll (`PollAndEvaluate`) and heartbeat (`Heartbeat`) starts and does not
await. Its awaits are steps: `CountFailures`, `CheckActive`, `InsertAudit`,
`MarkInProgress`, or `CompleteOnHeartbeat` once the agent is at the target. A
restart is one of both modules (`Restart`). The promise of the command settles
either way at any time (`SendSettles`); the cron fails rows that are still in
flight after ten minutes (`ExpireTimedOut`), which none whose promise is pending
can be, as that ends after 320 s. Audit rows to which nothing refers any more are
reused, so that no bound on their number is needed beyond what is in flight.
`autoUpgrade` is chosen at the start. Left out: a row in flight for over six
hours (a server down for that long), a target raised by a deployment, the manual
route and the legacy proxy upgrades.

`AcknowledgedHasKey`: "acknowledged" means that the agent has the current key,
though answers are lost, late or repeated, as long as rotations do not overlap.
`CutOffOnlyWhenLate`: redeliveries, failed writes, lost answers and restarts alone
never lock the agent out. `AttemptsAreBounded`: the limit of recent failures and
the search for an active row are read apart and lock nothing; what counts as a
failure or may still become one stays below the limit plus two per overlapping
evaluation. Even evaluations one after another exceed the limit by one, because
failures are counted before the active row is looked for, and a row may fail in
between. `UpgradesAtOnce`: no more upgrades are active than evaluations overlap,
although marks are unconditional and revive rows that were finished.

Bounds: 3 rotations, 2 faults, 2 evaluations, a limit of 1, and 5 rows, the limit
plus two per evaluation, of which `InsertAudit` always finds a spare one
(`InsertFindsRow`); rows and evaluations are symmetric; about
257 000 states. Three rotations are two that overlap and a later one. Connections
that upgrade automatically do not rotate in this instance
(`MaxUpgradingRotations` is 0), because the product of both parts is some ten
times larger; they share the accepted key and the restart, and the theorems hold
for every value.

## TicketEngine: findings become tickets

`TicketEngine.tla` models `services/tuneops-ticket-engine.js`,
`db/tuneops-tickets.js` and the routes of `routes/tuneops.js` that change a
ticket, for one connection of one company. A health check that completes starts
a run of the engine and does not wait for it (`HealthCheckCompletes`); nothing
keeps two health checks of a connection apart, so `engine` holds several runs,
each with the data it carries over its awaits. One await at a time, a run reads the
findings (`LoadResults`), looks for the open ticket of each
(`FindOpenByCanonicalKey`) and worsens it (`WorsenSeverity`), or for a resolved one
(`FindResolvedByCanonicalKey`) and reopens it (`ReopenTicket`), or reads a number
(`ReadNumber`) and creates one (`CreateTicket`); at the end it selects the open
tickets whose finding it did not see (`SelectOpenTickets`) and resolves them
(`AutoResolveByCanonicalKey`, once for each ticket selected, all tickets of its
finding each time). Users confirm, acknowledge, execute and resolve tickets at any
time, and create one by hand, which competes for the same number. Any query of a run
may fail and ends it (`EngineFails`), and so does a restart.

What `LoadResults` sees is arbitrary. The rows are read once; the transaction that
stores those of the run's own health check is not awaited, others come from
overlapping runs, and of all of them the last 200 count. The properties are
therefore about what a run *saw*.

Two variables are history: `overlap`, the most runs that were ever under way at
once, and `alone`, which no run joining keeps true. The statements are:

- `DuplicatesAreBounded`: a finding has at most `overlap` tickets. Runs that look
  for a ticket together create one each; after that every run finds one, so
  duplicates do not add up, and without overlap there are none.
- `NumbersInOrder`: no gap and no repetition although number and insert are apart.
- `ReportedHasTicket`: a run that was alone left no finding it saw without a
  ticket, unless a user resolved it; `ClearedIsClosed`: it left open only tickets
  of findings it saw, or being executed. With another run neither holds: that one
  may have seen other rows, and clears or reopens on them.
- `SeverityOnlyRises`, except for `LateReopen`: `reopenTicket` updates by id
  whatever the status is by then. A run that found the ticket resolved may set it
  back to REOPENED, with its own severity, after another run reopened it and a user
  confirmed it or is executing its fix.
- `FollowsLifecycle`.

**Abstract specification.** `TicketLifecycle.tla` is the state machine that
`routes/tuneops.js` promises: which moves a user may make, which a health check,
and no other. `serial` is true until two runs have overlapped. From then on
`Reopen` may take a ticket from CONFIRMED, ACKNOWLEDGED or EXECUTING, and `Clear`
may resolve several tickets, the duplicates, in one step. The refinement mapping
shows a ticket that the engine resolved (no `resolved_by`) as CLEARED.

Bounds: one finding, two runs, one ticket by hand; runs are interchangeable
(`EngineSymmetry`), about 670 000 states. Findings share nothing but the numbers,
which the ticket by hand competes for already; two runs are enough for a duplicate,
a late reopening and a race of clearing and creating. The theorems hold for any number.
Left out: comments, the event log, demo tickets, statistics.

## Billing: plans, credits and caps

`Billing.tla` models one user's purchases (`routes/payments.js`, `db/payments.js`),
scheduled plan changes, and the two checks in front of a health check: the
monthly cap (`middleware/tier-enforce.js`) and the quota (`checkUserHCLimit` of
`server.js`). Money arrives at the gateway (`GatewayCaptures`); the browser
(`VerifyPayment`) and the webhook (`WebhookPaymentCaptured`, then `WebhookMarks`)
report it, in any order and more than once; `ActivatePlan` is the last step of
both. A capture that could not be activated is logged for people to look at
(`LogReconciliation`), a step of its own that may fail like any other.
`ApplyDue` is what every page that shows the plan does first. Health checks of
the scheduler, the first run and an instance write rows that count but ask
nobody (`RunScheduledHealthCheck`). `paid`, `unlocked`, `ran` and `lost` are
history.

A missing row of `user_credits` reads like a free plan without checks; the flag
`cancel_at_period_end` is a change to "free"; a date is only due or not. Failed
queries and restarts may end any request between two awaits. A check that is
refused after its debit (a 4xx) keeps the debit (`RefuseConnection`); a row without
a saved connection is not counted.

`NoPlanWithoutPayment`: nobody who has paid nothing at the gateway holds a paid plan
or a scheduled change, through any order of reports. It says nothing of which plan:
the code does not compare ranks when it schedules a "downgrade". `CreditsAddUp`:
checks left plus those debited since the last credit are the plan's, although read
and decrement are apart. `FreeQuotaIsExact`: the counter is incremented first and
set back when it was over, and no overlap of requests lets one more check
through. It is the quota of the user's life: the code calls it monthly, but nothing
resets it (`MonthBegins` leaves it alone). `CapOvershootIsBounded`: count and insert
are apart, so the requests that ask exceed the cap, by less than there are of them.
The checks nobody asked about, and those let through when the count fails
(the code is fail-open), come on top, so on all checks of a month there is no bound.
`CapturedIsNotForgotten`: an order that is captured is unlocked, being credited or
logged, on record, or was lost by a restart or a log that failed. The record of the
webhook names no order: the property says that there is one, not that it is found
by its order (`named`).

Bounds: a legacy tier and a team tier, caps of 1, 1 and 2, 1 order, 1 subscription,
2 requests, free limit 1, 1 check that does not ask, 1 fault; about 9.7 million
states. Two requests make every check-then-act race; a second order only repeats the
first; one check that does not ask is enough to fill a cap of 1. A log may fail
without a further fault, in the outage that brought the request there.
Left out: prices, statuses of a subscription, e-mails, invoices, the route
`/payments/downgrade`, which only logs.

## Alerts: what follows a health check

`Alerts.tla` models `services/schedule-runner.js`, `db/schedules.js`,
`services/alert-policy-evaluator.js` and `db/alert-policies.js`. A run compares the
findings with the history (`SelectFinding`, `UpsertFinding`,
`ResolveStaleFindings`), looks at the 6-hour window (`WasAlertRecentlySent`),
sends and records; evaluates the policies of the connection (`Evaluate`, then
`ResolveEvent`, or `CreateEvent`, `Notify`, `StartEscalation`); and finally
escalates what is due in all connections (`GetDueEscalations`, `NotifyStep`,
`Advance`, `ClearEscalationTimer`). Runs overlap at every await. `Begin` takes any
rows: the query reads the last 200 of all runs, and the transaction that stores
those of this one is not awaited. Timers and the window pass when the clock says
so; users acknowledge; the policy may be off. `settled`, `outdated` and `forgotten`
are history: the severities of a finding no alert is due for, since it last
resolved; the runs that read a finding before it resolved; events whose run failed
before it set the timer.

`NoSeverityForgotten`: since an open finding last resolved, the alert for its
severity has been decided (sent, or withheld by the window or a failure) or will be
by a run in progress; it never becomes known before. The window is that of the
schedule: an alert for one finding withholds those for others and for a worsening,
and nothing makes up for them. The other exception is an outdated run: its UPDATE goes by the id of
a row that was resolved and reopened meanwhile, and makes no alert.
`NoStepSkipped`: each step of the chain is notified after the policy's first notice
and after the steps from 1 to the one before it, though a stale run sets the step
back. `EscalationNotForgotten`: an open event has had its first notice and the steps
from 1 on, has a timer, or its creator is at work or failed. Both speak of the steps
after step 0, since step 0 is never notified and a chain of one step notifies
nobody: the run `alerts_chain` shows it. `DuplicatesAreBounded`: look-up and insert
of an event are apart; overlapping runs trigger at most one each.

Bounds: 1 finding with severities 0 to 2, chains of 0, 1 or 3 steps, 2 runs,
2 events, 1 fault; about 7 million states. Two events are one per run; a chain of
three steps is the shortest in which one can be skipped; a second key would repeat the
first, as every query names one. `alerts_chain` needs 1 run, 1 event, chains of
1 or 2 steps and no fault.
Left out: edits of schedules and policies, the metrics, the channels.

## What the checks found

Four runs look for a violation; each traces to a comment, or a page's text, that the
code does not keep.
Details are in `PROJECT.json` under "findings".

- `services/agent-channel.js:153`: `sendToAgent` notifies the agent, then LISTENs
  for the result, and does not read the row afterwards. A fast agent's result
  finds nobody; the caller sleeps until its timeout although the command is
  completed (line 19: "so sendToAgent resolves").
- `services/agent-channel.js:213`: the hold timer returns empty without another
  claim, and a command notified between the first claim and LISTEN wakes nobody
  (line 16: "re-checks on NOTIFY or timeout"). The next poll claims it, so
  `EventuallyCompleted` holds: the cost is the rest of the hold.
- `routes/ssh-connectivity.js:274`: `evictSshPool(req.params.id)` looks for a
  string among integer keys and evicts nothing (line 273: "so next query
  re-connects with new creds").
- `services/alert-policy-evaluator.js:208`: an escalation begins with
  `escalation_step + 1`, and the step of a new event is 0, so nobody hears of
  `escalation_chain[0]`: its delay is waited for, and step 1 is notified. A
  chain of one step, like that of the default policy for tablespaces, notifies
  nobody (`public/settings-alerts.html:257`: "Notify additional channels if alert
  isn't acknowledged after a delay").

The other runs pass. While writing their modules, these comments turned out not
to be kept either. No run is devoted to them, since the models contain the
behaviour and the properties are stated so that they hold in spite of it:

- `services/agent-channel.js:69`: after an error of the LISTEN client the channel
  "will reconnect on next call". When the client fails while a poll subscribes,
  LISTEN rejects and leaves an empty entry in `_listeners` (line 86). The next poll
  finds the entry, adds its callback without a LISTEN and is not woken until its
  hold is over; it takes the entry away, and the poll after it LISTENs.
- `server.js:2319` and `server.js:2537`: 5 free checks "this month". No statement
  resets either counter (`hc_count` of a company or of a user), so they are 5 for ever.
- `middleware/tier-enforce.js`: the cap counts all checks of the month that are not
  demos. Scheduled checks (`server.js:7552`), first runs and checks of an instance
  are counted, and are written without asking for the cap.
- `db/payments.js:212`: the reconciliation log "provides a record for manual
  review". It is an insert of its own whose failure only reaches the console, in
  the very outage it is for, and the webhook's row names no order.
- `routes/payments.js:921`: a "downgrade" may name a higher plan, which then comes
  at the end of the period without a payment: ranks are not compared.
- `db/schedules.js:242`: the window is for "this (connection_id, finding_key,
  severity)". The query asks for the schedule only, so a worsening within 6 hours of
  any alert is never mailed.
- `server.js:5360`: the monitoring delta "runs after persist so check_results are
  available". Persisting is not awaited: the delta, and the ticket engine below
  it, may read the rows of the run before.
- `db/tuneops-tickets.js:84`: finding the open ticket is "used for dedup". Runs that
  overlap find none and create one each; a comment there also names two of the five
  statuses that count as open. `db/tuneops-tickets.js:292`: `reopenTicket` reopens "a
  RESOLVED ticket", but does not ask for the status: a late run takes one that is being
  executed back to REOPENED, past "Status transitions enforce valid state machine"
  (`routes/tuneops.js`).
- `routes/key-rotation.js:96`: a timeout is not fatal, the agent "will pick up the
  new key on its next poll". Not after the five minutes of grace, nor after a
  second rotation: its poll is refused.
- `routes/key-rotation.js:15` names a route `/rotate-key/ack` that does not exist;
  an answer later than 30 s leaves the status pending. The answer to an older
  command acknowledges the latest rotation. When rotations overlap, an older
  command that is delivered again sets the old key back.
- `routes/payments.js:809`: activation "also clears any scheduled change".
  `activatePlan` leaves it, so it is applied to the plan just bought.
- `routes/payments.js:567`: `payment.captured` is "idempotent". The status is read
  before it is written, so reports that overlap, and a browser that repeats its
  request, credit the plan anew. A restart between the mark and the activation
  loses the plan: the webhook then skips a payment that is marked, and nothing is logged.
- `routes/payments.js:754`: the "actual tier change follows" the webhook of a
  cancelled subscription, which changes the status of the subscription only.
- `db/payments.js:27` and `server.js:2365`: per-connection tiers are unlimited in
  one and have the free quota in the other.
- `services/schedule-runner.js:184`: policies are evaluated "independently", but
  the returns above skip them when there is no schedule, no delta, or the window
  suppresses the alert.
- `db/alert-policies.js:202`: "don't re-trigger if already open". Overlapping runs
  trigger once each, and likewise exceed the one alert per window;
  `advanceEscalation` revives an event that was acknowledged or resolved
  meanwhile.

## Proofs

TLAPS proves, for any constants that satisfy the assumptions (finite sets; more
polls than faults; a cap of at least one):

**AgentChannelProofs.** `TypeCorrect`; then the inductive invariant
`IInv = TypeOK /\ Known /\ Budget /\ Produced /\ Answered` (`Inductive`).
`BoundedRedelivery` alone is not inductive: a pending row may still be claimed, so
`Budget` counts it as one delivery to come (`Claimable`) next to the runs and the
rows in hand. `Known` rules out traces of a command that was never enqueued;
`Produced` carries a result from the run to the post to the row; `Answered` says
that a caller that was woken finds a completed row, which is what makes the
fallback dead code. From it follow `Redelivery`, `Answers` and `Finality` (a completed row is never
claimed again); `Listeners` is inductive by itself. `Leaks` needs `Hooks`: an idle slot that
is hooked, or one still subscribing after its poll has answered, is never reused,
so leaked slots grow only in the step that counts a fault. `Refinement` maps each action to a step of
DurableCommands or a stutter; a handed-out command is within the abstract budget
because the poll's row in hand is counted in `Budget`.

**EbsJobsProofs.** `JobsUseChannel`: every behaviour of the jobs is one of the
channel, so all of the above carries over. `JInv` adds `Reported`: what is on its
way to the jobs table (`starting`, `finishing`) is true already, and stays true
because runs and lapses only grow; a report whose command never lapsed carries
the stored output, because that command ran once. `Admitted` says that a command
with a job is not enqueued before the job. `JobsDone`, `JobsRunning` and
`JobsDoneFinal` (a done job stays done) follow, and `JobsRefinement`: each step is
one of DurableJobs, those of the channel being the moves of its commands.

**SshPoolProofs.** `PoolInv` adds three facts to `PooledIsOpen`: a caller beyond
`idle` names a connection (`Targeted`), a client that is not closed has a host
(`Hosted`), and a connecting client is awaited by a caller (`Awaited`).
The bound is proved with a pigeonhole lemma (`HoldersBound`): connecting clients are
no more than the callers that hold them, and the caller about to connect holds
none yet, so after an eviction there is room for it.

**KeyRotationProofs** and **AgentUpgradesProofs.** `AcknowledgedHasKey` and
`CutOffOnlyWhenLate` are not inductive. `KeyInv` adds what every answer on its way
is about (`AnswersRotation`), and while no rotation was hurried `InStep`: commands of
earlier rotations are over, a caller about to acknowledge and the answer being
posted confirm the current key, and the agent is at most one key behind
(`RotationsHold`). `UpgradesKeepRotation` shows that each behaviour of the
composition is one of KeyRotation, so both carry over to it (`AcknowledgedIsHeld`,
`NotCutOffInTime`). For the upgrades, `Facts` says which row an evaluation at which
place holds, and that before the upgrade a pending promise means an active row;
`Bounds` are three bounds on cardinalities, proved together because
each is kept at an insert by the guard that another one gives. `InsertFindsRow`
follows from them: the rows of a large enough stock are never all referred to. They use lemmas on
finite sets: no more rows are to be marked than evaluations mark one (`FewMarked`).

**TicketEngineProofs.** The bound on duplicates is not inductive: it says nothing of
the runs that have found no ticket and will create one. `Counted` counts them with
the tickets, twice over: tickets and the runs about to create one (`Creating`), and
open tickets and the runs that found none (`Seeking`), are each at most `overlap`. A run joins
`Seeking` when there is no open ticket, so that only runs are counted, which
`Joined` bounds; it joins `Creating` when no ticket is resolved, so that all are
open and the second bound gives the first; a ticket that is created or reopened
replaces a run in both (`Handed`). `Holding` says that what a run holds is a ticket
of its finding, resolved or reopened since; `Reporting` and `Closing` are the two
statements about the end of a run, extended to a run in progress that is alone
(`Undisturbed`); `Numbering` bounds the numbers read by the number of tickets. One lemma per
action shows what is left after `StepKeeps`, which deals with the other runs.
`Resolvers`, a ticket that is not resolved names no user, is needed for the
refinement (`ImplementsLifecycle`); that `serial` leaves one ticket to clear is the
bound on duplicates again.

**BillingProofs.** `Facts` (a due change is scheduled; the free counter covers the
checks let through and the requests about to set it back, and exceeds the former
only at the limit; what is being credited was paid for; what is being bought is a
paid plan), with `Entitled` (whoever is about to schedule a change has had a plan), gives
`FreeQuota`, `Credits` and `PlansArePaid`. `CapturedPayments` is inductive by itself:
a request that leaves the activation or the log (`Handling`) has credited, recorded
or lost its order (`Settled`), and what is settled stays so. `CapInv`
counts the rows and the requests past the cap together and takes off the
checks that were let through unchecked or never asked (`CapOvershoot`).

**AlertsProofs.** `Covered` extends `NoSeverityForgotten` to what a run has read but
not stored, unless the run is outdated; `Paced` bounds the steps that events and
stale batches hold by the first notice and the steps already notified (`UpTo`);
`Cared` accounts for each event without a timer; `ResolvedOnce`
keeps an event that was once resolved out of the count, even when it is revived.

Each invariant was first checked by TLC as an invariant of the same instances.

## Fairness

Only the specifications of AgentChannel and EbsJobs state fairness, for the runs
`channel_live` and `ebs_jobs`; the sections above say why the code justifies it.
The other modules make no liveness claim, because their code owes nothing of the
kind. `runDueEscalations` has no timer of its own and runs only when some health
check completes, so an escalation that is due may wait for ever. A payment lost
between two steps is put right only by people, from the reconciliation log. A
ticket is closed by the next health check, if there is one. A rotation that is not
picked up is repeated only by its user, and an upgrade is retried only while the
agent polls. What these modules state instead is that nothing which is still owed
is forgotten: a timer, a log entry or a run in progress accounts for it.

## What is only model-checked

Liveness (`EventuallyCompleted`, `PollsAreAnswered`, `JobsSettle`): the prover does
not handle fairness. The four violated properties, by their counterexamples.
Every invariant, action property and refinement of a passing run is also a theorem.

## Not modelled

- **Install jobs**: creation counts, compares and inserts, the race that
  `CapOvershootIsBounded` covers in Billing; the worker is a sequential installer
  over SSH that dies with the process. No code recovers such a job, so there are
  no steps to check (the hazard is listed).
- **Restart loops**: a count after an insert and a flag that each poll clears. A
  flag set late lasts until the next poll and only shows a banner.
- **Oracle worker**: one thread that connects, falls back to thick mode and
  retries; its outcome is decided by driver errors, and only its status is used.
- **Registration, uninstall, restore** of an agent: single writes of one request.
- **Crons other than the job watchdog, first-run and outreach locks**: single
  guarded updates.
- **Authentication, MFA, SSO**: checks within one request, and cryptography.
- **Oracle and EBS checks, SSH executor, EBS control, runbooks, mail, other agent
  programs, pages, demo data and seed scripts**: queries, parsers, classification
  rules, templates and sequential scripts without state between calls. They are
  most of the code by length, and what they need of the rest of the system is the
  channel and the pool, which are modelled. Two servers on one database, or two
  agents on one connection, are outside every module: the code is deployed as one
  instance.
