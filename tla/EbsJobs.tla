------------------------------- MODULE EbsJobs -------------------------------
(***************************************************************************)
(* Long EBS operations (apps_stop_all, apps_start_all): the ebs_jobs table *)
(* of db/ebs-jobs.js on top of the command channel.  The request handler   *)
(* of routes/ebs-ops.js creates a job and enqueues a Detached command that *)
(* carries its id; the poll and respond handlers of routes/agent.js update *)
(* the job after the channel operation, without being waited for; a cron   *)
(* of server.js times out old jobs.                                        *)
(*                                                                         *)
(* A step of AgentChannel that such a handler contains is extended here    *)
(* with what the handler does to the job.                                  *)
(***************************************************************************)
EXTENDS AgentChannel

VARIABLES
    job,        \* status column of the job of each Detached command
    outcome,    \* the run its ok, stdout and exit_code come from; 0: none
    stale,      \* created_at < NOW() - 45 minutes
    creating,   \* handlers between createJob and enqueueCommand
    starting,   \* startJob calls in flight
    finishing   \* completeJob calls in flight

jobVars  == <<job, outcome, stale, creating, starting, finishing>>
ebsVars == <<vars, jobVars>>

JobsTypeOK ==
    /\ TypeOK
    /\ job \in [Detached -> {"none", "queued", "running", "done", "timeout"}]
    /\ outcome \in [Detached -> Nat]
    /\ stale \in SUBSET Detached
    /\ creating \in SUBSET Detached
    /\ starting \in SUBSET Detached
    /\ finishing \in SUBSET [cmd : Detached, run : Nat]

JobsInit ==
    /\ Init
    /\ job     = [c \in Detached |-> "none"]
    /\ outcome = [c \in Detached |-> 0]
    /\ stale = {} /\ creating = {} /\ starting = {} /\ finishing = {}
-----------------------------------------------------------------------------
(* The jobs table *)

CreateJob(c) ==
    /\ job[c] = "none"
    /\ job' = [job EXCEPT ![c] = "queued"]
    /\ creating' = creating \cup {c}
    /\ UNCHANGED <<vars, outcome, stale, starting, finishing>>

\* Mutant: startJob without its filter on the status.
StartJobAlways(c) ==
    /\ c \in starting
    /\ starting' = starting \ {c}
    /\ job' = [job EXCEPT ![c] = "running"]
    /\ UNCHANGED <<vars, outcome, stale, creating, finishing>>

\* UPDATE ... WHERE status = 'queued'.
StartJob(c) ==
    /\ c \in starting
    /\ starting' = starting \ {c}
    /\ job' = [job EXCEPT ![c] = IF @ = "queued" THEN "running" ELSE @]
    /\ UNCHANGED <<vars, outcome, stale, creating, finishing>>

\* Mutant: the word the command queue uses for the same thing.
CompleteJobMisspelt(r) ==
    /\ r \in finishing
    /\ finishing' = finishing \ {r}
    /\ job' = [job EXCEPT ![r.cmd] = "completed"]
    /\ outcome' = [outcome EXCEPT ![r.cmd] = r.run]
    /\ UNCHANGED <<vars, stale, creating, starting>>

\* UPDATE ... WHERE id = $1: whatever the job's status is.
CompleteJob(r) ==
    /\ r \in finishing
    /\ finishing' = finishing \ {r}
    /\ job' = [job EXCEPT ![r.cmd] = "done"]
    /\ outcome' = [outcome EXCEPT ![r.cmd] = r.run]
    /\ UNCHANGED <<vars, stale, creating, starting>>

\* 45 minutes have passed since createJob.
JobGrowsOld(c) ==
    /\ job[c] \in {"queued", "running"} /\ c \notin stale
    /\ stale' = stale \cup {c}
    /\ UNCHANGED <<vars, job, outcome, creating, starting, finishing>>

\* Mutant: the watchdog looks at running jobs only.
TimeoutRunningJobs ==
    /\ \E c \in stale : job[c] = "running"
    /\ job' = [c \in Detached |->
                 IF c \in stale /\ job[c] = "running" THEN "timeout" ELSE job[c]]
    /\ UNCHANGED <<vars, outcome, stale, creating, starting, finishing>>

TimeoutStaleJobs ==
    /\ \E c \in stale : job[c] \in {"queued", "running"}
    /\ job' = [c \in Detached |->
                 IF c \in stale /\ job[c] \in {"queued", "running"}
                 THEN "timeout" ELSE job[c]]
    /\ UNCHANGED <<vars, outcome, stale, creating, starting, finishing>>
-----------------------------------------------------------------------------
(* Handlers that contain a step of the channel *)

\* Mutant: the job is marked as running when its command is enqueued.
EnqueueStarts(c) ==
    /\ c \in creating
    /\ EnqueueCommand(c)
    /\ creating' = creating \ {c}
    /\ starting' = starting \cup {c}
    /\ UNCHANGED <<job, outcome, stale, finishing>>

\* POST middleware-run goes on with enqueueCommand for its job.
EnqueueJob(c) ==
    /\ c \in creating
    /\ EnqueueCommand(c)
    /\ creating' = creating \ {c}
    /\ UNCHANGED <<job, outcome, stale, starting, finishing>>

\* The poll handler got work: startJob, fire and forget, whether or not the
\* agent still waits for the response.
HandOut(p, c) ==
    /\ ClaimAtOnce(p, c) \/ FinishWithWork(p, c)
    /\ starting' = IF c \in Detached THEN starting \cup {c} ELSE starting
    /\ UNCHANGED <<job, outcome, stale, creating, finishing>>

\* Mutant: completeJob does not wait for deliverResult.
RespondedEarly(m) ==
    /\ finishing' = IF m.cmd \in Detached
                    THEN finishing \cup {[cmd |-> m.cmd, run |-> m.run]}
                    ELSE finishing
    /\ UNCHANGED <<vars, job, outcome, stale, creating, starting>>

\* The respond handler has answered: completeJob in setImmediate.
Responded(m) ==
    /\ NotifyAgentResult(m)
    /\ finishing' = IF m.cmd \in Detached
                    THEN finishing \cup {[cmd |-> m.cmd, run |-> m.run]}
                    ELSE finishing
    /\ UNCHANGED <<job, outcome, stale, creating, starting>>

\* A restart loses the handlers; the rows stay.
JobsRestart ==
    /\ CloudRestart
    /\ creating' = {} /\ starting' = {} /\ finishing' = {}
    /\ UNCHANGED <<job, outcome, stale>>

\* Every other step of the channel.
ChannelStep ==
    /\ \/ \E c \in Cmds \ Detached : EnqueueCommand(c)
       \/ \E c \in Cmds : \/ NotifyAgentCmd(c) \/ ResultSubscribed(c)
                          \/ GetCompletedResult(c) \/ SendTimeout(c)
                          \/ SubmitResult(c) \/ ClaimExpires(c)
       \/ \E p \in Polls : PollStep(p)
       \/ \E p \in Polls, c \in Cmds : ClaimOnNotify(p, c)
       \/ \E m \in posts : CompleteCommand(m)
       \/ AgentDropsWork
       \/ ListenClientError
    /\ UNCHANGED jobVars

JobStep(c) == CreateJob(c) \/ EnqueueJob(c) \/ StartJob(c) \/ JobGrowsOld(c)

JobsNext ==
    \/ \E c \in Detached : JobStep(c)
    \/ \E r \in finishing : CompleteJob(r)
    \/ TimeoutStaleJobs
    \/ \E p \in Polls, c \in Cmds : HandOut(p, c)
    \/ \E m \in posts : Responded(m)
    \/ JobsRestart
    \/ ChannelStep

JobsSpec == JobsInit /\ [][JobsNext]_ebsVars
-----------------------------------------------------------------------------
(* Safety *)

\* A job is done only on the output of a run of its command, which is stored
\* with the command by then: completeJob never runs ahead of deliverResult.
\* Job and command show the same output unless a claim on the command lapsed:
\* only then can two runs be reported, in different orders to the two tables.
DoneHasResult ==
    \A c \in Detached : job[c] = "done" =>
        /\ status[c] = "completed" /\ outcome[c] \in 1..runs[c]
        /\ lapsed[c] = 0 => outcome[c] = result[c]

\* The user is not told "running" about a command that no agent was offered.
RunningWasHandedOut ==
    \A c \in Detached : job[c] = "running" =>
        status[c] \in {"claimed", "completed"} \/ lapsed[c] > 0

\* What DurableJobs promises to the user who polls the job: neither a late
\* startJob nor the watchdog takes back what was shown, and no command runs
\* without a job to report to.
DJ == INSTANCE DurableJobs WITH
        Jobs <- Detached, shown <- outcome,
        phase <- PhaseSeen, outcome <- result, extra <- lapsed,
        reply <- ReplySeen
ImplementsDurableJobs == DJ!JobsSpec
-----------------------------------------------------------------------------
(* Liveness: the fairness of the channel, and of the job updates and the cron *)

JobsFairness ==
    /\ \A c \in Detached : WF_ebsVars(StartJob(c)) /\ WF_ebsVars(JobGrowsOld(c))
    /\ WF_ebsVars(\E r \in finishing : CompleteJob(r))
    /\ WF_ebsVars(TimeoutStaleJobs)

JobsFairSpec == JobsSpec /\ JobsFairness

\* Whatever is lost on the way - the handler between the two inserts, the
\* agent, the result, the completeJob after it - the user who polls the job
\* is told an end of it.
JobsSettle ==
    \A c \in Detached : job[c] = "queued" ~> job[c] \in {"done", "timeout"}
=============================================================================
