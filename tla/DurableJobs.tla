----------------------------- MODULE DurableJobs -----------------------------
(***************************************************************************)
(* What the ebs_jobs table promises to a user who polls a long operation,  *)
(* on top of what the channel promises: a job is created before its        *)
(* command, its status only goes forward, a time-out included that a late  *)
(* result overrules, and what it shows is the output of a run of its       *)
(* completed command - the command's own output unless the command was     *)
(* delivered again.                                                        *)
(***************************************************************************)
EXTENDS DurableCommands

CONSTANT Jobs           \* the commands that carry a job

VARIABLES job,          \* none, queued, running, done or timeout
          shown         \* the run whose output the job shows, 0: none

jobsVars == <<vars, job, shown>>

JobsInit ==
    /\ Init
    /\ job   = [j \in Jobs |-> "none"]
    /\ shown = [j \in Jobs |-> 0]

Create(j) ==
    /\ job[j] = "none"
    /\ job' = [job EXCEPT ![j] = "queued"]
    /\ UNCHANGED <<vars, shown>>

Start(j) ==
    /\ job[j] = "queued" /\ phase[j] # "absent"
    /\ job' = [job EXCEPT ![j] = "running"]
    /\ UNCHANGED <<vars, shown>>

\* Also over a time-out, and over an earlier report.
Report(j, n) ==
    /\ phase[j] = "done" /\ n \in 1..runs[j]
    /\ extra[j] = 0 => n = outcome[j]
    /\ job' = [job EXCEPT ![j] = "done"]
    /\ shown' = [shown EXCEPT ![j] = n]
    /\ UNCHANGED vars

TimeOut(S) ==
    /\ \A j \in S : job[j] \in {"queued", "running"}
    /\ job' = [j \in Jobs |-> IF j \in S THEN "timeout" ELSE job[j]]
    /\ UNCHANGED <<vars, shown>>

\* A step of the commands; the command of a job that was not created is not
\* submitted.
CommandsMove ==
    /\ Next
    /\ \A j \in Jobs : job[j] = "none" => phase'[j] = "absent"
    /\ UNCHANGED <<job, shown>>

JobsNext ==
    \/ \E j \in Jobs : Create(j) \/ Start(j)
    \/ \E j \in Jobs : \E n \in 1..runs[j] : Report(j, n)
    \/ \E S \in SUBSET Jobs : TimeOut(S)
    \/ CommandsMove

JobsSpec == JobsInit /\ [][JobsNext]_jobsVars
=============================================================================
