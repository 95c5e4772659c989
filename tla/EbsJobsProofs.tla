---------------------------- MODULE EbsJobsProofs ----------------------------
(***************************************************************************)
(* Theorems about EbsJobs.  A behaviour of EbsJobs is one of AgentChannel, *)
(* so that the invariants proved there can be used here.                   *)
(***************************************************************************)
EXTENDS EbsJobs, AgentChannelProofs

\* Every handler of the jobs does to the channel what some step of it does.
LEMMA JobsStepIsChannelStep == [JobsNext]_ebsVars => [Next]_vars
  <1> SUFFICES ASSUME [JobsNext]_ebsVars PROVE Next \/ UNCHANGED vars
      OBVIOUS
  <1>1. ASSUME NEW c \in Detached, JobStep(c) PROVE Next \/ UNCHANGED vars
    <2>1. c \in Cmds
      BY ConstantsAssumption
    <2>2. CASE EnqueueJob(c)
      BY <2>1, <2>2 DEF EnqueueJob, Next, CommandStep
    <2>3. CASE ~EnqueueJob(c)
      BY <1>1, <2>3 DEF JobStep, CreateJob, StartJob, JobGrowsOld
    <2> QED BY <2>2, <2>3
  <1>2. ASSUME NEW r \in finishing, CompleteJob(r) PROVE UNCHANGED vars
    BY <1>2 DEF CompleteJob
  <1>3. ASSUME TimeoutStaleJobs PROVE UNCHANGED vars
    BY <1>3 DEF TimeoutStaleJobs
  <1>4. ASSUME NEW p \in Polls, NEW c \in Cmds, HandOut(p, c) PROVE Next
    BY <1>4 DEF HandOut, Next, ClaimStep
  <1>5. ASSUME NEW m \in posts, Responded(m) PROVE Next
    BY <1>5 DEF Responded, Next, RespondStep
  <1>6. ASSUME JobsRestart PROVE Next
    BY <1>6 DEF JobsRestart, Next, FailureStep
  <1>7. ASSUME ChannelStep PROVE Next
    BY <1>7
    DEF ChannelStep, Next, CommandStep, ClaimStep, RespondStep, FailureStep
  <1>8. CASE UNCHANGED ebsVars
    BY <1>8 DEF ebsVars
  <1> QED BY <1>1, <1>2, <1>3, <1>4, <1>5, <1>6, <1>7, <1>8 DEF JobsNext

\* The jobs use the channel and do not bend its rules: what is proved of every
\* behaviour of the channel holds under them.
THEOREM JobsUseChannel == JobsSpec => Spec
  <1>1. JobsInit => Init
    BY DEF JobsInit
  <1> QED BY <1>1, JobsStepIsChannelStep, PTL DEF JobsSpec, Spec
-----------------------------------------------------------------------------
(* What the jobs may rely on in the channel *)

\* A command that some agent was offered.
Offered(c) ==
    /\ status[c] # "absent"
    /\ status[c] \in {"claimed", "completed"} \/ lapsed[c] > 0

\* The history of a command only grows.
LEMMA HistoryGrows ==
  ASSUME IInv, [Next]_vars, NEW c \in Cmds
  PROVE  /\ runs'[c] \in Nat /\ runs[c] <= runs'[c]
         /\ Offered(c) => Offered(c)'
  <1> DEFINE Goal == /\ runs'[c] \in Nat /\ runs[c] <= runs'[c]
                     /\ Offered(c) => Offered(c)'
  <1> SUFFICES Goal
      OBVIOUS
  <1> USE DEF tableVars, agentVars, Offered
  <1> TypeOK /\ Known /\ Produced
    BY DEF IInv
  <1> runs[c] \in Nat /\ lapsed[c] \in Nat
    BY DEF TypeOK
  <1>1. ASSUME NEW d \in Cmds, CommandStep(d) PROVE Goal
    BY <1>1
    DEF CommandStep, EnqueueCommand, NotifyAgentCmd, ResultSubscribed,
        GetCompletedResult, SendTimeout, SubmitResult, ClaimExpires, Known,
        TypeOK
  <1>2. ASSUME NEW p \in Polls, PollStep(p) PROVE Goal
    <2>1. CASE ExpireStaleClaims(p)
      BY <2>1 DEF ExpireStaleClaims, Stale, TypeOK
    <2>2. CASE HoldExpires(p) \/ HoldExpiresInFlight(p)
      BY <2>2
      DEF HoldExpires, HoldExpiresInFlight, FinishEmpty, Respond, TypeOK
    <2>3. CASE \/ PollArrives(p) \/ StartHold(p) \/ CmdSubscribed(p)
               \/ NothingOnNotify(p)
      BY <2>3 DEF PollArrives, StartHold, CmdSubscribed, NothingOnNotify
    <2> QED BY <1>2, <2>1, <2>2, <2>3 DEF PollStep
  <1>3. ASSUME NEW p \in Polls, NEW d \in Cmds, ClaimStep(p, d) PROVE Goal
    <2>1. CASE ClaimAtOnce(p, d)
      <3>1. runs'[c] \in Nat /\ runs[c] <= runs'[c]
        BY <2>1 DEF ClaimAtOnce, Respond
      <3>2. UNCHANGED lapsed
        BY <2>1 DEF ClaimAtOnce
      <3>3. status' = [status EXCEPT ![d] = "claimed"]
        BY <2>1 DEF ClaimAtOnce, ClaimRow
      <3> QED BY <3>1, <3>2, <3>3 DEF TypeOK
    <2>2. CASE ClaimOnNotify(p, d)
      <3>1. UNCHANGED <<runs, lapsed>>
        BY <2>2 DEF ClaimOnNotify
      <3>2. status' = [status EXCEPT ![d] = "claimed"]
        BY <2>2 DEF ClaimOnNotify, ClaimRow
      <3> QED BY <3>1, <3>2 DEF TypeOK
    <2>3. CASE FinishWithWork(p, d)
      <3>1. runs'[c] \in Nat /\ runs[c] <= runs'[c]
        BY <2>3 DEF FinishWithWork, Respond
      <3>2. UNCHANGED <<status, lapsed>>
        BY <2>3 DEF FinishWithWork
      <3> QED BY <3>1, <3>2
    <2> QED BY <1>3, <2>1, <2>2, <2>3 DEF ClaimStep
  <1>4. ASSUME NEW m \in posts, RespondStep(m) PROVE Goal
    BY <1>4 DEF RespondStep, CompleteCommand, NotifyAgentResult, TypeOK
  <1>5. ASSUME FailureStep PROVE Goal
    BY <1>5 DEF FailureStep, AgentDropsWork, ListenClientError, CloudRestart
  <1>6. CASE UNCHANGED vars
    BY <1>6 DEF vars
  <1> QED BY <1>1, <1>2, <1>3, <1>4, <1>5, <1>6 DEF Next

\* The budget says it: a row that is pending again while a poll still holds it
\* must have lapsed.
LEMMA HeldWasOffered ==
  ASSUME IInv, NEW c \in Cmds, NEW p \in HeldBy(c)
  PROVE  Offered(c)
  <1> TypeOK /\ Known /\ Budget
    BY DEF IInv
  <1>1. status[c] \in {"pending", "claimed", "completed"}
    BY DEF Known, TypeOK
  <1>2. CASE status[c] = "pending"
    <2>1. Cardinality(HeldBy(c)) \in Nat /\ Cardinality(HeldBy(c)) # 0
      <3>1. IsFiniteSet(HeldBy(c))
        BY ConstantsAssumption, FS_Subset DEF HeldBy
      <3> QED BY <3>1, FS_CardinalityType, FS_EmptySet
    <2>2. runs[c] + Cardinality(HeldBy(c)) + 1 <= lapsed[c] + 1
      BY <1>2 DEF Budget, Claimable
    <2>3. runs[c] \in Nat /\ lapsed[c] \in Nat
      BY DEF TypeOK
    <2> QED BY <1>2, <2>1, <2>2, <2>3 DEF Offered
  <1> QED BY <1>1, <1>2 DEF Offered
-----------------------------------------------------------------------------
(* The inductive invariant of the jobs *)

\* A command is on its way to the queue, or there, only after its job is in the
\* table.
Admitted ==
    \A c \in Detached : c \in creating \/ status[c] # "absent" => job[c] # "none"

\* What is on its way to the table is true already, like what is in it.
Reported ==
    /\ \A r \in finishing : status[r.cmd] = "completed" /\ r.run \in 1..runs[r.cmd]
    /\ \A c \in starting : Offered(c)
    /\ \A c \in Detached : job[c] = "running" => Offered(c)
    /\ \A c \in Detached : job[c] = "done" => /\ status[c] = "completed"
                                              /\ outcome[c] \in 1..runs[c]

JInv == IInv /\ JobsTypeOK /\ Admitted /\ Reported

\* With no job started the invariant of the jobs holds.
LEMMA JobsInitJInv == JobsInit => JInv
  <1> SUFFICES ASSUME JobsInit PROVE JInv
      OBVIOUS
  <1>1. IInv /\ TypeOK
    BY InitIInv DEF JobsInit, IInv
  <1>2. JobsTypeOK
    BY <1>1 DEF JobsInit, JobsTypeOK
  <1>3. Admitted /\ Reported
    BY ConstantsAssumption DEF JobsInit, Init, Admitted, Reported
  <1> QED BY <1>1, <1>2, <1>3 DEF JInv

\* Every handler of the jobs keeps their types.
LEMMA JobsNextTypeOK == JInv /\ [JobsNext]_ebsVars => JobsTypeOK'
  <1> SUFFICES ASSUME JInv, [JobsNext]_ebsVars PROVE JobsTypeOK'
      OBVIOUS
  <1>0. TypeOK'
    BY JobsStepIsChannelStep, NextTypeOK DEF JInv, IInv
  <1> JobsTypeOK /\ posts \in SUBSET [cmd : Cmds, run : Nat, stored : BOOLEAN]
    BY DEF JInv, IInv, TypeOK
  <1> USE <1>0 DEF JobsTypeOK, jobVars
  <1>1. ASSUME NEW c \in Detached, JobStep(c) PROVE JobsTypeOK'
    BY <1>1 DEF JobStep, CreateJob, EnqueueJob, StartJob, JobGrowsOld
  <1>2. ASSUME NEW r \in finishing, CompleteJob(r) PROVE JobsTypeOK'
    BY <1>2 DEF CompleteJob
  <1>3. ASSUME TimeoutStaleJobs PROVE JobsTypeOK'
    BY <1>3 DEF TimeoutStaleJobs
  <1>4. ASSUME NEW p \in Polls, NEW c \in Cmds, HandOut(p, c) PROVE JobsTypeOK'
    BY <1>4 DEF HandOut
  <1>5. ASSUME NEW m \in posts, Responded(m) PROVE JobsTypeOK'
    <2>1. finishing' \in SUBSET [cmd : Detached, run : Nat]
      BY <1>5 DEF Responded
    <2> QED BY <1>5, <2>1 DEF Responded
  <1>6. ASSUME JobsRestart PROVE JobsTypeOK'
    BY <1>6 DEF JobsRestart
  <1>7. ASSUME ChannelStep PROVE JobsTypeOK'
    BY <1>7 DEF ChannelStep
  <1>8. CASE UNCHANGED ebsVars
    BY <1>8 DEF ebsVars
  <1> QED BY <1>1, <1>2, <1>3, <1>4, <1>5, <1>6, <1>7, <1>8 DEF JobsNext

\* A job is marked done only with a result its command row holds or held.
LEMMA JobsNextReported == JInv /\ [JobsNext]_ebsVars => Reported'
  <1> SUFFICES ASSUME JInv, [JobsNext]_ebsVars PROVE Reported'
      OBVIOUS
  <1> IInv /\ JobsTypeOK /\ Reported
    BY DEF JInv
  <1>t. Detached \subseteq Cmds
    BY ConstantsAssumption
  \* What the table may rely on stays true, whatever the step.
  <1>0. \A c \in Cmds : /\ runs[c] \in Nat /\ runs'[c] \in Nat /\ runs[c] <= runs'[c]
                        /\ Offered(c) => Offered(c)'
                        /\ status[c] = "completed" => status'[c] = "completed"
    BY JobsStepIsChannelStep, HistoryGrows, CompletedStays DEF IInv, TypeOK
  <1>a. \A r \in finishing : /\ r.cmd \in Detached /\ r.run \in Nat
                             /\ status'[r.cmd] = "completed"
                             /\ r.run \in 1..runs'[r.cmd]
    BY <1>t, <1>0 DEF Reported, JobsTypeOK
  <1>b. \A c \in Detached : /\ c \in starting => Offered(c)'
                            /\ job[c] = "running" => Offered(c)'
    BY <1>t, <1>0 DEF Reported
  <1>c. \A c \in Detached : job[c] = "done" => /\ status'[c] = "completed"
                                               /\ outcome[c] \in 1..runs'[c]
    BY <1>t, <1>0 DEF Reported, JobsTypeOK
  <1> USE DEF jobVars, JobsTypeOK, Reported
  <1>1. ASSUME NEW c \in Detached, JobStep(c) PROVE Reported'
    <2>1. CASE CreateJob(c)
      BY <1>a, <1>b, <1>c, <2>1 DEF CreateJob
    <2>2. CASE EnqueueJob(c)
      BY <1>a, <1>b, <1>c, <2>2 DEF EnqueueJob
    <2>3. CASE StartJob(c)
      BY <1>a, <1>b, <1>c, <2>3 DEF StartJob
    <2>4. CASE JobGrowsOld(c)
      BY <1>a, <1>b, <1>c, <2>4 DEF JobGrowsOld
    <2> QED BY <1>1, <2>1, <2>2, <2>3, <2>4 DEF JobStep
  <1>2. ASSUME NEW r \in finishing, CompleteJob(r) PROVE Reported'
    BY <1>a, <1>b, <1>c, <1>2 DEF CompleteJob
  <1>3. ASSUME TimeoutStaleJobs PROVE Reported'
    BY <1>a, <1>b, <1>c, <1>3 DEF TimeoutStaleJobs
  <1>4. ASSUME NEW p \in Polls, NEW c \in Cmds, HandOut(p, c) PROVE Reported'
    <2>1. Offered(c)'
      <3>1. CASE ClaimAtOnce(p, c)
        BY <3>1 DEF ClaimAtOnce, ClaimRow, Offered, IInv, TypeOK
      <3>2. CASE FinishWithWork(p, c)
        <4>1. p \in HeldBy(c)
          BY <3>2 DEF FinishWithWork, HeldBy
        <4>2. Offered(c)
          BY <4>1, HeldWasOffered
        <4> QED BY <1>0, <4>2
      <3> QED BY <1>4, <3>1, <3>2 DEF HandOut
    <2> QED BY <1>a, <1>b, <1>c, <1>4, <2>1 DEF HandOut
  <1>5. ASSUME NEW m \in posts, Responded(m) PROVE Reported'
    <2>1. /\ m.cmd \in Cmds /\ m.run \in 1..runs'[m.cmd]
          /\ status'[m.cmd] = "completed"
      BY <1>5
      DEF Responded, NotifyAgentResult, IInv, Produced, TypeOK, tableVars
    <2>2. \A r \in finishing' :
            r \in finishing \/ (r.cmd = m.cmd /\ r.run = m.run)
      BY <1>5 DEF Responded
    <2>3. starting' = starting /\ job' = job /\ outcome' = outcome
      BY <1>5 DEF Responded
    <2> QED BY <1>a, <1>b, <1>c, <2>1, <2>2, <2>3
  <1>6. ASSUME JobsRestart PROVE Reported'
    BY <1>a, <1>b, <1>c, <1>6 DEF JobsRestart
  <1>7. ASSUME ChannelStep PROVE Reported'
    BY <1>a, <1>b, <1>c, <1>7 DEF ChannelStep
  <1>8. CASE UNCHANGED ebsVars
    BY <1>a, <1>b, <1>c, <1>8 DEF ebsVars
  <1> QED BY <1>1, <1>2, <1>3, <1>4, <1>5, <1>6, <1>7, <1>8 DEF JobsNext

\* No handler puts the command of a job in the queue unless it created the job.
LEMMA OnlyCreatedEnqueued ==
  ASSUME JInv, [JobsNext]_ebsVars, NEW c \in Detached,
         status[c] = "absent", c \notin creating
  PROVE  status'[c] = "absent"
  <1> USE DEF tableVars
  <1> /\ TypeOK /\ Known /\ Produced
      /\ c \in Cmds
    BY ConstantsAssumption DEF JInv, IInv
  <1>1. ASSUME NEW d \in Detached, JobStep(d) PROVE status'[c] = "absent"
    <2>1. CASE EnqueueJob(d)
      BY <2>1 DEF EnqueueJob, EnqueueCommand, TypeOK
    <2>2. CASE CreateJob(d) \/ StartJob(d) \/ JobGrowsOld(d)
      BY <2>2 DEF CreateJob, StartJob, JobGrowsOld, vars
    <2> QED BY <1>1, <2>1, <2>2 DEF JobStep
  <1>2. ASSUME \/ \E r \in finishing : CompleteJob(r)
               \/ TimeoutStaleJobs
        PROVE  status'[c] = "absent"
    BY <1>2 DEF CompleteJob, TimeoutStaleJobs, vars
  <1>3. ASSUME NEW p \in Polls, NEW d \in Cmds, HandOut(p, d)
        PROVE  status'[c] = "absent"
    BY <1>3 DEF HandOut, ClaimAtOnce, ClaimRow, IsNext, FinishWithWork, TypeOK
  <1>4. ASSUME NEW m \in posts, Responded(m) PROVE status'[c] = "absent"
    BY <1>4 DEF Responded, NotifyAgentResult
  <1>5. ASSUME JobsRestart PROVE status'[c] = "absent"
    BY <1>5 DEF JobsRestart, CloudRestart
  <1>6. ASSUME ChannelStep PROVE status'[c] = "absent"
    <2>1. ASSUME NEW d \in Cmds \ Detached, EnqueueCommand(d)
          PROVE  status'[c] = "absent"
      BY <2>1 DEF EnqueueCommand, TypeOK
    <2>2. ASSUME NEW d \in Cmds,
                 \/ NotifyAgentCmd(d) \/ ResultSubscribed(d)
                 \/ GetCompletedResult(d) \/ SendTimeout(d)
                 \/ SubmitResult(d) \/ ClaimExpires(d)
          PROVE  status'[c] = "absent"
      BY <2>2
      DEF NotifyAgentCmd, ResultSubscribed, GetCompletedResult, SendTimeout,
          SubmitResult, ClaimExpires
    <2>3. ASSUME NEW p \in Polls, PollStep(p) PROVE status'[c] = "absent"
      BY <2>3
      DEF PollStep, PollArrives, ExpireStaleClaims, Stale, StartHold,
          CmdSubscribed, NothingOnNotify, HoldExpires, HoldExpiresInFlight,
          FinishEmpty
    <2>4. ASSUME NEW p \in Polls, NEW d \in Cmds, ClaimOnNotify(p, d)
          PROVE  status'[c] = "absent"
      BY <2>4 DEF ClaimOnNotify, ClaimRow, IsNext, TypeOK
    <2>5. ASSUME NEW m \in posts, CompleteCommand(m)
          PROVE  status'[c] = "absent"
      <3>1. m.cmd \in Cmds /\ m.run \in 1..runs[m.cmd]
        BY DEF Produced, TypeOK
      <3>2. m.cmd # c
        BY <3>1 DEF Known
      <3> QED BY <2>5, <3>1, <3>2 DEF CompleteCommand, TypeOK
    <2>6. ASSUME AgentDropsWork \/ ListenClientError
          PROVE  status'[c] = "absent"
      BY <2>6 DEF AgentDropsWork, ListenClientError
    <2> QED BY <1>6, <2>1, <2>2, <2>3, <2>4, <2>5, <2>6 DEF ChannelStep
  <1>7. CASE UNCHANGED ebsVars
    BY <1>7 DEF ebsVars, vars
  <1> QED BY <1>1, <1>2, <1>3, <1>4, <1>5, <1>6, <1>7 DEF JobsNext

\* A job that was created stays in the table, and only its handler enqueues.
LEMMA JobsNextAdmitted == JInv /\ [JobsNext]_ebsVars => Admitted'
  <1> SUFFICES ASSUME JInv, [JobsNext]_ebsVars, NEW c \in Detached
               PROVE  /\ job[c] # "none" => job'[c] # "none"
                      /\ c \in creating' => c \in creating \/ job'[c] # "none"
      BY OnlyCreatedEnqueued DEF JInv, Admitted
  <1> JobsTypeOK
    BY DEF JInv
  <1> USE DEF jobVars, JobsTypeOK
  <1>1. CASE \E d \in Detached : JobStep(d)
    BY <1>1 DEF JobStep, CreateJob, EnqueueJob, StartJob, JobGrowsOld
  <1>2. CASE \E r \in finishing : CompleteJob(r)
    BY <1>2 DEF CompleteJob
  <1>3. CASE TimeoutStaleJobs
    BY <1>3 DEF TimeoutStaleJobs
  <1>4. CASE \/ \E p \in Polls, d \in Cmds : HandOut(p, d)
             \/ \E m \in posts : Responded(m)
             \/ JobsRestart \/ ChannelStep
    BY <1>4 DEF HandOut, Responded, JobsRestart, ChannelStep
  <1>5. CASE UNCHANGED ebsVars
    BY <1>5 DEF ebsVars
  <1> QED BY <1>1, <1>2, <1>3, <1>4, <1>5 DEF JobsNext

\* The invariant of the jobs holds in every reachable state.
THEOREM JobsInductive == JobsSpec => []JInv
  <1>1. JInv /\ [JobsNext]_ebsVars => JInv'
    BY JobsStepIsChannelStep, NextIInv, JobsNextTypeOK, JobsNextAdmitted,
       JobsNextReported
    DEF JInv
  <1> QED BY <1>1, JobsInitJInv, PTL DEF JobsSpec

\* A job row keeps the type of its columns, whatever handlers and the watchdog
\* write to it late.
THEOREM JobsTypes == JobsSpec => []JobsTypeOK
  BY JobsInductive, PTL DEF JInv

\* A command on which no claim has lapsed has run once, so that whatever reports
\* a run of it reports the one that is stored.
LEMMA OnlyRun ==
  ASSUME IInv, NEW c \in Cmds, status[c] = "completed", lapsed[c] = 0,
         NEW n \in 1..runs[c]
  PROVE  n = result[c]
  <1>1. result[c] \in 1..runs[c]
    BY DEF IInv, Produced
  <1>2. runs[c] + Cardinality(HeldBy(c)) + 0 <= 0 + 1
    BY DEF IInv, Budget, Claimable
  <1>3. runs[c] \in Nat /\ Cardinality(HeldBy(c)) \in Nat
    BY HoldersCount DEF IInv, TypeOK, HeldBy
  <1> QED BY <1>1, <1>2, <1>3

\* A user who is told that a long operation is done is told the output of a
\* run of it that the command row holds or held, and holds it still unless a
\* claim on the command lapsed.
THEOREM JobsDone == JobsSpec => []DoneHasResult
  <1>1. JInv => DoneHasResult
    BY OnlyRun, ConstantsAssumption DEF JInv, Reported, DoneHasResult
  <1> QED BY <1>1, JobsInductive, PTL

\* A user who is told that it is running is told so of a command that an agent
\* was offered.
THEOREM JobsRunning == JobsSpec => []RunningWasHandedOut
  <1>1. JInv => RunningWasHandedOut
    BY DEF JInv, Reported, RunningWasHandedOut, Offered
  <1> QED BY <1>1, JobsInductive, PTL

\* Neither the late startJob of a handler nor the watchdog reopens or times
\* out a job that is done.
THEOREM JobsDoneFinal ==
  JobsSpec => [][\A c \in Detached : job[c] = "done" => job'[c] = "done"]_ebsVars
  <1>1. JInv /\ [JobsNext]_ebsVars =>
          [\A c \in Detached : job[c] = "done" => job'[c] = "done"]_ebsVars
    <2> SUFFICES ASSUME JInv, JobsNext, NEW c \in Detached, job[c] = "done"
                 PROVE  job'[c] = "done"
        OBVIOUS
    <2> job \in [Detached -> {"none", "queued", "running", "done", "timeout"}]
      BY DEF JInv, JobsTypeOK
    <2> finishing \in SUBSET [cmd : Detached, run : Nat]
      BY DEF JInv, JobsTypeOK
    <2>1. ASSUME NEW d \in Detached, JobStep(d) PROVE job'[c] = "done"
      BY <2>1 DEF JobStep, CreateJob, EnqueueJob, StartJob, JobGrowsOld
    <2>2. ASSUME NEW r \in finishing, CompleteJob(r) PROVE job'[c] = "done"
      BY <2>2 DEF CompleteJob
    <2>3. ASSUME TimeoutStaleJobs PROVE job'[c] = "done"
      BY <2>3 DEF TimeoutStaleJobs
    <2>4. ASSUME \/ \E p \in Polls, d \in Cmds : HandOut(p, d)
                 \/ \E m \in posts : Responded(m)
                 \/ JobsRestart \/ ChannelStep
          PROVE  job'[c] = "done"
      BY <2>4 DEF HandOut, Responded, JobsRestart, ChannelStep, jobVars
    <2> QED BY <2>1, <2>2, <2>3, <2>4 DEF JobsNext
  <1> QED BY <1>1, JobsInductive, PTL DEF JobsSpec
-----------------------------------------------------------------------------
(* The jobs implement DurableJobs *)

\* The commands of DurableJobs are those of DurableCommands.
LEMMA SameCommands ==
  /\ DC!Init => DJ!Init
  /\ DC!Next => DJ!Next
  /\ UNCHANGED DC!vars => UNCHANGED DJ!vars
  BY DEF DC!Init, DJ!Init, DC!vars, DJ!vars, DC!Next, DJ!Next,
         DC!Submit, DJ!Submit, DC!Run, DJ!Run, DC!Lapse, DJ!Lapse,
         DC!Store, DJ!Store, DC!Answer, DJ!Answer, DC!Close, DJ!Close

\* A step that leaves the channel alone leaves what is seen of it alone.
LEMMA SeenFrame == UNCHANGED vars => UNCHANGED DJ!vars
  BY DEF vars, tableVars, callerVars, agentVars, DJ!vars, PhaseSeen, ReplySeen

\* A handler that leaves the jobs table alone moves the commands at most, and
\* none of a job that was not created.
LEMMA HandlerMovesCommands ==
  ASSUME JInv, [JobsNext]_ebsVars, UNCHANGED <<job, outcome>>
  PROVE  DJ!JobsNext \/ UNCHANGED DJ!jobsVars
  <1>1. DJ!Next \/ UNCHANGED DJ!vars
    BY JobsStepIsChannelStep, NextRefines, SameCommands DEF JInv
  <1>2. ASSUME NEW c \in Detached, job[c] = "none"
        PROVE  PhaseSeen'[c] = "absent"
    <2>1. status'[c] = "absent"
      BY <1>2, OnlyCreatedEnqueued DEF JInv, Admitted
    <2> QED BY <2>1, ConstantsAssumption DEF PhaseSeen
  <1>3. CASE DJ!Next
    <2>1. DJ!CommandsMove
      BY <1>2, <1>3 DEF DJ!CommandsMove
    <2> QED BY <2>1 DEF DJ!JobsNext
  <1>4. CASE UNCHANGED DJ!vars
    BY <1>4 DEF DJ!jobsVars
  <1> QED BY <1>1, <1>3, <1>4

\* Every handler does to the jobs one step of DurableJobs, or none.
LEMMA JobsNextRefines == JInv /\ [JobsNext]_ebsVars => [DJ!JobsNext]_(DJ!jobsVars)
  <1> SUFFICES ASSUME JInv, [JobsNext]_ebsVars
               PROVE  DJ!JobsNext \/ UNCHANGED DJ!jobsVars
      OBVIOUS
  <1> /\ JobsTypeOK /\ Reported /\ IInv
      /\ Detached \subseteq Cmds
    BY ConstantsAssumption DEF JInv
  <1>1. ASSUME NEW c \in Detached, CreateJob(c) PROVE DJ!JobsNext
    <2>1. DJ!Create(c)
      BY <1>1, SeenFrame DEF CreateJob, DJ!Create
    <2> QED BY <2>1 DEF DJ!JobsNext
  <1>2. ASSUME NEW c \in Detached, StartJob(c), job[c] = "queued"
        PROVE  DJ!JobsNext
    <2>1. PhaseSeen[c] # "absent"
      BY <1>2 DEF StartJob, Reported, Offered, PhaseSeen
    <2>2. DJ!Start(c)
      BY <1>2, <2>1, SeenFrame DEF StartJob, DJ!Start
    <2> QED BY <2>2 DEF DJ!JobsNext
  <1>3. ASSUME NEW r \in finishing, CompleteJob(r) PROVE DJ!JobsNext
    <2> DEFINE c == r.cmd
               n == r.run
    <2>1. c \in Detached /\ n \in 1..runs[c] /\ status[c] = "completed"
      BY DEF JobsTypeOK, Reported
    <2>2. PhaseSeen[c] = "done"
      BY <2>1 DEF PhaseSeen
    <2>3. lapsed[c] = 0 => n = result[c]
      BY <2>1, OnlyRun
    <2>4. /\ job' = [job EXCEPT ![c] = "done"]
          /\ outcome' = [outcome EXCEPT ![c] = n]
          /\ UNCHANGED vars
      BY <1>3 DEF CompleteJob
    <2> HIDE DEF c, n
    <2>5. DJ!Report(c, n)
      BY <2>1, <2>2, <2>3, <2>4, SeenFrame DEF DJ!Report
    <2> QED BY <2>1, <2>5 DEF DJ!JobsNext
  <1>4. ASSUME TimeoutStaleJobs PROVE DJ!JobsNext
    <2> DEFINE S == {c \in stale : job[c] \in {"queued", "running"}}
    <2>1. /\ S \in SUBSET Detached
          /\ \A c \in S : job[c] \in {"queued", "running"}
          /\ job' = [c \in Detached |-> IF c \in S THEN "timeout" ELSE job[c]]
      BY <1>4 DEF TimeoutStaleJobs, JobsTypeOK
    <2>2. UNCHANGED <<vars, outcome>>
      BY <1>4 DEF TimeoutStaleJobs
    <2> HIDE DEF S
    <2>3. DJ!TimeOut(S)
      BY <2>1, <2>2, SeenFrame DEF DJ!TimeOut
    <2> QED BY <2>1, <2>3 DEF DJ!JobsNext
  <1>5. ASSUME \/ \E c \in Detached : \/ EnqueueJob(c) \/ JobGrowsOld(c)
                                      \/ StartJob(c) /\ job[c] # "queued"
               \/ \E p \in Polls, c \in Cmds : HandOut(p, c)
               \/ \E m \in posts : Responded(m)
               \/ JobsRestart \/ ChannelStep
               \/ UNCHANGED ebsVars
        PROVE  DJ!JobsNext \/ UNCHANGED DJ!jobsVars
    <2>1. UNCHANGED <<job, outcome>>
      BY <1>5
      DEF EnqueueJob, JobGrowsOld, StartJob, HandOut, Responded, JobsRestart,
          ChannelStep, ebsVars, jobVars, JobsTypeOK
    <2> QED BY <2>1, HandlerMovesCommands
  <1> QED BY <1>1, <1>2, <1>3, <1>4, <1>5 DEF JobsNext, JobStep

\* Whatever handlers, restarts and the watchdog do late, the user who polls a
\* job sees a behaviour of DurableJobs.
THEOREM JobsRefinement == JobsSpec => ImplementsDurableJobs
  <1>1. JobsInit => DJ!JobsInit
    <2>1. Init => DC!Init
      BY DEF Init, DC!Init, PhaseSeen, ReplySeen
    <2> QED BY <2>1, SameCommands DEF JobsInit, DJ!JobsInit
  <1> QED BY <1>1, JobsNextRefines, JobsInductive, PTL
          DEF JobsSpec, ImplementsDurableJobs, DJ!JobsSpec
=============================================================================
