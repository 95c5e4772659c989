------------------------- MODULE AgentChannelProofs -------------------------
(***************************************************************************)
(* Theorems about AgentChannel, for every set of commands, every finite    *)
(* number of poll slots and every fault budget below it.                   *)
(***************************************************************************)
EXTENDS AgentChannel, FiniteSetTheorems, TLAPS

-----------------------------------------------------------------------------
(* Type correctness *)

\* The empty channel is well typed.
LEMMA InitTypeOK == Init => TypeOK
  <1> SUFFICES ASSUME Init PROVE TypeOK
      OBVIOUS
  <1> USE DEF Init, CallerPhases, PollPhases
  <1>1. /\ status  \in [Cmds -> {"absent", "pending", "claimed", "completed"}]
        /\ overdue \in [Cmds -> BOOLEAN]
        /\ result  \in [Cmds -> Nat]
        /\ queue   \in Seq(Cmds)
        /\ caller  \in [Cmds -> CallerPhases]
        /\ answer  \in [Cmds -> Nat]
    OBVIOUS
  <1>2. /\ pollAt  \in [Polls -> PollPhases]
        /\ wakeups \in [Polls -> Nat]
        /\ inHand  \in [Polls -> SUBSET Cmds]
    OBVIOUS
  <1>3. /\ hooked \in SUBSET Polls
        /\ registered \in BOOLEAN
        /\ listening  \in BOOLEAN
        /\ posts \in SUBSET [cmd : Cmds, run : Nat, stored : BOOLEAN]
        /\ awaiting  \in SUBSET Polls
        /\ executing \in SUBSET Cmds
        /\ posting   \in SUBSET Cmds
    OBVIOUS
  <1>4. /\ runs   \in [Cmds -> Nat]
        /\ lapsed \in [Cmds -> Nat]
        /\ faults \in 0..MaxFaults
    BY ConstantsAssumption
  <1> QED BY <1>1, <1>2, <1>3, <1>4 DEF TypeOK

\* Spending one of the allowed faults keeps the count within MaxFaults.
LEMMA FaultInBounds ==
  ASSUME faults \in 0..MaxFaults, Fault
  PROVE  faults' \in 0..MaxFaults
  BY ConstantsAssumption DEF Fault

\* Every handler, restart and lost message keeps the types.
LEMMA NextTypeOK == TypeOK /\ [Next]_vars => TypeOK'
  <1> SUFFICES ASSUME TypeOK, [Next]_vars PROVE TypeOK'
      OBVIOUS
  <1> USE DEF TypeOK, tableVars, callerVars, pollVars, listenVars, agentVars,
              CallerPhases, PollPhases
  <1>1. ASSUME NEW c \in Cmds, CommandStep(c) PROVE TypeOK'
    <2>1. CASE EnqueueCommand(c)
      BY <2>1 DEF EnqueueCommand
    <2>2. CASE NotifyAgentCmd(c)
      BY <2>2 DEF NotifyAgentCmd
    <2>3. CASE ResultSubscribed(c)
      BY <2>3 DEF ResultSubscribed
    <2>4. CASE GetCompletedResult(c)
      BY <2>4 DEF GetCompletedResult
    <2>5. CASE SendTimeout(c)
      BY <2>5 DEF SendTimeout
    <2>6. CASE SubmitResult(c)
      <3>1. [cmd |-> c, run |-> runs[c], stored |-> FALSE]
              \in [cmd : Cmds, run : Nat, stored : BOOLEAN]
        OBVIOUS
      <3>2. posts' \in SUBSET [cmd : Cmds, run : Nat, stored : BOOLEAN]
        BY <2>6, <3>1 DEF SubmitResult
      <3> QED BY <2>6, <3>2 DEF SubmitResult
    <2>7. CASE ClaimExpires(c)
      BY <2>7 DEF ClaimExpires
    <2> QED BY <1>1, <2>1, <2>2, <2>3, <2>4, <2>5, <2>6, <2>7 DEF CommandStep
  <1>2. ASSUME NEW p \in Polls, PollStep(p) PROVE TypeOK'
    <2>1. CASE PollArrives(p)
      BY <2>1 DEF PollArrives
    <2>2. CASE ExpireStaleClaims(p)
      <3>1. /\ status' \in [Cmds -> {"absent", "pending", "claimed", "completed"}]
            /\ lapsed' \in [Cmds -> Nat]
        BY <2>2 DEF ExpireStaleClaims
      <3>2. overdue' \in [Cmds -> BOOLEAN]
        BY <2>2, Zenon DEF ExpireStaleClaims
      <3>3. pollAt' \in [Polls -> PollPhases]
        BY <2>2 DEF ExpireStaleClaims
      <3> QED BY <2>2, <3>1, <3>2, <3>3 DEF ExpireStaleClaims
    <2>3. CASE StartHold(p)
      BY <2>3 DEF StartHold
    <2>4. CASE CmdSubscribed(p)
      BY <2>4 DEF CmdSubscribed
    <2>5. CASE NothingOnNotify(p)
      BY <2>5 DEF NothingOnNotify
    <2>6. CASE HoldExpires(p)
      BY <2>6 DEF HoldExpires, FinishEmpty, Respond, Unsubscribe
    <2>7. CASE HoldExpiresInFlight(p)
      <3>1. faults' \in 0..MaxFaults
        BY <2>7, FaultInBounds DEF HoldExpiresInFlight
      <3>2. pollAt' \in [Polls -> PollPhases]
        BY <2>7 DEF HoldExpiresInFlight
      <3> QED
        BY <2>7, <3>1, <3>2
        DEF HoldExpiresInFlight, FinishEmpty, Respond, Unsubscribe
    <2> QED BY <1>2, <2>1, <2>2, <2>3, <2>4, <2>5, <2>6, <2>7 DEF PollStep
  <1>3. ASSUME NEW p \in Polls, NEW c \in Cmds, ClaimStep(p, c) PROVE TypeOK'
    <2>1. CASE ClaimAtOnce(p, c)
      <3>1. /\ awaiting' \in SUBSET Polls /\ executing' \in SUBSET Cmds
            /\ runs' \in [Cmds -> Nat] /\ posting' = posting
        BY <2>1 DEF ClaimAtOnce, Respond
      <3>2. pollAt' \in [Polls -> PollPhases]
        BY <2>1 DEF ClaimAtOnce
      <3> QED BY <2>1, <3>1, <3>2 DEF ClaimAtOnce, ClaimRow
    <2>2. CASE ClaimOnNotify(p, c)
      <3>1. inHand' \in [Polls -> SUBSET Cmds]
        BY <2>2 DEF ClaimOnNotify
      <3>2. wakeups' \in [Polls -> Nat]
        BY <2>2 DEF ClaimOnNotify
      <3> QED
        BY <2>2, <3>1, <3>2 DEF ClaimOnNotify, ClaimRow, Unsubscribe
    <2>3. CASE FinishWithWork(p, c)
      <3>1. /\ awaiting' \in SUBSET Polls /\ executing' \in SUBSET Cmds
            /\ runs' \in [Cmds -> Nat] /\ posting' = posting
        BY <2>3 DEF FinishWithWork, Respond
      <3>2. /\ pollAt' \in [Polls -> PollPhases]
            /\ inHand' \in [Polls -> SUBSET Cmds]
        BY <2>3 DEF FinishWithWork
      <3> QED BY <2>3, <3>1, <3>2 DEF FinishWithWork
    <2> QED BY <1>3, <2>1, <2>2, <2>3 DEF ClaimStep
  <1>4. ASSUME NEW m \in posts, RespondStep(m) PROVE TypeOK'
    <2>1. CASE CompleteCommand(m)
      BY <2>1 DEF CompleteCommand
    <2>2. CASE NotifyAgentResult(m)
      BY <2>2 DEF NotifyAgentResult
    <2> QED BY <1>4, <2>1, <2>2 DEF RespondStep
  <1>5. ASSUME FailureStep PROVE TypeOK'
    <2>1. CASE AgentDropsWork
      BY <2>1, FaultInBounds DEF AgentDropsWork
    <2>2. CASE ListenClientError
      <3>1. faults' \in 0..MaxFaults
        BY <2>2, FaultInBounds DEF ListenClientError
      <3>2. pollAt' \in [Polls -> PollPhases]
        BY <2>2 DEF ListenClientError
      <3>3. caller' \in [Cmds -> CallerPhases]
        BY <2>2 DEF ListenClientError
      <3> QED BY <2>2, <3>1, <3>2, <3>3 DEF ListenClientError
    <2>3. CASE CloudRestart
      <3>1. faults' \in 0..MaxFaults
        BY <2>3, FaultInBounds DEF CloudRestart
      <3>2. caller' \in [Cmds -> CallerPhases]
        BY <2>3 DEF CloudRestart
      <3> QED BY <2>3, <3>1, <3>2 DEF CloudRestart
    <2> QED BY <1>5, <2>1, <2>2, <2>3 DEF FailureStep
  <1>6. CASE UNCHANGED vars
    BY <1>6 DEF vars
  <1> QED BY <1>1, <1>2, <1>3, <1>4, <1>5, <1>6 DEF Next

\* Every variable keeps its type in every reachable state.
THEOREM TypeCorrect == Spec => []TypeOK
  BY InitTypeOK, NextTypeOK, PTL DEF Spec
-----------------------------------------------------------------------------
(* The inductive invariant *)

\* A command that was not enqueued has left no trace.
Known ==
    \A c \in Cmds :
        /\ status[c] = "absent" <=> caller[c] = "idle"
        /\ status[c] = "absent" => runs[c] = 0 /\ HeldBy(c) = {}

\* A row that may still be claimed is worth one delivery, like a claim in the
\* hands of a poll: only a lapsed claim adds to the sum.
Claimable(c) == IF status[c] \in {"absent", "pending"} THEN 1 ELSE 0
Budget ==
    \A c \in Cmds :
        runs[c] + Cardinality(HeldBy(c)) + Claimable(c) <= lapsed[c] + 1

\* Whatever is executed, posted or stored comes from a run.
Produced ==
    /\ \A c \in executing : runs[c] >= 1
    /\ \A m \in posts : /\ m.run \in 1..runs[m.cmd]
                        /\ m.stored => status[m.cmd] = "completed"
    /\ \A c \in Cmds : status[c] = "completed" => result[c] \in 1..runs[c]

\* A caller that was woken finds a completed row.
Answered ==
    \A c \in Cmds :
        /\ caller[c] = "fetching" => status[c] = "completed"
        /\ caller[c] = "resolved" => /\ status[c] = "completed"
                                     /\ answer[c] \in 1..runs[c]

IInv == TypeOK /\ Known /\ Budget /\ Produced /\ Answered

\* The polls that hold a command are finitely many.
LEMMA HoldersCount ==
  ASSUME NEW S \in SUBSET Polls
  PROVE  /\ Cardinality(S) \in Nat
         /\ \A T \in SUBSET S : Cardinality(T) <= Cardinality(S)
         /\ \A p \in Polls : Cardinality(S \cup {p}) <= Cardinality(S) + 1
         /\ \A p \in S : Cardinality(S \ {p}) = Cardinality(S) - 1
  <1>1. IsFiniteSet(S)
    BY ConstantsAssumption, FS_Subset
  <1>2. Cardinality(S) \in Nat
    BY <1>1, FS_CardinalityType
  <1>3. \A T \in SUBSET S : Cardinality(T) <= Cardinality(S)
    BY <1>1, FS_Subset
  <1>4. \A p \in Polls : Cardinality(S \cup {p}) <= Cardinality(S) + 1
    BY <1>1, <1>2, FS_AddElement
  <1>5. \A p \in S : Cardinality(S \ {p}) = Cardinality(S) - 1
    BY <1>1, FS_RemoveElement
  <1> QED BY <1>2, <1>3, <1>4, <1>5

\* With nothing enqueued the inductive invariant holds.
LEMMA InitIInv == Init => IInv
  <1> SUFFICES ASSUME Init PROVE IInv
      OBVIOUS
  <1>1. TypeOK
    BY InitTypeOK
  <1>2. \A c \in Cmds : HeldBy(c) = {}
    BY DEF Init, HeldBy
  <1>3. Known
    BY <1>2 DEF Init, Known
  <1>4. Budget
    <2> SUFFICES ASSUME NEW c \in Cmds
                 PROVE  runs[c] + Cardinality(HeldBy(c)) + Claimable(c)
                            <= lapsed[c] + 1
        BY DEF Budget
    <2>1. runs[c] = 0 /\ lapsed[c] = 0 /\ Claimable(c) = 1
      BY DEF Init, Claimable
    <2>2. Cardinality(HeldBy(c)) = 0
      BY <1>2, FS_EmptySet
    <2> QED BY <2>1, <2>2
  <1>5. Produced /\ Answered
    BY DEF Init, Produced, Answered
  <1> QED BY <1>1, <1>3, <1>4, <1>5 DEF IInv

\* No step refers to a command that was never enqueued.
LEMMA NextKnown == IInv /\ [Next]_vars => Known'
  <1> SUFFICES ASSUME IInv, [Next]_vars PROVE Known'
      OBVIOUS
  <1> USE DEF IInv, Known, HeldBy, tableVars, callerVars, pollVars, listenVars,
              agentVars
  <1>1. ASSUME NEW c \in Cmds, CommandStep(c) PROVE Known'
    <2>1. CASE EnqueueCommand(c)
      BY <2>1 DEF EnqueueCommand, TypeOK
    <2>2. CASE NotifyAgentCmd(c)
      BY <2>2 DEF NotifyAgentCmd, TypeOK
    <2>3. CASE ResultSubscribed(c)
      BY <2>3 DEF ResultSubscribed, TypeOK
    <2>4. CASE GetCompletedResult(c)
      BY <2>4 DEF GetCompletedResult, TypeOK
    <2>5. CASE SendTimeout(c)
      BY <2>5 DEF SendTimeout, Waiting, TypeOK
    <2>6. CASE SubmitResult(c) \/ ClaimExpires(c)
      BY <2>6 DEF SubmitResult, ClaimExpires
    <2> QED BY <1>1, <2>1, <2>2, <2>3, <2>4, <2>5, <2>6 DEF CommandStep
  <1>2. ASSUME NEW p \in Polls, PollStep(p) PROVE Known'
    <2>1. CASE ExpireStaleClaims(p)
      BY <2>1 DEF ExpireStaleClaims, Stale, TypeOK
    <2>2. CASE \/ PollArrives(p) \/ StartHold(p) \/ CmdSubscribed(p)
               \/ NothingOnNotify(p)
      BY <2>2 DEF PollArrives, StartHold, CmdSubscribed, NothingOnNotify
    <2>3. CASE HoldExpires(p) \/ HoldExpiresInFlight(p)
      <3>1. runs' = runs
        BY <2>3 DEF HoldExpires, HoldExpiresInFlight, FinishEmpty, Respond, TypeOK
      <3> QED BY <2>3, <3>1 DEF HoldExpires, HoldExpiresInFlight, FinishEmpty
    <2> QED BY <1>2, <2>1, <2>2, <2>3 DEF PollStep
  <1>3. ASSUME NEW p \in Polls, NEW c \in Cmds, ClaimStep(p, c) PROVE Known'
    <2>1. CASE ClaimAtOnce(p, c)
      BY <2>1 DEF ClaimAtOnce, ClaimRow, IsNext, Respond, TypeOK
    <2>2. CASE ClaimOnNotify(p, c)
      BY <2>2 DEF ClaimOnNotify, ClaimRow, IsNext, TypeOK
    <2>3. CASE FinishWithWork(p, c)
      BY <2>3 DEF FinishWithWork, Respond, TypeOK
    <2> QED BY <1>3, <2>1, <2>2, <2>3 DEF ClaimStep
  <1>4. ASSUME NEW m \in posts, RespondStep(m) PROVE Known'
    <2>1. m.cmd \in Cmds /\ status[m.cmd] # "absent"
      BY DEF Produced, TypeOK
    <2>2. CASE CompleteCommand(m)
      BY <2>1, <2>2 DEF CompleteCommand, TypeOK
    <2>3. CASE NotifyAgentResult(m)
      BY <2>1, <2>3 DEF NotifyAgentResult, TypeOK
    <2> QED BY <1>4, <2>2, <2>3 DEF RespondStep
  <1>5. ASSUME FailureStep PROVE Known'
    <2>1. CASE AgentDropsWork
      BY <2>1 DEF AgentDropsWork
    <2>2. CASE ListenClientError
      BY <2>2 DEF ListenClientError, TypeOK
    <2>3. CASE CloudRestart
      BY <2>3 DEF CloudRestart, Waiting, TypeOK
    <2> QED BY <1>5, <2>1, <2>2, <2>3 DEF FailureStep
  <1>6. CASE UNCHANGED vars
    BY <1>6 DEF vars
  <1> QED BY <1>1, <1>2, <1>3, <1>4, <1>5, <1>6 DEF Next

\* A step that leaves status, runs, inHand and lapsed alone leaves the sum
\* alone.
LEMMA BudgetFrame ==
  ASSUME Budget, UNCHANGED <<status, runs, inHand, lapsed>>
  PROVE  Budget'
  BY DEF Budget, Claimable, HeldBy

\* A claim is paid for by the first delivery or by a claim that lapsed.
LEMMA NextBudget == IInv /\ [Next]_vars => Budget'
  <1> SUFFICES ASSUME IInv, [Next]_vars PROVE Budget'
      OBVIOUS
  <1> TypeOK /\ Known /\ Budget
    BY DEF IInv
  <1>0. \A c \in Cmds : /\ HeldBy(c) \in SUBSET Polls
                        /\ Cardinality(HeldBy(c)) \in Nat
                        /\ Claimable(c) \in 0..1
                        /\ runs[c] \in Nat /\ lapsed[c] \in Nat
    BY HoldersCount DEF HeldBy, Claimable, TypeOK
  <1>1. ASSUME NEW c \in Cmds, CommandStep(c) PROVE Budget'
    <2>1. CASE EnqueueCommand(c)
      <3>1. \A d \in Cmds : Claimable(d)' = Claimable(d)
        BY <2>1 DEF EnqueueCommand, Claimable, Known, TypeOK
      <3> QED
        BY <2>1, <3>1
        DEF EnqueueCommand, Budget, HeldBy, agentVars, pollVars
    <2>2. CASE ~EnqueueCommand(c)
      BY <1>1, <2>2, BudgetFrame
      DEF CommandStep, NotifyAgentCmd, ResultSubscribed, GetCompletedResult,
          SendTimeout, SubmitResult, ClaimExpires, tableVars, pollVars, agentVars
    <2> QED BY <2>1, <2>2
  <1>2. ASSUME NEW p \in Polls, PollStep(p) PROVE Budget'
    <2>1. CASE ExpireStaleClaims(p)
      <3>1. ASSUME NEW d \in Cmds, Stale(d)
            PROVE  lapsed'[d] = lapsed[d] + 1 /\ Claimable(d) = 0
        BY <2>1, <3>1 DEF ExpireStaleClaims, Stale, Claimable, TypeOK
      <3>2. ASSUME NEW d \in Cmds, ~Stale(d)
            PROVE  lapsed'[d] = lapsed[d] /\ Claimable(d)' = Claimable(d)
        BY <2>1, <3>2 DEF ExpireStaleClaims, Claimable, TypeOK
      <3>3. \A d \in Cmds : Claimable(d)' \in 0..1
        BY DEF Claimable
      <3>4. \A d \in Cmds : HeldBy(d)' = HeldBy(d) /\ runs'[d] = runs[d]
        BY <2>1 DEF ExpireStaleClaims, HeldBy, agentVars, TypeOK
      <3> QED BY <1>0, <3>1, <3>2, <3>3, <3>4 DEF Budget
    <2>2. CASE \/ PollArrives(p) \/ StartHold(p) \/ CmdSubscribed(p)
               \/ NothingOnNotify(p)
      BY <2>2, BudgetFrame
      DEF PollArrives, StartHold, CmdSubscribed, NothingOnNotify, tableVars,
          agentVars
    <2>3. CASE HoldExpires(p) \/ HoldExpiresInFlight(p)
      <3>1. runs' = runs
        BY <2>3 DEF HoldExpires, HoldExpiresInFlight, FinishEmpty, Respond, TypeOK
      <3> QED
        BY <2>3, <3>1, BudgetFrame
        DEF HoldExpires, HoldExpiresInFlight, FinishEmpty, tableVars
    <2> QED BY <1>2, <2>1, <2>2, <2>3 DEF PollStep
  <1>3. ASSUME NEW p \in Polls, NEW c \in Cmds, ClaimStep(p, c) PROVE Budget'
    <2>1. CASE ClaimAtOnce(p, c)
      <3>1. /\ Claimable(c) = 1 /\ Claimable(c)' = 0
            /\ \A d \in Cmds \ {c} : Claimable(d)' = Claimable(d)
        BY <2>1 DEF ClaimAtOnce, ClaimRow, IsNext, Claimable, TypeOK
      <3>2. /\ runs'[c] \in {runs[c], runs[c] + 1}
            /\ \A d \in Cmds \ {c} : runs'[d] = runs[d]
        BY <2>1 DEF ClaimAtOnce, Respond, TypeOK
      <3>3. \A d \in Cmds : HeldBy(d)' = HeldBy(d) /\ lapsed'[d] = lapsed[d]
        BY <2>1 DEF ClaimAtOnce, HeldBy, TypeOK
      <3> QED BY <1>0, <3>1, <3>2, <3>3 DEF Budget
    <2>2. CASE ClaimOnNotify(p, c)
      <3>1. /\ Claimable(c) = 1 /\ Claimable(c)' = 0
            /\ \A d \in Cmds \ {c} : Claimable(d)' = Claimable(d)
        BY <2>2 DEF ClaimOnNotify, ClaimRow, IsNext, Claimable, TypeOK
      <3>2. /\ HeldBy(c)' \in {HeldBy(c), HeldBy(c) \cup {p}}
            /\ \A d \in Cmds \ {c} : HeldBy(d)' = HeldBy(d)
        BY <2>2 DEF ClaimOnNotify, HeldBy, TypeOK
      <3>3. Cardinality(HeldBy(c)') \in Nat
            /\ Cardinality(HeldBy(c)') <= Cardinality(HeldBy(c)) + 1
        <4>1. HeldBy(c)' \in SUBSET Polls
          BY DEF HeldBy
        <4> QED BY <3>2, <4>1, HoldersCount
      <3>4. \A d \in Cmds : runs'[d] = runs[d] /\ lapsed'[d] = lapsed[d]
        BY <2>2 DEF ClaimOnNotify, agentVars, TypeOK
      <3> QED BY <1>0, <3>1, <3>2, <3>3, <3>4 DEF Budget
    <2>3. CASE FinishWithWork(p, c)
      <3>1. \A d \in Cmds : HeldBy(d)' = HeldBy(d) \ {p}
        BY <2>3 DEF FinishWithWork, HeldBy, TypeOK
      <3>2. /\ p \in HeldBy(c)
            /\ Cardinality(HeldBy(c)') = Cardinality(HeldBy(c)) - 1
        BY <2>3, <3>1, HoldersCount DEF FinishWithWork, HeldBy
      <3>3. \A d \in Cmds : /\ Cardinality(HeldBy(d)') \in Nat
                            /\ Cardinality(HeldBy(d)') <= Cardinality(HeldBy(d))
        <4> TAKE d \in Cmds
        <4>1. HeldBy(d) \in SUBSET Polls
          BY <1>0
        <4>2. HeldBy(d) \ {p} \in SUBSET Polls /\ HeldBy(d) \ {p} \in SUBSET HeldBy(d)
          BY <4>1
        <4>3. /\ Cardinality(HeldBy(d) \ {p}) \in Nat
              /\ Cardinality(HeldBy(d) \ {p}) <= Cardinality(HeldBy(d))
          BY <4>1, <4>2, HoldersCount
        <4> QED BY <3>1, <4>3
      <3>4. /\ runs'[c] \in {runs[c], runs[c] + 1}
            /\ \A d \in Cmds \ {c} : runs'[d] = runs[d]
        BY <2>3 DEF FinishWithWork, Respond, TypeOK
      <3>5. \A d \in Cmds : Claimable(d)' = Claimable(d) /\ lapsed'[d] = lapsed[d]
        BY <2>3 DEF FinishWithWork, Claimable, tableVars, TypeOK
      <3> QED BY <1>0, <3>2, <3>3, <3>4, <3>5 DEF Budget
    <2> QED BY <1>3, <2>1, <2>2, <2>3 DEF ClaimStep
  <1>4. ASSUME NEW m \in posts, RespondStep(m) PROVE Budget'
    <2>1. CASE CompleteCommand(m)
      <3>1. \A d \in Cmds : Claimable(d)' \in 0..1 /\ Claimable(d)' <= Claimable(d)
        BY <2>1 DEF CompleteCommand, Claimable, TypeOK
      <3>2. \A d \in Cmds : /\ HeldBy(d)' = HeldBy(d)
                            /\ runs'[d] = runs[d] /\ lapsed'[d] = lapsed[d]
        BY <2>1 DEF CompleteCommand, HeldBy, agentVars, pollVars, TypeOK
      <3> QED BY <1>0, <3>1, <3>2 DEF Budget
    <2>2. CASE NotifyAgentResult(m)
      BY <2>2, BudgetFrame DEF NotifyAgentResult, tableVars, pollVars
    <2> QED BY <1>4, <2>1, <2>2 DEF RespondStep
  <1>5. ASSUME FailureStep PROVE Budget'
    <2>1. CASE AgentDropsWork \/ ListenClientError
      BY <2>1, BudgetFrame
      DEF AgentDropsWork, ListenClientError, tableVars, pollVars, agentVars
    <2>2. CASE CloudRestart
      <3>1. \A d \in Cmds : HeldBy(d)' = {}
        BY <2>2 DEF CloudRestart, HeldBy, TypeOK
      <3>2. \A d \in Cmds : /\ Claimable(d)' = Claimable(d)
                            /\ runs'[d] = runs[d] /\ lapsed'[d] = lapsed[d]
        BY <2>2 DEF CloudRestart, Claimable, tableVars, TypeOK
      <3> QED BY <1>0, <3>1, <3>2, FS_EmptySet DEF Budget
    <2> QED BY <1>5, <2>1, <2>2 DEF FailureStep
  <1>6. CASE UNCHANGED vars
    BY <1>6, BudgetFrame DEF vars, tableVars, pollVars, agentVars
  <1> QED BY <1>1, <1>2, <1>3, <1>4, <1>5, <1>6 DEF Next

\* A result in a row or on its way to it was produced by a run.
LEMMA NextProduced == IInv /\ [Next]_vars => Produced'
  <1> SUFFICES ASSUME IInv, [Next]_vars PROVE Produced'
      OBVIOUS
  <1> TypeOK /\ Known /\ Produced
    BY DEF IInv
  <1> USE DEF TypeOK, Produced, tableVars, agentVars
  <1>1. ASSUME NEW c \in Cmds, CommandStep(c) PROVE Produced'
    <2>1. CASE EnqueueCommand(c)
      BY <2>1 DEF EnqueueCommand, Known
    <2>2. CASE SubmitResult(c)
      BY <2>2 DEF SubmitResult
    <2>3. CASE ~EnqueueCommand(c) /\ ~SubmitResult(c)
      <3>1. UNCHANGED <<status, result, posts, executing, runs>>
        BY <1>1, <2>3
        DEF CommandStep, NotifyAgentCmd, ResultSubscribed, GetCompletedResult,
            SendTimeout, ClaimExpires
      <3> QED BY <3>1
    <2> QED BY <2>1, <2>2, <2>3
  <1>2. ASSUME NEW p \in Polls, PollStep(p) PROVE Produced'
    <2>1. CASE ExpireStaleClaims(p)
      BY <2>1 DEF ExpireStaleClaims, Stale
    <2>2. CASE HoldExpires(p) \/ HoldExpiresInFlight(p)
      <3>1. runs' = runs /\ executing' \in {{}, executing}
        BY <2>2 DEF HoldExpires, HoldExpiresInFlight, FinishEmpty, Respond
      <3>2. UNCHANGED <<status, result, posts>>
        BY <2>2 DEF HoldExpires, HoldExpiresInFlight, FinishEmpty
      <3> QED BY <3>1, <3>2
    <2>3. CASE \/ PollArrives(p) \/ StartHold(p) \/ CmdSubscribed(p)
               \/ NothingOnNotify(p)
      BY <2>3 DEF PollArrives, StartHold, CmdSubscribed, NothingOnNotify
    <2> QED BY <1>2, <2>1, <2>2, <2>3 DEF PollStep
  <1>3. ASSUME NEW p \in Polls, NEW c \in Cmds, ClaimStep(p, c) PROVE Produced'
    <2>1. CASE ClaimAtOnce(p, c)
      <3>1. \A d \in Cmds : runs'[d] \in Nat /\ runs[d] <= runs'[d]
        BY <2>1 DEF ClaimAtOnce, Respond
      <3>2. \A d \in executing' : d \in executing \/ runs'[d] = runs[d] + 1
        BY <2>1 DEF ClaimAtOnce, Respond
      <3>3. \A d \in Cmds : status'[d] = "completed" <=> status[d] = "completed"
        BY <2>1 DEF ClaimAtOnce, ClaimRow, IsNext
      <3>4. result' = result /\ posts' = posts
        BY <2>1 DEF ClaimAtOnce, ClaimRow
      <3>5. executing' \subseteq Cmds
        BY <2>1 DEF ClaimAtOnce, Respond
      <3> QED BY <3>1, <3>2, <3>3, <3>4, <3>5
    <2>2. CASE ClaimOnNotify(p, c)
      BY <2>2 DEF ClaimOnNotify, ClaimRow, IsNext
    <2>3. CASE FinishWithWork(p, c)
      BY <2>3 DEF FinishWithWork, Respond
    <2> QED BY <1>3, <2>1, <2>2, <2>3 DEF ClaimStep
  <1>4. ASSUME NEW m \in posts, RespondStep(m) PROVE Produced'
    <2>1. CASE CompleteCommand(m)
      BY <2>1 DEF CompleteCommand
    <2>2. CASE NotifyAgentResult(m)
      BY <2>2 DEF NotifyAgentResult
    <2> QED BY <1>4, <2>1, <2>2 DEF RespondStep
  <1>5. ASSUME FailureStep PROVE Produced'
    BY <1>5 DEF FailureStep, AgentDropsWork, ListenClientError, CloudRestart
  <1>6. CASE UNCHANGED vars
    BY <1>6 DEF vars
  <1> QED BY <1>1, <1>2, <1>3, <1>4, <1>5, <1>6 DEF Next

\* A caller is only ever answered with a stored result of its command.
LEMMA NextAnswered == IInv /\ [Next]_vars => Answered'
  <1> SUFFICES ASSUME IInv, [Next]_vars PROVE Answered'
      OBVIOUS
  <1> TypeOK /\ Known /\ Produced /\ Answered
    BY DEF IInv
  <1> USE DEF TypeOK, Answered, tableVars, callerVars, agentVars
  <1>1. ASSUME NEW c \in Cmds, CommandStep(c) PROVE Answered'
    <2>1. CASE EnqueueCommand(c)
      BY <2>1 DEF EnqueueCommand
    <2>2. CASE NotifyAgentCmd(c)
      BY <2>2 DEF NotifyAgentCmd
    <2>3. CASE ResultSubscribed(c)
      BY <2>3 DEF ResultSubscribed
    <2>4. CASE GetCompletedResult(c)
      BY <2>4 DEF GetCompletedResult, Produced
    <2>5. CASE SendTimeout(c)
      BY <2>5 DEF SendTimeout
    <2>6. CASE SubmitResult(c) \/ ClaimExpires(c)
      BY <2>6 DEF SubmitResult, ClaimExpires
    <2> QED BY <1>1, <2>1, <2>2, <2>3, <2>4, <2>5, <2>6 DEF CommandStep
  <1>2. ASSUME NEW p \in Polls, PollStep(p) PROVE Answered'
    <2>1. CASE ExpireStaleClaims(p)
      BY <2>1 DEF ExpireStaleClaims, Stale
    <2>2. CASE HoldExpires(p) \/ HoldExpiresInFlight(p)
      <3>1. runs' = runs
        BY <2>2 DEF HoldExpires, HoldExpiresInFlight, FinishEmpty, Respond
      <3>2. UNCHANGED <<status, caller, answer>>
        BY <2>2 DEF HoldExpires, HoldExpiresInFlight, FinishEmpty
      <3> QED BY <3>1, <3>2
    <2>3. CASE \/ PollArrives(p) \/ StartHold(p) \/ CmdSubscribed(p)
               \/ NothingOnNotify(p)
      BY <2>3 DEF PollArrives, StartHold, CmdSubscribed, NothingOnNotify
    <2> QED BY <1>2, <2>1, <2>2, <2>3 DEF PollStep
  <1>3. ASSUME NEW p \in Polls, NEW c \in Cmds, ClaimStep(p, c) PROVE Answered'
    <2>1. CASE ClaimAtOnce(p, c)
      BY <2>1 DEF ClaimAtOnce, ClaimRow, IsNext, Respond
    <2>2. CASE ClaimOnNotify(p, c)
      BY <2>2 DEF ClaimOnNotify, ClaimRow, IsNext
    <2>3. CASE FinishWithWork(p, c)
      BY <2>3 DEF FinishWithWork, Respond
    <2> QED BY <1>3, <2>1, <2>2, <2>3 DEF ClaimStep
  <1>4. ASSUME NEW m \in posts, RespondStep(m) PROVE Answered'
    <2>1. CASE CompleteCommand(m)
      BY <2>1 DEF CompleteCommand
    <2>2. CASE NotifyAgentResult(m)
      BY <2>2 DEF NotifyAgentResult, Produced
    <2> QED BY <1>4, <2>1, <2>2 DEF RespondStep
  <1>5. ASSUME FailureStep PROVE Answered'
    BY <1>5
    DEF FailureStep, AgentDropsWork, ListenClientError, CloudRestart
  <1>6. CASE UNCHANGED vars
    BY <1>6 DEF vars
  <1> QED BY <1>1, <1>2, <1>3, <1>4, <1>5, <1>6 DEF Next

\* The inductive invariant survives every step.
LEMMA NextIInv == IInv /\ [Next]_vars => IInv'
  BY NextTypeOK, NextKnown, NextBudget, NextProduced, NextAnswered DEF IInv

\* The inductive invariant holds in every reachable state of the channel.
THEOREM Inductive == Spec => []IInv
  BY InitIInv, NextIInv, PTL DEF Spec
-----------------------------------------------------------------------------
(* What the channel guarantees *)

\* However many polls, callbacks and zombie requests race for a command, it
\* is handed out at most once more than claims on it have lapsed.
THEOREM Redelivery == Spec => []BoundedRedelivery
  <1>1. IInv => BoundedRedelivery
    <2> SUFFICES ASSUME IInv, NEW c \in Cmds
                 PROVE  runs[c] + Cardinality(HeldBy(c)) <= lapsed[c] + 1
        BY DEF BoundedRedelivery
    <2>1. runs[c] + Cardinality(HeldBy(c)) + Claimable(c) <= lapsed[c] + 1
      BY DEF IInv, Budget
    <2>2. Cardinality(HeldBy(c)) \in Nat
      BY HoldersCount DEF HeldBy
    <2>3. runs[c] \in Nat /\ lapsed[c] \in Nat /\ Claimable(c) \in 0..1
      BY DEF IInv, TypeOK, Claimable
    <2> QED BY <2>1, <2>2, <2>3
  <1> QED BY <1>1, Inductive, PTL

\* sendToAgent never resolves with anything but the stored output of a run of
\* its own command: the fallback of its callback is dead code.
THEOREM Answers == Spec => []AnswerIsARun
  <1>1. IInv => AnswerIsARun
    BY DEF IInv, Answered, AnswerIsARun
  <1> QED BY <1>1, Inductive, PTL

\* No step takes a command out of the completed status.
LEMMA CompletedStays ==
  ASSUME IInv, [Next]_vars, NEW c \in Cmds, status[c] = "completed"
  PROVE  status'[c] = "completed"
  <1> USE DEF tableVars
  <1> TypeOK /\ Known
    BY DEF IInv
  <1>1. ASSUME NEW d \in Cmds, CommandStep(d) PROVE status'[c] = "completed"
    BY <1>1
    DEF CommandStep, EnqueueCommand, NotifyAgentCmd, ResultSubscribed,
        GetCompletedResult, SendTimeout, SubmitResult, ClaimExpires, Known,
        TypeOK
  <1>2. ASSUME NEW p \in Polls, PollStep(p) PROVE status'[c] = "completed"
    BY <1>2
    DEF PollStep, PollArrives, ExpireStaleClaims, Stale, StartHold,
        CmdSubscribed, NothingOnNotify, HoldExpires, HoldExpiresInFlight,
        FinishEmpty
  <1>3. ASSUME NEW p \in Polls, NEW d \in Cmds, ClaimStep(p, d)
        PROVE  status'[c] = "completed"
    BY <1>3
    DEF ClaimStep, ClaimAtOnce, ClaimOnNotify, FinishWithWork, ClaimRow,
        IsNext, TypeOK
  <1>4. ASSUME NEW m \in posts, RespondStep(m) PROVE status'[c] = "completed"
    BY <1>4 DEF RespondStep, CompleteCommand, NotifyAgentResult, TypeOK
  <1>5. ASSUME FailureStep PROVE status'[c] = "completed"
    BY <1>5 DEF FailureStep, AgentDropsWork, ListenClientError, CloudRestart
  <1>6. CASE UNCHANGED vars
    BY <1>6 DEF vars
  <1> QED BY <1>1, <1>2, <1>3, <1>4, <1>5, <1>6 DEF Next

\* A completed command never goes back into circulation.
THEOREM Finality ==
  Spec => [][\A c \in Cmds : status[c] = "completed" => status'[c] = "completed"]_vars
  <1>1. IInv /\ [Next]_vars =>
          [\A c \in Cmds : status[c] = "completed" => status'[c] = "completed"]_vars
    BY CompletedStays
  <1> QED BY <1>1, Inductive, PTL DEF Spec

\* A poll that can be notified always has an entry in _listeners.  This
\* invariant is inductive by itself, given the types.
THEOREM Listeners == Spec => []HookedIsRegistered
  <1>1. Init => HookedIsRegistered
    BY DEF Init, HookedIsRegistered
  <1>2. HookedIsRegistered /\ [Next]_vars => HookedIsRegistered'
    <2> SUFFICES ASSUME HookedIsRegistered, [Next]_vars
                 PROVE  HookedIsRegistered'
        OBVIOUS
    <2> USE DEF HookedIsRegistered, listenVars
    <2>1. ASSUME NEW c \in Cmds, CommandStep(c) PROVE HookedIsRegistered'
      BY <2>1
      DEF CommandStep, EnqueueCommand, NotifyAgentCmd, ResultSubscribed,
          GetCompletedResult, SendTimeout, SubmitResult, ClaimExpires
    <2>2. ASSUME NEW p \in Polls, PollStep(p) PROVE HookedIsRegistered'
      <3>1. CASE PollArrives(p) \/ ExpireStaleClaims(p) \/ NothingOnNotify(p)
        BY <3>1 DEF PollArrives, ExpireStaleClaims, NothingOnNotify
      <3>2. CASE StartHold(p)
        BY <3>2 DEF StartHold
      <3>3. CASE CmdSubscribed(p)
        BY <3>3 DEF CmdSubscribed
      <3>4. CASE HoldExpires(p) \/ HoldExpiresInFlight(p)
        BY <3>4 DEF HoldExpires, HoldExpiresInFlight, FinishEmpty, Unsubscribe
      <3> QED BY <2>2, <3>1, <3>2, <3>3, <3>4 DEF PollStep
    <2>3. ASSUME NEW p \in Polls, NEW c \in Cmds, ClaimStep(p, c)
          PROVE  HookedIsRegistered'
      BY <2>3
      DEF ClaimStep, ClaimAtOnce, ClaimOnNotify, FinishWithWork, Unsubscribe
    <2>4. ASSUME NEW m \in posts, RespondStep(m) PROVE HookedIsRegistered'
      BY <2>4 DEF RespondStep, CompleteCommand, NotifyAgentResult
    <2>5. ASSUME FailureStep PROVE HookedIsRegistered'
      BY <2>5 DEF FailureStep, AgentDropsWork, ListenClientError, CloudRestart
    <2>6. CASE UNCHANGED vars
      BY <2>6 DEF vars
    <2> QED BY <2>1, <2>2, <2>3, <2>4, <2>5, <2>6 DEF Next
  <1> QED BY <1>1, <1>2, PTL DEF Spec
-----------------------------------------------------------------------------
(* Callbacks that stay hooked *)

\* Only a poll that waits is hooked, unless it leaked; callbacks run for those
\* that were hooked; and a poll with a row in hand has unsubscribed.
Hooks ==
    \A p \in Polls :
        /\ p \in hooked => pollAt[p] \in {"holding", "idle"}
        /\ pollAt[p] \notin {"holding", "idle"} => wakeups[p] = 0
        /\ inHand[p] # {} => pollAt[p] = "holding" /\ p \notin hooked

\* Nobody is hooked in the empty channel.
LEMMA InitHooks == Init => Hooks /\ Leaked = {}
  BY DEF Init, Hooks, Leaked

\* A slot is reused only when no callback of its last poll is left, so that the
\* callbacks of two polls never mix.
LEMMA NextHooks == TypeOK /\ Hooks /\ [Next]_vars => Hooks'
  <1> SUFFICES ASSUME TypeOK, Hooks, [Next]_vars PROVE Hooks'
      OBVIOUS
  <1> USE DEF TypeOK, Hooks, pollVars, listenVars
  <1>1. ASSUME NEW c \in Cmds, CommandStep(c) PROVE Hooks'
    <2>1. CASE NotifyAgentCmd(c)
      BY <2>1 DEF NotifyAgentCmd
    <2>2. CASE ~NotifyAgentCmd(c)
      BY <1>1, <2>2
      DEF CommandStep, EnqueueCommand, ResultSubscribed, GetCompletedResult,
          SendTimeout, SubmitResult, ClaimExpires
    <2> QED BY <2>1, <2>2
  <1>2. ASSUME NEW p \in Polls, PollStep(p) PROVE Hooks'
    <2>1. CASE PollArrives(p)
      BY <2>1 DEF PollArrives
    <2>2. CASE ExpireStaleClaims(p)
      BY <2>2 DEF ExpireStaleClaims
    <2>3. CASE StartHold(p)
      <3>1. /\ pollAt[p] = "claiming" /\ UNCHANGED <<wakeups, inHand>>
            /\ \/ /\ pollAt' = [pollAt EXCEPT ![p] = "holding"]
                  /\ hooked' = hooked \cup {p}
               \/ /\ pollAt' = [pollAt EXCEPT ![p] = "subscribing"]
                  /\ hooked' = hooked
        BY <2>3 DEF StartHold
      <3>2. CASE pollAt' = [pollAt EXCEPT ![p] = "holding"] /\ hooked' = hooked \cup {p}
        <4>1. inHand[p] = {}
          BY <3>1
        <4> QED BY <3>1, <3>2, <4>1
      <3>3. CASE pollAt' = [pollAt EXCEPT ![p] = "subscribing"] /\ hooked' = hooked
        <4>1. inHand[p] = {} /\ p \notin hooked
          BY <3>1
        <4> QED BY <3>1, <3>3, <4>1
      <3> QED BY <3>1, <3>2, <3>3
    <2>4. CASE CmdSubscribed(p)
      BY <2>4 DEF CmdSubscribed
    <2>5. CASE NothingOnNotify(p)
      BY <2>5 DEF NothingOnNotify
    <2>6. CASE HoldExpires(p)
      BY <2>6 DEF HoldExpires, FinishEmpty, Unsubscribe
    <2>7. CASE HoldExpiresInFlight(p)
      BY <2>7 DEF HoldExpiresInFlight, FinishEmpty, Unsubscribe
    <2> QED BY <1>2, <2>1, <2>2, <2>3, <2>4, <2>5, <2>6, <2>7 DEF PollStep
  <1>3. ASSUME NEW p \in Polls, NEW c \in Cmds, ClaimStep(p, c) PROVE Hooks'
    <2>1. CASE ClaimAtOnce(p, c)
      BY <2>1 DEF ClaimAtOnce
    <2>2. CASE ClaimOnNotify(p, c)
      BY <2>2 DEF ClaimOnNotify, Unsubscribe, Open
    <2>3. CASE FinishWithWork(p, c)
      BY <2>3 DEF FinishWithWork
    <2> QED BY <1>3, <2>1, <2>2, <2>3 DEF ClaimStep
  <1>4. ASSUME NEW m \in posts, RespondStep(m) PROVE Hooks'
    BY <1>4 DEF RespondStep, CompleteCommand, NotifyAgentResult
  <1>5. ASSUME FailureStep PROVE Hooks'
    <2>1. CASE AgentDropsWork
      BY <2>1 DEF AgentDropsWork
    <2>2. CASE ListenClientError
      BY <2>2 DEF ListenClientError
    <2>3. CASE CloudRestart
      BY <2>3 DEF CloudRestart
    <2> QED BY <1>5, <2>1, <2>2, <2>3 DEF FailureStep
  <1>6. CASE UNCHANGED vars
    BY <1>6 DEF vars
  <1> QED BY <1>1, <1>2, <1>3, <1>4, <1>5, <1>6 DEF Next

\* Only the timer that fires during the LISTEN leaks a callback.
LEMMA NextLeaks ==
  ASSUME TypeOK, Hooks, [Next]_vars
  PROVE  \/ Leaked' \subseteq Leaked /\ faults' \in {faults, faults + 1}
         \/ /\ faults' = faults + 1
            /\ \E p \in Polls : Leaked' \subseteq Leaked \cup {p}
  <1> DEFINE Goal == \/ Leaked' \subseteq Leaked /\ faults' \in {faults, faults + 1}
                     \/ /\ faults' = faults + 1
                        /\ \E p \in Polls : Leaked' \subseteq Leaked \cup {p}
  <1> SUFFICES Goal
      OBVIOUS
  <1> USE DEF TypeOK, Hooks, Leaked, pollVars, listenVars
  <1>1. ASSUME NEW c \in Cmds, CommandStep(c) PROVE Goal
    BY <1>1
    DEF CommandStep, EnqueueCommand, NotifyAgentCmd, ResultSubscribed,
        GetCompletedResult, SendTimeout, SubmitResult, ClaimExpires
  <1>2. ASSUME NEW p \in Polls, PollStep(p) PROVE Goal
    <2>1. CASE PollArrives(p) \/ ExpireStaleClaims(p)
      <3>1. /\ UNCHANGED <<hooked, faults>>
            /\ \/ pollAt' = [pollAt EXCEPT ![p] = "arrived"]
               \/ pollAt' = [pollAt EXCEPT ![p] = "claiming"]
        BY <2>1 DEF PollArrives, ExpireStaleClaims
      <3> QED BY <3>1
    <2>2. CASE StartHold(p) \/ NothingOnNotify(p)
      BY <2>2 DEF StartHold, NothingOnNotify
    <2>3. CASE CmdSubscribed(p)
      BY <2>3 DEF CmdSubscribed
    <2>4. CASE HoldExpires(p)
      <3>1. hooked' = hooked \ {p} /\ faults' = faults
        BY <2>4 DEF HoldExpires, FinishEmpty, Unsubscribe
      <3>2. pollAt' = [pollAt EXCEPT ![p] = "idle"]
        BY <2>4 DEF HoldExpires
      <3> QED BY <3>1, <3>2
    <2>5. CASE HoldExpiresInFlight(p)
      <3>1. hooked' = hooked \ {p} /\ faults' = faults + 1
        BY <2>5 DEF HoldExpiresInFlight, FinishEmpty, Unsubscribe, Fault
      <3>2. \/ pollAt' = [pollAt EXCEPT ![p] = "idle"]
            \/ pollAt' = [pollAt EXCEPT ![p] = "orphan"]
        BY <2>5 DEF HoldExpiresInFlight
      <3>3. Leaked' \subseteq Leaked \cup {p}
        BY <3>1, <3>2
      <3> QED BY <3>1, <3>3
    <2> QED BY <1>2, <2>1, <2>2, <2>3, <2>4, <2>5 DEF PollStep
  <1>3. ASSUME NEW p \in Polls, NEW c \in Cmds, ClaimStep(p, c) PROVE Goal
    <2>1. CASE ClaimAtOnce(p, c)
      BY <2>1 DEF ClaimAtOnce
    <2>2. CASE ClaimOnNotify(p, c)
      BY <2>2 DEF ClaimOnNotify, Unsubscribe
    <2>3. CASE FinishWithWork(p, c)
      BY <2>3 DEF FinishWithWork
    <2> QED BY <1>3, <2>1, <2>2, <2>3 DEF ClaimStep
  <1>4. ASSUME NEW m \in posts, RespondStep(m) PROVE Goal
    BY <1>4 DEF RespondStep, CompleteCommand, NotifyAgentResult
  <1>5. ASSUME FailureStep PROVE Goal
    <2>1. CASE AgentDropsWork
      BY <2>1 DEF AgentDropsWork, Fault
    <2>2. CASE ListenClientError
      BY <2>2 DEF ListenClientError, Fault
    <2>3. CASE CloudRestart
      BY <2>3 DEF CloudRestart, Fault
    <2> QED BY <1>5, <2>1, <2>2, <2>3 DEF FailureStep
  <1>6. CASE UNCHANGED vars
    BY <1>6 DEF vars
  <1> QED BY <1>1, <1>2, <1>3, <1>4, <1>5, <1>6 DEF Next

\* Callbacks stay hooked for good only through lost races, one each.  As there
\* are more slots than faults, leaks alone never keep the agent from polling.
THEOREM Leaks == Spec => [](LeaksAreLostRaces /\ \E p \in Polls : p \notin Leaked)
  <1> DEFINE LInv == TypeOK /\ Hooks /\ LeaksAreLostRaces
  <1>1. Init => LInv
    <2> SUFFICES ASSUME Init PROVE Hooks /\ Cardinality(Leaked) <= faults
        BY InitTypeOK DEF LeaksAreLostRaces
    <2>1. Hooks /\ Leaked = {}
      BY InitHooks
    <2>2. Cardinality(Leaked) = 0 /\ faults = 0
      BY <2>1, FS_EmptySet DEF Init
    <2> QED BY <2>1, <2>2
  <1>2. LInv /\ [Next]_vars => LInv'
    <2> SUFFICES ASSUME LInv, [Next]_vars PROVE LeaksAreLostRaces'
        BY NextTypeOK, NextHooks
    <2>1. Leaked \in SUBSET Polls /\ Leaked' \in SUBSET Polls /\ faults \in Nat
      BY ConstantsAssumption DEF Leaked, TypeOK
    <2>2. Cardinality(Leaked) <= faults
      BY DEF LeaksAreLostRaces
    <2>3. Cardinality(Leaked) \in Nat /\ Cardinality(Leaked') \in Nat
      BY <2>1, HoldersCount
    <2>4. CASE Leaked' \subseteq Leaked /\ faults' \in {faults, faults + 1}
      <3>1. Cardinality(Leaked') <= Cardinality(Leaked)
        BY <2>1, <2>4, HoldersCount
      <3> QED BY <2>1, <2>2, <2>3, <2>4, <3>1 DEF LeaksAreLostRaces
    <2>5. ASSUME NEW p \in Polls, faults' = faults + 1,
                 Leaked' \subseteq Leaked \cup {p}
          PROVE  LeaksAreLostRaces'
      <3>1. Leaked \cup {p} \in SUBSET Polls
        BY <2>1
      <3>2. /\ Cardinality(Leaked') <= Cardinality(Leaked \cup {p})
            /\ Cardinality(Leaked \cup {p}) <= Cardinality(Leaked) + 1
            /\ Cardinality(Leaked \cup {p}) \in Nat
        BY <2>1, <2>5, <3>1, HoldersCount
      <3> QED BY <2>1, <2>2, <2>3, <2>5, <3>2 DEF LeaksAreLostRaces
    <2> QED BY <2>4, <2>5, NextLeaks
  <1>3. LInv => \E p \in Polls : p \notin Leaked
    <2> SUFFICES ASSUME LInv, Polls \subseteq Leaked PROVE FALSE
        OBVIOUS
    <2>1. Leaked = Polls
      BY DEF Leaked
    <2>2. faults <= MaxFaults /\ faults \in Nat
      BY ConstantsAssumption DEF TypeOK
    <2>3. Cardinality(Polls) \in Nat
      BY HoldersCount
    <2> QED BY <2>1, <2>2, <2>3, ConstantsAssumption DEF LeaksAreLostRaces
  <1> HIDE DEF LInv
  <1>4. LInv => LeaksAreLostRaces
    BY DEF LInv
  <1> QED BY <1>1, <1>2, <1>3, <1>4, PTL DEF Spec
-----------------------------------------------------------------------------
(* The channel implements DurableCommands *)

USE DEF PhaseSeen, ReplySeen

\* A step that changes nothing DurableCommands speaks about.
LEMMA Stutter ==
  ASSUME UNCHANGED <<status, caller, runs, lapsed, result, answer>>
  PROVE  UNCHANGED DC!vars
  BY DEF DC!vars

\* Only the caller moves: either to one of the phases that count as closed, or
\* among those that count as open.
LEMMA CallerCloses ==
  ASSUME TypeOK, Known, NEW S \in SUBSET Cmds,
         \A c \in S : caller[c] \in Waiting \cup {"inserted"},
         \A c \in Cmds \ S : caller'[c] = caller[c],
         \A c \in S : caller'[c] \in {"rejected", "gone", "detached"},
         UNCHANGED <<status, runs, lapsed, result, answer>>
  PROVE  DC!Next
  <1>1. DC!Close(S)
    BY DEF DC!Close, Known, TypeOK, Waiting
  <1> QED BY <1>1 DEF DC!Next

\* A step that leaves a caller waiting leaves its abstract call open.
LEMMA CallerWaitsOn ==
  ASSUME TypeOK,
         \A c \in Cmds : \/ caller'[c] = caller[c]
                         \/ /\ caller[c] \in Waiting \cup {"inserted"}
                            /\ caller'[c] \in Waiting,
         UNCHANGED <<status, runs, lapsed, result, answer>>
  PROVE  UNCHANGED DC!vars
  BY DEF DC!vars, TypeOK, Waiting

\* res.json(work) starts one run of the command, or reaches nobody.
LEMMA RespondRuns ==
  ASSUME TypeOK, NEW p \in Polls, NEW c \in Cmds, Respond(p, {c})
  PROVE  runs' = runs \/ runs' = [runs EXCEPT ![c] = runs[c] + 1]
  BY DEF Respond, TypeOK

\* Handing a claimed command to a poll is one run of it, or a stutter.
LEMMA DeliveryRuns ==
  ASSUME TypeOK, NEW c \in Cmds,
         runs' = runs \/ runs' = [runs EXCEPT ![c] = runs[c] + 1],
         status[c] # "absent", runs[c] <= lapsed[c],
         \A d \in Cmds : \/ status'[d] = status[d]
                         \/ status[d] = "pending" /\ status'[d] = "claimed",
         UNCHANGED <<caller, lapsed, result, answer>>
  PROVE  DC!Next \/ UNCHANGED DC!vars
  <1>1. CASE runs' = [runs EXCEPT ![c] = runs[c] + 1]
    <2>1. DC!Run(c)
      BY <1>1 DEF DC!Run, TypeOK
    <2> QED BY <2>1 DEF DC!Next
  <1>2. CASE runs' = runs
    BY <1>2 DEF DC!vars, TypeOK
  <1> QED BY <1>1, <1>2

\* Every step of the channel is a step of the durable command store, or none.
LEMMA NextRefines == IInv /\ [Next]_vars => [DC!Next]_(DC!vars)
  <1> SUFFICES ASSUME IInv, [Next]_vars PROVE DC!Next \/ UNCHANGED DC!vars
      OBVIOUS
  <1> TypeOK /\ Known /\ Budget /\ Produced /\ Answered
    BY DEF IInv
  <1>0. \A c \in Cmds : /\ runs[c] \in Nat /\ lapsed[c] \in Nat
                        /\ Cardinality(HeldBy(c)) \in Nat
                        /\ Claimable(c) \in 0..1
    BY HoldersCount DEF TypeOK, HeldBy, Claimable
  <1> USE DEF tableVars, callerVars, agentVars
  <1>1. ASSUME NEW c \in Cmds, CommandStep(c)
        PROVE  DC!Next \/ UNCHANGED DC!vars
    <2>1. CASE EnqueueCommand(c)
      <3>1. DC!Submit(c)
        BY <2>1 DEF EnqueueCommand, DC!Submit, Known, TypeOK
      <3> QED BY <3>1 DEF DC!Next
    <2>2. CASE NotifyAgentCmd(c) /\ c \in Detached
      <3> DEFINE S == {c}
      <3>1. /\ S \in SUBSET Cmds
            /\ \A d \in S : caller[d] \in Waiting \cup {"inserted"}
            /\ \A d \in Cmds \ S : caller'[d] = caller[d]
            /\ \A d \in S : caller'[d] \in {"rejected", "gone", "detached"}
            /\ UNCHANGED <<status, runs, lapsed, result, answer>>
        BY <2>2 DEF NotifyAgentCmd, TypeOK
      <3> HIDE DEF S
      <3> QED BY <3>1, CallerCloses
    <2>3. CASE NotifyAgentCmd(c) /\ c \notin Detached
      BY <2>3, CallerWaitsOn DEF NotifyAgentCmd, Waiting, TypeOK
    <2>4. CASE ResultSubscribed(c)
      BY <2>4, CallerWaitsOn DEF ResultSubscribed, Waiting, TypeOK
    <2>5. CASE GetCompletedResult(c)
      <3>1. DC!Answer(c)
        BY <2>5 DEF GetCompletedResult, DC!Answer, Answered, TypeOK
      <3> QED BY <3>1 DEF DC!Next
    <2>6. CASE SendTimeout(c)
      <3> DEFINE S == {c}
      <3>1. /\ S \in SUBSET Cmds
            /\ \A d \in S : caller[d] \in Waiting \cup {"inserted"}
            /\ \A d \in Cmds \ S : caller'[d] = caller[d]
            /\ \A d \in S : caller'[d] \in {"rejected", "gone", "detached"}
            /\ UNCHANGED <<status, runs, lapsed, result, answer>>
        BY <2>6 DEF SendTimeout, TypeOK
      <3> HIDE DEF S
      <3> QED BY <3>1, CallerCloses
    <2>7. CASE SubmitResult(c) \/ ClaimExpires(c)
      BY <2>7, Stutter DEF SubmitResult, ClaimExpires
    <2> QED
      BY <1>1, <2>1, <2>2, <2>3, <2>4, <2>5, <2>6, <2>7 DEF CommandStep
  <1>2. ASSUME NEW p \in Polls, PollStep(p)
        PROVE  DC!Next \/ UNCHANGED DC!vars
    <2>1. CASE ExpireStaleClaims(p)
      <3> DEFINE S == {c \in Cmds : Stale(c)}
      <3>1. DC!Lapse(S)
        BY <2>1 DEF ExpireStaleClaims, Stale, DC!Lapse, TypeOK
      <3> QED BY <3>1 DEF DC!Next
    <2>2. CASE HoldExpires(p) \/ HoldExpiresInFlight(p)
      <3>1. runs' = runs
        BY <2>2
        DEF HoldExpires, HoldExpiresInFlight, FinishEmpty, Respond, TypeOK
      <3> QED
        BY <2>2, <3>1, Stutter DEF HoldExpires, HoldExpiresInFlight, FinishEmpty
    <2>3. CASE \/ PollArrives(p) \/ StartHold(p) \/ CmdSubscribed(p)
               \/ NothingOnNotify(p)
      BY <2>3, Stutter
      DEF PollArrives, StartHold, CmdSubscribed, NothingOnNotify
    <2> QED BY <1>2, <2>1, <2>2, <2>3 DEF PollStep
  <1>3. ASSUME NEW p \in Polls, NEW c \in Cmds, ClaimStep(p, c)
        PROVE  DC!Next \/ UNCHANGED DC!vars
    <2>1. CASE ClaimAtOnce(p, c)
      <3>1. Claimable(c) = 1 /\ status[c] = "pending"
        BY <2>1 DEF ClaimAtOnce, ClaimRow, IsNext, Claimable
      <3>2. runs[c] <= lapsed[c]
        BY <1>0, <3>1 DEF Budget
      <3> QED
        <4>1. \A d \in Cmds : \/ status'[d] = status[d]
                              \/ status[d] = "pending" /\ status'[d] = "claimed"
          <5>1. status' = [status EXCEPT ![c] = "claimed"]
            BY <2>1 DEF ClaimAtOnce, ClaimRow
          <5> QED BY <3>1, <5>1 DEF TypeOK
        <4>2. UNCHANGED <<caller, lapsed, result, answer>>
          BY <2>1 DEF ClaimAtOnce, ClaimRow
        <4>3. runs' = runs \/ runs' = [runs EXCEPT ![c] = runs[c] + 1]
          BY <2>1, RespondRuns DEF ClaimAtOnce
        <4> QED BY <3>1, <3>2, <4>1, <4>2, <4>3, DeliveryRuns
    <2>2. CASE ClaimOnNotify(p, c)
      BY <2>2 DEF ClaimOnNotify, ClaimRow, IsNext, DC!vars, TypeOK
    <2>3. CASE FinishWithWork(p, c)
      <3>1. p \in HeldBy(c)
        BY <2>3 DEF FinishWithWork, HeldBy
      <3>2. Cardinality(HeldBy(c)) >= 1
        <4>1. Cardinality(HeldBy(c) \ {p}) = Cardinality(HeldBy(c)) - 1
          BY <3>1, HoldersCount DEF HeldBy
        <4>2. Cardinality(HeldBy(c) \ {p}) \in Nat
          BY HoldersCount DEF HeldBy
        <4> QED BY <1>0, <4>1, <4>2
      <3>3. runs[c] <= lapsed[c] /\ status[c] # "absent"
        BY <1>0, <3>1, <3>2 DEF Budget, Known
      <3> QED
        <4>1. UNCHANGED <<status, caller, lapsed, result, answer>>
          BY <2>3 DEF FinishWithWork
        <4>2. runs' = runs \/ runs' = [runs EXCEPT ![c] = runs[c] + 1]
          BY <2>3, RespondRuns DEF FinishWithWork
        <4> QED BY <3>3, <4>1, <4>2, DeliveryRuns
    <2> QED BY <1>3, <2>1, <2>2, <2>3 DEF ClaimStep
  <1>4. ASSUME NEW m \in posts, RespondStep(m)
        PROVE  DC!Next \/ UNCHANGED DC!vars
    <2>1. m.cmd \in Cmds /\ m.run \in 1..runs[m.cmd] /\ status[m.cmd] # "absent"
      BY DEF Produced, Known, TypeOK
    <2>2. CASE CompleteCommand(m)
      <3>1. DC!Store(m.cmd, m.run)
        BY <2>1, <2>2 DEF CompleteCommand, DC!Store, TypeOK
      <3> QED BY <2>1, <3>1 DEF DC!Next
    <2>3. CASE NotifyAgentResult(m)
      BY <2>3, CallerWaitsOn DEF NotifyAgentResult, Waiting, TypeOK
    <2> QED BY <1>4, <2>2, <2>3 DEF RespondStep
  <1>5. ASSUME FailureStep PROVE DC!Next \/ UNCHANGED DC!vars
    <2>1. CASE AgentDropsWork
      BY <2>1, Stutter DEF AgentDropsWork
    <2>2. CASE ListenClientError
      BY <2>2, CallerWaitsOn DEF ListenClientError, Waiting, TypeOK
    <2>3. CASE CloudRestart
      <3> DEFINE S == {c \in Cmds : caller[c] \in Waiting \cup {"inserted"}}
      <3>1. /\ S \in SUBSET Cmds
            /\ \A c \in S : caller[c] \in Waiting \cup {"inserted"}
        OBVIOUS
      <3>2. /\ \A c \in Cmds \ S : caller'[c] = caller[c]
            /\ \A c \in S : caller'[c] \in {"rejected", "gone", "detached"}
            /\ UNCHANGED <<status, runs, lapsed, result, answer>>
        BY <2>3 DEF CloudRestart, TypeOK
      <3> HIDE DEF S
      <3> QED BY <3>1, <3>2, CallerCloses
    <2> QED BY <1>5, <2>1, <2>2, <2>3 DEF FailureStep
  <1>6. CASE UNCHANGED vars
    BY <1>6, Stutter DEF vars
  <1> QED BY <1>1, <1>2, <1>3, <1>4, <1>5, <1>6 DEF Next

\* Polls, claims, listeners and failures are invisible to those who use the
\* channel: every behaviour of it is one of the durable command store.
THEOREM Refinement == Spec => ImplementsDurableCommands
  <1>1. Init => DC!Init
    BY DEF Init, DC!Init
  <1> QED BY <1>1, NextRefines, Inductive, PTL
          DEF Spec, ImplementsDurableCommands, DC!Spec
=============================================================================
