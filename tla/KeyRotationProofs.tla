------------------------- MODULE KeyRotationProofs --------------------------
(***************************************************************************)
(* Theorems about KeyRotation, for any bounds on rotations and faults.     *)
(***************************************************************************)
EXTENDS KeyRotation, TLAPS

\* Commands of earlier rotations are completed and nobody waits for them;
\* later ones do not exist.
Earlier ==
    \A k \in Rotations :
        /\ k < current => command[k] = "completed" /\ caller[k] = "over"
        /\ k > current => command[k] = "absent" /\ caller[k] = "idle"

\* What is acknowledged, or about to be, has reached the agent for good.
Confirmed ==
    /\ keyStatus = "none" <=> current = 0
    /\ keyStatus = "acknowledged" => caller[current] = "over"
    /\ keyStatus = "acknowledged" \/ (current # 0 /\ caller[current] = "acking")
       => agentKey = current /\ command[current] = "completed"

\* The answer being posted is about the current rotation.
Answering ==
    agentAt = "posting" =>
        /\ current # 0 /\ answer.cmd = current
        /\ command[current] = "claimed"
        /\ answer.ok => agentKey = current

\* The agent is at most one key behind, and after the window not without
\* having been late.
OneBehind ==
    /\ agentKey = current \/ agentKey + 1 = current
    /\ ~graceOpen /\ agentKey # current => late

InStep == Earlier /\ Confirmed /\ Answering /\ OneBehind

\* Whatever happens, the answer being posted belongs to a rotation.
AnswersRotation == agentAt = "posting" => answer.cmd \in Rotations

KeyInv == KeyTypeOK /\ AnswersRotation /\ (~hurried => InStep)

\* Nothing has been rotated yet.
LEMMA KeyInitInv == KeyInit => KeyInv
  <1> SUFFICES ASSUME KeyInit PROVE KeyInv
    OBVIOUS
  <1> USE KeyConstants
  <1>1. KeyTypeOK
    <2>1. NoAnswer \in [cmd : Keys, ok : BOOLEAN] /\ 0 \in Keys /\ 0 \in 0..MaxFaults
      BY DEF NoAnswer, Keys
    <2> QED
      BY <2>1 DEF KeyInit, KeyTypeOK
  <1>2. AnswersRotation
    BY DEF KeyInit, AnswersRotation
  <1>3. InStep
    BY DEF KeyInit, InStep, Earlier, Confirmed, Answering, OneBehind, Rotations
  <1> QED
    BY <1>1, <1>2, <1>3 DEF KeyInv

\* A step keeps the types, and only the handler starts an answer.
LEMMA KeyNextTypes == KeyInv /\ [KeyNext]_keyVars => KeyTypeOK' /\ AnswersRotation'
  <1> SUFFICES ASSUME KeyInv, [KeyNext]_keyVars
               PROVE KeyTypeOK' /\ AnswersRotation'
    OBVIOUS
  <1> USE KeyConstants DEF KeyInv
  <1>1. ASSUME Rotate PROVE KeyTypeOK' /\ AnswersRotation'
    BY <1>1 DEF Rotate, KeyTypeOK, AnswersRotation, Keys, Rotations
  <1>2. ASSUME CloseGraceWindow PROVE KeyTypeOK' /\ AnswersRotation'
    BY <1>2 DEF CloseGraceWindow, KeyTypeOK, AnswersRotation
  <1>3. ASSUME NEW k \in Rotations, SendRotateKey(k) PROVE KeyTypeOK' /\ AnswersRotation'
    BY <1>3 DEF SendRotateKey, KeyTypeOK, AnswersRotation
  <1>4. ASSUME NEW k \in Rotations, SendTimesOut(k) \/ AckKeyRotation(k)
        PROVE KeyTypeOK' /\ AnswersRotation'
    BY <1>4 DEF SendTimesOut, AckKeyRotation, KeyTypeOK, AnswersRotation
  <1>5. ASSUME PollEmpty \/ SetKeyByHand PROVE KeyTypeOK' /\ AnswersRotation'
    BY <1>5 DEF PollEmpty, SetKeyByHand, KeyTypeOK, AnswersRotation
  <1>6. ASSUME Respond PROVE KeyTypeOK' /\ AnswersRotation'
    <2>1. answer' \in [cmd : Keys, ok : BOOLEAN] /\ agentAt' = "idle"
      BY <1>6 DEF Respond, NoAnswer, Keys
    <2>2. answer.cmd \in Rotations
      BY <1>6 DEF Respond, AnswersRotation
    <2>3. command' \in [Rotations -> {"absent", "unsent", "pending", "claimed",
                                     "completed"}]
      BY <1>6, <2>2 DEF Respond, KeyTypeOK
    <2>4. caller' \in [Rotations -> {"idle", "waiting", "acking", "over"}]
      BY <1>6, <2>2 DEF Respond, KeyTypeOK
    <2>5. UNCHANGED <<current, graceOpen, keyStatus, agentKey, hurried, late,
                      faults>>
      BY <1>6 DEF Respond
    <2> QED
      BY <2>1, <2>3, <2>4, <2>5 DEF KeyTypeOK, AnswersRotation
  <1>7. ASSUME AnswerLost PROVE KeyTypeOK' /\ AnswersRotation'
    BY <1>7 DEF AnswerLost, Fault, NoAnswer, KeyTypeOK, AnswersRotation, Keys
  <1>8. ASSUME NEW k \in Rotations, HandleRotateKey(k)
        PROVE KeyTypeOK' /\ AnswersRotation'
    BY <1>8 DEF HandleRotateKey, KeyTypeOK, AnswersRotation, Keys, Rotations
  <1>9. ASSUME NEW k \in Rotations, RotateKeyFails(k)
        PROVE KeyTypeOK' /\ AnswersRotation'
    BY <1>9 DEF RotateKeyFails, Fault, KeyTypeOK, AnswersRotation, Keys, Rotations
  <1>10. ASSUME Poll PROVE KeyTypeOK' /\ AnswersRotation'
    BY <1>10 DEF Poll, KeyTypeOK, AnswersRotation
  <1>11. ASSUME ServerRestart PROVE KeyTypeOK' /\ AnswersRotation'
    BY <1>11 DEF ServerRestart, Fault, NoAnswer, KeyTypeOK, AnswersRotation, Keys
  <1>12. ASSUME UNCHANGED keyVars PROVE KeyTypeOK' /\ AnswersRotation'
    BY <1>12 DEF keyVars, KeyTypeOK, AnswersRotation
  <1> QED
    BY <1>1, <1>2, <1>3, <1>4, <1>5, <1>6, <1>7, <1>8, <1>9, <1>10, <1>11,
       <1>12 DEF KeyNext, KeyStep

\* Rotating after an acknowledgement leaves nothing of the old rotation open.
LEMMA RotateInStep ==
  ASSUME KeyInv, Rotate, ~hurried'
  PROVE  InStep'
  <1> USE KeyConstants DEF KeyInv
  <1>1. /\ ~hurried /\ InStep /\ keyStatus # "pending"
        /\ current' = current + 1 /\ keyStatus' = "pending" /\ graceOpen' = TRUE
        /\ command' = [command EXCEPT ![current + 1] = "unsent"]
        /\ UNCHANGED <<caller, agentKey, agentAt, answer>>
        /\ UNCHANGED late
    BY DEF Rotate
  <1>0. current + 1 \in Rotations /\ current \in Nat /\ agentKey \in Nat
    BY DEF Rotate, KeyTypeOK, Keys, Rotations
  <1>2. agentKey = current /\ agentAt # "posting"
    BY <1>0, <1>1 DEF InStep, Confirmed, Answering, OneBehind, KeyTypeOK, Keys
  <1>3. current # 0 => /\ current \in Rotations
                       /\ command[current] = "completed" /\ caller[current] = "over"
    BY <1>0, <1>1 DEF InStep, Confirmed, KeyTypeOK, Keys, Rotations
  <1>4. Earlier'
    BY <1>0, <1>1, <1>3 DEF InStep, Earlier, KeyTypeOK, Keys, Rotations
  <1>5. Confirmed'
    BY <1>0, <1>1 DEF InStep, Earlier, Confirmed, KeyTypeOK, Rotations
  <1>6. Answering' /\ OneBehind'
    BY <1>0, <1>1, <1>2 DEF Answering, OneBehind
  <1> QED
    BY <1>4, <1>5, <1>6 DEF InStep

\* The command that is sent, times out or is acknowledged is the current one.
LEMMA CallerInStep ==
  ASSUME KeyInv, ~hurried, NEW k \in Rotations,
         SendRotateKey(k) \/ SendTimesOut(k) \/ AckKeyRotation(k)
  PROVE  InStep'
  <1> USE KeyConstants DEF KeyInv
  <1>1. k = current
    BY DEF SendRotateKey, SendTimesOut, AckKeyRotation, InStep, Earlier,
           KeyTypeOK, Keys, Rotations
  <1>2. UNCHANGED <<current, graceOpen, agentKey, agentAt, answer, late>>
    BY DEF SendRotateKey, SendTimesOut, AckKeyRotation
  <1>3. Earlier'
    BY <1>1, <1>2 DEF SendRotateKey, SendTimesOut, AckKeyRotation, InStep,
                      Earlier, KeyTypeOK
  <1>4. Confirmed'
    BY <1>1, <1>2 DEF SendRotateKey, SendTimesOut, AckKeyRotation, InStep,
                      Confirmed, KeyTypeOK, Rotations
  <1>5. Answering'
    BY <1>1, <1>2 DEF SendRotateKey, SendTimesOut, AckKeyRotation, InStep,
                      Answering, KeyTypeOK
  <1>6. OneBehind'
    BY <1>2 DEF InStep, OneBehind
  <1> QED
    BY <1>3, <1>4, <1>5, <1>6 DEF InStep

\* The agent handles the current command, and reports on it.
LEMMA AgentInStep ==
  ASSUME KeyInv, ~hurried,
         \/ Respond \/ AnswerLost \/ PollEmpty \/ SetKeyByHand
         \/ \E k \in Rotations : HandleRotateKey(k) \/ RotateKeyFails(k)
  PROVE  InStep'
  <1> USE KeyConstants DEF KeyInv
  <1>0. UNCHANGED <<current, graceOpen, keyStatus, late>> /\ InStep
    BY DEF Respond, AnswerLost, PollEmpty, SetKeyByHand, HandleRotateKey,
           RotateKeyFails
  <1>1. ASSUME NEW k \in Rotations, HandleRotateKey(k) \/ RotateKeyFails(k)
        PROVE  InStep'
    <2>1. k = current /\ current # 0 /\ command[current] = "pending"
      BY <1>1 DEF HandleRotateKey, RotateKeyFails, InStep, Earlier, KeyTypeOK,
                  Keys, Rotations
    <2>2. Earlier'
      BY <1>0, <1>1, <2>1 DEF HandleRotateKey, RotateKeyFails, InStep, Earlier,
                              KeyTypeOK
    <2>3. Confirmed'
      BY <1>0, <1>1, <2>1 DEF HandleRotateKey, RotateKeyFails, InStep, Confirmed,
                              KeyTypeOK
    <2>4. Answering'
      BY <1>0, <1>1, <2>1 DEF HandleRotateKey, RotateKeyFails, Answering, KeyTypeOK
    <2>5. OneBehind'
      BY <1>0, <1>1, <2>1 DEF HandleRotateKey, RotateKeyFails, InStep, OneBehind
    <2> QED
      BY <2>2, <2>3, <2>4, <2>5 DEF InStep
  <1>2. ASSUME Respond PROVE InStep'
    <2>1. /\ answer.cmd = current /\ current \in Rotations
          /\ answer.ok => agentKey = current
          /\ agentAt' = "idle" /\ UNCHANGED agentKey
          /\ command[current] = "claimed"
      BY <1>2 DEF Respond, InStep, Answering, AnswersRotation
    <2>2. Earlier'
      BY <1>0, <1>2, <2>1 DEF Respond, InStep, Earlier, KeyTypeOK, Rotations
    <2>3. Confirmed'
      BY <1>0, <1>2, <2>1 DEF Respond, InStep, Confirmed, KeyTypeOK
    <2>4. Answering' /\ OneBehind'
      BY <1>0, <2>1 DEF InStep, Answering, OneBehind
    <2> QED
      BY <2>2, <2>3, <2>4 DEF InStep
  <1>3. ASSUME AnswerLost \/ PollEmpty \/ SetKeyByHand PROVE InStep'
    <2>1. UNCHANGED <<command, caller>> /\ agentAt' # "posting"
          /\ (agentKey' = agentKey \/ agentKey' = current)
      BY <1>3 DEF AnswerLost, PollEmpty, SetKeyByHand
    <2> QED
      BY <1>0, <2>1 DEF InStep, Earlier, Confirmed, Answering, OneBehind
  <1> QED
    BY <1>1, <1>2, <1>3

\* Time, polls and restarts of the server change nothing that is settled.
LEMMA OtherInStep ==
  ASSUME KeyInv, ~hurried,
         Poll \/ CloseGraceWindow \/ ServerRestart \/ UNCHANGED keyVars
  PROVE  InStep'
  <1> USE KeyConstants DEF KeyInv
  <1>1. ASSUME Poll PROVE InStep'
    <2>1. /\ UNCHANGED <<current, graceOpen, keyStatus, caller, agentKey, late>>
          /\ agentAt' = "polling"
          /\ \A k \in Rotations : command[k] # "claimed" => command'[k] = command[k]
      BY <1>1 DEF Poll, KeyTypeOK
    <2>2. current # 0 => current \in Rotations
      BY DEF KeyTypeOK, Keys, Rotations
    <2>3. keyStatus = "acknowledged" => current # 0
      BY DEF InStep, Confirmed
    <2> QED
      BY <2>1, <2>2, <2>3 DEF InStep, Earlier, Confirmed, Answering, OneBehind
  <1>2. ASSUME CloseGraceWindow PROVE InStep'
    BY <1>2 DEF CloseGraceWindow, InStep, Earlier, Confirmed, Answering, OneBehind
  <1>3. ASSUME ServerRestart PROVE InStep'
    <2>1. /\ UNCHANGED <<current, graceOpen, keyStatus, agentKey, late>>
          /\ agentAt' = "idle"
          /\ \A k \in Rotations :
                /\ command[k] # "unsent" => command'[k] = command[k]
                /\ caller'[k] = IF caller[k] = "idle" THEN "idle" ELSE "over"
      BY <1>3 DEF ServerRestart, KeyTypeOK
    <2>2. current # 0 => current \in Rotations
      BY DEF KeyTypeOK, Keys, Rotations
    <2>3. keyStatus = "acknowledged" => current # 0
      BY DEF InStep, Confirmed
    <2> QED
      BY <2>1, <2>2, <2>3 DEF InStep, Earlier, Confirmed, Answering, OneBehind
  <1>4. ASSUME UNCHANGED keyVars PROVE InStep'
    BY <1>4 DEF keyVars, InStep, Earlier, Confirmed, Answering, OneBehind
  <1> QED
    BY <1>1, <1>2, <1>3, <1>4

\* The invariant of rotation is inductive, also in a system around it.
LEMMA KeyNextInv == KeyInv /\ [KeyNext]_keyVars => KeyInv'
  <1> SUFFICES ASSUME KeyInv, [KeyNext]_keyVars PROVE KeyInv'
    OBVIOUS
  <1>1. KeyTypeOK' /\ AnswersRotation'
    BY KeyNextTypes
  <1>2. ASSUME ~hurried' PROVE InStep'
    <2>1. Rotate \/ (~hurried /\ ~Rotate)
      BY <1>2 DEF KeyNext, KeyStep, keyVars, CloseGraceWindow, SendRotateKey,
                  SendTimesOut, AckKeyRotation, PollEmpty, Respond, AnswerLost,
                  SetKeyByHand, HandleRotateKey, RotateKeyFails, Poll,
                  ServerRestart
    <2> QED
      BY <1>2, <2>1, RotateInStep, CallerInStep, AgentInStep, OtherInStep
      DEF KeyNext, KeyStep
  <1> QED
    BY <1>1, <1>2 DEF KeyInv

\* What the invariant is for.
LEMMA KeyInvImplies == KeyInv => AcknowledgedHasKey /\ CutOffOnlyWhenLate
  BY DEF KeyInv, InStep, Confirmed, OneBehind, AcknowledgedHasKey,
         CutOffOnlyWhenLate, Accepted

\* Of any behaviour of rotation: types, an acknowledgement that can be relied
\* on, and an agent that is cut off only after it was late.
THEOREM RotationsHold ==
    KeySpec => [](KeyTypeOK /\ AcknowledgedHasKey /\ CutOffOnlyWhenLate)
  <1>1. KeyInv => KeyTypeOK
    BY DEF KeyInv
  <1> QED
    BY <1>1, KeyInitInv, KeyNextInv, KeyInvImplies, PTL DEF KeySpec
=============================================================================
