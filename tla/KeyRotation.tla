---------------------------- MODULE KeyRotation -----------------------------
(***************************************************************************)
(* Cloud-managed rotation of the API key of one agent connection:          *)
(* routes/key-rotation.js and rotateConnectionKey, ackKeyRotation of       *)
(* db/agent.js, verifyApiKey in front of /poll and /respond, and the       *)
(* handler _handle_rotate_key of agent/poll.py.                            *)
(*                                                                         *)
(* Keys are numbered in the order they were generated; 0 is the key of the *)
(* installation and the previous key is always the one before the current. *)
(* The command queue is that of AgentChannel with the state a rotation can *)
(* tell apart: its wake-ups and the interleaving inside a request are      *)
(* modelled there.                                                         *)
(***************************************************************************)
EXTENDS Naturals

CONSTANTS MaxRotations,  \* bound on rotations
          MaxFaults      \* bound on restarts, lost messages, failed writes

ASSUME KeyConstants == MaxRotations \in Nat /\ MaxFaults \in Nat

VARIABLES
    \* oracle_connections
    current,      \* the number of the key in proxy_api_key_enc
    graceOpen,    \* key_rotated_at is less than GRACE_WINDOW_MS ago
    keyStatus,    \* key_rotation_status
    \* agent_command_queue and sendToAgent: one command per rotation
    command,
    caller,
    \* the agent
    agentKey,     \* TUNEVAULT_API_KEY in agent.env and cfg.api_key
    agentAt,
    answer,       \* the command it is answering and whether the write worked
    \* history
    hurried,      \* a rotation was made while another one was pending
    late,         \* a window closed before the agent had the current key
    faults

keyVars == <<current, graceOpen, keyStatus, command, caller, agentKey,
             agentAt, answer, hurried, late, faults>>

Keys == 0..MaxRotations
Rotations == 1..MaxRotations
NoAnswer == [cmd |-> 0, ok |-> FALSE]

KeyTypeOK ==
    /\ current \in Keys
    /\ graceOpen \in BOOLEAN
    /\ keyStatus \in {"none", "pending", "acknowledged"}
    /\ command \in [Rotations -> {"absent", "unsent", "pending", "claimed",
                                  "completed"}]
    /\ caller \in [Rotations -> {"idle", "waiting", "acking", "over"}]
    /\ agentKey \in Keys
    /\ agentAt \in {"idle", "polling", "posting"}
    /\ answer \in [cmd : Keys, ok : BOOLEAN]
    /\ hurried \in BOOLEAN
    /\ late \in BOOLEAN
    /\ faults \in 0..MaxFaults

KeyInit ==
    /\ current = 0 /\ graceOpen = FALSE /\ keyStatus = "none"
    /\ command = [k \in Rotations |-> "absent"]
    /\ caller = [k \in Rotations |-> "idle"]
    /\ agentKey = 0 /\ agentAt = "idle" /\ answer = NoAnswer
    /\ hurried = FALSE /\ late = FALSE
    /\ faults = 0

Fault == faults < MaxFaults /\ faults' = faults + 1

\* verifyApiKey: the current key, or the previous one in its grace window.
Accepted(key) ==
    \/ key = current
    \/ graceOpen /\ key + 1 = current
-----------------------------------------------------------------------------
(* POST /api/connections/:id/rotate-key *)

\* rotateConnectionKey: current to previous, new to current, status pending.
Rotate ==
    /\ current < MaxRotations
    /\ current' = current + 1
    /\ graceOpen' = TRUE
    /\ keyStatus' = "pending"
    /\ command' = [command EXCEPT ![current + 1] = "unsent"]
    /\ hurried' = (hurried \/ keyStatus = "pending")
    /\ UNCHANGED <<caller, agentKey, agentAt, answer, late, faults>>

\* sendToAgent, not awaited, after the write and the activity log: the row of
\* the command and the 30 s promise.
SendRotateKey(k) ==
    /\ command[k] = "unsent"
    /\ command' = [command EXCEPT ![k] = "pending"]
    /\ caller' = [caller EXCEPT ![k] = "waiting"]
    /\ UNCHANGED <<current, graceOpen, keyStatus, agentKey, agentAt, answer,
                   hurried, late, faults>>

\* The promise is rejected after 30 s; the row stays in the queue.
SendTimesOut(k) ==
    /\ caller[k] = "waiting"
    /\ caller' = [caller EXCEPT ![k] = "over"]
    /\ UNCHANGED <<current, graceOpen, keyStatus, command, agentKey, agentAt,
                   answer, hurried, late, faults>>

\* ackKeyRotation, of whatever rotation is the latest by now.
AckKeyRotation(k) ==
    /\ caller[k] = "acking"
    /\ caller' = [caller EXCEPT ![k] = "over"]
    /\ keyStatus' = "acknowledged"
    /\ UNCHANGED <<current, graceOpen, command, agentKey, agentAt, answer,
                   hurried, late, faults>>

\* GRACE_WINDOW_MS have passed since key_rotated_at.
CloseGraceWindow ==
    /\ graceOpen
    /\ graceOpen' = FALSE
    /\ late' = (late \/ agentKey # current)
    /\ UNCHANGED <<current, keyStatus, command, caller, agentKey, agentAt,
                   answer, hurried, faults>>
-----------------------------------------------------------------------------
(* The agent *)

\* Mutant: expireStaleClaims does not filter on the status.
PollRevertsAny ==
    /\ agentAt = "idle"
    /\ Accepted(agentKey)
    /\ agentAt' = "polling"
    /\ \E lapsed \in SUBSET {k \in Rotations :
                             command[k] \in {"claimed", "completed"}} :
          command' = [k \in Rotations |-> IF k \in lapsed THEN "pending"
                                                          ELSE command[k]]
    /\ UNCHANGED <<current, graceOpen, keyStatus, caller, agentKey, answer,
                   hurried, late, faults>>

\* POST /api/agent/poll with a key verifyApiKey accepts: any claims of more
\* than 60 s are reverted and the request is held.  A refused poll gets 403,
\* which the loop treats as an outage: it changes nothing.
Poll ==
    /\ agentAt = "idle"
    /\ Accepted(agentKey)
    /\ agentAt' = "polling"
    /\ \E lapsed \in SUBSET {k \in Rotations : command[k] = "claimed"} :
          command' = [k \in Rotations |-> IF k \in lapsed THEN "pending"
                                                          ELSE command[k]]
    /\ UNCHANGED <<current, graceOpen, keyStatus, caller, agentKey, answer,
                   hurried, late, faults>>

\* The held request ends without a command.
PollEmpty ==
    /\ agentAt = "polling"
    /\ agentAt' = "idle"
    /\ UNCHANGED <<current, graceOpen, keyStatus, command, caller, agentKey,
                   answer, hurried, late, faults>>

\* The poll's claim of a pending command (those of overlapping rotations may
\* be enqueued in any order) and _handle_rotate_key: agent.env is replaced
\* and the key in memory with it, then the answer is posted.
HandleRotateKey(k) ==
    /\ agentAt = "polling"
    /\ command[k] = "pending"
    /\ command' = [command EXCEPT ![k] = "claimed"]
    /\ agentKey' = k
    /\ agentAt' = "posting"
    /\ answer' = [cmd |-> k, ok |-> TRUE]
    /\ UNCHANGED <<current, graceOpen, keyStatus, caller, hurried, late,
                   faults>>

\* The same when writing agent.env fails: the answer is a 500.
RotateKeyFails(k) ==
    /\ agentAt = "polling"
    /\ command[k] = "pending"
    /\ Fault
    /\ command' = [command EXCEPT ![k] = "claimed"]
    /\ agentAt' = "posting"
    /\ answer' = [cmd |-> k, ok |-> FALSE]
    /\ UNCHANGED <<current, graceOpen, keyStatus, caller, agentKey, hurried,
                   late>>

\* Mutant: the caller acknowledges whatever the agent answered.
RespondAlwaysAcks ==
    /\ agentAt = "posting"
    /\ agentAt' = "idle" /\ answer' = NoAnswer
    /\ IF Accepted(agentKey)
       THEN /\ command' = [command EXCEPT ![answer.cmd] = "completed"]
            /\ caller' = [caller EXCEPT ![answer.cmd] =
                             IF @ = "waiting" THEN "acking" ELSE @]
       ELSE UNCHANGED <<command, caller>>
    /\ UNCHANGED <<current, graceOpen, keyStatus, agentKey, hurried, late,
                   faults>>

\* POST /api/agent/respond with the key the agent has now.  deliverResult
\* completes the row and wakes a caller that still waits, which acknowledges
\* a 200.  With a key that is refused the answer is lost.
Respond ==
    /\ agentAt = "posting"
    /\ agentAt' = "idle" /\ answer' = NoAnswer
    /\ IF Accepted(agentKey)
       THEN /\ command' = [command EXCEPT ![answer.cmd] = "completed"]
            /\ caller' = [caller EXCEPT ![answer.cmd] =
                             IF @ # "waiting" THEN @
                             ELSE IF answer.ok THEN "acking" ELSE "over"]
       ELSE UNCHANGED <<command, caller>>
    /\ UNCHANGED <<current, graceOpen, keyStatus, agentKey, hurried, late,
                   faults>>

\* The answer is lost, or the restart that the handler starts comes first:
\* the claim will lapse and the command be executed again.
AnswerLost ==
    /\ agentAt = "posting"
    /\ Fault
    /\ agentAt' = "idle" /\ answer' = NoAnswer
    /\ UNCHANGED <<current, graceOpen, keyStatus, command, caller, agentKey,
                   hurried, late>>

\* tunevault-agent rotate-key: the operator enters the key shown last.
SetKeyByHand ==
    /\ agentAt = "idle"
    /\ agentKey # current
    /\ agentKey' = current
    /\ UNCHANGED <<current, graceOpen, keyStatus, command, caller, agentAt,
                   answer, hurried, late, faults>>

\* A restart of the web server drops the promises, what had not reached the
\* queue yet and the requests it holds; the rows remain.
ServerRestart ==
    /\ Fault
    /\ command' = [k \in Rotations |-> IF command[k] = "unsent" THEN "absent"
                                                               ELSE command[k]]
    /\ caller' = [k \in Rotations |-> IF caller[k] = "idle" THEN "idle"
                                                            ELSE "over"]
    /\ agentAt' = "idle" /\ answer' = NoAnswer
    /\ UNCHANGED <<current, graceOpen, keyStatus, agentKey, hurried, late>>
-----------------------------------------------------------------------------
KeyStep ==
    \/ Rotate \/ CloseGraceWindow
    \/ \E k \in Rotations : SendRotateKey(k) \/ SendTimesOut(k)
                            \/ AckKeyRotation(k)
    \/ PollEmpty \/ Respond \/ AnswerLost \/ SetKeyByHand
    \/ \E k \in Rotations : HandleRotateKey(k) \/ RotateKeyFails(k)

KeyNext == KeyStep \/ Poll \/ ServerRestart

KeySpec == KeyInit /\ [][KeyNext]_keyVars
-----------------------------------------------------------------------------
(* What rotation promises *)

\* As long as every rotation is acknowledged before the next is asked for, a
\* status of acknowledged means the agent uses the current key: answers that
\* are lost, late or repeated and commands delivered twice do not set an
\* older key back.
AcknowledgedHasKey ==
    ~hurried /\ keyStatus = "acknowledged" => agentKey = current

\* The agent's key is refused only after a window closed before the command
\* reached the agent, or after rotations that overlapped: redeliveries, lost
\* answers, failed writes and restarts alone never cut the agent off.
CutOffOnlyWhenLate ==
    ~Accepted(agentKey) => hurried \/ late
=============================================================================
