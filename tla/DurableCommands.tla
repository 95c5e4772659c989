--------------------------- MODULE DurableCommands ---------------------------
(***************************************************************************)
(* What sendToAgent, enqueueCommand and deliverResult promise to the rest  *)
(* of the cloud, without polls, claims, listeners or processes: a command  *)
(* is queued once and stays; it may run once, and once more for every      *)
(* extra delivery the channel has to spend; a result is the output of one  *)
(* of its runs; an answer is the stored result, or the caller is let go    *)
(* without one.                                                            *)
(***************************************************************************)
EXTENDS Naturals

CONSTANT Cmds

VARIABLES phase,    \* absent, queued or done
          runs,     \* how often it has run
          extra,    \* deliveries allowed beyond the first
          outcome,  \* the stored result: a run, 0 while there is none
          reply,    \* open, answered or closed without an answer
          answer    \* what the caller was answered

vars == <<phase, runs, extra, outcome, reply, answer>>

Init ==
    /\ phase   = [c \in Cmds |-> "absent"]
    /\ runs    = [c \in Cmds |-> 0]
    /\ extra   = [c \in Cmds |-> 0]
    /\ outcome = [c \in Cmds |-> 0]
    /\ reply   = [c \in Cmds |-> "open"]
    /\ answer  = [c \in Cmds |-> 0]

Submit(c) ==
    /\ phase[c] = "absent"
    /\ phase' = [phase EXCEPT ![c] = "queued"]
    /\ UNCHANGED <<runs, extra, outcome, reply, answer>>

\* A delivery within the budget.
Run(c) ==
    /\ phase[c] # "absent" /\ runs[c] <= extra[c]
    /\ runs' = [runs EXCEPT ![c] = @ + 1]
    /\ UNCHANGED <<phase, extra, outcome, reply, answer>>

\* Unfinished deliveries of some queued commands are given up.
Lapse(S) ==
    /\ \A c \in S : phase[c] = "queued"
    /\ extra' = [c \in Cmds |-> IF c \in S THEN extra[c] + 1 ELSE extra[c]]
    /\ UNCHANGED <<phase, runs, outcome, reply, answer>>

\* The output of one of the runs is stored, for good or over an earlier one.
Store(c, n) ==
    /\ phase[c] # "absent" /\ n \in 1..runs[c]
    /\ phase' = [phase EXCEPT ![c] = "done"]
    /\ outcome' = [outcome EXCEPT ![c] = n]
    /\ UNCHANGED <<runs, extra, reply, answer>>

Answer(c) ==
    /\ phase[c] = "done" /\ reply[c] = "open"
    /\ reply' = [reply EXCEPT ![c] = "answered"]
    /\ answer' = [answer EXCEPT ![c] = outcome[c]]
    /\ UNCHANGED <<phase, runs, extra, outcome>>

\* Time-outs, callers that do not wait, callers lost in a restart.
Close(S) ==
    /\ \A c \in S : phase[c] # "absent" /\ reply[c] = "open"
    /\ reply' = [c \in Cmds |-> IF c \in S THEN "closed" ELSE reply[c]]
    /\ UNCHANGED <<phase, runs, extra, outcome, answer>>

Next ==
    \/ \E c \in Cmds : Submit(c) \/ Run(c) \/ Answer(c)
    \/ \E c \in Cmds : \E n \in 1..runs[c] : Store(c, n)
    \/ \E S \in SUBSET Cmds : Lapse(S) \/ Close(S)

Spec == Init /\ [][Next]_vars
=============================================================================
