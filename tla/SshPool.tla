------------------------------- MODULE SshPool -------------------------------
(***************************************************************************)
(* The pool of SSH clients of services/oracle-runner.js, keyed by          *)
(* connection, with its LRU cap and its idle reaper, the callers that run  *)
(* one command on a pooled client, and the handler of                      *)
(* routes/ssh-connectivity.js that saves new SSH settings and evicts the   *)
(* connection's client.                                                    *)
(*                                                                         *)
(* A client is an ssh2 Client object; its slot is reused when it is closed *)
(* and nobody holds it.  Its events are the environment.                   *)
(***************************************************************************)
EXTENDS Naturals, FiniteSets

CONSTANTS Ids,      \* oracle_connections.id, integers
          Callers,  \* concurrent requests that use the pool
          Clients,  \* slots for ssh2 clients
          MaxPool,  \* MAX_SSH_POOL_SIZE
          None

ASSUME ConstantsAssumption ==
    /\ IsFiniteSet(Ids) /\ IsFiniteSet(Callers) /\ IsFiniteSet(Clients)
    /\ MaxPool \in Nat \ {0}
    /\ None \notin Ids \cup Clients

VARIABLES
    pool,      \* the Map: connection -> client, or None
    before,    \* its iteration order: <<i, j>> if the entry of i precedes j's
    phase,     \* of each client
    host,      \* the connection a client was created for
    caller,    \* where each caller is
    wants,     \* the connection it works on
    client,    \* the client it waits for or uses
    staleRow,  \* callers whose row was read before the settings were saved
    outdated,  \* clients that connected with settings since replaced
    saving     \* connections between the UPDATE and evictSshPool

poolVars   == <<pool, before>>
clientVars == <<phase, host>>
callerVars == <<caller, wants, client>>
credVars   == <<staleRow, outdated, saving>>
vars == <<poolVars, clientVars, callerVars, credVars>>

TypeOK ==
    /\ pool   \in [Ids -> Clients \cup {None}]
    /\ before \in SUBSET (Ids \X Ids)
    /\ phase  \in [Clients -> {"closed", "connecting", "open", "ending", "failed"}]
    /\ host   \in [Clients -> Ids \cup {None}]
    /\ caller \in [Callers -> {"idle", "loaded", "connecting", "using"}]
    /\ wants  \in [Callers -> Ids \cup {None}]
    /\ client \in [Callers -> Clients \cup {None}]
    /\ staleRow \in SUBSET Callers
    /\ outdated \in SUBSET Clients
    /\ saving   \in SUBSET Ids

Init ==
    /\ pool   = [i \in Ids |-> None]
    /\ before = {}
    /\ phase  = [k \in Clients |-> "closed"]
    /\ host   = [k \in Clients |-> None]
    /\ caller = [u \in Callers |-> "idle"]
    /\ wants  = [u \in Callers |-> None]
    /\ client = [u \in Callers |-> None]
    /\ staleRow = {} /\ outdated = {} /\ saving = {}
-----------------------------------------------------------------------------
(* The Map *)

Pooled == {i \in Ids : pool[i] # None}

OrderWithout(S) == {o \in before : o[1] \notin S /\ o[2] \notin S}

\* _pool.delete
Delete(S) ==
    /\ pool' = [i \in Ids |-> IF i \in S THEN None ELSE pool[i]]
    /\ before' = OrderWithout(S)

\* _pool.set: a key that is already there keeps its place.
Set(i, k) ==
    /\ pool' = [pool EXCEPT ![i] = k]
    /\ before' = IF i \in Pooled THEN before ELSE before \cup (Pooled \X {i})

\* _touch: delete and set again, which moves the key to the end.
Touch(i) ==
    /\ before' = OrderWithout({i}) \cup ((Pooled \ {i}) \X {i})
    /\ UNCHANGED pool

\* _pool.entries().next()
IsLru(i) == i \in Pooled /\ \A j \in Pooled : <<j, i>> \notin before

\* req.params.id of connection i: a string, while the keys of the Map are the
\* integers of the rows.  A Map does not convert.
PathParam(i) == <<i>>

Free(k) == phase[k] = "closed" /\ \A u \in Callers : client[u] # k
-----------------------------------------------------------------------------
(* getSshClient and its callers *)

\* Mutant: the caller passes the id of its path instead of the row's.
LoadPathParam(u, i) ==
    /\ caller[u] = "idle"
    /\ caller' = [caller EXCEPT ![u] = "loaded"]
    /\ wants'  = [wants EXCEPT ![u] = PathParam(i)]
    /\ staleRow' = staleRow \ {u}
    /\ UNCHANGED <<poolVars, clientVars, client, outdated, saving>>

\* A request reads its row of oracle_connections.
LoadRow(u, i) ==
    /\ caller[u] = "idle"
    /\ caller' = [caller EXCEPT ![u] = "loaded"]
    /\ wants'  = [wants EXCEPT ![u] = i]
    /\ staleRow' = staleRow \ {u}
    /\ UNCHANGED <<poolVars, clientVars, client, outdated, saving>>

\* A ready entry is promoted and its client returned.
UsePooled(u) ==
    /\ caller[u] = "loaded"
    /\ wants[u] \in Pooled
    /\ Touch(wants[u])
    /\ caller' = [caller EXCEPT ![u] = "using"]
    /\ client' = [client EXCEPT ![u] = pool[wants[u]]]
    /\ UNCHANGED <<clientVars, wants, credVars>>

\* Mutant: the victim is dropped from the Map but not closed.
DropVictim(S, k) ==
    /\ Delete(S)
    /\ phase' = IF k = None THEN phase ELSE [phase EXCEPT ![k] = "connecting"]

\* Ends the clients of the entries in S, drops the entries, and lets client
\* k, if any, begin to connect.
EndVictim(S, k) ==
    /\ Delete(S)
    /\ phase' = [c \in Clients |->
                   IF c = k THEN "connecting"
                   ELSE IF \E i \in S : pool[i] = c THEN "ending"
                   ELSE phase[c]]

\* Mutant: the capacity check is off by one.
VictimsBeyond(S) ==
    IF Cardinality(Pooled) > MaxPool
    THEN \E i \in Ids : IsLru(i) /\ S = {i}
    ELSE S = {}

\* The entries evicted before a connect: the LRU one when the pool is full.
Victims(S) ==
    IF Cardinality(Pooled) >= MaxPool
    THEN \E i \in Ids : IsLru(i) /\ S = {i}
    ELSE S = {}

\* No entry: make room, then create a client and connect.  The entry for it
\* is made only when it is ready.
StartConnect(u, k) ==
    /\ caller[u] = "loaded" /\ wants[u] \notin Pooled
    /\ Free(k)
    /\ \E S \in SUBSET Ids : Victims(S) /\ EndVictim(S, k)
    /\ host' = [host EXCEPT ![k] = wants[u]]
    /\ caller' = [caller EXCEPT ![u] = "connecting"]
    /\ client' = [client EXCEPT ![u] = k]
    /\ outdated' = IF u \in staleRow THEN outdated \cup {k} ELSE outdated \ {k}
    /\ UNCHANGED <<wants, staleRow, saving>>

\* The key cannot be decrypted; the victim is gone all the same.
DecryptFails(u) ==
    /\ caller[u] = "loaded" /\ wants[u] \notin Pooled
    /\ \E S \in SUBSET Ids : Victims(S) /\ EndVictim(S, None)
    /\ caller' = [caller EXCEPT ![u] = "idle"]
    /\ UNCHANGED <<host, wants, client, credVars>>

\* The command has returned, failed or timed out (30 s).
CallerDone(u) ==
    /\ caller[u] = "using"
    /\ caller' = [caller EXCEPT ![u] = "idle"]
    /\ client' = [client EXCEPT ![u] = None]
    /\ UNCHANGED <<poolVars, clientVars, wants, credVars>>
-----------------------------------------------------------------------------
(* Events of a client *)

\* 'ready'
Ready(k) ==
    /\ phase[k] = "connecting"
    /\ phase' = [phase EXCEPT ![k] = "open"]
    /\ Set(host[k], k)
    /\ caller' = [u \in Callers |-> IF caller[u] = "connecting" /\ client[u] = k
                                    THEN "using" ELSE caller[u]]
    /\ UNCHANGED <<host, wants, client, credVars>>

\* 'error', before or after 'ready': delete the entry of the connection,
\* whichever client it names, and reject.
ClientError(k) ==
    /\ phase[k] \in {"connecting", "open"}
    /\ phase' = [phase EXCEPT ![k] = "failed"]
    /\ Delete({host[k]})
    /\ caller' = [u \in Callers |-> IF caller[u] = "connecting" /\ client[u] = k
                                    THEN "idle" ELSE caller[u]]
    /\ client' = [u \in Callers |-> IF caller[u] = "connecting" /\ client[u] = k
                                    THEN None ELSE client[u]]
    /\ UNCHANGED <<host, wants, credVars>>

\* Mutant: no handler for 'close'.
ClosedUnnoticed(k) ==
    /\ phase[k] \in {"open", "ending", "failed"}
    /\ phase' = [phase EXCEPT ![k] = "closed"]
    /\ UNCHANGED <<poolVars, host, callerVars, credVars>>

\* 'close', after end(), after an error or because the server hung up.
Closed(k) ==
    /\ phase[k] \in {"open", "ending", "failed"}
    /\ phase' = [phase EXCEPT ![k] = "closed"]
    /\ Delete({host[k]})
    /\ UNCHANGED <<host, callerVars, credVars>>

\* The reaper finds entry i unused for 5 minutes, longer than any command.
Reap(i) ==
    /\ i \in Pooled
    /\ \A u \in Callers : caller[u] = "using" => client[u] # pool[i]
    /\ EndVictim({i}, None)
    /\ UNCHANGED <<host, callerVars, credVars>>
-----------------------------------------------------------------------------
(* PUT /api/connections/:id/ssh-connectivity *)

\* UPDATE oracle_connections.
SaveSettings(i) ==
    /\ i \notin saving
    /\ saving' = saving \cup {i}
    /\ staleRow' = staleRow \cup {u \in Callers : caller[u] = "loaded" /\ wants[u] = i}
    /\ outdated' = outdated \cup {k \in Clients : phase[k] # "closed" /\ host[k] = i}
    /\ UNCHANGED <<poolVars, clientVars, callerVars>>

\* evictSshPool(req.params.id)
EvictSshPool(i) ==
    /\ i \in saving
    /\ saving' = saving \ {i}
    /\ IF PathParam(i) \in Pooled
       THEN EndVictim({PathParam(i)}, None)
       ELSE UNCHANGED <<poolVars, phase>>
    /\ UNCHANGED <<host, callerVars, staleRow, outdated>>
-----------------------------------------------------------------------------
CallerStep(u) ==
    \/ UsePooled(u) \/ DecryptFails(u) \/ CallerDone(u)
    \/ \E i \in Ids : LoadRow(u, i)
    \/ \E k \in Clients : StartConnect(u, k)

ClientStep(k) == Ready(k) \/ ClientError(k) \/ Closed(k)

ConnectionStep(i) == Reap(i) \/ SaveSettings(i) \/ EvictSshPool(i)

Next ==
    \/ \E u \in Callers : CallerStep(u)
    \/ \E k \in Clients : ClientStep(k)
    \/ \E i \in Ids : ConnectionStep(i)

Spec == Init /\ [][Next]_vars
-----------------------------------------------------------------------------
Connecting == {k \in Clients : phase[k] = "connecting"}

\* The cap is checked when a connect starts and the entry is made when it
\* ends: the pool overshoots MAX_SSH_POOL_SIZE, but by less than the number
\* of concurrent callers, connects in progress included.
OvershootIsBounded ==
    Cardinality(Pooled) + Cardinality(Connecting)
        < MaxPool + Cardinality(Callers)

\* Whatever the order of end(), 'error' and 'close' of several clients of
\* one connection, getSshClient never finds a client that is not open or
\* that belongs to another connection.
PooledIsOpen ==
    \A i \in Pooled : phase[pool[i]] = "open" /\ host[pool[i]] = i

\* A client leaves the pool without being closed only through an event of
\* another client of the same connection: LRU, reaper and evictSshPool never
\* leak one.
DroppedOnlyByRace ==
    [][\A i \in Pooled :
         LET k == pool[i] IN
         pool'[i] # k /\ phase'[k] = "open" =>
             \E c \in Clients \ {k} : phase[c] # "closed" /\ host[c] = i]_vars

\* "Evict any stale pooled SSH connection so next query re-connects with new
\* creds" (ssh-connectivity.js:273): once the handler is through, no entry of
\* the connection has the old ones.
NextQueryReconnects ==
    \A i \in Pooled \ saving : pool[i] \notin outdated
=============================================================================
