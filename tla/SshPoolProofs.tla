---------------------------- MODULE SshPoolProofs ----------------------------
(***************************************************************************)
(* Theorems about SshPool, for every cap and every finite number of        *)
(* connections, callers and clients.                                       *)
(***************************************************************************)
EXTENDS SshPool, FiniteSetTheorems, TLAPS

\* A caller past LoadRow works on a connection.
Targeted ==
    \A u \in Callers : caller[u] # "idle" => wants[u] \in Ids

\* A client that is not closed was created for a connection.
Hosted ==
    \A k \in Clients : phase[k] # "closed" => host[k] \in Ids

\* A client that connects has a caller waiting for it.
Awaited ==
    \A k \in Connecting :
        \E u \in Callers : caller[u] = "connecting" /\ client[u] = k

PoolInv == TypeOK /\ Targeted /\ Hosted /\ Awaited /\ PooledIsOpen

-----------------------------------------------------------------------------
(* Type correctness and what every open or connecting client belongs to *)

\* The pool starts empty, with no client.
LEMMA InitPoolInv == Init => PoolInv
  BY DEF Init, PoolInv, TypeOK, Targeted, Hosted, Awaited, PooledIsOpen,
         Connecting, Pooled

\* The steps of a caller preserve PoolInv.
LEMMA CallerStepPoolInv ==
  ASSUME PoolInv, NEW u \in Callers, CallerStep(u)
  PROVE  PoolInv'
  <1> USE ConstantsAssumption DEF PoolInv, TypeOK, Targeted, Hosted, Awaited,
          PooledIsOpen, Connecting, Pooled, poolVars, clientVars, callerVars,
          credVars
  <1>1. CASE UsePooled(u)
    <2>1. UNCHANGED <<pool, phase, host>>
      BY <1>1 DEF UsePooled, Touch
    <2>2. TypeOK'
      BY <1>1, <2>1 DEF UsePooled, Touch, OrderWithout
    <2>3. Targeted' /\ Hosted' /\ PooledIsOpen'
      BY <1>1, <2>1 DEF UsePooled
    <2>4. Awaited'
      BY <1>1, <2>1 DEF UsePooled
    <2> QED BY <2>2, <2>3, <2>4
  <1>2. CASE DecryptFails(u)
    <2>1. PICK S \in SUBSET Ids : EndVictim(S, None)
      BY <1>2 DEF DecryptFails
    <2>2. TypeOK'
      BY <1>2, <2>1 DEF DecryptFails, EndVictim, Delete, OrderWithout
    <2>3. /\ \A c \in Clients : phase'[c] \in {phase[c], "ending"}
          /\ \A c \in Clients : phase'[c] # phase[c] => \E i \in S : pool[i] = c
      BY <2>1 DEF EndVictim
    <2>4. \A i \in Ids : pool'[i] = IF i \in S THEN None ELSE pool[i]
      BY <2>1 DEF EndVictim, Delete
    <2>5. Targeted' /\ Hosted'
      BY <1>2, <2>3 DEF DecryptFails
    <2>6. Awaited'
      BY <1>2, <2>3 DEF DecryptFails
    <2>7. PooledIsOpen'
      BY <1>2, <2>3, <2>4 DEF DecryptFails
    <2> QED BY <2>2, <2>5, <2>6, <2>7
  <1>3. CASE CallerDone(u)
    <2>1. TypeOK' /\ Targeted' /\ Hosted' /\ PooledIsOpen'
      BY <1>3 DEF CallerDone
    <2>2. Awaited'
      BY <1>3 DEF CallerDone
    <2> QED BY <2>1, <2>2
  <1>4. ASSUME NEW i \in Ids, LoadRow(u, i) PROVE PoolInv'
    <2>1. TypeOK' /\ Targeted' /\ Hosted' /\ PooledIsOpen'
      BY <1>4 DEF LoadRow
    <2>2. Awaited'
      BY <1>4 DEF LoadRow
    <2> QED BY <2>1, <2>2
  <1>5. ASSUME NEW k \in Clients, StartConnect(u, k) PROVE PoolInv'
    <2>1. PICK S \in SUBSET Ids : EndVictim(S, k)
      BY <1>5 DEF StartConnect
    <2>2. wants[u] \in Ids /\ phase[k] = "closed" /\ caller[u] = "loaded"
      BY <1>5 DEF StartConnect, Free
    <2>3. TypeOK'
      <3>1. /\ pool'   \in [Ids -> Clients \cup {None}]
            /\ before' \in SUBSET (Ids \X Ids)
        BY <2>1 DEF EndVictim, Delete, OrderWithout
      <3>2. phase' \in [Clients -> {"closed", "connecting", "open", "ending", "failed"}]
        BY <2>1 DEF EndVictim
      <3>3. /\ host'   \in [Clients -> Ids \cup {None}]
            /\ caller' \in [Callers -> {"idle", "loaded", "connecting", "using"}]
            /\ wants'  \in [Callers -> Ids \cup {None}]
            /\ client' \in [Callers -> Clients \cup {None}]
        BY <1>5, <2>2 DEF StartConnect
      <3>4. /\ staleRow' \in SUBSET Callers
            /\ outdated' \in SUBSET Clients
            /\ saving'   \in SUBSET Ids
        BY <1>5 DEF StartConnect
      <3> QED BY <3>1, <3>2, <3>3, <3>4
    <2>4. /\ \A c \in Clients \ {k} : phase'[c] \in {phase[c], "ending"}
          /\ \A c \in Clients \ {k} :
                phase'[c] # phase[c] => \E i \in S : pool[i] = c
          /\ phase'[k] = "connecting"
      BY <2>1 DEF EndVictim
    <2>5. \A i \in Ids : pool'[i] = IF i \in S THEN None ELSE pool[i]
      BY <2>1 DEF EndVictim, Delete
    <2>6. host' = [host EXCEPT ![k] = wants[u]] /\ wants' = wants
      BY <1>5 DEF StartConnect
    <2>7. Targeted' /\ Hosted'
      BY <1>5, <2>2, <2>4, <2>6 DEF StartConnect
    <2>8. Awaited'
      BY <1>5, <2>2, <2>4 DEF StartConnect
    <2>9. PooledIsOpen'
      BY <2>2, <2>4, <2>5, <2>6
    <2> QED BY <2>3, <2>7, <2>8, <2>9
  <1> QED BY <1>1, <1>2, <1>3, <1>4, <1>5 DEF CallerStep

\* The events of a client preserve PoolInv.
LEMMA ClientStepPoolInv ==
  ASSUME PoolInv, NEW k \in Clients, ClientStep(k)
  PROVE  PoolInv'
  <1> USE ConstantsAssumption DEF PoolInv, TypeOK, Targeted, Hosted, Awaited,
          PooledIsOpen, Connecting, Pooled, poolVars, clientVars, callerVars,
          credVars
  <1>1. host[k] \in Ids
    BY DEF ClientStep, Ready, ClientError, Closed
  <1>2. CASE Ready(k)
    <2>1. TypeOK'
      BY <1>1, <1>2 DEF Ready, Set
    <2>2. Targeted' /\ Hosted'
      BY <1>2 DEF Ready
    <2>3. Awaited'
      BY <1>2 DEF Ready
    <2>4. PooledIsOpen'
      BY <1>1, <1>2 DEF Ready, Set
    <2> QED BY <2>1, <2>2, <2>3, <2>4
  <1>3. CASE ClientError(k)
    <2>1. TypeOK'
      BY <1>1, <1>3 DEF ClientError, Delete, OrderWithout
    <2>2. Targeted' /\ Hosted'
      BY <1>3 DEF ClientError
    <2>3. Awaited'
      BY <1>3 DEF ClientError
    <2>4. PooledIsOpen'
      BY <1>1, <1>3 DEF ClientError, Delete
    <2> QED BY <2>1, <2>2, <2>3, <2>4
  <1>4. CASE Closed(k)
    <2>1. TypeOK'
      BY <1>1, <1>4 DEF Closed, Delete, OrderWithout
    <2>2. Targeted' /\ Hosted'
      BY <1>4 DEF Closed
    <2>3. Awaited'
      BY <1>4 DEF Closed
    <2>4. PooledIsOpen'
      BY <1>1, <1>4 DEF Closed, Delete
    <2> QED BY <2>1, <2>2, <2>3, <2>4
  <1> QED BY <1>2, <1>3, <1>4 DEF ClientStep

\* Ending the clients of some entries preserves PoolInv.
LEMMA EndVictimPoolInv ==
  ASSUME PoolInv, NEW S \in SUBSET Ids, EndVictim(S, None),
         UNCHANGED <<host, callerVars, staleRow, outdated>>, saving' \in SUBSET Ids
  PROVE  PoolInv'
  <1> USE ConstantsAssumption DEF PoolInv, TypeOK, Targeted, Hosted, Awaited,
          PooledIsOpen, Connecting, Pooled, callerVars
  <1>1. TypeOK'
    BY DEF EndVictim, Delete, OrderWithout
  <1>2. /\ \A c \in Clients : phase'[c] \in {phase[c], "ending"}
        /\ \A c \in Clients : phase'[c] # phase[c] => \E i \in S : pool[i] = c
    BY DEF EndVictim
  <1>3. \A i \in Ids : pool'[i] = IF i \in S THEN None ELSE pool[i]
    BY DEF EndVictim, Delete
  <1>4. Targeted' /\ Hosted'
    BY <1>2
  <1>5. Awaited'
    BY <1>2
  <1>6. PooledIsOpen'
    BY <1>2, <1>3
  <1> QED BY <1>1, <1>4, <1>5, <1>6

\* The reaper and the settings handler preserve PoolInv.
LEMMA ConnectionStepPoolInv ==
  ASSUME PoolInv, NEW i \in Ids, ConnectionStep(i)
  PROVE  PoolInv'
  <1>1. CASE Reap(i)
    <2>1. {i} \in SUBSET Ids /\ EndVictim({i}, None)
      BY <1>1 DEF Reap
    <2>2. /\ UNCHANGED <<host, callerVars, staleRow, outdated>>
          /\ saving' \in SUBSET Ids
      BY <1>1 DEF Reap, credVars, PoolInv, TypeOK
    <2> QED BY <2>1, <2>2, EndVictimPoolInv
  <1>2. CASE SaveSettings(i)
    <2> USE DEF PoolInv, TypeOK, Targeted, Hosted, Awaited, PooledIsOpen,
            Connecting, Pooled, poolVars, clientVars, callerVars
    <2>1. TypeOK' /\ Targeted' /\ Hosted' /\ PooledIsOpen'
      BY <1>2 DEF SaveSettings
    <2>2. Awaited'
      BY <1>2 DEF SaveSettings
    <2> QED BY <2>1, <2>2
  <1>3. CASE EvictSshPool(i)
    <2>1. /\ UNCHANGED <<host, callerVars, staleRow, outdated>>
          /\ saving' \in SUBSET Ids
      BY <1>3 DEF EvictSshPool, PoolInv, TypeOK
    <2>2. CASE PathParam(i) \in Pooled
      <3>1. {PathParam(i)} \in SUBSET Ids
        BY <2>2 DEF Pooled
      <3>2. EndVictim({PathParam(i)}, None)
        BY <1>3, <2>2 DEF EvictSshPool
      <3> QED BY <2>1, <3>1, <3>2, EndVictimPoolInv
    <2>3. CASE PathParam(i) \notin Pooled
      <3>1. UNCHANGED <<pool, before, phase, host, caller, wants, client,
                        staleRow, outdated>>
        BY <1>3, <2>3 DEF EvictSshPool, poolVars, callerVars
      <3> QED BY <2>1, <3>1
          DEF PoolInv, TypeOK, Targeted, Hosted, Awaited, PooledIsOpen,
              Connecting, Pooled
    <2> QED BY <2>2, <2>3
  <1> QED BY <1>1, <1>2, <1>3 DEF ConnectionStep

\* PoolInv is inductive.
LEMMA NextPoolInv == PoolInv /\ [Next]_vars => PoolInv'
  <1> SUFFICES ASSUME PoolInv, [Next]_vars PROVE PoolInv'
      OBVIOUS
  <1>1. CASE UNCHANGED vars
    BY <1>1 DEF vars, poolVars, clientVars, callerVars, credVars, PoolInv,
       TypeOK, Targeted, Hosted, Awaited, PooledIsOpen, Connecting, Pooled
  <1>2. CASE Next
    BY <1>2, CallerStepPoolInv, ClientStepPoolInv, ConnectionStepPoolInv DEF Next
  <1> QED BY <1>1, <1>2

\* PoolInv holds in every reachable state.
THEOREM PoolInductive == Spec => []PoolInv
  <1> QED BY InitPoolInv, NextPoolInv, PTL DEF Spec

\* Every variable of the pool, its clients and its callers keeps its type;
\* in particular no entry is ever filed under a path parameter.
THEOREM PoolTypeCorrect == Spec => []TypeOK
  <1>1. PoolInv => TypeOK
    BY DEF PoolInv
  <1> QED BY <1>1, PoolInductive, PTL

\* getSshClient never finds a client that has been ended, has failed or has
\* closed, nor one of another connection.
THEOREM PoolIsOpen == Spec => []PooledIsOpen
  <1>1. PoolInv => PooledIsOpen
    BY DEF PoolInv
  <1> QED BY <1>1, PoolInductive, PTL

-----------------------------------------------------------------------------
(* How far the pool can exceed its cap *)

\* The pool and the connecting clients are finite sets.
LEMMA FinitePool ==
  ASSUME TypeOK
  PROVE  /\ IsFiniteSet(Pooled) /\ Cardinality(Pooled) \in Nat
         /\ IsFiniteSet(Connecting) /\ Cardinality(Connecting) \in Nat
         /\ Cardinality(Callers) \in Nat
  <1>1. Pooled \in SUBSET Ids /\ Connecting \in SUBSET Clients
    BY DEF Pooled, Connecting
  <1>2. IsFiniteSet(Pooled) /\ IsFiniteSet(Connecting)
    BY <1>1, FS_Subset, ConstantsAssumption
  <1> QED BY <1>2, FS_CardinalityType, ConstantsAssumption

\* When every member of C is held by some member of U, and each of those
\* holds one thing at a time, C is no larger than U.
LEMMA HoldersBound ==
  ASSUME NEW C, NEW U, IsFiniteSet(C), IsFiniteSet(U), NEW held,
         \A k \in C : \E u \in U : held[u] = k
  PROVE  Cardinality(C) <= Cardinality(U)
  <1> DEFINE f == [k \in C |-> CHOOSE u \in U : held[u] = k]
  <1>1. \A k \in C : f[k] \in U /\ held[f[k]] = k
    OBVIOUS
  <1>2. f \in [C -> U]
    BY <1>1
  <1> HIDE DEF f
  <1>3. \A k, l \in C : f[k] = f[l] => k = l
    BY <1>1
  <1>4. ~(Cardinality(U) < Cardinality(C))
    <2>1. SUFFICES ASSUME Cardinality(U) < Cardinality(C) PROVE FALSE
      OBVIOUS
    <2>2. \E k, l \in C : k # l /\ f[k] = f[l]
      BY <1>2, <2>1, FS_PigeonHole
    <2> QED BY <1>3, <2>2
  <1>5. Cardinality(C) \in Nat /\ Cardinality(U) \in Nat
    BY FS_CardinalityType
  <1> QED BY <1>4, <1>5

\* A step that makes neither set larger keeps the bound.
LEMMA ShrinkingKeepsBound ==
  ASSUME TypeOK, OvershootIsBounded, Pooled' \subseteq Pooled,
         Connecting' \subseteq Connecting
  PROVE  OvershootIsBounded'
  <1>1. /\ Cardinality(Pooled') <= Cardinality(Pooled)
        /\ Cardinality(Connecting') <= Cardinality(Connecting)
        /\ Cardinality(Pooled') \in Nat /\ Cardinality(Connecting') \in Nat
    BY FinitePool, FS_Subset, FS_CardinalityType
  <1> QED BY <1>1, FinitePool, ConstantsAssumption DEF OvershootIsBounded

\* A connect replaces a pooled client when the pool is full, and otherwise
\* leaves room for itself and for every other caller.
LEMMA StartConnectKeepsBound ==
  ASSUME PoolInv, PoolInv', OvershootIsBounded, NEW u \in Callers,
         NEW k \in Clients, StartConnect(u, k)
  PROVE  OvershootIsBounded'
  <1>0. TypeOK /\ TypeOK' /\ Awaited'
    BY DEF PoolInv
  <1>1. PICK S \in SUBSET Ids : Victims(S) /\ EndVictim(S, k)
    BY DEF StartConnect
  <1>2. Pooled' = Pooled \ S
    BY <1>1 DEF EndVictim, Delete, Pooled
  <1>3. Connecting' \subseteq Connecting \cup {k}
    BY <1>0, <1>1 DEF EndVictim, Connecting, TypeOK
  <1>4. /\ Cardinality(Connecting') <= Cardinality(Connecting) + 1
        /\ Cardinality(Connecting') \in Nat /\ Cardinality(Connecting) \in Nat
    <2>0. IsFiniteSet(Connecting) /\ Cardinality(Connecting) \in Nat
      BY <1>0, FinitePool
    <2>1. /\ IsFiniteSet(Connecting \cup {k})
          /\ Cardinality(Connecting \cup {k}) <= Cardinality(Connecting) + 1
      <3> DEFINE C == Connecting
      <3> HIDE DEF C
      <3>1. IsFiniteSet(C) /\ Cardinality(C) \in Nat
        BY <2>0 DEF C
      <3>2. /\ IsFiniteSet(C \cup {k})
            /\ Cardinality(C \cup {k}) =
                  IF k \in C THEN Cardinality(C) ELSE Cardinality(C) + 1
        BY <3>1, FS_AddElement
      <3>3. Cardinality(C \cup {k}) <= Cardinality(C) + 1
        BY <3>1, <3>2
      <3> QED BY <3>2, <3>3 DEF C
    <2>2. /\ Cardinality(Connecting') <= Cardinality(Connecting \cup {k})
          /\ IsFiniteSet(Connecting')
      BY <1>3, <2>1, FS_Subset
    <2>3. /\ Cardinality(Connecting \cup {k}) \in Nat
          /\ Cardinality(Connecting') \in Nat
          /\ Cardinality(Connecting) \in Nat
      BY <1>0, <2>1, <2>2, FinitePool, FS_CardinalityType
    <2> QED BY <2>1, <2>2, <2>3
  <1>5. Cardinality(Pooled) \in Nat /\ Cardinality(Callers) \in Nat
    BY <1>0, FinitePool
  <1>6. CASE Cardinality(Pooled) >= MaxPool
    <2>1. PICK i \in Ids : i \in Pooled /\ S = {i}
      BY <1>1, <1>6 DEF Victims, IsLru
    <2>2. Cardinality(Pooled') = Cardinality(Pooled) - 1
      BY <1>0, <1>2, <2>1, FinitePool, FS_RemoveElement
    <2> QED BY <1>4, <1>5, <2>2, ConstantsAssumption DEF OvershootIsBounded
  <1>7. CASE ~(Cardinality(Pooled) >= MaxPool)
    <2>1. Pooled' = Pooled
      BY <1>1, <1>2, <1>7 DEF Victims
    <2>2. Cardinality(Connecting') <= Cardinality(Callers)
      <3> DEFINE C == Connecting'
                 held == client'
      <3>1. \A c \in C : \E v \in Callers : held[v] = c
        BY <1>0 DEF Awaited
      <3>2. IsFiniteSet(C)
        BY <1>3, <1>0, FinitePool, FS_AddElement, FS_Subset
      <3> HIDE DEF C, held
      <3>3. Cardinality(C) <= Cardinality(Callers)
        BY <3>1, <3>2, HoldersBound, ConstantsAssumption
      <3> QED BY <3>3 DEF C
    <2> QED BY <1>4, <1>5, <1>7, <2>1, <2>2, ConstantsAssumption
        DEF OvershootIsBounded
  <1> QED BY <1>6, <1>7

\* A client that becomes ready moves from one set to the other.
LEMMA ReadyKeepsBound ==
  ASSUME PoolInv, OvershootIsBounded, NEW k \in Clients, Ready(k)
  PROVE  OvershootIsBounded'
  <1>0. TypeOK
    BY DEF PoolInv
  <1>1. Pooled' \subseteq Pooled \cup {host[k]}
    BY <1>0 DEF Ready, Set, Pooled, TypeOK
  <1>2. k \in Connecting /\ Connecting' = Connecting \ {k}
    BY <1>0 DEF Ready, Connecting, TypeOK
  <1>3. /\ Cardinality(Connecting') = Cardinality(Connecting) - 1
        /\ Cardinality(Connecting) \in Nat
    BY <1>0, <1>2, FinitePool, FS_RemoveElement
  <1>4. /\ IsFiniteSet(Pooled \cup {host[k]})
        /\ Cardinality(Pooled \cup {host[k]}) <= Cardinality(Pooled) + 1
    <2>1. IsFiniteSet(Pooled) /\ Cardinality(Pooled) \in Nat
      BY <1>0, FinitePool
    <2> QED BY <2>1, FS_AddElement
  <1>5. /\ Cardinality(Pooled') <= Cardinality(Pooled \cup {host[k]})
        /\ IsFiniteSet(Pooled')
    BY <1>1, <1>4, FS_Subset
  <1>6. /\ Cardinality(Pooled \cup {host[k]}) \in Nat
        /\ Cardinality(Pooled') \in Nat /\ Cardinality(Pooled) \in Nat
    BY <1>0, <1>4, <1>5, FinitePool, FS_CardinalityType
  <1>7. MaxPool \in Nat /\ Cardinality(Callers) \in Nat
    BY <1>0, FinitePool, ConstantsAssumption
  <1> QED BY <1>3, <1>4, <1>5, <1>6, <1>7 DEF OvershootIsBounded

\* The invariant behind the bound is inductive together with PoolInv.
LEMMA NextOvershoot ==
  ASSUME PoolInv, PoolInv', OvershootIsBounded, [Next]_vars
  PROVE  OvershootIsBounded'
  <1>0. TypeOK
    BY DEF PoolInv
  <1> USE DEF poolVars, clientVars
  <1>1. ASSUME Pooled' = Pooled, Connecting' = Connecting PROVE OvershootIsBounded'
    BY <1>1 DEF OvershootIsBounded
  <1>2. ASSUME NEW S \in SUBSET Ids, EndVictim(S, None)
        PROVE  Pooled' \subseteq Pooled /\ Connecting' \subseteq Connecting
    BY <1>0, <1>2, ConstantsAssumption
       DEF EndVictim, Delete, Pooled, Connecting, TypeOK
  <1>3. ASSUME NEW u \in Callers, CallerStep(u) PROVE OvershootIsBounded'
    <2>1. CASE UsePooled(u)
      BY <2>1, <1>1 DEF UsePooled, Touch, Pooled, Connecting
    <2>2. CASE DecryptFails(u)
      BY <2>2, <1>0, <1>2, ShrinkingKeepsBound DEF DecryptFails
    <2>3. CASE CallerDone(u)
      BY <2>3, <1>1 DEF CallerDone, Pooled, Connecting
    <2>4. ASSUME NEW i \in Ids, LoadRow(u, i) PROVE OvershootIsBounded'
      BY <2>4, <1>1 DEF LoadRow, Pooled, Connecting
    <2>5. ASSUME NEW k \in Clients, StartConnect(u, k) PROVE OvershootIsBounded'
      BY <2>5, StartConnectKeepsBound
    <2> QED BY <1>3, <2>1, <2>2, <2>3, <2>4, <2>5 DEF CallerStep
  <1>4. ASSUME NEW k \in Clients, ClientStep(k) PROVE OvershootIsBounded'
    <2>1. CASE Ready(k)
      BY <2>1, ReadyKeepsBound
    <2>2. CASE ClientError(k)
      <3>1. Pooled' \subseteq Pooled /\ Connecting' \subseteq Connecting
        BY <2>2, <1>0 DEF ClientError, Delete, Pooled, Connecting, TypeOK
      <3> QED BY <3>1, <1>0, ShrinkingKeepsBound
    <2>3. CASE Closed(k)
      <3>1. Pooled' \subseteq Pooled /\ Connecting' \subseteq Connecting
        BY <2>3, <1>0 DEF Closed, Delete, Pooled, Connecting, TypeOK
      <3> QED BY <3>1, <1>0, ShrinkingKeepsBound
    <2> QED BY <1>4, <2>1, <2>2, <2>3 DEF ClientStep
  <1>5. ASSUME NEW i \in Ids, ConnectionStep(i) PROVE OvershootIsBounded'
    <2>1. CASE Reap(i)
      BY <2>1, <1>0, <1>2, ShrinkingKeepsBound DEF Reap
    <2>2. CASE SaveSettings(i)
      BY <2>2, <1>1 DEF SaveSettings, Pooled, Connecting
    <2>3. CASE EvictSshPool(i)
      <3>1. CASE PathParam(i) \in Pooled
        <4>1. {PathParam(i)} \in SUBSET Ids
          BY <3>1 DEF Pooled
        <4> QED BY <4>1, <3>1, <2>3, <1>0, <1>2, ShrinkingKeepsBound DEF EvictSshPool
      <3>2. CASE PathParam(i) \notin Pooled
        BY <3>2, <2>3, <1>1 DEF EvictSshPool, Pooled, Connecting
      <3> QED BY <3>1, <3>2
    <2> QED BY <1>5, <2>1, <2>2, <2>3 DEF ConnectionStep
  <1>6. CASE UNCHANGED vars
    BY <1>6, <1>1 DEF vars, Pooled, Connecting
  <1> QED BY <1>3, <1>4, <1>5, <1>6 DEF Next

\* However many callers connect at the same time, the pool and the connects
\* in progress together stay below the cap plus the number of callers.
THEOREM PoolOvershoot == Spec => []OvershootIsBounded
  <1>1. Init => OvershootIsBounded
    <2>1. SUFFICES ASSUME Init PROVE OvershootIsBounded
      OBVIOUS
    <2>2. Pooled = {} /\ Connecting = {}
      BY <2>1 DEF Init, Pooled, Connecting
    <2>3. Cardinality(Callers) \in Nat
      BY ConstantsAssumption, FS_CardinalityType
    <2> QED BY <2>2, <2>3, FS_EmptySet, ConstantsAssumption DEF OvershootIsBounded
  <1>2. PoolInv /\ PoolInv' /\ OvershootIsBounded /\ [Next]_vars
            => OvershootIsBounded'
    BY NextOvershoot
  <1> QED BY <1>1, <1>2, PoolInductive, PTL DEF Spec

\* The LRU eviction, the reaper and evictSshPool close every client they drop:
\* an open client is forgotten only through another one of its connection.
THEOREM PoolDropsOnlyByRace == Spec => DroppedOnlyByRace
  <1> DEFINE Kept == \A i \in Pooled :
                       pool'[i] # pool[i] /\ phase'[pool[i]] = "open" =>
                         \E c \in Clients \ {pool[i]} :
                            phase[c] # "closed" /\ host[c] = i
  <1>1. ASSUME PoolInv, [Next]_vars PROVE Kept
    <2> SUFFICES ASSUME NEW i \in Pooled, pool'[i] # pool[i],
                        phase'[pool[i]] = "open"
                 PROVE  \E c \in Clients \ {pool[i]} :
                           phase[c] # "closed" /\ host[c] = i
        OBVIOUS
    <2>1. /\ i \in Ids /\ pool[i] \in Clients
          /\ phase[pool[i]] = "open" /\ host[pool[i]] = i
          /\ pool \in [Ids -> Clients \cup {None}]
          /\ phase \in [Clients -> {"closed", "connecting", "open", "ending", "failed"}]
      BY <1>1 DEF PoolInv, TypeOK, PooledIsOpen, Pooled
    <2>2. ASSUME NEW S \in SUBSET Ids, NEW k, EndVictim(S, k), k # pool[i]
          PROVE  FALSE
      BY <2>1, <2>2 DEF EndVictim, Delete
    <2>3. PICK c \in Clients : ClientStep(c)
      <3>1. ASSUME NEW u \in Callers, CallerStep(u) PROVE FALSE
        <4>1. CASE DecryptFails(u)
          BY <4>1, <2>1, <2>2, ConstantsAssumption DEF DecryptFails
        <4>2. ASSUME NEW k \in Clients, StartConnect(u, k) PROVE FALSE
          BY <4>2, <2>1, <2>2 DEF StartConnect, Free
        <4> QED BY <3>1, <4>1, <4>2
            DEF CallerStep, UsePooled, CallerDone, LoadRow, Touch, poolVars
      <3>2. ASSUME NEW j \in Ids, ConnectionStep(j) PROVE FALSE
        <4>1. CASE Reap(j)
          BY <4>1, <2>1, <2>2, ConstantsAssumption DEF Reap
        <4>2. CASE SaveSettings(j)
          BY <4>2 DEF SaveSettings, poolVars
        <4>3. CASE EvictSshPool(j)
          BY <4>3, <2>1, <2>2, ConstantsAssumption
             DEF EvictSshPool, Pooled, poolVars
        <4> QED BY <3>2, <4>1, <4>2, <4>3 DEF ConnectionStep
      <3> QED BY <1>1, <3>1, <3>2 DEF Next, vars, poolVars
    <2>4. host[c] = i /\ phase[c] # "closed" /\ c # pool[i]
      BY <2>1, <2>3 DEF ClientStep, Ready, ClientError, Closed, Set, Delete
    <2> QED BY <2>4
  <1>2. PoolInv /\ [Next]_vars => [Kept]_vars
    BY <1>1
  <1> QED BY <1>2, PoolInductive, PTL DEF Spec, DroppedOnlyByRace
=============================================================================
