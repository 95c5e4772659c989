------------------------ MODULE AgentUpgradesProofs -------------------------
(***************************************************************************)
(* Theorems about AgentUpgrades composed with KeyRotation, for any finite  *)
(* number of audit rows and of overlapping evaluations.                    *)
(***************************************************************************)
EXTENDS AgentUpgrades, KeyRotationProofs, FiniteSetTheorems

InHand   == Active \cup Marked
Open     == InHand \cup waiting
Trying   == Stage("counted") \cup Stage("inserting")
Pending  == Stage("behind") \cup Trying

\* An evaluation holds a row exactly while it is about to mark it.
Holding == \A e \in Evals : evalAt[e] = "marking" => evalRow[e] \in Rows

HoldsOnly == \A e \in Evals : evalAt[e] # "marking" => evalRow[e] = None

\* Until the agent is upgraded a pending promise means a row in flight.
NotYetClosed ==
    ~upToDate => /\ Stage("closing") = {}
                 /\ waiting \subseteq Active

\* Two evaluations that both saw no row in flight are counted before they
\* insert; what the others have inserted meanwhile is bounded by their number.
Bounds ==
    /\ Cardinality(InHand) + Cardinality(Stage("inserting")) <= Cardinality(Evals)
    /\ Cardinality(Open) + Cardinality(Pending) <= 2 * Cardinality(Evals)
    /\ Cardinality(Attempts) + Cardinality(Trying) + 1
          <= MaxFailures + 2 * Cardinality(Evals)

Facts == UpgradeTypeOK /\ Holding /\ HoldsOnly /\ NotYetClosed
-----------------------------------------------------------------------------
(* Types, and which rows and evaluations are which *)

\* Nothing has been evaluated yet.
LEMMA InitFacts == UpgradeInit => Facts
  BY UpgradeConstants
  DEF UpgradeInit, Facts, UpgradeTypeOK, Holding, HoldsOnly, NotYetClosed, Stage

\* The start of an evaluation.
LEMMA StartFacts ==
  ASSUME Facts, NEW e \in Evals, StartEvaluation(e)
  PROVE  Facts'
  <1>1. UpgradeTypeOK'
    BY DEF StartEvaluation, Facts, UpgradeTypeOK
  <1>2. Holding' /\ HoldsOnly'
    BY DEF StartEvaluation, Facts, UpgradeTypeOK, Holding, HoldsOnly
  <1>3. NotYetClosed'
    BY DEF StartEvaluation, Facts, UpgradeTypeOK, NotYetClosed, Stage, Active,
           InFlight
  <1> QED
    BY <1>1, <1>2, <1>3 DEF Facts

\* The steps of an evaluation that only read.
LEMMA ReadFacts ==
  ASSUME Facts, NEW e \in Evals, CountFailures(e) \/ CheckActive(e)
  PROVE  Facts'
  <1>0. /\ UNCHANGED <<autoUpgrade, upToDate, auditStatus, backdated, waiting, evalRow>>
        /\ \E at \in {"idle", "counted", "inserting"} :
              evalAt' = [evalAt EXCEPT ![e] = at]
        /\ evalAt[e] \in {"behind", "counted"}
    BY DEF CountFailures, CheckActive
  <1>1. UpgradeTypeOK'
    BY <1>0 DEF Facts, UpgradeTypeOK
  <1>2. Holding' /\ HoldsOnly'
    BY <1>0 DEF Facts, UpgradeTypeOK, Holding, HoldsOnly
  <1>3. NotYetClosed'
    BY <1>0 DEF Facts, UpgradeTypeOK, NotYetClosed, Stage, Active, InFlight
  <1> QED
    BY <1>1, <1>2, <1>3 DEF Facts

\* The steps of an evaluation that write a row.
LEMMA WriteFacts ==
  ASSUME Facts, NEW e \in Evals,
         \/ CompleteOnHeartbeat(e) \/ MarkInProgress(e)
         \/ \E r \in Rows : InsertAudit(e, r)
  PROVE  Facts'
  <1>1. ASSUME CompleteOnHeartbeat(e) PROVE Facts'
    <2>1. UpgradeTypeOK'
      BY <1>1 DEF CompleteOnHeartbeat, Facts, UpgradeTypeOK
    <2>2. Holding' /\ HoldsOnly'
      BY <1>1 DEF CompleteOnHeartbeat, Facts, UpgradeTypeOK, Holding, HoldsOnly
    <2>3. upToDate'
      BY <1>1 DEF CompleteOnHeartbeat, Facts, NotYetClosed, Stage
    <2> QED
      BY <2>1, <2>2, <2>3 DEF Facts, NotYetClosed
  <1>2. ASSUME MarkInProgress(e) PROVE Facts'
    <2>0. evalRow[e] \in Rows
      BY <1>2 DEF MarkInProgress, Facts, Holding
    <2>1. UpgradeTypeOK'
      BY <1>2, <2>0 DEF MarkInProgress, Facts, UpgradeTypeOK
    <2>2. Holding' /\ HoldsOnly'
      BY <1>2 DEF MarkInProgress, Facts, UpgradeTypeOK, Holding, HoldsOnly
    <2>3. NotYetClosed'
      BY <1>2, <2>0 DEF MarkInProgress, Facts, UpgradeTypeOK, NotYetClosed, Stage,
                        Active, InFlight
    <2> QED
      BY <2>1, <2>2, <2>3 DEF Facts
  <1>3. ASSUME NEW r \in Rows, InsertAudit(e, r) PROVE Facts'
    <2>1. UpgradeTypeOK'
      BY <1>3 DEF InsertAudit, Facts, UpgradeTypeOK
    <2>2. Holding' /\ HoldsOnly'
      BY <1>3 DEF InsertAudit, Facts, UpgradeTypeOK, Holding, HoldsOnly
    <2>3. NotYetClosed'
      BY <1>3 DEF InsertAudit, Facts, UpgradeTypeOK, NotYetClosed, Stage,
                  Active, InFlight
    <2> QED
      BY <2>1, <2>2, <2>3 DEF Facts
  <1> QED
    BY <1>1, <1>2, <1>3

\* The steps of nobody's evaluation.
LEMMA OtherFacts ==
  ASSUME Facts,
         \/ \E r \in Rows : SendSettles(r)
         \/ \E rows \in SUBSET {r \in Rows : InFlight(r) /\ r \notin waiting} :
               ExpireTimedOut(rows)
         \/ ForgetFailures \/ AgentUpgraded \/ UpgradeRestart
         \/ UNCHANGED upgradeVars
  PROVE  Facts'
  <1>1. ASSUME NEW r \in Rows, SendSettles(r) PROVE Facts'
    <2>1. UpgradeTypeOK'
      BY <1>1 DEF SendSettles, Facts, UpgradeTypeOK
    <2>2. Holding' /\ HoldsOnly'
      BY <1>1 DEF SendSettles, Facts, Holding, HoldsOnly
    <2>3. NotYetClosed'
      BY <1>1 DEF SendSettles, Facts, UpgradeTypeOK, NotYetClosed, Stage,
                  Active, InFlight
    <2> QED
      BY <2>1, <2>2, <2>3 DEF Facts
  <1>2. ASSUME NEW rows \in SUBSET {r \in Rows : InFlight(r) /\ r \notin waiting},
               ExpireTimedOut(rows)
        PROVE  Facts'
    <2>1. UpgradeTypeOK'
      BY <1>2 DEF ExpireTimedOut, Facts, UpgradeTypeOK
    <2>2. Holding' /\ HoldsOnly'
      BY <1>2 DEF ExpireTimedOut, Facts, Holding, HoldsOnly
    <2>3. NotYetClosed'
      BY <1>2 DEF ExpireTimedOut, Facts, UpgradeTypeOK, NotYetClosed, Stage,
                  Active, InFlight
    <2> QED
      BY <2>1, <2>2, <2>3 DEF Facts
  <1>3. ASSUME ForgetFailures PROVE Facts'
    <2>1. UpgradeTypeOK'
      BY <1>3 DEF ForgetFailures, RecentFailures, Facts, UpgradeTypeOK
    <2>2. Holding' /\ HoldsOnly'
      BY <1>3 DEF ForgetFailures, Facts, Holding, HoldsOnly
    <2>3. NotYetClosed'
      BY <1>3 DEF ForgetFailures, RecentFailures, Facts, UpgradeTypeOK,
                  NotYetClosed, Stage, Active, InFlight
    <2> QED
      BY <2>1, <2>2, <2>3 DEF Facts
  <1>4. ASSUME AgentUpgraded PROVE Facts'
    BY <1>4 DEF AgentUpgraded, Facts, UpgradeTypeOK, Holding, HoldsOnly, NotYetClosed
  <1>5. ASSUME UpgradeRestart PROVE Facts'
    BY <1>5 DEF UpgradeRestart, Facts, UpgradeTypeOK, Holding, HoldsOnly,
                NotYetClosed, Stage
  <1>6. ASSUME UNCHANGED upgradeVars PROVE Facts'
    BY <1>6 DEF upgradeVars, Facts, UpgradeTypeOK, Holding, HoldsOnly,
                NotYetClosed, Stage, Active, InFlight
  <1> QED
    BY <1>1, <1>2, <1>3, <1>4, <1>5, <1>6
-----------------------------------------------------------------------------
(* Counting *)

\* Part of a finite set has no more elements.
LEMMA FewerElements ==
  ASSUME NEW S, NEW T, IsFiniteSet(T), S \subseteq T
  PROVE  /\ IsFiniteSet(S)
         /\ Cardinality(S) \in Nat /\ Cardinality(T) \in Nat
         /\ Cardinality(S) <= Cardinality(T)
  BY FS_Subset, FS_CardinalityType

\* Every counted set is finite, before and after a step.
LEMMA Finite ==
  ASSUME Facts, Facts'
  PROVE  /\ \A S \in SUBSET Rows : IsFiniteSet(S)
         /\ \A S \in SUBSET Evals : IsFiniteSet(S)
         /\ Open \subseteq Rows /\ Open' \subseteq Rows
         /\ InHand \subseteq Open /\ InHand' \subseteq Open'
         /\ Attempts = RecentFailures \cup Open
         /\ Attempts' = RecentFailures' \cup Open'
         /\ Attempts \subseteq Rows /\ Attempts' \subseteq Rows
         /\ \A at : Stage(at) \subseteq Evals
         /\ Pending \subseteq Evals /\ Trying \subseteq Pending
         /\ Pending' \subseteq Evals /\ Trying' \subseteq Pending'
         /\ Stage("inserting")' \subseteq Trying'
         /\ Cardinality(Evals) \in Nat
  <1>1. /\ \A S \in SUBSET Rows : IsFiniteSet(S)
        /\ \A S \in SUBSET Evals : IsFiniteSet(S)
        /\ Cardinality(Evals) \in Nat
    BY UpgradeConstants, FS_Subset, FS_CardinalityType
  <1>2. waiting \subseteq Rows /\ waiting' \subseteq Rows
    BY DEF Facts, UpgradeTypeOK
  <1>3. /\ Open \subseteq Rows /\ Open' \subseteq Rows
        /\ InHand \subseteq Open /\ InHand' \subseteq Open'
    BY <1>2 DEF Open, InHand, Active, Marked
  <1>4. /\ Attempts = RecentFailures \cup Open
        /\ Attempts' = RecentFailures' \cup Open'
    BY DEF Attempts, Open, InHand
  <1>5. Attempts \subseteq Rows /\ Attempts' \subseteq Rows
    BY <1>3, <1>4 DEF RecentFailures
  <1>6. /\ \A at : Stage(at) \subseteq Evals
        /\ Pending \subseteq Evals /\ Trying \subseteq Pending
        /\ Pending' \subseteq Evals /\ Trying' \subseteq Pending'
        /\ Stage("inserting")' \subseteq Trying'
    BY DEF Stage, Pending, Trying
  <1> QED
    BY <1>1, <1>3, <1>4, <1>5, <1>6

\* A step after which nothing has grown keeps the bounds.
LEMMA NothingGrows ==
  ASSUME Facts, Facts', Bounds,
         InHand' \subseteq InHand, Open' \subseteq Open,
         Attempts' \subseteq Attempts, Pending' \subseteq Pending,
         Trying' \subseteq Trying,
         Stage("inserting")' \subseteq Stage("inserting")
  PROVE  Bounds'
  <1>1. /\ IsFiniteSet(InHand) /\ IsFiniteSet(Open) /\ IsFiniteSet(Attempts)
        /\ IsFiniteSet(Pending) /\ IsFiniteSet(Trying)
        /\ IsFiniteSet(Stage("inserting")) /\ Cardinality(Evals) \in Nat
    BY Finite
  <1>2. /\ Cardinality(InHand) \in Nat /\ Cardinality(InHand') \in Nat
        /\ Cardinality(InHand') <= Cardinality(InHand)
    BY <1>1, FewerElements
  <1>3. /\ Cardinality(Open) \in Nat /\ Cardinality(Open') \in Nat
        /\ Cardinality(Open') <= Cardinality(Open)
    BY <1>1, FewerElements
  <1>4. /\ Cardinality(Attempts) \in Nat /\ Cardinality(Attempts') \in Nat
        /\ Cardinality(Attempts') <= Cardinality(Attempts)
    BY <1>1, FewerElements
  <1>5. /\ Cardinality(Pending) \in Nat /\ Cardinality(Pending') \in Nat
        /\ Cardinality(Pending') <= Cardinality(Pending)
    BY <1>1, FewerElements
  <1>6. /\ Cardinality(Trying) \in Nat /\ Cardinality(Trying') \in Nat
        /\ Cardinality(Trying') <= Cardinality(Trying)
    BY <1>1, FewerElements
  <1>7. /\ Cardinality(Stage("inserting")) \in Nat
        /\ Cardinality(Stage("inserting")') \in Nat
        /\ Cardinality(Stage("inserting")') <= Cardinality(Stage("inserting"))
    BY <1>1, FewerElements
  <1>8. MaxFailures \in Nat
    BY UpgradeConstants
  <1> QED
    BY <1>1, <1>2, <1>3, <1>4, <1>5, <1>6, <1>7, <1>8, SMT DEF Bounds

\* There are no more rows to be marked than evaluations that mark.
LEMMA FewMarked ==
  ASSUME Facts
  PROVE  /\ Cardinality(Marked) \in Nat
         /\ Cardinality(Marked) <= Cardinality(Stage("marking"))
  <1> DEFINE f == [e \in Stage("marking") |-> evalRow[e]]
  <1>1. f \in Surjection(Stage("marking"), Marked)
    BY UpgradeConstants
    DEF Surjection, Stage, Marked, Facts, Holding, HoldsOnly, UpgradeTypeOK
  <1>2. IsFiniteSet(Stage("marking"))
    BY UpgradeConstants, FS_Subset DEF Stage
  <1>3. /\ IsFiniteSet(Marked)
        /\ Cardinality(Marked) <= Cardinality(Stage("marking"))
    BY <1>1, <1>2, FS_Surjection
  <1> QED
    BY <1>3, FS_CardinalityType
-----------------------------------------------------------------------------
(* The steps *)

\* Starting: only an agent below the target is tried, and then every pending
\* promise is of a row in flight.
LEMMA StartBounds ==
  ASSUME Facts, Facts', Bounds, NEW e \in Evals, StartEvaluation(e)
  PROVE  Bounds'
  <1>1. /\ UNCHANGED <<InHand, Open, Attempts, Trying, Stage("inserting")>>
        /\ evalAt[e] = "idle"
    <2>1. UNCHANGED <<auditStatus, backdated, waiting, evalRow>> /\ evalAt[e] = "idle"
      BY DEF StartEvaluation
    <2>2. /\ Stage("counted")' = Stage("counted")
          /\ Stage("inserting")' = Stage("inserting")
      BY DEF StartEvaluation, Stage, Facts, UpgradeTypeOK
    <2> QED
      BY <2>1, <2>2 DEF InHand, Open, Attempts, Trying, RecentFailures, Active,
                        InFlight, Marked
  <1>2. CASE upToDate
    <2>1. Pending' = Pending
      BY <1>2, <1>1 DEF StartEvaluation, Pending, Stage, Facts, UpgradeTypeOK
    <2> QED
      BY <1>1, <2>1, NothingGrows
  <1>3. CASE ~upToDate
    <2>1. Open = InHand
      BY <1>3 DEF Facts, NotYetClosed, Open, InHand
    <2>2. /\ Cardinality(InHand) \in Nat /\ Cardinality(Pending') \in Nat
          /\ Cardinality(Stage("inserting")) \in Nat
          /\ Cardinality(Pending') <= Cardinality(Evals)
          /\ Cardinality(Evals) \in Nat
      <3>1. IsFiniteSet(InHand) /\ IsFiniteSet(Stage("inserting"))
            /\ IsFiniteSet(Evals) /\ Pending' \subseteq Evals
        BY Finite
      <3> QED
        BY <3>1, FewerElements, FS_CardinalityType
    <2>3. Cardinality(Open) + Cardinality(Pending') <= 2 * Cardinality(Evals)
      BY <2>1, <2>2, SMT DEF Bounds
    <2> QED
      BY <1>1, <2>3 DEF Bounds
  <1> QED
    BY <1>2, <1>3

\* Counting the failures: below the limit, what is open now is all that the
\* evaluation can add to.
LEMMA CountBounds ==
  ASSUME Facts, Facts', Bounds, NEW e \in Evals, CountFailures(e)
  PROVE  Bounds'
  <1>1. UNCHANGED <<InHand, Open, Attempts, RecentFailures>>
    BY DEF CountFailures, InHand, Open, Attempts, RecentFailures, Active,
           InFlight, Marked
  <1>2. /\ Stage("inserting")' = Stage("inserting")
        /\ Pending' \subseteq Pending
    BY DEF CountFailures, Pending, Trying, Stage, Facts, UpgradeTypeOK
  <1>3. CASE Cardinality(RecentFailures) >= MaxFailures
    <2>1. Trying' \subseteq Trying
      BY <1>3 DEF CountFailures, Trying, Stage, Facts, UpgradeTypeOK
    <2> QED
      BY <1>1, <1>2, <2>1, NothingGrows
  <1>4. CASE ~(Cardinality(RecentFailures) >= MaxFailures)
    <2>1. Trying' \subseteq Pending
      BY <1>2 DEF Trying, Pending
    <2>2. /\ IsFiniteSet(Open) /\ IsFiniteSet(RecentFailures)
          /\ IsFiniteSet(Pending) /\ Attempts = RecentFailures \cup Open
          /\ Cardinality(Evals) \in Nat /\ MaxFailures \in Nat
      BY Finite, UpgradeConstants DEF RecentFailures
    <2>3. /\ Cardinality(Trying') \in Nat /\ Cardinality(Pending) \in Nat
          /\ Cardinality(Trying') <= Cardinality(Pending)
      BY <2>1, <2>2, FewerElements
    <2>4. /\ Cardinality(Pending') \in Nat
          /\ Cardinality(Pending') <= Cardinality(Pending)
      BY <1>2, <2>2, FewerElements
    <2>5. /\ Cardinality(Open) \in Nat /\ Cardinality(RecentFailures) \in Nat
          /\ Cardinality(RecentFailures \cap Open) \in Nat
          /\ Cardinality(Attempts) = Cardinality(RecentFailures)
               + Cardinality(Open) - Cardinality(RecentFailures \cap Open)
      <3>1. RecentFailures \cap Open \subseteq Open
        OBVIOUS
      <3> QED
        BY <2>2, <3>1, FewerElements, FS_CardinalityType, FS_Union
    <2>6. Cardinality(Attempts) + Cardinality(Trying') + 1
             <= MaxFailures + 2 * Cardinality(Evals)
      BY <1>4, <2>2, <2>3, <2>5, SMT DEF Bounds
    <2>7. Cardinality(Open) + Cardinality(Pending') <= 2 * Cardinality(Evals)
      BY <2>2, <2>3, <2>4, <2>5, SMT DEF Bounds
    <2> QED
      BY <1>1, <1>2, <2>6, <2>7 DEF Bounds
  <1> QED
    BY <1>3, <1>4

\* Finding no row in flight: only rows to be marked are in hand.
LEMMA CheckBounds ==
  ASSUME Facts, Facts', Bounds, NEW e \in Evals, CheckActive(e)
  PROVE  Bounds'
  <1>1. UNCHANGED <<InHand, Open, Attempts>>
    BY DEF CheckActive, InHand, Open, Attempts, RecentFailures, Active,
           InFlight, Marked
  <1>2. Pending' \subseteq Pending /\ Trying' \subseteq Trying
    BY DEF CheckActive, Pending, Trying, Stage, Facts, UpgradeTypeOK
  <1>3. CASE Active # {}
    <2>1. Stage("inserting")' \subseteq Stage("inserting")
      BY <1>3 DEF CheckActive, Stage, Facts, UpgradeTypeOK
    <2> QED
      BY <1>1, <1>2, <2>1, NothingGrows
  <1>4. CASE Active = {}
    <2>1. InHand = Marked
      BY <1>4 DEF InHand
    <2>2. /\ IsFiniteSet(Stage("marking")) /\ IsFiniteSet(Stage("inserting")')
          /\ Stage("marking") \cup Stage("inserting")' \subseteq Evals
          /\ Stage("marking") \cap Stage("inserting")' = {}
      <3>1. /\ Stage("marking") \subseteq Evals
            /\ Stage("inserting")' \subseteq Evals
        BY DEF Stage
      <3>2. Stage("marking") \cap Stage("inserting")' = {}
        BY DEF CheckActive, Stage, Facts, UpgradeTypeOK
      <3> QED
        BY <3>1, <3>2, UpgradeConstants, FewerElements
    <2>3. Cardinality(Stage("marking") \cup Stage("inserting")')
             <= Cardinality(Evals)
      BY <2>2, UpgradeConstants, FewerElements
    <2>4. /\ Cardinality(Stage("marking")) \in Nat
          /\ Cardinality(Stage("inserting")') \in Nat
          /\ Cardinality(Stage("marking") \cup Stage("inserting")')
               = Cardinality(Stage("marking")) + Cardinality(Stage("inserting")')
                 - Cardinality(Stage("marking") \cap Stage("inserting")')
          /\ Cardinality(Stage("marking") \cap Stage("inserting")') = 0
      BY <2>2, FS_Union, FS_CardinalityType, FS_EmptySet
    <2>5. Cardinality(Marked) \in Nat /\ Cardinality(Evals) \in Nat
      BY FewMarked, UpgradeConstants, FS_CardinalityType
    <2>6. Cardinality(InHand) + Cardinality(Stage("inserting")')
             <= Cardinality(Evals)
      BY <2>1, <2>3, <2>4, <2>5, FewMarked
    <2>7. /\ Cardinality(Pending') <= Cardinality(Pending)
          /\ Cardinality(Pending') \in Nat /\ Cardinality(Pending) \in Nat
          /\ Cardinality(Trying') <= Cardinality(Trying)
          /\ Cardinality(Trying') \in Nat /\ Cardinality(Trying) \in Nat
          /\ Cardinality(Open) \in Nat /\ Cardinality(Attempts) \in Nat
      <3>1. /\ IsFiniteSet(Pending) /\ IsFiniteSet(Trying)
            /\ IsFiniteSet(Open) /\ IsFiniteSet(Attempts)
        BY Finite
      <3> QED
        BY <1>2, <3>1, FewerElements, FS_CardinalityType
    <2>8. /\ Cardinality(Open) + Cardinality(Pending') <= 2 * Cardinality(Evals)
          /\ Cardinality(Attempts) + Cardinality(Trying') + 1
                <= MaxFailures + 2 * Cardinality(Evals)
      BY <2>5, <2>7, UpgradeConstants, SMT DEF Bounds
    <2> QED
      BY <1>1, <2>6, <2>8 DEF Bounds
  <1> QED
    BY <1>3, <1>4

\* One element more is at most one more to count.
LEMMA OneMore ==
  ASSUME NEW S, NEW T, NEW x, IsFiniteSet(T), S \subseteq T \cup {x}
  PROVE  /\ Cardinality(S) \in Nat /\ Cardinality(T) \in Nat
         /\ Cardinality(S) <= Cardinality(T) + 1
  <1>1. /\ IsFiniteSet(T \cup {x}) /\ Cardinality(T) \in Nat
        /\ Cardinality(T \cup {x}) <= Cardinality(T) + 1
    BY FS_AddElement, FS_CardinalityType
  <1>2. Cardinality(S) \in Nat /\ Cardinality(S) <= Cardinality(T \cup {x})
        /\ Cardinality(T \cup {x}) \in Nat
    BY <1>1, FewerElements
  <1> QED
    BY <1>1, <1>2

\* One element less is one less to count.
LEMMA OneLess ==
  ASSUME NEW S, NEW T, NEW x, IsFiniteSet(T), x \in T, S \subseteq T \ {x}
  PROVE  /\ Cardinality(S) \in Nat /\ Cardinality(T) \in Nat
         /\ Cardinality(S) + 1 <= Cardinality(T)
  <1>1. /\ IsFiniteSet(T \ {x}) /\ Cardinality(T) \in Nat
        /\ Cardinality(T \ {x}) = Cardinality(T) - 1
    BY FS_RemoveElement, FS_CardinalityType
  <1>2. Cardinality(S) \in Nat /\ Cardinality(S) <= Cardinality(T \ {x})
    BY <1>1, FewerElements
  <1> QED
    BY <1>1, <1>2

\* Inserting: the evaluation becomes a row.
LEMMA InsertBounds ==
  ASSUME Facts, Facts', Bounds, NEW e \in Evals, NEW r \in Rows, InsertAudit(e, r)
  PROVE  Bounds'
  <1>1. /\ evalAt[e] = "inserting" /\ e \in Evals
        /\ evalAt' = [evalAt EXCEPT ![e] = "marking"]
        /\ \A q \in Rows \ {r} : /\ auditStatus'[q] = auditStatus[q]
                                 /\ q \in backdated' <=> q \in backdated
        /\ \A d \in Evals \ {e} : evalRow'[d] = evalRow[d]
        /\ evalRow'[e] = r /\ waiting' = waiting \cup {r}
        /\ auditStatus'[r] = "queued"
    BY DEF InsertAudit, Facts, UpgradeTypeOK
  <1>2. /\ Active' \subseteq Active \cup {r} /\ Marked' \subseteq Marked \cup {r}
        /\ RecentFailures' \subseteq RecentFailures
    BY <1>1 DEF Active, InFlight, Marked, RecentFailures
  <1>3. /\ InHand' \subseteq InHand \cup {r}
        /\ Open' \subseteq Open \cup {r}
        /\ Attempts' \subseteq Attempts \cup {r}
    BY <1>1, <1>2 DEF InHand, Open, Attempts
  <1>4. /\ e \in Stage("inserting") /\ Stage("inserting")' \subseteq Stage("inserting") \ {e}
        /\ e \in Trying /\ Trying' \subseteq Trying \ {e}
        /\ e \in Pending /\ Pending' \subseteq Pending \ {e}
    BY <1>1 DEF Stage, Trying, Pending, Facts, UpgradeTypeOK
  <1>5. /\ IsFiniteSet(InHand) /\ IsFiniteSet(Open) /\ IsFiniteSet(Attempts)
        /\ IsFiniteSet(Pending) /\ IsFiniteSet(Trying)
        /\ IsFiniteSet(Stage("inserting")) /\ Cardinality(Evals) \in Nat
    BY Finite
  <1>6. /\ Cardinality(InHand) \in Nat /\ Cardinality(InHand') \in Nat
        /\ Cardinality(InHand') <= Cardinality(InHand) + 1
    BY <1>3, <1>5, OneMore
  <1>10. /\ Cardinality(Stage("inserting")) \in Nat
         /\ Cardinality(Stage("inserting")') \in Nat
         /\ Cardinality(Stage("inserting")') + 1 <= Cardinality(Stage("inserting"))
    <2>1. ASSUME NEW S, NEW T, IsFiniteSet(T), e \in T, S \subseteq T \ {e}
          PROVE  /\ Cardinality(S) \in Nat /\ Cardinality(T) \in Nat
                 /\ Cardinality(S) + 1 <= Cardinality(T)
      BY <2>1, OneLess
    <2> QED
      BY <1>4, <1>5, <2>1
  <1>7. /\ Cardinality(Open) \in Nat /\ Cardinality(Open') \in Nat
        /\ Cardinality(Open') <= Cardinality(Open) + 1
        /\ Cardinality(Pending) \in Nat /\ Cardinality(Pending') \in Nat
        /\ Cardinality(Pending') + 1 <= Cardinality(Pending)
    BY <1>3, <1>4, <1>5, OneMore, OneLess
  <1>8. /\ Cardinality(Attempts) \in Nat /\ Cardinality(Attempts') \in Nat
        /\ Cardinality(Attempts') <= Cardinality(Attempts) + 1
        /\ Cardinality(Trying) \in Nat /\ Cardinality(Trying') \in Nat
        /\ Cardinality(Trying') + 1 <= Cardinality(Trying)
    BY <1>3, <1>4, <1>5, OneMore, OneLess
  <1>9. MaxFailures \in Nat
    BY UpgradeConstants
  <1> QED
    BY <1>5, <1>6, <1>7, <1>8, <1>9, <1>10, SMT DEF Bounds

\* Closing and marking: a row that is marked was in hand already.
LEMMA CloseOrMarkBounds ==
  ASSUME Facts, Facts', Bounds, NEW e \in Evals,
         CompleteOnHeartbeat(e) \/ MarkInProgress(e)
  PROVE  Bounds'
  <1>1. /\ Stage("behind")' \subseteq Stage("behind")
        /\ Stage("counted")' \subseteq Stage("counted")
        /\ Stage("inserting")' \subseteq Stage("inserting")
    BY DEF CompleteOnHeartbeat, MarkInProgress, Stage, Facts, UpgradeTypeOK
  <1>2. Pending' \subseteq Pending /\ Trying' \subseteq Trying
    BY <1>1 DEF Pending, Trying
  <1>3. UNCHANGED <<backdated, waiting>> /\ Marked' \subseteq Marked
    BY UpgradeConstants
    DEF CompleteOnHeartbeat, MarkInProgress, Marked, Facts, UpgradeTypeOK
  <1>4. /\ Active' \subseteq Active \cup Marked
        /\ RecentFailures' \subseteq RecentFailures
    <2>1. CASE CompleteOnHeartbeat(e)
      BY <2>1 DEF CompleteOnHeartbeat, Active, InFlight, RecentFailures, Facts,
                  UpgradeTypeOK
    <2>2. CASE MarkInProgress(e)
      <3>1. evalRow[e] \in Marked
        BY <2>2 DEF MarkInProgress, Marked, Facts, Holding
      <3> QED
        BY <2>2, <3>1 DEF MarkInProgress, Active, InFlight, RecentFailures,
                          Facts, UpgradeTypeOK
    <2> QED
      BY <2>1, <2>2
  <1>5. /\ InHand' \subseteq InHand /\ Open' \subseteq Open
        /\ Attempts' \subseteq Attempts
    BY <1>3, <1>4 DEF InHand, Open, Attempts
  <1> QED
    BY <1>1, <1>2, <1>5, NothingGrows

\* What happens to rows outside evaluations: a row that fails was in flight
\* or had a promise pending.
LEMMA OtherBounds ==
  ASSUME Facts, Facts', Bounds,
         \/ \E r \in Rows : SendSettles(r)
         \/ \E rows \in SUBSET {r \in Rows : InFlight(r) /\ r \notin waiting} :
               ExpireTimedOut(rows)
         \/ ForgetFailures \/ AgentUpgraded \/ UpgradeRestart
         \/ UNCHANGED upgradeVars
  PROVE  Bounds'
  <1>1. /\ Stage("behind")' \subseteq Stage("behind")
        /\ Stage("counted")' \subseteq Stage("counted")
        /\ Stage("inserting")' \subseteq Stage("inserting")
        /\ Marked' \subseteq Marked /\ waiting' \subseteq waiting
    <2>1. CASE UpgradeRestart
      BY <2>1, UpgradeConstants DEF UpgradeRestart, Stage, Marked
    <2>2. CASE ~UpgradeRestart
      <3>1. UNCHANGED <<evalAt, evalRow>> /\ waiting' \subseteq waiting
        BY <2>2 DEF SendSettles, ExpireTimedOut, ForgetFailures, AgentUpgraded,
                    upgradeVars
      <3> QED
        BY <3>1 DEF Stage, Marked
    <2> QED
      BY <2>1, <2>2
  <1>2. Pending' \subseteq Pending /\ Trying' \subseteq Trying
    BY <1>1 DEF Pending, Trying
  <1>3. /\ Active' \subseteq Active
        /\ RecentFailures' \subseteq RecentFailures \cup Active \cup waiting
    <2>1. ASSUME NEW r \in Rows, SendSettles(r)
          PROVE  /\ Active' \subseteq Active
                 /\ RecentFailures' \subseteq RecentFailures \cup waiting
      BY <2>1 DEF SendSettles, Active, InFlight, RecentFailures, Facts, UpgradeTypeOK
    <2>2. ASSUME NEW rows \in SUBSET {r \in Rows : InFlight(r) /\ r \notin waiting},
                 ExpireTimedOut(rows)
          PROVE  /\ Active' \subseteq Active
                 /\ RecentFailures' \subseteq RecentFailures \cup Active
      BY <2>2 DEF ExpireTimedOut, Active, InFlight, RecentFailures, Facts,
                  UpgradeTypeOK
    <2>3. ASSUME ForgetFailures \/ AgentUpgraded \/ UpgradeRestart
                 \/ UNCHANGED upgradeVars
          PROVE  /\ Active' \subseteq Active
                 /\ RecentFailures' \subseteq RecentFailures
      <3>1. auditStatus' = auditStatus /\ backdated \subseteq backdated'
        BY <2>3 DEF ForgetFailures, AgentUpgraded, UpgradeRestart, upgradeVars
      <3> QED
        BY <3>1 DEF Active, InFlight, RecentFailures
    <2> QED
      BY <2>1, <2>2, <2>3
  <1>4. /\ InHand' \subseteq InHand /\ Open' \subseteq Open
        /\ Attempts' \subseteq Attempts
    BY <1>1, <1>3 DEF InHand, Open, Attempts
  <1> QED
    BY <1>1, <1>2, <1>4, NothingGrows
-----------------------------------------------------------------------------
(* The theorems *)

Inv == Facts /\ Bounds

\* With no rows everything is within bounds.
LEMMA InitInv == Init => Inv
  <1> SUFFICES ASSUME Init PROVE Inv
    OBVIOUS
  <1>1. Facts
    BY InitFacts DEF Init
  <1>2. /\ InHand = {} /\ Open = {} /\ Attempts = {} /\ Pending = {}
        /\ Trying = {} /\ Stage("inserting") = {}
    BY UpgradeConstants
    DEF Init, UpgradeInit, InHand, Open, Attempts, Pending, Trying, Stage,
        RecentFailures, Active, InFlight, Marked
  <1>3. /\ Cardinality(Evals) \in Nat /\ MaxFailures \in Nat \ {0}
        /\ Cardinality({}) = 0
    BY UpgradeConstants, FS_CardinalityType, FS_EmptySet
  <1>4. /\ Cardinality(InHand) = 0 /\ Cardinality(Open) = 0
        /\ Cardinality(Attempts) = 0 /\ Cardinality(Pending) = 0
        /\ Cardinality(Trying) = 0 /\ Cardinality(Stage("inserting")) = 0
    BY <1>2, <1>3
  <1>5. Bounds
    BY <1>3, <1>4, SMT DEF Bounds
  <1> QED
    BY <1>1, <1>5 DEF Inv

\* Every step of the system is one of rotation and one of upgrades.
LEMMA StepOfBoth ==
  ASSUME [Next]_vars
  PROVE  /\ [KeyNext]_keyVars
         /\ \/ UpgradeStep \/ UpgradeRestart \/ UNCHANGED upgradeVars
            \/ \E e \in Evals : StartEvaluation(e)
  BY DEF Next, vars, KeyNext, PollAndEvaluate, Heartbeat, Restart

\* The invariant of upgrades is inductive.
LEMMA NextInv == Inv /\ [Next]_vars => Inv'
  <1> SUFFICES ASSUME Inv, [Next]_vars PROVE Inv'
    OBVIOUS
  <1> USE DEF Inv
  <1>1. ASSUME NEW e \in Evals, StartEvaluation(e) PROVE Inv'
    BY <1>1, StartFacts, StartBounds
  <1>2. ASSUME NEW e \in Evals, CountFailures(e) PROVE Inv'
    BY <1>2, ReadFacts, CountBounds
  <1>3. ASSUME NEW e \in Evals, CheckActive(e) PROVE Inv'
    BY <1>3, ReadFacts, CheckBounds
  <1>4. ASSUME NEW e \in Evals, CompleteOnHeartbeat(e) \/ MarkInProgress(e)
        PROVE  Inv'
    BY <1>4, WriteFacts, CloseOrMarkBounds
  <1>5. ASSUME NEW e \in Evals, NEW r \in Rows, InsertAudit(e, r) PROVE Inv'
    BY <1>5, WriteFacts, InsertBounds
  <1>6. ASSUME \/ \E r \in Rows : SendSettles(r)
               \/ \E rows \in SUBSET {r \in Rows : InFlight(r) /\ r \notin waiting} :
                     ExpireTimedOut(rows)
               \/ ForgetFailures \/ AgentUpgraded \/ UpgradeRestart
               \/ UNCHANGED upgradeVars
        PROVE  Inv'
    BY <1>6, OtherFacts, OtherBounds
  <1> QED
    BY StepOfBoth, <1>1, <1>2, <1>3, <1>4, <1>5, <1>6 DEF UpgradeStep

\* The bounds give what is promised.
LEMMA InvImplies == Inv => AttemptsAreBounded /\ UpgradesAtOnce
  <1> SUFFICES ASSUME Inv PROVE AttemptsAreBounded /\ UpgradesAtOnce
    OBVIOUS
  <1>1. /\ IsFiniteSet(InHand) /\ Active \subseteq InHand
        /\ IsFiniteSet(Stage("inserting")) /\ IsFiniteSet(Trying)
        /\ IsFiniteSet(Attempts)
    <2>1. /\ InHand \subseteq Rows /\ Attempts \subseteq Rows
          /\ Trying \subseteq Evals /\ Stage("inserting") \subseteq Evals
      BY DEF Inv, Facts, UpgradeTypeOK, InHand, Active, Marked, Attempts,
             RecentFailures, Trying, Stage
    <2> QED
      BY <2>1, UpgradeConstants, FewerElements DEF InHand
  <1>2. /\ Cardinality(Active) \in Nat /\ Cardinality(InHand) \in Nat
        /\ Cardinality(Active) <= Cardinality(InHand)
        /\ Cardinality(Stage("inserting")) \in Nat
        /\ Cardinality(Trying) \in Nat /\ Cardinality(Attempts) \in Nat
        /\ Cardinality(Evals) \in Nat /\ MaxFailures \in Nat
    BY <1>1, UpgradeConstants, FewerElements, FS_CardinalityType
  <1> QED
    BY <1>2, SMT DEF Inv, Bounds, AttemptsAreBounded, UpgradesAtOnce

\* The system with upgrades does with the keys what rotation alone does: the
\* composition implements KeyRotation.
THEOREM UpgradesKeepRotation == Spec => KeySpec
  <1>1. Init => KeyInit
    BY DEF Init
  <1>2. [Next]_vars => [KeyNext]_keyVars
    BY StepOfBoth
  <1> QED
    BY <1>1, <1>2, PTL DEF Spec, KeySpec

\* Every variable of both modules keeps its type.
THEOREM UpgradeTypes == Spec => []TypeOK
  <1>1. Inv /\ KeyTypeOK => TypeOK
    BY DEF Inv, Facts, TypeOK
  <1> QED
    BY <1>1, InitInv, NextInv, UpgradesKeepRotation, RotationsHold, PTL DEF Spec

\* The status "acknowledged" is true of the agent, whatever is lost, repeated
\* or late, as long as rotations do not overlap.
THEOREM AcknowledgedIsHeld == Spec => []AcknowledgedHasKey
  BY UpgradesKeepRotation, RotationsHold, PTL

\* An agent is refused only after it missed a window or rotations overlapped.
THEOREM NotCutOffInTime == Spec => []CutOffOnlyWhenLate
  BY UpgradesKeepRotation, RotationsHold, PTL

\* However evaluations overlap, the rows that count as failures or may come to
\* are at most AUTO_UPGRADE_MAX_FAILURES - 1 plus two per evaluation.
THEOREM FailuresAreBounded == Spec => []AttemptsAreBounded
  BY InitInv, NextInv, InvImplies, PTL DEF Spec

\* No more upgrades are in flight than evaluations can overlap.
THEOREM FewUpgradesAtOnce == Spec => []UpgradesAtOnce
  BY InitInv, NextInv, InvImplies, PTL DEF Spec

\* Rows enough for every attempt and one more.
EnoughRows == Cardinality(Rows) >= MaxFailures + 2 * Cardinality(Evals)

\* The model's stock of audit rows restricts nothing: with one row more than
\* there can be attempts, an insert always finds a row that nothing refers to.
THEOREM InsertFindsRow == Spec => [](EnoughRows => \E r \in Rows : Spare(r))
  <1>1. Inv => (EnoughRows => \E r \in Rows : Spare(r))
    <2> SUFFICES ASSUME Inv, EnoughRows, \A r \in Rows : ~Spare(r)
                 PROVE  FALSE
      OBVIOUS
    <2>1. UpgradeTypeOK /\ AttemptsAreBounded
      BY InvImplies DEF Inv, Facts
    <2>2. Attempts \subseteq Rows
      BY <2>1
      DEF UpgradeTypeOK, Attempts, RecentFailures, Active, Marked
    <2>3. Rows \subseteq Attempts
      BY <2>1
      DEF UpgradeTypeOK, Spare, Attempts, RecentFailures, Active, InFlight,
          Marked
    <2>4. /\ Attempts = Rows /\ Cardinality(Rows) \in Nat
          /\ Cardinality(Evals) \in Nat /\ MaxFailures \in Nat
      BY <2>2, <2>3, UpgradeConstants, FS_CardinalityType
    <2> QED
      BY <2>1, <2>4 DEF AttemptsAreBounded, EnoughRows
  <1> QED
    BY <1>1, InitInv, NextInv, PTL DEF Spec
=============================================================================
