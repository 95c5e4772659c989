---------------------------- MODULE BillingProofs ----------------------------
(***************************************************************************)
(* Theorems about Billing, for any plans, quotas and caps, and any finite  *)
(* number of concurrent requests.                                          *)
(***************************************************************************)
EXTENDS Billing, FiniteSetTheorems, TLAPS

\* Only a scheduled change has a date.
DueIsScheduled == credits.due => credits.change # "none"

\* What is refused has been counted, and only when nothing was left.
Undoing == {r \in Requests : request[r].at = "undo"}

FreeCount ==
    /\ ran.free <= FreeLimit
    /\ freeUsed >= ran.free + Cardinality(Undoing)
    /\ freeUsed > ran.free => ran.free = FreeLimit

\* What is being credited has been paid for.
Reported ==
    \A r \in Requests :
        /\ request[r].at \in {"activate"} \cup Hooked \cup Logging
           => request[r].ref \in paid
        /\ request[r].at = "hook" => request[r].ref \in Orders

\* What is being bought is a paid plan, and only an order can be paid for.
Bought ==
    /\ \A o \in Orders : /\ orders[o].status # "none" => orders[o].tier \in PaidTiers
                         /\ o \in paid => orders[o].status # "none"
    /\ \A r \in Requests :
          request[r].at \in {"order", "upgrade", "clear", "activate"} \cup Hooked
          => request[r].tier \in PaidTiers

Facts == TypeOK /\ DueIsScheduled /\ FreeCount /\ Reported /\ Bought

\* Unlimited is a number.
LEMMA UnlimitedNat == Unlimited \in Nat
  BY SMT DEF Unlimited

\* The requests that are turned away are finitely many.
LEMMA UndoingFinite ==
  /\ IsFiniteSet(Undoing) /\ Cardinality(Undoing) \in Nat
  /\ (Undoing = {} <=> Cardinality(Undoing) = 0)
  BY ConstantsAssumption, FS_Subset, FS_CardinalityType, FS_EmptySet DEF Undoing

-----------------------------------------------------------------------------
(* Types and the free quota *)

\* Nothing has happened yet.
LEMMA InitFacts == Init => Facts
  <1> SUFFICES ASSUME Init PROVE Facts
    OBVIOUS
  <1> USE ConstantsAssumption
  <1>1. TypeOK
    BY DEF Init, TypeOK, Idle, Tiers, At
  <1>2. Undoing = {}
    BY DEF Init, Idle, Undoing
  <1>3. FreeCount
    BY <1>2, FS_EmptySet DEF Init, FreeCount
  <1>4. DueIsScheduled
    BY DEF Init, DueIsScheduled
  <1>5. Reported
    BY DEF Init, Idle, Reported, Hooked, Logging
  <1>6. Bought
    BY DEF Init, Idle, Bought, Hooked
  <1> QED BY <1>1, <1>3, <1>4, <1>5, <1>6 DEF Facts

\* A request that arrives keeps the types.
LEMMA ArriveTypeOK ==
  ASSUME TypeOK, DueIsScheduled, NEW r \in Requests, Arrive(r)
  PROVE  TypeOK'
  <1> USE ConstantsAssumption DEF TypeOK, billingVars, quotaVars, GoTo, Answer,
          Tiers, At, Paying, Passed, Hooked, Logging
  <1>1. CASE \E t \in PaidTiers : CreateOrder(r, t)
    BY <1>1 DEF CreateOrder
  <1>2. CASE \E o \in Orders : VerifyPayment(r, o)
    BY <1>2 DEF VerifyPayment, MarkCaptured
  <1>3. CASE \E o \in Orders : WebhookPaymentCaptured(r, o)
    BY <1>3 DEF WebhookPaymentCaptured
  <1>4. CASE \E at \in {"activate", "hookActivate"} : SubscriptionReported(r, at)
    BY <1>4 DEF SubscriptionReported
  <1>5. CASE \E at \in {"upgrade", "schedule"}, t \in Tiers : ChangePlan(r, at, t)
    BY <1>5 DEF ChangePlan, ApplyDue, Applied, DueIsScheduled, FreeChecks
  <1>6. CASE ResolveUserTier(r)
    BY <1>6 DEF ResolveUserTier
  <1> QED BY <1>1, <1>2, <1>3, <1>4, <1>5, <1>6 DEF Arrive

\* A request in progress keeps the types: what is decremented is not zero.
LEMMA ContinueTypeOK ==
  ASSUME Facts, NEW r \in Requests, Continue(r)
  PROVE  TypeOK'
  <1> USE ConstantsAssumption DEF Facts, TypeOK, billingVars, quotaVars, GoTo,
          Answer, Tiers, At, Paying, Passed, Hooked, Logging, Idle
  <1>1. CASE \E o \in Orders : CreatePaymentRecord(r, o)
    BY <1>1 DEF CreatePaymentRecord
  <1>2. CASE OrderRejected(r)
    BY <1>2 DEF OrderRejected
  <1>3. CASE WebhookMarks(r)
    BY <1>3 DEF WebhookMarks, MarkCaptured, Reported
  <1>4. CASE ActivatePlan(r)
    <2>1. request[r].tier \in PaidTiers /\ request[r].ref \in paid
      BY <1>4 DEF ActivatePlan, Reported, Bought
    <2>2. Checks[request[r].tier] \in Nat
      BY <2>1, UnlimitedNat
    <2> QED BY <1>4, <2>1, <2>2 DEF ActivatePlan
  <1>5. CASE Upgrade(r)
    BY <1>5 DEF Upgrade
  <1>6. CASE ClearScheduledChange(r)
    BY <1>6 DEF ClearScheduledChange
  <1>7. CASE Downgrade(r)
    BY <1>7 DEF Downgrade
  <1>8. CASE ScheduleDowngrade(r)
    BY <1>8 DEF ScheduleDowngrade
  <1>9. CASE EnforceHealthCheckCap(r)
    BY <1>9 DEF EnforceHealthCheckCap
  <1>10. CASE CapCheckFails(r)
    <2>1. faults' \in 0..MaxFaults
      BY <1>10 DEF CapCheckFails
    <2>2. ran' \in [free : Nat, credit : Nat, uncapped : Nat]
      BY <1>10 DEF CapCheckFails
    <2> QED BY <1>10, <2>1, <2>2 DEF CapCheckFails
  <1>11. CASE CheckUserHCLimit(r)
    BY <1>11 DEF CheckUserHCLimit
  <1>12. CASE DecrementUserCredit(r)
    <2>1. Debited \in {0, 1}
      BY DEF Debited
    <2>2. CASE credits.remaining > 0
      <3>1. credits.remaining - Debited \in Nat /\ ran.credit + Debited \in Nat
        BY <2>1, <2>2
      <3>2. credits' = [credits EXCEPT !.remaining = @ - Debited]
            /\ ran' = [ran EXCEPT !.credit = @ + Debited]
        BY <1>12, <2>2 DEF DecrementUserCredit
      <3>3. /\ credits' \in [tier : Tiers, remaining : Nat, total : Nat,
                            change : Tiers \cup {"none"}, due : BOOLEAN]
            /\ ran' \in [free : Nat, credit : Nat, uncapped : Nat]
        BY <3>1, <3>2
      <3> QED BY SMTT(20), <1>12, <2>2, <3>3 DEF DecrementUserCredit
    <2>3. CASE ~(credits.remaining > 0)
      BY <1>12, <2>3 DEF DecrementUserCredit
    <2> QED BY <2>2, <2>3
  <1>13. CASE IncrementFreeUsage(r)
    BY <1>13 DEF IncrementFreeUsage
  <1>14. CASE UndoFreeUsage(r)
    <2>1. Undoing # {}
      BY <1>14 DEF UndoFreeUsage, Undoing
    <2>2. freeUsed > 0
      <3>1. Cardinality(Undoing) > 0
        BY <2>1, UndoingFinite
      <3>2. freeUsed \in Nat /\ ran.free \in Nat
        OBVIOUS
      <3> QED BY <3>1, <3>2, UndoingFinite DEF FreeCount
    <2> QED BY <1>14, <2>2 DEF UndoFreeUsage
  <1>15. CASE RefuseConnection(r) \/ InsertHealthCheck(r)
    BY <1>15 DEF RefuseConnection, InsertHealthCheck
  <1>16. CASE LogReconciliation(r)
    <2>1. request[r].ref \in Orders \cup {Sub}
      BY <1>16 DEF LogReconciliation, Reported
    <2>2. [ref |-> request[r].ref, named |-> request[r].at = "log"]
          \in [ref : Orders \cup {Sub}, named : BOOLEAN]
      BY <2>1
    <2>3. /\ logged' \subseteq [ref : Orders \cup {Sub}, named : BOOLEAN]
          /\ lost' \subseteq Orders \cup {Sub}
      BY <1>16, <2>1, <2>2 DEF LogReconciliation
    <2> QED BY <1>16, <2>3 DEF LogReconciliation
  <1> QED
    BY <1>1, <1>2, <1>3, <1>4, <1>5, <1>6, <1>7, <1>8, <1>9, <1>10, <1>11,
       <1>12, <1>13, <1>14, <1>15, <1>16 DEF Continue

\* What happens outside of a request keeps the types, and so do failures.
LEMMA OtherTypeOK ==
  ASSUME Facts,
         \/ \E ref \in Orders \cup {Sub} : GatewayCaptures(ref)
         \/ \E r \in Requests : RequestFails(r)
         \/ DateComes \/ ShowPlan \/ RunScheduledHealthCheck \/ MonthBegins
         \/ CloudRestart
         \/ UNCHANGED vars
  PROVE  TypeOK'
  <1> USE ConstantsAssumption DEF Facts, TypeOK, billingVars, quotaVars, Answer,
          Tiers, At, Paying, Passed, Hooked, Logging, Idle
  <1>1. CASE \E ref \in Orders \cup {Sub} : GatewayCaptures(ref)
    BY <1>1 DEF GatewayCaptures
  <1>2. ASSUME NEW r \in Requests, RequestFails(r) PROVE TypeOK'
    <2> USE DEF GoTo
    <2>1. request' \in [Requests -> [at : At, tier : Tiers,
                                     ref : Orders \cup {Sub, "none"}]]
      BY <1>2 DEF RequestFails
    <2>2. faults' \in 0..MaxFaults
      BY <1>2 DEF RequestFails
    <2> QED BY <1>2, <2>1, <2>2 DEF RequestFails
  <1>3. CASE DateComes
    BY <1>3 DEF DateComes
  <1>4. CASE ShowPlan
    BY <1>4 DEF ShowPlan, ApplyDue, Applied, DueIsScheduled, FreeChecks
  <1>5. CASE RunScheduledHealthCheck \/ MonthBegins
    BY <1>5 DEF RunScheduledHealthCheck, MonthBegins
  <1>6. CASE CloudRestart
    <2>1. lost' \subseteq Orders \cup {Sub}
      BY <1>6 DEF CloudRestart, Reported
    <2>2. faults' \in 0..MaxFaults
      BY <1>6 DEF CloudRestart
    <2> QED BY <1>6, <2>1, <2>2 DEF CloudRestart
  <1>7. CASE UNCHANGED vars
    BY <1>7 DEF vars
  <1> QED BY <1>1, <1>2, <1>3, <1>4, <1>5, <1>6, <1>7

\* A change gets its date when it is scheduled, and loses both together.
LEMMA NextDueIsScheduled ==
  ASSUME Facts, [Next]_vars
  PROVE  DueIsScheduled'
  <1> USE ConstantsAssumption DEF Facts, TypeOK, DueIsScheduled, billingVars,
          quotaVars, Tiers
  <1>1. ASSUME NEW r \in Requests, Arrive(r) PROVE DueIsScheduled'
    BY <1>1 DEF Arrive, CreateOrder, VerifyPayment, WebhookPaymentCaptured,
       SubscriptionReported, ChangePlan, ApplyDue, Applied, ResolveUserTier
  <1>2. ASSUME NEW r \in Requests, Continue(r) PROVE DueIsScheduled'
    <2>1. CASE ActivatePlan(r)
      BY <2>1 DEF ActivatePlan
    <2>2. CASE ClearScheduledChange(r)
      BY <2>2 DEF ClearScheduledChange
    <2>3. CASE ScheduleDowngrade(r)
      BY <2>3 DEF ScheduleDowngrade
    <2>4. CASE DecrementUserCredit(r)
      BY <2>4 DEF DecrementUserCredit
    <2>5. CASE UNCHANGED credits
      BY <2>5
    <2> QED
      BY <1>2, <2>1, <2>2, <2>3, <2>4, <2>5 DEF Continue, CreatePaymentRecord,
         OrderRejected, WebhookMarks, Upgrade, Downgrade, EnforceHealthCheckCap,
         CapCheckFails, CheckUserHCLimit, IncrementFreeUsage, UndoFreeUsage,
         RefuseConnection, InsertHealthCheck, LogReconciliation
  <1>3. CASE DateComes
    BY <1>3 DEF DateComes
  <1>4. CASE ShowPlan
    BY <1>4 DEF ShowPlan, ApplyDue, Applied
  <1>5. CASE UNCHANGED credits
    BY <1>5
  <1> QED
    BY <1>1, <1>2, <1>3, <1>4, <1>5 DEF Next, GatewayCaptures, RequestFails,
       RunScheduledHealthCheck, MonthBegins, CloudRestart, vars

\* A request holds what has been paid for, and goes on to be idle.
LEMMA NextReported ==
  ASSUME Facts, [Next]_vars
  PROVE  Reported'
  <1> USE ConstantsAssumption DEF Facts, TypeOK, Reported, billingVars, quotaVars,
          GoTo, Answer, Idle, Hooked, Logging
  <1>1. ASSUME NEW r \in Requests, Arrive(r) PROVE Reported'
    <2>1. CASE \E o \in Orders : VerifyPayment(r, o)
      BY <2>1 DEF VerifyPayment
    <2>2. CASE \E o \in Orders : WebhookPaymentCaptured(r, o)
      BY <2>2 DEF WebhookPaymentCaptured
    <2>3. CASE \E at \in {"activate", "hookActivate"} : SubscriptionReported(r, at)
      BY <2>3 DEF SubscriptionReported
    <2>4. CASE \E t \in PaidTiers : CreateOrder(r, t)
      BY <2>4 DEF CreateOrder
    <2>5. CASE \E at \in {"upgrade", "schedule"}, t \in Tiers : ChangePlan(r, at, t)
      BY <2>5 DEF ChangePlan
    <2>6. CASE ResolveUserTier(r)
      BY <2>6 DEF ResolveUserTier
    <2> QED BY <1>1, <2>1, <2>2, <2>3, <2>4, <2>5, <2>6 DEF Arrive
  <1>2. ASSUME NEW r \in Requests, Continue(r) PROVE Reported'
    <2>1. CASE WebhookMarks(r)
      BY <2>1 DEF WebhookMarks
    <2>2. ASSUME UNCHANGED paid,
                 \A q \in Requests \ {r} : request'[q] = request[q],
                 request'[r].at \notin {"activate"} \cup Hooked \cup Logging
          PROVE  Reported'
      BY <2>2
    <2>3. CASE \E o \in Orders : CreatePaymentRecord(r, o)
      BY <2>2, <2>3 DEF CreatePaymentRecord
    <2>4. CASE OrderRejected(r) \/ ActivatePlan(r)
      BY <2>2, <2>4 DEF OrderRejected, ActivatePlan
    <2>5. CASE Upgrade(r)
      BY <2>2, <2>5 DEF Upgrade
    <2>6. CASE ClearScheduledChange(r)
      BY <2>2, <2>6 DEF ClearScheduledChange
    <2>7. CASE Downgrade(r)
      BY <2>2, <2>7 DEF Downgrade
    <2>8. CASE ScheduleDowngrade(r)
      BY <2>2, <2>8 DEF ScheduleDowngrade
    <2>9. CASE EnforceHealthCheckCap(r)
      BY <2>2, <2>9 DEF EnforceHealthCheckCap
    <2>10. CASE CapCheckFails(r)
      BY <2>2, <2>10 DEF CapCheckFails
    <2>11. CASE CheckUserHCLimit(r)
      BY <2>2, <2>11 DEF CheckUserHCLimit
    <2>12. CASE DecrementUserCredit(r)
      BY <2>2, <2>12 DEF DecrementUserCredit
    <2>13. CASE IncrementFreeUsage(r)
      BY <2>2, <2>13 DEF IncrementFreeUsage
    <2>14. CASE UndoFreeUsage(r) \/ RefuseConnection(r) \/ InsertHealthCheck(r)
      BY <2>2, <2>14 DEF UndoFreeUsage, RefuseConnection, InsertHealthCheck
    <2>15. CASE LogReconciliation(r)
      BY <2>2, <2>15 DEF LogReconciliation
    <2> QED
      BY <1>2, <2>1, <2>3, <2>4, <2>5, <2>6, <2>7, <2>8, <2>9, <2>10, <2>11,
         <2>12, <2>13, <2>14, <2>15 DEF Continue
  <1>3. CASE \E ref \in Orders \cup {Sub} : GatewayCaptures(ref)
    BY <1>3 DEF GatewayCaptures
  <1>4. ASSUME NEW r \in Requests, RequestFails(r) PROVE Reported'
    BY <1>4 DEF RequestFails
  <1>5. CASE CloudRestart
    BY <1>5 DEF CloudRestart
  <1>6. CASE UNCHANGED <<paid, request>>
    BY <1>6
  <1> QED
    BY <1>1, <1>2, <1>3, <1>4, <1>5, <1>6 DEF Next, DateComes, ShowPlan,
       RunScheduledHealthCheck, MonthBegins, vars

\* Marking an order changes its status only.
LEMMA Marked ==
  ASSUME TypeOK, NEW o \in Orders, MarkCaptured(o)
  PROVE  /\ orders'[o].status = "captured" /\ orders'[o].tier = orders[o].tier
         /\ \A p \in Orders \ {o} : orders'[p] = orders[p]
  BY DEF TypeOK, MarkCaptured

\* Orders carry the plan of the request that made them.
LEMMA NextBought ==
  ASSUME Facts, [Next]_vars
  PROVE  Bought'
  <1> USE ConstantsAssumption DEF Facts, TypeOK, billingVars, quotaVars,
          GoTo, Answer, Idle, Hooked
  <1>1. ASSUME NEW r \in Requests, UNCHANGED <<orders, paid>>,
               \A q \in Requests \ {r} : request'[q] = request[q],
               \/ request'[r].at \notin {"order", "upgrade", "clear", "activate"} \cup Hooked
               \/ request'[r].tier \in PaidTiers
        PROVE  Bought'
    BY <1>1 DEF Bought
  <1>2. ASSUME NEW r \in Requests, Arrive(r) PROVE Bought'
    <2>1. ASSUME NEW o \in Orders, VerifyPayment(r, o) PROVE Bought'
      <3>1. orders[o].status # "none" /\ orders[o].tier \in PaidTiers
        BY <2>1 DEF VerifyPayment, Bought
      <3>2. /\ orders'[o].status = "captured" /\ orders'[o].tier = orders[o].tier
            /\ \A p \in Orders \ {o} : orders'[p] = orders[p]
        BY <2>1, Marked DEF VerifyPayment
      <3>3. /\ UNCHANGED paid
            /\ request' = [request EXCEPT ![r] = [at |-> "activate",
                                      tier |-> orders[o].tier, ref |-> o]]
        BY <2>1 DEF VerifyPayment
      <3> QED BY <3>1, <3>2, <3>3 DEF Bought
    <2>2. ASSUME NEW o \in Orders, WebhookPaymentCaptured(r, o) PROVE Bought'
      <3>1. orders[o].tier \in PaidTiers
        BY <2>2 DEF WebhookPaymentCaptured, Bought
      <3> QED BY <1>1, <2>2, <3>1 DEF WebhookPaymentCaptured
    <2>3. CASE \E at \in {"activate", "hookActivate"} : SubscriptionReported(r, at)
      BY <1>1, <2>3 DEF SubscriptionReported
    <2>4. CASE \E t \in PaidTiers : CreateOrder(r, t)
      BY <1>1, <2>4 DEF CreateOrder
    <2>5. CASE \E at \in {"upgrade", "schedule"}, t \in Tiers : ChangePlan(r, at, t)
      BY <1>1, <2>5 DEF ChangePlan
    <2>6. CASE ResolveUserTier(r)
      BY <1>1, <2>6 DEF ResolveUserTier
    <2> QED BY <1>2, <2>1, <2>2, <2>3, <2>4, <2>5, <2>6 DEF Arrive
  <1>3. ASSUME NEW r \in Requests, Continue(r) PROVE Bought'
    <2>1. ASSUME NEW o \in Orders, CreatePaymentRecord(r, o) PROVE Bought'
      <3>1. request[r].tier \in PaidTiers
        BY <2>1 DEF CreatePaymentRecord, Bought
      <3> QED BY <2>1, <3>1 DEF CreatePaymentRecord, Bought
    <2>2. CASE WebhookMarks(r)
      <3> DEFINE o == request[r].ref
      <3>1. /\ o \in Orders /\ o \in paid /\ request[r].tier \in PaidTiers
            /\ orders[o].status # "none" /\ orders[o].tier \in PaidTiers
        BY <2>2 DEF WebhookMarks, Bought, Reported
      <3>2. /\ orders'[o].status = "captured" /\ orders'[o].tier = orders[o].tier
            /\ \A p \in Orders \ {o} : orders'[p] = orders[p]
        BY <2>2, <3>1, Marked DEF WebhookMarks
      <3>3. /\ UNCHANGED paid
            /\ request' = [request EXCEPT ![r] = [at |-> "hookActivate",
                                      tier |-> request[r].tier, ref |-> o]]
        BY <2>2 DEF WebhookMarks
      <3> HIDE DEF o
      <3> QED BY <3>1, <3>2, <3>3 DEF Bought
    <2>3. CASE OrderRejected(r) \/ ActivatePlan(r)
      BY <1>1, <2>3 DEF OrderRejected, ActivatePlan
    <2>4. CASE Upgrade(r)
      <3>1. request[r].tier \in PaidTiers
        BY <2>4 DEF Upgrade, Bought
      <3> QED BY <1>1, <2>4, <3>1 DEF Upgrade
    <2>5. CASE ClearScheduledChange(r)
      <3>1. request[r].tier \in PaidTiers
        BY <2>5 DEF ClearScheduledChange, Bought
      <3> QED BY <1>1, <2>5, <3>1 DEF ClearScheduledChange
    <2>6. CASE Downgrade(r)
      BY <1>1, <2>6 DEF Downgrade
    <2>7. CASE ScheduleDowngrade(r)
      BY <1>1, <2>7 DEF ScheduleDowngrade
    <2>8. CASE EnforceHealthCheckCap(r)
      BY <1>1, <2>8 DEF EnforceHealthCheckCap
    <2>9. CASE CapCheckFails(r)
      BY <1>1, <2>9 DEF CapCheckFails
    <2>10. CASE CheckUserHCLimit(r)
      BY <1>1, <2>10 DEF CheckUserHCLimit
    <2>11. CASE DecrementUserCredit(r)
      <3>1. request[r].at = "debit" /\ UNCHANGED <<orders, paid>>
        BY <2>11 DEF DecrementUserCredit
      <3>2. \/ request' = [request EXCEPT ![r] = [at |-> "run", tier |-> "free",
                                                   ref |-> "none"]]
            \/ request' = [request EXCEPT ![r] = [at |-> "idle", tier |-> "free",
                                                   ref |-> "none"]]
        BY <2>11 DEF DecrementUserCredit
      <3> QED BY <1>1, <3>1, <3>2
    <2>12. CASE IncrementFreeUsage(r)
      BY <1>1, <2>12 DEF IncrementFreeUsage
    <2>13. CASE UndoFreeUsage(r) \/ RefuseConnection(r) \/ InsertHealthCheck(r)
      BY <1>1, <2>13 DEF UndoFreeUsage, RefuseConnection, InsertHealthCheck
    <2>14. CASE LogReconciliation(r)
      BY <1>1, <2>14 DEF LogReconciliation
    <2> QED
      BY <1>3, <2>1, <2>2, <2>3, <2>4, <2>5, <2>6, <2>7, <2>8, <2>9, <2>10,
         <2>11, <2>12, <2>13, <2>14 DEF Continue
  <1>4. CASE \E ref \in Orders \cup {Sub} : GatewayCaptures(ref)
    BY <1>4 DEF GatewayCaptures, Bought
  <1>5. ASSUME NEW r \in Requests, RequestFails(r) PROVE Bought'
    BY <1>1, <1>5 DEF RequestFails
  <1>6. CASE CloudRestart
    BY <1>6 DEF CloudRestart, Bought
  <1>7. CASE UNCHANGED <<orders, paid, request>>
    BY <1>7 DEF Bought
  <1> QED
    BY <1>2, <1>3, <1>4, <1>5, <1>6, <1>7 DEF Next, DateComes, ShowPlan,
       RunScheduledHealthCheck, MonthBegins, vars
-----------------------------------------------------------------------------
(* The free quota *)

\* No step of a request but these two has to do with a refusal.
LEMMA NoRefusal ==
  ASSUME TypeOK, NEW r \in Requests, Arrive(r) \/ Continue(r),
         ~IncrementFreeUsage(r), ~UndoFreeUsage(r)
  PROVE  /\ UNCHANGED <<freeUsed, ran.free>>
         /\ Undoing' = Undoing
  <1> USE DEF TypeOK, billingVars, quotaVars, GoTo, Answer, Idle
  <1>1. ASSUME request[r].at # "undo", request'[r].at # "undo",
               \A q \in Requests \ {r} : request'[q] = request[q]
        PROVE  Undoing' = Undoing
    BY <1>1 DEF Undoing
  <1>2. CASE Arrive(r)
    <2>1. UNCHANGED <<freeUsed, ran.free>>
      BY <1>2 DEF Arrive, CreateOrder, VerifyPayment, WebhookPaymentCaptured,
         SubscriptionReported, ChangePlan, ApplyDue, ResolveUserTier
    <2>2. /\ request[r].at = "idle"
          /\ request'[r].at \in {"order", "activate", "hook", "hookActivate",
                                 "upgrade", "schedule", "count"}
          /\ \A q \in Requests \ {r} : request'[q] = request[q]
      BY <1>2 DEF Arrive, CreateOrder, VerifyPayment, WebhookPaymentCaptured,
         SubscriptionReported, ChangePlan, ResolveUserTier
    <2> QED BY <1>1, <2>1, <2>2
  <1>3. CASE Continue(r)
    <2>1. CASE DecrementUserCredit(r)
      <3>1. /\ request[r].at = "debit" /\ UNCHANGED freeUsed
            /\ \/ UNCHANGED ran
               \/ ran' = [ran EXCEPT !.credit = @ + Debited]
        BY <2>1 DEF DecrementUserCredit
      <3>2. /\ request'[r].at \in {"run", "idle"}
            /\ \A q \in Requests \ {r} : request'[q] = request[q]
        BY <2>1 DEF DecrementUserCredit
      <3> QED BY <1>1, <3>1, <3>2
    <2>2. CASE ActivatePlan(r) \/ CapCheckFails(r)
      BY <1>1, <2>2 DEF ActivatePlan, CapCheckFails
    <2>3. CASE (\E o \in Orders : CreatePaymentRecord(r, o)) \/ OrderRejected(r)
      BY <1>1, <2>3 DEF CreatePaymentRecord, OrderRejected
    <2>4. CASE WebhookMarks(r) \/ Upgrade(r) \/ ClearScheduledChange(r)
      BY <1>1, <2>4 DEF WebhookMarks, Upgrade, ClearScheduledChange
    <2>5. CASE Downgrade(r)
      BY <1>1, <2>5 DEF Downgrade
    <2>7. CASE ScheduleDowngrade(r)
      BY <1>1, <2>7 DEF ScheduleDowngrade
    <2>6. CASE EnforceHealthCheckCap(r) \/ CheckUserHCLimit(r) \/ InsertHealthCheck(r)
      BY <1>1, <2>6 DEF EnforceHealthCheckCap, CheckUserHCLimit, InsertHealthCheck
    <2>8. CASE RefuseConnection(r) \/ LogReconciliation(r)
      BY <1>1, <2>8 DEF RefuseConnection, LogReconciliation, Logging
    <2> QED
      BY <1>3, <2>1, <2>2, <2>3, <2>4, <2>5, <2>6, <2>7, <2>8 DEF Continue
  <1> QED BY <1>2, <1>3

\* Counting first and looking later: a refusal has counted one too many.
LEMMA NextFreeCount ==
  ASSUME Facts, [Next]_vars
  PROVE  FreeCount'
  <1>0. \/ freeUsed + 1 > FreeLimit /\ ran.free = FreeLimit
        \/ /\ ~(freeUsed + 1 > FreeLimit)
           /\ freeUsed = ran.free /\ Cardinality(Undoing) = 0
    <2>1. /\ Cardinality(Undoing) \in Nat /\ freeUsed \in Nat /\ ran.free \in Nat
          /\ FreeLimit \in Nat
      BY UndoingFinite, ConstantsAssumption DEF Facts, TypeOK
    <2>2. /\ ran.free <= FreeLimit
          /\ freeUsed >= ran.free + Cardinality(Undoing)
          /\ freeUsed > ran.free => ran.free = FreeLimit
      BY DEF Facts, FreeCount
    <2> QED BY <2>1, <2>2
  <1> USE ConstantsAssumption DEF Facts, TypeOK, billingVars, quotaVars, GoTo,
          Answer, Idle
  <1>1. /\ IsFiniteSet(Undoing) /\ Cardinality(Undoing) \in Nat
        /\ freeUsed \in Nat /\ ran.free \in Nat
    BY UndoingFinite
  <1>2. ASSUME UNCHANGED <<freeUsed, ran.free>>, Undoing' \subseteq Undoing
        PROVE  FreeCount'
    <2>1. IsFiniteSet(Undoing') /\ Cardinality(Undoing') <= Cardinality(Undoing)
      BY <1>1, <1>2, FS_Subset
    <2>2. Cardinality(Undoing') \in Nat
      BY <2>1, FS_CardinalityType
    <2> QED BY <1>1, <1>2, <2>1, <2>2 DEF FreeCount
  <1>3. ASSUME NEW r \in Requests, Arrive(r) \/ Continue(r) PROVE FreeCount'
    <2>1. CASE IncrementFreeUsage(r)
      <3>1. /\ request[r].at = "free" /\ freeUsed' = freeUsed + 1
            /\ \A q \in Requests \ {r} : request'[q] = request[q]
        BY <2>1 DEF IncrementFreeUsage
      <3>2. CASE freeUsed + 1 > FreeLimit
        <4>1. request'[r].at = "undo" /\ UNCHANGED ran
          BY <2>1, <3>1, <3>2 DEF IncrementFreeUsage
        <4>2. Undoing' = Undoing \cup {r} /\ r \notin Undoing
          BY <3>1, <4>1 DEF Undoing
        <4>3. Cardinality(Undoing') = Cardinality(Undoing) + 1
          BY <1>1, <4>2, FS_AddElement
        <4>4. ran.free = FreeLimit
          BY <1>0, <3>2
        <4> QED BY <1>1, <3>1, <4>1, <4>3, <4>4 DEF FreeCount
      <3>3. CASE ~(freeUsed + 1 > FreeLimit)
        <4>1. request'[r].at = "run" /\ ran'.free = ran.free + 1
          BY <2>1, <3>1, <3>3 DEF IncrementFreeUsage
        <4>2. Undoing' = Undoing
          BY <3>1, <4>1 DEF Undoing
        <4>3. freeUsed = ran.free /\ Cardinality(Undoing) = 0
          BY <1>0, <3>3
        <4> QED BY <1>1, <3>1, <3>3, <4>1, <4>2, <4>3 DEF FreeCount
      <3> QED BY <3>2, <3>3
    <2>2. CASE UndoFreeUsage(r)
      <3>1. /\ request[r].at = "undo" /\ request'[r].at = "idle"
            /\ freeUsed' = freeUsed - 1 /\ UNCHANGED ran
            /\ \A q \in Requests \ {r} : request'[q] = request[q]
        BY <2>2 DEF UndoFreeUsage
      <3>2. Undoing' = Undoing \ {r} /\ r \in Undoing
        BY <3>1 DEF Undoing
      <3>3. Cardinality(Undoing') = Cardinality(Undoing) - 1
        BY <1>1, <3>2, FS_RemoveElement
      <3> QED BY <1>1, <3>1, <3>3 DEF FreeCount
    <2>3. CASE ~IncrementFreeUsage(r) /\ ~UndoFreeUsage(r)
      BY <1>2, <1>3, <2>3, NoRefusal
    <2> QED BY <2>1, <2>2, <2>3
  <1>4. ASSUME NEW r \in Requests, RequestFails(r) PROVE FreeCount'
    <2>1. Undoing' \subseteq Undoing
      BY <1>4 DEF RequestFails, Undoing
    <2> QED BY <1>2, <1>4, <2>1 DEF RequestFails
  <1>5. CASE CloudRestart
    <2>1. Undoing' \subseteq Undoing
      BY <1>5 DEF CloudRestart, Undoing
    <2> QED BY <1>2, <1>5, <2>1 DEF CloudRestart
  <1>6. CASE UNCHANGED <<freeUsed, ran.free, request>>
    BY <1>2, <1>6 DEF Undoing
  <1>7. CASE ShowPlan
    BY <1>6, <1>7 DEF ShowPlan, ApplyDue
  <1>8. CASE RunScheduledHealthCheck \/ MonthBegins
    BY <1>6, <1>8 DEF RunScheduledHealthCheck, MonthBegins
  <1> QED
    BY <1>3, <1>4, <1>5, <1>6, <1>7, <1>8 DEF Next, GatewayCaptures, DateComes,
       vars

\* The invariant of types, counts and payments.
LEMMA NextFacts == Facts /\ [Next]_vars => Facts'
  <1> SUFFICES ASSUME Facts, [Next]_vars PROVE Facts'
    OBVIOUS
  <1>1. TypeOK'
    BY ArriveTypeOK, ContinueTypeOK, OtherTypeOK DEF Facts, Next
  <1> QED
    BY <1>1, NextDueIsScheduled, NextFreeCount, NextReported, NextBought DEF Facts

LEMMA FactsAlways == Spec => []Facts
  BY InitFacts, NextFacts, PTL DEF Spec

\* Orders, credits, counters and requests keep their types: no counter is ever
\* decremented below zero.
THEOREM BillingTypes == Spec => []TypeOK
  BY FactsAlways, PTL DEF Facts

\* The free quota is exact, however many requests count at the same time.
THEOREM FreeQuota == Spec => []FreeQuotaIsExact
  <1>1. Facts => FreeQuotaIsExact
    <2> SUFFICES ASSUME Facts PROVE FreeQuotaIsExact
      OBVIOUS
    <2>1. ASSUME NEW r \in Requests, request[r].at = "undo"
          PROVE  ran.free = FreeLimit
      <3>1. Cardinality(Undoing) > 0
        BY <2>1, UndoingFinite DEF Undoing
      <3>2. freeUsed \in Nat /\ ran.free \in Nat
        BY DEF Facts, TypeOK
      <3> QED BY <3>1, <3>2, UndoingFinite DEF Facts, FreeCount
    <2> QED BY <2>1 DEF FreeQuotaIsExact, Facts, FreeCount
  <1> QED BY <1>1, FactsAlways, PTL
-----------------------------------------------------------------------------
(* Credits *)

\* Credits start anew when they are set, and go down by what is counted.
LEMMA NextCreditsAddUp ==
  ASSUME Facts, CreditsAddUp, [Next]_vars
  PROVE  CreditsAddUp'
  <1> USE ConstantsAssumption DEF Facts, TypeOK, CreditsAddUp
  <1>1. CASE UNCHANGED <<credits, ran>>
    BY <1>1
  <1>2. ASSUME ApplyDue PROVE CreditsAddUp'
    <2>1. CASE ~credits.due \/ credits.change # "free"
      <3>1. UNCHANGED ran /\ UNCHANGED <<credits.remaining, credits.total>>
        BY <1>2, <2>1 DEF ApplyDue, Applied
      <3> QED BY <3>1
    <2>2. CASE credits.due /\ credits.change = "free"
      <3>1. /\ ran'.credit = 0
            /\ credits'.remaining = FreeChecks /\ credits'.total = FreeChecks
        BY <1>2, <2>2 DEF ApplyDue, Applied
      <3> QED BY <3>1 DEF FreeChecks
    <2> QED BY <2>1, <2>2
  <1>3. ASSUME NEW r \in Requests, ActivatePlan(r) PROVE CreditsAddUp'
    <2>1. /\ ran'.credit = 0
          /\ credits'.remaining = Checks[request[r].tier]
          /\ credits'.total = Checks[request[r].tier]
      BY <1>3 DEF ActivatePlan
    <2>2. Checks[request[r].tier] \in Nat
      <3>1. request[r].tier \in PaidTiers
        BY <1>3 DEF ActivatePlan, Bought, Hooked
      <3> QED BY <3>1, UnlimitedNat
    <2> QED BY <2>1, <2>2
  <1>4. ASSUME NEW r \in Requests, DecrementUserCredit(r) PROVE CreditsAddUp'
    <2>1. CASE credits.remaining > 0
      <3>1. /\ credits'.remaining = credits.remaining - Debited
            /\ credits'.total = credits.total
            /\ ran'.credit = ran.credit + Debited
        BY <1>4, <2>1 DEF DecrementUserCredit
      <3>2. Debited \in {0, 1} /\ ran.credit \in Nat /\ credits.remaining \in Nat
            /\ credits.total \in Nat
        BY DEF Debited
      <3> QED BY <3>1, <3>2
    <2>2. CASE ~(credits.remaining > 0)
      BY <1>1, <1>4, <2>2 DEF DecrementUserCredit
    <2> QED BY <2>1, <2>2
  <1>5. ASSUME UNCHANGED credits, UNCHANGED ran.credit PROVE CreditsAddUp'
    BY <1>5
  <1>6. ASSUME UNCHANGED ran, UNCHANGED <<credits.remaining, credits.total>>
        PROVE  CreditsAddUp'
    BY <1>6
  <1>7. ASSUME NEW r \in Requests, Arrive(r) PROVE CreditsAddUp'
    BY <1>1, <1>2, <1>7 DEF Arrive, CreateOrder, VerifyPayment,
       WebhookPaymentCaptured, SubscriptionReported, ChangePlan, ResolveUserTier,
       billingVars, quotaVars
  <1>8. ASSUME NEW r \in Requests, Continue(r) PROVE CreditsAddUp'
    <2> USE DEF billingVars, quotaVars
    <2>1. CASE ClearScheduledChange(r)
      BY <1>6, <2>1 DEF ClearScheduledChange
    <2>2. CASE ScheduleDowngrade(r)
      BY <1>6, <2>2 DEF ScheduleDowngrade
    <2>3. CASE CapCheckFails(r)
      BY <1>5, <2>3 DEF CapCheckFails
    <2>4. CASE IncrementFreeUsage(r)
      BY <1>5, <2>4 DEF IncrementFreeUsage
    <2> QED
      BY <1>1, <1>3, <1>4, <1>8, <2>1, <2>2, <2>3, <2>4 DEF Continue,
         CreatePaymentRecord, OrderRejected, WebhookMarks, Upgrade, Downgrade,
         EnforceHealthCheckCap, CheckUserHCLimit, UndoFreeUsage,
         RefuseConnection, InsertHealthCheck, LogReconciliation
  <1>9. CASE DateComes
    BY <1>6, <1>9 DEF DateComes, quotaVars
  <1>10. CASE RunScheduledHealthCheck \/ MonthBegins
    BY <1>5, <1>10 DEF RunScheduledHealthCheck, MonthBegins, billingVars
  <1> QED
    BY <1>1, <1>2, <1>7, <1>8, <1>9, <1>10 DEF Next, GatewayCaptures,
       RequestFails, ShowPlan, CloudRestart, vars, quotaVars, billingVars

\* Every check that was let through has taken one credit, for any interleaving
\* of requests, payments and plan changes.
THEOREM Credits == Spec => []CreditsAddUp
  <1>1. Init => CreditsAddUp
    BY DEF Init, CreditsAddUp
  <1>2. Facts /\ CreditsAddUp /\ [Next]_vars => CreditsAddUp'
    BY NextCreditsAddUp
  <1> QED BY <1>1, <1>2, FactsAlways, PTL DEF Spec

\* Whoever asks for a change by then has had a plan.
Entitled ==
    \/ credits.tier # "free"
    \/ credits.change # "none"
    \/ \E r \in Requests : request[r].at = "write"
    => paid # {}

\* Plans come from payments, changes from plans.
LEMMA NextEntitled ==
  ASSUME Facts, Entitled, [Next]_vars
  PROVE  Entitled'
  <1> USE ConstantsAssumption DEF Facts, TypeOK, Entitled, billingVars, quotaVars,
          GoTo, Answer, Idle
  <1>1. CASE paid' # {}
    BY <1>1
  <1>2. CASE paid' = {}
    <2>1. paid = {}
      BY <1>2 DEF Next, Arrive, CreateOrder, VerifyPayment, WebhookPaymentCaptured,
         SubscriptionReported, ChangePlan, ResolveUserTier, Continue,
         CreatePaymentRecord, OrderRejected, WebhookMarks, ActivatePlan, Upgrade,
         ClearScheduledChange, Downgrade, ScheduleDowngrade,
         EnforceHealthCheckCap, CapCheckFails, CheckUserHCLimit,
         DecrementUserCredit, IncrementFreeUsage, UndoFreeUsage,
         InsertHealthCheck, RefuseConnection,
       LogReconciliation, RunScheduledHealthCheck, GatewayCaptures,
       RequestFails, DateComes, ShowPlan,
         MonthBegins, CloudRestart, vars
    <2>2. /\ credits.tier = "free" /\ credits.change = "none"
          /\ \A r \in Requests : request[r].at # "write"
      BY <2>1
    <2>3. ~credits.due
      BY <2>2 DEF DueIsScheduled
    <2>4. \A r \in Requests : request[r].at \notin {"activate"} \cup Hooked
      BY <2>1 DEF Reported
    <2>5. credits'.tier = "free" /\ credits'.change = "none"
      <3>1. CASE UNCHANGED credits
        BY <2>2, <3>1
      <3>2. ASSUME ApplyDue PROVE UNCHANGED credits
        BY <2>3, <3>2 DEF ApplyDue, Applied
      <3>3. ASSUME NEW r \in Requests, Arrive(r) PROVE UNCHANGED credits
        BY <3>2, <3>3 DEF Arrive, CreateOrder, VerifyPayment,
           WebhookPaymentCaptured, SubscriptionReported, ChangePlan,
           ResolveUserTier
      <3>4. ASSUME NEW r \in Requests, Continue(r)
            PROVE  credits'.tier = "free" /\ credits'.change = "none"
        <4>1. ~ActivatePlan(r) /\ ~ScheduleDowngrade(r)
          BY <2>2, <2>4 DEF ActivatePlan, ScheduleDowngrade, Hooked
        <4>2. CASE ClearScheduledChange(r)
          BY <2>2, <4>2 DEF ClearScheduledChange
        <4>3. CASE DecrementUserCredit(r)
          BY <2>2, <4>3 DEF DecrementUserCredit
        <4> QED
          BY <3>1, <3>4, <4>1, <4>2, <4>3 DEF Continue, CreatePaymentRecord,
             OrderRejected, WebhookMarks, Upgrade, Downgrade,
             EnforceHealthCheckCap, CapCheckFails, CheckUserHCLimit,
             IncrementFreeUsage, UndoFreeUsage, RefuseConnection,
             InsertHealthCheck, LogReconciliation
      <3>5. ~DateComes
        BY <2>2 DEF DateComes
      <3> QED
        BY <3>1, <3>2, <3>3, <3>4, <3>5 DEF Next, GatewayCaptures, RequestFails,
           ShowPlan, RunScheduledHealthCheck, MonthBegins, CloudRestart, vars
    <2>6. \A r \in Requests : request'[r].at # "write"
      <3>1. CASE UNCHANGED request
        BY <2>2, <3>1
      <3>2. ASSUME NEW r \in Requests, request'[r].at # "write",
                   \A q \in Requests \ {r} : request'[q] = request[q]
            PROVE  \A q \in Requests : request'[q].at # "write"
        BY <2>2, <3>2
      <3>3. ASSUME NEW r \in Requests, Arrive(r)
            PROVE  \A q \in Requests : request'[q].at # "write"
        BY <3>2, <3>3 DEF Arrive, CreateOrder, VerifyPayment,
           WebhookPaymentCaptured, SubscriptionReported, ChangePlan,
           ResolveUserTier
      <3>4. ASSUME NEW r \in Requests, Continue(r)
            PROVE  \A q \in Requests : request'[q].at # "write"
        <4>1. CASE Downgrade(r)
          BY SMTT(20), <2>2, <3>2, <4>1 DEF Downgrade
        <4>2. CASE DecrementUserCredit(r)
          BY <3>2, <4>2 DEF DecrementUserCredit
        <4>3. CASE \/ \E o \in Orders : CreatePaymentRecord(r, o)
                   \/ OrderRejected(r) \/ WebhookMarks(r) \/ ActivatePlan(r)
                   \/ Upgrade(r) \/ ClearScheduledChange(r)
          BY <3>2, <4>3 DEF CreatePaymentRecord, OrderRejected, WebhookMarks,
             ActivatePlan, Upgrade, ClearScheduledChange
        <4>4. CASE ScheduleDowngrade(r)
          BY <3>2, <4>4 DEF ScheduleDowngrade
        <4>6. CASE EnforceHealthCheckCap(r) \/ CapCheckFails(r)
          BY <3>2, <4>6 DEF EnforceHealthCheckCap, CapCheckFails
        <4>7. CASE CheckUserHCLimit(r)
          BY <3>2, <4>7 DEF CheckUserHCLimit
        <4>5. CASE IncrementFreeUsage(r) \/ UndoFreeUsage(r) \/ InsertHealthCheck(r)
          BY <3>2, <4>5 DEF IncrementFreeUsage, UndoFreeUsage, InsertHealthCheck
        <4>8. CASE RefuseConnection(r) \/ LogReconciliation(r)
          BY <3>2, <4>8 DEF RefuseConnection, LogReconciliation
        <4> QED
          BY <3>4, <4>1, <4>2, <4>3, <4>4, <4>5, <4>6, <4>7, <4>8 DEF Continue
      <3>5. ASSUME NEW r \in Requests, RequestFails(r)
            PROVE  \A q \in Requests : request'[q].at # "write"
        BY <3>2, <3>5 DEF RequestFails
      <3>6. CASE CloudRestart
        BY <3>6 DEF CloudRestart
      <3> QED
        BY <3>1, <3>3, <3>4, <3>5, <3>6 DEF Next, GatewayCaptures, DateComes,
           ShowPlan, RunScheduledHealthCheck, MonthBegins, vars
    <2> QED BY <2>5, <2>6
  <1> QED BY <1>1, <1>2

\* No sequence of requests leads to a plan, now or scheduled, without money
\* having arrived.
THEOREM PlansArePaid == Spec => []NoPlanWithoutPayment
  <1>1. Init => Entitled
    BY DEF Init, Idle, Entitled
  <1>2. Facts /\ Entitled /\ [Next]_vars => Entitled'
    BY NextEntitled
  <1>3. Entitled => NoPlanWithoutPayment
    BY DEF Entitled, NoPlanWithoutPayment
  <1> QED BY <1>1, <1>2, <1>3, FactsAlways, PTL DEF Spec
-----------------------------------------------------------------------------
(* What has been captured, and the cap of the month *)

\* A request that credits or logs what was captured.
Handling(r) == request[r].at \in {"activate", "hookActivate"} \cup Logging

\* What nothing more is owed for.
Settled(o) == o \in unlocked \/ OnRecord(o) \/ o \in lost

\* A request goes from activatePlan to a credit or to the log, and leaves the log
\* with a row or without; a restart ends it.
LEMMA NextCaptured ==
  ASSUME Facts, CapturedIsNotForgotten, [Next]_vars
  PROVE  CapturedIsNotForgotten'
  <1> USE ConstantsAssumption DEF Facts, TypeOK, billingVars, quotaVars, GoTo,
          Answer, Idle, Logging
  <1>1. /\ unlocked \subseteq unlocked' /\ logged \subseteq logged'
        /\ lost \subseteq lost'
    BY DEF Next, Arrive, CreateOrder, VerifyPayment, WebhookPaymentCaptured,
       SubscriptionReported, ChangePlan, ResolveUserTier, Continue,
       CreatePaymentRecord, OrderRejected, WebhookMarks, ActivatePlan, Upgrade,
       ClearScheduledChange, Downgrade, ScheduleDowngrade, EnforceHealthCheckCap,
       CapCheckFails, CheckUserHCLimit, DecrementUserCredit, IncrementFreeUsage,
       UndoFreeUsage, InsertHealthCheck, RefuseConnection,
       LogReconciliation, RunScheduledHealthCheck, GatewayCaptures,
       RequestFails, DateComes, ShowPlan, MonthBegins, CloudRestart, vars
  <1>2. \A o \in Orders : Settled(o) => Settled(o)'
    BY <1>1 DEF Settled, OnRecord
  \* The three steps that capture or leave the others alone.
  <1>3. ASSUME NEW r \in Requests, ~Handling(r),
               \A q \in Requests \ {r} : request'[q] = request[q],
               \A p \in Orders : \/ orders'[p].status # "captured"
                                 \/ orders'[p] = orders[p]
                                 \/ Handling(r)' /\ request'[r].ref = p
        PROVE  CapturedIsNotForgotten'
    BY SMTT(20), <1>2, <1>3 DEF CapturedIsNotForgotten, Settled, Handling
  <1>4. ASSUME NEW r \in Requests, Handling(r), UNCHANGED orders,
               \A q \in Requests \ {r} : request'[q] = request[q],
               \A o \in Orders : request[r].ref = o => Settled(o)'
        PROVE  CapturedIsNotForgotten'
    BY <1>2, <1>4 DEF CapturedIsNotForgotten, Settled, Handling
  <1>5. CASE UNCHANGED <<orders, request>>
    BY <1>2, <1>5 DEF CapturedIsNotForgotten, Settled
  <1>6. ASSUME NEW r \in Requests, Arrive(r) PROVE CapturedIsNotForgotten'
    <2>1. ASSUME NEW o \in Orders, VerifyPayment(r, o)
          PROVE  CapturedIsNotForgotten'
      <3>1. \A p \in Orders \ {o} : orders'[p] = orders[p]
        BY <2>1, Marked DEF VerifyPayment
      <3>2. /\ ~Handling(r) /\ Handling(r)' /\ request'[r].ref = o
            /\ \A q \in Requests \ {r} : request'[q] = request[q]
        BY <2>1 DEF VerifyPayment, Handling
      <3> QED BY <1>3, <3>1, <3>2
    <2>2. CASE UNCHANGED orders
      <3>1. /\ ~Handling(r)
            /\ \A q \in Requests \ {r} : request'[q] = request[q]
        BY <1>6 DEF Arrive, CreateOrder, VerifyPayment, WebhookPaymentCaptured,
           SubscriptionReported, ChangePlan, ResolveUserTier, Handling
      <3> QED BY <1>3, <2>2, <3>1
    <2> QED
      BY <1>6, <2>1, <2>2 DEF Arrive, CreateOrder, WebhookPaymentCaptured,
         SubscriptionReported, ChangePlan, ResolveUserTier
  <1>7. ASSUME NEW r \in Requests, Continue(r) PROVE CapturedIsNotForgotten'
    <2>1. CASE ActivatePlan(r)
      <3>1. /\ Handling(r) /\ UNCHANGED orders
            /\ unlocked' = unlocked \cup {request[r].ref}
            /\ \A q \in Requests \ {r} : request'[q] = request[q]
        BY <2>1 DEF ActivatePlan, Handling
      <3>2. \A o \in Orders : request[r].ref = o => Settled(o)'
        BY <3>1 DEF Settled
      <3> QED BY <1>4, <3>1, <3>2
    <2>2. CASE WebhookMarks(r)
      <3> DEFINE o == request[r].ref
      <3>1. o \in Orders /\ MarkCaptured(o)
        BY <2>2 DEF WebhookMarks, Reported
      <3>2. \A p \in Orders \ {o} : orders'[p] = orders[p]
        BY <3>1, Marked
      <3>3. /\ ~Handling(r) /\ Handling(r)' /\ request'[r].ref = o
            /\ \A q \in Requests \ {r} : request'[q] = request[q]
        BY <2>2 DEF WebhookMarks, Handling
      <3> HIDE DEF o
      <3> QED BY <1>3, <3>2, <3>3
    <2>3. ASSUME NEW o \in Orders, CreatePaymentRecord(r, o)
          PROVE  CapturedIsNotForgotten'
      <3>1. \A p \in Orders : \/ orders'[p].status # "captured"
                              \/ orders'[p] = orders[p]
        BY <2>3 DEF CreatePaymentRecord
      <3>2. /\ ~Handling(r)
            /\ \A q \in Requests \ {r} : request'[q] = request[q]
        BY <2>3 DEF CreatePaymentRecord, Handling
      <3> QED BY <1>3, <3>1, <3>2
    <2>4. ASSUME UNCHANGED orders, ~Handling(r),
                 \A q \in Requests \ {r} : request'[q] = request[q]
          PROVE  CapturedIsNotForgotten'
      BY <1>3, <2>4
    <2>5. CASE DecrementUserCredit(r)
      BY <2>4, <2>5 DEF DecrementUserCredit, Handling
    <2>6. CASE OrderRejected(r) \/ Upgrade(r) \/ ClearScheduledChange(r)
      BY <2>4, <2>6 DEF OrderRejected, Upgrade, ClearScheduledChange, Handling
    <2>7. CASE Downgrade(r) \/ EnforceHealthCheckCap(r)
      BY <2>4, <2>7 DEF Downgrade, EnforceHealthCheckCap, Handling
    <2>8. CASE ScheduleDowngrade(r)
      BY <2>4, <2>8 DEF ScheduleDowngrade, Handling
    <2>9. CASE CapCheckFails(r) \/ CheckUserHCLimit(r)
      BY <2>4, <2>9 DEF CapCheckFails, CheckUserHCLimit, Handling
    <2>10. CASE IncrementFreeUsage(r)
      BY <2>4, <2>10 DEF IncrementFreeUsage, Handling
    <2>11. CASE UndoFreeUsage(r) \/ RefuseConnection(r) \/ InsertHealthCheck(r)
      BY <2>4, <2>11 DEF UndoFreeUsage, RefuseConnection, InsertHealthCheck, Handling
    <2>12. CASE LogReconciliation(r)
      <3>1. /\ Handling(r) /\ UNCHANGED orders
            /\ \A q \in Requests \ {r} : request'[q] = request[q]
        BY <2>12 DEF LogReconciliation, Handling
      <3>2. \/ [ref |-> request[r].ref, named |-> request[r].at = "log"] \in logged'
            \/ request[r].ref \in lost'
        BY <2>12 DEF LogReconciliation
      <3>3. \A o \in Orders : request[r].ref = o => Settled(o)'
        BY <3>2 DEF Settled, OnRecord
      <3> QED BY <1>4, <3>1, <3>3
    <2> QED
      BY <1>7, <2>1, <2>2, <2>3, <2>5, <2>6, <2>7, <2>8, <2>9, <2>10, <2>11,
         <2>12 DEF Continue
  <1>8. ASSUME NEW r \in Requests, RequestFails(r) PROVE CapturedIsNotForgotten'
    <2>1. /\ UNCHANGED orders
          /\ \A q \in Requests \ {r} : request'[q] = request[q]
      BY <1>8 DEF RequestFails
    <2>2. CASE ~Handling(r)
      BY <1>3, <2>1, <2>2
    <2>3. CASE Handling(r)
      <3>1. Handling(r)' /\ request'[r].ref = request[r].ref
        BY <1>8, <2>3 DEF RequestFails, Handling, Hooked
      <3> QED
        BY SMTT(20), <1>2, <2>1, <2>3, <3>1
           DEF CapturedIsNotForgotten, Settled, Handling
    <2> QED BY <2>2, <2>3
  <1>9. CASE CloudRestart
    <2>1. \A r \in Requests, o \in Orders :
             Handling(r) /\ request[r].ref = o => Settled(o)'
      BY <1>9 DEF CloudRestart, Handling, Settled
    <2> QED
      BY <1>2, <1>9, <2>1 DEF CloudRestart, CapturedIsNotForgotten, Settled, Handling
  <1> QED
    BY <1>5, <1>6, <1>7, <1>8, <1>9 DEF Next, GatewayCaptures, DateComes, ShowPlan,
       RunScheduledHealthCheck, MonthBegins, vars

\* No interleaving, repetition or single failure makes the system forget what it
\* captured: it takes a restart, or a log that fails after the credit did.
THEOREM CapturedPayments == Spec => []CapturedIsNotForgotten
  <1>1. Init => CapturedIsNotForgotten
    BY DEF Init, CapturedIsNotForgotten
  <1>2. Facts /\ CapturedIsNotForgotten /\ [Next]_vars => CapturedIsNotForgotten'
    BY NextCaptured
  <1> QED BY <1>1, <1>2, FactsAlways, PTL DEF Spec

\* The requests that may still write a row.
InFlight == {r \in Requests : request[r].at \in Passed}

Room(c) ==
    checks - ran.uncapped + Cardinality(InFlight) < c + Cardinality(Requests)

CapInv ==
    \A t \in Tiers : (\A u \in Tiers : Cap[u] <= Cap[t]) => Room(Cap[t])

LEMMA InFlightFinite ==
  /\ IsFiniteSet(InFlight) /\ Cardinality(InFlight) \in Nat
  /\ Cardinality(InFlight) <= Cardinality(Requests)
  /\ Cardinality(Requests) \in Nat
  BY ConstantsAssumption, FS_Subset, FS_CardinalityType DEF InFlight

\* Steps that let nobody pass keep the room there is, unless the month ends.
LEMMA KeepsRoom ==
  ASSUME TypeOK, CapInv, checks' \in Nat, ran'.uncapped \in Nat,
         checks' - ran'.uncapped <= checks - ran.uncapped,
         InFlight' \subseteq InFlight
  PROVE  CapInv'
  <1>1. /\ Cardinality(InFlight') <= Cardinality(InFlight)
        /\ Cardinality(InFlight') \in Nat
    BY InFlightFinite, FS_Subset, FS_CardinalityType
  <1>2. ASSUME NEW t \in Tiers, Room(Cap[t]) PROVE Room(Cap[t])'
    <2>1. Cap[t] \in Int
      BY ConstantsAssumption, UnlimitedNat
    <2>2. checks \in Nat /\ ran.uncapped \in Nat
      BY DEF TypeOK
    <2> QED BY <1>1, <1>2, <2>1, <2>2, InFlightFinite DEF Room
  <1> QED BY <1>2 DEF CapInv

\* Nothing is in flight but what fits, at the beginning of a month.
LEMMA RoomInNewMonth ==
  ASSUME NEW t \in Tiers, NEW n \in Nat, n <= Cardinality(Requests)
  PROVE  n < Cap[t] + Cardinality(Requests)
  <1>1. Cap[t] \in 1..Unlimited
    BY ConstantsAssumption
  <1> QED BY <1>1, UnlimitedNat, InFlightFinite

\* Requests pass below the cap, and there are only so many of them.
LEMMA NextCapInv ==
  ASSUME Facts, CapInv, [Next]_vars
  PROVE  CapInv'
  <1> USE ConstantsAssumption DEF Facts, TypeOK, billingVars, quotaVars, GoTo,
          Answer, Idle
  <1>1. CASE UNCHANGED <<checks, request, ran.uncapped>>
    BY <1>1, KeepsRoom DEF InFlight
  <1>2. ASSUME NEW r \in Requests, UNCHANGED <<checks, ran.uncapped>>,
               \A q \in Requests \ {r} : request'[q] = request[q],
               request'[r].at \in Passed => request[r].at \in Passed
        PROVE  CapInv'
    <2>1. InFlight' \subseteq InFlight
      BY <1>2 DEF InFlight
    <2> QED BY <1>2, <2>1, KeepsRoom
  <1>3. ASSUME NEW r \in Requests, Arrive(r) PROVE CapInv'
    <2>1. UNCHANGED <<checks, ran.uncapped>>
      BY <1>3 DEF Arrive, CreateOrder, VerifyPayment, WebhookPaymentCaptured,
         SubscriptionReported, ChangePlan, ApplyDue, ResolveUserTier
    <2>2. /\ request'[r].at \in {"order", "activate", "hook", "hookActivate",
                                 "upgrade", "schedule", "count"}
          /\ \A q \in Requests \ {r} : request'[q] = request[q]
      BY <1>3 DEF Arrive, CreateOrder, VerifyPayment, WebhookPaymentCaptured,
         SubscriptionReported, ChangePlan, ResolveUserTier
    <2> QED BY <1>2, <2>1, <2>2 DEF Passed
  <1>4. ASSUME NEW r \in Requests, Continue(r) PROVE CapInv'
    <2> USE DEF Passed
    <2>1. CASE EnforceHealthCheckCap(r)
      <3>1. UNCHANGED <<checks, ran>>
        BY <2>1 DEF EnforceHealthCheckCap
      <3>2. CASE checks < Cap[request[r].tier]
        <4>1. ASSUME NEW t \in Tiers, \A u \in Tiers : Cap[u] <= Cap[t]
              PROVE  Room(Cap[t])'
          <5>1. checks < Cap[t]
            <6>1. Cap[request[r].tier] \in Int /\ Cap[t] \in Int
              BY UnlimitedNat
            <6> QED BY <3>2, <4>1, <6>1
          <5>2. /\ Cardinality(InFlight') \in Nat
                /\ Cardinality(InFlight') <= Cardinality(Requests)
            BY FS_Subset, FS_CardinalityType DEF InFlight
          <5>3. Cap[t] \in Int /\ Cardinality(Requests) \in Nat
            BY UnlimitedNat, InFlightFinite
          <5>4. ran.uncapped \in Nat
            OBVIOUS
          <5> QED BY <3>1, <5>1, <5>2, <5>3, <5>4 DEF Room
        <4> QED BY <4>1 DEF CapInv
      <3>3. CASE ~(checks < Cap[request[r].tier])
        BY <1>2, <2>1, <3>1, <3>3 DEF EnforceHealthCheckCap
      <3> QED BY <3>2, <3>3
    \* One more in flight, and one more that was not asked about.
    <2>2. CASE CapCheckFails(r)
      <3>1. /\ request[r].at = "count" /\ request'[r].at = "quota"
            /\ \A q \in Requests \ {r} : request'[q] = request[q]
            /\ UNCHANGED checks /\ ran'.uncapped = ran.uncapped + 1
        BY <2>2 DEF CapCheckFails
      <3>2. InFlight' = InFlight \cup {r} /\ r \notin InFlight
        BY <3>1 DEF InFlight
      <3>3. Cardinality(InFlight') = Cardinality(InFlight) + 1
        BY <3>2, InFlightFinite, FS_AddElement
      <3>4. ASSUME NEW t \in Tiers, Room(Cap[t]) PROVE Room(Cap[t])'
        <4>1. Cap[t] \in Int
          BY UnlimitedNat
        <4> QED BY <3>1, <3>3, <3>4, <4>1, InFlightFinite DEF Room
      <3> QED BY <3>4 DEF CapInv
    <2>3. CASE InsertHealthCheck(r)
      <3>1. /\ request[r].at = "run" /\ checks' \in {checks, checks + 1}
            /\ request'[r].at = "idle" /\ UNCHANGED ran
            /\ \A q \in Requests \ {r} : request'[q] = request[q]
        BY <2>3 DEF InsertHealthCheck
      <3>2. InFlight' = InFlight \ {r} /\ r \in InFlight
        BY <3>1 DEF InFlight
      <3>3. Cardinality(InFlight') = Cardinality(InFlight) - 1
        BY <3>2, InFlightFinite, FS_RemoveElement
      <3>4. ASSUME NEW t \in Tiers, Room(Cap[t]) PROVE Room(Cap[t])'
        <4>1. Cap[t] \in Int
          BY UnlimitedNat
        <4> QED BY <3>1, <3>3, <3>4, <4>1, InFlightFinite DEF Room
      <3> QED BY <3>1, <3>4 DEF CapInv
    <2>4. CASE DecrementUserCredit(r)
      <3>1. /\ request[r].at = "debit" /\ UNCHANGED checks
            /\ \/ UNCHANGED ran
               \/ ran' = [ran EXCEPT !.credit = @ + Debited]
        BY <2>4 DEF DecrementUserCredit
      <3>2. \A q \in Requests \ {r} : request'[q] = request[q]
        BY <2>4 DEF DecrementUserCredit
      <3>3. UNCHANGED ran.uncapped
        BY <3>1
      <3> QED BY <1>2, <3>1, <3>2, <3>3
    <2>5. CASE (\E o \in Orders : CreatePaymentRecord(r, o)) \/ OrderRejected(r)
      BY <1>2, <2>5 DEF CreatePaymentRecord, OrderRejected
    <2>6. CASE WebhookMarks(r) \/ Upgrade(r)
      BY <1>2, <2>6 DEF WebhookMarks, Upgrade
    <2>7. CASE ActivatePlan(r) \/ ClearScheduledChange(r)
      BY <1>2, <2>7 DEF ActivatePlan, ClearScheduledChange
    <2>8. CASE Downgrade(r)
      BY <1>2, <2>8 DEF Downgrade
    <2>9. CASE ScheduleDowngrade(r)
      BY <1>2, <2>9 DEF ScheduleDowngrade
    <2>10. CASE CheckUserHCLimit(r)
      BY <1>2, <2>10 DEF CheckUserHCLimit
    <2>11. CASE IncrementFreeUsage(r)
      BY <1>2, <2>11 DEF IncrementFreeUsage
    <2>12. CASE UndoFreeUsage(r)
      BY <1>2, <2>12 DEF UndoFreeUsage
    <2>13. CASE RefuseConnection(r) \/ LogReconciliation(r)
      BY <1>2, <2>13 DEF RefuseConnection, LogReconciliation
    <2> QED
      BY <1>4, <2>1, <2>2, <2>3, <2>4, <2>5, <2>6, <2>7, <2>8, <2>9, <2>10,
         <2>11, <2>12, <2>13 DEF Continue
  <1>5. ASSUME NEW r \in Requests, RequestFails(r) PROVE CapInv'
    BY <1>2, <1>5 DEF RequestFails, Passed
  <1>6. CASE CloudRestart
    <2>1. InFlight' \subseteq InFlight
      BY <1>6 DEF CloudRestart, InFlight, Passed
    <2> QED BY <1>6, <2>1, KeepsRoom DEF CloudRestart
  <1>7. CASE MonthBegins
    <2>1. /\ checks' = 0 /\ ran'.uncapped = 0 /\ InFlight' = InFlight
      BY <1>7 DEF MonthBegins, InFlight
    <2>2. \A t \in Tiers : Room(Cap[t])'
      BY <2>1, RoomInNewMonth, InFlightFinite DEF Room
    <2> QED BY <2>2 DEF CapInv
  <1>8. CASE RunScheduledHealthCheck
    BY <1>8, KeepsRoom DEF RunScheduledHealthCheck, InFlight
  <1>9. CASE ShowPlan
    BY <1>1, <1>9 DEF ShowPlan, ApplyDue
  <1> QED
    BY <1>1, <1>3, <1>4, <1>5, <1>6, <1>7, <1>8, <1>9 DEF Next, GatewayCaptures,
       DateComes, vars

\* Concurrent requests exceed the cap of the month by less than their number, the
\* checks that nobody asks the cap about aside.
THEOREM CapOvershoot == Spec => []CapOvershootIsBounded
  <1>1. Init => CapInv
    <2> SUFFICES ASSUME Init, NEW t \in Tiers PROVE Room(Cap[t])
      BY DEF CapInv
    <2>1. InFlight = {} /\ checks = 0 /\ ran.uncapped = 0
      BY DEF Init, Idle, InFlight, Passed
    <2> QED BY <2>1, RoomInNewMonth, InFlightFinite, FS_EmptySet DEF Room
  <1>2. Facts /\ CapInv /\ [Next]_vars => CapInv'
    BY NextCapInv
  <1>3. Facts /\ CapInv => CapOvershootIsBounded
    <2> SUFFICES ASSUME Facts, CapInv, NEW t \in Tiers,
                        \A u \in Tiers : Cap[u] <= Cap[t]
                 PROVE  checks - ran.uncapped < Cap[t] + Cardinality(Requests)
      BY DEF CapOvershootIsBounded
    <2>1. Room(Cap[t])
      BY DEF CapInv
    <2>2. Cap[t] \in Int /\ checks \in Nat /\ ran.uncapped \in Nat
      BY ConstantsAssumption, UnlimitedNat DEF Facts, TypeOK
    <2> QED BY <2>1, <2>2, InFlightFinite DEF Room
  <1> QED BY <1>1, <1>2, <1>3, FactsAlways, PTL DEF Spec
=============================================================================
