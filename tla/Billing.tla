------------------------------- MODULE Billing -------------------------------
(***************************************************************************)
(* Payments, plan changes and health-check quotas of one user              *)
(* (routes/payments.js, db/payments.js, checkUserHCLimit in server.js,     *)
(* middleware/tier-enforce.js).  Money arrives at the payment gateway; the *)
(* browser and the gateway's webhook, in any order and more than once,     *)
(* report it.  Every await of a handler ends a step.                       *)
(***************************************************************************)
EXTENDS Integers, FiniteSets

CONSTANTS
    PaidTiers,      \* plans one can buy
    Legacy,         \* those with a monthly number of checks
    Rank,           \* TIER_ORDER.indexOf: -1 for what it does not list
    Checks,         \* getPlanChecks
    Cap,            \* max_health_checks_per_month of the tier
    FreeLimit,      \* HC_FREE_LIMIT (5)
    Orders,         \* one-time payments
    Sub, SubTier,   \* a subscription, and its tier
    Requests,       \* requests in progress at the same time
    MaxUncapped,    \* bound: checks of a month that no cap was asked about
    MaxFaults       \* bound: failed queries and restarts

Unlimited == 999999999      \* UNLIMITED_SENTINEL; also a cap of -1
FreeChecks == 5             \* what applyDueScheduledChanges leaves
Tiers == PaidTiers \cup {"free"}

ASSUME ConstantsAssumption ==
    /\ "free" \notin PaidTiers /\ "none" \notin PaidTiers
    /\ Legacy \subseteq PaidTiers /\ SubTier \in Legacy
    /\ Rank \in [Tiers -> Int]
    /\ Checks \in [PaidTiers -> 1..Unlimited]
    /\ Cap \in [Tiers -> 1..Unlimited]
    /\ FreeLimit \in Nat \ {0}
    /\ Sub \notin Orders /\ "none" \notin Orders \cup {Sub}
    /\ IsFiniteSet(Requests)
    /\ MaxUncapped \in Nat /\ MaxFaults \in Nat

VARIABLES
    credits,        \* the user's row of user_credits
    orders,         \* payments: status and tier of each order
    paid,           \* at the gateway: what has been paid for
    unlocked,       \* history: what activatePlan has credited
    logged,         \* rows of payment_reconciliation: what each is about, and
                    \* whether it names that
    lost,           \* history: what a restart cut off before activatePlan or
                    \* before the log, or what the log failed to write
    request,        \* where each request is and what it holds
    freeUsed,       \* user_hc_usage.hc_count
    checks,         \* rows of health_checks in this calendar month
    ran,            \* history: checks let through, free, since the last credit,
                    \* and past the cap this month
    faults

billingVars == <<credits, orders, paid, unlocked, logged, lost>>
quotaVars == <<freeUsed, checks, ran>>
vars == <<credits, orders, paid, unlocked, logged, lost, request, freeUsed,
          checks, ran, faults>>

Hooked == {"hook", "hookActivate"}
Logging == {"log", "hookLog"}
Paying == {"order", "activate", "upgrade", "clear", "schedule", "write"}
              \cup Hooked \cup Logging
\* Past the cap of tier-enforce.js and not yet a row.
Passed == {"quota", "debit", "free", "undo", "run"}
At == {"idle", "count"} \cup Paying \cup Passed

TypeOK ==
    /\ credits \in [tier : Tiers, remaining : Nat, total : Nat,
                    change : Tiers \cup {"none"}, due : BOOLEAN]
    /\ orders \in [Orders -> [status : {"none", "created", "captured"},
                              tier : Tiers]]
    /\ paid \subseteq Orders \cup {Sub} /\ unlocked \subseteq Orders \cup {Sub}
    /\ logged \subseteq [ref : Orders \cup {Sub}, named : BOOLEAN]
    /\ lost \subseteq Orders \cup {Sub}
    /\ request \in [Requests -> [at : At, tier : Tiers,
                                 ref : Orders \cup {Sub, "none"}]]
    /\ freeUsed \in Nat /\ checks \in Nat
    /\ ran \in [free : Nat, credit : Nat, uncapped : Nat]
    /\ faults \in 0..MaxFaults

Idle == [at |-> "idle", tier |-> "free", ref |-> "none"]

\* No row of user_credits reads like a free plan without checks.
Init ==
    /\ credits = [tier |-> "free", remaining |-> 0, total |-> 0,
                  change |-> "none", due |-> FALSE]
    /\ orders = [o \in Orders |-> [status |-> "none", tier |-> "free"]]
    /\ paid = {} /\ unlocked = {} /\ logged = {} /\ lost = {}
    /\ request = [r \in Requests |-> Idle]
    /\ freeUsed = 0 /\ checks = 0
    /\ ran = [free |-> 0, credit |-> 0, uncapped |-> 0]
    /\ faults = 0

GoTo(r, at, tier, ref) ==
    request' = [request EXCEPT ![r] = [at |-> at, tier |-> tier, ref |-> ref]]
Answer(r) == request' = [request EXCEPT ![r] = Idle]
-----------------------------------------------------------------------------
(* Buying a plan *)

\* Not the holder of a plan with checks left.
CreateOrder(r, t) ==
    /\ request[r].at = "idle"
    /\ credits.tier = "free" \/ credits.remaining = 0
    /\ GoTo(r, "order", t, "none")
    /\ UNCHANGED <<billingVars, quotaVars, faults>>

CreatePaymentRecord(r, o) ==
    /\ request[r].at = "order" /\ orders[o].status = "none"
    /\ orders' = [orders EXCEPT ![o] = [status |-> "created",
                                        tier |-> request[r].tier]]
    /\ Answer(r)
    /\ UNCHANGED <<credits, paid, unlocked, logged, lost, quotaVars, faults>>

\* The gateway rejects the order: 500.
OrderRejected(r) ==
    /\ request[r].at = "order"
    /\ Answer(r)
    /\ UNCHANGED <<billingVars, quotaVars, faults>>

\* The user pays at the gateway, for an order or for the subscription.
GatewayCaptures(ref) ==
    /\ ref \notin paid
    /\ ref \in Orders => orders[ref].status = "created"
    /\ paid' = paid \cup {ref}
    /\ UNCHANGED <<credits, orders, unlocked, logged, lost, request, quotaVars,
                   faults>>

MarkCaptured(o) == orders' = [orders EXCEPT ![o].status = "captured"]

\* Mutant: the signature is not looked at.
VerifyAnything(r, o) ==
    /\ request[r].at = "idle" /\ orders[o].status # "none"
    /\ MarkCaptured(o)
    /\ GoTo(r, "activate", orders[o].tier, o)
    /\ UNCHANGED <<credits, paid, unlocked, logged, lost, quotaVars, faults>>

\* The gateway signs what was paid; the user may repeat the request.
VerifyPayment(r, o) ==
    /\ request[r].at = "idle" /\ o \in paid
    /\ MarkCaptured(o)
    /\ GoTo(r, "activate", orders[o].tier, o)
    /\ UNCHANGED <<credits, paid, unlocked, logged, lost, quotaVars, faults>>

\* payment.captured: what is captured already is skipped.
WebhookPaymentCaptured(r, o) ==
    /\ request[r].at = "idle" /\ o \in paid /\ orders[o].status # "captured"
    /\ GoTo(r, "hook", orders[o].tier, o)
    /\ UNCHANGED <<billingVars, quotaVars, faults>>

WebhookMarks(r) ==
    /\ request[r].at = "hook"
    /\ MarkCaptured(request[r].ref)
    /\ GoTo(r, "hookActivate", request[r].tier, request[r].ref)
    /\ UNCHANGED <<credits, paid, unlocked, logged, lost, quotaVars, faults>>

\* verify-subscription, and the webhooks charged, activated and resumed: they
\* credit as often as they come.
SubscriptionReported(r, at) ==
    /\ request[r].at = "idle" /\ Sub \in paid
    /\ at \in {"activate", "hookActivate"}
    /\ GoTo(r, at, SubTier, Sub)
    /\ UNCHANGED <<billingVars, quotaVars, faults>>

\* creditUser: the quota starts anew; a scheduled change stays.
ActivatePlan(r) ==
    /\ request[r].at \in {"activate", "hookActivate"}
    /\ LET t == request[r].tier IN
       credits' = [credits EXCEPT !.tier = t, !.remaining = Checks[t],
                                  !.total = Checks[t]]
    /\ unlocked' = unlocked \cup {request[r].ref}
    /\ ran' = [ran EXCEPT !.credit = 0]
    /\ Answer(r)
    /\ UNCHANGED <<orders, paid, logged, lost, freeUsed, checks, faults>>
-----------------------------------------------------------------------------
(* Changing a plan *)

\* "free" resets the checks, another tier keeps them.
Applied ==
    IF credits.due
    THEN [tier |-> credits.change, change |-> "none", due |-> FALSE,
          remaining |-> IF credits.change = "free" THEN FreeChecks
                        ELSE credits.remaining,
          total |-> IF credits.change = "free" THEN FreeChecks ELSE credits.total]
    ELSE credits

ApplyDue ==
    /\ credits' = Applied
    /\ ran' = IF credits.due /\ credits.change = "free"
              THEN [ran EXCEPT !.credit = 0] ELSE ran

\* The date of a scheduled change comes.
DateComes ==
    /\ credits.change # "none" /\ ~credits.due
    /\ credits' = [credits EXCEPT !.due = TRUE]
    /\ UNCHANGED <<orders, paid, unlocked, logged, lost, request, quotaVars, faults>>

\* plan-state and billing/summary.
ShowPlan ==
    /\ credits.due
    /\ ApplyDue
    /\ UNCHANGED <<orders, paid, unlocked, logged, lost, request, freeUsed,
                   checks, faults>>

\* change-plan: an upgrade to t, a downgrade to t, or for "free" a cancellation.
ChangePlan(r, at, t) ==
    /\ request[r].at = "idle"
    /\ \/ at = "upgrade" /\ t \in PaidTiers \ Legacy
       \/ at = "schedule" /\ t \in Tiers \ Legacy
    /\ ApplyDue
    /\ GoTo(r, at, t, "none")
    /\ UNCHANGED <<orders, paid, unlocked, logged, lost, freeUsed, checks, faults>>

Upgrade(r) ==
    LET t == request[r].tier IN
    /\ request[r].at = "upgrade"
    /\ IF credits.tier # "free" /\ Rank[t] > Rank[credits.tier]
       THEN GoTo(r, IF credits.change # "none" THEN "clear" ELSE "order", t, "none")
       ELSE Answer(r)
    /\ UNCHANGED <<billingVars, quotaVars, faults>>

\* Mutant: the date stays.
ClearChangeOnly(r) ==
    /\ request[r].at = "clear"
    /\ credits' = [credits EXCEPT !.change = "none"]
    /\ GoTo(r, "order", request[r].tier, "none")
    /\ UNCHANGED <<orders, paid, unlocked, logged, lost, quotaVars, faults>>

ClearScheduledChange(r) ==
    /\ request[r].at = "clear"
    /\ credits' = [credits EXCEPT !.change = "none", !.due = FALSE]
    /\ GoTo(r, "order", request[r].tier, "none")
    /\ UNCHANGED <<orders, paid, unlocked, logged, lost, quotaVars, faults>>

Downgrade(r) ==
    /\ request[r].at = "schedule"
    /\ IF credits.tier # "free" THEN GoTo(r, "write", request[r].tier, "none")
                                ELSE Answer(r)
    /\ UNCHANGED <<billingVars, quotaVars, faults>>

\* The date is the end of the period, which may be over.
ScheduleDowngrade(r) ==
    /\ request[r].at = "write"
    /\ \E over \in BOOLEAN :
          credits' = [credits EXCEPT !.change = request[r].tier, !.due = over]
    /\ Answer(r)
    /\ UNCHANGED <<orders, paid, unlocked, logged, lost, quotaVars, faults>>
-----------------------------------------------------------------------------
(* POST /api/health-checks *)

ResolveUserTier(r) ==
    /\ request[r].at = "idle"
    /\ GoTo(r, "count", credits.tier, "none")
    /\ UNCHANGED <<billingVars, quotaVars, faults>>

\* Mutant: at the cap, one more is let through.
EnforceCapOffByOne(r) ==
    /\ request[r].at = "count"
    /\ IF checks <= Cap[request[r].tier] THEN GoTo(r, "quota", "free", "none")
                                         ELSE Answer(r)
    /\ UNCHANGED <<billingVars, quotaVars, faults>>

EnforceHealthCheckCap(r) ==
    /\ request[r].at = "count"
    /\ IF checks < Cap[request[r].tier] THEN GoTo(r, "quota", "free", "none")
                                        ELSE Answer(r)
    /\ UNCHANGED <<billingVars, quotaVars, faults>>

\* "fail-open": an error of the count lets the request pass.
CapCheckFails(r) ==
    /\ request[r].at = "count" /\ faults < MaxFaults
    /\ GoTo(r, "quota", "free", "none")
    /\ ran' = [ran EXCEPT !.uncapped = @ + 1]
    /\ faults' = faults + 1
    /\ UNCHANGED <<billingVars, freeUsed, checks>>

CheckUserHCLimit(r) ==
    /\ request[r].at = "quota"
    /\ IF credits.tier \notin Legacy    THEN GoTo(r, "free", "free", "none")
       ELSE IF credits.remaining > 0 THEN GoTo(r, "debit", "free", "none")
                                     ELSE Answer(r)
    /\ UNCHANGED <<billingVars, quotaVars, faults>>

Debited == IF credits.remaining < Unlimited THEN 1 ELSE 0

\* Mutant: without the WHERE, on the strength of the read before.
DecrementUnguarded(r) ==
    /\ request[r].at = "debit"
    /\ credits' = [credits EXCEPT !.remaining = IF @ = 0 THEN 0 ELSE @ - Debited]
    /\ ran' = [ran EXCEPT !.credit = @ + Debited]
    /\ GoTo(r, "run", "free", "none")
    /\ UNCHANGED <<orders, paid, unlocked, logged, lost, freeUsed, checks, faults>>

DecrementUserCredit(r) ==
    /\ request[r].at = "debit"
    /\ IF credits.remaining > 0
       THEN /\ credits' = [credits EXCEPT !.remaining = @ - Debited]
            /\ ran' = [ran EXCEPT !.credit = @ + Debited]
            /\ GoTo(r, "run", "free", "none")
       ELSE Answer(r) /\ UNCHANGED <<credits, ran>>
    /\ UNCHANGED <<orders, paid, unlocked, logged, lost, freeUsed, checks, faults>>

\* Add one, then look at the sum.
IncrementFreeUsage(r) ==
    /\ request[r].at = "free"
    /\ freeUsed' = freeUsed + 1
    /\ IF freeUsed' > FreeLimit
       THEN GoTo(r, "undo", "free", "none") /\ UNCHANGED ran
       ELSE GoTo(r, "run", "free", "none") /\ ran' = [ran EXCEPT !.free = @ + 1]
    /\ UNCHANGED <<billingVars, checks, faults>>

\* Mutant: the count is set back to the limit less one.
UndoTwice(r) ==
    /\ request[r].at = "undo"
    /\ freeUsed' = FreeLimit - 1
    /\ Answer(r)
    /\ UNCHANGED <<billingVars, checks, ran, faults>>

UndoFreeUsage(r) ==
    /\ request[r].at = "undo"
    /\ freeUsed' = freeUsed - 1
    /\ Answer(r)
    /\ UNCHANGED <<billingVars, checks, ran, faults>>

\* A connection that is unknown or incomplete is refused: 4xx.  What was
\* debited stays debited.
RefuseConnection(r) ==
    /\ request[r].at = "run"
    /\ Answer(r)
    /\ UNCHANGED <<billingVars, quotaVars, faults>>

\* A row without a saved connection belongs to nobody and is not counted.
InsertHealthCheck(r) ==
    /\ request[r].at = "run"
    /\ checks' \in {checks, checks + 1}
    /\ Answer(r)
    /\ UNCHANGED <<billingVars, freeUsed, ran, faults>>

\* The scheduler, the first run of a connection and the checks of an instance
\* write rows that are counted, and ask for neither cap nor quota.
RunScheduledHealthCheck ==
    /\ ran.uncapped < MaxUncapped
    /\ checks' = checks + 1
    /\ ran' = [ran EXCEPT !.uncapped = @ + 1]
    /\ UNCHANGED <<billingVars, request, freeUsed, faults>>

\* A calendar month begins: the rows are counted anew.  The counter of the free
\* quota has no month, and nothing ever resets it.
MonthBegins ==
    /\ checks > 0
    /\ checks' = 0
    /\ ran' = [ran EXCEPT !.uncapped = 0]
    /\ UNCHANGED <<billingVars, request, freeUsed, faults>>
-----------------------------------------------------------------------------
(* Failures *)

\* Mutant: a failure is answered and not logged.
RequestFailsSilently(r) ==
    /\ request[r].at \notin {"idle"} \cup Logging /\ faults < MaxFaults
    /\ Answer(r)
    /\ faults' = faults + 1
    /\ UNCHANGED <<billingVars, quotaVars>>

\* A query fails.  What could not be activated, and whatever fails in the
\* webhook, is to be logged; everything else has been answered.
RequestFails(r) ==
    /\ request[r].at \notin {"idle"} \cup Logging /\ faults < MaxFaults
    /\ IF request[r].at \in {"activate"} \cup Hooked
       THEN GoTo(r, IF request[r].at = "activate" THEN "log" ELSE "hookLog",
                 "free", request[r].ref)
       ELSE Answer(r)
    /\ faults' = faults + 1
    /\ UNCHANGED <<billingVars, quotaVars>>

\* The row of verify-payment and verify-subscription names the payment, that of
\* the webhook only the kind of event.  An INSERT that fails, in the same outage
\* or not, goes to the console.
LogReconciliation(r) ==
    /\ request[r].at \in Logging
    /\ \/ /\ logged' = logged \cup {[ref |-> request[r].ref,
                                     named |-> request[r].at = "log"]}
          /\ UNCHANGED lost
       \/ lost' = lost \cup {request[r].ref} /\ UNCHANGED logged
    /\ Answer(r)
    /\ UNCHANGED <<credits, orders, paid, unlocked, quotaVars, faults>>

CloudRestart ==
    /\ faults < MaxFaults
    /\ \E r \in Requests : request[r].at # "idle"
    /\ lost' = lost \cup {request[r].ref : r \in {q \in Requests :
                    request[q].at \in {"activate", "hookActivate"} \cup Logging}}
    /\ request' = [r \in Requests |-> Idle]
    /\ faults' = faults + 1
    /\ UNCHANGED <<credits, orders, paid, unlocked, logged, quotaVars>>
-----------------------------------------------------------------------------
\* What a request in progress does next.
Continue(r) ==
    \/ \E o \in Orders : CreatePaymentRecord(r, o)
    \/ OrderRejected(r)
    \/ WebhookMarks(r) \/ ActivatePlan(r)
    \/ Upgrade(r) \/ ClearScheduledChange(r)
    \/ Downgrade(r) \/ ScheduleDowngrade(r)
    \/ EnforceHealthCheckCap(r) \/ CapCheckFails(r)
    \/ CheckUserHCLimit(r) \/ DecrementUserCredit(r)
    \/ IncrementFreeUsage(r) \/ UndoFreeUsage(r)
    \/ RefuseConnection(r) \/ InsertHealthCheck(r)
    \/ LogReconciliation(r)

Arrive(r) ==
    \/ \E t \in PaidTiers : CreateOrder(r, t)
    \/ \E o \in Orders : VerifyPayment(r, o) \/ WebhookPaymentCaptured(r, o)
    \/ \E at \in {"activate", "hookActivate"} : SubscriptionReported(r, at)
    \/ \E at \in {"upgrade", "schedule"}, t \in Tiers : ChangePlan(r, at, t)
    \/ ResolveUserTier(r)

Next ==
    \/ \E ref \in Orders \cup {Sub} : GatewayCaptures(ref)
    \/ \E r \in Requests : Arrive(r) \/ Continue(r) \/ RequestFails(r)
    \/ DateComes \/ ShowPlan \/ RunScheduledHealthCheck \/ MonthBegins
    \/ CloudRestart

Spec == Init /\ [][Next]_vars
-----------------------------------------------------------------------------
(* Properties *)

\* Nobody has a plan, or a plan to come, before money has arrived, whatever is
\* asked for, repeated and scheduled.  Which plan is another matter: what is
\* scheduled as a downgrade is not compared with the plan there is.
NoPlanWithoutPayment ==
    credits.tier # "free" \/ credits.change # "none" => paid # {}

\* Checks are paid out of the credits one by one: concurrent requests never
\* share one, and none is lost, until the quota starts anew.
CreditsAddUp ==
    credits.total < Unlimited => ran.credit + credits.remaining = credits.total

\* The free quota is exact although it is counted first and looked at later:
\* never more checks, and nobody is turned away while one is left.  It is a quota
\* for life: checkUserHCLimit calls it monthly, and MonthBegins does not renew it.
FreeQuotaIsExact ==
    /\ ran.free <= FreeLimit
    /\ \A r \in Requests : request[r].at = "undo" => ran.free = FreeLimit

\* The monthly cap is looked at long before the row is written, so requests
\* exceed it together, but by less than there are of them.  Checks that never
\* come to the cap, or pass it because the count failed, use it up like others
\* and come on top.
CapOvershootIsBounded ==
    \A t \in Tiers : (\A u \in Tiers : Cap[u] <= Cap[t]) =>
        checks - ran.uncapped < Cap[t] + Cardinality(Requests)

\* A row of payment_reconciliation was written for it, though the one of the
\* webhook does not say so.
OnRecord(o) == \E row \in logged : row.ref = o

\* A captured payment has been credited, is being credited or logged, or is on
\* record.  Only a restart before the last of these steps, or a log that fails as
\* well, loses one.
CapturedIsNotForgotten ==
    \A o \in Orders : orders[o].status = "captured" =>
        \/ o \in unlocked \/ OnRecord(o) \/ o \in lost
        \/ \E r \in Requests :
              /\ request[r].at \in {"activate", "hookActivate"} \cup Logging
              /\ request[r].ref = o
=============================================================================
