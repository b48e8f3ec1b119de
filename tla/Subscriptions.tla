----------------------------- MODULE Subscriptions -----------------------------
(***************************************************************************)
(* One subscription and its invoices (src/billing/subscriptions.go and     *)
(* dunning.go): what the tenant does to it, the renewal task, the dunning  *)
(* task and the payments that arrive meanwhile, over a clock of days.      *)
(*                                                                         *)
(* Every write of the subscription row names the version it was read at    *)
(* (database.UpdateVersioned).  A handler that reads and writes once is    *)
(* one step, a conflict being no step at all.  The tasks keep a row in     *)
(* hand over several writes: job[j].snap, with fresh telling whether its   *)
(* version is still the stored one.                                        *)
(*                                                                         *)
(* Of an invoice the model keeps whether it still has a balance; how it is *)
(* charged is the module Charges.  There are two plans, "free" and "pro".  *)
(***************************************************************************)
EXTENDS BillingStates, Sequences, FiniteSets

CONSTANTS
  Renewers,       \* nodes that may run the renewal task
  Dunning,        \* the node that runs the dunning task
  Plans,          \* plans on offer, of "free" and "pro"
  Period,         \* days of a billing cycle
  TrialDays,
  DueDays,
  GraceDays,
  RetrySchedule,  \* day offsets of the retries, a sequence
  Providers,      \* enabled payment providers: attempts one charge may make
  MaxDay,         \* bound on the clock
  MaxInvoices     \* bound on the invoices raised

Jobs == Renewers \cup {Dunning}

ASSUME SubscriptionsAssumption ==
  /\ Dunning \notin Renewers
  /\ Plans \subseteq {"free", "pro"}
  /\ {Period, MaxInvoices, MaxDay} \subseteq Nat \ {0}
  /\ {TrialDays, DueDays, GraceDays, Providers} \subseteq Nat
  /\ RetrySchedule \in Seq(Nat)

VARIABLES
  now,        \* day
  sub,        \* row of billing_subscriptions
  invoices,   \* rows of billing_invoices of this subscription
  job,        \* what each task run has in hand
  raising,    \* ChangePlan still has its proration invoice to raise
  recovering, \* a webhook still has its payment_recovered to apply
  pastDueAt   \* when the subscription last became past due (history)

vars == <<now, sub, invoices, job, raising, recovering, pastDueAt>>

\* A run that has nothing in hand.
NoRow == [state |-> "expired", plan |-> "free", end |-> 0, grace |-> 0,
          ended |-> TRUE, atEnd |-> FALSE, pending |-> "none"]
Idle == [pc |-> "idle", at |-> 0, snap |-> NoRow, fresh |-> FALSE, inv |-> 0]

\* Subscribe: a trial, a free plan, or a plan that waits for a payment method.
Init ==
  /\ now = 1
  /\ \E start \in {<<"trialing", "pro">>, <<"active", "free">>, <<"pending_activation", "pro">>} :
       /\ start[2] \in Plans
       /\ sub = [state |-> start[1], plan |-> start[2], end |-> now + Period,
                 grace |-> 0, ended |-> FALSE, atEnd |-> FALSE, pending |-> "none"]
  /\ invoices = <<>>
  /\ job = [j \in Jobs |-> Idle]
  /\ raising = FALSE /\ recovering = FALSE
  /\ pastDueAt = 0

\* The row is written and its version counted up: every other row in hand is
\* out of date from now on.
Write(row) ==
  /\ sub' = row
  /\ pastDueAt' = IF row.state = "past_due" /\ sub.state # "past_due" THEN now ELSE pastDueAt

Outdate(js) == [j \in Jobs |-> IF j \in js THEN [job[j] EXCEPT !.fresh = FALSE] ELSE job[j]]

\* The run moves on; Advance(j, pc) after a write of its own.
Step(j, pc) == job' = [job EXCEPT ![j].pc = pc]
Advance(j, pc) == job' = [Outdate(Jobs) EXCEPT ![j].pc = pc]
Done(j) == job' = [job EXCEPT ![j] = Idle]
WriteAndDone(j, row) == Write(row) /\ job' = [Outdate(Jobs) EXCEPT ![j] = Idle]

\* Transition: the row it stores when it was handed row and the event is legal.
Transition(row, event) ==
  LET next == NextSubscriptionState(row.state, event)
  IN  [sub EXCEPT !.state = next, !.ended = row.ended \/ next = "expired"]

-----------------------------------------------------------------------------
(* The tenant.                                                              *)

\* ChangePlan to a dearer plan: at once, and only while active.
Upgrade ==
  /\ Active(sub.state, sub.ended)
  /\ sub.plan = "free" /\ "pro" \in Plans
  /\ LegalEvent(sub.state, "subscription_modified")
  /\ ~raising
  /\ Write([sub EXCEPT !.plan = "pro", !.pending = "none"])
  /\ job' = Outdate(Jobs)
  /\ raising' = TRUE
  /\ UNCHANGED <<now, invoices, recovering>>

\* ChangePlan to a cheaper plan: noted for the end of the period.
Downgrade ==
  /\ Active(sub.state, sub.ended)
  /\ sub.plan = "pro" /\ "free" \in Plans
  /\ Write([sub EXCEPT !.pending = "free"])
  /\ job' = Outdate(Jobs)
  /\ UNCHANGED <<now, invoices, raising, recovering>>

Cancel(immediate) ==
  /\ LegalEvent(sub.state, "cancelled")
  /\ Write([sub EXCEPT !.state = "cancelled", !.ended = immediate,
                       !.atEnd = ~immediate, !.pending = "none"])
  /\ job' = Outdate(Jobs)
  /\ UNCHANGED <<now, invoices, raising, recovering>>

\* Resume of a cancellation that has not taken effect.  (No caller pauses a
\* subscription, so its other case does not arise.)
Resume ==
  /\ sub.state = "cancelled" /\ ~sub.ended
  /\ Write([sub EXCEPT !.state = "active", !.atEnd = FALSE])
  /\ job' = Outdate(Jobs)
  /\ UNCHANGED <<now, invoices, raising, recovering>>

-----------------------------------------------------------------------------
(* Invoices and payments.                                                   *)

\* An issued invoice: the period it bills, when it is due, whether it has a
\* balance, the attempts in its ledger, and whether its charge by the renewal
\* task left an attempt under the key of the period.
NewInvoice(start, open) ==
  [start |-> start, due |-> now + DueDays, open |-> open, tries |-> 0, keyed |-> FALSE]

\* RaiseProrationInvoice, the second half of an upgrade; it may fail.
RaiseProration ==
  /\ raising
  /\ raising' = FALSE
  /\ Len(invoices) < MaxInvoices
  /\ invoices' = Append(invoices, NewInvoice(0, TRUE))
  /\ UNCHANGED <<now, sub, job, recovering, pastDueAt>>

ChangePlanFail ==
  /\ raising
  /\ raising' = FALSE
  /\ UNCHANGED <<now, sub, invoices, job, recovering, pastDueAt>>

\* Attempts beyond the schedule make no difference.
Tried(n, k) == IF n + k > Len(RetrySchedule) THEN Len(RetrySchedule) ELSE n + k

\* The outcomes of ChargeInvoice on an open invoice: one attempt for each
\* provider tried, and perhaps the money; or neither.
Charged(inv, k, open) == [inv EXCEPT !.tries = Tried(inv.tries, k), !.open = open]

ChargeOutcomes(inv) ==
  {inv} \cup {Charged(inv, k, open) : k \in 1..Providers, open \in BOOLEAN}

\* The tenant pays, or an administrator records a payment.
Pay(i) ==
  /\ invoices[i].open
  /\ invoices' = [invoices EXCEPT ![i].open = FALSE]
  /\ UNCHANGED <<now, sub, job, raising, recovering, pastDueAt>>

\* applyPaymentEvent for an attempt of the invoice: the payment, then the
\* subscription.
WebhookPay(i) ==
  /\ ~recovering
  /\ invoices[i].open /\ invoices[i].tries > 0
  /\ invoices' = [invoices EXCEPT ![i].open = FALSE]
  /\ recovering' = TRUE
  /\ UNCHANGED <<now, sub, job, raising, pastDueAt>>

\* Mutant: the payment revives a subscription that expired meanwhile.
WebhookRecoverExpired ==
  /\ recovering
  /\ recovering' = FALSE
  /\ IF sub.state \in {"past_due", "expired"}
       THEN /\ Write([sub EXCEPT !.state = "active", !.ended = FALSE, !.atEnd = FALSE])
            /\ job' = Outdate(Jobs)
       ELSE UNCHANGED <<sub, pastDueAt, job>>
  /\ UNCHANGED <<now, invoices, raising>>

WebhookRecover ==
  /\ recovering
  /\ recovering' = FALSE
  /\ IF sub.state = "past_due"
       THEN Write(Transition(sub, "payment_recovered")) /\ job' = Outdate(Jobs)
       ELSE UNCHANGED <<sub, pastDueAt, job>>
  /\ UNCHANGED <<now, invoices, raising>>

\* The write conflicts or the process ends.
WebhookFail ==
  /\ recovering
  /\ recovering' = FALSE
  /\ UNCHANGED <<now, sub, invoices, job, raising, pastDueAt>>

-----------------------------------------------------------------------------
(* RunRenewals and renewOne.                                                *)

\* Mutant: only subscriptions that renew are listed.
DueForRenewalRenewing ==
  /\ sub.end <= now
  /\ sub.state \in {"active", "trialing"}

\* DueSubscriptions.
DueForRenewal ==
  /\ sub.end <= now
  /\ sub.state \in {"active", "trialing", "cancelled"}

RenewalBegin(j) ==
  /\ job[j].pc = "idle"
  /\ DueForRenewal
  /\ job' = [job EXCEPT ![j] = [pc |-> "convert", at |-> now, snap |-> sub,
                                fresh |-> TRUE, inv |-> 0]]
  /\ UNCHANGED <<now, sub, invoices, raising, recovering, pastDueAt>>

\* A trial that is over becomes active first.  The row is read again after it.
RenewalConvert(j) ==
  LET row == job[j].snap IN
  /\ job[j].pc = "convert"
  /\ IF row.state = "trialing" /\ job[j].at >= 1 + TrialDays
       THEN /\ job[j].fresh
            /\ Write(Transition(row, "trial_converted"))
            /\ Advance(j, "reread")
       ELSE Step(j, "decide") /\ UNCHANGED <<sub, pastDueAt>>
  /\ UNCHANGED <<now, invoices, raising, recovering>>

Reread(j) ==
  /\ job[j].pc \in {"reread", "rereadPlan"}
  /\ job' = [job EXCEPT ![j] = [@ EXCEPT !.snap = sub, !.fresh = TRUE,
                                         !.pc = IF job[j].pc = "reread" THEN "decide"
                                                                        ELSE "invoice"]]
  /\ UNCHANGED <<now, sub, invoices, raising, recovering, pastDueAt>>

\* Not past the boundary, or nothing to do before the invoice.
RenewalDecide(j) ==
  LET row == job[j].snap IN
  /\ job[j].pc = "decide"
  /\ \/ row.end > job[j].at /\ Done(j)
     \/ row.end <= job[j].at /\ ~row.atEnd /\ row.pending = "none" /\ Step(j, "invoice")
  /\ UNCHANGED <<now, sub, invoices, raising, recovering, pastDueAt>>

\* Mutant: the end is written without the version the row was read at.
RenewalEndUnversioned(j) ==
  LET row == job[j].snap IN
  /\ job[j].pc = "decide"
  /\ row.end <= job[j].at /\ row.atEnd
  /\ LegalEvent(row.state, "period_ended")
  /\ WriteAndDone(j, Transition(row, "period_ended"))
  /\ UNCHANGED <<now, invoices, raising, recovering>>

\* A cancellation takes effect.
RenewalEnd(j) ==
  LET row == job[j].snap IN
  /\ job[j].pc = "decide"
  /\ row.end <= job[j].at /\ row.atEnd
  /\ LegalEvent(row.state, "period_ended")
  /\ job[j].fresh
  /\ WriteAndDone(j, Transition(row, "period_ended"))
  /\ UNCHANGED <<now, invoices, raising, recovering>>

\* Mutant: the plan is written without the version the row was read at.
RenewalPlanUnversioned(j) ==
  LET row == job[j].snap IN
  /\ job[j].pc = "decide"
  /\ row.end <= job[j].at /\ ~row.atEnd
  /\ row.pending # "none"
  /\ Write([sub EXCEPT !.plan = row.pending, !.pending = "none"])
  /\ Advance(j, "rereadPlan")
  /\ UNCHANGED <<now, invoices, raising, recovering>>

\* ApplyPendingPlan, after which the row is read again.
RenewalPlan(j) ==
  LET row == job[j].snap IN
  /\ job[j].pc = "decide"
  /\ row.end <= job[j].at /\ ~row.atEnd
  /\ row.pending # "none"
  /\ job[j].fresh
  /\ Write([sub EXCEPT !.plan = row.pending, !.pending = "none"])
  /\ Advance(j, "rereadPlan")
  /\ UNCHANGED <<now, invoices, raising, recovering>>

\* Mutant: an invoice that cannot be raised does not stop the renewal.
RenewalInvoiceOptional(j) ==
  LET row == job[j].snap IN
  /\ job[j].pc = "invoice"
  /\ \/ /\ Len(invoices) < MaxInvoices
        /\ invoices' = Append(invoices, NewInvoice(row.end - Period, row.plan = "pro"))
        /\ job' = [job EXCEPT ![j] = [@ EXCEPT !.pc = "advance", !.inv = Len(invoices) + 1]]
     \/ /\ UNCHANGED invoices
        /\ job' = [job EXCEPT ![j] = [@ EXCEPT !.pc = "advance", !.inv = 1]]
  /\ UNCHANGED <<now, sub, raising, recovering, pastDueAt>>

\* GenerateSubscriptionInvoice: an invoice of a free plan has no balance.
RenewalInvoice(j) ==
  LET row == job[j].snap IN
  /\ job[j].pc = "invoice"
  /\ Len(invoices) < MaxInvoices
  /\ invoices' = Append(invoices, NewInvoice(row.end - Period, row.plan = "pro"))
  /\ job' = [job EXCEPT ![j] = [@ EXCEPT !.pc = "advance", !.inv = Len(invoices) + 1]]
  /\ UNCHANGED <<now, sub, raising, recovering, pastDueAt>>

\* AdvanceRenewal.
RenewalAdvance(j) ==
  LET row == job[j].snap IN
  /\ job[j].pc = "advance"
  /\ job[j].fresh
  /\ Write([sub EXCEPT !.end = row.end + Period, !.grace = 0])
  /\ job' = [Outdate(Jobs) EXCEPT ![j] = [Idle EXCEPT !.pc = "charge", !.inv = job[j].inv]]
  /\ UNCHANGED <<now, invoices, raising, recovering>>

\* ChargeInvoice under the key of the subscription and the period: a second
\* invoice for the same period finds the attempt of the first.
RenewalCharge(j) ==
  LET i == job[j].inv
      used == \E k \in DOMAIN invoices :
                invoices[k].start = invoices[i].start /\ invoices[k].keyed
  IN
  /\ job[j].pc = "charge"
  /\ IF invoices[i].open /\ ~used
       THEN \E inv \in ChargeOutcomes(invoices[i]) :
              invoices' = [invoices EXCEPT ![i] = [inv EXCEPT !.keyed = inv # invoices[i]]]
       ELSE UNCHANGED invoices
  /\ Done(j)
  /\ UNCHANGED <<now, sub, raising, recovering, pastDueAt>>

\* A write conflicts, another step fails, or the process ends.
JobFail(j) ==
  /\ job[j].pc # "idle"
  /\ Done(j)
  /\ UNCHANGED <<now, sub, invoices, raising, recovering, pastDueAt>>

-----------------------------------------------------------------------------
(* RunDunning and escalate.                                                 *)

\* OpenInvoices.  The model works one invoice per pass.
DunningBegin(i) ==
  /\ job[Dunning].pc = "idle"
  /\ invoices[i].open
  /\ invoices[i].due <= now
  /\ job' = [job EXCEPT ![Dunning] = [pc |-> "retry", at |-> now, snap |-> NoRow,
                                      fresh |-> FALSE, inv |-> i]]
  /\ UNCHANGED <<now, sub, invoices, raising, recovering, pastDueAt>>

\* dueRetryOffset, with the whole ledger of the invoice as attempts made.
RetryDue(inv) ==
  /\ inv.tries < Len(RetrySchedule)
  /\ job[Dunning].at - inv.due >= RetrySchedule[inv.tries + 1]

\* A retry when one is owed, after which the invoice is read again.
DunningRetry ==
  LET i == job[Dunning].inv IN
  /\ job[Dunning].pc = "retry"
  /\ IF RetryDue(invoices[i]) /\ invoices[i].open
       THEN \E inv \in ChargeOutcomes(invoices[i]) :
              /\ invoices' = [invoices EXCEPT ![i] = inv]
              /\ IF inv.open THEN Step(Dunning, "escalate") ELSE Done(Dunning)
       ELSE /\ UNCHANGED invoices
            /\ IF RetryDue(invoices[i]) THEN Done(Dunning) ELSE Step(Dunning, "escalate")
  /\ UNCHANGED <<now, sub, raising, recovering, pastDueAt>>

GraceEnd(inv) == IF sub.grace > 0 THEN sub.grace ELSE inv.due + GraceDays

\* escalate reads the row and writes it once: past due first, expired after
\* the grace period.  It does not look at the invoice again.
DunningEscalate ==
  LET inv == invoices[job[Dunning].inv] IN
  /\ job[Dunning].pc = "escalate"
  /\ \/ /\ sub.state = "active"
        /\ Write(Transition(sub, "payment_failed"))
        /\ Advance(Dunning, "rereadGrace")
     \/ /\ sub.state = "past_due"
        /\ job[Dunning].at >= GraceEnd(inv)
        /\ WriteAndDone(Dunning, Transition(sub, "grace_expired"))
     \/ /\ \/ sub.state \notin {"active", "past_due"}
           \/ sub.state = "past_due" /\ job[Dunning].at < GraceEnd(inv)
        /\ Done(Dunning)
        /\ UNCHANGED <<sub, pastDueAt>>
  /\ UNCHANGED <<now, invoices, raising, recovering>>

DunningReread ==
  /\ job[Dunning].pc = "rereadGrace"
  /\ job' = [job EXCEPT ![Dunning] = [@ EXCEPT !.snap = sub, !.fresh = TRUE, !.pc = "grace"]]
  /\ UNCHANGED <<now, sub, invoices, raising, recovering, pastDueAt>>

\* Mutant: the row read after the first write is not checked again.
DunningGraceUnversioned ==
  /\ job[Dunning].pc = "grace"
  /\ Write(Transition([job[Dunning].snap EXCEPT !.state = "active"], "payment_failed"))
  /\ Advance(Dunning, "graceEnd")
  /\ UNCHANGED <<now, invoices, raising, recovering>>

\* StartGrace applies payment_failed itself, and so a second time.
DunningGrace ==
  LET row == job[Dunning].snap IN
  /\ job[Dunning].pc = "grace"
  /\ IF LegalEvent(row.state, "payment_failed") /\ job[Dunning].fresh
       THEN /\ Write(Transition(row, "payment_failed"))
            /\ Advance(Dunning, "graceEnd")
       ELSE Done(Dunning) /\ UNCHANGED <<sub, pastDueAt>>
  /\ UNCHANGED <<now, invoices, raising, recovering>>

\* The one write that names no version, and counts none.
DunningGraceEnd ==
  /\ job[Dunning].pc = "graceEnd"
  /\ sub' = [sub EXCEPT !.grace = now + GraceDays]
  /\ Done(Dunning)
  /\ UNCHANGED <<now, invoices, raising, recovering, pastDueAt>>

-----------------------------------------------------------------------------
Tick ==
  /\ now < MaxDay
  /\ now' = now + 1
  /\ UNCHANGED <<sub, invoices, job, raising, recovering, pastDueAt>>

TenantStep ==
  \/ Upgrade \/ Downgrade \/ Resume
  \/ \E immediate \in BOOLEAN : Cancel(immediate)
  \/ RaiseProration \/ ChangePlanFail
  \/ \E i \in DOMAIN invoices : Pay(i)

WebhookStep ==
  \/ \E i \in DOMAIN invoices : WebhookPay(i)
  \/ WebhookRecover \/ WebhookFail

RenewalStep(j) ==
  \/ RenewalBegin(j) \/ RenewalConvert(j) \/ Reread(j)
  \/ RenewalDecide(j) \/ RenewalEnd(j) \/ RenewalPlan(j)
  \/ RenewalInvoice(j) \/ RenewalAdvance(j) \/ RenewalCharge(j)

DunningStep ==
  \/ \E i \in DOMAIN invoices : DunningBegin(i)
  \/ DunningRetry \/ DunningEscalate \/ DunningReread \/ DunningGrace \/ DunningGraceEnd

Next ==
  \/ TenantStep
  \/ WebhookStep
  \/ \E j \in Renewers : RenewalStep(j)
  \/ DunningStep
  \/ \E j \in Jobs : JobFail(j)
  \/ Tick

Spec == Init /\ [][Next]_vars

\* The renewal task is scheduled for ever, every run of it comes to an end, and
\* it does not fail for ever.
RenewalFairness ==
  /\ WF_vars(Tick)
  /\ \A j \in Renewers :
       /\ WF_vars(JobFail(j))
       /\ SF_vars(RenewalBegin(j)) /\ SF_vars(RenewalConvert(j)) /\ SF_vars(RenewalEnd(j))

RenewalLiveSpec == Spec /\ RenewalFairness

\* So is the dunning task, and a webhook that began is handled in the end; of
\* the tenant and the providers nothing is assumed.
TaskFairness ==
  /\ RenewalFairness
  /\ WF_vars(JobFail(Dunning))
  /\ SF_vars(\E i \in DOMAIN invoices : DunningBegin(i))
  /\ SF_vars(DunningRetry) /\ SF_vars(DunningEscalate)
  /\ SF_vars(WebhookRecover)

LiveSpec == Spec /\ TaskFairness

-----------------------------------------------------------------------------
(* Properties.                                                              *)

Rows == [state : SubscriptionStates, plan : {"free", "pro"}, end : Nat, grace : Nat,
         ended : BOOLEAN, atEnd : BOOLEAN, pending : {"none", "free"}]

Labels == {"idle", "convert", "reread", "decide", "rereadPlan", "invoice", "advance",
           "charge", "retry", "escalate", "rereadGrace", "grace", "graceEnd"}

\* Type correctness; only a cancelled subscription waits for the end of its
\* period, and only one that is over carries an end date.
TypeOK ==
  /\ now \in 1..MaxDay
  /\ sub \in Rows
  /\ sub.atEnd => sub.state \in {"cancelled", "expired"}
  /\ sub.ended => sub.state \in {"cancelled", "expired"}
  /\ \A i \in DOMAIN invoices : invoices[i].tries \in 0..Len(RetrySchedule)
  /\ \A j \in Jobs : job[j].pc \in Labels /\ job[j].snap \in Rows
  /\ raising \in BOOLEAN /\ recovering \in BOOLEAN /\ pastDueAt \in 0..MaxDay

\* A subscription that expired stays expired, however old the row a renewal,
\* the dunning pass or a webhook still has in hand (the version of Transition).
ExpiredIsFinal == [][sub.state = "expired" => sub'.state = "expired"]_vars

\* No period is given away: before a subscription moves on to its next period,
\* the one that ended has an invoice, whatever fails or runs twice in between
\* (renewOne raises the invoice before AdvanceRenewal).
EveryPeriodInvoiced ==
  \A t \in 1..MaxDay :
    t % Period = 1 % Period /\ t + Period < sub.end
      => \E i \in DOMAIN invoices : invoices[i].start = t

\* A downgrade "lands at the period boundary", also when two nodes renew at
\* once: the tenant keeps a plan until the period they have it for is over.
PaidPlanKept ==
  [][sub.plan = "pro" /\ sub'.plan = "free" => sub.end <= now]_vars

\* "the tenant keeps full access until the period actually ends": a
\* cancellation at the end of the period never takes effect before it.
AccessUntilPeriodEnd ==
  [][sub.state = "cancelled" /\ sub.atEnd /\ sub'.state = "expired" => sub.end <= now]_vars

\* A cancellation takes effect: once its period is over the subscription
\* expires, unless the tenant resumes it first (DueSubscriptions, renewOne).
CancellationTakesEffect ==
  sub.state = "cancelled" /\ sub.atEnd /\ sub.end <= MaxDay ~> sub.state # "cancelled"

\* "DueSubscriptions returns subscriptions ... which are still entitled": no
\* period is billed of a subscription that was over when the renewal began.
OnlyEntitledRenewed ==
  [][\A j \in Renewers : RenewalBegin(j) => Active(sub.state, sub.ended)]_vars

\* "no code path can invent a state change".
EdgesOnly ==
  [][\/ sub'.state = sub.state
     \/ \E event \in SubscriptionEvents :
          <<sub.state, event, sub'.state>> \in SubscriptionEdges]_vars

\* The dunning pass "only suspends once that grace has fully run out", and
\* "GraceDays is how long a tenant keeps service after a charge fails".
GraceRunsOut ==
  [][sub.state = "past_due" /\ sub'.state = "expired" => now >= pastDueAt + GraceDays]_vars

\* A payment made out of band "is applied exactly as an inline one would be":
\* either way, a past-due subscription without an open invoice recovers.
PaidRecovers ==
  sub.state = "past_due" /\ (\A i \in DOMAIN invoices : ~invoices[i].open)
    ~> sub.state # "past_due"

\* Each period is invoiced once: RunRenewals "raises the next invoice for every
\* subscription whose period has ended".
PeriodInvoicedOnce ==
  \A i, k \in DOMAIN invoices :
    invoices[i].start = invoices[k].start /\ invoices[i].start > 0 => i = k
===============================================================================
