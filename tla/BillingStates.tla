----------------------------- MODULE BillingStates -----------------------------
(***************************************************************************)
(* The state machines of the billing records (src/billing/state.go) and    *)
(* the questions the rest of the package asks of a state                   *)
(* (src/billing/models.go).                                                *)
(***************************************************************************)
EXTENDS Integers

SubscriptionStates ==
  {"pending_activation", "trialing", "active", "past_due", "paused", "cancelled", "expired"}

\* The events that some state accepts.
SubscriptionEvents ==
  {"trial_started", "trial_converted", "trial_expired", "payment_method_added",
   "payment_failed", "payment_recovered", "renewed", "user_paused", "resumed",
   "cancelled", "grace_expired", "auto_expired", "period_ended",
   "subscription_modified"}

\* The edge set of NextSubscriptionState: <<from, event, to>>.
SubscriptionEdges ==
  { <<"pending_activation", "payment_method_added", "active">>,
    <<"pending_activation", "trial_started", "trialing">>,
    <<"pending_activation", "cancelled", "cancelled">>,
    <<"trialing", "trial_converted", "active">>,
    <<"trialing", "trial_expired", "expired">>,
    <<"trialing", "cancelled", "cancelled">>,
    <<"active", "payment_failed", "past_due">>,
    <<"active", "user_paused", "paused">>,
    <<"active", "cancelled", "cancelled">>,
    <<"active", "renewed", "active">>,
    <<"active", "subscription_modified", "active">>,
    <<"past_due", "payment_recovered", "active">>,
    <<"past_due", "grace_expired", "expired">>,
    <<"past_due", "cancelled", "cancelled">>,
    <<"paused", "resumed", "active">>,
    <<"paused", "cancelled", "cancelled">>,
    <<"paused", "auto_expired", "expired">>,
    <<"cancelled", "period_ended", "expired">> }

\* The event is not refused in this state.
LegalEvent(from, event) ==
  \E to \in SubscriptionStates : <<from, event, to>> \in SubscriptionEdges

NextSubscriptionState(from, event) ==
  CHOOSE to \in SubscriptionStates : <<from, event, to>> \in SubscriptionEdges

\* Subscription.Active: the subscription entitles the tenant to its plan.
Active(state, ended) ==
  \/ state \in {"trialing", "active", "past_due"}
  \/ state = "cancelled" /\ ~ended

-----------------------------------------------------------------------------
InvoiceStates ==
  {"draft", "issued", "due", "overdue", "processing", "partial", "paid",
   "disputed", "cancelled", "refunded"}

\* CanTransitionInvoice, as the set of states that may follow.
InvoiceSuccessors(from) ==
  CASE from = "draft"      -> {"issued", "cancelled"}
    [] from = "issued"     -> {"due", "processing", "disputed", "cancelled"}
    [] from = "due"        -> {"overdue", "processing", "partial", "disputed", "cancelled"}
    [] from = "overdue"    -> {"processing", "partial", "disputed", "cancelled"}
    [] from = "processing" -> {"paid", "partial", "due", "disputed"}
    [] from = "partial"    -> {"processing", "paid", "overdue", "disputed", "cancelled"}
    [] from = "paid"       -> {"refunded", "disputed"}
    [] from = "disputed"   -> {"paid", "refunded", "cancelled", "due"}
    [] OTHER               -> {}

CanTransitionInvoice(from, to) == to \in InvoiceSuccessors(from)

\* Invoice.BalanceDueMinor.
BalanceDue(total, paid, credited) ==
  IF total > paid + credited THEN total - paid - credited ELSE 0
===============================================================================
