-------------------------------- MODULE Charges --------------------------------
(***************************************************************************)
(* The payment of one issued invoice: ChargeInvoice (payments.go) called   *)
(* by several handlers and tasks at once, the events the payment providers *)
(* deliver about the same charges (webhook.go), and the invoice row both   *)
(* write (invoices.go).                                                    *)
(*                                                                         *)
(* Every statement of the database is a step.  The invoice row is written  *)
(* by database.UpdateVersioned: a process that has read the row writes it  *)
(* only while it is in fresh, which every write empties.  The invoice is   *)
(* for one unit, which is what every charge asks for.  A charge is         *)
(* identified by its idempotency key: the caller's key with the first      *)
(* provider, the key and the provider's name with any other.               *)
(***************************************************************************)
EXTENDS BillingStates, FiniteSets

CONSTANTS
  Callers,          \* requests and tasks that call ChargeInvoice
  Deliveries,       \* requests and tasks that apply provider events
  Keys,             \* idempotency keys of the callers
  Providers,        \* enabled payment providers
  EventNumbers,     \* the events a provider sends about one charge
  MaxEvents         \* bound on the events in the ledger

ASSUME ChargesAssumption ==
  /\ Callers \cap Deliveries = {}
  /\ IsFiniteSet(Providers) /\ "first" \notin Providers
  /\ EventNumbers \subseteq Nat /\ MaxEvents \in Nat

VARIABLES
  invoice,   \* the row of billing_invoices: its state and what was paid
  fresh,     \* processes whose copy of that row has its current version
  attempts,  \* billing_payment_attempts, by idempotency key
  money,     \* what became of each charge at its provider
  ledger,    \* billing_webhook_events
  pc,        \* where each process is
  charge,    \* what each caller has in hand
  delivery,  \* what each delivery has in hand
  methods,   \* the providers the tenant has an active instrument with
  failover   \* SettingFailoverMode is not manual

vars == <<invoice, fresh, attempts, money, ledger, pc, charge, delivery, methods, failover>>

Procs == Callers \cup Deliveries

Attempts == Keys \X (Providers \cup {"first"})
Payments == {pay \in Attempts \X Providers : pay[1][2] \in {"first", pay[2]}}

\* An event is about a charge: its outcome, or (number Dispute) its dispute.
Dispute == 0
Events == Payments \X EventNumbers

\* The orders EnabledProviders may return: the health of a provider, which
\* comes first in the order, changes with every charge and health check.
Orders == {o \in [1..Cardinality(Providers) -> Providers] :
             \A i, j \in DOMAIN o : o[i] = o[j] => i = j}

NoAttempt == [provider |-> "none", state |-> "none", ref |-> FALSE]
NoDelivery == [event |-> "none", pay |-> "none", state |-> "none", retry |-> FALSE, result |-> "none"]
NoCharge == [key |-> "none", order |-> <<>>, i |-> 0, result |-> "none"]

Init ==
  /\ invoice = [state |-> "issued", paid |-> 0]
  /\ fresh = {}
  /\ attempts = [a \in Attempts |-> NoAttempt]
  /\ money = [pay \in Payments |-> "none"]
  /\ ledger = [e \in Events |-> "none"]
  /\ pc = [p \in Procs |-> "idle"]
  /\ charge = [c \in Callers |-> NoCharge]
  /\ delivery = [d \in Deliveries |-> NoDelivery]
  /\ methods \in (SUBSET Providers) \ {{}}
  /\ failover \in BOOLEAN

settings == <<methods, failover>>

Goto(p, at) == pc' = [pc EXCEPT ![p] = at]

\* p returns, with nothing in hand.
Return(p) ==
  /\ Goto(p, "idle")
  /\ charge' = [c \in Callers |-> IF c = p THEN NoCharge ELSE charge[c]]
  /\ delivery' = [d \in Deliveries |-> IF d = p THEN NoDelivery ELSE delivery[d]]

Reread(p) == fresh' = fresh \cup {p}
WriteInvoice(row) == invoice' = row /\ fresh' = {}

-----------------------------------------------------------------------------
(* ChargeInvoice.                                                           *)

\* Places after i of the providers the tenant has an instrument with.
Later(order, i) == {j \in DOMAIN order : j > i /\ order[j] \in methods}
Soonest(places) == CHOOSE j \in places : \A k \in places : j <= k

KeyOf(c) == <<charge[c].key, IF charge[c].i = 1 THEN "first" ELSE charge[c].order[charge[c].i]>>
ProviderOf(c) == charge[c].order[charge[c].i]
PaymentOf(c) == <<KeyOf(c), ProviderOf(c)>>

\* The key is unused and the invoice has a balance; otherwise the call returns
\* the earlier attempt or an error and changes nothing.
ChargeBegin(c) ==
  /\ pc[c] = "idle"
  /\ BalanceDue(1, invoice.paid, 0) > 0
  /\ \E k \in Keys, o \in Orders :
       /\ attempts[<<k, "first">>] = NoAttempt
       /\ charge' = [charge EXCEPT ![c] = [key |-> k, order |-> o, i |-> Soonest(Later(o, 0)), result |-> "none"]]
  /\ Goto(c, "insert")
  /\ UNCHANGED <<invoice, fresh, attempts, money, ledger, delivery, settings>>

\* The loop goes on with the next provider, or ends.
NextProvider(c) ==
  LET later == Later(charge[c].order, charge[c].i)
  IN  IF failover /\ later # {}
      THEN /\ charge' = [charge EXCEPT ![c] = [@ EXCEPT !.i = Soonest(later), !.result = "none"]]
           /\ Goto(c, "insert")
           /\ UNCHANGED delivery
      ELSE Return(c)

\* Mutant: the attempt is recorded without the uniqueness of its key.
ChargeInsertRepeat(c) ==
  /\ pc[c] = "insert"
  /\ attempts' = [attempts EXCEPT ![KeyOf(c)] = [provider |-> ProviderOf(c), state |-> "pending", ref |-> FALSE]]
  /\ Goto(c, "charge")
  /\ UNCHANGED <<invoice, fresh, money, ledger, charge, delivery, settings>>

\* Mutant: the attempt is recorded only when the provider has answered.
ChargeInsertLate(c) ==
  /\ pc[c] = "insert"
  /\ attempts[KeyOf(c)] = NoAttempt
  /\ Goto(c, "charge")
  /\ UNCHANGED <<invoice, fresh, attempts, money, ledger, charge, delivery, settings>>

\* insertAttempt: the unique key lets one of two callers through.
ChargeInsert(c) ==
  /\ pc[c] = "insert"
  /\ IF attempts[KeyOf(c)] = NoAttempt
     THEN /\ attempts' = [attempts EXCEPT ![KeyOf(c)] = [provider |-> ProviderOf(c), state |-> "pending", ref |-> FALSE]]
          /\ Goto(c, "charge")
          /\ UNCHANGED <<charge, delivery>>
     ELSE NextProvider(c) /\ UNCHANGED attempts
  /\ UNCHANGED <<invoice, fresh, money, ledger, settings>>

\* Mutant: a charge that waits counts as a success.
ReportedOptimistic(outcome) == IF outcome = "declined" THEN "failed" ELSE "succeeded"

\* What a provider says of a charge (mapChargeState; an authorized charge
\* waits like a pending one).
Reported(outcome) ==
  CASE outcome = "taken"    -> "succeeded"
    [] outcome = "pending"  -> "pending"
    [] outcome = "declined" -> "failed"

\* The provider's Charge (external): it moves the money or not and its answer
\* arrives, or there is only an error or a timeout.  A provider answers a key
\* it has seen with the outcome it already has.
ProviderCharge(c) ==
  /\ pc[c] = "charge"
  /\ \E outcome \in {"none", "taken", "pending", "declined"}, answered \in BOOLEAN :
       /\ money[PaymentOf(c)] # "none" => outcome = money[PaymentOf(c)]
       /\ answered => outcome # "none"
       /\ money' = [money EXCEPT ![PaymentOf(c)] = outcome]
       /\ charge' = [charge EXCEPT ![c].result = IF answered THEN Reported(outcome) ELSE "error"]
  /\ Goto(c, "complete")
  /\ UNCHANGED <<invoice, fresh, attempts, ledger, delivery, settings>>

\* Mutant: the outcome of the call is stored as it is.
ChargeCompleteRaw(c) ==
  /\ pc[c] = "complete" /\ c \in Callers
  /\ attempts' = [attempts EXCEPT ![KeyOf(c)].state = charge[c].result]
  /\ NextProvider(c)
  /\ UNCHANGED <<invoice, fresh, money, ledger, settings>>

\* completeAttempt, and on to RecordPayment or to the next provider.
ChargeComplete(c) ==
  LET result == charge[c].result IN
  /\ pc[c] = "complete" /\ c \in Callers
  /\ attempts' = [attempts EXCEPT ![KeyOf(c)] =
                    [provider |-> ProviderOf(c), ref |-> result # "error",
                     state |-> IF result = "error" THEN "failed" ELSE result]]
  /\ IF result = "succeeded"
     THEN Goto(c, "record") /\ UNCHANGED <<charge, delivery>>
     ELSE NextProvider(c)
  /\ UNCHANGED <<invoice, fresh, money, ledger, settings>>

-----------------------------------------------------------------------------
(* RecordPayment and settleIfPaid, called by both sides.                    *)

\* A delivery goes on to finishWebhook with the result; a failure of a retry
\* parks the event.
FinishWith(d, result) ==
  /\ delivery' = [delivery EXCEPT ![d].result =
                    IF result = "failed" /\ delivery[d].retry THEN "dead_letter" ELSE result]
  /\ Goto(d, "finish")
  /\ UNCHANGED charge

\* A caller returns whatever the outcome.  A delivery goes on to recover the
\* subscription (module Subscriptions), which may fail with the payment made.
Paid(p, result) ==
  IF p \in Callers THEN Return(p) ELSE \E r \in {result, "failed"} : FinishWith(p, r)

RecordRead(p) ==
  /\ pc[p] = "record"
  /\ Reread(p)
  /\ Goto(p, "add")
  /\ UNCHANGED <<invoice, attempts, money, ledger, charge, delivery, settings>>

RecordAdd(p) ==
  /\ pc[p] = "add"
  /\ IF p \in fresh
     THEN /\ WriteInvoice([invoice EXCEPT !.paid = @ + 1])
          /\ Goto(p, "settle")
          /\ UNCHANGED <<charge, delivery>>
     ELSE Paid(p, "failed") /\ UNCHANGED <<invoice, fresh>>
  /\ UNCHANGED <<attempts, money, ledger, settings>>

SettleRead(p) ==
  LET target == IF BalanceDue(1, invoice.paid, 0) = 0 THEN "paid" ELSE "partial" IN
  /\ pc[p] = "settle"
  /\ IF invoice.state # target /\ CanTransitionInvoice(invoice.state, target)
     THEN Reread(p) /\ Goto(p, "close") /\ UNCHANGED <<charge, delivery>>
     ELSE Paid(p, "processed") /\ UNCHANGED fresh
  /\ UNCHANGED <<invoice, attempts, money, ledger, settings>>

SettleClose(p) ==
  /\ pc[p] = "close"
  /\ IF p \in fresh
     THEN WriteInvoice([invoice EXCEPT !.state = "paid"]) /\ Paid(p, "processed")
     ELSE Paid(p, "failed") /\ UNCHANGED <<invoice, fresh>>
  /\ UNCHANGED <<attempts, money, ledger, settings>>

-----------------------------------------------------------------------------
(* HandleWebhook and RetryFailedWebhooks.                                   *)

\* A verified event about a charge the provider has decided.  One that is in
\* the ledger already is acknowledged and dropped.
WebhookArrives(d) ==
  /\ pc[d] = "idle"
  /\ Cardinality({e \in Events : ledger[e] # "none"}) < MaxEvents
  /\ \E e \in Events :
       /\ ledger[e] = "none"
       /\ money[e[1]] \in {"taken"} \cup (IF e[2] = Dispute THEN {} ELSE {"declined"})
       /\ delivery' = [delivery EXCEPT ![d] =
            [event |-> e, pay |-> e[1], retry |-> FALSE, result |-> "none",
             state |-> IF e[2] = Dispute THEN "disputed" ELSE Reported(money[e[1]])]]
  /\ Goto(d, "claim")
  /\ UNCHANGED <<invoice, fresh, attempts, money, ledger, charge, settings>>

\* recordWebhook: the primary key lets one of two deliveries through.
WebhookClaim(d) ==
  /\ pc[d] = "claim"
  /\ IF ledger[delivery[d].event] = "none"
     THEN /\ ledger' = [ledger EXCEPT ![delivery[d].event] = "received"]
          /\ Goto(d, "apply")
          /\ UNCHANGED <<charge, delivery>>
     ELSE Return(d) /\ UNCHANGED ledger
  /\ UNCHANGED <<invoice, fresh, attempts, money, settings>>

\* attemptByReference: the row of a charge, once its reference is stored.
HasReference(pay) == attempts[pay[1]].ref /\ attempts[pay[1]].provider = pay[2]

\* Mutant: an attempt that is already in the state of the event is completed
\* and recorded again.
WebhookApplyRepeat(d) ==
  /\ pc[d] = "apply"
  /\ IF HasReference(delivery[d].pay)
     THEN Goto(d, "complete") /\ UNCHANGED <<charge, delivery>>
     ELSE FinishWith(d, "ignored")
  /\ UNCHANGED <<invoice, fresh, attempts, money, ledger, settings>>

\* applyWebhook, up to its first write.
WebhookApply(d) ==
  LET pay == delivery[d].pay
      state == delivery[d].state
  IN
  /\ pc[d] = "apply"
  /\ \/ ~HasReference(pay) /\ FinishWith(d, "ignored")
     \/ /\ HasReference(pay)
        /\ attempts[pay[1]].state = state
        /\ FinishWith(d, "processed")
     \/ /\ HasReference(pay)
        /\ attempts[pay[1]].state # state
        /\ Goto(d, IF state = "disputed" THEN "mark" ELSE "complete")
        /\ UNCHANGED <<charge, delivery>>
  /\ UNCHANGED <<invoice, fresh, attempts, money, ledger, settings>>

\* applyPaymentEvent: the attempt is completed before the payment is recorded.
WebhookComplete(d) ==
  LET pay == delivery[d].pay
      state == delivery[d].state
  IN
  /\ pc[d] = "complete" /\ d \in Deliveries
  /\ attempts' = [attempts EXCEPT ![pay[1]] = [@ EXCEPT !.state = state, !.ref = TRUE]]
  /\ IF state = "succeeded"
     THEN Goto(d, "record") /\ UNCHANGED <<charge, delivery>>
     ELSE FinishWith(d, "processed")
  /\ UNCHANGED <<invoice, fresh, money, ledger, settings>>

\* applyDisputeEvent through MarkInvoiceState.
DisputeRead(d) ==
  /\ pc[d] = "mark"
  /\ IF CanTransitionInvoice(invoice.state, "disputed")
     THEN Reread(d) /\ Goto(d, "dispute") /\ UNCHANGED <<charge, delivery>>
     ELSE FinishWith(d, "failed") /\ UNCHANGED fresh
  /\ UNCHANGED <<invoice, attempts, money, ledger, settings>>

DisputeWrite(d) ==
  /\ pc[d] = "dispute"
  /\ IF d \in fresh
     THEN WriteInvoice([invoice EXCEPT !.state = "disputed"]) /\ FinishWith(d, "processed")
     ELSE FinishWith(d, "failed") /\ UNCHANGED <<invoice, fresh>>
  /\ UNCHANGED <<attempts, money, ledger, settings>>

\* finishWebhook.
WebhookFinish(d) ==
  /\ pc[d] = "finish"
  /\ ledger' = [ledger EXCEPT ![delivery[d].event] = delivery[d].result]
  /\ Return(d)
  /\ UNCHANGED <<invoice, fresh, attempts, money, settings>>

\* A failed event is retried on the latest attempt of its provider, with the
\* state the provider gives now.  The order is by the second, so which of
\* several attempts it is is not determined.
WebhookRetry(d) ==
  /\ pc[d] = "idle"
  /\ \E e \in Events, pay \in Payments :
       /\ ledger[e] = "failed"
       /\ pay[2] = e[1][2] /\ HasReference(pay)
       /\ delivery' = [delivery EXCEPT ![d] =
            [event |-> e, pay |-> pay, retry |-> TRUE, result |-> "none", state |-> Reported(money[pay])]]
  /\ Goto(d, "apply")
  /\ UNCHANGED <<invoice, fresh, attempts, money, ledger, charge, settings>>

\* The latest attempt is another tenant's, or the provider does not answer.
WebhookRetryElsewhere(d) ==
  /\ pc[d] = "idle"
  /\ \E e \in Events, result \in {"processed", "dead_letter"} :
       /\ ledger[e] = "failed"
       /\ ledger' = [ledger EXCEPT ![e] = result]
  /\ UNCHANGED <<invoice, fresh, attempts, money, pc, charge, delivery, settings>>

-----------------------------------------------------------------------------
\* The provider decides a pending charge (external).
ProviderDecides(pay) ==
  /\ money[pay] = "pending"
  /\ \E outcome \in {"taken", "declined"} : money' = [money EXCEPT ![pay] = outcome]
  /\ UNCHANGED <<invoice, fresh, attempts, ledger, pc, charge, delivery, settings>>

\* The process ends or its request is cancelled between two statements.
Dies(p) ==
  /\ pc[p] # "idle"
  /\ Return(p)
  /\ fresh' = fresh \ {p}
  /\ UNCHANGED <<invoice, attempts, money, ledger, settings>>

CallerStep(c) ==
  ChargeBegin(c) \/ ChargeInsert(c) \/ ProviderCharge(c) \/ ChargeComplete(c)

PaymentStep(p) ==
  RecordRead(p) \/ RecordAdd(p) \/ SettleRead(p) \/ SettleClose(p)

DeliveryStep(d) ==
  \/ WebhookArrives(d) \/ WebhookClaim(d) \/ WebhookApply(d) \/ WebhookComplete(d)
  \/ DisputeRead(d) \/ DisputeWrite(d) \/ WebhookFinish(d)
  \/ WebhookRetry(d) \/ WebhookRetryElsewhere(d)

Next ==
  \/ \E c \in Callers : CallerStep(c)
  \/ \E d \in Deliveries : DeliveryStep(d)
  \/ \E p \in Procs : PaymentStep(p) \/ Dies(p)
  \/ \E pay \in Payments : ProviderDecides(pay)

Spec == Init /\ [][Next]_vars

-----------------------------------------------------------------------------
Taken == {pay \in Payments : money[pay] = "taken"}

\* Types; in particular the rows of both ledgers are in states the code names.
TypeOK ==
  /\ invoice \in [state : InvoiceStates, paid : Nat]
  /\ fresh \subseteq Procs
  /\ attempts \in [Attempts -> [provider : Providers, state : {"pending", "succeeded", "failed"}, ref : BOOLEAN]
                               \cup {NoAttempt}]
  /\ money \in [Payments -> {"none", "pending", "taken", "declined"}]
  /\ ledger \in [Events -> {"none", "received", "processed", "ignored", "failed", "dead_letter"}]

\* chargeThrough records the attempt whatever the outcome, so the ledger shows
\* every try: no provider is asked for money without a row that says so, even
\* when the process dies in between.
LedgerShowsEveryTry ==
  \A pay \in Payments : money[pay] # "none" => attempts[pay[1]].provider = pay[2]

\* An attempt is marked succeeded only when its provider took the money,
\* whoever marks it last: the caller, a webhook or the retry of a webhook.
SucceededWasTaken ==
  \A a \in Attempts : attempts[a].state = "succeeded" => money[<<a, attempts[a].provider>>] = "taken"

\* The invoice is never credited with more payments than were taken for it,
\* although the caller and the webhooks both record them.
NothingInvented == invoice.paid <= Cardinality(Taken)

\* ChargeInvoice is idempotent on its key when it may not fail over and every
\* provider can be charged (so that the first of the order is): whatever is
\* called at once or dies, one key takes money once.
ChargedOnceManual ==
  ~failover /\ methods = Providers => \A p, q \in Taken : p[1][1] = q[1][1] => p = q

\* "replaying the same key returns the original attempt instead of taking the
\* money twice" (ChargeInvoice): one key takes money once.
ChargedOnce ==
  \A p, q \in Taken : p[1][1] = q[1][1] => p = q

\* "RecordPayment adds a settled amount to an invoice and closes it when the
\* balance reaches zero": once nothing is in progress, a fully paid invoice is
\* closed.
PaidIsClosed ==
  (\A p \in Procs : pc[p] = "idle") /\ invoice.paid > 0 => invoice.state \in {"paid", "disputed"}
===============================================================================
