------------------------- MODULE SubscriptionsProofs -------------------------
(***************************************************************************)
(* For any number of renewal tasks, any length of the periods and any      *)
(* retry schedule: a subscription that expired stays expired, a plan and   *)
(* the access of a cancelled subscription last until the period is over,   *)
(* and no period is left behind without an invoice.                        *)
(***************************************************************************)
EXTENDS Subscriptions, TLAPS

InvoiceRows == [start : Int, due : Nat, open : BOOLEAN, tries : 0..Len(RetrySchedule),
                keyed : BOOLEAN]
JobRows == [pc : Labels, at : Nat, snap : Rows, fresh : BOOLEAN, inv : Nat]

Typed ==
  /\ now \in 1..MaxDay
  /\ sub \in Rows
  /\ invoices \in Seq(InvoiceRows)
  /\ job \in [Jobs -> JobRows]
  /\ raising \in BOOLEAN /\ recovering \in BOOLEAN /\ pastDueAt \in 0..MaxDay

\* Only a subscription that is over or cancelled carries an end, and a period
\* begins and ends on the days of its cycle.
RowOK(row) ==
  /\ row.atEnd => row.state \in {"cancelled", "expired"}
  /\ row.ended => row.state \in {"cancelled", "expired"}
  /\ row.end % Period = 1 % Period

\* The rows differ at most in the grace period, the one column that is written
\* without its version.
Same(a, b) ==
  /\ a.state = b.state /\ a.plan = b.plan /\ a.end = b.end
  /\ a.ended = b.ended /\ a.atEnd = b.atEnd /\ a.pending = b.pending

\* What a run has in hand: a row that is the stored one as long as its version
\* is, an invoice, and before AdvanceRenewal the invoice of the period that ends.
JobOK(run, row, rows, day) ==
  /\ run.at <= day
  /\ run.fresh => Same(run.snap, row)
  /\ run.pc \in {"advance", "charge", "retry", "escalate"} => run.inv \in DOMAIN rows
  /\ run.pc = "advance" => rows[run.inv].start = run.snap.end - Period

JobsOK == \A j \in Jobs : JobOK(job[j], sub, invoices, now)

IInv == Typed /\ RowOK(sub) /\ JobsOK /\ EveryPeriodInvoiced
-----------------------------------------------------------------------------
(* The calendar: days of a cycle are a period apart.                          *)

\* Division with a remainder.
LEMMA DivMod ==
  ASSUME NEW P \in Nat \ {0}, NEW a \in Nat
  PROVE  a \div P \in Int /\ a % P \in 0..(P - 1) /\ a = P * (a \div P) + (a % P)
OBVIOUS

\* There is one remainder.
LEMMA ModUnique ==
  ASSUME NEW P \in Nat \ {0}, NEW q \in Int, NEW r \in 0..(P - 1)
  PROVE  (P * q + r) % P = r
OBVIOUS

\* The day one period later is on the same cycle.
LEMMA ModStep ==
  ASSUME NEW P \in Nat \ {0}, NEW a \in Nat
  PROVE  (a + P) % P = a % P
<1> DEFINE q == a \div P
           r == a % P
<1>1. q \in Int /\ r \in 0..(P - 1) /\ a = P * q + r
  BY DivMod
<1> HIDE DEF q, r
<1>2. a + P = P * (q + 1) + r /\ q + 1 \in Int
  BY <1>1
<1>3. (P * (q + 1) + r) % P = r
  BY <1>1, <1>2, ModUnique
<1>4. (a + P) % P = r
  BY <1>2, <1>3
<1>5. QED
  BY <1>4 DEF r

\* No other day of the cycle lies between two that are a period apart.
LEMMA ModNext ==
  ASSUME NEW P \in Nat \ {0}, NEW a \in Nat, NEW b \in Nat,
         a % P = b % P, a < b, b <= a + P
  PROVE  b = a + P
<1> DEFINE p == a \div P
           q == b \div P
           r == a % P
<1>1. p \in Int /\ q \in Int /\ r \in 0..(P - 1) /\ a = P * p + r /\ b = P * q + r
  BY DivMod
<1> HIDE DEF p, q, r
<1>2. PICK d \in Int : d = q - p
  BY <1>1
<1>3. b - a = P * d
  BY <1>1, <1>2
<1>4. d > 0
  <2>1. CASE d <= 0
    <3>1. P * d <= 0
      BY <2>1
    <3>2. QED
      BY <1>3, <3>1
  <2>2. QED
    BY <2>1
<1>5. d < 2
  <2>1. CASE d >= 2
    <3>1. P * d >= P * 2
      BY <2>1
    <3>2. QED
      BY <1>3, <3>1
  <2>2. QED
    BY <2>1
<1>6. QED
  BY <1>3, <1>4, <1>5

-----------------------------------------------------------------------------
(* The transition table.                                                      *)

\* The edges that the tasks and the webhooks take.
LEMMA Edges ==
  /\ NextSubscriptionState("trialing", "trial_converted") = "active"
  /\ NextSubscriptionState("active", "payment_failed") = "past_due"
  /\ NextSubscriptionState("past_due", "payment_recovered") = "active"
  /\ NextSubscriptionState("past_due", "grace_expired") = "expired"
  /\ NextSubscriptionState("cancelled", "period_ended") = "expired"
BY DEF NextSubscriptionState, SubscriptionEdges, SubscriptionStates

\* The states in which an event is legal.
LEMMA Legal ==
  ASSUME NEW s \in SubscriptionStates
  PROVE  /\ LegalEvent(s, "payment_failed") => s = "active"
         /\ LegalEvent(s, "period_ended") => s = "cancelled"
         /\ LegalEvent(s, "cancelled") => s \notin {"cancelled", "expired"}
BY DEF LegalEvent, SubscriptionEdges, SubscriptionStates

-----------------------------------------------------------------------------
(* Rows, runs and invoices.                                                   *)

\* Invoices are added, and keep the period they bill.
Grown(a, b) == \A i \in DOMAIN a : i \in DOMAIN b /\ b[i].start = a[i].start

\* A run keeps what it has in hand while the row does not change.
LEMMA RunKept ==
  ASSUME NEW run, NEW row, NEW row2, NEW a, NEW b, NEW day \in Nat, NEW day2 \in Nat,
         run.at \in Nat, JobOK(run, row, a, day),
         Same(row, row2), Grown(a, b), day <= day2
  PROVE  JobOK(run, row2, b, day2)
BY DEF JobOK, Same, Grown

\* A run that is out of date keeps the rest.
LEMMA RunOutdated ==
  ASSUME NEW run \in JobRows, NEW row, NEW row2, NEW a, NEW b, NEW day \in Nat, NEW day2 \in Nat,
         JobOK(run, row, a, day), Grown(a, b), day <= day2
  PROVE  /\ [run EXCEPT !.fresh = FALSE] \in JobRows
         /\ JobOK([run EXCEPT !.fresh = FALSE], row2, b, day2)
<1> DEFINE old == [run EXCEPT !.fresh = FALSE]
<1>1. old \in JobRows
  BY Zenon DEF JobRows
<1>2. /\ old.at = run.at /\ old.fresh = FALSE /\ old.pc = run.pc
      /\ old.inv = run.inv /\ old.snap = run.snap
  BY DEF JobRows
<1>3. run.at \in Nat
  BY DEF JobRows
<1> HIDE DEF old
<1>4. JobOK(old, row2, b, day2)
  BY <1>2, <1>3 DEF JobOK, Grown
<1>5. QED
  BY <1>1, <1>4 DEF old

\* So may a run that has nothing in hand.
LEMMA RunIdle ==
  /\ NoRow \in Rows /\ Idle \in JobRows
  /\ \A row, rows : \A day \in Nat : JobOK(Idle, row, rows, day)
<1>1. NoRow \in Rows
  BY DEF NoRow, Rows, SubscriptionStates
<1>2. Idle \in JobRows
  BY <1>1 DEF Idle, JobRows, Labels
<1>3. QED
  BY <1>1, <1>2 DEF Idle, JobOK

\* A step that leaves the period alone keeps the invariant if it keeps the parts.
LEMMA PartsKept ==
  ASSUME IInv, Typed', RowOK(sub'), JobsOK', Grown(invoices, invoices'), sub'.end = sub.end
  PROVE  IInv'
<1>1. EveryPeriodInvoiced'
  BY DEF IInv, Grown, EveryPeriodInvoiced
<1>2. QED
  BY <1>1 DEF IInv

\* What no step does to the row: bring an expired subscription back, take a
\* plan or the access of a cancelled subscription away before the period is over.
StepOK ==
  /\ sub.state = "expired" => sub'.state = "expired"
  /\ sub.plan = "pro" /\ sub'.plan = "free" => sub.end <= now
  /\ sub.state = "cancelled" /\ sub.atEnd /\ sub'.state = "expired" => sub.end <= now

\* The fields of the row and of a run in hand have their types.
LEMMA Fields ==
  ASSUME IInv
  PROVE  /\ sub \in Rows /\ sub.state \in SubscriptionStates /\ sub.plan \in {"free", "pro"}
         /\ sub.end \in Nat /\ sub.grace \in Nat
         /\ now \in Nat /\ now \in 1..MaxDay /\ MaxDay \in Nat /\ Period \in Nat \ {0}
         /\ \A j \in Jobs : job[j] \in JobRows /\ job[j].snap \in Rows /\ job[j].at \in Nat
BY SubscriptionsAssumption DEF IInv, Typed, Rows, JobRows

\* An invoice is added.
LEMMA AppendGrown ==
  ASSUME NEW rows \in Seq(InvoiceRows), NEW inv \in InvoiceRows
  PROVE  /\ Append(rows, inv) \in Seq(InvoiceRows) /\ Grown(rows, Append(rows, inv))
         /\ Len(rows) + 1 \in DOMAIN Append(rows, inv)
         /\ Append(rows, inv)[Len(rows) + 1] = inv
BY DEF Grown

\* An invoice of the table has its type.
LEMMA InvoiceTyped ==
  ASSUME NEW rows \in Seq(InvoiceRows), NEW i \in DOMAIN rows
  PROVE  rows[i] \in InvoiceRows
OBVIOUS

\* A payment keeps the rest of the invoice.
LEMMA PaidInvoice ==
  ASSUME NEW inv \in InvoiceRows
  PROVE  /\ [inv EXCEPT !.open = FALSE] \in InvoiceRows
         /\ [inv EXCEPT !.open = FALSE].start = inv.start
BY Zenon DEF InvoiceRows

\* An invoice is changed, but for its period.
LEMMA UpdateGrown ==
  ASSUME NEW rows \in Seq(InvoiceRows), NEW i \in DOMAIN rows, NEW inv \in InvoiceRows,
         inv.start = rows[i].start
  PROVE  /\ [rows EXCEPT ![i] = inv] \in Seq(InvoiceRows)
         /\ Grown(rows, [rows EXCEPT ![i] = inv])
BY DEF Grown

\* A step that only leads to the next one keeps the runs of the others.
LEMMA RunsKept ==
  ASSUME IInv, NEW row, NEW rows, NEW day \in Nat,
         Same(sub, row), Grown(invoices, rows), now <= day
  PROVE  \A j \in Jobs : JobOK(job[j], row, rows, day)
<1> SUFFICES ASSUME NEW j \in Jobs PROVE JobOK(job[j], row, rows, day)
  OBVIOUS
<1>1. job[j].at \in Nat /\ now \in Nat
  BY Fields
<1>2. JobOK(job[j], sub, invoices, now)
  BY DEF IInv, JobsOK
<1>3. QED
  BY <1>1, <1>2, RunKept

\* A write of the row puts every run out of date, and keeps the rest of it.
LEMMA RunsOutdated ==
  ASSUME IInv, NEW row, NEW rows, Grown(invoices, rows)
  PROVE  /\ Outdate(Jobs) \in [Jobs -> JobRows]
         /\ \A j \in Jobs : /\ Outdate(Jobs)[j] = [job[j] EXCEPT !.fresh = FALSE]
                            /\ JobOK(Outdate(Jobs)[j], row, rows, now)
<1>1. ASSUME NEW j \in Jobs
      PROVE  /\ [job[j] EXCEPT !.fresh = FALSE] \in JobRows
             /\ JobOK([job[j] EXCEPT !.fresh = FALSE], row, rows, now)
  <2>1. job[j] \in JobRows /\ now \in Nat /\ now <= now
    BY Fields
  <2>2. JobOK(job[j], sub, invoices, now)
    BY DEF IInv, JobsOK
  <2>3. QED
    BY <2>1, <2>2, RunOutdated
<1>2. Outdate(Jobs) = [j \in Jobs |-> [job[j] EXCEPT !.fresh = FALSE]]
  BY DEF Outdate
<1>3. QED
  BY <1>1, <1>2

\* Nothing is added.
LEMMA GrownSelf == \A rows : Grown(rows, rows)
BY DEF Grown

\* A step that writes the row, leaves the period alone and leads every run to
\* one that is out of date.
LEMMA WriteKept ==
  ASSUME IInv, NEW row \in Rows, Write(row), RowOK(row), row.end = sub.end,
         UNCHANGED <<now, invoices>>, raising' \in BOOLEAN, recovering' \in BOOLEAN,
         job' \in [Jobs -> JobRows],
         \A j \in Jobs : JobOK(job'[j], row, invoices, now)
  PROVE  IInv'
<1>1. Typed'
  BY SubscriptionsAssumption DEF IInv, Typed, Write
<1>2. RowOK(sub') /\ sub'.end = sub.end
  BY DEF Write
<1>3. JobsOK'
  BY DEF JobsOK, Write
<1>4. QED
  BY <1>1, <1>2, <1>3, GrownSelf, PartsKept

\* A step that leaves the row alone and changes one run.
LEMMA MoveKept ==
  ASSUME IInv, NEW j \in Jobs, NEW run \in JobRows,
         UNCHANGED <<now, sub, raising, pastDueAt>>, recovering' \in BOOLEAN,
         invoices' \in Seq(InvoiceRows), Grown(invoices, invoices'),
         job' = [job EXCEPT ![j] = run], JobOK(run, sub, invoices', now)
  PROVE  IInv' /\ StepOK
<1>1. Typed'
  BY DEF IInv, Typed
<1>2. RowOK(sub')
  BY DEF IInv
<1>3. JobsOK'
  <2> SUFFICES ASSUME NEW k \in Jobs PROVE JobOK(job'[k], sub, invoices', now)
    BY DEF JobsOK
  <2>1. now \in Nat /\ now <= now /\ Same(sub, sub)
    BY Fields DEF Same
  <2>2. JobOK(job[k], sub, invoices', now)
    BY <2>1, RunsKept
  <2>3. job'[k] = IF k = j THEN run ELSE job[k]
    BY DEF IInv, Typed
  <2>4. QED
    BY <2>2, <2>3
<1>4. IInv'
  BY <1>1, <1>2, <1>3, PartsKept
<1>5. StepOK
  BY DEF StepOK
<1>6. QED
  BY <1>4, <1>5

\* A step that leaves the row and the runs alone.
LEMMA InvoicesKept ==
  ASSUME IInv, UNCHANGED <<sub, job, pastDueAt>>, now' \in 1..MaxDay, now <= now',
         raising' \in BOOLEAN, recovering' \in BOOLEAN,
         invoices' \in Seq(InvoiceRows), Grown(invoices, invoices')
  PROVE  IInv' /\ StepOK
<1>1. Typed'
  BY DEF IInv, Typed
<1>2. RowOK(sub')
  BY DEF IInv
<1>3. now' \in Nat /\ Same(sub, sub)
  BY Fields DEF Same
<1>4. JobsOK'
  BY <1>3, RunsKept DEF JobsOK
<1>5. IInv'
  BY <1>1, <1>2, <1>4, PartsKept
<1>6. QED
  BY <1>5 DEF StepOK

\* A step that writes the row and leaves the runs to find out.
LEMMA TenantWriteKept ==
  ASSUME IInv, NEW row \in Rows, Write(row), RowOK(row), row.end = sub.end,
         job' = Outdate(Jobs),
         UNCHANGED <<now, invoices>>, raising' \in BOOLEAN, recovering' \in BOOLEAN
  PROVE  IInv'
<1>1. /\ job' \in [Jobs -> JobRows]
      /\ \A j \in Jobs : JobOK(job'[j], row, invoices, now)
  BY Zenon, RunsOutdated, GrownSelf
<1>2. QED
  BY <1>1, WriteKept

\* A step of a run that writes the row: the run has run in hand afterwards.
LEMMA RunWriteKept ==
  ASSUME IInv, NEW row \in Rows, Write(row), RowOK(row), row.end = sub.end,
         NEW j \in Jobs, NEW run \in JobRows, JobOK(run, row, invoices, now),
         job' = [Outdate(Jobs) EXCEPT ![j] = run],
         UNCHANGED <<now, invoices, raising, recovering>>
  PROVE  IInv'
<1>1. /\ Outdate(Jobs) \in [Jobs -> JobRows]
      /\ \A k \in Jobs : JobOK(Outdate(Jobs)[k], row, invoices, now)
  BY Zenon, RunsOutdated, GrownSelf
<1>2. job' \in [Jobs -> JobRows]
  BY <1>1
<1>3. \A k \in Jobs : JobOK(job'[k], row, invoices, now)
  BY <1>1
<1>4. raising' \in BOOLEAN /\ recovering' \in BOOLEAN
  BY DEF IInv, Typed
<1>5. QED
  BY <1>2, <1>3, <1>4, WriteKept

\* What Transition stores.
LEMMA TransitionFields ==
  ASSUME IInv, NEW row \in Rows, NEW event,
         NextSubscriptionState(row.state, event) \in SubscriptionStates
  PROVE  /\ Transition(row, event) \in Rows
         /\ Transition(row, event).state = NextSubscriptionState(row.state, event)
         /\ Transition(row, event).ended = (row.ended \/ Transition(row, event).state = "expired")
         /\ Transition(row, event).end = sub.end
         /\ Transition(row, event).atEnd = sub.atEnd
         /\ Transition(row, event).plan = sub.plan
BY Zenon, Fields DEF Transition, Rows

-----------------------------------------------------------------------------
(* The tenant and the webhooks.                                               *)

LEMMA TenantStepKept ==
  ASSUME IInv, TenantStep
  PROVE  IInv' /\ StepOK
<1>0. /\ raising \in BOOLEAN /\ recovering \in BOOLEAN /\ invoices \in Seq(InvoiceRows)
      /\ Grown(invoices, invoices) /\ now \in 1..MaxDay /\ now <= now
  BY Fields, GrownSelf DEF IInv, Typed
<1> USE Fields
<1>1. CASE Upgrade
  <2> DEFINE row == [sub EXCEPT !.plan = "pro", !.pending = "none"]
  <2>1. row \in Rows /\ row.state = sub.state /\ row.end = sub.end /\ row.plan = "pro"
    BY Zenon DEF Rows
  <2>2. RowOK(row)
    BY DEF IInv, RowOK, Rows
  <2>3. Write(row)
    BY <1>1 DEF Upgrade
  <2>4. sub' = row
    BY <2>3 DEF Write
  <2> HIDE DEF row
  <2>5. IInv'
    BY <1>0, <1>1, <2>1, <2>2, <2>3, TenantWriteKept DEF Upgrade
  <2>6. QED
    BY <2>1, <2>4, <2>5 DEF StepOK
<1>2. CASE Downgrade
  <2> DEFINE row == [sub EXCEPT !.pending = "free"]
  <2>1. row \in Rows /\ row.state = sub.state /\ row.end = sub.end /\ row.plan = sub.plan
    BY DEF Rows
  <2>2. RowOK(row)
    BY DEF IInv, RowOK, Rows
  <2>3. Write(row)
    BY <1>2 DEF Downgrade
  <2>4. sub' = row
    BY <2>3 DEF Write
  <2> HIDE DEF row
  <2>5. IInv'
    BY <1>0, <1>2, <2>1, <2>2, <2>3, TenantWriteKept DEF Downgrade
  <2>6. QED
    BY <2>1, <2>4, <2>5 DEF StepOK
<1>3. CASE Resume
  <2> DEFINE row == [sub EXCEPT !.state = "active", !.atEnd = FALSE]
  <2>0. sub.state = "cancelled" /\ ~sub.ended
    BY <1>3 DEF Resume
  <2>1. /\ row \in Rows /\ row.state = "active" /\ row.end = sub.end
        /\ row.plan = sub.plan /\ row.atEnd = FALSE /\ row.ended = sub.ended
    BY Zenon DEF Rows, SubscriptionStates
  <2>3. Write(row)
    BY <1>3 DEF Resume
  <2>4. sub' = row
    BY <2>3 DEF Write
  <2> HIDE DEF row
  <2>2. RowOK(row)
    BY <2>0, <2>1 DEF IInv, RowOK
  <2>5. IInv'
    BY <1>0, <1>3, <2>1, <2>2, <2>3, TenantWriteKept DEF Resume
  <2>6. QED
    BY <2>0, <2>1, <2>4, <2>5 DEF StepOK
<1>4. ASSUME NEW immediate \in BOOLEAN, Cancel(immediate)
      PROVE  IInv' /\ StepOK
  <2> DEFINE row == [sub EXCEPT !.state = "cancelled", !.ended = immediate,
                                !.atEnd = ~immediate, !.pending = "none"]
  <2>0. sub.state \notin {"cancelled", "expired"}
    BY <1>4, Legal DEF Cancel
  <2>1. row \in Rows /\ row.state = "cancelled" /\ row.end = sub.end /\ row.plan = sub.plan
    BY Zenon DEF Rows, SubscriptionStates
  <2>3. Write(row)
    BY <1>4 DEF Cancel
  <2>4. sub' = row
    BY <2>3 DEF Write
  <2> HIDE DEF row
  <2>2. RowOK(row)
    BY <2>1 DEF IInv, RowOK
  <2>5. IInv'
    BY <1>0, <1>4, <2>1, <2>2, <2>3, TenantWriteKept DEF Cancel
  <2>6. QED
    BY <2>0, <2>1, <2>4, <2>5 DEF StepOK
<1>5. CASE RaiseProration
  <2>1. NewInvoice(0, TRUE) \in InvoiceRows
    BY SubscriptionsAssumption DEF NewInvoice, InvoiceRows
  <2>2. QED
    BY Zenon, <1>0, <1>5, <2>1, AppendGrown, InvoicesKept DEF RaiseProration
<1>6. CASE ChangePlanFail
  <2>1. /\ UNCHANGED <<sub, job, pastDueAt>> /\ now' = now /\ invoices' = invoices
        /\ raising' \in BOOLEAN /\ recovering' \in BOOLEAN
    BY Zenon, <1>0, <1>6 DEF ChangePlanFail
  <2>2. QED
    BY <1>0, <2>1, InvoicesKept
<1>7. ASSUME NEW i \in DOMAIN invoices, Pay(i)
      PROVE  IInv' /\ StepOK
  <2>1. /\ [invoices[i] EXCEPT !.open = FALSE] \in InvoiceRows
        /\ [invoices[i] EXCEPT !.open = FALSE].start = invoices[i].start
    BY <1>0, InvoiceTyped, PaidInvoice
  <2>2. invoices' = [invoices EXCEPT ![i] = [invoices[i] EXCEPT !.open = FALSE]]
    BY <1>7 DEF Pay
  <2>3. invoices' \in Seq(InvoiceRows) /\ Grown(invoices, invoices')
    BY Zenon, <1>0, <2>1, <2>2, UpdateGrown
  <2>4. /\ UNCHANGED <<sub, job, pastDueAt>> /\ now' = now
        /\ raising' \in BOOLEAN /\ recovering' \in BOOLEAN
    BY <1>0, <1>7 DEF Pay
  <2>5. QED
    BY <1>0, <2>3, <2>4, InvoicesKept
<1>8. QED
  BY <1>1, <1>2, <1>3, <1>4, <1>5, <1>6, <1>7 DEF TenantStep

LEMMA WebhookStepKept ==
  ASSUME IInv, WebhookStep
  PROVE  IInv' /\ StepOK
<1>0. /\ raising \in BOOLEAN /\ recovering \in BOOLEAN /\ invoices \in Seq(InvoiceRows)
      /\ Grown(invoices, invoices) /\ now \in 1..MaxDay /\ now <= now
  BY Fields, GrownSelf DEF IInv, Typed
<1> USE Fields
<1>1. ASSUME NEW i \in DOMAIN invoices, WebhookPay(i)
      PROVE  IInv' /\ StepOK
  <2>1. /\ [invoices[i] EXCEPT !.open = FALSE] \in InvoiceRows
        /\ [invoices[i] EXCEPT !.open = FALSE].start = invoices[i].start
    BY <1>0, InvoiceTyped, PaidInvoice
  <2>2. invoices' = [invoices EXCEPT ![i] = [invoices[i] EXCEPT !.open = FALSE]]
    BY <1>1 DEF WebhookPay
  <2>3. invoices' \in Seq(InvoiceRows) /\ Grown(invoices, invoices')
    BY Zenon, <1>0, <2>1, <2>2, UpdateGrown
  <2>4. /\ UNCHANGED <<sub, job, pastDueAt>> /\ now' = now
        /\ raising' \in BOOLEAN /\ recovering' \in BOOLEAN
    BY <1>0, <1>1 DEF WebhookPay
  <2>5. QED
    BY <1>0, <2>3, <2>4, InvoicesKept
<1>2. CASE WebhookRecover /\ sub.state = "past_due"
  <2> DEFINE row == Transition(sub, "payment_recovered")
  <2>1. /\ row \in Rows /\ row.state = "active" /\ row.end = sub.end
        /\ row.plan = sub.plan /\ row.atEnd = sub.atEnd /\ row.ended = sub.ended
    BY <1>2, Edges, TransitionFields DEF SubscriptionStates, Rows
  <2>3. Write(row)
    BY <1>2 DEF WebhookRecover
  <2>4. sub' = row
    BY <2>3 DEF Write
  <2> HIDE DEF row
  <2>2. RowOK(row)
    BY <1>2, <2>1 DEF IInv, RowOK
  <2>5. IInv'
    BY Zenon, <1>0, <1>2, <2>1, <2>2, <2>3, TenantWriteKept DEF WebhookRecover
  <2>6. QED
    BY <1>2, <2>1, <2>4, <2>5 DEF StepOK
<1>3. CASE WebhookRecover /\ sub.state # "past_due"
  BY Zenon, <1>0, <1>3, GrownSelf, InvoicesKept DEF WebhookRecover
<1>4. CASE WebhookFail
  BY Zenon, <1>0, <1>4, GrownSelf, InvoicesKept DEF WebhookFail
<1>5. QED
  BY <1>1, <1>2, <1>3, <1>4 DEF WebhookStep

-----------------------------------------------------------------------------
(* The renewal task.                                                          *)

\* A run moves to a label that asks no more of what it has in hand.
LEMMA MovedRun ==
  ASSUME NEW run \in JobRows, NEW pc \in Labels \ {"advance"},
         NEW row, NEW rows, NEW day \in Nat, JobOK(run, row, rows, day),
         pc \in {"charge", "retry", "escalate"} => run.inv \in DOMAIN rows
  PROVE  /\ [run EXCEPT !.pc = pc] \in JobRows
         /\ JobOK([run EXCEPT !.pc = pc], row, rows, day)
<1> DEFINE next == [run EXCEPT !.pc = pc]
<1>1. next \in JobRows
  BY DEF JobRows
<1>2. /\ next.at = run.at /\ next.fresh = run.fresh /\ next.pc = pc
      /\ next.inv = run.inv /\ next.snap = run.snap
  BY DEF JobRows
<1> HIDE DEF next
<1>3. JobOK(next, row, rows, day)
  BY <1>2 DEF JobOK
<1>4. QED
  BY <1>1, <1>3 DEF next

\* Step and Done are steps that leave the row alone.
LEMMA StepKept ==
  ASSUME IInv, NEW j \in Jobs, NEW pc \in Labels \ {"advance"}, Step(j, pc),
         pc \in {"charge", "retry", "escalate"} => job[j].inv \in DOMAIN invoices',
         UNCHANGED <<now, sub, raising, recovering, pastDueAt>>,
         invoices' \in Seq(InvoiceRows), Grown(invoices, invoices')
  PROVE  IInv' /\ StepOK
<1>1. job[j] \in JobRows /\ now \in Nat /\ now <= now /\ Same(sub, sub)
  BY Fields DEF Same
<1>2. JobOK(job[j], sub, invoices', now)
  BY <1>1, RunsKept
<1>3. /\ [job[j] EXCEPT !.pc = pc] \in JobRows
      /\ JobOK([job[j] EXCEPT !.pc = pc], sub, invoices', now)
  BY <1>1, <1>2, MovedRun
<1>4. job' = [job EXCEPT ![j] = [job[j] EXCEPT !.pc = pc]]
  BY DEF Step
<1>5. recovering' \in BOOLEAN
  BY DEF IInv, Typed
<1>6. QED
  BY Zenon, <1>3, <1>4, <1>5, MoveKept

LEMMA DoneKept ==
  ASSUME IInv, NEW j \in Jobs, Done(j),
         UNCHANGED <<now, sub, raising, recovering, pastDueAt>>,
         invoices' \in Seq(InvoiceRows), Grown(invoices, invoices')
  PROVE  IInv' /\ StepOK
<1>1. Idle \in JobRows /\ JobOK(Idle, sub, invoices', now)
  BY Fields, RunIdle
<1>2. recovering' \in BOOLEAN
  BY DEF IInv, Typed
<1>3. QED
  BY Zenon, <1>1, <1>2, MoveKept DEF Done

\* Advance and WriteAndDone are writes of the row.
LEMMA AdvanceKept ==
  ASSUME IInv, NEW row \in Rows, Write(row), RowOK(row), row.end = sub.end,
         NEW j \in Jobs, NEW pc \in Labels \ {"advance", "charge", "retry", "escalate"},
         Advance(j, pc), UNCHANGED <<now, invoices, raising, recovering>>
  PROVE  IInv'
<1>1. /\ Outdate(Jobs) \in [Jobs -> JobRows]
      /\ JobOK(Outdate(Jobs)[j], row, invoices, now)
  BY Zenon, RunsOutdated, GrownSelf
<1>2. /\ [Outdate(Jobs)[j] EXCEPT !.pc = pc] \in JobRows
      /\ JobOK([Outdate(Jobs)[j] EXCEPT !.pc = pc], row, invoices, now)
  BY <1>1, Fields, MovedRun
<1>3. job' = [Outdate(Jobs) EXCEPT ![j] = [Outdate(Jobs)[j] EXCEPT !.pc = pc]]
  BY DEF Advance
<1>4. QED
  BY Zenon, <1>2, <1>3, RunWriteKept

LEMMA WriteAndDoneKept ==
  ASSUME IInv, NEW row \in Rows, RowOK(row), row.end = sub.end,
         NEW j \in Jobs, WriteAndDone(j, row), UNCHANGED <<now, invoices, raising, recovering>>
  PROVE  IInv'
<1>1. Idle \in JobRows /\ JobOK(Idle, row, invoices, now)
  BY Fields, RunIdle
<1>2. QED
  BY Zenon, <1>1, RunWriteKept DEF WriteAndDone

\* The row in hand is the stored one while its version is.
LEMMA FreshRow ==
  ASSUME IInv, NEW j \in Jobs, job[j].fresh
  PROVE  Same(job[j].snap, sub)
BY DEF IInv, JobsOK, JobOK

LEMMA RenewalBeginKept ==
  ASSUME IInv, NEW j \in Jobs, RenewalBegin(j)
  PROVE  IInv' /\ StepOK
<1> DEFINE run == [pc |-> "convert", at |-> now, snap |-> sub, fresh |-> TRUE, inv |-> 0]
<1>1. run \in JobRows
  BY Fields DEF JobRows, Labels
<1>2. JobOK(run, sub, invoices, now)
  BY Fields DEF JobOK, Same
<1>3. /\ invoices \in Seq(InvoiceRows) /\ Grown(invoices, invoices) /\ recovering \in BOOLEAN
  BY GrownSelf DEF IInv, Typed
<1>4. /\ job' = [job EXCEPT ![j] = run]
      /\ UNCHANGED <<now, sub, invoices, raising, recovering, pastDueAt>>
  BY DEF RenewalBegin
<1> HIDE DEF run
<1>5. QED
  BY Zenon, <1>1, <1>2, <1>3, <1>4, MoveKept

LEMMA RereadKept ==
  ASSUME IInv, NEW j \in Jobs, NEW pc \in Labels \ {"advance", "charge", "retry", "escalate"},
         job' = [job EXCEPT ![j] = [job[j] EXCEPT !.snap = sub, !.fresh = TRUE, !.pc = pc]],
         UNCHANGED <<now, sub, invoices, raising, recovering, pastDueAt>>
  PROVE  IInv' /\ StepOK
<1> DEFINE run == [job[j] EXCEPT !.snap = sub, !.fresh = TRUE, !.pc = pc]
<1>0. job[j] \in JobRows /\ sub \in Rows
  BY Fields
<1>1. run \in JobRows
  BY Zenon, <1>0 DEF JobRows
<1>2. run.at = job[j].at /\ run.snap = sub /\ run.fresh = TRUE /\ run.pc = pc
  BY <1>0 DEF JobRows
<1>3. job[j].at <= now
  BY DEF IInv, JobsOK, JobOK
<1>4. /\ invoices \in Seq(InvoiceRows) /\ Grown(invoices, invoices) /\ recovering \in BOOLEAN
  BY GrownSelf DEF IInv, Typed
<1> HIDE DEF run
<1>5. JobOK(run, sub, invoices, now)
  BY <1>2, <1>3 DEF JobOK, Same
<1>6. job' = [job EXCEPT ![j] = run]
  BY DEF run
<1>7. QED
  BY Zenon, <1>1, <1>4, <1>5, <1>6, MoveKept

LEMMA RenewalConvertKept ==
  ASSUME IInv, NEW j \in Jobs, RenewalConvert(j)
  PROVE  IInv' /\ StepOK
<1>0. /\ job[j].snap \in Rows /\ invoices \in Seq(InvoiceRows) /\ Grown(invoices, invoices)
      /\ "reread" \in Labels /\ "decide" \in Labels
  BY Fields, GrownSelf DEF IInv, Typed, Labels
<1>1. CASE job[j].snap.state = "trialing" /\ job[j].at >= 1 + TrialDays
  <2> DEFINE row == Transition(job[j].snap, "trial_converted")
  <2>1. Same(job[j].snap, sub)
    BY <1>1, FreshRow DEF RenewalConvert
  <2>2. Write(row) /\ Advance(j, "reread") /\ UNCHANGED <<now, invoices, raising, recovering>>
    BY <1>1 DEF RenewalConvert
  <2>3. /\ row \in Rows /\ row.state = "active" /\ row.end = sub.end
        /\ row.plan = sub.plan /\ row.atEnd = sub.atEnd
        /\ row.ended = (job[j].snap.ended \/ row.state = "expired")
    BY <1>0, <1>1, Edges, TransitionFields DEF SubscriptionStates
  <2>4. sub' = row
    BY <2>2 DEF Write
  <2> HIDE DEF row
  <2>5. sub.state = "trialing" /\ job[j].snap.ended = sub.ended
    BY <1>1, <2>1 DEF Same
  <2>6. RowOK(row)
    BY Zenon, <2>3, <2>5 DEF IInv, RowOK
  <2>7. IInv'
    BY <1>0, <2>2, <2>3, <2>6, AdvanceKept
  <2>8. QED
    BY <2>3, <2>4, <2>5, <2>7 DEF StepOK
<1>2. CASE ~(job[j].snap.state = "trialing" /\ job[j].at >= 1 + TrialDays)
  <2>1. /\ Step(j, "decide") /\ invoices' = invoices
        /\ UNCHANGED <<now, sub, raising, recovering, pastDueAt>>
    BY <1>2 DEF RenewalConvert
  <2>2. QED
    BY <1>0, <2>1, StepKept
<1>3. QED
  BY <1>1, <1>2

LEMMA RenewalDecideKept ==
  ASSUME IInv, NEW j \in Jobs, RenewalDecide(j)
  PROVE  IInv' /\ StepOK
<1>1. /\ invoices \in Seq(InvoiceRows) /\ Grown(invoices, invoices) /\ "invoice" \in Labels
  BY GrownSelf DEF IInv, Typed, Labels
<1>2. UNCHANGED <<now, sub, invoices, raising, recovering, pastDueAt>>
  BY DEF RenewalDecide
<1>3. CASE Done(j)
  BY <1>1, <1>2, <1>3, DoneKept
<1>4. CASE Step(j, "invoice")
  BY <1>1, <1>2, <1>4, StepKept
<1>5. QED
  BY <1>3, <1>4 DEF RenewalDecide

\* A cancellation takes effect: the row in hand is the stored one, so its period
\* was over when the run began.
LEMMA RenewalEndKept ==
  ASSUME IInv, NEW j \in Jobs, RenewalEnd(j)
  PROVE  IInv' /\ StepOK
<1> DEFINE row == Transition(job[j].snap, "period_ended")
<1>0. job[j].snap \in Rows /\ job[j].snap.state \in SubscriptionStates /\ job[j].at \in Nat
  BY Fields DEF Rows
<1>1. Same(job[j].snap, sub)
  BY FreshRow DEF RenewalEnd
<1>2. job[j].snap.state = "cancelled" /\ job[j].snap.end <= job[j].at
  BY <1>0, Legal DEF RenewalEnd
<1>3. /\ row \in Rows /\ row.state = "expired" /\ row.end = sub.end
      /\ row.plan = sub.plan
  BY <1>0, <1>2, Edges, TransitionFields DEF SubscriptionStates
<1>4. WriteAndDone(j, row) /\ UNCHANGED <<now, invoices, raising, recovering>>
  BY DEF RenewalEnd
<1>5. sub' = row
  BY <1>4 DEF WriteAndDone, Write
<1> HIDE DEF row
<1>6. RowOK(row)
  BY <1>3 DEF IInv, RowOK
<1>7. IInv'
  BY <1>3, <1>4, <1>6, WriteAndDoneKept
<1>8. sub.end <= now
  <2>1. job[j].at <= now
    BY DEF IInv, JobsOK, JobOK
  <2>2. sub.end <= job[j].at
    BY <1>1, <1>2 DEF Same
  <2>3. QED
    BY <1>0, <2>1, <2>2, Fields
<1>9. QED
  BY <1>3, <1>5, <1>7, <1>8 DEF StepOK

\* So with a downgrade.
LEMMA RenewalPlanKept ==
  ASSUME IInv, NEW j \in Jobs, RenewalPlan(j)
  PROVE  IInv' /\ StepOK
<1> DEFINE row == [sub EXCEPT !.plan = job[j].snap.pending, !.pending = "none"]
<1>0. job[j].snap \in Rows /\ job[j].at \in Nat /\ "rereadPlan" \in Labels
  BY Fields DEF Labels
<1>1. job[j].snap.pending = "free" /\ job[j].snap.end <= job[j].at
  BY <1>0 DEF RenewalPlan, Rows
<1>2. Same(job[j].snap, sub)
  BY FreshRow DEF RenewalPlan
<1>3. row \in Rows /\ row.state = sub.state /\ row.end = sub.end
  BY Zenon, <1>1, Fields DEF Rows
<1>4. RowOK(row)
  BY Fields DEF IInv, RowOK, Rows
<1>5. /\ Write(row) /\ Advance(j, "rereadPlan")
      /\ UNCHANGED <<now, invoices, raising, recovering>>
  BY DEF RenewalPlan
<1>6. sub' = row
  BY <1>5 DEF Write
<1> HIDE DEF row
<1>7. IInv'
  BY <1>0, <1>3, <1>4, <1>5, AdvanceKept
<1>8. sub.end <= now
  <2>1. job[j].at <= now
    BY DEF IInv, JobsOK, JobOK
  <2>2. sub.end <= job[j].at
    BY <1>1, <1>2 DEF Same
  <2>3. QED
    BY <1>0, <2>1, <2>2, Fields
<1>9. QED
  BY <1>3, <1>6, <1>7, <1>8 DEF StepOK

\* The invoice of the period that ends is raised before the period moves on.
LEMMA RenewalInvoiceKept ==
  ASSUME IInv, NEW j \in Jobs, RenewalInvoice(j)
  PROVE  IInv' /\ StepOK
<1> DEFINE inv == NewInvoice(job[j].snap.end - Period, job[j].snap.plan = "pro")
           run == [job[j] EXCEPT !.pc = "advance", !.inv = Len(invoices) + 1]
<1>0. /\ job[j] \in JobRows /\ job[j].snap \in Rows /\ invoices \in Seq(InvoiceRows)
      /\ now \in Nat /\ now <= now /\ Same(sub, sub) /\ recovering \in BOOLEAN
  BY Fields DEF IInv, Typed, Same
<1>1. inv \in InvoiceRows /\ inv.start = job[j].snap.end - Period
  <2>1. job[j].snap.end \in Nat /\ Period \in Nat /\ DueDays \in Nat
    BY <1>0, SubscriptionsAssumption DEF Rows
  <2>2. QED
    BY <1>0, <2>1, SubscriptionsAssumption DEF NewInvoice, InvoiceRows
<1>2. run \in JobRows
  <2>1. Len(invoices) + 1 \in Nat /\ "advance" \in Labels
    BY <1>0 DEF Labels
  <2>2. QED
    BY Zenon, <1>0, <2>1 DEF JobRows
<1>3. /\ run.at = job[j].at /\ run.fresh = job[j].fresh /\ run.pc = "advance"
      /\ run.inv = Len(invoices) + 1 /\ run.snap = job[j].snap
  BY <1>0 DEF JobRows
<1>4. /\ invoices' = Append(invoices, inv) /\ job' = [job EXCEPT ![j] = run]
      /\ UNCHANGED <<now, sub, raising, recovering, pastDueAt>>
  BY DEF RenewalInvoice
<1> HIDE DEF inv, run
<1>5. /\ invoices' \in Seq(InvoiceRows) /\ Grown(invoices, invoices')
      /\ Len(invoices) + 1 \in DOMAIN invoices' /\ invoices'[Len(invoices) + 1] = inv
  BY <1>0, <1>1, <1>4, AppendGrown
<1>6. JobOK(job[j], sub, invoices', now)
  BY <1>0, <1>5, RunsKept
<1>7. JobOK(run, sub, invoices', now)
  BY <1>1, <1>3, <1>5, <1>6 DEF JobOK
<1>8. QED
  BY Zenon, <1>0, <1>2, <1>4, <1>5, <1>7, MoveKept

\* The period moves on: of the periods that lie behind it now, the last is the
\* one whose invoice the run has in hand, since no other day of the cycle lies
\* between it and the period's end.
LEMMA RenewalAdvanceKept ==
  ASSUME IInv, NEW j \in Jobs, RenewalAdvance(j)
  PROVE  IInv' /\ StepOK
<1> DEFINE row == [sub EXCEPT !.end = job[j].snap.end + Period, !.grace = 0]
           run == [Idle EXCEPT !.pc = "charge", !.inv = job[j].inv]
<1>0. /\ job[j] \in JobRows /\ job[j].inv \in Nat /\ now \in Nat /\ sub.end \in Nat
      /\ Period \in Nat \ {0} /\ Period \in Nat /\ sub \in Rows
  BY Fields DEF JobRows
<1>1. job[j].snap.end = sub.end
  BY FreshRow DEF RenewalAdvance, Same
<1>2. /\ row \in Rows /\ row.end = sub.end + Period /\ row.state = sub.state
      /\ row.plan = sub.plan /\ row.atEnd = sub.atEnd /\ row.ended = sub.ended
  <2>1. PICK end \in Nat : end = job[j].snap.end + Period /\ end = sub.end + Period
    BY <1>0, <1>1
  <2>2. row = [sub EXCEPT !.end = end, !.grace = 0]
    BY <2>1
  <2>3. QED
    BY Zenon, <1>0, <2>1, <2>2 DEF Rows
<1>3. run \in JobRows
  BY Zenon, <1>0, RunIdle DEF JobRows, Labels
<1>4. run.at = 0 /\ run.fresh = FALSE /\ run.pc = "charge" /\ run.inv = job[j].inv
  BY <1>0 DEF Idle
<1>5. /\ Write(row) /\ job' = [Outdate(Jobs) EXCEPT ![j] = run]
      /\ UNCHANGED <<now, invoices, raising, recovering>>
  BY DEF RenewalAdvance
<1>6. sub' = row
  BY <1>5 DEF Write
<1> HIDE DEF row, run
<1>7. job[j].inv \in DOMAIN invoices /\ invoices[job[j].inv].start = sub.end - Period
  BY <1>1 DEF IInv, JobsOK, JobOK, RenewalAdvance
<1>8. RowOK(row)
  <2>1. row.end % Period = sub.end % Period
    BY <1>0, <1>2, ModStep
  <2>2. QED
    BY <1>2, <2>1 DEF IInv, RowOK
<1>9. JobOK(run, row, invoices, now)
  BY <1>0, <1>4, <1>7 DEF JobOK
<1>10. /\ Outdate(Jobs) \in [Jobs -> JobRows]
       /\ \A k \in Jobs : JobOK(Outdate(Jobs)[k], row, invoices, now)
  BY Zenon, RunsOutdated, GrownSelf
<1>11. job' \in [Jobs -> JobRows]
  BY <1>3, <1>5, <1>10
<1>12. Typed'
  BY <1>2, <1>5, <1>11, SubscriptionsAssumption DEF IInv, Typed, Write
<1>13. JobsOK'
  BY <1>5, <1>6, <1>9, <1>10 DEF JobsOK
<1>14. EveryPeriodInvoiced'
  <2> SUFFICES ASSUME NEW t \in 1..MaxDay, t % Period = 1 % Period,
                      t + Period < sub.end + Period
               PROVE  \E i \in DOMAIN invoices : invoices[i].start = t
    BY <1>2, <1>5, <1>6 DEF EveryPeriodInvoiced
  <2>1. t \in Nat /\ t < sub.end
    BY <1>0, SubscriptionsAssumption
  <2>2. CASE t + Period < sub.end
    BY <2>2 DEF IInv, EveryPeriodInvoiced
  <2>3. CASE sub.end <= t + Period
    <3>1. t % Period = sub.end % Period
      BY DEF IInv, RowOK
    <3>2. sub.end = t + Period
      BY Zenon, <1>0, <2>1, <2>3, <3>1, ModNext
    <3>3. QED
      BY <1>0, <1>7, <2>1, <3>2
  <2>4. QED
    BY <1>0, <2>1, <2>2, <2>3
<1>15. IInv'
  BY <1>6, <1>8, <1>12, <1>13, <1>14 DEF IInv
<1>16. QED
  BY <1>2, <1>6, <1>15 DEF StepOK

\* A charge changes the attempts and the balance of one invoice.
LEMMA ChargedInvoice ==
  ASSUME NEW old \in InvoiceRows, NEW inv \in ChargeOutcomes(old), NEW keyed \in BOOLEAN
  PROVE  /\ inv \in InvoiceRows /\ inv.start = old.start
         /\ [inv EXCEPT !.keyed = keyed] \in InvoiceRows
         /\ [inv EXCEPT !.keyed = keyed].start = old.start
<1>1. inv \in InvoiceRows /\ inv.start = old.start
  <2>1. CASE inv = old
    BY <2>1 DEF InvoiceRows
  <2>2. ASSUME NEW k \in 1..Providers, NEW open \in BOOLEAN,
               inv = Charged(old, k, open)
        PROVE  inv \in InvoiceRows /\ inv.start = old.start
    <3>1. Providers \in Nat /\ Len(RetrySchedule) \in Nat /\ old.tries \in 0..Len(RetrySchedule)
      BY SubscriptionsAssumption DEF InvoiceRows
    <3>2. Tried(old.tries, k) \in 0..Len(RetrySchedule)
      BY <3>1 DEF Tried
    <3>3. QED
      BY Zenon, <2>2, <3>2 DEF Charged, InvoiceRows
  <2>3. \/ inv = old
        \/ \E k \in 1..Providers, open \in BOOLEAN : inv = Charged(old, k, open)
    BY DEF ChargeOutcomes
  <2>4. QED
    BY <2>1, <2>2, <2>3
<1>2. QED
  BY <1>1 DEF InvoiceRows

LEMMA RenewalChargeKept ==
  ASSUME IInv, NEW j \in Jobs, RenewalCharge(j)
  PROVE  IInv' /\ StepOK
<1> DEFINE i == job[j].inv
<1>1. i \in DOMAIN invoices /\ invoices \in Seq(InvoiceRows) /\ Grown(invoices, invoices)
  BY GrownSelf DEF IInv, Typed, JobsOK, JobOK, RenewalCharge
<1>2. invoices' \in Seq(InvoiceRows) /\ Grown(invoices, invoices')
  <2>1. ASSUME NEW inv \in ChargeOutcomes(invoices[i]),
               invoices' = [invoices EXCEPT ![i] = [inv EXCEPT !.keyed = inv # invoices[i]]]
        PROVE  invoices' \in Seq(InvoiceRows) /\ Grown(invoices, invoices')
    <3>1. invoices[i] \in InvoiceRows
      BY <1>1, InvoiceTyped
    <3>2. PICK keyed \in BOOLEAN : keyed = (inv # invoices[i])
      BY Zenon
    <3>3. /\ [inv EXCEPT !.keyed = keyed] \in InvoiceRows
          /\ [inv EXCEPT !.keyed = keyed].start = invoices[i].start
      BY <3>1, ChargedInvoice
    <3>4. invoices' = [invoices EXCEPT ![i] = [inv EXCEPT !.keyed = keyed]]
      BY <2>1, <3>2
    <3>5. QED
      BY Zenon, <1>1, <3>3, <3>4, UpdateGrown
  <2>2. CASE invoices' = invoices
    BY <1>1, <2>2
  <2>3. QED
    BY Zenon, <2>1, <2>2 DEF RenewalCharge
<1>3. Done(j) /\ UNCHANGED <<now, sub, raising, recovering, pastDueAt>>
  BY DEF RenewalCharge
<1>4. QED
  BY <1>2, <1>3, DoneKept

LEMMA RenewalStepKept ==
  ASSUME IInv, NEW j \in Jobs, RenewalStep(j)
  PROVE  IInv' /\ StepOK
<1>1. CASE Reread(j)
  <2>1. PICK pc \in {"decide", "invoice"} :
          job' = [job EXCEPT ![j] = [job[j] EXCEPT !.snap = sub, !.fresh = TRUE, !.pc = pc]]
    BY Zenon, <1>1 DEF Reread
  <2>2. pc \in Labels \ {"advance", "charge", "retry", "escalate"}
    BY DEF Labels
  <2>3. UNCHANGED <<now, sub, invoices, raising, recovering, pastDueAt>>
    BY <1>1 DEF Reread
  <2>4. QED
    BY Zenon, <2>1, <2>2, <2>3, RereadKept
<1>2. QED
  BY <1>1, RenewalBeginKept, RenewalConvertKept, RenewalDecideKept, RenewalEndKept,
     RenewalPlanKept, RenewalInvoiceKept, RenewalAdvanceKept, RenewalChargeKept
     DEF RenewalStep

-----------------------------------------------------------------------------
(* The dunning task.                                                          *)

LEMMA DunningBeginKept ==
  ASSUME IInv, NEW i \in DOMAIN invoices, DunningBegin(i)
  PROVE  IInv' /\ StepOK
<1> DEFINE run == [pc |-> "retry", at |-> now, snap |-> NoRow, fresh |-> FALSE, inv |-> i]
<1>0. /\ invoices \in Seq(InvoiceRows) /\ Grown(invoices, invoices) /\ recovering \in BOOLEAN
      /\ Dunning \in Jobs
  BY GrownSelf DEF IInv, Typed, Jobs
<1>1. run \in JobRows
  BY <1>0, Fields, RunIdle DEF JobRows, Labels
<1>2. JobOK(run, sub, invoices, now)
  BY Fields DEF JobOK
<1>3. /\ job' = [job EXCEPT ![Dunning] = run]
      /\ UNCHANGED <<now, sub, invoices, raising, recovering, pastDueAt>>
  BY DEF DunningBegin
<1> HIDE DEF run
<1>4. QED
  BY Zenon, <1>0, <1>1, <1>2, <1>3, MoveKept

LEMMA DunningRetryKept ==
  ASSUME IInv, DunningRetry
  PROVE  IInv' /\ StepOK
<1> DEFINE i == job[Dunning].inv
<1>0. Dunning \in Jobs /\ "escalate" \in Labels
  BY DEF Jobs, Labels
<1>1. i \in DOMAIN invoices /\ invoices \in Seq(InvoiceRows) /\ Grown(invoices, invoices)
  BY <1>0, GrownSelf DEF IInv, Typed, JobsOK, JobOK, DunningRetry
<1>2. invoices' \in Seq(InvoiceRows) /\ Grown(invoices, invoices')
  <2>1. ASSUME NEW inv \in ChargeOutcomes(invoices[i]),
               invoices' = [invoices EXCEPT ![i] = inv]
        PROVE  invoices' \in Seq(InvoiceRows) /\ Grown(invoices, invoices')
    <3>1. invoices[i] \in InvoiceRows
      BY <1>1, InvoiceTyped
    <3>2. inv \in InvoiceRows /\ inv.start = invoices[i].start
      BY Zenon, <3>1, ChargedInvoice
    <3>3. QED
      BY Zenon, <1>1, <2>1, <3>2, UpdateGrown
  <2>2. CASE invoices' = invoices
    BY <1>1, <2>2
  <2>3. QED
    BY <2>1, <2>2 DEF DunningRetry
<1>3. i \in DOMAIN invoices'
  BY <1>1, <1>2 DEF Grown
<1>4. UNCHANGED <<now, sub, raising, recovering, pastDueAt>>
  BY DEF DunningRetry
<1>5. CASE Done(Dunning)
  BY <1>0, <1>2, <1>4, <1>5, DoneKept
<1>6. CASE Step(Dunning, "escalate")
  BY <1>0, <1>2, <1>3, <1>4, <1>6, StepKept
<1>7. QED
  BY <1>5, <1>6 DEF DunningRetry

\* The dunning pass applies payment_failed to an active subscription, in
\* escalate and again in StartGrace.
LEMMA PaymentFailedKept ==
  ASSUME IInv, NEW row \in Rows, Same(row, sub), row.state = "active",
         Write(Transition(row, "payment_failed")),
         NEW pc \in Labels \ {"advance", "charge", "retry", "escalate"},
         Advance(Dunning, pc), UNCHANGED <<now, invoices, raising, recovering>>
  PROVE  IInv' /\ StepOK
<1> DEFINE next == Transition(row, "payment_failed")
<1>1. /\ next \in Rows /\ next.state = "past_due" /\ next.end = sub.end
      /\ next.plan = sub.plan /\ next.atEnd = sub.atEnd
      /\ next.ended = (row.ended \/ next.state = "expired")
  BY Edges, TransitionFields DEF SubscriptionStates
<1>2. sub' = next /\ Write(next)
  BY DEF Write
<1> HIDE DEF next
<1>3. sub.state = "active" /\ row.ended = sub.ended
  BY DEF Same
<1>4. RowOK(next)
  BY Zenon, <1>1, <1>3 DEF IInv, RowOK
<1>5. Dunning \in Jobs
  BY DEF Jobs
<1>6. IInv'
  BY <1>1, <1>2, <1>4, <1>5, AdvanceKept
<1>7. QED
  BY <1>1, <1>2, <1>3, <1>6 DEF StepOK

LEMMA DunningEscalateKept ==
  ASSUME IInv, DunningEscalate
  PROVE  IInv' /\ StepOK
<1>0. /\ Dunning \in Jobs /\ "rereadGrace" \in Labels \ {"advance", "charge", "retry", "escalate"}
      /\ invoices \in Seq(InvoiceRows) /\ Grown(invoices, invoices)
      /\ UNCHANGED <<now, invoices, raising, recovering>>
  BY GrownSelf DEF Jobs, Labels, IInv, Typed, DunningEscalate
<1>1. CASE /\ sub.state = "active"
           /\ Write(Transition(sub, "payment_failed"))
           /\ Advance(Dunning, "rereadGrace")
  <2>1. sub \in Rows /\ Same(sub, sub)
    BY Fields DEF Same
  <2>2. QED
    BY <1>0, <1>1, <2>1, PaymentFailedKept
<1>2. CASE /\ sub.state = "past_due"
           /\ WriteAndDone(Dunning, Transition(sub, "grace_expired"))
  <2> DEFINE next == Transition(sub, "grace_expired")
  <2>1. next \in Rows /\ next.state = "expired" /\ next.end = sub.end /\ next.plan = sub.plan
    BY <1>2, Edges, Fields, TransitionFields DEF SubscriptionStates
  <2>2. sub' = next /\ WriteAndDone(Dunning, next)
    BY <1>2 DEF WriteAndDone, Write
  <2> HIDE DEF next
  <2>3. RowOK(next)
    BY <2>1 DEF IInv, RowOK
  <2>4. IInv'
    BY <1>0, <2>1, <2>2, <2>3, WriteAndDoneKept
  <2>5. QED
    BY <1>2, <2>1, <2>2, <2>4 DEF StepOK
<1>3. CASE Done(Dunning) /\ UNCHANGED <<sub, pastDueAt>>
  BY <1>0, <1>3, DoneKept
<1>4. QED
  BY <1>1, <1>2, <1>3 DEF DunningEscalate

LEMMA DunningGraceKept ==
  ASSUME IInv, DunningGrace
  PROVE  IInv' /\ StepOK
<1>0. /\ Dunning \in Jobs /\ "graceEnd" \in Labels \ {"advance", "charge", "retry", "escalate"}
      /\ invoices \in Seq(InvoiceRows) /\ Grown(invoices, invoices)
      /\ UNCHANGED <<now, invoices, raising, recovering>>
  BY GrownSelf DEF Jobs, Labels, IInv, Typed, DunningGrace
<1>1. CASE LegalEvent(job[Dunning].snap.state, "payment_failed") /\ job[Dunning].fresh
  <2>1. job[Dunning].snap \in Rows /\ job[Dunning].snap.state \in SubscriptionStates
    BY <1>0, Fields DEF Rows
  <2>2. job[Dunning].snap.state = "active" /\ Same(job[Dunning].snap, sub)
    BY <1>0, <1>1, <2>1, Legal, FreshRow
  <2>3. /\ Write(Transition(job[Dunning].snap, "payment_failed"))
        /\ Advance(Dunning, "graceEnd")
    BY <1>1 DEF DunningGrace
  <2>4. QED
    BY <1>0, <2>1, <2>2, <2>3, PaymentFailedKept
<1>2. CASE Done(Dunning) /\ UNCHANGED <<sub, pastDueAt>>
  BY <1>0, <1>2, DoneKept
<1>3. QED
  BY <1>1, <1>2 DEF DunningGrace

\* The grace period is written without the version, and the rows in hand stay
\* fresh: they are the stored row but for it.
LEMMA DunningGraceEndKept ==
  ASSUME IInv, DunningGraceEnd
  PROVE  IInv' /\ StepOK
<1> DEFINE row == [sub EXCEPT !.grace = now + GraceDays]
<1>0. Dunning \in Jobs /\ now + GraceDays \in Nat /\ sub \in Rows /\ Idle \in JobRows
  BY SubscriptionsAssumption, Fields, RunIdle DEF Jobs
<1>1. row \in Rows
  BY <1>0 DEF Rows
<1>2. /\ row.state = sub.state /\ row.end = sub.end /\ row.plan = sub.plan
      /\ row.atEnd = sub.atEnd /\ row.ended = sub.ended /\ row.pending = sub.pending
  BY <1>0 DEF Rows
<1>3. /\ sub' = row /\ job' = [job EXCEPT ![Dunning] = Idle]
      /\ UNCHANGED <<now, invoices, raising, recovering, pastDueAt>>
  BY DEF DunningGraceEnd, Done
<1> HIDE DEF row
<1>4. RowOK(row) /\ Same(sub, row)
  BY <1>2 DEF IInv, RowOK, Same
<1>5. Typed'
  BY <1>0, <1>1, <1>3 DEF IInv, Typed
<1>6. JobsOK'
  <2>1. \A j \in Jobs : JobOK(job[j], row, invoices, now)
    BY <1>4, Fields, GrownSelf, RunsKept
  <2>2. JobOK(Idle, row, invoices, now)
    BY Fields, RunIdle
  <2>3. \A j \in Jobs : job'[j] = IF j = Dunning THEN Idle ELSE job[j]
    BY <1>3 DEF IInv, Typed
  <2>4. QED
    BY <1>3, <2>1, <2>2, <2>3 DEF JobsOK
<1>7. IInv'
  BY <1>2, <1>3, <1>4, <1>5, <1>6, GrownSelf, PartsKept
<1>8. QED
  BY <1>2, <1>3, <1>7 DEF StepOK

LEMMA DunningStepKept ==
  ASSUME IInv, DunningStep
  PROVE  IInv' /\ StepOK
<1>1. CASE DunningReread
  <2>1. /\ job' = [job EXCEPT ![Dunning] =
                     [job[Dunning] EXCEPT !.snap = sub, !.fresh = TRUE, !.pc = "grace"]]
        /\ UNCHANGED <<now, sub, invoices, raising, recovering, pastDueAt>>
    BY <1>1 DEF DunningReread
  <2>2. "grace" \in Labels \ {"advance", "charge", "retry", "escalate"} /\ Dunning \in Jobs
    BY DEF Labels, Jobs
  <2>3. QED
    BY Zenon, <2>1, <2>2, RereadKept
<1>2. QED
  BY <1>1, DunningBeginKept, DunningRetryKept, DunningEscalateKept, DunningGraceKept,
     DunningGraceEndKept DEF DunningStep

-----------------------------------------------------------------------------
LEMMA NextKept ==
  ASSUME IInv, [Next]_vars
  PROVE  IInv' /\ (StepOK \/ UNCHANGED vars)
<1>0. /\ invoices \in Seq(InvoiceRows) /\ Grown(invoices, invoices)
      /\ raising \in BOOLEAN /\ recovering \in BOOLEAN /\ Renewers \subseteq Jobs
  BY GrownSelf DEF IInv, Typed, Jobs
<1>1. ASSUME NEW j \in Jobs, JobFail(j)
      PROVE  IInv' /\ StepOK
  BY <1>0, <1>1, DoneKept DEF JobFail
<1>2. CASE Tick
  <2>1. now' \in 1..MaxDay /\ now <= now'
    BY <1>2, Fields DEF Tick
  <2>2. QED
    BY <1>0, <1>2, <2>1, InvoicesKept DEF Tick
<1>3. CASE UNCHANGED vars
  <2>1. IInv'
    BY <1>3 DEF vars, IInv, Typed, JobsOK, EveryPeriodInvoiced
  <2>2. QED
    BY <1>3, <2>1
<1>4. QED
  BY <1>0, <1>1, <1>2, <1>3, TenantStepKept, WebhookStepKept, RenewalStepKept,
     DunningStepKept DEF Next

LEMMA InitKept == Init => IInv
<1> SUFFICES ASSUME Init PROVE IInv
  OBVIOUS
<1>1. PICK start \in {<<"trialing", "pro">>, <<"active", "free">>,
                      <<"pending_activation", "pro">>} :
        sub = [state |-> start[1], plan |-> start[2], end |-> 1 + Period, grace |-> 0,
               ended |-> FALSE, atEnd |-> FALSE, pending |-> "none"]
  BY Zenon DEF Init
<1>2. sub \in Rows /\ ~sub.atEnd /\ ~sub.ended /\ sub.end = 1 + Period
  BY <1>1, SubscriptionsAssumption DEF Rows, SubscriptionStates
<1>3. Typed
  <2>1. MaxDay \in Nat \ {0} /\ Idle \in JobRows
    BY RunIdle, SubscriptionsAssumption
  <2>2. now \in 1..MaxDay /\ pastDueAt \in 0..MaxDay
    BY <2>1 DEF Init
  <2>3. job \in [Jobs -> JobRows] /\ invoices \in Seq(InvoiceRows)
    BY <2>1 DEF Init
  <2>4. QED
    BY Zenon, <1>2, <2>2, <2>3 DEF Init, Typed
<1>4. RowOK(sub)
  <2>1. (1 + Period) % Period = 1 % Period
    BY Zenon, ModStep, SubscriptionsAssumption
  <2>2. QED
    BY <1>2, <2>1 DEF RowOK
<1>5. JobsOK
  BY RunIdle DEF Init, JobsOK
<1>6. EveryPeriodInvoiced
  BY <1>2, SubscriptionsAssumption DEF EveryPeriodInvoiced
<1>7. QED
  BY <1>3, <1>4, <1>5, <1>6 DEF IInv

\* The invariant, and what each step does to the row.
LEMMA Inductive == Spec => []IInv /\ [][StepOK]_vars
<1>1. IInv /\ [Next]_vars => IInv' /\ [StepOK]_vars
  <2> SUFFICES ASSUME IInv, [Next]_vars PROVE IInv' /\ (StepOK \/ UNCHANGED vars)
    OBVIOUS
  <2>1. QED
    BY NextKept
<1>2. QED
  BY InitKept, <1>1, PTL DEF Spec

\* The row and what the tasks have in hand stay well-formed: only a cancelled
\* subscription waits for the end of its period, only one that is over has an
\* end date, and no more attempts are counted than the retry schedule has days.
THEOREM TypeCorrect == Spec => []TypeOK
<1>1. IInv => TypeOK
  <2> SUFFICES ASSUME IInv PROVE TypeOK
    OBVIOUS
  <2>1. \A i \in DOMAIN invoices : invoices[i].tries \in 0..Len(RetrySchedule)
    <3>1. ASSUME NEW i \in DOMAIN invoices PROVE invoices[i] \in InvoiceRows
      BY InvoiceTyped DEF IInv, Typed
    <3>2. QED
      BY <3>1 DEF InvoiceRows
  <2>2. \A j \in Jobs : job[j].pc \in Labels /\ job[j].snap \in Rows
    BY Fields DEF JobRows
  <2>3. QED
    BY <2>1, <2>2 DEF IInv, Typed, RowOK, TypeOK
<1>2. QED
  BY Inductive, <1>1, PTL

\* No period is given away, however many nodes run the renewal task and wherever
\* a run of it fails: renewOne raises the invoice before AdvanceRenewal, and
\* AdvanceRenewal only stores over the row the invoice was raised for.
THEOREM PeriodsInvoiced == Spec => []EveryPeriodInvoiced
<1>1. IInv => EveryPeriodInvoiced
  BY DEF IInv
<1>2. QED
  BY Inductive, <1>1, PTL

\* A subscription that expired stays expired, whatever row a renewal, the
\* dunning pass or a webhook still has in hand (the version in Transition).
THEOREM ExpiredStays == Spec => ExpiredIsFinal
<1>1. [StepOK]_vars => [sub.state = "expired" => sub'.state = "expired"]_vars
  BY DEF StepOK
<1>2. QED
  BY Inductive, <1>1, PTL DEF ExpiredIsFinal

\* A downgrade takes effect at the period boundary and not before, also when
\* several nodes renew at once (ApplyPendingPlan).
THEOREM DowngradeWaits == Spec => PaidPlanKept
<1>1. [StepOK]_vars => [sub.plan = "pro" /\ sub'.plan = "free" => sub.end <= now]_vars
  BY DEF StepOK
<1>2. QED
  BY Inductive, <1>1, PTL DEF PaidPlanKept

\* A cancellation at the end of the period never takes effect before it
\* (renewOne checks the boundary of the row it read).
THEOREM CancellationWaits == Spec => AccessUntilPeriodEnd
<1>1. [StepOK]_vars
        => [sub.state = "cancelled" /\ sub.atEnd /\ sub'.state = "expired"
              => sub.end <= now]_vars
  BY DEF StepOK
<1>2. QED
  BY Inductive, <1>1, PTL DEF AccessUntilPeriodEnd

==============================================================================
