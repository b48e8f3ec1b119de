-------------------------------- MODULE Notify --------------------------------
(***************************************************************************)
(* Notifications on their way out (src/notify): a dispatch claims its      *)
(* deduplication key, queues a delivery for each recipient and tries it    *)
(* once; the retry task tries again what is due.  Whether the channel is   *)
(* in service is decided elsewhere (NotifyChannel).                        *)
(*                                                                         *)
(* Nothing reserves a delivery for the one who tries it, and the outcome   *)
(* is written whatever the row has become.                                 *)
(***************************************************************************)
EXTENDS Naturals, Sequences

CONSTANTS
  Deliveries,      \* identifiers NewID can return
  Events,          \* events of the catalog
  SuppressedBy,    \* the events that make another one superfluous
  NoEvent,
  Workers,         \* dispatches and runs of the retry task
  Window,          \* how long a claim is held
  Backoff,         \* WebhookRetryBackoff
  Batch,           \* retryBatch
  MaxNow           \* the clock stops here

VARIABLES
  now,       \* the clock
  claim,     \* notification_dedup: what is left of the claim on each key
  delivery,  \* notification_deliveries
  job,       \* what a worker is about to do, and for which deliveries
  tries,     \* attempts that came to an end, up to the budget (history)
  fate       \* what became of the message at the other end (history)

vars == <<now, claim, delivery, job, tries, fate>>

Keys == {"dedup", "marker"} \X Events
Idle == [at |-> "idle", event |-> NoEvent, due |-> <<>>]
NoDelivery == [status |-> "none", attempt |-> 0, next |-> 0, payload |-> FALSE]

Init ==
  /\ now = 1
  /\ claim = [k \in Keys |-> 0]
  /\ delivery = [d \in Deliveries |-> NoDelivery]
  /\ job = [w \in Workers |-> Idle]
  /\ tries = [d \in Deliveries |-> 0]
  /\ fate = [d \in Deliveries |-> {}]

-----------------------------------------------------------------------------
(* Dispatch.                                                                *)

\* An expired row is as good as none, which PruneDedup makes of it.
DedupHeld(k) == claim[k] > 0

suppressed(e) == \E other \in SuppressedBy[e] : DedupHeld(<<"marker", other>>)

Goes(w, at) == job' = [job EXCEPT ![w].at = at]

Notify(w, e) ==
  /\ job[w] = Idle
  /\ ~ suppressed(e)
  /\ job' = [job EXCEPT ![w] = [Idle EXCEPT !.at = "claim", !.event = e]]
  /\ UNCHANGED <<now, claim, delivery, tries, fate>>

\* One transaction: an expired claim is deleted, then the key is inserted.
ClaimDedup(k) == claim' = IF DedupHeld(k) THEN claim ELSE [claim EXCEPT ![k] = Window]

Claims(w) ==
  /\ job[w].at = "claim"
  /\ ClaimDedup(<<"dedup", job[w].event>>)
  /\ IF DedupHeld(<<"dedup", job[w].event>>) THEN job' = [job EXCEPT ![w] = Idle]
     ELSE Goes(w, "mark")
  /\ UNCHANGED <<now, delivery, tries, fate>>

markExecution(w) ==
  /\ job[w].at = "mark"
  /\ ClaimDedup(<<"marker", job[w].event>>)
  /\ Goes(w, "queue")
  /\ UNCHANGED <<now, delivery, tries, fate>>

Enqueue(d) ==
  delivery' = [delivery EXCEPT ![d] = [status |-> "pending", attempt |-> 0,
                                       next |-> now, payload |-> TRUE]]

\* For one recipient and channel; deliverTo and fanOutWebhooks come back here.
queueAndSend(w, d) ==
  /\ job[w].at = "queue"
  /\ delivery[d].status = "none"
  /\ Enqueue(d)
  /\ job' = [job EXCEPT ![w].at = "attempt",
                        ![w].due = <<[id |-> d, attempt |-> 0, payload |-> TRUE]>>]
  /\ UNCHANGED <<now, claim, tries, fate>>

\* The last recipient, or an error before the first.
Returns(w) ==
  /\ job[w].at \in {"claim", "mark", "queue"}
  /\ job' = [job EXCEPT ![w] = Idle]
  /\ UNCHANGED <<now, claim, delivery, tries, fate>>

-----------------------------------------------------------------------------
(* One attempt, and the task that makes the later ones.                     *)

Due == {d \in Deliveries : delivery[d].status = "pending" /\ delivery[d].next <= now}

\* At most Batch rows in the order of their due times; their ids come in any order.
Listed ==
  {s \in UNION {[1..n -> Due] : n \in 1..Batch} :
     /\ \A i, j \in DOMAIN s :
          i < j => s[i] # s[j] /\ delivery[s[i]].next <= delivery[s[j]].next
     /\ \A d \in Due \ {s[i] : i \in DOMAIN s} :
          Len(s) = Batch /\ delivery[s[Len(s)]].next <= delivery[d].next}

Retry(w) ==
  /\ job[w] = Idle
  /\ \E s \in Listed :
       job' = [job EXCEPT ![w].at = "attempt",
                          ![w].due = [i \in DOMAIN s |->
                            [id |-> s[i], attempt |-> delivery[s[i]].attempt,
                             payload |-> delivery[s[i]].payload]]]
  /\ UNCHANGED <<now, claim, delivery, tries, fate>>

Tried(d) == tries' = [tries EXCEPT ![d] = IF @ > Len(Backoff) THEN @ ELSE @ + 1]

\* Deliver up to the network: a payload that cannot be read is closed out, and
\* a channel that is not in service counts as a failed attempt.
Deliver(w) ==
  LET c == Head(job[w].due)
  IN /\ job[w].at = "attempt"
     /\ \/ ~ c.payload /\ Goes(w, "suppress") /\ UNCHANGED tries
        \/ c.payload /\ Goes(w, "sending") /\ UNCHANGED tries
        \/ c.payload /\ Goes(w, "reschedule") /\ Tried(c.id)
     /\ UNCHANGED <<now, claim, delivery, fate>>

\* Send returns.  An error does not say that the message was not accepted.
Sent(w, answer) ==
  LET d == Head(job[w].due).id
  IN /\ job[w].at = "sending"
     /\ \E what \in (IF answer = "unavailable" THEN {{}, {"accepted"}} ELSE {{answer}}) :
          fate' = [fate EXCEPT ![d] = @ \cup what]
     /\ Tried(d)
     /\ Goes(w, CASE answer = "accepted" -> "complete"
                  [] answer = "rejected" -> "suppress"
                  [] answer = "unavailable" -> "reschedule")
     /\ UNCHANGED <<now, claim, delivery>>

Complete(r) == [r EXCEPT !.status = "sent", !.payload = FALSE]
Suppress(r) == [r EXCEPT !.status = "suppressed", !.payload = FALSE]

\* Mutant: the last delay of the table is never used.
RescheduleEarly(r, attempt) ==
  IF attempt < Len(Backoff)
    THEN [r EXCEPT !.status = "pending", !.attempt = attempt, !.next = now + Backoff[attempt]]
    ELSE [r EXCEPT !.status = "failed", !.attempt = attempt, !.next = 0]

\* WebhookRetryDelay says whether there is another attempt, and when.
Reschedule(r, attempt) ==
  IF attempt <= Len(Backoff)
    THEN [r EXCEPT !.status = "pending", !.attempt = attempt, !.next = now + Backoff[attempt]]
    ELSE [r EXCEPT !.status = "failed", !.attempt = attempt, !.next = 0]

\* The outcome is written, or lost with an error that stops nothing.
Records(w) ==
  LET c == Head(job[w].due)
      rest == Tail(job[w].due)
  IN /\ job[w].at \in {"complete", "suppress", "reschedule"}
     /\ \/ delivery' = [delivery EXCEPT ![c.id] =
             CASE job[w].at = "complete" -> Complete(@)
               [] job[w].at = "suppress" -> Suppress(@)
               [] job[w].at = "reschedule" -> Reschedule(@, c.attempt + 1)]
        \/ UNCHANGED delivery
     /\ job' = [job EXCEPT ![w] =
          IF @.event # NoEvent THEN [@ EXCEPT !.at = "queue", !.due = <<>>]
          ELSE IF rest = <<>> THEN Idle
          ELSE [@ EXCEPT !.at = "attempt", !.due = rest]]
     /\ UNCHANGED <<now, claim, tries, fate>>

-----------------------------------------------------------------------------
\* The erasure of the one recipient takes the payloads, queued ones included.
Erase ==
  /\ \E d \in Deliveries : delivery[d].payload
  /\ delivery' = [d \in Deliveries |-> [delivery[d] EXCEPT !.payload = FALSE]]
  /\ fate' = [d \in Deliveries |-> IF delivery[d].payload THEN fate[d] \cup {"erased"}
                                   ELSE fate[d]]
  /\ UNCHANGED <<now, claim, job, tries>>

Restart ==
  /\ job' = [w \in Workers |-> Idle]
  /\ UNCHANGED <<now, claim, delivery, tries, fate>>

Tick ==
  /\ now < MaxNow
  /\ now' = now + 1
  /\ claim' = [k \in Keys |-> IF claim[k] = 0 THEN 0 ELSE claim[k] - 1]
  /\ UNCHANGED <<delivery, job, tries, fate>>

Next ==
  \/ Erase \/ Restart \/ Tick
  \/ \E w \in Workers :
       \/ \E e \in Events : Notify(w, e)
       \/ Claims(w) \/ markExecution(w) \/ Returns(w)
       \/ \E d \in Deliveries : queueAndSend(w, d)
       \/ Retry(w) \/ Deliver(w) \/ Records(w)
       \/ \E answer \in {"accepted", "rejected", "unavailable"} : Sent(w, answer)

Spec == Init /\ [][Next]_vars

-----------------------------------------------------------------------------
(* Properties.                                                              *)

\* "Nothing is ever dropped silently": however attempts on one delivery
\* overlap, the row counts no attempt that was not made, says sent only of a
\* message that was accepted and failed only when the whole table of delays
\* was used, and loses its payload only to an answer or to an erasure.
DeliveryAccounted ==
  \A d \in Deliveries :
    LET r == delivery[d]
    IN /\ r.attempt <= tries[d]
       /\ r.status = "sent" => "accepted" \in fate[d]
       /\ r.status = "failed" => tries[d] > Len(Backoff)
       /\ r.status # "none" /\ ~ r.payload => fate[d] \cap {"accepted", "rejected", "erased"} # {}

(* Statements of the source that TLC refutes; see the README.               *)

\* dispatch.go: Retry "is safe to run concurrently: a delivery already
\* completed by another node is skipped".
SentStaysSent ==
  [][\A d \in Deliveries :
       delivery[d].status = "sent" => delivery'[d].status = "sent"]_vars
===============================================================================
