---------------------------- MODULE NoticeProofs ----------------------------
(***************************************************************************)
(* What a tenant hears, for any number of deliveries and of workers at     *)
(* once: notifications and the channel they leave by (src/notify).         *)
(*                                                                         *)
(* Neither property is inductive. A worker reads a row, and writes it as a *)
(* whole or by columns some statements later, when others may have written *)
(* it: the invariants also say of everything that a worker holds, and is   *)
(* going to write, that it is still true by then.                          *)
(*                                                                         *)
(* The parts share no state; each is declared where it is reasoned about,  *)
(* and the last section puts them side by side.                            *)
(***************************************************************************)
EXTENDS Parts, Naturals, Sequences, FiniteSets, TLAPS

-----------------------------------------------------------------------------
(* Notifications.                                                            *)

CONSTANTS Deliveries, Events, SuppressedBy, NoEvent, Window, Backoff, Batch

VARIABLES notifyNow, claim, delivery, job, tries, fate

N == INSTANCE Notify WITH now <- notifyNow

DeliveryRows == [status : {"none", "pending", "sent", "suppressed", "failed"},
                 attempt : Nat, next : Nat, payload : BOOLEAN]
DueEntries == [id : Deliveries, attempt : Nat, payload : BOOLEAN]
Jobs == [at : {"idle", "claim", "mark", "queue", "attempt", "sending", "complete", "suppress",
               "reschedule"},
         event : Events \cup {NoEvent}, due : Seq(DueEntries)]
Fates == SUBSET {"accepted", "rejected", "erased"}

\* A row says no more than what was tried and answered; what is due has delays left.
RowAccounted(r, t, f) ==
  /\ r.attempt <= t
  /\ r.status = "pending" => r.attempt <= Len(Backoff)
  /\ r.status = "sent" => "accepted" \in f
  /\ r.status = "failed" => t > Len(Backoff)
  /\ r.status # "none" /\ ~r.payload => f # {}

\* An entry was copied from such a row.
EntryAccounted(c, dl, ts, fs) ==
  /\ dl[c.id].status # "none"
  /\ c.attempt <= Len(Backoff) /\ c.attempt <= ts[c.id]
  /\ ~c.payload => fs[c.id] # {}

\* What a worker is about to write is what came out.
JobAccounted(j, dl, ts, fs) ==
  /\ \A i \in 1..Len(j.due) : EntryAccounted(j.due[i], dl, ts, fs)
  /\ j.at \in {"attempt", "sending", "complete", "suppress", "reschedule"} => Len(j.due) > 0
  /\ j.at = "complete" => "accepted" \in fs[j.due[1].id]
  /\ j.at = "suppress" => fs[j.due[1].id] # {}
  /\ j.at = "reschedule" => j.due[1].attempt + 1 <= ts[j.due[1].id]

NotifyInv ==
  /\ notifyNow \in Nat
  /\ delivery \in [Deliveries -> DeliveryRows]
  /\ tries \in [Deliveries -> Nat] /\ fate \in [Deliveries -> Fates]
  /\ job \in [Workers -> Jobs]
  /\ \A d \in Deliveries : RowAccounted(delivery[d], tries[d], fate[d])
  /\ \A w \in Workers : JobAccounted(job[w], delivery, tries, fate)

\* Rows are not forgotten, tries are counted up and answers are kept.
Grown(dl, ts, fs, dl2, ts2, fs2) ==
  \A d \in Deliveries : /\ dl[d].status # "none" => dl2[d].status # "none"
                        /\ ts[d] <= ts2[d] /\ fs[d] \subseteq fs2[d]

LEMMA JobStillAccounted ==
  ASSUME Backoff \in Seq(Nat), NEW j \in Jobs,
         NEW dl \in [Deliveries -> DeliveryRows], NEW dl2 \in [Deliveries -> DeliveryRows],
         NEW ts \in [Deliveries -> Nat], NEW ts2 \in [Deliveries -> Nat],
         NEW fs \in [Deliveries -> Fates], NEW fs2 \in [Deliveries -> Fates],
         Grown(dl, ts, fs, dl2, ts2, fs2), JobAccounted(j, dl, ts, fs)
  PROVE  JobAccounted(j, dl2, ts2, fs2)
<1>1. j.due \in Seq(DueEntries) /\ Len(j.due) \in Nat
  BY DEF Jobs
<1>2. \A i \in 1..Len(j.due) : j.due[i] \in DueEntries
  BY <1>1
<1>3. ASSUME NEW i \in 1..Len(j.due)
      PROVE  /\ j.due[i].id \in Deliveries /\ j.due[i].attempt \in Nat
             /\ dl[j.due[i].id].status # "none" => dl2[j.due[i].id].status # "none"
             /\ ts[j.due[i].id] <= ts2[j.due[i].id] /\ fs[j.due[i].id] \subseteq fs2[j.due[i].id]
             /\ ts[j.due[i].id] \in Nat /\ ts2[j.due[i].id] \in Nat
  BY <1>2 DEF Grown, DueEntries
<1>4. \A i \in 1..Len(j.due) : EntryAccounted(j.due[i], dl2, ts2, fs2)
  <2>1. SUFFICES ASSUME NEW i \in 1..Len(j.due) PROVE EntryAccounted(j.due[i], dl2, ts2, fs2)
    OBVIOUS
  <2>2. EntryAccounted(j.due[i], dl, ts, fs)
    BY DEF JobAccounted
  <2>3. Len(Backoff) \in Nat
    OBVIOUS
  <2>4. QED
    BY <1>3, <2>2, <2>3 DEF EntryAccounted
<1>5. Len(j.due) > 0 => 1 \in 1..Len(j.due)
  BY <1>1
<1>6. QED
  BY <1>3, <1>4, <1>5 DEF JobAccounted

\* One worker moves on; the rows are accounted for.
LEMMA NotifyMoves ==
  ASSUME NotifyInv, Backoff \in Seq(Nat), NEW w \in Workers, NEW j \in Jobs,
         job' = [job EXCEPT ![w] = j], notifyNow' \in Nat,
         delivery' \in [Deliveries -> DeliveryRows],
         tries' \in [Deliveries -> Nat], fate' \in [Deliveries -> Fates],
         Grown(delivery, tries, fate, delivery', tries', fate'),
         \A d \in Deliveries : RowAccounted(delivery'[d], tries'[d], fate'[d]),
         JobAccounted(j, delivery', tries', fate')
  PROVE  NotifyInv'
<1>1. job' \in [Workers -> Jobs]
  BY DEF NotifyInv
<1>2. ASSUME NEW v \in Workers, v # w PROVE JobAccounted(job'[v], delivery', tries', fate')
  <2>1. job'[v] = job[v] /\ job[v] \in Jobs /\ JobAccounted(job[v], delivery, tries, fate)
    BY <1>2 DEF NotifyInv
  <2>2. PICK dl, ts, fs, dl2, ts2, fs2 :
          /\ dl = delivery /\ ts = tries /\ fs = fate
          /\ dl2 = delivery' /\ ts2 = tries' /\ fs2 = fate'
    OBVIOUS
  <2>3. JobAccounted(job[v], dl2, ts2, fs2)
    <3>1. /\ dl \in [Deliveries -> DeliveryRows] /\ ts \in [Deliveries -> Nat]
          /\ fs \in [Deliveries -> Fates]
      BY <2>2 DEF NotifyInv
    <3>2. /\ dl2 \in [Deliveries -> DeliveryRows] /\ ts2 \in [Deliveries -> Nat]
          /\ fs2 \in [Deliveries -> Fates]
      BY <2>2
    <3>3. Grown(dl, ts, fs, dl2, ts2, fs2) /\ JobAccounted(job[v], dl, ts, fs)
      BY <2>1, <2>2
    <3>4. QED
      BY Zenon, <2>1, <3>1, <3>2, <3>3, JobStillAccounted
  <2>4. QED
    BY <2>1, <2>2, <2>3
<1>3. job'[w] = j
  BY DEF NotifyInv
<1>4. \A v \in Workers : JobAccounted(job'[v], delivery', tries', fate')
  BY <1>2, <1>3
<1>5. QED
  BY <1>1, <1>4 DEF NotifyInv

\* A worker that waits for nothing.
LEMMA IdleAccounted ==
  /\ N!Idle \in Jobs /\ N!Idle.due = <<>> /\ N!Idle.at = "idle"
  /\ \A dl, ts, fs : JobAccounted(N!Idle, dl, ts, fs)
<1>1. N!Idle \in Jobs /\ N!Idle.due = <<>> /\ N!Idle.at = "idle"
  BY DEF N!Idle, Jobs
<1>2. QED
  BY <1>1 DEF JobAccounted

\* What holds of a job and of the entry it works on.
LEMMA HeadAccounted ==
  ASSUME NotifyInv, NEW w \in Workers,
         job[w].at \in {"attempt", "sending", "complete", "suppress", "reschedule"}
  PROVE  /\ job[w] \in Jobs /\ JobAccounted(job[w], delivery, tries, fate)
         /\ job[w].due \in Seq(DueEntries) /\ Len(job[w].due) > 0 /\ job[w].due # <<>>
         /\ Head(job[w].due) = job[w].due[1] /\ job[w].due[1] \in DueEntries
         /\ EntryAccounted(job[w].due[1], delivery, tries, fate)
<1>1. job[w] \in Jobs /\ JobAccounted(job[w], delivery, tries, fate)
  BY DEF NotifyInv
<1>2. job[w].due \in Seq(DueEntries) /\ Len(job[w].due) > 0
  BY <1>1 DEF Jobs, JobAccounted
<1>3. 1 \in 1..Len(job[w].due)
  BY <1>2
<1>4. QED
  BY <1>1, <1>2, <1>3 DEF JobAccounted

\* Nothing but the place of the job changes, and it is not at an entry.
LEMMA PlaceKept ==
  ASSUME NotifyInv, Backoff \in Seq(Nat), NEW w \in Workers, NEW j \in Jobs,
         job' = [job EXCEPT ![w] = j],
         j.due \in {job[w].due, <<>>}, j.at \in {"idle", "claim", "mark", "queue"},
         UNCHANGED <<notifyNow, delivery, tries, fate>>
  PROVE  NotifyInv'
<1>1. JobAccounted(j, delivery, tries, fate)
  BY DEF NotifyInv, JobAccounted
<1>2. Grown(delivery, tries, fate, delivery, tries, fate)
  BY DEF Grown, NotifyInv
<1>3. QED
  BY <1>1, <1>2, NotifyMoves DEF NotifyInv

\* The steps of a dispatch up to its deliveries.
LEMMA DispatchKept ==
  ASSUME NotifyInv, Backoff \in Seq(Nat), NEW w \in Workers,
         \/ \E e \in Events : N!Notify(w, e)
         \/ N!Claims(w) \/ N!markExecution(w) \/ N!Returns(w)
  PROVE  NotifyInv'
<1>1. job[w] \in Jobs
  BY DEF NotifyInv
<1>2. UNCHANGED <<notifyNow, delivery, tries, fate>>
  BY Zenon DEF N!Notify, N!Claims, N!markExecution, N!Returns
<1>3. ASSUME NEW e \in Events, N!Notify(w, e) PROVE NotifyInv'
  <2>1. PICK idle \in Jobs : idle = N!Idle /\ idle.due = <<>>
    BY IdleAccounted
  <2>2. PICK j : j = [idle EXCEPT !.at = "claim", !.event = e]
    OBVIOUS
  <2>3. j \in Jobs /\ j.due = <<>> /\ j.at = "claim"
    BY Zenon, <2>1, <2>2 DEF Jobs
  <2>4. job' = [job EXCEPT ![w] = j]
    BY Zenon, <1>3, <2>1, <2>2 DEF N!Notify
  <2>5. QED
    BY Zenon, <1>2, <2>3, <2>4, PlaceKept
<1>4. ASSUME NEW at \in {"mark", "queue"}, N!Goes(w, at) PROVE NotifyInv'
  <2>1. PICK j : j = [job[w] EXCEPT !.at = at]
    BY Zenon
  <2>2. j \in Jobs /\ j.due = job[w].due /\ j.at = at
    BY <1>1, <2>1 DEF Jobs
  <2>3. job' = [job EXCEPT ![w] = j]
    BY <1>4, <2>1 DEF N!Goes
  <2>4. QED
    BY Zenon, <1>2, <2>2, <2>3, PlaceKept
<1>5. ASSUME job' = [job EXCEPT ![w] = N!Idle] PROVE NotifyInv'
  BY Zenon, <1>2, <1>5, PlaceKept, IdleAccounted
<1>6. QED
  BY <1>3, <1>4, <1>5 DEF N!Claims, N!markExecution, N!Returns

\* A delivery is queued.
LEMMA QueueKept ==
  ASSUME NotifyInv, Backoff \in Seq(Nat), NEW w \in Workers, NEW d \in Deliveries,
         N!queueAndSend(w, d)
  PROVE  NotifyInv'
<1>1. PICK r : r = [status |-> "pending", attempt |-> 0, next |-> notifyNow, payload |-> TRUE]
  BY Zenon
<1>2. r \in DeliveryRows /\ r.status = "pending" /\ r.attempt = 0 /\ r.payload
  BY <1>1 DEF DeliveryRows, NotifyInv
<1>3. delivery' = [delivery EXCEPT ![d] = r] /\ UNCHANGED <<notifyNow, tries, fate>>
  BY <1>1 DEF N!queueAndSend, N!Enqueue
<1>4. delivery' \in [Deliveries -> DeliveryRows]
  BY <1>2, <1>3 DEF NotifyInv
<1>5. Grown(delivery, tries, fate, delivery', tries', fate')
  BY <1>2, <1>3 DEF Grown, NotifyInv
<1>6. \A x \in Deliveries : RowAccounted(delivery'[x], tries'[x], fate'[x])
  <2>1. tries[d] \in Nat /\ Len(Backoff) \in Nat
    BY DEF NotifyInv
  <2>2. RowAccounted(r, tries[d], fate[d])
    BY <1>2, <2>1 DEF RowAccounted
  <2>3. QED
    BY <1>3, <2>2 DEF NotifyInv
<1>7. PICK c : c = [id |-> d, attempt |-> 0, payload |-> TRUE]
  BY Zenon
<1>8. c \in DueEntries /\ EntryAccounted(c, delivery', tries', fate')
  <2>1. tries[d] \in Nat /\ Len(Backoff) \in Nat
    BY DEF NotifyInv
  <2>2. delivery'[d] = r
    BY <1>3 DEF NotifyInv
  <2>3. QED
    BY <1>2, <1>3, <1>7, <2>1, <2>2 DEF EntryAccounted, DueEntries
<1>9. PICK j : j = [job[w] EXCEPT !.at = "attempt", !.due = <<c>>]
  OBVIOUS
<1>10. job' = [job EXCEPT ![w] = j]
  BY Zenon, <1>7, <1>9 DEF N!queueAndSend, NotifyInv
<1>11. j \in Jobs /\ j.at = "attempt" /\ j.due = <<c>>
  <2>1. <<c>> \in Seq(DueEntries)
    BY <1>8
  <2>2. PICK old \in Jobs : old = job[w]
    BY DEF NotifyInv
  <2>3. PICK q \in Seq(DueEntries) : q = <<c>>
    BY Zenon, <2>1
  <2>4. j = [old EXCEPT !.at = "attempt", !.due = q]
    BY <1>9, <2>2, <2>3
  <2>5. j \in Jobs /\ j.at = "attempt" /\ j.due = q
    BY Zenon, <2>4 DEF Jobs
  <2>6. QED
    BY <2>3, <2>5
<1>12. JobAccounted(j, delivery', tries', fate')
  BY <1>8, <1>11 DEF JobAccounted
<1>13. QED
  BY Zenon, <1>3, <1>4, <1>5, <1>6, <1>10, <1>11, <1>12, NotifyMoves DEF NotifyInv

\* The retry task copies what is due.
LEMMA RetryKept ==
  ASSUME NotifyInv, Backoff \in Seq(Nat), Batch \in Nat, NEW w \in Workers, N!Retry(w)
  PROVE  NotifyInv'
<1>1. PICK s \in N!Listed :
        job' = [job EXCEPT ![w].at = "attempt",
                           ![w].due = [i \in DOMAIN s |->
                             [id |-> s[i], attempt |-> delivery[s[i]].attempt,
                              payload |-> delivery[s[i]].payload]]]
  BY Zenon DEF N!Retry
<1>2. PICK n \in 1..Batch : s \in [1..n -> N!Due]
  BY DEF N!Listed
<1>n. n \in Nat /\ n > 0 /\ DOMAIN s = 1..n
  BY <1>2
<1>3. UNCHANGED <<notifyNow, delivery, tries, fate>>
  BY DEF N!Retry
<1>4. PICK due : due = [i \in 1..n |-> [id |-> s[i], attempt |-> delivery[s[i]].attempt,
                                        payload |-> delivery[s[i]].payload]]
  BY Zenon
<1>5. PICK j : j = [job[w] EXCEPT !.at = "attempt", !.due = due]
  OBVIOUS
<1>6. job' = [job EXCEPT ![w] = j]
  BY Zenon, <1>n, <1>1, <1>4, <1>5 DEF NotifyInv
<1>7. ASSUME NEW i \in 1..n
      PROVE  due[i] \in DueEntries /\ EntryAccounted(due[i], delivery, tries, fate)
  <2>1. PICK d \in Deliveries : d = s[i] /\ delivery[d].status = "pending"
    BY <1>2 DEF N!Due
  <2>2. delivery[d] \in DeliveryRows /\ RowAccounted(delivery[d], tries[d], fate[d])
    BY DEF NotifyInv
  <2>3. due[i] = [id |-> d, attempt |-> delivery[d].attempt, payload |-> delivery[d].payload]
    BY <1>4, <2>1
  <2>4. QED
    BY <2>1, <2>2, <2>3 DEF DueEntries, DeliveryRows, EntryAccounted, RowAccounted
<1>8. due \in Seq(DueEntries) /\ Len(due) = n
  BY <1>n, <1>4, <1>7
<1>9. j \in Jobs /\ j.at = "attempt" /\ j.due = due
  BY Zenon, <1>5, <1>8 DEF NotifyInv, Jobs
<1>10. JobAccounted(j, delivery, tries, fate)
  BY <1>n, <1>7, <1>8, <1>9 DEF JobAccounted
<1>11. Grown(delivery, tries, fate, delivery, tries, fate)
  BY DEF Grown, NotifyInv
<1>12. QED
  BY <1>3, <1>6, <1>9, <1>10, <1>11, NotifyMoves DEF NotifyInv

\* What an attempt does to the count of attempts.
LEMMA TriedCounts ==
  ASSUME NotifyInv, Backoff \in Seq(Nat), NEW d \in Deliveries, N!Tried(d)
  PROVE  /\ tries' \in [Deliveries -> Nat] /\ \A x \in Deliveries : tries[x] <= tries'[x]
         /\ \A a \in Nat : a <= tries[d] /\ a <= Len(Backoff) => a + 1 <= tries'[d]
<1>1. Len(Backoff) \in Nat /\ tries \in [Deliveries -> Nat]
  BY DEF NotifyInv
<1>2. PICK n : n = IF tries[d] > Len(Backoff) THEN tries[d] ELSE tries[d] + 1
  OBVIOUS
<1>3. tries' = [tries EXCEPT ![d] = n]
  BY <1>2 DEF N!Tried
<1>4. n \in Nat /\ tries[d] <= n /\ \A a \in Nat : a <= tries[d] /\ a <= Len(Backoff) => a + 1 <= n
  BY <1>1, <1>2
<1>5. QED
  BY <1>1, <1>3, <1>4

\* What a row says stays backed.
LEMMA RowStillAccounted ==
  ASSUME Backoff \in Seq(Nat), NEW r \in DeliveryRows, NEW t \in Nat, NEW t2 \in Nat,
         NEW f \in Fates, NEW f2 \in Fates, RowAccounted(r, t, f), t <= t2, f \subseteq f2
  PROVE  RowAccounted(r, t2, f2)
<1>1. Len(Backoff) \in Nat /\ r.attempt \in Nat
  BY DEF DeliveryRows
<1>2. QED
  BY <1>1 DEF RowAccounted

\* An attempt goes on, or comes to its end.
LEMMA AttemptMoves ==
  ASSUME NotifyInv, Backoff \in Seq(Nat), NEW w \in Workers, job[w].at \in {"attempt", "sending"},
         NEW at \in {"sending", "complete", "suppress", "reschedule"}, N!Goes(w, at),
         UNCHANGED <<notifyNow, delivery>>,
         tries' \in [Deliveries -> Nat], fate' \in [Deliveries -> Fates],
         \A x \in Deliveries : tries[x] <= tries'[x] /\ fate[x] \subseteq fate'[x],
         at = "complete" => "accepted" \in fate'[job[w].due[1].id],
         at = "suppress" => fate'[job[w].due[1].id] # {},
         at = "reschedule" => job[w].due[1].attempt + 1 <= tries'[job[w].due[1].id]
  PROVE  NotifyInv'
<1>1. PICK old \in Jobs : /\ old = job[w] /\ JobAccounted(old, delivery, tries, fate)
                          /\ Len(old.due) > 0
  BY HeadAccounted
<1>2. PICK j : j = [old EXCEPT !.at = at]
  BY Zenon
<1>3. j \in Jobs /\ j.at = at /\ j.due = old.due
  BY Zenon, <1>2 DEF Jobs
<1>4. job' = [job EXCEPT ![w] = j]
  BY <1>1, <1>2 DEF N!Goes
<1>5. Grown(delivery, tries, fate, delivery', tries', fate')
  BY DEF Grown
<1>6. PICK dl, ts, fs, ts2, fs2 : /\ dl = delivery /\ ts = tries /\ fs = fate
                                  /\ ts2 = tries' /\ fs2 = fate'
  OBVIOUS
<1>7. JobAccounted(old, dl, ts2, fs2)
  <2>1. /\ dl \in [Deliveries -> DeliveryRows] /\ ts \in [Deliveries -> Nat]
        /\ fs \in [Deliveries -> Fates]
    BY <1>6 DEF NotifyInv
  <2>2. ts2 \in [Deliveries -> Nat] /\ fs2 \in [Deliveries -> Fates]
    BY <1>6
  <2>3. Grown(dl, ts, fs, dl, ts2, fs2) /\ JobAccounted(old, dl, ts, fs)
    BY <1>1, <1>5, <1>6
  <2>4. QED
    BY Zenon, <2>1, <2>2, <2>3, JobStillAccounted
<1>8. JobAccounted(j, dl, ts2, fs2)
  BY <1>1, <1>3, <1>6, <1>7 DEF JobAccounted
<1>9. ASSUME NEW d \in Deliveries PROVE RowAccounted(delivery'[d], tries'[d], fate'[d])
  <2>1. /\ delivery[d] \in DeliveryRows /\ tries[d] \in Nat /\ tries'[d] \in Nat
        /\ fate[d] \in Fates /\ fate'[d] \in Fates /\ delivery'[d] = delivery[d]
        /\ RowAccounted(delivery[d], tries[d], fate[d])
        /\ tries[d] <= tries'[d] /\ fate[d] \subseteq fate'[d]
    BY DEF NotifyInv
  <2>2. QED
    BY <2>1, RowStillAccounted
<1>10. JobAccounted(j, delivery', tries', fate')
  BY <1>6, <1>8
<1>11. notifyNow' \in Nat /\ delivery' \in [Deliveries -> DeliveryRows]
  BY DEF NotifyInv
<1>12. QED
  BY Zenon, <1>3, <1>4, <1>5, <1>9, <1>10, <1>11, NotifyMoves

\* The steps of an attempt.
LEMMA AttemptKept ==
  ASSUME NotifyInv, Backoff \in Seq(Nat), NEW w \in Workers,
         \/ N!Deliver(w)
         \/ \E answer \in {"accepted", "rejected", "unavailable"} : N!Sent(w, answer)
  PROVE  NotifyInv'
<1>1. job[w].at \in {"attempt", "sending"} /\ UNCHANGED <<notifyNow, delivery>>
  BY Zenon DEF N!Deliver, N!Sent
<1>2. PICK c \in DueEntries : /\ c = job[w].due[1] /\ c = Head(job[w].due)
                              /\ EntryAccounted(c, delivery, tries, fate)
  BY <1>1, HeadAccounted
<1>3. PICK d \in Deliveries : d = c.id /\ c.attempt \in Nat /\ c.payload \in BOOLEAN
  BY DEF DueEntries
<1>4. /\ tries \in [Deliveries -> Nat] /\ fate \in [Deliveries -> Fates]
      /\ \A x \in Deliveries : tries[x] <= tries[x] /\ fate[x] \subseteq fate[x]
  BY DEF NotifyInv
<1>5. CASE N!Deliver(w)
  <2>1. fate' = fate
    BY <1>5 DEF N!Deliver
  <2>2. CASE ~c.payload /\ N!Goes(w, "suppress") /\ UNCHANGED tries
    <3>1. fate'[d] # {}
      BY <1>2, <1>3, <2>1, <2>2 DEF EntryAccounted
    <3>2. QED
      BY <1>1, <1>2, <1>3, <1>4, <2>1, <2>2, <3>1, AttemptMoves
  <2>3. CASE N!Goes(w, "sending") /\ UNCHANGED tries
    BY <1>1, <1>4, <2>1, <2>3, AttemptMoves
  <2>4. CASE N!Goes(w, "reschedule") /\ N!Tried(d)
    <3>1. c.attempt + 1 <= tries'[d]
      BY <1>2, <1>3, <2>4, TriedCounts DEF EntryAccounted
    <3>2. tries' \in [Deliveries -> Nat] /\ \A x \in Deliveries : tries[x] <= tries'[x]
      BY <2>4, TriedCounts
    <3>3. QED
      BY Zenon, <1>1, <1>2, <1>3, <1>4, <2>1, <2>4, <3>1, <3>2, AttemptMoves
  <2>5. QED
    BY <1>2, <1>3, <1>5, <2>2, <2>3, <2>4 DEF N!Deliver
<1>6. ASSUME NEW answer \in {"accepted", "rejected", "unavailable"}, N!Sent(w, answer)
      PROVE  NotifyInv'
  <2>1. PICK what \in {{}, {"accepted"}, {"rejected"}} :
          /\ fate' = [fate EXCEPT ![d] = @ \cup what]
          /\ answer = "accepted" => what = {"accepted"}
          /\ answer = "rejected" => what = {"rejected"}
    BY Zenon, <1>2, <1>3, <1>6 DEF N!Sent
  <2>2. fate' \in [Deliveries -> Fates] /\ (\A x \in Deliveries : fate[x] \subseteq fate'[x])
    BY <1>4, <2>1 DEF Fates
  <2>3. fate'[d] = fate[d] \cup what
    BY <1>4, <2>1
  <2>4. N!Tried(d)
    BY Zenon, <1>2, <1>3, <1>6 DEF N!Sent
  <2>5. /\ tries' \in [Deliveries -> Nat] /\ \A x \in Deliveries : tries[x] <= tries'[x]
        /\ c.attempt + 1 <= tries'[d]
    BY <1>2, <1>3, <2>4, TriedCounts DEF EntryAccounted
  <2>6. CASE answer = "accepted"
    <3>1. N!Goes(w, "complete")
      BY Zenon, <1>6, <2>6 DEF N!Sent
    <3>2. "accepted" \in fate'[d]
      BY <2>1, <2>3, <2>6
    <3>3. QED
      BY <1>1, <1>2, <1>3, <2>2, <2>5, <3>1, <3>2, AttemptMoves
  <2>7. CASE answer = "rejected"
    <3>1. N!Goes(w, "suppress")
      BY Zenon, <1>6, <2>7 DEF N!Sent
    <3>2. fate'[d] # {}
      BY <2>1, <2>3, <2>7
    <3>3. QED
      BY Zenon, <1>1, <1>2, <1>3, <2>2, <2>5, <3>1, <3>2, AttemptMoves
  <2>8. CASE answer = "unavailable"
    <3>1. N!Goes(w, "reschedule")
      BY Zenon, <1>6, <2>8 DEF N!Sent
    <3>2. QED
      BY Zenon, <1>1, <1>2, <1>3, <2>2, <2>5, <3>1, AttemptMoves
  <2>9. QED
    BY <2>6, <2>7, <2>8
<1>7. QED
  BY <1>5, <1>6

\* What is written over a row is backed.
LEMMA WrittenAccounted ==
  ASSUME NotifyInv, Backoff \in Seq(Nat), NEW r \in DeliveryRows, NEW t \in Nat, NEW f \in Fates,
         r.status # "none", RowAccounted(r, t, f)
  PROVE  /\ "accepted" \in f => /\ N!Complete(r) \in DeliveryRows /\ N!Complete(r).status # "none"
                                /\ RowAccounted(N!Complete(r), t, f)
         /\ f # {} => /\ N!Suppress(r) \in DeliveryRows /\ N!Suppress(r).status # "none"
                      /\ RowAccounted(N!Suppress(r), t, f)
         /\ \A a \in Nat \ {0} :
              a <= t => /\ N!Reschedule(r, a) \in DeliveryRows /\ N!Reschedule(r, a).status # "none"
                        /\ RowAccounted(N!Reschedule(r, a), t, f)
<1>1. notifyNow \in Nat /\ Len(Backoff) \in Nat
  BY DEF NotifyInv
<1>2. ASSUME "accepted" \in f
      PROVE  /\ N!Complete(r) \in DeliveryRows /\ N!Complete(r).status # "none"
             /\ RowAccounted(N!Complete(r), t, f)
  <2>1. PICK c : c = [r EXCEPT !.status = "sent", !.payload = FALSE]
    OBVIOUS
  <2>2. c \in DeliveryRows /\ c.status = "sent" /\ c.attempt = r.attempt
    BY Zenon, <2>1 DEF DeliveryRows
  <2>3. RowAccounted(c, t, f)
    BY <1>2, <2>2 DEF RowAccounted
  <2>4. QED
    BY <2>1, <2>2, <2>3 DEF N!Complete
<1>3. ASSUME f # {}
      PROVE  /\ N!Suppress(r) \in DeliveryRows /\ N!Suppress(r).status # "none"
             /\ RowAccounted(N!Suppress(r), t, f)
  <2>1. PICK c : c = [r EXCEPT !.status = "suppressed", !.payload = FALSE]
    OBVIOUS
  <2>2. c \in DeliveryRows /\ c.status = "suppressed" /\ c.attempt = r.attempt
    BY Zenon, <2>1 DEF DeliveryRows
  <2>3. RowAccounted(c, t, f)
    BY <1>3, <2>2 DEF RowAccounted
  <2>4. QED
    BY <2>1, <2>2, <2>3 DEF N!Suppress
<1>4. ASSUME NEW a \in Nat \ {0}, a <= t
      PROVE  /\ N!Reschedule(r, a) \in DeliveryRows /\ N!Reschedule(r, a).status # "none"
             /\ RowAccounted(N!Reschedule(r, a), t, f)
  <2>1. CASE a <= Len(Backoff)
    <3>1. PICK n \in Nat : n = notifyNow + Backoff[a]
      BY <1>1, <2>1
    <3>2. PICK c : c = [r EXCEPT !.status = "pending", !.attempt = a, !.next = n]
      OBVIOUS
    <3>3. N!Reschedule(r, a) = c
      BY <2>1, <3>1, <3>2 DEF N!Reschedule
    <3>4. /\ c \in DeliveryRows /\ c.status = "pending" /\ c.attempt = a
          /\ c.payload = r.payload
      BY Zenon, <3>2 DEF DeliveryRows
    <3>5. RowAccounted(c, t, f)
      BY <1>4, <2>1, <3>4 DEF RowAccounted
    <3>6. QED
      BY <3>3, <3>4, <3>5
  <2>2. CASE ~ (a <= Len(Backoff))
    <3>1. PICK c : c = [r EXCEPT !.status = "failed", !.attempt = a, !.next = 0]
      OBVIOUS
    <3>2. N!Reschedule(r, a) = c
      BY <2>2, <3>1 DEF N!Reschedule
    <3>3. /\ c \in DeliveryRows /\ c.status = "failed" /\ c.attempt = a
          /\ c.payload = r.payload
      BY Zenon, <3>1 DEF DeliveryRows
    <3>4. t > Len(Backoff)
      BY <1>1, <1>4, <2>2
    <3>5. RowAccounted(c, t, f)
      BY <1>4, <3>3, <3>4 DEF RowAccounted
    <3>6. QED
      BY <3>2, <3>3, <3>5
  <2>3. QED
    BY <2>1, <2>2
<1>5. QED
  BY <1>2, <1>3, <1>4

\* The worker turns to the next recipient, to the next entry, or is done.
NextJob(old) ==
  IF old.event # NoEvent THEN [old EXCEPT !.at = "queue", !.due = <<>>]
  ELSE IF Tail(old.due) = <<>> THEN N!Idle
  ELSE [old EXCEPT !.at = "attempt", !.due = Tail(old.due)]

LEMMA TailAccounted ==
  ASSUME NEW s \in Seq(DueEntries), Len(s) > 0, NEW dl, NEW ts, NEW fs,
         \A i \in 1..Len(s) : EntryAccounted(s[i], dl, ts, fs)
  PROVE  /\ Tail(s) \in Seq(DueEntries) /\ (Tail(s) # <<>> => Len(Tail(s)) > 0)
         /\ \A i \in 1..Len(Tail(s)) : EntryAccounted(Tail(s)[i], dl, ts, fs)
<1>1. Tail(s) \in Seq(DueEntries) /\ Len(Tail(s)) = Len(s) - 1 /\ Len(s) \in Nat
  OBVIOUS
<1>2. Tail(s) # <<>> => Len(Tail(s)) > 0
  BY <1>1
<1>3. ASSUME NEW i \in 1..Len(Tail(s)) PROVE EntryAccounted(Tail(s)[i], dl, ts, fs)
  <2>1. i + 1 \in 1..Len(s) /\ Tail(s)[i] = s[i + 1]
    BY <1>1
  <2>2. QED
    BY <2>1
<1>4. QED
  BY <1>1, <1>2, <1>3

LEMMA NextJobAccounted ==
  ASSUME NEW old \in Jobs, Len(old.due) > 0, NEW dl, NEW ts, NEW fs,
         \A i \in 1..Len(old.due) : EntryAccounted(old.due[i], dl, ts, fs)
  PROVE  NextJob(old) \in Jobs /\ JobAccounted(NextJob(old), dl, ts, fs)
<1>1. old.due \in Seq(DueEntries)
  BY DEF Jobs
<1>2. PICK none : none = <<>>
  OBVIOUS
<1>3. none \in Seq(DueEntries) /\ Len(none) = 0
  BY <1>2
<1>4. PICK rest : rest = Tail(old.due)
  BY Zenon
<1>5. /\ rest \in Seq(DueEntries) /\ (rest # <<>> => Len(rest) > 0)
      /\ \A i \in 1..Len(rest) : EntryAccounted(rest[i], dl, ts, fs)
  BY <1>1, <1>4, TailAccounted
<1>6. PICK j : j = NextJob(old)
  OBVIOUS
<1>7. CASE old.event # NoEvent
  <2>1. j = [old EXCEPT !.at = "queue", !.due = none]
    BY <1>2, <1>6, <1>7 DEF NextJob
  <2>2. j \in Jobs /\ j.at = "queue" /\ j.due = none
    BY Zenon, <1>3, <2>1 DEF Jobs
  <2>3. 1..Len(j.due) = {}
    BY <1>3, <2>2
  <2>4. JobAccounted(j, dl, ts, fs)
    BY <2>2, <2>3 DEF JobAccounted
  <2>5. QED
    BY <1>6, <2>2, <2>4
<1>8. CASE old.event = NoEvent /\ rest = <<>>
  <2>1. j = N!Idle
    BY <1>4, <1>6, <1>8 DEF NextJob
  <2>2. QED
    BY <1>6, <2>1, IdleAccounted
<1>9. CASE old.event = NoEvent /\ rest # <<>>
  <2>1. j = [old EXCEPT !.at = "attempt", !.due = rest]
    BY <1>4, <1>6, <1>9 DEF NextJob
  <2>2. j \in Jobs /\ j.at = "attempt" /\ j.due = rest
    BY Zenon, <1>5, <2>1 DEF Jobs
  <2>3. JobAccounted(j, dl, ts, fs)
    BY <1>5, <1>9, <2>2 DEF JobAccounted
  <2>4. QED
    BY <1>6, <2>2, <2>3
<1>10. QED
  BY <1>7, <1>8, <1>9

\* The outcome is written, or lost.
LEMMA RecordsKept ==
  ASSUME NotifyInv, Backoff \in Seq(Nat), NEW w \in Workers, N!Records(w)
  PROVE  NotifyInv'
<1>1. job[w].at \in {"complete", "suppress", "reschedule"} /\ UNCHANGED <<notifyNow, tries, fate>>
  BY DEF N!Records
<1>2. PICK c \in DueEntries : /\ c = job[w].due[1] /\ c = Head(job[w].due)
                              /\ EntryAccounted(c, delivery, tries, fate)
  BY <1>1, HeadAccounted
<1>3. PICK d \in Deliveries : d = c.id /\ c.attempt \in Nat
  BY DEF DueEntries
<1>4. PICK old \in Jobs : /\ old = job[w] /\ JobAccounted(old, delivery, tries, fate)
                          /\ Len(old.due) > 0
  BY <1>1, HeadAccounted
<1>5. PICK r \in DeliveryRows : /\ r = delivery[d] /\ r.status # "none"
                                /\ tries[d] \in Nat /\ fate[d] \in Fates
                                /\ RowAccounted(r, tries[d], fate[d])
  BY Zenon, <1>2, <1>3 DEF NotifyInv, EntryAccounted
<1>6. PICK r2 : /\ r2 \in DeliveryRows /\ r2.status # "none" /\ RowAccounted(r2, tries[d], fate[d])
                /\ delivery' = [delivery EXCEPT ![d] = r2]
  <2>1. CASE delivery' = delivery
    <3>1. delivery' = [delivery EXCEPT ![d] = r]
      BY <1>5, <2>1 DEF NotifyInv
    <3>2. QED
      BY Zenon, <1>5, <3>1
  <2>2. CASE delivery' # delivery
    <3>1. CASE old.at = "complete"
      <4>1. delivery' = [delivery EXCEPT ![d] = N!Complete(r)]
        BY Zenon, <1>2, <1>3, <1>4, <1>5, <2>2, <3>1 DEF N!Records, NotifyInv
      <4>2. "accepted" \in fate[d]
        BY <1>2, <1>3, <1>4, <3>1 DEF JobAccounted
      <4>3. QED
        BY Zenon, <1>5, <4>1, <4>2, WrittenAccounted
    <3>2. CASE old.at = "suppress"
      <4>1. delivery' = [delivery EXCEPT ![d] = N!Suppress(r)]
        BY Zenon, <1>2, <1>3, <1>4, <1>5, <2>2, <3>2 DEF N!Records, NotifyInv
      <4>2. fate[d] # {}
        BY <1>2, <1>3, <1>4, <3>2 DEF JobAccounted
      <4>3. QED
        BY Zenon, <1>5, <4>1, <4>2, WrittenAccounted
    <3>3. CASE old.at = "reschedule"
      <4>1. delivery' = [delivery EXCEPT ![d] = N!Reschedule(r, c.attempt + 1)]
        BY Zenon, <1>2, <1>3, <1>4, <1>5, <2>2, <3>3 DEF N!Records, NotifyInv
      <4>2. c.attempt + 1 <= tries[d]
        <5>1. old.due[1] = c /\ old.due[1].id = d
          BY <1>2, <1>3, <1>4
        <5>2. QED
          BY <1>4, <3>3, <5>1 DEF JobAccounted
      <4>3. c.attempt + 1 \in Nat \ {0}
        BY <1>3
      <4>4. QED
        BY Zenon, <1>5, <4>1, <4>2, <4>3, WrittenAccounted
    <3>4. QED
      BY <1>1, <1>4, <3>1, <3>2, <3>3
  <2>3. QED
    BY <2>1, <2>2
<1>7. delivery' \in [Deliveries -> DeliveryRows]
  BY <1>6 DEF NotifyInv
<1>8. Grown(delivery, tries, fate, delivery', tries', fate')
  BY <1>1, <1>6 DEF Grown, NotifyInv
<1>9. \A x \in Deliveries : RowAccounted(delivery'[x], tries'[x], fate'[x])
  BY <1>1, <1>6 DEF NotifyInv
<1>10. \A i \in 1..Len(old.due) : EntryAccounted(old.due[i], delivery', tries', fate')
  <2>1. PICK dl, ts, fs, dl2 : dl = delivery /\ ts = tries /\ fs = fate /\ dl2 = delivery'
    OBVIOUS
  <2>2. /\ dl \in [Deliveries -> DeliveryRows] /\ ts \in [Deliveries -> Nat]
        /\ fs \in [Deliveries -> Fates]
        /\ dl2 \in [Deliveries -> DeliveryRows]
    BY <1>7, <2>1 DEF NotifyInv
  <2>3. Grown(dl, ts, fs, dl2, ts, fs) /\ JobAccounted(old, dl, ts, fs)
    BY <1>1, <1>4, <1>8, <2>1
  <2>4. JobAccounted(old, dl2, ts, fs)
    BY Zenon, <2>2, <2>3, JobStillAccounted
  <2>5. QED
    BY <1>1, <2>1, <2>4 DEF JobAccounted
<1>11. PICK j : j = NextJob(old)
  OBVIOUS
<1>12. job' = [job EXCEPT ![w] = j]
  BY <1>4, <1>11 DEF N!Records, NextJob
<1>13. j \in Jobs /\ JobAccounted(j, delivery', tries', fate')
  <2>1. PICK dl2, ts2, fs2 : dl2 = delivery' /\ ts2 = tries' /\ fs2 = fate'
    OBVIOUS
  <2>2. \A i \in 1..Len(old.due) : EntryAccounted(old.due[i], dl2, ts2, fs2)
    BY <1>10, <2>1
  <2>3. j \in Jobs /\ JobAccounted(j, dl2, ts2, fs2)
    BY Zenon, <1>4, <1>11, <2>2, NextJobAccounted
  <2>4. QED
    BY <2>1, <2>3
<1>14. notifyNow' \in Nat /\ tries' \in [Deliveries -> Nat] /\ fate' \in [Deliveries -> Fates]
  BY <1>1 DEF NotifyInv
<1>15. QED
  BY Zenon, <1>7, <1>8, <1>9, <1>12, <1>13, <1>14, NotifyMoves

\* The erasure takes payloads and says so.
LEMMA EraseKept ==
  ASSUME NotifyInv, Backoff \in Seq(Nat), N!Erase
  PROVE  NotifyInv'
<1>1. UNCHANGED <<notifyNow, job, tries>>
  BY DEF N!Erase
<1>2. ASSUME NEW d \in Deliveries
      PROVE  /\ delivery'[d] \in DeliveryRows /\ fate'[d] \in Fates /\ fate[d] \subseteq fate'[d]
             /\ delivery'[d].status = delivery[d].status
             /\ RowAccounted(delivery'[d], tries[d], fate'[d])
  <2>1. PICK r \in DeliveryRows : r = delivery[d] /\ RowAccounted(r, tries[d], fate[d])
    BY DEF NotifyInv
  <2>2. PICK r2 : r2 = [r EXCEPT !.payload = FALSE]
    BY Zenon
  <2>3. delivery'[d] = r2
    BY <2>1, <2>2 DEF N!Erase
  <2>4. r2 \in DeliveryRows /\ r2.status = r.status /\ r2.attempt = r.attempt
    BY Zenon, <2>2 DEF DeliveryRows
  <2>5. fate[d] \in Fates /\ tries[d] \in Nat /\ r.payload \in BOOLEAN
    BY <2>1 DEF NotifyInv, DeliveryRows
  <2>6. CASE r.payload
    <3>1. fate'[d] = fate[d] \cup {"erased"}
      BY <2>1, <2>6 DEF N!Erase
    <3>2. fate'[d] \in Fates /\ fate[d] \subseteq fate'[d] /\ fate'[d] # {}
      BY <2>5, <3>1 DEF Fates
    <3>3. RowAccounted(r2, tries[d], fate'[d])
      BY <2>1, <2>4, <3>2 DEF RowAccounted
    <3>4. QED
      BY <2>1, <2>3, <2>4, <3>2, <3>3
  <2>7. CASE ~r.payload
    <3>1. fate'[d] = fate[d]
      BY <2>1, <2>7 DEF N!Erase
    <3>2. RowAccounted(r2, tries[d], fate[d])
      BY <2>1, <2>4, <2>7 DEF RowAccounted
    <3>3. QED
      BY <2>1, <2>3, <2>4, <2>5, <3>1, <3>2
  <2>8. QED
    BY <2>5, <2>6, <2>7
<1>3. /\ delivery' = [d \in Deliveries |-> delivery'[d]] /\ fate' = [d \in Deliveries |-> fate'[d]]
  BY DEF N!Erase
<1>4. delivery' \in [Deliveries -> DeliveryRows] /\ fate' \in [Deliveries -> Fates]
  BY <1>2, <1>3
<1>5. ASSUME NEW v \in Workers PROVE JobAccounted(job[v], delivery', tries, fate')
  <2>1. PICK dl, ts, fs, dl2, fs2 :
          dl = delivery /\ ts = tries /\ fs = fate /\ dl2 = delivery' /\ fs2 = fate'
    OBVIOUS
  <2>2. /\ dl \in [Deliveries -> DeliveryRows] /\ ts \in [Deliveries -> Nat]
        /\ fs \in [Deliveries -> Fates]
        /\ dl2 \in [Deliveries -> DeliveryRows] /\ fs2 \in [Deliveries -> Fates]
    BY <1>4, <2>1 DEF NotifyInv
  <2>3. Grown(dl, ts, fs, dl2, ts, fs2)
    <3>1. \A d \in Deliveries : /\ dl2[d].status = dl[d].status /\ fs[d] \subseteq fs2[d]
                                /\ ts[d] \in Nat
      BY <1>2, <2>1, <2>2
    <3>2. QED
      BY <3>1 DEF Grown
  <2>4. job[v] \in Jobs /\ JobAccounted(job[v], dl, ts, fs)
    BY <2>1 DEF NotifyInv
  <2>5. JobAccounted(job[v], dl2, ts, fs2)
    BY Zenon, <2>2, <2>3, <2>4, JobStillAccounted
  <2>6. QED
    BY <2>1, <2>5
<1>6. QED
  BY <1>1, <1>2, <1>4, <1>5 DEF NotifyInv

\* Every step keeps the invariant.
LEMMA NotifyStep ==
  ASSUME NotifyInv, Backoff \in Seq(Nat), Batch \in Nat, [N!Next]_(N!vars)
  PROVE  NotifyInv'
<1>1. CASE N!Restart
  <2>1. job' = [w \in Workers |-> N!Idle] /\ UNCHANGED <<notifyNow, delivery, tries, fate>>
    BY <1>1 DEF N!Restart
  <2>2. \A w \in Workers : job'[w] \in Jobs /\ JobAccounted(job'[w], delivery, tries, fate)
    BY <2>1, IdleAccounted
  <2>3. job' \in [Workers -> Jobs]
    BY <2>1, IdleAccounted
  <2>4. QED
    BY <2>1, <2>2, <2>3 DEF NotifyInv
<1>2. CASE N!Tick
  BY <1>2 DEF N!Tick, NotifyInv
<1>3. CASE UNCHANGED N!vars
  BY <1>3 DEF N!vars, NotifyInv
<1>4. QED
  BY <1>1, <1>2, <1>3, DispatchKept, QueueKept, RetryKept, AttemptKept, RecordsKept, EraseKept
     DEF N!Next

\* However attempts on one delivery overlap, with lost writes, restarts and an
\* erasure in between, the row that Complete, Suppress and Reschedule leave counts
\* no attempt that was not made, says sent only of what was accepted and failed
\* only after the whole table of delays, for any number of deliveries and workers.
THEOREM DeliveriesAccounted ==
  ASSUME Backoff \in Seq(Nat), Batch \in Nat
  PROVE  N!Spec => []N!DeliveryAccounted
<1>1. N!Init => NotifyInv
  <2>1. SUFFICES ASSUME N!Init PROVE NotifyInv
    OBVIOUS
  <2>2. PICK r : r = N!NoDelivery
    OBVIOUS
  <2>3. r \in DeliveryRows /\ r.status = "none" /\ r.attempt = 0
    BY <2>2 DEF N!NoDelivery, DeliveryRows
  <2>4. delivery = [d \in Deliveries |-> r] /\ tries = [d \in Deliveries |-> 0]
    BY <2>1, <2>2 DEF N!Init
  <2>5. notifyNow \in Nat /\ fate = [d \in Deliveries |-> {}] /\ fate \in [Deliveries -> Fates]
    BY <2>1 DEF N!Init, Fates
  <2>6. job = [w \in Workers |-> N!Idle]
    BY <2>1 DEF N!Init
  <2>7. \A d \in Deliveries : RowAccounted(delivery[d], tries[d], fate[d])
    BY <2>3, <2>4 DEF RowAccounted
  <2>8. \A w \in Workers : JobAccounted(job[w], delivery, tries, fate)
    BY Zenon, <2>6, IdleAccounted
  <2>9. job \in [Workers -> Jobs]
    BY <2>6, IdleAccounted
  <2>10. QED
    BY Zenon, <2>3, <2>4, <2>5, <2>7, <2>8, <2>9 DEF NotifyInv
<1>2. NotifyInv /\ [N!Next]_(N!vars) => NotifyInv'
  BY NotifyStep
<1>3. NotifyInv => N!DeliveryAccounted
  <2>1. SUFFICES ASSUME NotifyInv, NEW d \in Deliveries
                 PROVE  /\ delivery[d].attempt <= tries[d]
                        /\ delivery[d].status = "sent" => "accepted" \in fate[d]
                        /\ delivery[d].status = "failed" => tries[d] > Len(Backoff)
                        /\ delivery[d].status # "none" /\ ~ delivery[d].payload
                             => fate[d] \cap {"accepted", "rejected", "erased"} # {}
    BY DEF N!DeliveryAccounted
  <2>2. RowAccounted(delivery[d], tries[d], fate[d]) /\ fate[d] \in Fates
    BY <2>1 DEF NotifyInv
  <2>3. QED
    BY <2>2 DEF RowAccounted, Fates
<1>4. QED
  BY <1>1, <1>2, <1>3, PTL DEF N!Spec

-----------------------------------------------------------------------------
(* The channel of notifications.                                             *)

CONSTANTS AutoEnable, DegradeThreshold, FailThreshold, MaxFailures

VARIABLES channel, probe, passed

Ch == INSTANCE NotifyChannel WITH job <- probe

ChannelStates == {"DISABLED", "CONFIGURING", "TESTING", "ACTIVE", "DEGRADED", "FAILED",
                  "MAINTENANCE"}
Machines == [state : ChannelStates, failures : Nat, tested : BOOLEAN]

\* A machine in service was tested, and its state tells its streak.
InStep(m, p) ==
  /\ m \in Machines
  /\ m.tested => p
  /\ m.state \in {"ACTIVE", "DEGRADED"} => p
  /\ m.state = "ACTIVE" => m.failures < DegradeThreshold
  /\ m.state = "DEGRADED" => DegradeThreshold <= m.failures /\ m.failures < FailThreshold

\* So it is throughout, and whoever is about to activate it saw a passed test.
ChannelInv ==
  /\ passed \in BOOLEAN
  /\ InStep(channel, passed)
  /\ probe \in [Workers -> {"idle", "activating", "testing", "sending"}]
  /\ \A w \in Workers : probe[w] = "activating" => passed

ThresholdsOrdered == /\ DegradeThreshold \in Nat \ {0} /\ FailThreshold \in Nat
                     /\ MaxFailures \in Nat /\ AutoEnable \in BOOLEAN

\* A move of a machine along its table.
LEMMA Locked ==
  ASSUME ThresholdsOrdered, NEW m \in Machines, NEW next \in ChannelStates
  PROVE  /\ Ch!toLocked(m, next) \in Machines
         /\ Ch!toLocked(m, next).tested = m.tested
         /\ \/ Ch!toLocked(m, next) = m
            \/ /\ Ch!CanTransition(m.state, next)
               /\ Ch!toLocked(m, next).state = next
               /\ Ch!toLocked(m, next).failures = IF next = "ACTIVE" THEN 0 ELSE m.failures
BY Zenon DEF Machines, Ch!toLocked, ThresholdsOrdered

\* A move out of service, or into a test.
LEMMA LockedAside ==
  ASSUME ThresholdsOrdered, NEW m, NEW p \in BOOLEAN, InStep(m, p),
         NEW next \in {"CONFIGURING", "DISABLED", "MAINTENANCE", "TESTING", "FAILED"}
  PROVE  InStep(Ch!toLocked(m, next), p)
<1>1. m \in Machines /\ next \in ChannelStates
  BY DEF InStep, ChannelStates
<1>2. QED
  BY <1>1, Locked DEF InStep

\* A move into service, after a test that passed.
LEMMA LockedActive ==
  ASSUME ThresholdsOrdered, NEW m \in Machines,
         \/ InStep(m, TRUE)
         \/ Ch!CanTransition(m.state, "ACTIVE")
  PROVE  InStep(Ch!toLocked(m, "ACTIVE"), TRUE)
<1>1. "ACTIVE" \in ChannelStates
  BY DEF ChannelStates
<1>2. CASE InStep(m, TRUE)
  BY <1>1, <1>2, Locked DEF InStep, ThresholdsOrdered
<1>3. CASE Ch!CanTransition(m.state, "ACTIVE")
  <2>1. /\ Ch!toLocked(m, "ACTIVE").state = "ACTIVE"
        /\ Ch!toLocked(m, "ACTIVE").failures = 0
    BY <1>3 DEF Ch!toLocked, Machines
  <2>2. Ch!toLocked(m, "ACTIVE") \in Machines
    BY <1>1, Locked
  <2>3. QED
    BY <2>1, <2>2 DEF InStep, ThresholdsOrdered
<1>4. QED
  BY Zenon, <1>2, <1>3

\* The outcome of a test.
LEMMA TestInStep ==
  ASSUME ThresholdsOrdered, NEW m, NEW p \in BOOLEAN, InStep(m, p), NEW ok \in BOOLEAN
  PROVE  InStep(Ch!recordTest(m, ok), p \/ ok)
<1>1. [m EXCEPT !.tested = ok] \in Machines /\ InStep([m EXCEPT !.tested = ok], p \/ ok)
  BY DEF InStep, Machines
<1>2. CASE ~ok
  <2>1. Ch!recordTest(m, ok) = Ch!toLocked([m EXCEPT !.tested = ok], "DISABLED")
    BY <1>2 DEF Ch!recordTest
  <2>2. p \/ ok \in BOOLEAN
    OBVIOUS
  <2>3. QED
    BY <1>1, <2>1, <2>2, LockedAside
<1>3. CASE ok
  <2>1. \/ Ch!recordTest(m, ok) = Ch!toLocked([m EXCEPT !.tested = ok], "ACTIVE")
        \/ Ch!recordTest(m, ok) = [m EXCEPT !.tested = ok]
    BY <1>3 DEF Ch!recordTest
  <2>2. InStep(Ch!toLocked([m EXCEPT !.tested = ok], "ACTIVE"), TRUE)
    BY Zenon, <1>1, <1>3, LockedActive
  <2>3. QED
    BY Zenon, <1>1, <1>3, <2>1, <2>2
<1>4. QED
  BY <1>2, <1>3

\* The outcome of a send.
LEMMA SendInStep ==
  ASSUME ThresholdsOrdered, NEW m, NEW p \in BOOLEAN, InStep(m, p), NEW ok \in BOOLEAN
  PROVE  InStep(Ch!recordSend(m, ok), p)
<1>1. PICK healed : healed = [m EXCEPT !.failures = 0]
  BY Zenon
<1>2. PICK hurt : hurt = [m EXCEPT !.failures = IF @ < MaxFailures THEN @ + 1 ELSE @]
  BY Zenon
<1>3. /\ m \in Machines /\ healed \in Machines /\ hurt \in Machines
      /\ healed.state = m.state /\ healed.failures = 0 /\ healed.tested = m.tested
      /\ hurt.state = m.state /\ hurt.tested = m.tested /\ hurt.failures >= m.failures
  BY <1>1, <1>2 DEF InStep, Machines, ThresholdsOrdered
<1>4. CASE ok /\ m.state = "DEGRADED"
  <2>1. Ch!recordSend(m, ok) = Ch!toLocked(healed, "ACTIVE")
    BY <1>1, <1>4 DEF Ch!recordSend
  <2>2. Ch!CanTransition(healed.state, "ACTIVE")
    BY <1>3, <1>4 DEF Ch!CanTransition, Ch!transitions
  <2>3. InStep(Ch!toLocked(healed, "ACTIVE"), TRUE) /\ p
    BY <1>3, <1>4, <2>2, LockedActive DEF InStep
  <2>4. QED
    BY Zenon, <2>1, <2>3
<1>5. CASE ok /\ m.state # "DEGRADED"
  <2>1. Ch!recordSend(m, ok) = healed
    BY <1>1, <1>5 DEF Ch!recordSend
  <2>2. /\ healed.tested => p
        /\ healed.state \in {"ACTIVE", "DEGRADED"} => p
    BY <1>3 DEF InStep
  <2>3. healed.state = "ACTIVE" => healed.failures < DegradeThreshold
    BY <1>3 DEF ThresholdsOrdered
  <2>4. healed.state # "DEGRADED"
    BY <1>3, <1>5
  <2>5. InStep(healed, p)
    BY <1>3, <2>2, <2>3, <2>4 DEF InStep
  <2>6. QED
    BY <2>1, <2>5
<1>6. CASE ~ok /\ hurt.failures >= FailThreshold
  <2>1. Ch!recordSend(m, ok) = Ch!toLocked(hurt, "FAILED")
    BY <1>2, <1>6 DEF Ch!recordSend
  <2>2. "FAILED" \in ChannelStates
    BY DEF ChannelStates
  <2>3. m.state \in {"ACTIVE", "DEGRADED"} => Ch!toLocked(hurt, "FAILED").state = "FAILED"
    BY <1>3 DEF Ch!toLocked, Ch!CanTransition, Ch!transitions, Machines
  <2>4. QED
    BY <1>3, <2>1, <2>2, <2>3, Locked DEF InStep
<1>7. CASE ~ok /\ ~(hurt.failures >= FailThreshold) /\ hurt.failures >= DegradeThreshold
  <2>1. Ch!recordSend(m, ok) = Ch!toLocked(hurt, "DEGRADED")
    BY <1>2, <1>7 DEF Ch!recordSend
  <2>2. "DEGRADED" \in ChannelStates
    BY DEF ChannelStates
  <2>3. m.state = "ACTIVE" => Ch!toLocked(hurt, "DEGRADED").state = "DEGRADED"
    BY <1>3 DEF Ch!toLocked, Ch!CanTransition, Ch!transitions, Machines
  <2>4. Ch!CanTransition(hurt.state, "DEGRADED") => m.state \in {"ACTIVE", "DEGRADED"}
    BY <1>3 DEF Ch!CanTransition, Ch!transitions, Machines, ChannelStates
  <2>5. PICK x : x = Ch!toLocked(hurt, "DEGRADED")
    OBVIOUS
  <2>6. /\ x \in Machines /\ x.tested = m.tested /\ x.failures = hurt.failures
        /\ x.state = m.state \/ (x.state = "DEGRADED" /\ m.state \in {"ACTIVE", "DEGRADED"})
        /\ m.state = "ACTIVE" => x.state = "DEGRADED"
    BY <1>3, <2>2, <2>3, <2>4, <2>5, Locked
  <2>7. QED
    BY <1>3, <1>7, <2>1, <2>5, <2>6 DEF InStep, ThresholdsOrdered, Machines
<1>8. CASE ~ok /\ ~(hurt.failures >= FailThreshold) /\ ~(hurt.failures >= DegradeThreshold)
  <2>1. Ch!recordSend(m, ok) = hurt
    BY <1>2, <1>8 DEF Ch!recordSend
  <2>2. QED
    BY <1>3, <1>8, <2>1 DEF InStep, ThresholdsOrdered, Machines
<1>9. QED
  BY <1>4, <1>5, <1>6, <1>7, <1>8

\* Every step keeps the invariant.
LEMMA ChannelStep ==
  ASSUME ThresholdsOrdered, ChannelInv, [Ch!Next]_(Ch!vars)
  PROVE  ChannelInv'
<1> USE DEF ChannelInv
<1>1. ASSUME NEW next \in {"CONFIGURING", "DISABLED", "MAINTENANCE"}, Ch!transition(next)
      PROVE  ChannelInv'
  BY <1>1, LockedAside DEF Ch!transition
<1>2. CASE Ch!Restart
  BY Zenon, <1>2 DEF Ch!Restart, Ch!newStateMachine, InStep, Machines, ChannelStates
<1>3. ASSUME NEW w \in Workers, Ch!Test(w) PROVE ChannelInv'
  <2>1. InStep(Ch!recordTest(channel, FALSE), passed \/ FALSE)
    BY Zenon, TestInStep
  <2>2. PICK walked : walked = IF channel.state = "DISABLED" THEN Ch!toLocked(channel, "CONFIGURING")
                               ELSE channel
    OBVIOUS
  <2>3. InStep(walked, passed)
    BY <2>2, LockedAside
  <2>4. InStep(Ch!toLocked(walked, "TESTING"), passed)
    BY <2>3, LockedAside
  <2>5. passed' = passed /\ InStep(channel', passed)
    BY Zenon, <1>3, <2>1, <2>2, <2>4 DEF Ch!Test
  <2>6. probe' = probe \/ probe' = [probe EXCEPT ![w] = "testing"]
    BY Zenon, <1>3 DEF Ch!Test
  <2>7. QED
    BY <2>5, <2>6
<1>4. ASSUME NEW w \in Workers, Ch!Activate(w) PROVE ChannelInv'
  BY <1>4 DEF Ch!Activate, InStep
<1>5. ASSUME NEW w \in Workers, Ch!Activates(w) PROVE ChannelInv'
  <2>1. passed = TRUE /\ channel \in Machines
    BY <1>5 DEF Ch!Activates, InStep
  <2>2. InStep(Ch!toLocked(channel, "ACTIVE"), TRUE)
    BY Zenon, <2>1, LockedActive
  <2>3. QED
    BY Zenon, <1>5, <2>1, <2>2 DEF Ch!Activates
<1>6. ASSUME NEW w \in Workers, Ch!Deliver(w) PROVE ChannelInv'
  BY <1>6 DEF Ch!Deliver
<1>7. ASSUME NEW w \in Workers, NEW ok \in BOOLEAN, Ch!TestAnswers(w, ok) PROVE ChannelInv'
  BY <1>7, TestInStep DEF Ch!TestAnswers
<1>8. ASSUME NEW w \in Workers, NEW ok \in BOOLEAN, Ch!SendReturns(w, ok) PROVE ChannelInv'
  BY <1>8, SendInStep DEF Ch!SendReturns
<1>9. CASE UNCHANGED Ch!vars
  BY <1>9 DEF Ch!vars
<1>10. QED
  BY Zenon, <1>1, <1>2, <1>3, <1>4, <1>5, <1>6, <1>7, <1>8, <1>9 DEF Ch!Next

\* With any number of tests, activations and sends under way while an
\* administrator moves the channel, one in service has passed a test and its
\* state tells how many sends have failed in a row (stateMachine).
THEOREM ServiceTellsStreak ==
  ASSUME ThresholdsOrdered
  PROVE  Ch!Spec => []Ch!ServiceMatchesStreak
<1>1. Ch!Init => ChannelInv
  <2>1. SUFFICES ASSUME Ch!Init PROVE ChannelInv
    OBVIOUS
  <2>2. /\ channel \in Machines /\ channel.tested = FALSE /\ channel.state = "DISABLED"
        /\ passed = FALSE /\ probe = [w \in Workers |-> "idle"]
    BY <2>1 DEF Ch!Init, Ch!newStateMachine, Machines, ChannelStates
  <2>3. InStep(channel, passed)
    BY <2>2 DEF InStep
  <2>4. QED
    BY Zenon, <2>2, <2>3 DEF ChannelInv
<1>2. ChannelInv /\ [Ch!Next]_(Ch!vars) => ChannelInv'
  BY ChannelStep
<1>3. ChannelInv => Ch!ServiceMatchesStreak
  BY DEF ChannelInv, InStep, Machines, Ch!ServiceMatchesStreak, ThresholdsOrdered
<1>4. QED
  BY <1>1, <1>2, <1>3, PTL DEF Ch!Spec

-----------------------------------------------------------------------------
(* Notifications and their channel, side by side.                            *)

ofNotify == <<notifyNow, claim, delivery, job, tries, fate>>
ofChannel == <<channel, probe, passed>>
noticeVars == <<part, ofNotify, ofChannel>>

NoNotify ==
  /\ notifyNow = "-" /\ claim = "-" /\ delivery = "-" /\ job = "-" /\ tries = "-" /\ fate = "-"
NoChannel ==
  /\ channel = "-" /\ probe = "-" /\ passed = "-"
NoNotices == NoNotify /\ NoChannel

NoticeInit ==
  /\ part \in {"N", "Ch"}
  /\ IF part = "N" THEN N!Init ELSE NoNotify
  /\ IF part = "Ch" THEN Ch!Init ELSE NoChannel

NoticeNext ==
  \/ part = "N" /\ N!Next /\ UNCHANGED <<part, ofChannel>>
  \/ part = "Ch" /\ Ch!Next /\ UNCHANGED <<part, ofNotify>>

NoticeSpec == NoticeInit /\ [][NoticeNext]_noticeVars

\* A notification is delivered, waiting for its next try or given up for a
\* reason that holds, and a channel is in service exactly as its streak of
\* failures says.
NoticesAccounted ==
  /\ part = "N" => N!DeliveryAccounted
  /\ part = "Ch" => Ch!ServiceMatchesStreak

\* The delays are a list of numbers, and so are the limits.
ASSUME NoticeAssumption ==
  Backoff \in Seq(Nat) /\ Batch \in Nat /\ ThresholdsOrdered

\* Deliveries and the channel, for every list of delays and every threshold.
THEOREM NoticesKept == NoticeSpec => []NoticesAccounted
<1>1. NoticeInit => (part = "N" => N!Init) /\ (part = "Ch" => Ch!Init)
  BY Zenon DEF NoticeInit
<1>2. [NoticeNext]_noticeVars => /\ part = "N" => [N!Next]_(N!vars)
                                 /\ part = "Ch" => [Ch!Next]_(Ch!vars)
  BY DEF NoticeNext, noticeVars, ofNotify, ofChannel, N!vars, Ch!vars
<1>3. [NoticeNext]_noticeVars => /\ part = "N" <=> (part = "N")'
                                 /\ part = "Ch" <=> (part = "Ch")'
  BY DEF NoticeNext, noticeVars
<1>4. N!Spec => []N!DeliveryAccounted
  BY Zenon, NoticeAssumption, DeliveriesAccounted
<1>5. Ch!Spec => []Ch!ServiceMatchesStreak
  BY Zenon, NoticeAssumption, ServiceTellsStreak
<1>6. QED
  BY <1>1, <1>2, <1>3, <1>4, <1>5, PTL DEF NoticeSpec, N!Spec, Ch!Spec, NoticesAccounted
===============================================================================
