---------------------------- MODULE ChargesProofs ----------------------------
(***************************************************************************)
(* For any number of callers, webhook handlers, keys and providers: the    *)
(* ledger of attempts shows every charge, an attempt that counts as        *)
(* succeeded took money, and one key is charged once when nothing may fail *)
(* over.                                                                   *)
(*                                                                         *)
(* And for events that are applied one at a time: the invoice is never     *)
(* credited with more than was taken.  A process that is about to record a *)
(* payment has made an attempt succeed that had not, so payments recorded  *)
(* and under way are never more than the attempts that succeeded, each of  *)
(* which took money.                                                       *)
(***************************************************************************)
EXTENDS Charges, FiniteSetTheorems, WellFoundedInduction, TLAPS

Labels == {"idle", "insert", "charge", "complete", "record", "add", "settle", "close",
           "claim", "apply", "mark", "dispute", "finish"}

AttemptRows == [provider : Providers, state : {"pending", "succeeded", "failed"}, ref : BOOLEAN]
ChargeRows == [key : Keys \cup {"none"}, order : Orders \cup {<<>>}, i : Nat,
               result : {"none", "succeeded", "pending", "failed", "error"}]
DeliveryRows == [event : Events \cup {"none"}, pay : Payments \cup {"none"},
                 state : {"none", "succeeded", "pending", "failed", "disputed"}, retry : BOOLEAN,
                 result : {"none", "processed", "ignored", "failed", "dead_letter"}]

Typed ==
  /\ TypeOK
  /\ pc \in [Procs -> Labels]
  /\ charge \in [Callers -> ChargeRows]
  /\ delivery \in [Deliveries -> DeliveryRows]
  /\ methods \in (SUBSET Providers) \ {{}} /\ failover \in BOOLEAN

\* The key and the charge of a call: KeyOf and PaymentOf of what is in hand.
Key(call) == <<call.key, IF call.i = 1 THEN "first" ELSE call.order[call.i]>>
Payment(call) == <<Key(call), call.order[call.i]>>

\* A call in the loop over the providers, and one whose attempt is recorded and
\* not yet completed.
Looping == {"insert", "charge", "complete"}
Holding == {"charge", "complete"}

\* A call has a provider of its order in hand.  Its attempt is the one it
\* recorded, and what it is about to store is what became of the charge.
CallerOK(at, call, rows, paid) ==
  /\ at \in Looping => call.key \in Keys /\ call.order \in Orders /\ call.i \in DOMAIN call.order
  /\ at \in Holding => rows[Key(call)] = [provider |-> call.order[call.i],
                                          state |-> "pending", ref |-> FALSE]
  /\ at = "complete" =>
       /\ call.result # "none"
       /\ call.result # "error" => paid[Payment(call)] # "none"
       /\ call.result = "succeeded" => paid[Payment(call)] = "taken"

\* A delivery has an event and a charge in hand, and before it completes the
\* attempt of the charge that attempt has its reference.
DeliveryOK(at, event, rows, paid) ==
  /\ at # "idle" => event.event \in Events /\ event.pay \in Payments
  /\ at \in {"claim", "apply", "complete"} =>
       /\ event.state # "none"
       /\ event.state = "succeeded" => paid[event.pay] = "taken"
       /\ event.state = "failed" => paid[event.pay] = "declined"
  /\ at = "complete" =>
       /\ event.state # "disputed"
       /\ rows[event.pay[1]].ref /\ rows[event.pay[1]].provider = event.pay[2]
  /\ at = "finish" => event.result # "none"

\* What a row of the ledger says of the charge.
RowOK(a, row, paid) ==
  /\ row # NoAttempt => <<a, row.provider>> \in Payments
  /\ row.ref => paid[<<a, row.provider>>] # "none"
  /\ row.state = "succeeded" => paid[<<a, row.provider>>] = "taken"

\* Every charge has a row.
Shown(rows, paid) ==
  \A pay \in Payments :
    paid[pay] # "none" => rows[pay[1]] # NoAttempt /\ rows[pay[1]].provider = pay[2]

\* No two calls hold the attempt of a key.
Alone ==
  \A c, d \in Callers :
    pc[c] \in Holding /\ pc[d] \in Holding /\ c # d => Key(charge[c]) # Key(charge[d])

\* Without fail-over, and with all providers to choose from, the first of the
\* order is the only one charged.
Manual == ~failover /\ methods = Providers
FirstOnly ==
  Manual => /\ \A c \in Callers : pc[c] \in Looping => charge[c].i = 1
            /\ \A a \in Attempts : attempts[a] # NoAttempt => a[2] = "first"

IInv ==
  /\ Typed
  /\ \A c \in Callers : CallerOK(pc[c], charge[c], attempts, money)
  /\ \A d \in Deliveries : DeliveryOK(pc[d], delivery[d], attempts, money)
  /\ \A a \in Attempts : RowOK(a, attempts[a], money)
  /\ Shown(attempts, money)
  /\ Alone
  /\ FirstOnly

-----------------------------------------------------------------------------
(* The order of the providers.                                                *)

\* A set of numbers that is not empty has a least element.
LEMMA Least ==
  ASSUME NEW S \in SUBSET Nat, S # {}
  PROVE  \E n \in S : \A m \in S : n <= m
<1> DEFINE less == OpToRel(<, Nat)
<1>1. IsWellFoundedOn(less, Nat)
  BY Zenon, NatLessThanWellFounded
<1>2. \A m, n \in Nat : m < n => <<m, n>> \in less
  BY DEF OpToRel
<1> HIDE DEF less
<1>3. PICK n \in S : \A m \in S : ~(<<m, n>> \in less)
  BY Zenon, <1>1, WFMin
<1>4. ASSUME NEW m \in S PROVE n <= m
  <2>1. m \in Nat /\ n \in Nat
    OBVIOUS
  <2>2. ~(m < n)
    BY Zenon, <1>2, <1>3, <2>1
  <2>3. QED
    BY <2>1, <2>2
<1>5. QED
  BY <1>4

\* Soonest picks the least of the places.
LEMMA SoonestIsLeast ==
  ASSUME NEW places \in SUBSET Nat, places # {}
  PROVE  Soonest(places) \in places /\ \A k \in places : Soonest(places) <= k
<1>1. \E j \in places : \A k \in places : j <= k
  BY Least
<1>2. QED
  BY Zenon, <1>1 DEF Soonest

\* An order names every provider.
LEMMA OrderIsComplete ==
  ASSUME NEW o \in Orders, NEW m \in Providers
  PROVE  \E j \in DOMAIN o : o[j] = m
<1> DEFINE n == Cardinality(Providers)
<1>1. IsFiniteSet(Providers) /\ n \in Nat
  BY ChargesAssumption, FS_CardinalityType
<1>2. o \in [1..n -> Providers] /\ \A i, j \in 1..n : o[i] = o[j] => i = j
  BY DEF Orders
<1>3. IsFiniteSet(1..n) /\ Cardinality(1..n) = n
  BY <1>1, FS_Interval
<1>4. IsFiniteSet(Providers \ {m}) /\ Cardinality(Providers \ {m}) = n - 1
  BY <1>1, FS_RemoveElement
<1> HIDE DEF n
<1>5. CASE \A j \in 1..n : o[j] # m
  <2>1. o \in [1..n -> Providers \ {m}]
    BY <1>2, <1>5
  <2>2. n - 1 < n
    BY <1>1
  <2>3. \E x, y \in 1..n : x # y /\ o[x] = o[y]
    BY Zenon, <1>3, <1>4, <2>1, <2>2, FS_PigeonHole
  <2>4. QED
    BY <1>2, <2>3
<1>6. QED
  BY <1>2, <1>5

\* The places a call may go on with.
LEMMA LaterPlaces ==
  ASSUME NEW o \in Orders, NEW i \in Nat
  PROVE  /\ Later(o, i) \in SUBSET Nat
         /\ Later(o, i) # {} =>
              /\ Soonest(Later(o, i)) \in DOMAIN o
              /\ Soonest(Later(o, i)) \in Nat
<1>1. Cardinality(Providers) \in Nat
  BY ChargesAssumption, FS_CardinalityType
<1>2. DOMAIN o \subseteq Nat
  BY <1>1 DEF Orders
<1>3. Later(o, i) \in SUBSET Nat /\ Later(o, i) \subseteq DOMAIN o
  BY <1>2 DEF Later
<1>4. QED
  BY <1>2, <1>3, SoonestIsLeast

\* The first place a call begins with.
LEMMA FirstPlace ==
  ASSUME NEW o \in Orders, methods \in (SUBSET Providers) \ {{}}
  PROVE  /\ Soonest(Later(o, 0)) \in DOMAIN o
         /\ Soonest(Later(o, 0)) \in Nat
         /\ methods = Providers => Soonest(Later(o, 0)) = 1
<1>1. Cardinality(Providers) \in Nat
  BY ChargesAssumption, FS_CardinalityType
<1>2. o \in [1..Cardinality(Providers) -> Providers]
  BY DEF Orders
<1>3. PICK m \in Providers : m \in methods
  <2>1. methods \subseteq Providers /\ methods # {}
    OBVIOUS
  <2>2. QED
    BY <2>1
<1>4. PICK j \in DOMAIN o : o[j] = m
  BY OrderIsComplete
<1>5. j \in Later(o, 0)
  BY <1>1, <1>2, <1>3, <1>4 DEF Later
<1>6. Soonest(Later(o, 0)) \in DOMAIN o /\ Soonest(Later(o, 0)) \in Nat
  BY <1>5, LaterPlaces
<1>7. ASSUME methods = Providers PROVE Soonest(Later(o, 0)) = 1
  <2>1. 1 \in DOMAIN o /\ o[1] \in Providers
    BY <1>1, <1>2, <1>4
  <2>2. 1 \in Later(o, 0)
    BY <1>7, <2>1 DEF Later
  <2>3. Soonest(Later(o, 0)) \in Later(o, 0) /\ Soonest(Later(o, 0)) <= 1
    BY <2>2, LaterPlaces, SoonestIsLeast
  <2>4. Soonest(Later(o, 0)) > 0
    BY <2>3 DEF Later
  <2>5. QED
    BY <1>6, <2>3, <2>4
<1>8. QED
  BY <1>6, <1>7

-----------------------------------------------------------------------------
(* What the steps leave alone.                                                *)

\* A provider takes back no decision.
MoneyKept(a, b) ==
  \A pay \in Payments : /\ a[pay] # "none" => b[pay] # "none"
                        /\ a[pay] \in {"taken", "declined"} => b[pay] = a[pay]

\* An attempt keeps its provider and its reference.
RefsKept(a, b) ==
  \A k \in Attempts : a[k].ref => b[k].ref /\ b[k].provider = a[k].provider

\* p moves to a label; the others keep what they have in hand.
Moved(p, at) ==
  /\ pc' = [pc EXCEPT ![p] = at]
  /\ charge' \in [Callers -> ChargeRows] /\ delivery' \in [Deliveries -> DeliveryRows]
  /\ \A c \in Callers : c # p => charge'[c] = charge[c]
  /\ \A d \in Deliveries : d # p => delivery'[d] = delivery[d]

\* A charge is about a row of the ledger.
LEMMA PaymentFields ==
  ASSUME NEW pay \in Payments
  PROVE  /\ pay[1] \in Attempts /\ pay[2] \in Providers /\ pay = <<pay[1], pay[2]>>
         /\ pay[1][1] \in Keys /\ pay[1][2] \in {"first", pay[2]}
         /\ pay[1] = <<pay[1][1], pay[1][2]>>
BY DEF Payments, Attempts

\* So is the charge of a call.
LEMMA CallFields ==
  ASSUME NEW call, call.key \in Keys, call.order \in Orders, call.i \in DOMAIN call.order
  PROVE  /\ Key(call) \in Attempts /\ Payment(call) \in Payments
         /\ call.order[call.i] \in Providers
         /\ Payment(call)[1] = Key(call) /\ Payment(call)[2] = call.order[call.i]
         /\ call.i = 1 => Key(call)[2] = "first"
<1>1. call.order[call.i] \in Providers
  BY Zenon DEF Orders
<1>2. Key(call) \in Attempts
  BY <1>1 DEF Key, Attempts
<1>3. Key(call)[2] \in {"first", call.order[call.i]}
  BY DEF Key
<1>4. Payment(call) \in Payments
  BY <1>1, <1>2, <1>3 DEF Payment, Payments
<1>5. QED
  BY <1>1, <1>2, <1>4 DEF Payment, Key

\* A call keeps its attempt unless somebody writes it.
LEMMA CallerKept ==
  ASSUME NEW at, NEW call, NEW a, NEW b, NEW m, NEW n, CallerOK(at, call, a, m),
         MoneyKept(m, n), at \in Holding => b[Key(call)] = a[Key(call)]
  PROVE  CallerOK(at, call, b, n)
<1>1. CASE at = "complete"
  <2>1. call.key \in Keys /\ call.order \in Orders /\ call.i \in DOMAIN call.order
    BY <1>1 DEF CallerOK, Looping
  <2>2. Payment(call) \in Payments
    BY <2>1, CallFields
  <2>3. QED
    BY <1>1, <2>2 DEF CallerOK, MoneyKept, Looping, Holding
<1>2. CASE at # "complete"
  BY <1>2 DEF CallerOK
<1>3. QED
  BY <1>1, <1>2

\* A delivery keeps what it read of a charge that is decided.
LEMMA DeliveryKept ==
  ASSUME NEW at, NEW event, NEW a, NEW b, NEW m, NEW n, DeliveryOK(at, event, a, m),
         MoneyKept(m, n), RefsKept(a, b)
  PROVE  DeliveryOK(at, event, b, n)
<1>1. CASE at = "idle"
  BY <1>1 DEF DeliveryOK
<1>2. CASE at # "idle"
  <2>1. event.pay \in Payments /\ event.pay[1] \in Attempts
    BY <1>2, PaymentFields DEF DeliveryOK
  <2>2. QED
    BY <1>2, <2>1 DEF DeliveryOK, MoneyKept, RefsKept
<1>3. QED
  BY <1>1, <1>2

\* A step of p keeps the invariant if it keeps the ledger and what p has in hand.
LEMMA StepKept ==
  ASSUME IInv, NEW p \in Procs, NEW at \in Labels, Moved(p, at), TypeOK',
         UNCHANGED settings, MoneyKept(money, money'), RefsKept(attempts, attempts'),
         \A a \in Attempts : RowOK(a, attempts'[a], money'),
         Shown(attempts', money'),
         \A c \in Callers : c # p /\ pc[c] \in Holding =>
           attempts'[Key(charge[c])] = attempts[Key(charge[c])],
         p \in Callers => CallerOK(at, charge'[p], attempts', money'),
         p \in Callers /\ at \in Holding =>
           \A c \in Callers : c # p /\ pc[c] \in Holding => Key(charge[c]) # Key(charge'[p]),
         p \in Deliveries => DeliveryOK(at, delivery'[p], attempts', money'),
         Manual => /\ p \in Callers /\ at \in Looping => charge'[p].i = 1
                   /\ \A a \in Attempts : attempts'[a] # NoAttempt => a[2] = "first"
  PROVE  IInv'
<1>0. /\ pc \in [Procs -> Labels] /\ Callers \subseteq Procs /\ Deliveries \subseteq Procs
      /\ \A q \in Procs : pc'[q] = IF q = p THEN at ELSE pc[q]
  BY DEF IInv, Typed, Moved, Procs
<1>1. Typed'
  BY <1>0 DEF IInv, Typed, Moved, settings
<1>2. ASSUME NEW c \in Callers
      PROVE  CallerOK(pc'[c], charge'[c], attempts', money')
  <2>1. CASE c = p
    BY <1>0, <2>1
  <2>2. CASE c # p
    <3>1. CallerOK(pc[c], charge[c], attempts, money)
      BY DEF IInv
    <3>2. CallerOK(pc[c], charge[c], attempts', money')
      BY <2>2, <3>1, CallerKept
    <3>3. pc'[c] = pc[c] /\ charge'[c] = charge[c]
      BY <1>0, <2>2 DEF Moved
    <3>4. QED
      BY <3>2, <3>3
  <2>3. QED
    BY <2>1, <2>2
<1>3. ASSUME NEW d \in Deliveries
      PROVE  DeliveryOK(pc'[d], delivery'[d], attempts', money')
  <2>1. CASE d = p
    BY <1>0, <2>1
  <2>2. CASE d # p
    <3>1. DeliveryOK(pc[d], delivery[d], attempts, money)
      BY DEF IInv
    <3>2. DeliveryOK(pc[d], delivery[d], attempts', money')
      BY <3>1, DeliveryKept
    <3>3. pc'[d] = pc[d] /\ delivery'[d] = delivery[d]
      BY <1>0, <2>2 DEF Moved
    <3>4. QED
      BY <3>2, <3>3
  <2>3. QED
    BY <2>1, <2>2
<1>4. Alone'
  <2> SUFFICES ASSUME NEW c \in Callers, NEW d \in Callers,
                      pc'[c] \in Holding, pc'[d] \in Holding, c # d
               PROVE  Key(charge'[c]) # Key(charge'[d])
    BY DEF Alone
  <2>1. CASE c = p
    BY <1>0, <2>1 DEF Moved
  <2>2. CASE d = p
    BY <1>0, <2>2 DEF Moved
  <2>3. CASE c # p /\ d # p
    BY <1>0, <2>3 DEF Moved, IInv, Alone
  <2>4. QED
    BY <2>1, <2>2, <2>3
<1>5. FirstOnly'
  <2> SUFFICES ASSUME Manual
               PROVE  /\ \A c \in Callers : pc'[c] \in Looping => charge'[c].i = 1
                      /\ \A a \in Attempts : attempts'[a] # NoAttempt => a[2] = "first"
    BY DEF FirstOnly, Manual, settings
  <2>1. ASSUME NEW c \in Callers, pc'[c] \in Looping
        PROVE  charge'[c].i = 1
    <3>1. CASE c = p
      BY <1>0, <2>1, <3>1
    <3>2. CASE c # p
      BY <1>0, <2>1, <3>2 DEF IInv, FirstOnly, Moved
    <3>3. QED
      BY <3>1, <3>2
  <2>2. QED
    BY <2>1
<1>6. QED
  BY <1>1, <1>2, <1>3, <1>4, <1>5 DEF IInv

-----------------------------------------------------------------------------
(* How a process moves on.                                                    *)

\* Nobody has nothing in hand that is ill-formed.
LEMMA NothingTyped == NoCharge \in ChargeRows /\ NoDelivery \in DeliveryRows
BY DEF NoCharge, ChargeRows, NoDelivery, DeliveryRows

LEMMA GotoMoved ==
  ASSUME IInv, NEW p \in Procs, NEW at, Goto(p, at), UNCHANGED <<charge, delivery>>
  PROVE  Moved(p, at)
BY DEF Goto, Moved, IInv, Typed

LEMMA ReturnMoved ==
  ASSUME IInv, NEW p \in Procs, Return(p)
  PROVE  Moved(p, "idle")
<1>1. charge' \in [Callers -> ChargeRows] /\ delivery' \in [Deliveries -> DeliveryRows]
  BY NothingTyped DEF Return, IInv, Typed
<1>2. QED
  BY <1>1 DEF Return, Goto, Moved

LEMMA FinishMoved ==
  ASSUME IInv, NEW d \in Deliveries, NEW result \in {"processed", "ignored", "failed"},
         FinishWith(d, result)
  PROVE  /\ Moved(d, "finish")
         /\ delivery'[d].result # "none"
         /\ delivery'[d].event = delivery[d].event /\ delivery'[d].pay = delivery[d].pay
<1>0. delivery \in [Deliveries -> DeliveryRows] /\ charge \in [Callers -> ChargeRows]
  BY DEF IInv, Typed
<1>1. PICK r \in {"processed", "ignored", "failed", "dead_letter"} :
        delivery' = [delivery EXCEPT ![d] = [delivery[d] EXCEPT !.result = r]]
  BY Zenon DEF FinishWith
<1>2. delivery[d] \in DeliveryRows
  BY <1>0
<1>3. /\ [delivery[d] EXCEPT !.result = r] \in DeliveryRows
      /\ [delivery[d] EXCEPT !.result = r].result = r
      /\ [delivery[d] EXCEPT !.result = r].event = delivery[d].event
      /\ [delivery[d] EXCEPT !.result = r].pay = delivery[d].pay
  BY <1>2 DEF DeliveryRows
<1>4. /\ delivery' \in [Deliveries -> DeliveryRows]
      /\ delivery'[d] = [delivery[d] EXCEPT !.result = r]
      /\ \A e \in Deliveries : e # d => delivery'[e] = delivery[e]
  BY <1>0, <1>1, <1>3
<1>5. pc' = [pc EXCEPT ![d] = "finish"] /\ charge' = charge
  BY DEF FinishWith, Goto
<1>6. QED
  BY <1>0, <1>3, <1>4, <1>5 DEF Moved

\* The loop goes on with a later provider of the same order, or the call returns.
LEMMA NextProviderMoved ==
  ASSUME IInv, NEW c \in Callers, pc[c] \in Looping, NextProvider(c)
  PROVE  \/ Moved(c, "idle")
         \/ /\ Moved(c, "insert") /\ failover
            /\ charge'[c].key \in Keys /\ charge'[c].order \in Orders
            /\ charge'[c].i \in DOMAIN charge'[c].order
<1>0. /\ charge[c].key \in Keys /\ charge[c].order \in Orders
      /\ charge[c] \in ChargeRows /\ charge[c].i \in Nat
      /\ charge \in [Callers -> ChargeRows] /\ delivery \in [Deliveries -> DeliveryRows]
  BY Zenon DEF IInv, Typed, CallerOK, ChargeRows
<1> DEFINE later == Later(charge[c].order, charge[c].i)
           next == Soonest(later)
           call == [charge[c] EXCEPT !.i = next, !.result = "none"]
<1>1. CASE failover /\ later # {}
  <2>1. next \in DOMAIN charge[c].order /\ next \in Nat
    BY <1>0, <1>1, LaterPlaces
  <2>2. charge' = [charge EXCEPT ![c] = call] /\ pc' = [pc EXCEPT ![c] = "insert"]
        /\ delivery' = delivery
    BY <1>1 DEF NextProvider, Goto
  <2> HIDE DEF next
  <2>3. /\ call \in ChargeRows /\ call.key = charge[c].key
        /\ call.order = charge[c].order /\ call.i = next
    BY Zenon, <1>0, <2>1 DEF ChargeRows
  <2> HIDE DEF call
  <2>4. charge' \in [Callers -> ChargeRows] /\ charge'[c] = call
        /\ \A d \in Callers : d # c => charge'[d] = charge[d]
    BY <1>0, <2>2, <2>3
  <2>5. QED
    BY <1>0, <1>1, <2>1, <2>2, <2>3, <2>4 DEF Moved
<1>2. CASE ~(failover /\ later # {})
  <2>1. Return(c)
    BY <1>2 DEF NextProvider
  <2>2. QED
    BY <2>1, ReturnMoved DEF Procs
<1>3. QED
  BY <1>1, <1>2

\* A call that is not in the loop has nothing to keep, and a delivery in between
\* only its event.
LEMMA NoCallerDuty ==
  ASSUME NEW at \in Labels \ Looping, NEW call, NEW rows, NEW paid
  PROVE  CallerOK(at, call, rows, paid)
BY DEF CallerOK, Looping, Holding

LEMMA DeliveryDuty ==
  ASSUME NEW at \in Labels \ {"claim", "apply", "complete", "finish"},
         NEW event, NEW rows, NEW paid,
         at # "idle" => event.event \in Events /\ event.pay \in Payments
  PROVE  DeliveryOK(at, event, rows, paid)
BY DEF DeliveryOK

\* Nothing is lost where nothing changes.
LEMMA SelfKept ==
  ASSUME NEW a
  PROVE  MoneyKept(a, a) /\ RefsKept(a, a)
BY DEF MoneyKept, RefsKept

\* A step that leaves the ledger of attempts and the money alone, and after
\* which p holds no attempt.
LEMMA QuietKept ==
  ASSUME IInv, NEW p \in Procs, NEW at \in Labels \ Holding, Moved(p, at), TypeOK',
         UNCHANGED <<attempts, money, settings>>,
         p \in Callers => CallerOK(at, charge'[p], attempts, money),
         p \in Callers /\ at = "insert" /\ Manual => charge'[p].i = 1,
         p \in Deliveries => DeliveryOK(at, delivery'[p], attempts, money)
  PROVE  IInv'
<1>1. /\ MoneyKept(money, money') /\ RefsKept(attempts, attempts')
      /\ attempts' = attempts /\ money' = money /\ at \in Labels /\ at \notin Holding
      /\ UNCHANGED settings
  BY SelfKept
<1>2. /\ \A a \in Attempts : RowOK(a, attempts'[a], money')
      /\ Shown(attempts', money')
      /\ Manual => \A a \in Attempts : attempts'[a] # NoAttempt => a[2] = "first"
  BY <1>1 DEF IInv, FirstOnly
<1>3. at \in Looping => at = "insert"
  BY <1>1 DEF Looping, Holding
<1>4. QED
  BY <1>1, <1>2, <1>3, StepKept

-----------------------------------------------------------------------------
(* ChargeInvoice.                                                             *)

\* KeyOf, ProviderOf and PaymentOf of a caller in the loop.
LEMMA CallInHand ==
  ASSUME IInv, NEW c \in Callers, pc[c] \in Looping
  PROVE  /\ charge[c].key \in Keys /\ charge[c].order \in Orders
         /\ charge[c].i \in DOMAIN charge[c].order
         /\ KeyOf(c) = Key(charge[c]) /\ PaymentOf(c) = Payment(charge[c])
         /\ ProviderOf(c) = charge[c].order[charge[c].i]
         /\ KeyOf(c) \in Attempts /\ ProviderOf(c) \in Providers /\ PaymentOf(c) \in Payments
         /\ PaymentOf(c) = <<KeyOf(c), ProviderOf(c)>>
         /\ Manual => KeyOf(c)[2] = "first"
<1>1. /\ charge[c].key \in Keys /\ charge[c].order \in Orders
      /\ charge[c].i \in DOMAIN charge[c].order
  BY Zenon DEF IInv, CallerOK
<1>2. /\ KeyOf(c) = Key(charge[c]) /\ PaymentOf(c) = Payment(charge[c])
      /\ ProviderOf(c) = charge[c].order[charge[c].i]
      /\ PaymentOf(c) = <<KeyOf(c), ProviderOf(c)>>
  BY DEF KeyOf, Key, PaymentOf, Payment, ProviderOf
<1>3. Manual => charge[c].i = 1
  BY DEF IInv, FirstOnly
<1>4. QED
  BY Zenon, <1>1, <1>2, <1>3, CallFields

LEMMA ChargeBeginKept ==
  ASSUME IInv, NEW c \in Callers, ChargeBegin(c)
  PROVE  IInv'
<1>1. PICK k \in Keys, o \in Orders :
        charge' = [charge EXCEPT ![c] = [key |-> k, order |-> o, i |-> Soonest(Later(o, 0)),
                                         result |-> "none"]]
  BY Zenon DEF ChargeBegin
<1> DEFINE call == [key |-> k, order |-> o, i |-> Soonest(Later(o, 0)), result |-> "none"]
<1>2. /\ Soonest(Later(o, 0)) \in DOMAIN o /\ Soonest(Later(o, 0)) \in Nat
      /\ methods = Providers => Soonest(Later(o, 0)) = 1
  BY FirstPlace DEF IInv, Typed
<1>3. /\ call \in ChargeRows /\ call.key \in Keys /\ call.order \in Orders
      /\ call.i \in DOMAIN call.order /\ (methods = Providers => call.i = 1)
  BY <1>2 DEF ChargeRows
<1>4. charge' = [charge EXCEPT ![c] = call]
  BY <1>1
<1> HIDE DEF call
<1>5. Moved(c, "insert") /\ charge'[c] = call
  BY <1>3, <1>4 DEF IInv, Typed, Moved, ChargeBegin, Goto
<1>6. /\ c \in Procs /\ c \notin Deliveries /\ "insert" \in Labels \ Holding
  BY ChargesAssumption DEF Procs, Labels, Holding
<1>7. CallerOK("insert", charge'[c], attempts, money)
  BY <1>3, <1>5 DEF CallerOK, Holding
<1>8. TypeOK' /\ UNCHANGED <<attempts, money, settings>>
  BY DEF IInv, Typed, TypeOK, ChargeBegin, Taken
<1>9. QED
  BY <1>3, <1>5, <1>6, <1>7, <1>8, QuietKept DEF Manual

\* A caller goes on to the next provider, when the step left the attempts and
\* the money alone.
LEMMA NextProviderKept ==
  ASSUME IInv, NEW c \in Callers, pc[c] \in Looping, NextProvider(c),
         UNCHANGED <<invoice, fresh, attempts, money, ledger, settings>>
  PROVE  IInv'
<1>1. /\ c \in Procs /\ c \notin Deliveries
      /\ "insert" \in Labels \ Holding /\ "idle" \in Labels \ Holding
      /\ "idle" \in Labels \ Looping
  BY ChargesAssumption DEF Procs, Labels, Holding, Looping
<1>2. TypeOK'
  BY DEF IInv, Typed, TypeOK
<1>3. CASE Moved(c, "idle")
  BY <1>1, <1>2, <1>3, NoCallerDuty, QuietKept
<1>4. CASE /\ Moved(c, "insert") /\ failover
           /\ charge'[c].key \in Keys /\ charge'[c].order \in Orders
           /\ charge'[c].i \in DOMAIN charge'[c].order
  <2>1. CallerOK("insert", charge'[c], attempts, money)
    BY <1>4 DEF CallerOK, Holding
  <2>2. ~Manual
    BY <1>4 DEF Manual
  <2>3. QED
    BY <1>1, <1>2, <1>4, <2>1, <2>2, QuietKept
<1>5. QED
  BY <1>3, <1>4, NextProviderMoved

\* The attempt is recorded: the key was free, so nobody holds it and no money was
\* asked for under it.
LEMMA ChargeInsertKept ==
  ASSUME IInv, NEW c \in Callers, ChargeInsert(c)
  PROVE  IInv'
<1>0. pc[c] = "insert" /\ pc[c] \in Looping
  BY DEF ChargeInsert, Looping
<1>1. CASE attempts[KeyOf(c)] = NoAttempt
  <2> DEFINE row == [provider |-> ProviderOf(c), state |-> "pending", ref |-> FALSE]
             key == KeyOf(c)
  <2>1. /\ key \in Attempts /\ ProviderOf(c) \in Providers
        /\ <<key, ProviderOf(c)>> \in Payments /\ key = Key(charge[c])
        /\ ProviderOf(c) = charge[c].order[charge[c].i] /\ (Manual => key[2] = "first")
        /\ charge[c].key \in Keys /\ charge[c].order \in Orders
        /\ charge[c].i \in DOMAIN charge[c].order
    BY <1>0, CallInHand
  <2>2. /\ attempts' = [attempts EXCEPT ![key] = row] /\ Goto(c, "charge")
        /\ UNCHANGED <<charge, delivery>>
        /\ UNCHANGED <<invoice, fresh, money, ledger, settings>>
    BY <1>1 DEF ChargeInsert
  <2>3. /\ attempts \in [Attempts -> AttemptRows \cup {NoAttempt}]
        /\ row \in AttemptRows /\ row.ref = FALSE /\ row.state = "pending"
        /\ row.provider = ProviderOf(c) /\ NoAttempt.ref = FALSE
        /\ row # NoAttempt
    BY <2>1 DEF IInv, Typed, TypeOK, AttemptRows, NoAttempt
  <2>4. attempts[key] = NoAttempt
    BY <1>1
  <2> HIDE DEF row, key
  <2>5. /\ attempts' \in [Attempts -> AttemptRows \cup {NoAttempt}]
        /\ \A a \in Attempts : attempts'[a] = IF a = key THEN row ELSE attempts[a]
    BY <2>1, <2>2, <2>3
  <2>6. TypeOK'
    BY <2>2, <2>5 DEF IInv, Typed, TypeOK, AttemptRows
  <2>7. MoneyKept(money, money') /\ RefsKept(attempts, attempts')
    BY <2>2, <2>3, <2>4, <2>5 DEF MoneyKept, RefsKept
  <2>8. \A a \in Attempts : RowOK(a, attempts'[a], money')
    BY <2>1, <2>2, <2>3, <2>5 DEF IInv, RowOK
  <2>9. Shown(attempts', money')
    <3> SUFFICES ASSUME NEW pay \in Payments, money[pay] # "none"
                 PROVE  attempts'[pay[1]] # NoAttempt /\ attempts'[pay[1]].provider = pay[2]
      BY <2>2 DEF Shown
    <3>1. attempts[pay[1]] # NoAttempt /\ attempts[pay[1]].provider = pay[2]
      BY DEF IInv, Shown
    <3>2. QED
      BY <2>4, <2>5, <3>1, PaymentFields
  <2>10. ASSUME NEW d \in Callers, d # c, pc[d] \in Holding
         PROVE  /\ Key(charge[d]) # key
                /\ attempts'[Key(charge[d])] = attempts[Key(charge[d])]
    <3>1. pc[d] \in Looping
      BY <2>10 DEF Holding, Looping
    <3>2. Key(charge[d]) \in Attempts
      BY <2>10, <3>1, CallInHand
    <3>3. attempts[Key(charge[d])].state = "pending"
      <4>1. CallerOK(pc[d], charge[d], attempts, money)
        BY DEF IInv
      <4>2. QED
        BY <2>10, <4>1 DEF CallerOK
    <3>4. Key(charge[d]) # key
      BY <2>4, <3>3 DEF NoAttempt
    <3>5. QED
      BY <2>5, <3>2, <3>4
  <2>11. CallerOK("charge", charge'[c], attempts', money')
    BY <2>1, <2>2, <2>5 DEF CallerOK, row
  <2>12. /\ c \in Procs /\ c \notin Deliveries /\ "charge" \in Labels
    BY ChargesAssumption DEF Procs, Labels
  <2>13. Moved(c, "charge")
    BY <2>2, <2>12, GotoMoved
  <2>14. Manual => /\ charge'[c].i = 1
                   /\ \A a \in Attempts : attempts'[a] # NoAttempt => a[2] = "first"
    BY <1>0, <2>1, <2>2, <2>5 DEF IInv, FirstOnly
  <2>15. charge'[c] = charge[c] /\ UNCHANGED settings
    BY <2>2
  <2>16. QED
    BY Zenon, <2>1, <2>6, <2>7, <2>8, <2>9, <2>10, <2>11, <2>12, <2>13, <2>14, <2>15, StepKept
<1>2. CASE attempts[KeyOf(c)] # NoAttempt
  BY <1>0, <1>2, NextProviderKept DEF ChargeInsert
<1>3. QED
  BY <1>1, <1>2

\* The rows keep saying the truth while the money moves on.
LEMMA MoneyWritten ==
  ASSUME IInv, NEW pay \in Payments, NEW outcome \in {"none", "pending", "taken", "declined"},
         money' = [money EXCEPT ![pay] = outcome], UNCHANGED attempts,
         money[pay] # "none" => outcome # "none",
         money[pay] \in {"taken", "declined"} => outcome = money[pay],
         outcome # "none" => attempts[pay[1]] # NoAttempt /\ attempts[pay[1]].provider = pay[2]
  PROVE  /\ money' \in [Payments -> {"none", "pending", "taken", "declined"}]
         /\ money'[pay] = outcome
         /\ MoneyKept(money, money') /\ RefsKept(attempts, attempts')
         /\ \A a \in Attempts : RowOK(a, attempts'[a], money')
         /\ Shown(attempts', money')
<1>1. /\ money \in [Payments -> {"none", "pending", "taken", "declined"}]
      /\ attempts \in [Attempts -> AttemptRows \cup {NoAttempt}]
  BY DEF IInv, Typed, TypeOK, AttemptRows
<1>2. /\ money' \in [Payments -> {"none", "pending", "taken", "declined"}]
      /\ \A q \in Payments : money'[q] = IF q = pay THEN outcome ELSE money[q]
  BY <1>1
<1>3. MoneyKept(money, money')
  BY <1>2 DEF MoneyKept
<1>4. RefsKept(attempts, attempts')
  BY SelfKept
<1>5. ASSUME NEW a \in Attempts PROVE RowOK(a, attempts'[a], money')
  <2>1. RowOK(a, attempts[a], money)
    BY DEF IInv
  <2>2. attempts[a].ref \/ attempts[a].state = "succeeded" => attempts[a] # NoAttempt
    BY DEF NoAttempt
  <2>3. QED
    BY <1>3, <2>1, <2>2 DEF RowOK, MoneyKept
<1>6. Shown(attempts', money')
  BY <1>2 DEF IInv, Shown
<1>7. QED
  BY Zenon, <1>2, <1>3, <1>4, <1>5, <1>6

\* An attempt is completed, truly.
LEMMA AttemptWritten ==
  ASSUME IInv, NEW key \in Attempts, NEW row \in AttemptRows,
         attempts' = [attempts EXCEPT ![key] = row], UNCHANGED money,
         attempts[key] # NoAttempt, row.provider = attempts[key].provider,
         attempts[key].ref => row.ref,
         row.ref => money[<<key, row.provider>>] # "none",
         row.state = "succeeded" => money[<<key, row.provider>>] = "taken"
  PROVE  /\ attempts' \in [Attempts -> AttemptRows \cup {NoAttempt}]
         /\ \A a \in Attempts : attempts'[a] = IF a = key THEN row ELSE attempts[a]
         /\ MoneyKept(money, money') /\ RefsKept(attempts, attempts')
         /\ \A a \in Attempts : RowOK(a, attempts'[a], money')
         /\ Shown(attempts', money')
         /\ Manual => \A a \in Attempts : attempts'[a] # NoAttempt => a[2] = "first"
<1>1. attempts \in [Attempts -> AttemptRows \cup {NoAttempt}]
  BY DEF IInv, Typed, TypeOK, AttemptRows
<1>2. /\ attempts' \in [Attempts -> AttemptRows \cup {NoAttempt}]
      /\ \A a \in Attempts : attempts'[a] = IF a = key THEN row ELSE attempts[a]
  BY <1>1
<1>3. RefsKept(attempts, attempts') /\ MoneyKept(money, money')
  BY <1>2, SelfKept DEF RefsKept
<1>4. \A a \in Attempts : RowOK(a, attempts'[a], money')
  BY <1>2 DEF IInv, RowOK
<1>5. row # NoAttempt
  BY DEF NoAttempt, AttemptRows
<1>6. Shown(attempts', money')
  <2> SUFFICES ASSUME NEW pay \in Payments, money[pay] # "none"
               PROVE  attempts'[pay[1]] # NoAttempt /\ attempts'[pay[1]].provider = pay[2]
    BY DEF Shown
  <2>1. attempts[pay[1]] # NoAttempt /\ attempts[pay[1]].provider = pay[2]
    BY DEF IInv, Shown
  <2>2. QED
    BY <1>2, <1>5, <2>1, PaymentFields
<1>7. Manual => \A a \in Attempts : attempts'[a] # NoAttempt => a[2] = "first"
  BY <1>2 DEF IInv, FirstOnly
<1>8. QED
  BY <1>2, <1>3, <1>4, <1>6, <1>7

\* The provider is asked under a key whose attempt is recorded.
LEMMA ProviderChargeKept ==
  ASSUME IInv, NEW c \in Callers, ProviderCharge(c)
  PROVE  IInv'
<1>0. pc[c] = "charge" /\ pc[c] \in Looping
  BY DEF ProviderCharge, Looping
<1> DEFINE pay == PaymentOf(c)
<1>1. PICK outcome \in {"none", "taken", "pending", "declined"}, answered \in BOOLEAN :
        /\ money[pay] # "none" => outcome = money[pay]
        /\ answered => outcome # "none"
        /\ money' = [money EXCEPT ![pay] = outcome]
        /\ charge' = [charge EXCEPT ![c].result = IF answered THEN Reported(outcome) ELSE "error"]
  BY Zenon DEF ProviderCharge
<1>2. PICK result \in {"succeeded", "pending", "failed", "error"} :
        /\ charge' = [charge EXCEPT ![c] = [charge[c] EXCEPT !.result = result]]
        /\ result # "error" => outcome # "none"
        /\ result = "succeeded" => outcome = "taken"
  BY Zenon, <1>1 DEF Reported
<1>3. /\ charge[c].key \in Keys /\ charge[c].order \in Orders
      /\ charge[c].i \in DOMAIN charge[c].order
      /\ pay = Payment(charge[c]) /\ pay \in Payments
      /\ pay = <<Key(charge[c]), charge[c].order[charge[c].i]>>
      /\ charge \in [Callers -> ChargeRows] /\ charge[c] \in ChargeRows
  BY <1>0, CallInHand DEF IInv, Typed
<1>4. attempts[Key(charge[c])] = [provider |-> charge[c].order[charge[c].i],
                                  state |-> "pending", ref |-> FALSE]
  <2>1. CallerOK(pc[c], charge[c], attempts, money)
    BY DEF IInv
  <2>2. QED
    BY Zenon, <1>0, <2>1 DEF CallerOK, Holding
<1> DEFINE call == [charge[c] EXCEPT !.result = result]
<1>5. /\ call \in ChargeRows /\ call.key = charge[c].key /\ call.order = charge[c].order
      /\ call.i = charge[c].i /\ call.result = result
  BY <1>3 DEF ChargeRows
<1>6. charge' = [charge EXCEPT ![c] = call] /\ money' = [money EXCEPT ![pay] = outcome]
  BY Zenon, <1>1, <1>2
<1> HIDE DEF call, pay
<1>7. Key(call) = Key(charge[c]) /\ Payment(call) = pay
  BY <1>3, <1>5 DEF Key, Payment
<1>8. Moved(c, "complete") /\ charge'[c] = call
  BY <1>3, <1>5, <1>6 DEF Moved, ProviderCharge, Goto, IInv, Typed
<1>9. UNCHANGED <<invoice, fresh, attempts, ledger, delivery, settings>>
  BY DEF ProviderCharge
<1>10. attempts[pay[1]] # NoAttempt /\ attempts[pay[1]].provider = pay[2]
  BY <1>3, <1>4 DEF NoAttempt
<1>11. /\ money' \in [Payments -> {"none", "pending", "taken", "declined"}]
       /\ money'[pay] = outcome
       /\ MoneyKept(money, money') /\ RefsKept(attempts, attempts')
       /\ \A a \in Attempts : RowOK(a, attempts'[a], money')
       /\ Shown(attempts', money')
  BY Zenon, <1>1, <1>3, <1>6, <1>9, <1>10, MoneyWritten
<1>12. TypeOK'
  BY <1>9, <1>11 DEF IInv, Typed, TypeOK
<1>13. CallerOK("complete", charge'[c], attempts', money')
  BY <1>2, <1>3, <1>4, <1>5, <1>7, <1>8, <1>9, <1>11 DEF CallerOK
<1>14. ASSUME NEW d \in Callers, d # c, pc[d] \in Holding
       PROVE  Key(charge[d]) # Key(charge'[c])
  BY Zenon, <1>0, <1>7, <1>8, <1>14 DEF IInv, Alone, Holding
<1>15. Manual => /\ charge'[c].i = 1
                 /\ \A a \in Attempts : attempts'[a] # NoAttempt => a[2] = "first"
  BY <1>0, <1>5, <1>8, <1>9 DEF IInv, FirstOnly
<1>16. c \in Procs /\ c \notin Deliveries /\ "complete" \in Labels
  BY ChargesAssumption DEF Procs, Labels
<1>17. attempts' = attempts /\ UNCHANGED settings
  BY <1>9
<1>18. QED
  BY <1>8, <1>11, <1>12, <1>13, <1>14, <1>15, <1>16, <1>17, StepKept

\* The attempt is completed with what the provider said.
LEMMA ChargeCompleteKept ==
  ASSUME IInv, NEW c \in Callers, ChargeComplete(c)
  PROVE  IInv'
<1>0. pc[c] = "complete" /\ pc[c] \in Looping
  BY DEF ChargeComplete, Looping
<1> DEFINE result == charge[c].result
           key == KeyOf(c)
           row == [provider |-> ProviderOf(c), ref |-> result # "error",
                   state |-> IF result = "error" THEN "failed" ELSE result]
<1>1. /\ key \in Attempts /\ ProviderOf(c) \in Providers /\ key = Key(charge[c])
      /\ Payment(charge[c]) = <<key, ProviderOf(c)>>
      /\ ProviderOf(c) = charge[c].order[charge[c].i]
  BY <1>0, CallInHand
<1>2. /\ attempts[key] = [provider |-> ProviderOf(c), state |-> "pending", ref |-> FALSE]
      /\ result # "none"
      /\ result # "error" => money[<<key, ProviderOf(c)>>] # "none"
      /\ result = "succeeded" => money[<<key, ProviderOf(c)>>] = "taken"
  <2>1. CallerOK(pc[c], charge[c], attempts, money)
    BY DEF IInv
  <2>2. QED
    BY <1>0, <1>1, <2>1 DEF CallerOK, Holding
<1>3. result \in {"succeeded", "pending", "failed", "error"}
  BY <1>2 DEF IInv, Typed, ChargeRows
<1>4. /\ row \in AttemptRows /\ row.provider = ProviderOf(c)
      /\ row.ref = (result # "error")
      /\ row.state = "succeeded" => result = "succeeded"
  BY <1>1, <1>3 DEF AttemptRows
<1>5. /\ attempts' = [attempts EXCEPT ![key] = row]
      /\ UNCHANGED <<invoice, fresh, money, ledger, settings>>
      /\ money' = money
      /\ \/ Goto(c, "record") /\ UNCHANGED <<charge, delivery>>
         \/ NextProvider(c)
  BY DEF ChargeComplete
<1>6. attempts[key] # NoAttempt /\ attempts[key].provider = ProviderOf(c) /\ ~attempts[key].ref
  BY <1>2 DEF NoAttempt
<1> HIDE DEF result, row, key
<1>7. /\ attempts' \in [Attempts -> AttemptRows \cup {NoAttempt}]
      /\ \A a \in Attempts : attempts'[a] = IF a = key THEN row ELSE attempts[a]
      /\ MoneyKept(money, money') /\ RefsKept(attempts, attempts')
      /\ \A a \in Attempts : RowOK(a, attempts'[a], money')
      /\ Shown(attempts', money')
      /\ Manual => \A a \in Attempts : attempts'[a] # NoAttempt => a[2] = "first"
  BY Zenon, <1>1, <1>2, <1>4, <1>5, <1>6, AttemptWritten
<1>8. TypeOK' /\ UNCHANGED settings
  BY <1>5, <1>7 DEF IInv, Typed, TypeOK, AttemptRows
<1>9. ASSUME NEW d \in Callers, d # c, pc[d] \in Holding
      PROVE  attempts'[Key(charge[d])] = attempts[Key(charge[d])]
  <2>1. Key(charge[d]) \in Attempts
    BY <1>9, CallInHand DEF Holding, Looping
  <2>2. Key(charge[d]) # key
    BY <1>0, <1>1, <1>9 DEF IInv, Alone, Holding
  <2>3. QED
    BY Zenon, <1>7, <2>1, <2>2
<1>10. /\ c \in Procs /\ c \notin Deliveries /\ {"idle", "insert", "record"} \subseteq Labels
       /\ {"idle", "record"} \cap Looping = {} /\ "insert" \notin Holding
       /\ {"idle", "record"} \cap Holding = {}
  BY ChargesAssumption DEF Procs, Labels, Looping, Holding
<1>11. ASSUME NEW at \in {"idle", "record"}, Moved(c, at) PROVE IInv'
  <2>1. at \in Labels \ Looping /\ at \notin Holding /\ at \notin Looping
    BY <1>10
  <2>2. CallerOK(at, charge'[c], attempts', money')
    BY <2>1, NoCallerDuty
  <2>3. QED
    BY Zenon, <1>7, <1>8, <1>9, <1>10, <1>11, <2>1, <2>2, StepKept
<1>12. ASSUME Moved(c, "insert"), failover, charge'[c].key \in Keys,
              charge'[c].order \in Orders, charge'[c].i \in DOMAIN charge'[c].order
       PROVE  IInv'
  <2>1. CallerOK("insert", charge'[c], attempts', money')
    BY <1>12 DEF CallerOK, Holding
  <2>2. ~Manual
    BY <1>12 DEF Manual
  <2>3. QED
    BY Zenon, <1>7, <1>8, <1>9, <1>10, <1>12, <2>1, <2>2, StepKept
<1>13. CASE Goto(c, "record") /\ UNCHANGED <<charge, delivery>>
  BY <1>10, <1>11, <1>13, GotoMoved
<1>14. CASE NextProvider(c)
  BY <1>0, <1>11, <1>12, <1>14, NextProviderMoved
<1>15. QED
  BY <1>5, <1>13, <1>14

-----------------------------------------------------------------------------
(* Steps that leave the attempts and the money alone.                         *)

\* A delivery that is at work has an event and a charge in hand.
LEMMA EventInHand ==
  ASSUME IInv, NEW d \in Deliveries, pc[d] # "idle"
  PROVE  /\ delivery[d].event \in Events /\ delivery[d].pay \in Payments
         /\ DeliveryOK(pc[d], delivery[d], attempts, money)
BY DEF IInv, DeliveryOK

LEMMA ReturnKept ==
  ASSUME IInv, NEW p \in Procs, Return(p), TypeOK', UNCHANGED <<attempts, money, settings>>
  PROVE  IInv'
<1>1. "idle" \in Labels \ Holding /\ "idle" \in Labels \ Looping
      /\ "idle" \in Labels \ {"claim", "apply", "complete", "finish"}
  BY DEF Labels, Holding, Looping
<1>2. CallerOK("idle", charge'[p], attempts, money)
  BY <1>1, NoCallerDuty
<1>3. DeliveryOK("idle", delivery'[p], attempts, money)
  BY <1>1, DeliveryDuty
<1>4. QED
  BY <1>1, <1>2, <1>3, ReturnMoved, QuietKept

LEMMA FinishKept ==
  ASSUME IInv, NEW d \in Deliveries, pc[d] # "idle",
         NEW result \in {"processed", "ignored", "failed"}, FinishWith(d, result),
         TypeOK', UNCHANGED <<attempts, money, settings>>
  PROVE  IInv'
<1>1. /\ Moved(d, "finish") /\ delivery'[d].result # "none"
      /\ delivery'[d].event = delivery[d].event /\ delivery'[d].pay = delivery[d].pay
  BY FinishMoved
<1>2. DeliveryOK("finish", delivery'[d], attempts, money)
  BY <1>1, EventInHand DEF DeliveryOK
<1>3. d \in Procs /\ d \notin Callers /\ "finish" \in Labels \ Holding
  BY ChargesAssumption DEF Procs, Labels, Holding
<1>4. QED
  BY <1>1, <1>2, <1>3, QuietKept

LEMMA PaidKept ==
  ASSUME IInv, NEW p \in Procs, pc[p] # "idle", NEW result \in {"processed", "failed"},
         Paid(p, result), TypeOK', UNCHANGED <<attempts, money, settings>>
  PROVE  IInv'
<1>1. CASE p \in Callers
  BY <1>1, ReturnKept DEF Paid
<1>2. CASE p \notin Callers
  <2>1. p \in Deliveries
    BY <1>2 DEF Procs
  <2>2. PICK r \in {result, "failed"} : FinishWith(p, r)
    BY <1>2 DEF Paid
  <2>3. r \in {"processed", "ignored", "failed"}
    OBVIOUS
  <2>4. QED
    BY <2>1, <2>2, <2>3, FinishKept
<1>3. QED
  BY <1>1, <1>2

\* A process goes on to a step of RecordPayment or MarkInvoiceState.
LEMMA GotoKept ==
  ASSUME IInv, NEW p \in Procs, pc[p] # "idle",
         NEW at \in {"record", "add", "settle", "close", "mark", "dispute"}, Goto(p, at),
         UNCHANGED <<charge, delivery>>, TypeOK', UNCHANGED <<attempts, money, settings>>
  PROVE  IInv'
<1>1. /\ at \in Labels \ Looping /\ at \in Labels \ Holding
      /\ at \in Labels \ {"claim", "apply", "complete", "finish"}
      /\ at # "insert"
  BY DEF Labels, Looping, Holding
<1>2. Moved(p, at)
  BY GotoMoved
<1>3. CallerOK(at, charge'[p], attempts, money)
  BY <1>1, NoCallerDuty
<1>4. ASSUME p \in Deliveries PROVE DeliveryOK(at, delivery'[p], attempts, money)
  BY <1>1, <1>4, EventInHand, DeliveryDuty
<1>5. QED
  BY <1>1, <1>2, <1>3, <1>4, QuietKept

\* RecordPayment and settleIfPaid write the invoice row only.
LEMMA PaymentStepKept ==
  ASSUME IInv, NEW p \in Procs, PaymentStep(p)
  PROVE  IInv'
<1>0. /\ invoice \in [state : InvoiceStates, paid : Nat] /\ fresh \subseteq Procs /\ TypeOK
  BY DEF IInv, Typed, TypeOK
<1>1. CASE RecordRead(p)
  <2>1. TypeOK'
    BY <1>0, <1>1 DEF RecordRead, Reread, TypeOK
  <2>2. QED
    BY <1>1, <2>1, GotoKept DEF RecordRead
<1>2. CASE RecordAdd(p)
  <2>1. TypeOK'
    <3>1. CASE p \in fresh
      <4>1. [invoice EXCEPT !.paid = @ + 1] \in [state : InvoiceStates, paid : Nat]
        BY <1>0
      <4>2. QED
        BY <1>0, <1>2, <3>1, <4>1 DEF RecordAdd, WriteInvoice, TypeOK
    <3>2. CASE p \notin fresh
      BY <1>0, <1>2, <3>2 DEF RecordAdd, TypeOK
    <3>3. QED
      BY <3>1, <3>2
  <2>2. QED
    BY <1>2, <2>1, GotoKept, PaidKept DEF RecordAdd
<1>3. CASE SettleRead(p)
  <2>1. TypeOK'
    BY <1>0, <1>3 DEF SettleRead, Reread, TypeOK
  <2>2. QED
    BY <1>3, <2>1, GotoKept, PaidKept DEF SettleRead
<1>4. CASE SettleClose(p)
  <2>1. TypeOK'
    <3>1. [invoice EXCEPT !.state = "paid"] \in [state : InvoiceStates, paid : Nat]
      BY <1>0 DEF InvoiceStates
    <3>2. QED
      BY <1>0, <1>4, <3>1 DEF SettleClose, WriteInvoice, TypeOK
  <2>2. QED
    BY <1>4, <2>1, PaidKept DEF SettleClose
<1>5. QED
  BY <1>1, <1>2, <1>3, <1>4 DEF PaymentStep

-----------------------------------------------------------------------------
(* HandleWebhook and RetryFailedWebhooks.                                     *)

\* A delivery takes an event in hand.
LEMMA TakeEvent ==
  ASSUME IInv, NEW d \in Deliveries, NEW event \in DeliveryRows, NEW at \in {"claim", "apply"},
         delivery' = [delivery EXCEPT ![d] = event], Goto(d, at), UNCHANGED charge,
         DeliveryOK(at, event, attempts, money),
         UNCHANGED <<invoice, fresh, attempts, money, ledger, settings>>
  PROVE  IInv'
<1>1. Moved(d, at) /\ delivery'[d] = event
  BY DEF IInv, Typed, Moved, Goto
<1>2. d \in Procs /\ d \notin Callers /\ at \in Labels \ Holding
  BY ChargesAssumption DEF Procs, Labels, Holding
<1>3. TypeOK'
  BY DEF IInv, Typed, TypeOK
<1>4. QED
  BY <1>1, <1>2, <1>3, QuietKept

\* What a provider says of a charge it decided or has pending.
LEMMA ReportedTruly ==
  ASSUME NEW outcome \in {"pending", "taken", "declined"}
  PROVE  /\ Reported(outcome) \in {"succeeded", "pending", "failed"}
         /\ Reported(outcome) = "succeeded" <=> outcome = "taken"
         /\ Reported(outcome) = "failed" <=> outcome = "declined"
BY DEF Reported

LEMMA WebhookArrivesKept ==
  ASSUME IInv, NEW d \in Deliveries, WebhookArrives(d)
  PROVE  IInv'
<1>1. PICK e \in Events :
        /\ money[e[1]] \in {"taken"} \cup (IF e[2] = Dispute THEN {} ELSE {"declined"})
        /\ delivery' = [delivery EXCEPT ![d] =
             [event |-> e, pay |-> e[1], retry |-> FALSE, result |-> "none",
              state |-> IF e[2] = Dispute THEN "disputed" ELSE Reported(money[e[1]])]]
  BY Zenon DEF WebhookArrives
<1>2. e[1] \in Payments
  BY DEF Events
<1>3. PICK state \in {"disputed", "succeeded", "failed"} :
        /\ state = IF e[2] = Dispute THEN "disputed" ELSE Reported(money[e[1]])
        /\ state = "succeeded" => money[e[1]] = "taken"
        /\ state = "failed" => money[e[1]] = "declined"
  <2>1. money[e[1]] \in {"taken", "declined"}
    BY <1>1
  <2>2. /\ Reported(money[e[1]]) \in {"succeeded", "failed"}
        /\ Reported(money[e[1]]) = "succeeded" => money[e[1]] = "taken"
        /\ Reported(money[e[1]]) = "failed" => money[e[1]] = "declined"
    BY <2>1, ReportedTruly
  <2>3. QED
    BY <2>2
<1> DEFINE event == [event |-> e, pay |-> e[1], retry |-> FALSE, result |-> "none", state |-> state]
<1>4. event \in DeliveryRows
  BY <1>2 DEF DeliveryRows
<1>5. DeliveryOK("claim", event, attempts, money)
  BY Zenon, <1>2, <1>3 DEF DeliveryOK
<1>6. delivery' = [delivery EXCEPT ![d] = event]
  BY <1>1, <1>3
<1> HIDE DEF event
<1>7. QED
  BY Zenon, <1>4, <1>5, <1>6, TakeEvent DEF WebhookArrives

\* The retry reads the charge of an attempt that has its reference, which its
\* provider knows.
LEMMA WebhookRetryKept ==
  ASSUME IInv, NEW d \in Deliveries, WebhookRetry(d)
  PROVE  IInv'
<1>1. PICK e \in Events, pay \in Payments :
        /\ HasReference(pay)
        /\ delivery' = [delivery EXCEPT ![d] =
             [event |-> e, pay |-> pay, retry |-> TRUE, result |-> "none",
              state |-> Reported(money[pay])]]
  BY Zenon DEF WebhookRetry
<1>2. money[pay] \in {"pending", "taken", "declined"}
  <2>1. pay[1] \in Attempts /\ pay = <<pay[1], pay[2]>>
    BY PaymentFields
  <2>2. RowOK(pay[1], attempts[pay[1]], money)
    BY <2>1 DEF IInv
  <2>3. money[pay] # "none"
    BY <1>1, <2>1, <2>2 DEF RowOK, HasReference
  <2>4. QED
    BY <2>3 DEF IInv, Typed, TypeOK
<1>3. PICK state \in {"succeeded", "pending", "failed"} :
        /\ state = Reported(money[pay])
        /\ state = "succeeded" => money[pay] = "taken"
        /\ state = "failed" => money[pay] = "declined"
  BY <1>2, ReportedTruly
<1> DEFINE event == [event |-> e, pay |-> pay, retry |-> TRUE, result |-> "none", state |-> state]
<1>4. event \in DeliveryRows
  BY DEF DeliveryRows
<1>5. DeliveryOK("apply", event, attempts, money)
  BY <1>3 DEF DeliveryOK
<1>6. delivery' = [delivery EXCEPT ![d] = event]
  BY <1>1, <1>3
<1> HIDE DEF event
<1>7. QED
  BY Zenon, <1>4, <1>5, <1>6, TakeEvent DEF WebhookRetry

LEMMA WebhookClaimKept ==
  ASSUME IInv, NEW d \in Deliveries, WebhookClaim(d)
  PROVE  IInv'
<1>0. /\ d \in Procs /\ d \notin Callers /\ pc[d] = "claim" /\ pc[d] # "idle"
      /\ "apply" \in Labels \ Holding
  BY ChargesAssumption DEF Procs, Labels, Holding, WebhookClaim
<1>1. delivery[d].event \in Events /\ DeliveryOK("claim", delivery[d], attempts, money)
  BY <1>0, EventInHand
<1>2. TypeOK'
  BY <1>1 DEF IInv, Typed, TypeOK, WebhookClaim
<1>3. UNCHANGED <<attempts, money, settings>>
  BY DEF WebhookClaim
<1>4. CASE Return(d)
  BY <1>0, <1>2, <1>3, <1>4, ReturnKept
<1>5. CASE Goto(d, "apply") /\ UNCHANGED <<charge, delivery>>
  <2>1. Moved(d, "apply")
    BY <1>0, <1>5, GotoMoved
  <2>2. DeliveryOK("apply", delivery'[d], attempts, money)
    BY Zenon, <1>1, <1>5 DEF DeliveryOK
  <2>3. QED
    BY Zenon, <1>0, <1>2, <1>3, <2>1, <2>2, QuietKept
<1>6. QED
  BY <1>4, <1>5 DEF WebhookClaim

\* An event goes on to an attempt that has its reference, and not as a dispute.
LEMMA WebhookApplyKept ==
  ASSUME IInv, NEW d \in Deliveries, WebhookApply(d)
  PROVE  IInv'
<1>0. /\ d \in Procs /\ d \notin Callers /\ pc[d] = "apply" /\ pc[d] # "idle"
      /\ "complete" \in Labels /\ "complete" \notin {"idle", "claim", "apply", "finish"}
  BY ChargesAssumption DEF Procs, Labels, WebhookApply
<1>1. /\ delivery[d].pay \in Payments /\ DeliveryOK("apply", delivery[d], attempts, money)
  BY <1>0, EventInHand
<1>2. /\ UNCHANGED <<invoice, fresh, attempts, money, ledger, settings>>
      /\ UNCHANGED settings /\ attempts' = attempts /\ money' = money
  BY DEF WebhookApply
<1>3. TypeOK'
  BY <1>2 DEF IInv, Typed, TypeOK
<1>4. ASSUME NEW r \in {"ignored", "processed"}, FinishWith(d, r) PROVE IInv'
  BY <1>0, <1>2, <1>3, <1>4, FinishKept
<1>5. CASE /\ HasReference(delivery[d].pay) /\ delivery[d].state # "disputed"
           /\ Goto(d, "complete") /\ UNCHANGED <<charge, delivery>>
  <2>1. Moved(d, "complete") /\ delivery'[d] = delivery[d]
    BY <1>0, <1>5, GotoMoved
  <2>2. DeliveryOK("complete", delivery'[d], attempts', money')
    BY <1>1, <1>2, <1>5, <2>1 DEF DeliveryOK, HasReference
  <2>3. /\ MoneyKept(money, money') /\ RefsKept(attempts, attempts')
        /\ \A a \in Attempts : RowOK(a, attempts'[a], money')
        /\ Shown(attempts', money')
        /\ Manual => \A a \in Attempts : attempts'[a] # NoAttempt => a[2] = "first"
    BY Zenon, <1>2, SelfKept DEF IInv, FirstOnly
  <2>4. QED
    BY <1>0, <1>2, <1>3, <2>1, <2>2, <2>3, StepKept
<1>6. CASE Goto(d, "mark") /\ UNCHANGED <<charge, delivery>>
  BY <1>0, <1>2, <1>3, <1>6, GotoKept
<1>7. QED
  BY Zenon, <1>4, <1>5, <1>6 DEF WebhookApply

\* Only a recorded attempt has a reference.
LEMMA ReferenceHasRow ==
  ASSUME IInv, NEW a \in Attempts, attempts[a].ref
  PROVE  attempts[a] \in AttemptRows /\ attempts[a] # NoAttempt
<1>1. attempts[a] \in AttemptRows \cup {NoAttempt}
  BY DEF IInv, Typed, TypeOK, AttemptRows
<1>2. ~NoAttempt.ref
  BY DEF NoAttempt
<1>3. QED
  BY <1>1, <1>2

\* The attempt is completed with what the event says, and keeps its provider.
LEMMA WebhookCompleteKept ==
  ASSUME IInv, NEW d \in Deliveries, WebhookComplete(d)
  PROVE  IInv'
<1>0. /\ d \in Procs /\ d \notin Callers /\ pc[d] = "complete" /\ pc[d] # "idle"
      /\ "record" \in Labels /\ "finish" \in Labels
  BY ChargesAssumption DEF Procs, Labels, WebhookComplete
<1> DEFINE pay == delivery[d].pay
           state == delivery[d].state
           row == [attempts[pay[1]] EXCEPT !.state = state, !.ref = TRUE]
<1>1. /\ pay \in Payments /\ delivery[d].event \in Events
      /\ DeliveryOK("complete", delivery[d], attempts, money)
      /\ pay[1] \in Attempts /\ pay = <<pay[1], pay[2]>>
  BY <1>0, EventInHand, PaymentFields
<1>2. /\ state \in {"succeeded", "pending", "failed"}
      /\ attempts[pay[1]].ref /\ attempts[pay[1]].provider = pay[2]
      /\ state = "succeeded" => money[pay] = "taken"
  BY <1>1 DEF DeliveryOK, IInv, Typed, DeliveryRows
<1>3. attempts[pay[1]] \in AttemptRows /\ attempts[pay[1]] # NoAttempt
  BY <1>1, <1>2, ReferenceHasRow
<1>4. money[pay] # "none"
  <2>1. RowOK(pay[1], attempts[pay[1]], money)
    BY <1>1 DEF IInv
  <2>2. QED
    BY <1>1, <1>2, <2>1 DEF RowOK
<1>5. /\ row \in AttemptRows /\ row.provider = pay[2] /\ row.ref = TRUE /\ row.state = state
  BY Zenon, <1>2, <1>3 DEF AttemptRows
<1>6. /\ attempts' = [attempts EXCEPT ![pay[1]] = row]
      /\ UNCHANGED <<invoice, fresh, money, ledger, settings>>
      /\ money' = money
      /\ \/ Goto(d, "record") /\ UNCHANGED <<charge, delivery>>
         \/ FinishWith(d, "processed")
  BY DEF WebhookComplete
<1> HIDE DEF pay, state, row
<1>7. /\ attempts' \in [Attempts -> AttemptRows \cup {NoAttempt}]
      /\ \A a \in Attempts : attempts'[a] = IF a = pay[1] THEN row ELSE attempts[a]
      /\ MoneyKept(money, money') /\ RefsKept(attempts, attempts')
      /\ \A a \in Attempts : RowOK(a, attempts'[a], money')
      /\ Shown(attempts', money')
      /\ Manual => \A a \in Attempts : attempts'[a] # NoAttempt => a[2] = "first"
  BY Zenon, <1>1, <1>2, <1>3, <1>4, <1>5, <1>6, AttemptWritten
<1>8. TypeOK' /\ UNCHANGED settings
  BY Zenon, <1>6, <1>7 DEF IInv, Typed, TypeOK, AttemptRows
<1>9. ASSUME NEW c \in Callers, pc[c] \in Holding
      PROVE  attempts'[Key(charge[c])] = attempts[Key(charge[c])]
  <2>1. Key(charge[c]) \in Attempts
    BY <1>9, CallInHand DEF Holding, Looping
  <2>2. CallerOK(pc[c], charge[c], attempts, money)
    BY DEF IInv
  <2>3. ~attempts[Key(charge[c])].ref
    BY <1>9, <2>2 DEF CallerOK
  <2>4. QED
    BY <1>2, <1>7, <2>1, <2>3
<1>10. CASE Goto(d, "record") /\ UNCHANGED <<charge, delivery>>
  <2>1. Moved(d, "record") /\ delivery'[d] = delivery[d]
    BY <1>0, <1>10, GotoMoved
  <2>2. DeliveryOK("record", delivery'[d], attempts', money')
    BY <1>1, <2>1 DEF DeliveryOK, pay
  <2>3. QED
    BY Zenon, <1>0, <1>7, <1>8, <1>9, <2>1, <2>2, StepKept
<1>11. CASE FinishWith(d, "processed")
  <2>1. /\ Moved(d, "finish") /\ delivery'[d].result # "none"
        /\ delivery'[d].event = delivery[d].event /\ delivery'[d].pay = delivery[d].pay
    BY <1>11, FinishMoved
  <2>2. DeliveryOK("finish", delivery'[d], attempts', money')
    BY <1>1, <2>1 DEF DeliveryOK, pay
  <2>3. QED
    BY Zenon, <1>0, <1>7, <1>8, <1>9, <2>1, <2>2, StepKept
<1>12. QED
  BY <1>6, <1>10, <1>11

LEMMA DeliveryStepKept ==
  ASSUME IInv, NEW d \in Deliveries, DeliveryStep(d)
  PROVE  IInv'
<1>0. /\ d \in Procs /\ TypeOK /\ invoice \in [state : InvoiceStates, paid : Nat]
      /\ fresh \subseteq Procs
  BY DEF Procs, IInv, Typed, TypeOK
<1>1. CASE DisputeRead(d)
  <2>1. TypeOK'
    BY <1>0, <1>1 DEF DisputeRead, Reread, TypeOK
  <2>2. QED
    BY <1>0, <1>1, <2>1, GotoKept, FinishKept DEF DisputeRead
<1>2. CASE DisputeWrite(d)
  <2>1. [invoice EXCEPT !.state = "disputed"] \in [state : InvoiceStates, paid : Nat]
    BY <1>0 DEF InvoiceStates
  <2>2. TypeOK'
    BY <1>0, <1>2, <2>1 DEF DisputeWrite, WriteInvoice, TypeOK
  <2>3. QED
    BY <1>0, <1>2, <2>2, FinishKept DEF DisputeWrite
<1>3. CASE WebhookFinish(d)
  <2>1. pc[d] # "idle" /\ pc[d] = "finish"
    BY <1>3 DEF WebhookFinish
  <2>2. /\ delivery[d].event \in Events
        /\ delivery[d].result \in {"processed", "ignored", "failed", "dead_letter"}
    BY Zenon, <2>1, EventInHand DEF DeliveryOK, IInv, Typed, DeliveryRows
  <2>3. TypeOK'
    BY <1>0, <1>3, <2>2 DEF WebhookFinish, TypeOK
  <2>4. QED
    BY <1>0, <1>3, <2>3, ReturnKept DEF WebhookFinish
<1>4. CASE WebhookRetryElsewhere(d)
  <2>1. TypeOK'
    BY <1>0, <1>4 DEF WebhookRetryElsewhere, TypeOK
  <2>2. UNCHANGED <<attempts, money, pc, charge, delivery, settings>>
    BY <1>4 DEF WebhookRetryElsewhere
  <2>3. QED
    BY Zenon, <2>1, <2>2 DEF IInv, Typed, Alone, FirstOnly, Manual, settings
<1>5. QED
  BY <1>1, <1>2, <1>3, <1>4, WebhookArrivesKept, WebhookClaimKept, WebhookApplyKept,
     WebhookCompleteKept, WebhookRetryKept DEF DeliveryStep

-----------------------------------------------------------------------------
(* The invariant.                                                             *)

\* The provider decides a charge that was pending, which has its attempt.
LEMMA ProviderDecidesKept ==
  ASSUME IInv, NEW pay \in Payments, ProviderDecides(pay)
  PROVE  IInv'
<1>1. PICK outcome \in {"taken", "declined"} : money' = [money EXCEPT ![pay] = outcome]
  BY Zenon DEF ProviderDecides
<1>2. /\ UNCHANGED <<invoice, fresh, attempts, ledger, pc, charge, delivery, settings>>
      /\ money[pay] = "pending"
  BY DEF ProviderDecides
<1>3. attempts[pay[1]] # NoAttempt /\ attempts[pay[1]].provider = pay[2]
  BY <1>2 DEF IInv, Shown
<1>4. outcome \in {"none", "pending", "taken", "declined"} /\ attempts' = attempts
  BY <1>2
<1>5. /\ money' \in [Payments -> {"none", "pending", "taken", "declined"}]
      /\ MoneyKept(money, money') /\ RefsKept(attempts, attempts')
      /\ \A a \in Attempts : RowOK(a, attempts'[a], money')
      /\ Shown(attempts', money')
  BY Zenon, <1>1, <1>2, <1>3, <1>4, MoneyWritten
<1>6. Typed'
  <2>1. TypeOK'
    BY <1>2, <1>5 DEF IInv, Typed, TypeOK
  <2>2. QED
    BY <1>2, <2>1 DEF IInv, Typed, settings
<1>7. ASSUME NEW c \in Callers PROVE CallerOK(pc'[c], charge'[c], attempts', money')
  <2>1. CallerOK(pc[c], charge[c], attempts, money)
    BY Zenon DEF IInv
  <2>2. CallerOK(pc[c], charge[c], attempts, money')
    BY Zenon, <1>5, <2>1, CallerKept
  <2>3. QED
    BY Zenon, <1>2, <2>2
<1>8. ASSUME NEW d \in Deliveries PROVE DeliveryOK(pc'[d], delivery'[d], attempts', money')
  <2>1. DeliveryOK(pc[d], delivery[d], attempts, money)
    BY Zenon DEF IInv
  <2>2. DeliveryOK(pc[d], delivery[d], attempts', money')
    BY Zenon, <1>5, <2>1, DeliveryKept
  <2>3. QED
    BY Zenon, <1>2, <2>2
<1>9. Alone' /\ FirstOnly'
  BY Zenon, <1>2 DEF IInv, Alone, FirstOnly, Manual, settings
<1>10. QED
  BY <1>5, <1>6, <1>7, <1>8, <1>9 DEF IInv

LEMMA NextKept == IInv /\ [Next]_vars => IInv'
<1> SUFFICES ASSUME IInv, [Next]_vars PROVE IInv'
  OBVIOUS
<1>1. ASSUME NEW c \in Callers, CallerStep(c) PROVE IInv'
  BY <1>1, ChargeBeginKept, ChargeInsertKept, ProviderChargeKept, ChargeCompleteKept
     DEF CallerStep
<1>2. ASSUME NEW p \in Procs, Dies(p) PROVE IInv'
  <2>1. TypeOK'
    BY <1>2 DEF IInv, Typed, TypeOK, Dies
  <2>2. QED
    BY <1>2, <2>1, ReturnKept DEF Dies
<1>3. CASE UNCHANGED vars
  BY Zenon, <1>3 DEF vars, IInv, Typed, TypeOK, Shown, Alone, FirstOnly, Manual
<1>4. QED
  BY <1>1, <1>2, <1>3, DeliveryStepKept, PaymentStepKept, ProviderDecidesKept DEF Next

LEMMA InitKept == Init => IInv
<1> SUFFICES ASSUME Init PROVE IInv
  OBVIOUS
<1>1. TypeOK
  BY DEF Init, TypeOK, InvoiceStates, Procs
<1>2. Typed
  BY <1>1, NothingTyped DEF Init, Typed, Labels
<1>3. /\ \A c \in Callers : pc[c] = "idle" /\ charge[c] = NoCharge
      /\ \A d \in Deliveries : pc[d] = "idle"
      /\ \A a \in Attempts : attempts[a] = NoAttempt
      /\ \A pay \in Payments : money[pay] = "none"
  BY DEF Init, Procs
<1>4. "idle" \in Labels \ Looping /\ "idle" \in Labels \ {"claim", "apply", "complete", "finish"}
      /\ "idle" \notin Holding /\ "idle" \notin Looping
  BY DEF Labels, Looping, Holding
<1>5. \A c \in Callers : CallerOK(pc[c], charge[c], attempts, money)
  BY <1>3, <1>4, NoCallerDuty
<1>6. \A d \in Deliveries : DeliveryOK(pc[d], delivery[d], attempts, money)
  BY <1>3, <1>4, DeliveryDuty
<1>7. \A a \in Attempts : RowOK(a, attempts[a], money)
  BY <1>3 DEF RowOK, NoAttempt
<1>8. Shown(attempts, money) /\ Alone /\ FirstOnly
  BY <1>3, <1>4 DEF Shown, Alone, FirstOnly
<1>9. QED
  BY Zenon, <1>2, <1>5, <1>6, <1>7, <1>8 DEF IInv

LEMMA Inductive == Spec => []IInv
BY InitKept, NextKept, PTL DEF Spec

\* The invoice, the ledger of attempts and the ledger of events hold only the
\* states the code names, whoever writes them last.
THEOREM TypeCorrect == Spec => []TypeOK
<1>1. IInv => TypeOK
  BY DEF IInv, Typed
<1>2. QED
  BY <1>1, Inductive, PTL

\* chargeThrough: whatever is called at once, dies or is retried, no provider is
\* asked for money without an attempt that names it.
THEOREM EveryTryShown == Spec => []LedgerShowsEveryTry
<1>1. IInv => LedgerShowsEveryTry
  BY DEF IInv, Shown, LedgerShowsEveryTry
<1>2. QED
  BY <1>1, Inductive, PTL

\* completeAttempt, called by chargeThrough and by applyPaymentEvent: an attempt
\* that counts as succeeded is one whose provider took the money.
THEOREM SucceededIsTaken == Spec => []SucceededWasTaken
<1>1. IInv => SucceededWasTaken
  BY DEF IInv, RowOK, SucceededWasTaken
<1>2. QED
  BY <1>1, Inductive, PTL

\* ChargeInvoice: one key takes money once when it may not fail over and every
\* provider can be charged.
THEOREM KeyChargedOnce == Spec => []ChargedOnceManual
<1>1. ASSUME IInv, ~failover, methods = Providers,
             NEW p \in Taken, NEW q \in Taken, p[1][1] = q[1][1]
      PROVE  p = q
  <2>1. /\ p \in Payments /\ q \in Payments /\ money[p] # "none" /\ money[q] # "none"
    BY <1>1 DEF Taken
  <2>2. /\ attempts[p[1]] # NoAttempt /\ attempts[p[1]].provider = p[2]
        /\ attempts[q[1]] # NoAttempt /\ attempts[q[1]].provider = q[2]
    BY <1>1, <2>1 DEF IInv, Shown
  <2>3. p[1] \in Attempts /\ q[1] \in Attempts
    BY <2>1, PaymentFields
  <2>4. p[1][2] = "first" /\ q[1][2] = "first"
    BY <1>1, <2>2, <2>3 DEF IInv, FirstOnly, Manual
  <2>5. p[1] = q[1]
    BY <1>1, <2>1, <2>4, PaymentFields
  <2>6. p[2] = q[2]
    BY <2>2, <2>5
  <2>7. QED
    BY <2>1, <2>5, <2>6, PaymentFields
<1>2. IInv => ChargedOnceManual
  BY <1>1 DEF ChargedOnceManual
<1>3. QED
  BY <1>2, Inductive, PTL

-----------------------------------------------------------------------------
(* What is credited was taken.                                               *)

OneAtATime == \A d, e \in Deliveries : d = e
FinitelyMany == IsFiniteSet(Keys) /\ IsFiniteSet(Callers)

Recording == {p \in Procs : pc[p] \in {"record", "add"}}
Succeeded == {a \in Attempts : attempts[a].state = "succeeded"}

\* A delivery that is about to change an attempt finds it as it read it.
EventOK(at, event, rows) ==
  /\ at = "claim" => event.state # "pending"
  /\ at = "complete" => rows[event.pay[1]].state # event.state
  /\ at \in {"apply", "complete"} /\ event.state = "pending" =>
       rows[event.pay[1]].ref /\ rows[event.pay[1]].state # "succeeded"

\* A payment that was recorded, or is about to be, has an attempt that succeeded.
CountInv ==
  /\ \A d \in Deliveries : EventOK(pc[d], delivery[d], attempts)
  /\ invoice.paid + Cardinality(Recording) <= Cardinality(Succeeded)

Counted == IInv /\ CountInv /\ OneAtATime /\ FinitelyMany

\* There are finitely many processes and attempts.
LEMMA Finite ==
  ASSUME OneAtATime, FinitelyMany
  PROVE  /\ IsFiniteSet(Procs) /\ IsFiniteSet(Attempts)
         /\ IsFiniteSet(Payments)
<1>1. IsFiniteSet(Deliveries)
  <2>1. CASE Deliveries = {}
    BY <2>1, FS_EmptySet
  <2>2. CASE Deliveries # {}
    <3>1. PICK d : d \in Deliveries
      BY <2>2
    <3>2. Deliveries = {d}
      BY <3>1 DEF OneAtATime
    <3>3. QED
      BY <3>2, FS_Singleton
  <2>3. QED
    BY <2>1, <2>2
<1>2. IsFiniteSet(Procs)
  BY Zenon, <1>1, FS_Union DEF Procs, FinitelyMany
<1>3. IsFiniteSet(Providers \cup {"first"})
  BY Zenon, ChargesAssumption, FS_Singleton, FS_Union
<1>4. IsFiniteSet(Attempts)
  BY <1>3, FS_Product DEF Attempts, FinitelyMany
<1>5. IsFiniteSet(Attempts \X Providers)
  BY <1>4, ChargesAssumption, FS_Product
<1>6. Payments \subseteq Attempts \X Providers
  BY DEF Payments
<1>7. QED
  BY <1>2, <1>4, <1>5, <1>6, FS_Subset

\* Both counts are numbers.
LEMMA Counts ==
  ASSUME Counted
  PROVE  /\ IsFiniteSet(Recording) /\ Cardinality(Recording) \in Nat
         /\ IsFiniteSet(Succeeded) /\ Cardinality(Succeeded) \in Nat
         /\ IsFiniteSet(Recording') /\ Cardinality(Recording') \in Nat
         /\ IsFiniteSet(Succeeded') /\ Cardinality(Succeeded') \in Nat
         /\ invoice.paid \in Nat
<1>1. IsFiniteSet(Procs) /\ IsFiniteSet(Attempts)
  BY Finite DEF Counted
<1>2. /\ Recording \subseteq Procs /\ Recording' \subseteq Procs
      /\ Succeeded \subseteq Attempts /\ Succeeded' \subseteq Attempts
  BY DEF Recording, Succeeded
<1>3. /\ IsFiniteSet(Recording) /\ IsFiniteSet(Recording')
      /\ IsFiniteSet(Succeeded) /\ IsFiniteSet(Succeeded')
  BY <1>1, <1>2, FS_Subset
<1>4. invoice.paid \in Nat
  BY DEF Counted, IInv, Typed, TypeOK
<1>5. QED
  BY <1>3, <1>4, FS_CardinalityType

\* Who is about to record a payment once p has moved.
LEMMA RecordingMoved ==
  ASSUME IInv, NEW p \in Procs, NEW at, Moved(p, at)
  PROVE  Recording' = IF at \in {"record", "add"} THEN Recording \cup {p} ELSE Recording \ {p}
<1>1. \A q \in Procs : pc'[q] = IF q = p THEN at ELSE pc[q]
  BY DEF IInv, Typed, Moved
<1>2. QED
  BY <1>1 DEF Recording

\* A caller leaves the attempts with a reference alone, and there is no other
\* delivery.
LEMMA EventsKept ==
  ASSUME Counted, NEW p \in Procs, NEW at, Moved(p, at),
         p \in Deliveries => EventOK(at, delivery'[p], attempts'),
         p \in Callers => \A a \in Attempts : attempts[a].ref => attempts'[a] = attempts[a]
  PROVE  \A d \in Deliveries : EventOK(pc'[d], delivery'[d], attempts')
<1> SUFFICES ASSUME NEW d \in Deliveries PROVE EventOK(pc'[d], delivery'[d], attempts')
  OBVIOUS
<1>0. /\ \A q \in Procs : pc'[q] = IF q = p THEN at ELSE pc[q]
      /\ d \in Procs /\ EventOK(pc[d], delivery[d], attempts)
      /\ DeliveryOK(pc[d], delivery[d], attempts, money)
  BY DEF Counted, IInv, Typed, Moved, Procs, CountInv
<1>1. CASE p \in Deliveries
  <2>1. d = p
    BY <1>1 DEF Counted, OneAtATime
  <2>2. QED
    BY Zenon, <1>0, <1>1, <2>1
<1>2. CASE p \notin Deliveries
  <2>1. p \in Callers /\ d # p
    BY <1>2 DEF Procs
  <2>2. pc'[d] = pc[d] /\ delivery'[d] = delivery[d]
    BY <1>0, <2>1 DEF Moved
  <2>3. pc[d] # "idle" => delivery[d].pay[1] \in Attempts
    BY <1>0, PaymentFields DEF DeliveryOK
  <2>4. QED
    BY <1>0, <2>1, <2>2, <2>3 DEF EventOK, DeliveryOK
<1>3. QED
  BY <1>1, <1>2

\* A step that makes nobody record a payment, and takes no success back.
LEMMA NoneMore ==
  ASSUME Counted, NEW p \in Procs, NEW at, Moved(p, at), invoice'.paid = invoice.paid,
         at \in {"record", "add"} => p \in Recording, Succeeded \subseteq Succeeded',
         p \in Deliveries => EventOK(at, delivery'[p], attempts'),
         p \in Callers => \A a \in Attempts : attempts[a].ref => attempts'[a] = attempts[a]
  PROVE  CountInv'
<1>1. \A d \in Deliveries : EventOK(pc'[d], delivery'[d], attempts')
  BY Zenon, EventsKept
<1>2. Recording' \subseteq Recording
  BY RecordingMoved DEF Counted
<1>3. Cardinality(Recording') <= Cardinality(Recording)
  BY <1>2, Counts, FS_Subset
<1>4. Cardinality(Succeeded) <= Cardinality(Succeeded')
  BY Counts, FS_Subset
<1>5. invoice'.paid + Cardinality(Recording') <= Cardinality(Succeeded')
  BY <1>3, <1>4, Counts DEF Counted, CountInv
<1>6. QED
  BY <1>1, <1>5 DEF CountInv

\* A step that leaves the attempts alone.
LEMMA QuietCount ==
  ASSUME Counted, NEW p \in Procs, NEW at, Moved(p, at), invoice'.paid = invoice.paid,
         UNCHANGED attempts, at \in {"record", "add"} => p \in Recording,
         p \in Deliveries => EventOK(at, delivery'[p], attempts)
  PROVE  CountInv'
<1>1. attempts' = attempts /\ Succeeded \subseteq Succeeded'
  BY DEF Succeeded
<1>2. QED
  BY <1>1, NoneMore

\* At most labels an event owes nothing.
LEMMA NoEventDuty ==
  ASSUME NEW at \in Labels \ {"claim", "apply", "complete"}, NEW event, NEW rows
  PROVE  EventOK(at, event, rows)
BY DEF EventOK

\* An attempt is completed with another state: with a success, which p goes on to
\* record, or with anything else when it was no success.
LEMMA AttemptCount ==
  ASSUME Counted, NEW p \in Procs, NEW at \in Labels \ {"claim", "apply", "complete", "add"},
         Moved(p, at), UNCHANGED invoice,
         NEW key \in Attempts, NEW row \in AttemptRows,
         attempts' = [attempts EXCEPT ![key] = row], attempts[key].state # "succeeded",
         at = "record" <=> row.state = "succeeded", p \notin Recording,
         p \in Callers => ~attempts[key].ref
  PROVE  CountInv'
<1>0. /\ attempts \in [Attempts -> AttemptRows \cup {NoAttempt}] /\ IInv
      /\ invoice'.paid = invoice.paid
  BY DEF Counted, IInv, Typed, TypeOK, AttemptRows
<1>1. \A a \in Attempts : attempts'[a] = IF a = key THEN row ELSE attempts[a]
  BY <1>0
<1>2. EventOK(at, delivery'[p], attempts')
  BY NoEventDuty
<1>3. p \in Callers => \A a \in Attempts : attempts[a].ref => attempts'[a] = attempts[a]
  BY <1>1
<1>4. CASE at # "record"
  <2>1. Succeeded \subseteq Succeeded'
    BY <1>1, <1>4 DEF Succeeded
  <2>2. QED
    BY Zenon, <1>0, <1>2, <1>3, <1>4, <2>1, NoneMore
<1>5. CASE at = "record"
  <2>1. key \notin Succeeded /\ Succeeded' = Succeeded \cup {key}
    BY <1>1, <1>5 DEF Succeeded
  <2>2. Cardinality(Succeeded') = Cardinality(Succeeded) + 1
    BY <2>1, Counts, FS_AddElement
  <2>3. Recording' = Recording \cup {p}
    BY <1>0, <1>5, RecordingMoved
  <2>4. Cardinality(Recording') = Cardinality(Recording) + 1
    BY <2>3, Counts, FS_AddElement
  <2>5. invoice'.paid + Cardinality(Recording') <= Cardinality(Succeeded')
    BY <1>0, <2>2, <2>4, Counts DEF Counted, CountInv
  <2>6. \A d \in Deliveries : EventOK(pc'[d], delivery'[d], attempts')
    BY Zenon, <1>2, <1>3, EventsKept
  <2>7. QED
    BY Zenon, <2>5, <2>6 DEF CountInv
<1>6. QED
  BY <1>4, <1>5

LEMMA CallerStepCount ==
  ASSUME Counted, NEW c \in Callers, CallerStep(c)
  PROVE  CountInv'
<1>0. /\ c \in Procs /\ c \notin Deliveries /\ IInv
  BY ChargesAssumption DEF Procs, Counted
<1>1. CASE ChargeBegin(c)
  <2>1. PICK call \in ChargeRows : charge' = [charge EXCEPT ![c] = call]
    <3>1. PICK k \in Keys, o \in Orders :
            charge' = [charge EXCEPT ![c] =
                        [key |-> k, order |-> o, i |-> Soonest(Later(o, 0)), result |-> "none"]]
      BY Zenon, <1>1 DEF ChargeBegin
    <3>2. Soonest(Later(o, 0)) \in Nat
      BY <1>0, FirstPlace DEF IInv, Typed
    <3>3. [key |-> k, order |-> o, i |-> Soonest(Later(o, 0)), result |-> "none"] \in ChargeRows
      BY <3>2 DEF ChargeRows
    <3>4. QED
      BY Zenon, <3>1, <3>3
  <2>2. Moved(c, "insert")
    BY Zenon, <1>0, <1>1, <2>1 DEF ChargeBegin, Goto, Moved, IInv, Typed
  <2>3. UNCHANGED <<invoice, attempts>>
    BY Zenon, <1>1 DEF ChargeBegin
  <2>4. QED
    BY <1>0, <2>2, <2>3, QuietCount
<1>2. CASE ChargeInsert(c)
  <2>0. pc[c] \in Looping /\ pc[c] = "insert"
    BY <1>2 DEF ChargeInsert, Looping
  <2>1. KeyOf(c) \in Attempts /\ ProviderOf(c) \in Providers
    BY <1>0, <2>0, CallInHand
  <2>2. c \notin Recording
    BY <2>0 DEF Recording
  <2>3. CASE attempts[KeyOf(c)] = NoAttempt
    <3> DEFINE row == [provider |-> ProviderOf(c), state |-> "pending", ref |-> FALSE]
    <3>1. row \in AttemptRows /\ row.state = "pending"
      BY <2>1 DEF AttemptRows
    <3>2. attempts' = [attempts EXCEPT ![KeyOf(c)] = row] /\ UNCHANGED invoice
          /\ Goto(c, "charge") /\ UNCHANGED <<charge, delivery>>
      BY <1>2, <2>3 DEF ChargeInsert
    <3> HIDE DEF row
    <3>3. Moved(c, "charge")
      BY <1>0, <3>2, GotoMoved
    <3>4. attempts[KeyOf(c)].state # "succeeded" /\ ~attempts[KeyOf(c)].ref
      <4>1. NoAttempt.state # "succeeded" /\ ~NoAttempt.ref
        BY DEF NoAttempt
      <4>2. QED
        BY Zenon, <2>3, <4>1
    <3>5. "charge" \in Labels \ {"claim", "apply", "complete", "add"}
      BY DEF Labels
    <3>6. QED
      BY Zenon, <1>0, <2>1, <2>2, <3>1, <3>2, <3>3, <3>4, <3>5, AttemptCount
  <2>4. CASE attempts[KeyOf(c)] # NoAttempt
    <3>1. NextProvider(c) /\ UNCHANGED <<attempts, invoice>>
      BY <1>2, <2>4 DEF ChargeInsert
    <3>2. PICK at \in {"idle", "insert"} : Moved(c, at)
      BY <1>0, <2>0, <3>1, NextProviderMoved
    <3>3. QED
      BY <1>0, <3>1, <3>2, QuietCount
  <2>5. QED
    BY <2>3, <2>4
<1>3. CASE ProviderCharge(c)
  <2>1. PICK r \in {"succeeded", "pending", "failed", "error"} :
          charge' = [charge EXCEPT ![c].result = r]
    <3>1. PICK outcome \in {"none", "taken", "pending", "declined"}, answered \in BOOLEAN :
            /\ answered => outcome # "none"
            /\ charge' = [charge EXCEPT ![c].result = IF answered THEN Reported(outcome) ELSE "error"]
      BY Zenon, <1>3 DEF ProviderCharge
    <3>2. answered => Reported(outcome) \in {"succeeded", "pending", "failed"}
      BY <3>1, ReportedTruly
    <3>3. QED
      BY Zenon, <3>1, <3>2
  <2>2. [charge[c] EXCEPT !.result = r] \in ChargeRows
    BY Zenon, <1>0 DEF IInv, Typed, ChargeRows
  <2>3. charge' = [charge EXCEPT ![c] = [charge[c] EXCEPT !.result = r]]
    BY <2>1
  <2>4. Moved(c, "complete")
    BY <1>0, <1>3, <2>2, <2>3 DEF ProviderCharge, Goto, Moved, IInv, Typed
  <2>5. UNCHANGED <<invoice, attempts>>
    BY <1>3 DEF ProviderCharge
  <2>6. QED
    BY <1>0, <2>4, <2>5, QuietCount
<1>4. CASE ChargeComplete(c)
  <2>0. pc[c] \in Looping /\ pc[c] = "complete" /\ pc[c] \in Holding
    BY <1>4 DEF ChargeComplete, Looping, Holding
  <2> DEFINE result == charge[c].result
             row == [provider |-> ProviderOf(c), ref |-> result # "error",
                     state |-> IF result = "error" THEN "failed" ELSE result]
  <2>1. /\ KeyOf(c) \in Attempts /\ ProviderOf(c) \in Providers /\ KeyOf(c) = Key(charge[c])
    BY <1>0, <2>0, CallInHand
  <2>2. /\ attempts[KeyOf(c)].state = "pending" /\ ~attempts[KeyOf(c)].ref
        /\ result \in {"succeeded", "pending", "failed", "error"}
    <3>1. CallerOK(pc[c], charge[c], attempts, money) /\ charge[c] \in ChargeRows
      BY <1>0 DEF IInv, Typed
    <3>2. /\ attempts[KeyOf(c)] = [provider |-> charge[c].order[charge[c].i],
                                   state |-> "pending", ref |-> FALSE]
          /\ result # "none"
      BY <2>0, <2>1, <3>1 DEF CallerOK
    <3>3. QED
      BY <3>1, <3>2 DEF ChargeRows
  <2>3. row \in AttemptRows /\ (row.state = "succeeded" <=> result = "succeeded")
    BY Zenon, <2>1, <2>2 DEF AttemptRows
  <2>4. /\ attempts' = [attempts EXCEPT ![KeyOf(c)] = row] /\ UNCHANGED invoice
        /\ IF result = "succeeded"
           THEN Goto(c, "record") /\ UNCHANGED <<charge, delivery>>
           ELSE NextProvider(c)
    BY <1>4 DEF ChargeComplete
  <2> HIDE DEF row, result
  <2>5. PICK at \in {"idle", "insert", "record"} :
          Moved(c, at) /\ (at = "record" <=> result = "succeeded")
    BY <1>0, <2>0, <2>4, NextProviderMoved, GotoMoved
  <2>6. c \notin Recording /\ at \in Labels \ {"claim", "apply", "complete", "add"}
    BY <2>0 DEF Recording, Labels
  <2>7. QED
    BY Zenon, <1>0, <2>1, <2>2, <2>3, <2>4, <2>5, <2>6, AttemptCount
<1>5. QED
  BY <1>1, <1>2, <1>3, <1>4 DEF CallerStep

\* Returning and going on, with the attempts and what was paid left alone.
LEMMA ReturnCount ==
  ASSUME Counted, NEW p \in Procs, Return(p), invoice'.paid = invoice.paid, UNCHANGED attempts
  PROVE  CountInv'
<1>1. Moved(p, "idle")
  BY ReturnMoved DEF Counted
<1>2. EventOK("idle", delivery'[p], attempts)
  BY NoEventDuty DEF Labels
<1>3. QED
  BY <1>1, <1>2, QuietCount

LEMMA FinishCount ==
  ASSUME Counted, NEW d \in Deliveries, NEW result \in {"processed", "ignored", "failed"},
         FinishWith(d, result), invoice'.paid = invoice.paid, UNCHANGED attempts
  PROVE  CountInv'
<1>1. Moved(d, "finish") /\ d \in Procs
  BY FinishMoved DEF Counted, Procs
<1>2. EventOK("finish", delivery'[d], attempts)
  BY NoEventDuty DEF Labels
<1>3. QED
  BY <1>1, <1>2, QuietCount

LEMMA PaidCount ==
  ASSUME Counted, NEW p \in Procs, NEW result \in {"processed", "failed"}, Paid(p, result),
         invoice'.paid = invoice.paid, UNCHANGED attempts
  PROVE  CountInv'
<1>1. CASE p \in Callers
  BY <1>1, ReturnCount DEF Paid
<1>2. CASE p \notin Callers
  <2>1. p \in Deliveries
    BY <1>2 DEF Procs
  <2>2. PICK r \in {result, "failed"} : FinishWith(p, r)
    BY <1>2 DEF Paid
  <2>3. r \in {"processed", "ignored", "failed"}
    OBVIOUS
  <2>4. QED
    BY <2>1, <2>2, <2>3, FinishCount
<1>3. QED
  BY <1>1, <1>2

LEMMA GotoCount ==
  ASSUME Counted, NEW p \in Procs, NEW at \in {"add", "settle", "close", "mark", "dispute"},
         Goto(p, at), UNCHANGED <<charge, delivery>>, at = "add" => p \in Recording,
         invoice'.paid = invoice.paid, UNCHANGED attempts
  PROVE  CountInv'
<1>1. Moved(p, at)
  BY GotoMoved DEF Counted
<1>2. EventOK(at, delivery'[p], attempts)
  BY NoEventDuty DEF Labels
<1>3. QED
  BY <1>1, <1>2, QuietCount

\* RecordPayment counts a payment once for each process that came to record it.
LEMMA PaymentStepCount ==
  ASSUME Counted, NEW p \in Procs, PaymentStep(p)
  PROVE  CountInv'
<1>0. invoice \in [state : InvoiceStates, paid : Nat] /\ IInv
  BY DEF Counted, IInv, Typed, TypeOK
<1>1. CASE RecordRead(p)
  <2>1. p \in Recording
    BY <1>1 DEF RecordRead, Recording
  <2>2. QED
    BY <1>1, <2>1, GotoCount DEF RecordRead
<1>2. CASE RecordAdd(p) /\ p \in fresh
  <2>1. /\ invoice' = [invoice EXCEPT !.paid = @ + 1] /\ UNCHANGED attempts
        /\ Goto(p, "settle") /\ UNCHANGED <<charge, delivery>> /\ pc[p] = "add"
    BY <1>2 DEF RecordAdd, WriteInvoice
  <2>2. invoice'.paid = invoice.paid + 1
    BY <1>0, <2>1
  <2>3. Moved(p, "settle") /\ p \in Recording
    BY <1>0, <2>1, GotoMoved DEF Recording
  <2>4. Recording' = Recording \ {p}
    BY <1>0, <2>3, RecordingMoved
  <2>5. Cardinality(Recording') = Cardinality(Recording) - 1
    BY <2>3, <2>4, Counts, FS_RemoveElement
  <2>6. Succeeded' = Succeeded
    BY <2>1 DEF Succeeded
  <2>7. invoice'.paid + Cardinality(Recording') <= Cardinality(Succeeded')
    BY <2>2, <2>5, <2>6, Counts DEF Counted, CountInv
  <2>8. EventOK("settle", delivery'[p], attempts')
    BY NoEventDuty DEF Labels
  <2>9. \A d \in Deliveries : EventOK(pc'[d], delivery'[d], attempts')
    BY <2>1, <2>3, <2>8, EventsKept
  <2>10. QED
    BY <2>7, <2>9 DEF CountInv
<1>3. CASE RecordAdd(p) /\ p \notin fresh
  BY <1>3, PaidCount DEF RecordAdd
<1>4. CASE SettleRead(p)
  BY <1>4, GotoCount, PaidCount DEF SettleRead
<1>5. CASE SettleClose(p)
  <2>1. invoice'.paid = invoice.paid
    BY <1>0, <1>5 DEF SettleClose, WriteInvoice
  <2>2. QED
    BY <1>5, <2>1, PaidCount DEF SettleClose
<1>6. QED
  BY <1>1, <1>2, <1>3, <1>4, <1>5 DEF PaymentStep

\* An event makes a payment be recorded only when its attempt had not succeeded.
LEMMA WebhookStepCount ==
  ASSUME Counted, NEW d \in Deliveries,
         WebhookArrives(d) \/ WebhookClaim(d) \/ WebhookApply(d) \/ WebhookComplete(d) \/ WebhookRetry(d)
  PROVE  CountInv'
<1>0. /\ d \in Procs /\ d \notin Callers /\ IInv /\ delivery \in [Deliveries -> DeliveryRows]
      /\ pc \in [Procs -> Labels] /\ charge \in [Callers -> ChargeRows]
      /\ EventOK(pc[d], delivery[d], attempts)
  BY ChargesAssumption DEF Procs, Counted, IInv, Typed, CountInv
<1>1. ASSUME NEW event \in DeliveryRows, NEW at \in {"claim", "apply"},
             delivery' = [delivery EXCEPT ![d] = event], Goto(d, at),
             UNCHANGED <<invoice, attempts, charge>>, EventOK(at, event, attempts)
      PROVE  CountInv'
  <2>1. Moved(d, at) /\ delivery'[d] = event
    BY <1>0, <1>1 DEF Moved, Goto
  <2>2. QED
    BY <1>0, <1>1, <2>1, QuietCount
<1>2. CASE WebhookArrives(d)
  <2>1. PICK e \in Events :
          /\ money[e[1]] \in {"taken"} \cup (IF e[2] = Dispute THEN {} ELSE {"declined"})
          /\ delivery' = [delivery EXCEPT ![d] =
               [event |-> e, pay |-> e[1], retry |-> FALSE, result |-> "none",
                state |-> IF e[2] = Dispute THEN "disputed" ELSE Reported(money[e[1]])]]
    BY Zenon, <1>2 DEF WebhookArrives
  <2>2. PICK state \in {"disputed", "succeeded", "failed"} :
          state = IF e[2] = Dispute THEN "disputed" ELSE Reported(money[e[1]])
    <3>1. money[e[1]] \in {"taken", "declined"}
      BY Zenon, <2>1
    <3>2. Reported(money[e[1]]) \in {"succeeded", "failed"}
      BY <3>1, ReportedTruly
    <3>3. QED
      BY Zenon, <3>2
  <2> DEFINE event == [event |-> e, pay |-> e[1], retry |-> FALSE, result |-> "none", state |-> state]
  <2>3. event \in DeliveryRows
    BY Zenon DEF DeliveryRows, Events
  <2>4. EventOK("claim", event, attempts)
    BY DEF EventOK
  <2>5. delivery' = [delivery EXCEPT ![d] = event]
    BY <2>1, <2>2
  <2> HIDE DEF event
  <2>6. QED
    BY Zenon, <1>1, <1>2, <2>3, <2>4, <2>5 DEF WebhookArrives
<1>3. CASE WebhookRetry(d)
  <2>1. PICK e \in Events, pay \in Payments :
          /\ HasReference(pay)
          /\ delivery' = [delivery EXCEPT ![d] =
               [event |-> e, pay |-> pay, retry |-> TRUE, result |-> "none",
                state |-> Reported(money[pay])]]
    BY Zenon, <1>3 DEF WebhookRetry
  <2>2. RowOK(pay[1], attempts[pay[1]], money) /\ pay = <<pay[1], pay[2]>>
    BY <1>0, PaymentFields DEF IInv
  <2>3. money[pay] \in {"pending", "taken", "declined"}
    BY <1>0, <2>1, <2>2 DEF RowOK, HasReference, IInv, Typed, TypeOK
  <2>4. PICK state \in {"succeeded", "pending", "failed"} : state = Reported(money[pay])
    BY <2>3, ReportedTruly
  <2>5. state = "pending" => attempts[pay[1]].state # "succeeded"
    BY Zenon, <2>1, <2>2, <2>3, <2>4, ReportedTruly DEF RowOK, HasReference
  <2> DEFINE event == [event |-> e, pay |-> pay, retry |-> TRUE, result |-> "none", state |-> state]
  <2>6. event \in DeliveryRows
    BY DEF DeliveryRows
  <2>7. EventOK("apply", event, attempts)
    BY Zenon, <2>1, <2>5 DEF EventOK, HasReference
  <2>8. delivery' = [delivery EXCEPT ![d] = event]
    BY <2>1, <2>4
  <2> HIDE DEF event
  <2>9. QED
    BY Zenon, <1>1, <1>3, <2>6, <2>7, <2>8 DEF WebhookRetry
<1>4. CASE WebhookClaim(d)
  <2>1. CASE Return(d)
    BY Zenon, <1>0, <1>4, <2>1, ReturnCount DEF WebhookClaim
  <2>2. CASE Goto(d, "apply") /\ UNCHANGED <<charge, delivery>>
    <3>1. Moved(d, "apply") /\ delivery'[d] = delivery[d]
      BY <1>0, <2>2, GotoMoved
    <3>2. EventOK("apply", delivery'[d], attempts)
      BY Zenon, <1>0, <1>4, <3>1 DEF EventOK, WebhookClaim
    <3>3. UNCHANGED <<invoice, attempts>>
      BY Zenon, <1>4 DEF WebhookClaim
    <3>4. QED
      BY <1>0, <3>1, <3>2, <3>3, QuietCount
  <2>3. QED
    BY Zenon, <1>4, <2>1, <2>2 DEF WebhookClaim
<1>5. CASE WebhookApply(d)
  <2>0. UNCHANGED <<invoice, attempts>> /\ pc[d] = "apply"
    BY Zenon, <1>5 DEF WebhookApply
  <2>1. CASE FinishWith(d, "ignored") \/ FinishWith(d, "processed")
    BY <2>0, <2>1, FinishCount
  <2>2. CASE Goto(d, "mark") /\ UNCHANGED <<charge, delivery>>
    BY <1>0, <2>0, <2>2, GotoCount
  <2>3. CASE /\ attempts[delivery[d].pay[1]].state # delivery[d].state
             /\ Goto(d, "complete") /\ UNCHANGED <<charge, delivery>>
    <3>1. Moved(d, "complete") /\ delivery'[d] = delivery[d]
      BY Zenon, <1>0, <2>3, GotoMoved
    <3>2. EventOK("complete", delivery'[d], attempts)
      BY Zenon, <1>0, <2>0, <2>3, <3>1 DEF EventOK
    <3>3. QED
      BY <1>0, <2>0, <3>1, <3>2, QuietCount
  <2>4. QED
    BY Zenon, <1>5, <2>1, <2>2, <2>3 DEF WebhookApply
<1>6. CASE WebhookComplete(d)
  <2> DEFINE pay == delivery[d].pay
             state == delivery[d].state
             row == [attempts[pay[1]] EXCEPT !.state = state, !.ref = TRUE]
  <2>0. pc[d] = "complete" /\ pc[d] # "idle"
    BY <1>6 DEF WebhookComplete
  <2>1. /\ pay \in Payments /\ DeliveryOK("complete", delivery[d], attempts, money)
        /\ pay[1] \in Attempts /\ pay = <<pay[1], pay[2]>>
    BY <1>0, <2>0, EventInHand, PaymentFields
  <2>2. /\ state \in {"succeeded", "pending", "failed"}
        /\ attempts[pay[1]].ref /\ attempts[pay[1]].provider = pay[2]
        /\ state = "failed" => money[pay] = "declined"
    BY <1>0, <2>1 DEF DeliveryOK, DeliveryRows
  <2>3. attempts[pay[1]].state # "succeeded"
    <3>1. RowOK(pay[1], attempts[pay[1]], money)
      BY Zenon, <1>0, <2>1 DEF IInv
    <3>2. CASE state = "succeeded"
      BY <1>0, <2>0, <3>2 DEF EventOK
    <3>3. CASE state = "pending"
      BY <1>0, <2>0, <3>3 DEF EventOK
    <3>4. CASE state = "failed"
      BY Zenon, <2>1, <2>2, <3>1, <3>4 DEF RowOK
    <3>5. QED
      BY <2>2, <3>2, <3>3, <3>4
  <2>4. attempts[pay[1]] \in AttemptRows
    BY Zenon, <1>0, <2>1, <2>2, ReferenceHasRow
  <2>5. row \in AttemptRows /\ row.state = state
    BY Zenon, <2>2, <2>4 DEF AttemptRows
  <2>6. /\ attempts' = [attempts EXCEPT ![pay[1]] = row] /\ UNCHANGED invoice
        /\ IF state = "succeeded"
           THEN Goto(d, "record") /\ UNCHANGED <<charge, delivery>>
           ELSE FinishWith(d, "processed")
    BY <1>6 DEF WebhookComplete
  <2> HIDE DEF row, state, pay
  <2>7. PICK at \in {"record", "finish"} : Moved(d, at) /\ (at = "record" <=> state = "succeeded")
    BY <1>0, <2>6, GotoMoved, FinishMoved
  <2>8. d \notin Recording /\ at \in Labels \ {"claim", "apply", "complete", "add"}
    BY <2>0 DEF Recording, Labels
  <2>9. QED
    BY Zenon, <1>0, <2>1, <2>3, <2>5, <2>6, <2>7, <2>8, AttemptCount
<1>7. QED
  BY <1>2, <1>3, <1>4, <1>5, <1>6

LEMMA DeliveryStepCount ==
  ASSUME Counted, NEW d \in Deliveries, DeliveryStep(d)
  PROVE  CountInv'
<1>0. d \in Procs /\ invoice \in [state : InvoiceStates, paid : Nat] /\ IInv
  BY DEF Procs, Counted, IInv, Typed, TypeOK
<1>1. CASE DisputeRead(d)
  BY <1>0, <1>1, GotoCount, FinishCount DEF DisputeRead
<1>2. CASE DisputeWrite(d)
  <2>1. invoice'.paid = invoice.paid
    BY <1>0, <1>2 DEF DisputeWrite, WriteInvoice
  <2>2. QED
    BY <1>2, <2>1, FinishCount DEF DisputeWrite
<1>3. CASE WebhookFinish(d)
  BY Zenon, <1>0, <1>3, ReturnCount DEF WebhookFinish
<1>4. CASE WebhookRetryElsewhere(d)
  BY Zenon, <1>4 DEF WebhookRetryElsewhere, Counted, CountInv, Recording, Succeeded
<1>5. QED
  BY <1>1, <1>2, <1>3, <1>4, WebhookStepCount DEF DeliveryStep

LEMMA NextCount == Counted /\ [Next]_vars => CountInv'
<1> SUFFICES ASSUME Counted, [Next]_vars PROVE CountInv'
  OBVIOUS
<1>1. ASSUME NEW p \in Procs, Dies(p) PROVE CountInv'
  BY <1>1, ReturnCount DEF Dies
<1>2. ASSUME NEW pay \in Payments, ProviderDecides(pay) PROVE CountInv'
  BY <1>2 DEF ProviderDecides, Counted, CountInv, Recording, Succeeded
<1>3. CASE UNCHANGED vars
  BY <1>3 DEF vars, Counted, CountInv, Recording, Succeeded
<1>4. QED
  BY <1>1, <1>2, <1>3, CallerStepCount, DeliveryStepCount, PaymentStepCount DEF Next

LEMMA InitCount == Init => CountInv
<1> SUFFICES ASSUME Init PROVE CountInv
  OBVIOUS
<1>1. /\ \A d \in Deliveries : pc[d] = "idle"
      /\ \A p \in Procs : pc[p] = "idle"
      /\ \A a \in Attempts : attempts[a] = NoAttempt
      /\ invoice.paid = 0
  BY DEF Init, Procs
<1>2. Recording = {} /\ Succeeded = {}
  BY <1>1 DEF Recording, Succeeded, NoAttempt
<1>3. invoice.paid + Cardinality(Recording) <= Cardinality(Succeeded)
  BY <1>1, <1>2, FS_EmptySet
<1>4. "idle" \in Labels \ {"claim", "apply", "complete"}
  BY DEF Labels
<1>5. \A d \in Deliveries : EventOK(pc[d], delivery[d], attempts)
  BY <1>1, <1>4, NoEventDuty
<1>6. QED
  BY <1>3, <1>5 DEF CountInv

\* Each attempt that succeeded is a charge that was taken, and no two are the same.
LEMMA SucceededAreTaken ==
  ASSUME Counted
  PROVE  Cardinality(Succeeded) <= Cardinality(Taken)
<1> DEFINE f == [a \in Succeeded |-> <<a, attempts[a].provider>>]
<1>1. ASSUME NEW a \in Succeeded PROVE <<a, attempts[a].provider>> \in Taken
  <2>1. a \in Attempts /\ attempts[a].state = "succeeded" /\ RowOK(a, attempts[a], money)
    BY DEF Counted, IInv, Succeeded
  <2>2. attempts[a] # NoAttempt
    BY <2>1 DEF NoAttempt
  <2>3. QED
    BY <2>1, <2>2 DEF RowOK, Taken
<1>2. f \in [Succeeded -> Taken]
  BY <1>1
<1>3. f \in Injection(Succeeded, Taken)
  BY <1>2 DEF Injection, IsInjective
<1>4. IsFiniteSet(Taken) /\ IsFiniteSet(Succeeded)
  <2>1. Taken \subseteq Payments /\ IsFiniteSet(Payments)
    BY Finite DEF Taken, Counted
  <2>2. QED
    BY <2>1, FS_Subset, Counts
<1> HIDE DEF f
<1>5. QED
  BY <1>3, <1>4, FS_Injection

\* RecordPayment, called by ChargeInvoice and by applyPaymentEvent: however many
\* calls of ChargeInvoice run beside it, as long as the events of the providers
\* are applied one at a time the invoice is credited with no more payments than
\* were taken.  (Two events applied at once can record one payment twice.)
THEOREM CreditedWasTaken == Spec => [](OneAtATime /\ FinitelyMany => NothingInvented)
<1> DEFINE Few == OneAtATime /\ FinitelyMany
           Inv == IInv /\ (Few => CountInv)
<1>1. Init => Inv
  BY InitKept, InitCount
<1>2. Inv /\ [Next]_vars => Inv'
  <2> SUFFICES ASSUME Inv, [Next]_vars PROVE Inv'
    OBVIOUS
  <2>1. IInv'
    BY NextKept
  <2>2. Few => CountInv'
    BY NextCount DEF Counted
  <2>3. Few' => Few
    BY DEF OneAtATime, FinitelyMany
  <2>4. QED
    BY <2>1, <2>2, <2>3
<1>3. Inv => (Few => NothingInvented)
  <2> SUFFICES ASSUME Inv, Few PROVE NothingInvented
    OBVIOUS
  <2>1. Counted
    BY DEF Counted
  <2>2. IsFiniteSet(Taken)
    <3>1. Taken \subseteq Payments /\ IsFiniteSet(Payments)
      BY Finite DEF Taken
    <3>2. QED
      BY <3>1, FS_Subset
  <2>3. Cardinality(Taken) \in Nat
    BY <2>2, FS_CardinalityType
  <2>4. QED
    BY <2>1, <2>3, SucceededAreTaken, Counts DEF CountInv, NothingInvented
<1>4. QED
  BY <1>1, <1>2, <1>3, PTL DEF Spec

==============================================================================
