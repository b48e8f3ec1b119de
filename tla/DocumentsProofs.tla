--------------------------- MODULE DocumentsProofs ---------------------------
(***************************************************************************)
(* For any number of calls, turns and amounts: no two documents share a    *)
(* number, an allocation gives up only when it was overtaken in every one  *)
(* of its turns, and an invoice is credited with nothing but the credit    *)
(* notes against it and what its generator took from the balance.          *)
(***************************************************************************)
EXTENDS Documents, FiniteSetTheorems, TLAPS

Unnumbered == {"idle", "read", "insert", "swap", "conflict"}

\* A number given out lies behind the counter of its scope and was given to one
\* call only; the documents of a call carry the number of that call.
Numbering ==
  /\ \A c \in Calls :
       /\ number[c] > 0 => number[c] < sequence[scope[c]]
       /\ pc[c] \in Unnumbered => number[c] = 0
       /\ pc[c] \in {"issue", "note"} => number[c] > 0
       /\ pc[c] = "idle" => scope[c] = "invoice" /\ invoice[c].state = "none"
       /\ pc[c] = "issue" => scope[c] = "invoice"
       /\ pc[c] = "note" => scope[c] = "credit_note"
       /\ invoice[c].state = "issued" => invoice[c].number > 0
       /\ invoice[c].number > 0 => invoice[c].number = number[c] /\ scope[c] = "invoice"
       /\ note[c].number > 0 => note[c].number = number[c] /\ scope[c] = "credit_note"
  /\ \A c, d \in Calls :
       c # d /\ number[c] > 0 /\ scope[c] = scope[d] => number[c] # number[d]

\* Every turn that was lost moved the counter on.
Turns ==
  \A c \in Calls :
    /\ pc[c] = "idle" => tries[c] = 0
    /\ pc[c] \in {"insert", "swap"} => /\ begun[c] + tries[c] <= seen[c]
                                       /\ seen[c] <= sequence[scope[c]]
    /\ pc[c] = "insert" => seen[c] = 0
    /\ pc[c] = "swap" => seen[c] > 0
    /\ pc[c] \in {"read", "conflict"} => begun[c] + tries[c] <= sequence[scope[c]]
    /\ pc[c] = "conflict" => tries[c] >= MaxTries

IInv == TypeOK /\ Numbering /\ Turns

\* An invoice row with another state or credit is one.
LEMMA RowTyped ==
  ASSUME NEW row \in Invoices
  PROVE  /\ [row EXCEPT !.state = "draft"] \in Invoices
         /\ \A n \in Nat : [row EXCEPT !.credited = n] \in Invoices
BY DEF Invoices

\* Nothing is numbered or counted at first.
LEMMA InitIInv == Init => IInv
<1> SUFFICES ASSUME Init PROVE IInv
  OBVIOUS
<1> USE DocumentsAssumption DEF Init
<1>1. TypeOK
  BY DEF TypeOK, Scopes, NoInvoice, NoNote, Labels, Invoices
<1>2. Numbering
  BY DEF Numbering, NoInvoice, NoNote, Unnumbered
<1>3. Turns
  BY DEF Turns, Scopes
<1>4. QED
  BY <1>1, <1>2, <1>3 DEF IInv

\* No call leaves the types.
LEMMA StepTyped ==
  ASSUME TypeOK, NEW c \in Calls, CallStep(c)
  PROVE  TypeOK'
<1> USE DocumentsAssumption DEF TypeOK, Goto, rows, locals, Scopes, Labels
<1>1. CASE CreateDraft(c)
  <2>1. [invoice[c] EXCEPT !.state = "draft"] \in Invoices
    BY RowTyped
  <2>2. invoice' \in [Calls -> Invoices]
    BY <1>1, <2>1 DEF CreateDraft
  <2>3. QED
    BY <1>1, <2>2 DEF CreateDraft
<1>2. ASSUME NEW t \in Calls, NEW a \in Amounts, CreditNoteCheck(c, t, a) PROVE TypeOK'
  BY <1>2 DEF CreditNoteCheck
<1>3. CASE SequenceRead(c)
  BY <1>3 DEF SequenceRead
<1>4. CASE SequenceInsert(c)
  BY <1>4 DEF SequenceInsert
<1>5. CASE SequenceSwap(c)
  BY <1>5 DEF SequenceSwap, Allocated
<1>6. CASE SequenceLost(c)
  BY <1>6 DEF SequenceLost
<1>7. CASE SequenceGivesUp(c)
  BY <1>7 DEF SequenceGivesUp
<1>8. CASE IssueInvoice(c)
  BY <1>8 DEF IssueInvoice, Invoices
<1>9. CASE BalanceRead(c)
  <2>1. CASE balance <= 0 \/ amount[c] <= 0
    BY Zenon, <1>9, <2>1 DEF BalanceRead
  <2>2. CASE ~(balance <= 0 \/ amount[c] <= 0)
    <3>1. Least(balance, amount[c]) \in Nat
      BY <2>2 DEF Least
    <3>2. amount' \in [Calls -> Nat]
      BY <1>9, <2>2, <3>1 DEF BalanceRead
    <3>3. QED
      BY <1>9, <2>2, <3>2 DEF BalanceRead
  <2>3. QED
    BY <2>1, <2>2
<1>10. CASE BalanceCredit(c)
  <2>1. invoice[c] \in Invoices /\ invoice[c].credited + amount[c] \in Nat
    BY DEF Invoices
  <2>2. invoice' \in [Calls -> Invoices]
    BY Zenon, <1>10, <2>1, RowTyped DEF BalanceCredit
  <2>3. QED
    BY <1>10, <2>2 DEF BalanceCredit
<1>11. CASE BalanceDebit(c)
  BY <1>11 DEF BalanceDebit
<1>12. CASE CreditNoteInsert(c)
  BY <1>12 DEF CreditNoteInsert
<1>13. CASE CreditNoteApply(c)
  <2>1. invoice[target[c]] \in Invoices /\ invoice[target[c]].credited + amount[c] \in Nat
    BY DEF Invoices
  <2>2. invoice' \in [Calls -> Invoices]
    BY Zenon, <1>13, <2>1, RowTyped DEF CreditNoteApply
  <2>3. QED
    BY <1>13, <2>2 DEF CreditNoteApply
<1>14. CASE Dies(c)
  BY <1>14 DEF Dies
<1>15. CASE IssuedRead(c)
  BY <1>15 DEF IssuedRead, Invoices
<1>16. QED
  BY <1>1, <1>2, <1>3, <1>4, <1>5, <1>6, <1>7, <1>8, <1>9, <1>10, <1>11, <1>12, <1>13,
     <1>14, <1>15 DEF CallStep

\* No call disturbs the numbering.
LEMMA StepNumbering ==
  ASSUME IInv, TypeOK', NEW c \in Calls, CallStep(c)
  PROVE  Numbering'
<1> USE DocumentsAssumption
    DEF IInv, TypeOK, Numbering, Turns, Goto, rows, locals, Scopes, Unnumbered, Invoices
<1>1. CASE CreateDraft(c)
  BY <1>1 DEF CreateDraft
<1>2. ASSUME NEW t \in Calls, NEW a \in Amounts, CreditNoteCheck(c, t, a) PROVE Numbering'
  BY <1>2 DEF CreditNoteCheck
<1>3. CASE SequenceRead(c)
  BY <1>3 DEF SequenceRead
<1>4. CASE SequenceInsert(c)
  BY <1>4 DEF SequenceInsert
<1>5. CASE SequenceSwap(c)
  BY <1>5 DEF SequenceSwap, Allocated
<1>6. CASE SequenceLost(c)
  BY <1>6 DEF SequenceLost
<1>7. CASE SequenceGivesUp(c)
  BY <1>7 DEF SequenceGivesUp
<1>8. CASE IssueInvoice(c)
  BY <1>8 DEF IssueInvoice
<1>9. CASE BalanceRead(c)
  BY <1>9 DEF BalanceRead, Least
<1>10. CASE BalanceCredit(c)
  BY <1>10 DEF BalanceCredit
<1>11. CASE BalanceDebit(c)
  BY <1>11 DEF BalanceDebit
<1>12. CASE CreditNoteInsert(c)
  BY <1>12 DEF CreditNoteInsert
<1>13. CASE CreditNoteApply(c)
  BY <1>13 DEF CreditNoteApply
<1>14. CASE Dies(c)
  BY <1>14 DEF Dies
<1>15. CASE IssuedRead(c)
  BY <1>15 DEF IssuedRead, Invoices
<1>16. QED
  BY Zenon, <1>1, <1>2, <1>3, <1>4, <1>5, <1>6, <1>7, <1>8, <1>9, <1>10, <1>11, <1>12, <1>13,
     <1>14, <1>15 DEF CallStep

\* No call disturbs the count of the turns.
LEMMA StepTurns ==
  ASSUME IInv, TypeOK', NEW c \in Calls, CallStep(c)
  PROVE  Turns'
<1> USE DocumentsAssumption DEF IInv, TypeOK, Turns, Goto, rows, locals, Scopes
<1>1. CASE CreateDraft(c)
  BY <1>1 DEF CreateDraft, Numbering
<1>2. ASSUME NEW t \in Calls, NEW a \in Amounts, CreditNoteCheck(c, t, a) PROVE Turns'
  BY <1>2 DEF CreditNoteCheck
<1>3. CASE SequenceRead(c)
  BY <1>3 DEF SequenceRead
<1>4. CASE SequenceInsert(c)
  BY <1>4 DEF SequenceInsert
<1>5. CASE SequenceSwap(c)
  BY <1>5 DEF SequenceSwap, Allocated
<1>6. CASE SequenceLost(c)
  <2>1. \A s \in Scopes : sequence'[s] >= sequence[s]
    BY <1>6 DEF SequenceLost
  <2>2. sequence'[scope[c]] >= seen[c] + 1
    <3>1. /\ sequence[scope[c]] \in Nat /\ seen[c] \in Nat
          /\ seen[c] <= sequence[scope[c]]
      BY <1>6 DEF SequenceLost
    <3>2. sequence'[scope[c]] = IF sequence[scope[c]] = seen[c] THEN sequence[scope[c]] + 1
                                                                ELSE sequence[scope[c]]
      BY <1>6 DEF SequenceLost
    <3>3. CASE sequence[scope[c]] = seen[c]
      BY ONLY <3>1, <3>2, <3>3
    <3>4. CASE sequence[scope[c]] # seen[c]
      BY ONLY <3>1, <3>2, <3>4
    <3>5. QED
      BY ONLY <3>3, <3>4
  <2>3. QED
    BY <1>6, <2>1, <2>2 DEF SequenceLost
<1>7. CASE SequenceGivesUp(c)
  BY <1>7 DEF SequenceGivesUp
<1>8. CASE IssueInvoice(c)
  BY <1>8 DEF IssueInvoice
<1>9. CASE BalanceRead(c)
  BY <1>9 DEF BalanceRead, Least
<1>10. CASE BalanceCredit(c)
  BY <1>10 DEF BalanceCredit
<1>11. CASE BalanceDebit(c)
  BY <1>11 DEF BalanceDebit
<1>12. CASE CreditNoteInsert(c)
  BY <1>12 DEF CreditNoteInsert
<1>13. CASE CreditNoteApply(c)
  BY <1>13 DEF CreditNoteApply
<1>14. CASE Dies(c)
  BY <1>14 DEF Dies
<1>15. CASE IssuedRead(c)
  BY <1>15 DEF IssuedRead, Invoices
<1>16. QED
  BY <1>1, <1>2, <1>3, <1>4, <1>5, <1>6, <1>7, <1>8, <1>9, <1>10, <1>11, <1>12, <1>13,
     <1>14, <1>15 DEF CallStep

\* Every step keeps the invariant.
LEMMA NextIInv == IInv /\ [Next]_vars => IInv'
<1> SUFFICES ASSUME IInv, [Next]_vars PROVE IInv'
  OBVIOUS
<1>1. ASSUME NEW c \in Calls, CallStep(c) PROVE IInv'
  <2>1. TypeOK'
    BY <1>1, StepTyped DEF IInv
  <2>2. QED
    BY <1>1, <2>1, StepNumbering, StepTurns DEF IInv
<1>2. CASE UNCHANGED vars
  BY <1>2 DEF IInv, TypeOK, Numbering, Turns, vars
<1>3. QED
  BY <1>1, <1>2 DEF Next

\* The invariant holds throughout.
LEMMA Invariance == Spec => []IInv
BY InitIInv, NextIInv, PTL DEF Spec

\* The rows and the calls of any number of issuers stay well typed.
THEOREM TypeCorrect == Spec => []TypeOK
<1>1. IInv => TypeOK
  BY DEF IInv
<1>2. QED
  BY <1>1, Invariance, PTL

\* The compare-and-set of nextDocumentNumber gives every document a number of
\* its own, however many calls allocate at once, fail or end halfway.
THEOREM NoNumberTwice == Spec => []NumbersUnique
<1>1. IInv => NumbersUnique
  BY DEF IInv, TypeOK, Numbering, NumbersUnique, Invoices
<1>2. QED
  BY <1>1, Invariance, PTL

\* nextDocumentNumber fails a call only after the counter moved on by as many
\* numbers as the call has turns.
THEOREM GivesUpWhenOvertaken == Spec => []OvertakenEveryTime
<1>1. IInv => OvertakenEveryTime
  BY DocumentsAssumption DEF IInv, TypeOK, Turns, OvertakenEveryTime, Labels, Scopes
<1>2. QED
  BY <1>1, Invariance, PTL

-----------------------------------------------------------------------------
(* Finite sets of calls.                                                     *)

\* A nonempty set of numbers has a least one.
LEMMA LeastNumber ==
  ASSUME NEW S \in SUBSET Nat, S # {}
  PROVE  \E n \in S : \A m \in S : n <= m
<1> DEFINE less == OpToRel(<, Nat)
<1>1. IsWellFoundedOn(less, Nat)
  BY Zenon, NatLessThanWellFounded
<1>2. \A m, n \in Nat : m < n => <<m, n>> \in less
  BY DEF OpToRel
<1> HIDE DEF less
<1>3. PICK n \in S : \A m \in S : ~(<<m, n>> \in less)
  BY Zenon, <1>1, WFMin
<1>4. ASSUME NEW m \in S PROVE n <= m
  <2>1. m \in Nat /\ n \in Nat
    OBVIOUS
  <2>2. ~(m < n)
    BY Zenon, <1>2, <1>3, <2>1
  <2>3. QED
    BY <2>1, <2>2
<1>5. QED
  BY <1>4

\* Of the subsets of a finite set that are in B, one has no member to lose.
LEMMA MinimalSubset ==
  ASSUME NEW S, IsFiniteSet(S), NEW B \in SUBSET SUBSET S, B # {}
  PROVE  \E s \in B : \A x \in s : s \ {x} \notin B
<1> DEFINE sizes == {Cardinality(s) : s \in B}
<1>1. \A s \in B : IsFiniteSet(s) /\ Cardinality(s) \in Nat
  BY FS_Subset, FS_CardinalityType
<1>2. sizes \in SUBSET Nat /\ sizes # {}
  BY <1>1
<1>3. PICK n \in sizes : \A m \in sizes : n <= m
  <2> HIDE DEF sizes
  <2> QED
    BY <1>2, LeastNumber
<1>4. PICK s \in B : Cardinality(s) = n
  BY <1>3
<1>5. ASSUME NEW x \in s, s \ {x} \in B PROVE FALSE
  <2>1. Cardinality(s \ {x}) = Cardinality(s) - 1
    BY <1>1, FS_RemoveElement
  <2>2. n <= Cardinality(s \ {x})
    BY <1>3, <1>5
  <2>3. QED
    BY <1>1, <1>4, <2>1, <2>2
<1>6. QED
  BY <1>5

-----------------------------------------------------------------------------
(* Sums over the subsets of a finite set.                                    *)

Pick(s) == CHOOSE x \in s : TRUE

\* g gives every subset of S the sum of f over it, in the order of MapThenSumSet.
IsSum(g, f, S) ==
  g = [s \in SUBSET S |-> IF s = {} THEN 0 ELSE f[Pick(s)] + g[s \ {Pick(s)}]]

\* Pick picks.
LEMMA PickIn == ASSUME NEW s, s # {} PROVE Pick(s) \in s
BY DEF Pick

\* One unfolding of a sum.
LEMMA SumUnfolds ==
  ASSUME NEW g, NEW f, NEW S, IsSum(g, f, S), NEW s \in SUBSET S
  PROVE  /\ s = {} => g[s] = 0
         /\ s # {} => Pick(s) \in s /\ g[s] = f[Pick(s)] + g[s \ {Pick(s)}]
<1>1. g[s] = IF s = {} THEN 0 ELSE f[Pick(s)] + g[s \ {Pick(s)}]
  BY DEF IsSum
<1>2. QED
  BY <1>1, PickIn

\* A sum of numbers is a number.
LEMMA SumIsNat ==
  ASSUME NEW g, NEW f, NEW S, IsFiniteSet(S), IsSum(g, f, S),
         \A x \in S : f[x] \in Nat
  PROVE  \A s \in SUBSET S : g[s] \in Nat
<1>g. \A s \in SUBSET S :
        /\ s = {} => g[s] = 0
        /\ s # {} => Pick(s) \in s /\ g[s] = f[Pick(s)] + g[s \ {Pick(s)}]
  BY SumUnfolds
<1> DEFINE B == {s \in SUBSET S : g[s] \notin Nat}
<1>1. SUFFICES ASSUME B # {} PROVE FALSE
  OBVIOUS
<1>2. PICK s \in B : \A x \in s : s \ {x} \notin B
  <2>1. B \in SUBSET SUBSET S
    OBVIOUS
  <2> HIDE DEF B
  <2>2. QED
    BY Zenon, <1>1, <2>1, MinimalSubset
<1>3. s \in SUBSET S /\ g[s] \notin Nat
  OBVIOUS
<1>4. CASE s = {}
  <2>1. g[s] = 0
    BY Zenon, <1>3, <1>4, <1>g
  <2>2. QED
    BY <1>3, <2>1
<1>5. CASE s # {}
  <2>1. Pick(s) \in s /\ g[s] = f[Pick(s)] + g[s \ {Pick(s)}]
    BY <1>3, <1>5, <1>g
  <2>2. g[s \ {Pick(s)}] \in Nat
    BY <1>2, <1>3, <2>1
  <2>3. f[Pick(s)] \in Nat
    BY <1>3, <2>1
  <2>4. QED
    BY <2>1, <2>2, <2>3
<1>6. QED
  BY <1>4, <1>5

\* Functions that agree on a set have one sum over it.
LEMMA SumUnique ==
  ASSUME NEW g, NEW f, NEW S, IsSum(g, f, S), IsFiniteSet(S),
         NEW h, NEW k, NEW T, IsSum(h, k, T),
         NEW q, q \subseteq S, q \subseteq T, \A x \in q : f[x] = k[x]
  PROVE  g[q] = h[q]
<1>g. \A s \in SUBSET S :
        /\ s = {} => g[s] = 0
        /\ s # {} => Pick(s) \in s /\ g[s] = f[Pick(s)] + g[s \ {Pick(s)}]
  BY SumUnfolds
<1>h. \A s \in SUBSET T :
        /\ s = {} => h[s] = 0
        /\ s # {} => Pick(s) \in s /\ h[s] = k[Pick(s)] + h[s \ {Pick(s)}]
  BY SumUnfolds
<1> DEFINE B == {s \in SUBSET q : g[s] # h[s]}
<1>1. SUFFICES ASSUME B # {} PROVE FALSE
  OBVIOUS
<1>2. PICK s \in B : \A x \in s : s \ {x} \notin B
  <2>1. B \in SUBSET SUBSET q
    OBVIOUS
  <2>2. IsFiniteSet(q)
    BY FS_Subset
  <2> HIDE DEF B
  <2>3. QED
    BY Zenon, <1>1, <2>1, <2>2, MinimalSubset
<1>3. s \in SUBSET S /\ s \in SUBSET T /\ s \subseteq q /\ g[s] # h[s]
  OBVIOUS
<1>4. CASE s = {}
  BY Zenon, <1>3, <1>4, <1>g, <1>h
<1>5. CASE s # {}
  <2>1. Pick(s) \in s /\ g[s] = f[Pick(s)] + g[s \ {Pick(s)}]
    BY <1>3, <1>5, <1>g
  <2>2. h[s] = k[Pick(s)] + h[s \ {Pick(s)}]
    BY <1>3, <1>5, <1>h
  <2>3. g[s \ {Pick(s)}] = h[s \ {Pick(s)}]
    BY <1>2, <1>3, <2>1
  <2>4. QED
    BY <1>3, <2>1, <2>2, <2>3
<1>6. QED
  BY <1>4, <1>5

\* Any member may be taken out of a sum, not only the one that is picked.
LEMMA SumTakes ==
  ASSUME NEW g, NEW f, NEW S, IsFiniteSet(S), IsSum(g, f, S),
         \A x \in S : f[x] \in Nat
  PROVE  \A s \in SUBSET S, c \in S : c \in s => g[s] = f[c] + g[s \ {c}]
<1>g. \A s \in SUBSET S :
        /\ s = {} => g[s] = 0
        /\ s # {} => Pick(s) \in s /\ g[s] = f[Pick(s)] + g[s \ {Pick(s)}]
  BY SumUnfolds
<1> DEFINE B == {s \in SUBSET S : \E c \in s : g[s] # f[c] + g[s \ {c}]}
<1>1. SUFFICES ASSUME B # {} PROVE FALSE
  BY Zenon
<1>2. PICK s \in B : \A x \in s : s \ {x} \notin B
  <2>1. B \in SUBSET SUBSET S
    OBVIOUS
  <2> HIDE DEF B
  <2>2. QED
    BY Zenon, <1>1, <2>1, MinimalSubset
<1>3. s \in SUBSET S
  OBVIOUS
<1>4. PICK c \in s : g[s] # f[c] + g[s \ {c}]
  OBVIOUS
<1>5. PICK p : p = Pick(s)
  OBVIOUS
<1>6. p \in s /\ g[s] = f[p] + g[s \ {p}]
  BY <1>3, <1>4, <1>5, <1>g
<1>7. p # c
  BY Zenon, <1>4, <1>6
<1>8. g[s \ {p}] = f[c] + g[(s \ {p}) \ {c}]
  BY Zenon, <1>2, <1>3, <1>6, <1>7
<1>9. g[s \ {c}] = f[p] + g[(s \ {c}) \ {p}]
  BY Zenon, <1>2, <1>3, <1>6, <1>7
<1>10. (s \ {p}) \ {c} = (s \ {c}) \ {p}
  OBVIOUS
<1>11. f[c] \in Nat /\ f[p] \in Nat /\ g[(s \ {c}) \ {p}] \in Nat
  <2>1. c \in S /\ p \in S /\ (s \ {c}) \ {p} \in SUBSET S
    BY <1>3, <1>6
  <2>2. QED
    BY <2>1, SumIsNat
<1>12. QED
  <2>1. PICK r : r = g[(s \ {c}) \ {p}]
    OBVIOUS
  <2>2. g[s] = f[p] + (f[c] + r) /\ g[s \ {c}] = f[p] + r
    BY Zenon, <1>6, <1>8, <1>9, <1>10, <2>1
  <2>3. f[c] \in Nat /\ f[p] \in Nat /\ r \in Nat
    BY <1>11, <2>1
  <2>4. f[p] + (f[c] + r) = f[c] + (f[p] + r)
    BY <2>3
  <2>5. QED
    BY <1>4, <2>2, <2>4

\* Numbers over a finite set have a sum.
LEMMA SumExists ==
  ASSUME NEW f, NEW S, IsFiniteSet(S)
  PROVE  \E g : IsSum(g, f, S)
<1> DEFINE upto(n) == {s \in SUBSET S : Cardinality(s) <= n}
           good(g, n) == g = [s \in upto(n) |->
                                IF s = {} THEN 0 ELSE f[Pick(s)] + g[s \ {Pick(s)}]]
           B == {n \in Nat : ~ \E g : good(g, n)}
<1>1. \A s \in SUBSET S : IsFiniteSet(s) /\ Cardinality(s) \in Nat
  BY FS_Subset, FS_CardinalityType
<1>2. \E g : good(g, 0)
  <2> DEFINE g == [s \in upto(0) |-> 0]
  <2>1. \A s \in upto(0) : s = {}
    BY <1>1, FS_EmptySet
  <2>2. good(g, 0)
    BY <2>1
  <2>3. QED
    BY Zenon, <2>2
<1>3. ASSUME NEW n \in Nat, NEW g, good(g, n) PROVE \E h : good(h, n + 1)
  <2> DEFINE h == [s \in upto(n + 1) |->
                     IF s = {} THEN 0 ELSE f[Pick(s)] + g[s \ {Pick(s)}]]
  <2>1. ASSUME NEW s \in upto(n + 1), s # {} PROVE h[s \ {Pick(s)}] = g[s \ {Pick(s)}]
    <3>1. PICK q : q = s \ {Pick(s)}
      BY Zenon
    <3>2. q \in upto(n) /\ q \in upto(n + 1)
      <4>1. Pick(s) \in s
        BY <2>1, PickIn
      <4>2. Cardinality(q) = Cardinality(s) - 1
        BY <1>1, <3>1, <4>1, FS_RemoveElement
      <4>3. QED
        BY <1>1, <3>1, <4>2
    <3>3. g[q] = IF q = {} THEN 0 ELSE f[Pick(q)] + g[q \ {Pick(q)}]
      BY Zenon, <1>3, <3>2
    <3>4. h[q] = IF q = {} THEN 0 ELSE f[Pick(q)] + g[q \ {Pick(q)}]
      BY <3>2
    <3>5. QED
      BY <3>1, <3>3, <3>4
  <2>2. good(h, n + 1)
    BY Zenon, <2>1
  <2>3. QED
    BY Zenon, <2>2
<1>4. B = {}
  <2>1. SUFFICES ASSUME B # {} PROVE FALSE
    BY Zenon
  <2>2. PICK n \in B : \A m \in B : n <= m
    <3>1. B \in SUBSET Nat
      OBVIOUS
    <3> HIDE DEF B
    <3>2. QED
      BY <2>1, <3>1, LeastNumber
  <2>3. n # 0
    <3>1. ~ \E g : good(g, n)
      BY Zenon
    <3> HIDE DEF good
    <3>2. QED
      BY Zenon, <1>2, <3>1
  <2>4. PICK m \in Nat : n = m + 1
    <3>1. n \in Nat
      BY <2>2
    <3>2. n - 1 \in Nat /\ n = (n - 1) + 1
      BY <2>3, <3>1
    <3>3. QED
      BY <3>2
  <2> HIDE DEF good
  <2>5. PICK g : good(g, m)
    <3>1. ~(n <= m)
      BY <2>4
    <3>2. QED
      BY <2>2, <3>1
  <2>6. \E h : good(h, m + 1)
    BY <1>3, <2>5
  <2>7. QED
    BY <2>2, <2>4, <2>6
<1>5. PICK g : good(g, Cardinality(S))
  BY Zenon, <1>1, <1>4
<1>6. upto(Cardinality(S)) = SUBSET S
  BY FS_Subset, <1>1
<1>7. IsSum(g, f, S)
  BY Zenon, <1>5, <1>6 DEF IsSum
<1>8. QED
  BY <1>7

\* The sum of f over s, a set of calls.
SumOf(f, s) == (CHOOSE g : IsSum(g, f, Calls))[s]

\* SumOf is a sum.
LEMMA SumOfIsSum ==
  ASSUME NEW f
  PROVE  \E g : IsSum(g, f, Calls) /\ \A s : SumOf(f, s) = g[s]
<1>1. \E g : IsSum(g, f, Calls)
  BY DocumentsAssumption, SumExists
<1>2. IsSum(CHOOSE g : IsSum(g, f, Calls), f, Calls)
  BY <1>1
<1>3. QED
  BY Zenon, <1>2 DEF SumOf

\* It is a number.
LEMMA SumOfIsNat ==
  ASSUME NEW f \in [Calls -> Nat], NEW s \in SUBSET Calls
  PROVE  SumOf(f, s) \in Nat
<1>1. PICK g : IsSum(g, f, Calls) /\ \A x : SumOf(f, x) = g[x]
  BY SumOfIsSum
<1>2. \A x \in Calls : f[x] \in Nat
  OBVIOUS
<1>3. \A y \in SUBSET Calls : g[y] \in Nat
  BY <1>1, <1>2, SumIsNat, DocumentsAssumption
<1>4. QED
  BY <1>1, <1>3

\* What two sums have in common when they differ in the part of one call only.
LEMMA SumWithout ==
  ASSUME NEW f \in [Calls -> Nat], NEW k \in [Calls -> Nat], NEW c \in Calls,
         NEW s \in SUBSET Calls, NEW q \in SUBSET Calls,
         \A x \in Calls : x # c => f[x] = k[x] /\ (x \in s <=> x \in q)
  PROVE  \E r \in Nat : /\ SumOf(f, s) = r + IF c \in s THEN f[c] ELSE 0
                        /\ SumOf(k, q) = r + IF c \in q THEN k[c] ELSE 0
<1>1. PICK g : IsSum(g, f, Calls) /\ \A x : SumOf(f, x) = g[x]
  BY SumOfIsSum
<1>2. PICK h : IsSum(h, k, Calls) /\ \A x : SumOf(k, x) = h[x]
  BY SumOfIsSum
<1>3. PICK p : p = s \ {c}
  BY Zenon
<1>4. p = q \ {c} /\ p \in SUBSET Calls
  BY <1>3
<1>5. g[p] = h[p]
  <2>1. \A x \in p : f[x] = k[x]
    BY <1>3
  <2>2. QED
    BY <1>1, <1>2, <1>4, <2>1, SumUnique, DocumentsAssumption
<1>6. g[p] \in Nat
  <2>1. \A x \in Calls : f[x] \in Nat
    OBVIOUS
  <2>2. \A x \in SUBSET Calls : g[x] \in Nat
    BY <1>1, <2>1, SumIsNat, DocumentsAssumption
  <2>3. QED
    BY <1>4, <2>2
<1>7. g[s] = g[p] + IF c \in s THEN f[c] ELSE 0
  <2>1. CASE c \in s
    <3>1. \A x \in Calls : f[x] \in Nat
      OBVIOUS
    <3>2. \A y \in SUBSET Calls, x \in Calls : x \in y => g[y] = f[x] + g[y \ {x}]
      BY <1>1, <3>1, SumTakes, DocumentsAssumption
    <3>3. g[s] = f[c] + g[p]
      BY <1>3, <2>1, <3>2
    <3>4. QED
      BY <1>6, <2>1, <3>1, <3>3
  <2>2. CASE c \notin s
    <3>1. p = s
      BY <1>3, <2>2
    <3>2. QED
      BY <1>6, <2>2, <3>1
  <2>3. QED
    BY <2>1, <2>2
<1>8. h[q] = h[p] + IF c \in q THEN k[c] ELSE 0
  <2>1. CASE c \in q
    <3>1. \A x \in Calls : k[x] \in Nat
      OBVIOUS
    <3>2. \A y \in SUBSET Calls, x \in Calls : x \in y => h[y] = k[x] + h[y \ {x}]
      BY <1>2, <3>1, SumTakes, DocumentsAssumption
    <3>3. h[q] = k[c] + h[p]
      BY <1>4, <2>1, <3>2
    <3>4. QED
      BY <1>5, <1>6, <2>1, <3>1, <3>3
  <2>2. CASE c \notin q
    <3>1. p = q
      BY <1>4, <2>2
    <3>2. QED
      BY <1>5, <1>6, <2>2, <3>1
  <2>3. QED
    BY <2>1, <2>2
<1>9. QED
  BY <1>1, <1>2, <1>5, <1>6, <1>7, <1>8

\* A part of a set of calls has no larger a sum.
LEMMA SumMonotone ==
  ASSUME NEW f \in [Calls -> Nat], NEW s \in SUBSET Calls, NEW q \in SUBSET Calls,
         s \subseteq q
  PROVE  SumOf(f, s) <= SumOf(f, q)
<1>1. PICK g : IsSum(g, f, Calls) /\ \A x : SumOf(f, x) = g[x]
  BY SumOfIsSum
<1>2. \A x \in Calls : f[x] \in Nat
  OBVIOUS
<1>3. \A y \in SUBSET Calls : g[y] \in Nat
  BY <1>1, <1>2, SumIsNat, DocumentsAssumption
<1>4. \A y \in SUBSET Calls, x \in Calls : x \in y => g[y] = f[x] + g[y \ {x}]
  BY <1>1, <1>2, SumTakes, DocumentsAssumption
<1> DEFINE B == {y \in SUBSET Calls : s \subseteq y /\ ~(g[s] <= g[y])}
<1>5. B = {}
  <2>1. SUFFICES ASSUME B # {} PROVE FALSE
    OBVIOUS
  <2>2. PICK y \in B : \A x \in y : y \ {x} \notin B
    <3>1. B \in SUBSET SUBSET Calls
      OBVIOUS
    <3> HIDE DEF B
    <3>2. QED
      BY Zenon, <2>1, <3>1, MinimalSubset, DocumentsAssumption
  <2>3. y \in SUBSET Calls /\ s \subseteq y /\ ~(g[s] <= g[y])
    OBVIOUS
  <2>4. s # y
    BY <1>3, <2>3
  <2>5. PICK x \in y : x \notin s
    BY <2>3, <2>4
  <2>6. g[s] <= g[y \ {x}]
    BY <2>2, <2>3, <2>5
  <2>7. g[y] = f[x] + g[y \ {x}]
    BY <1>4, <2>3
  <2>8. g[s] \in Nat /\ g[y \ {x}] \in Nat /\ f[x] \in Nat
    BY <1>2, <1>3, <2>3
  <2>9. QED
    BY <2>3, <2>6, <2>7, <2>8
<1>6. g[s] <= g[q]
  BY <1>5
<1>7. QED
  BY <1>1, <1>6

NoteAmounts == [c \in Calls |-> note[c].amount]

\* NotesOf adds up the notes against an invoice.
LEMMA NotesAreSummed ==
  ASSUME TypeOK, NEW t \in Calls
  PROVE  NotesOf(t) = SumOf(NoteAmounts, {c \in Calls : target[c] = t})
<1>1. PICK S : S = {c \in Calls : target[c] = t}
  BY Zenon
<1>2. S \in SUBSET Calls /\ IsFiniteSet(S)
  BY <1>1, FS_Subset, DocumentsAssumption
<1>3. PICK h : IsSum(h, NoteAmounts, S)
  BY <1>2, SumExists
<1>4. \A s \in SUBSET S : s # {} => Pick(s) \in Calls
  BY <1>2, PickIn
<1>5. \A g : (g = [s \in SUBSET S |->
                     IF s = {} THEN 0 ELSE note[Pick(s)].amount + g[s \ {Pick(s)}]])
             <=> IsSum(g, NoteAmounts, S)
  <2>1. ASSUME NEW g
        PROVE  [s \in SUBSET S |-> IF s = {} THEN 0 ELSE note[Pick(s)].amount + g[s \ {Pick(s)}]]
               = [s \in SUBSET S |-> IF s = {} THEN 0 ELSE NoteAmounts[Pick(s)] + g[s \ {Pick(s)}]]
    BY <1>4 DEF NoteAmounts
  <2>2. QED
    BY <2>1 DEF IsSum
<1>6. PICK iter : /\ iter = CHOOSE g : g = [s \in SUBSET S |->
                       IF s = {} THEN 0 ELSE note[Pick(s)].amount + g[s \ {Pick(s)}]]
  OBVIOUS
<1>7. NotesOf(t) = iter[S]
  BY <1>1, <1>6 DEF NotesOf, MapThenSumSet, MapThenFoldSet, Pick
<1>8. IsSum(iter, NoteAmounts, S)
  <2>1. iter = [s \in SUBSET S |->
                  IF s = {} THEN 0 ELSE note[Pick(s)].amount + iter[s \ {Pick(s)}]]
    BY Zenon, <1>3, <1>5, <1>6
  <2>2. QED
    BY Zenon, <1>5, <2>1
<1>9. PICK g : IsSum(g, NoteAmounts, Calls) /\ \A s : SumOf(NoteAmounts, s) = g[s]
  BY SumOfIsSum
<1>10. iter[S] = g[S]
  BY <1>2, <1>8, <1>9, SumUnique
<1>11. QED
  BY <1>1, <1>7, <1>9, <1>10

-----------------------------------------------------------------------------
(* What backs the credit of an invoice.                                      *)

\* A call writes its note once, and takes from the balance once; what it has
\* written and not yet applied is what it credits.
Held ==
  \A c \in Calls :
    /\ pc[c] \notin {"apply", "done", "dead"} => note[c].amount = 0
    /\ pc[c] \notin {"debit", "done", "dead"} => spent[c] = 0
    /\ pc[c] = "apply" => note[c].amount = amount[c]

\* The calls whose notes against t need not be applied any more.
Counted(t) == {c \in Calls : target[c] = t /\ pc[c] # "apply"}

Backing == \A t \in Calls : invoice[t].credited <= SumOf(NoteAmounts, Counted(t)) + spent[t]

\* What c itself adds to the sum for t.
Part(c, t) == IF c \in Counted(t) THEN NoteAmounts[c] ELSE 0

\* A step changes the note, the target and the place of one call only.
LEMMA StepLocal ==
  ASSUME TypeOK, NEW c \in Calls, CallStep(c)
  PROVE  \A x \in Calls : x # c => note'[x] = note[x] /\ target'[x] = target[x] /\ pc'[x] = pc[x]
<1> USE DEF TypeOK, Goto, rows, locals
<1>1. CASE CreateDraft(c)
  BY <1>1 DEF CreateDraft
<1>2. ASSUME NEW t \in Calls, NEW a \in Amounts, CreditNoteCheck(c, t, a)
      PROVE  \A x \in Calls : x # c => note'[x] = note[x] /\ target'[x] = target[x] /\ pc'[x] = pc[x]
  BY <1>2 DEF CreditNoteCheck
<1>3. CASE \/ SequenceRead(c) \/ SequenceInsert(c) \/ SequenceSwap(c)
           \/ SequenceLost(c) \/ SequenceGivesUp(c)
  BY <1>3 DEF SequenceRead, SequenceInsert, SequenceSwap, SequenceLost, SequenceGivesUp
<1>4. CASE IssueInvoice(c) \/ IssuedRead(c) \/ BalanceCredit(c) \/ BalanceDebit(c)
  BY <1>4 DEF IssueInvoice, IssuedRead, BalanceCredit, BalanceDebit
<1>5. CASE BalanceRead(c)
  BY <1>5 DEF BalanceRead
<1>6. CASE CreditNoteInsert(c) \/ CreditNoteApply(c) \/ Dies(c)
  BY <1>6 DEF CreditNoteInsert, CreditNoteApply, Dies
<1>7. QED
  BY Zenon, <1>1, <1>2, <1>3, <1>4, <1>5, <1>6 DEF CallStep

\* So the sums before and after it differ in the part of that call.
LEMMA StepSums ==
  ASSUME TypeOK, TypeOK', NEW c \in Calls, CallStep(c), NEW t \in Calls
  PROVE  \E r \in Nat : /\ SumOf(NoteAmounts, Counted(t)) = r + Part(c, t)
                        /\ SumOf(NoteAmounts, Counted(t))' = r + Part(c, t)'
<1>1. NoteAmounts \in [Calls -> Nat] /\ NoteAmounts' \in [Calls -> Nat]
  BY DEF NoteAmounts, TypeOK
<1>2. Counted(t) \in SUBSET Calls /\ Counted(t)' \in SUBSET Calls
  BY DEF Counted
<1>3. \A x \in Calls : x # c => /\ NoteAmounts[x] = NoteAmounts'[x]
                                /\ (x \in Counted(t) <=> x \in Counted(t)')
  BY StepLocal DEF NoteAmounts, Counted
<1>4. SumOf(NoteAmounts, Counted(t))' = SumOf(NoteAmounts', Counted(t)')
  BY DEF SumOf
<1>5. PICK f, k, s, q : f = NoteAmounts /\ k = NoteAmounts' /\ s = Counted(t) /\ q = Counted(t)'
  OBVIOUS
<1>6. \E r \in Nat : /\ SumOf(f, s) = r + IF c \in s THEN f[c] ELSE 0
                     /\ SumOf(k, q) = r + IF c \in q THEN k[c] ELSE 0
  <2>1. f \in [Calls -> Nat] /\ k \in [Calls -> Nat] /\ s \in SUBSET Calls /\ q \in SUBSET Calls
    BY <1>1, <1>2, <1>5
  <2>2. \A x \in Calls : x # c => f[x] = k[x] /\ (x \in s <=> x \in q)
    BY <1>3, <1>5
  <2>3. QED
    BY <2>1, <2>2, SumWithout
<1>7. QED
  BY <1>4, <1>5, <1>6 DEF Part

\* A call holds what it held but for the step it takes.
LEMMA StepHeld ==
  ASSUME TypeOK, TypeOK', Held, NEW c \in Calls, CallStep(c)
  PROVE  Held'
<1> USE DEF TypeOK, Held, Goto, rows, locals
<1>1. CASE CreateDraft(c)
  BY <1>1 DEF CreateDraft
<1>2. ASSUME NEW t \in Calls, NEW a \in Amounts, CreditNoteCheck(c, t, a) PROVE Held'
  BY <1>2 DEF CreditNoteCheck
<1>3. CASE SequenceRead(c)
  BY <1>3 DEF SequenceRead
<1>4. CASE SequenceInsert(c)
  BY <1>4 DEF SequenceInsert
<1>5. CASE SequenceSwap(c)
  BY <1>5 DEF SequenceSwap, Allocated
<1>6. CASE SequenceLost(c)
  BY <1>6 DEF SequenceLost
<1>7. CASE SequenceGivesUp(c)
  BY <1>7 DEF SequenceGivesUp
<1>8. CASE IssueInvoice(c)
  BY <1>8 DEF IssueInvoice
<1>9. CASE IssuedRead(c)
  BY <1>9 DEF IssuedRead
<1>10. CASE BalanceRead(c)
  BY <1>10 DEF BalanceRead
<1>11. CASE BalanceCredit(c)
  BY <1>11 DEF BalanceCredit
<1>12. CASE BalanceDebit(c)
  BY <1>12 DEF BalanceDebit
<1>13. CASE CreditNoteInsert(c)
  BY <1>13 DEF CreditNoteInsert
<1>14. CASE CreditNoteApply(c)
  BY <1>14 DEF CreditNoteApply
<1>15. CASE Dies(c)
  BY <1>15 DEF Dies
<1>16. QED
  BY <1>1, <1>2, <1>3, <1>4, <1>5, <1>6, <1>7, <1>8, <1>9, <1>10, <1>11, <1>12, <1>13,
     <1>14, <1>15 DEF CallStep

\* What a step adds to the credit of an invoice it adds to its backing.
LEMMA StepGains ==
  ASSUME TypeOK, TypeOK', Held, NEW c \in Calls, CallStep(c), NEW t \in Calls
  PROVE  \/ invoice'[t].credited = 0
         \/ invoice'[t].credited + Part(c, t) + spent[t]
              <= invoice[t].credited + Part(c, t)' + spent'[t]
<1>1. /\ invoice[t].credited \in Nat /\ invoice'[t].credited \in Nat
      /\ spent[t] \in Nat /\ spent'[t] \in Nat
      /\ Part(c, t) \in Nat /\ Part(c, t)' \in Nat
  BY DEF TypeOK, Invoices, Part, NoteAmounts
<1>2. note[c].amount = 0 => Part(c, t) = 0
  BY DEF Part, NoteAmounts
<1>3. ASSUME note' = note, target' = target, pc' \in [Calls -> Labels],
             pc[c] # "apply", pc'[c] # "apply"
      PROVE  Part(c, t)' = Part(c, t)
  BY <1>3 DEF Part, NoteAmounts, Counted
<1>4. CASE CreateDraft(c)
  <2>1. note[c].amount = 0
    BY <1>4 DEF CreateDraft, Held
  <2>2. invoice'[t].credited = invoice[t].credited /\ spent' = spent
    BY <1>4 DEF CreateDraft, TypeOK, Invoices
  <2>3. QED
    BY <1>1, <1>2, <2>1, <2>2
<1>5. ASSUME NEW u \in Calls, NEW a \in Amounts, CreditNoteCheck(c, u, a)
      PROVE  invoice'[t].credited + Part(c, t) + spent[t]
               <= invoice[t].credited + Part(c, t)' + spent'[t]
  <2>1. note[c].amount = 0
    BY <1>5 DEF CreditNoteCheck, Held
  <2>2. invoice' = invoice /\ spent' = spent
    BY <1>5 DEF CreditNoteCheck
  <2>3. QED
    BY <1>1, <1>2, <2>1, <2>2
<1>6. CASE \/ SequenceRead(c) \/ SequenceInsert(c) \/ SequenceSwap(c)
           \/ SequenceLost(c) \/ SequenceGivesUp(c)
  <2>1. note[c].amount = 0
    BY <1>6 DEF SequenceRead, SequenceInsert, SequenceSwap, SequenceLost, SequenceGivesUp, Held
  <2>2. invoice' = invoice /\ spent' = spent
    BY Zenon, <1>6 DEF SequenceRead, SequenceInsert, SequenceSwap, SequenceLost, SequenceGivesUp, rows,
                locals
  <2>3. QED
    BY <1>1, <1>2, <2>1, <2>2
<1>7. CASE IssueInvoice(c)
  <2>1. note[c].amount = 0
    BY <1>7 DEF IssueInvoice, Held
  <2>2. spent' = spent /\ (invoice'[t].credited = 0 \/ invoice'[t] = invoice[t])
    BY <1>7 DEF IssueInvoice, locals, TypeOK
  <2>3. QED
    BY <1>1, <1>2, <2>1, <2>2
<1>8. CASE IssuedRead(c) \/ BalanceRead(c)
  <2>1. note[c].amount = 0
    BY <1>8 DEF IssuedRead, BalanceRead, Held
  <2>2. invoice' = invoice /\ spent' = spent
    BY Zenon, <1>8 DEF IssuedRead, BalanceRead, rows
  <2>3. QED
    BY <1>1, <1>2, <2>1, <2>2
<1>9. CASE BalanceCredit(c)
  <2>1. note[c].amount = 0 /\ spent[c] = 0
    BY <1>9 DEF BalanceCredit, Held
  <2>2. CASE t = c
    <3>1. amount[c] \in Nat
      BY DEF TypeOK
    <3>2. invoice'[t].credited = invoice[t].credited + amount[c] /\ spent'[t] = amount[c]
      BY <1>9, <2>2 DEF BalanceCredit, TypeOK, Invoices
    <3>3. QED
      BY <1>1, <1>2, <2>1, <2>2, <3>1, <3>2
  <2>3. CASE t # c
    <3>1. invoice'[t] = invoice[t] /\ spent'[t] = spent[t]
      BY <1>9, <2>3 DEF BalanceCredit, TypeOK
    <3>2. QED
      BY <1>1, <1>2, <2>1, <3>1
  <2>4. QED
    BY <2>2, <2>3
<1>10. CASE BalanceDebit(c)
  <2>1. /\ note' = note /\ target' = target /\ pc' \in [Calls -> Labels]
        /\ pc[c] # "apply" /\ pc'[c] # "apply"
    BY <1>10 DEF BalanceDebit, Goto, locals, TypeOK
  <2>2. invoice' = invoice /\ spent' = spent
    BY Zenon, <1>10 DEF BalanceDebit, locals
  <2>3. QED
    BY <1>1, <1>3, <2>1, <2>2
<1>11. CASE CreditNoteInsert(c)
  <2>1. note[c].amount = 0
    BY <1>11 DEF CreditNoteInsert, Held
  <2>2. invoice' = invoice /\ spent' = spent
    BY Zenon, <1>11 DEF CreditNoteInsert, locals
  <2>3. QED
    BY <1>1, <1>2, <2>1, <2>2
<1>12. CASE CreditNoteApply(c)
  <2>1. note' = note /\ spent' = spent /\ target' = target /\ pc'[c] # "apply" /\ Part(c, t) = 0
    BY <1>12 DEF CreditNoteApply, Goto, locals, TypeOK, Part, Counted
  <2>2. CASE t = target[c]
    <3>1. amount[c] \in Nat /\ note[c].amount = amount[c]
      BY <1>12 DEF CreditNoteApply, TypeOK, Held
    <3>2. Part(c, t)' = amount[c]
      BY <2>1, <2>2, <3>1 DEF Part, Counted, NoteAmounts
    <3>3. invoice'[t].credited = invoice[t].credited + amount[c]
      BY <1>12, <2>2 DEF CreditNoteApply, TypeOK, Invoices
    <3>4. QED
      BY <1>1, <2>1, <3>1, <3>2, <3>3
  <2>3. CASE t # target[c]
    <3>1. invoice'[t] = invoice[t]
      BY <1>12, <2>3 DEF CreditNoteApply, TypeOK
    <3>2. QED
      BY <1>1, <2>1, <3>1
  <2>4. QED
    BY <2>2, <2>3
<1>13. CASE Dies(c)
  <2>1. note' = note /\ target' = target /\ pc'[c] # "apply" /\ invoice' = invoice /\ spent' = spent
    BY <1>13 DEF Dies, Goto, rows, locals, TypeOK
  <2>2. Part(c, t) <= Part(c, t)'
    BY <1>1, <2>1 DEF Part, Counted, NoteAmounts
  <2>3. QED
    BY <1>1, <2>1, <2>2
<1>14. QED
  BY Zenon, <1>4, <1>5, <1>6, <1>7, <1>8, <1>9, <1>10, <1>11, <1>12, <1>13 DEF CallStep

\* No call credits an invoice without backing.
LEMMA StepBacking ==
  ASSUME TypeOK, TypeOK', Held, Backing, NEW c \in Calls, CallStep(c)
  PROVE  Backing'
<1>1. SUFFICES ASSUME NEW t \in Calls
               PROVE  invoice'[t].credited <= SumOf(NoteAmounts, Counted(t))' + spent'[t]
  BY DEF Backing
<1>2. PICK r \in Nat : /\ SumOf(NoteAmounts, Counted(t)) = r + Part(c, t)
                       /\ SumOf(NoteAmounts, Counted(t))' = r + Part(c, t)'
  BY StepSums
<1>3. /\ invoice[t].credited \in Nat /\ invoice'[t].credited \in Nat
      /\ spent[t] \in Nat /\ spent'[t] \in Nat
      /\ Part(c, t) \in Nat /\ Part(c, t)' \in Nat
  BY DEF TypeOK, Invoices, Part, NoteAmounts
<1>4. invoice[t].credited <= r + Part(c, t) + spent[t]
  BY <1>2 DEF Backing
<1>5. \/ invoice'[t].credited = 0
      \/ invoice'[t].credited + Part(c, t) + spent[t]
           <= invoice[t].credited + Part(c, t)' + spent'[t]
  BY StepGains
<1>6. invoice'[t].credited <= r + Part(c, t)' + spent'[t]
  BY <1>3, <1>4, <1>5
<1>7. QED
  BY <1>2, <1>6

\* Nothing is credited at first.
LEMMA InitBacking == Init => Held /\ Backing
<1> SUFFICES ASSUME Init PROVE Held /\ Backing
  OBVIOUS
<1>1. TypeOK
  BY InitIInv DEF IInv
<1>2. Held
  BY DEF Init, Held, NoNote
<1>3. ASSUME NEW t \in Calls PROVE SumOf(NoteAmounts, Counted(t)) \in Nat
  <2>1. NoteAmounts \in [Calls -> Nat] /\ Counted(t) \in SUBSET Calls
    BY <1>1 DEF NoteAmounts, Counted, TypeOK
  <2>2. QED
    BY <2>1, SumOfIsNat
<1>4. \A t \in Calls : invoice[t].credited = 0 /\ spent[t] = 0
  BY DEF Init, NoInvoice
<1>5. Backing
  BY <1>3, <1>4 DEF Backing
<1>6. QED
  BY <1>2, <1>5

\* The credit is backed throughout.
LEMMA BackingInvariance == Spec => [](Held /\ Backing)
<1>1. IInv /\ IInv' /\ Held /\ Backing /\ [Next]_vars => Held' /\ Backing'
  <2> SUFFICES ASSUME IInv, IInv', Held, Backing, [Next]_vars PROVE Held' /\ Backing'
    OBVIOUS
  <2>1. TypeOK /\ TypeOK'
    BY DEF IInv
  <2>2. ASSUME NEW c \in Calls, CallStep(c) PROVE Held' /\ Backing'
    BY <2>1, <2>2, StepHeld, StepBacking
  <2>3. CASE UNCHANGED vars
    BY <2>3 DEF vars, Held, Backing, NoteAmounts, Counted, SumOf
  <2>4. QED
    BY <2>2, <2>3 DEF Next
<1>2. QED
  BY <1>1, InitBacking, Invariance, PTL DEF Spec

\* IssueCreditNote writes the note before it credits the invoice, and
\* applyAccountBalance credits what it takes: with any number of calls that
\* interleave and fail between two statements, an invoice is credited with
\* nothing but its credit notes and what its generator took.
THEOREM CreditHasBacking == Spec => []CreditedIsBacked
<1>1. IInv /\ Held /\ Backing => CreditedIsBacked
  <2> SUFFICES ASSUME IInv, Held, Backing, NEW t \in Calls
               PROVE  invoice[t].credited <= NotesOf(t) + spent[t]
    BY DEF CreditedIsBacked
  <2>1. TypeOK
    BY DEF IInv
  <2>2. PICK a, s, q : a = NoteAmounts /\ s = Counted(t) /\ q = {c \in Calls : target[c] = t}
    BY Zenon
  <2>3. a \in [Calls -> Nat] /\ s \in SUBSET Calls /\ q \in SUBSET Calls /\ s \subseteq q
    BY <2>1, <2>2 DEF NoteAmounts, Counted, TypeOK
  <2>4. SumOf(a, s) <= SumOf(a, q) /\ SumOf(a, s) \in Nat /\ SumOf(a, q) \in Nat
    BY <2>3, SumMonotone, SumOfIsNat
  <2>5. NotesOf(t) = SumOf(a, q)
    BY Zenon, <2>1, <2>2, NotesAreSummed
  <2>6. invoice[t].credited <= SumOf(a, s) + spent[t]
    BY <2>2 DEF Backing
  <2>7. invoice[t].credited \in Nat /\ spent[t] \in Nat
    BY <2>1 DEF TypeOK, Invoices
  <2>8. QED
    BY <2>4, <2>5, <2>6, <2>7
<1>2. QED
  BY <1>1, Invariance, BackingInvariance, PTL
==============================================================================
