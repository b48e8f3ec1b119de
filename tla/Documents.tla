------------------------------ MODULE Documents ------------------------------
(***************************************************************************)
(* The numbered documents of billing (src/billing/invoices.go): invoices   *)
(* that a generator drafts, issues and reduces by the balance of the       *)
(* account, credit notes against issued invoices, and the counters both    *)
(* take their numbers from.  All of it happens in single statements that   *)
(* other calls and process ends may come between.                          *)
(*                                                                         *)
(* A number stands for its text: nextDocumentNumber prints it behind the   *)
(* prefix of its scope, so two texts differ if the numbers do.  Lines and  *)
(* tax give every invoice the total Total.  Payments are in Charges.       *)
(***************************************************************************)
EXTENDS Integers, FiniteSetsExt

CONSTANTS
  Calls,     \* calls being served; each drafts one invoice or writes one note
  MaxTries,  \* the turns of nextDocumentNumber
  Total,     \* what an invoice comes to
  Amounts,   \* what a credit note may be asked for
  Credit     \* what the account may be carrying at first

ASSUME DocumentsAssumption ==
  /\ IsFiniteSet(Calls)
  /\ MaxTries \in Nat /\ Total \in Nat /\ Amounts \subseteq Nat /\ Credit \in Nat

VARIABLES
  sequence,  \* billing_document_sequences; 0 is a scope without a row
  invoice,   \* billing_invoices: the one each call drafts
  note,      \* billing_credit_notes: the one each call writes
  balance,   \* balance_minor of the account
  pc,        \* where a call is
  scope,     \* the numbering scope it allocates in
  target,    \* the invoice it works on
  amount,    \* what it credits
  tries,     \* its turn in nextDocumentNumber
  seen,      \* the counter it read
  number,    \* the number it was given; 0 for none
  begun,     \* the counter when its allocation began (history)
  spent      \* what it took from the balance (history)

rows == <<sequence, invoice, note, balance>>
locals == <<scope, target, amount, tries, seen, number, begun, spent>>
vars == <<sequence, invoice, note, balance, pc, scope, target, amount, tries, seen,
          number, begun, spent>>

Scopes == {"invoice", "credit_note"}
NoInvoice == [state |-> "none", number |-> 0, credited |-> 0]
NoNote == [number |-> 0, amount |-> 0]

Init ==
  /\ sequence = [s \in Scopes |-> 0]
  /\ invoice = [c \in Calls |-> NoInvoice]
  /\ note = [c \in Calls |-> NoNote]
  /\ balance \in {0, Credit}
  /\ pc = [c \in Calls |-> "idle"]
  /\ scope = [c \in Calls |-> "invoice"]
  /\ target = [c \in Calls |-> c]
  /\ amount = [c \in Calls |-> 0]
  /\ tries = [c \in Calls |-> 0]
  /\ seen = [c \in Calls |-> 0]
  /\ number = [c \in Calls |-> 0]
  /\ begun = [c \in Calls |-> 0]
  /\ spent = [c \in Calls |-> 0]

Goto(c, label) == pc' = [pc EXCEPT ![c] = label]

-----------------------------------------------------------------------------
(* The beginnings.                                                          *)

\* CreateDraft with its lines and totals; the draft is its caller's alone.
CreateDraft(c) ==
  /\ pc[c] = "idle"
  /\ invoice' = [invoice EXCEPT ![c].state = "draft"]
  /\ begun' = [begun EXCEPT ![c] = sequence["invoice"]]
  /\ Goto(c, "read")
  /\ UNCHANGED <<sequence, note, balance, scope, target, amount, tries, seen, number, spent>>

\* IssueCreditNote up to the number: the amount is checked against one read.
CreditNoteCheck(c, t, a) ==
  /\ pc[c] = "idle"
  /\ invoice[t].state = "issued"
  /\ a > 0 /\ a <= Total - invoice[t].credited
  /\ scope' = [scope EXCEPT ![c] = "credit_note"]
  /\ target' = [target EXCEPT ![c] = t]
  /\ amount' = [amount EXCEPT ![c] = a]
  /\ begun' = [begun EXCEPT ![c] = sequence["credit_note"]]
  /\ Goto(c, "read")
  /\ UNCHANGED <<sequence, invoice, note, balance, tries, seen, number, spent>>

-----------------------------------------------------------------------------
(* nextDocumentNumber.                                                      *)

Allocated(c) == IF scope[c] = "invoice" THEN "issue" ELSE "note"

SequenceRead(c) ==
  /\ pc[c] = "read"
  /\ tries[c] < MaxTries
  /\ seen' = [seen EXCEPT ![c] = sequence[scope[c]]]
  /\ Goto(c, IF sequence[scope[c]] = 0 THEN "insert" ELSE "swap")
  /\ UNCHANGED <<rows, scope, target, amount, tries, number, begun, spent>>

\* The first row of a scope; another call may have inserted it.
SequenceInsert(c) ==
  /\ pc[c] = "insert"
  /\ sequence' = [sequence EXCEPT ![scope[c]] = IF @ = 0 THEN 1 ELSE @]
  /\ tries' = [tries EXCEPT ![c] = @ + 1]
  /\ Goto(c, "read")
  /\ UNCHANGED <<invoice, note, balance, scope, target, amount, seen, number, begun, spent>>

\* Mutant: the counter is written without comparing it.
SequenceSwapBlind(c) ==
  /\ pc[c] = "swap"
  /\ sequence' = [sequence EXCEPT ![scope[c]] = seen[c] + 1]
  /\ number' = [number EXCEPT ![c] = seen[c]]
  /\ Goto(c, Allocated(c))
  /\ UNCHANGED <<invoice, note, balance, scope, target, amount, tries, seen, begun, spent>>

\* The compare-and-set succeeds.
SequenceSwap(c) ==
  /\ pc[c] = "swap"
  /\ sequence[scope[c]] = seen[c]
  /\ sequence' = [sequence EXCEPT ![scope[c]] = seen[c] + 1]
  /\ number' = [number EXCEPT ![c] = seen[c]]
  /\ Goto(c, Allocated(c))
  /\ UNCHANGED <<invoice, note, balance, scope, target, amount, tries, seen, begun, spent>>

\* Mutant: a turn that did not come to a swap counts too.
SequenceLostEager(c) ==
  /\ pc[c] = "swap"
  /\ tries' = [tries EXCEPT ![c] = @ + 1]
  /\ Goto(c, "read")
  /\ UNCHANGED <<rows, scope, target, amount, seen, number, begun, spent>>

\* It finds another value; or it succeeds and the driver cannot tell, which
\* leaves the number to nobody.
SequenceLost(c) ==
  /\ pc[c] = "swap"
  /\ sequence' = [sequence EXCEPT ![scope[c]] = IF @ = seen[c] THEN @ + 1 ELSE @]
  /\ tries' = [tries EXCEPT ![c] = @ + 1]
  /\ Goto(c, "read")
  /\ UNCHANGED <<invoice, note, balance, scope, target, amount, seen, number, begun, spent>>

SequenceGivesUp(c) ==
  /\ pc[c] = "read"
  /\ tries[c] >= MaxTries
  /\ Goto(c, "conflict")
  /\ UNCHANGED <<rows, locals>>

-----------------------------------------------------------------------------
(* Issuing an invoice.  Only GenerateSubscriptionInvoice goes on to the      *)
(* balance of the account, RaiseProrationInvoice does not.                   *)

IssueInvoice(c) ==
  /\ pc[c] = "issue"
  /\ invoice' = [invoice EXCEPT ![c] = [state |-> "issued", number |-> number[c], credited |-> 0]]
  /\ \E label \in {"reread", "done"} : Goto(c, label)
  /\ UNCHANGED <<sequence, note, balance, locals>>

\* The invoice that IssueInvoice returns, and BalanceDueMinor of it.
IssuedRead(c) ==
  /\ pc[c] = "reread"
  /\ amount' = [amount EXCEPT ![c] = IF invoice[c].credited > Total
                                       THEN 0 ELSE Total - invoice[c].credited]
  /\ Goto(c, "balance")
  /\ UNCHANGED <<rows, scope, target, tries, seen, number, begun, spent>>

Least(a, b) == IF a > b THEN b ELSE a

\* Mutant: an account in debt is consumed as well.
BalanceReadDebt(c) ==
  /\ pc[c] = "balance"
  /\ amount' = [amount EXCEPT ![c] = Least(balance, amount[c])]
  /\ Goto(c, "credit")
  /\ UNCHANGED <<rows, scope, target, tries, seen, number, begun, spent>>

\* applyAccountBalance, with that invoice.  settleIfPaid at its end changes
\* nothing: an issued invoice becomes neither paid nor partial.
BalanceRead(c) ==
  /\ pc[c] = "balance"
  /\ IF balance <= 0 \/ amount[c] <= 0
       THEN Goto(c, "done") /\ UNCHANGED amount
       ELSE Goto(c, "credit") /\ amount' = [amount EXCEPT ![c] = Least(balance, amount[c])]
  /\ UNCHANGED <<rows, scope, target, tries, seen, number, begun, spent>>

BalanceCredit(c) ==
  /\ pc[c] = "credit"
  /\ invoice' = [invoice EXCEPT ![c].credited = @ + amount[c]]
  /\ spent' = [spent EXCEPT ![c] = amount[c]]
  /\ Goto(c, "debit")
  /\ UNCHANGED <<sequence, note, balance, scope, target, amount, tries, seen, number, begun>>

BalanceDebit(c) ==
  /\ pc[c] = "debit"
  /\ balance' = balance - amount[c]
  /\ Goto(c, "done")
  /\ UNCHANGED <<sequence, invoice, note, locals>>

-----------------------------------------------------------------------------
(* Writing a credit note.                                                   *)

\* Mutant: the invoice is credited first.
CreditNoteInsertLate(c) ==
  /\ pc[c] = "note"
  /\ invoice' = [invoice EXCEPT ![target[c]].credited = @ + amount[c]]
  /\ Goto(c, "done")
  /\ UNCHANGED <<sequence, note, balance, locals>>

CreditNoteInsert(c) ==
  /\ pc[c] = "note"
  /\ note' = [note EXCEPT ![c] = [number |-> number[c], amount |-> amount[c]]]
  /\ Goto(c, "apply")
  /\ UNCHANGED <<sequence, invoice, balance, locals>>

CreditNoteApply(c) ==
  /\ pc[c] = "apply"
  /\ invoice' = [invoice EXCEPT ![target[c]].credited = @ + amount[c]]
  /\ Goto(c, "done")
  /\ UNCHANGED <<sequence, note, balance, locals>>

\* A statement fails or the process ends.
Dies(c) ==
  /\ pc[c] \notin {"idle", "done", "conflict", "dead"}
  /\ Goto(c, "dead")
  /\ UNCHANGED <<rows, locals>>

CallStep(c) ==
  \/ CreateDraft(c)
  \/ \E t \in Calls, a \in Amounts : CreditNoteCheck(c, t, a)
  \/ SequenceRead(c) \/ SequenceInsert(c)
  \/ SequenceSwap(c) \/ SequenceLost(c) \/ SequenceGivesUp(c)
  \/ IssueInvoice(c) \/ IssuedRead(c) \/ BalanceRead(c) \/ BalanceCredit(c) \/ BalanceDebit(c)
  \/ CreditNoteInsert(c) \/ CreditNoteApply(c)
  \/ Dies(c)

Next == \E c \in Calls : CallStep(c)

Spec == Init /\ [][Next]_vars

-----------------------------------------------------------------------------
(* Properties.                                                              *)

Labels == {"idle", "read", "insert", "swap", "conflict", "issue", "reread", "balance",
           "credit", "debit", "note", "apply", "done", "dead"}

Invoices == [state : {"none", "draft", "issued"}, number : Nat, credited : Nat]

\* Type correctness: applyAccountBalance and IssueCreditNote credit no negative
\* amount, even when calls that race leave the account in debt.
TypeOK ==
  /\ sequence \in [Scopes -> Nat]
  /\ invoice \in [Calls -> Invoices]
  /\ note \in [Calls -> [number : Nat, amount : Nat]]
  /\ balance \in Int
  /\ pc \in [Calls -> Labels]
  /\ scope \in [Calls -> Scopes]
  /\ target \in [Calls -> Calls]
  /\ amount \in [Calls -> Nat]
  /\ tries \in [Calls -> Nat]
  /\ seen \in [Calls -> Nat]
  /\ number \in [Calls -> Nat]
  /\ begun \in [Calls -> Nat]
  /\ spent \in [Calls -> Nat]

\* "two concurrent issuers can never take the same number": no two invoices and
\* no two credit notes share one, and no document goes without.
NumbersUnique ==
  /\ \A c \in Calls : invoice[c].state = "issued" => invoice[c].number > 0
  /\ \A c, d \in Calls : c # d =>
       /\ invoice[c].number > 0 => invoice[c].number # invoice[d].number
       /\ note[c].number > 0 => note[c].number # note[d].number

\* nextDocumentNumber refuses a caller only when it was overtaken in every one
\* of its turns: the counter has moved on by as many numbers.
OvertakenEveryTime ==
  \A c \in Calls : pc[c] = "conflict" => sequence[scope[c]] >= begun[c] + MaxTries

NotesOf(t) == MapThenSumSet(LAMBDA c : note[c].amount, {c \in Calls : target[c] = t})

\* "the credit note carries the adjustment": whatever dies in between, an
\* invoice is credited with nothing but the credit notes against it and what
\* its generator took from the balance.
CreditedIsBacked ==
  \A t \in Calls : invoice[t].credited <= NotesOf(t) + spent[t]

\* "A credit note cannot exceed the uncredited amount of the invoice."
NotCreditedBeyondTotal == \A t \in Calls : invoice[t].credited <= Total

\* A credit of the account is consumed, not multiplied: the invoices are
\* credited with no more than the account carried.
CreditSpentOnce ==
  MapThenSumSet(LAMBDA c : spent[c], Calls) <= Credit
==============================================================================
