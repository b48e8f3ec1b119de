------------------------------- MODULE Domains -------------------------------
(***************************************************************************)
(* Custom domains (src/auth): a tenant adds a name, proves ownership with  *)
(* a TXT record, an administrator may have to approve it, and the TLS      *)
(* manager is asked for a certificate.                                     *)
(*                                                                         *)
(* A handler reads the row, waits for DNS, and then runs its statements    *)
(* one by one; none of them compares what the row says by then.  Nothing   *)
(* outside the tests calls SetDomainSSLIssued, so ssl_expires_at stays 0   *)
(* and RunDomainSSLRenewal, which selects ssl_expires_at > 0, has no rows. *)
(***************************************************************************)
EXTENDS Naturals, Sequences, FiniteSets

CONSTANTS
  Rows,             \* primary keys of custom_domains
  Names,            \* normalized names that ValidateDomain accepts
  Eligible,         \* the names a public CA can validate
  Owners,           \* users and organizations
  Workers,          \* requests and sweeps being executed at once
  RequireApproval,  \* DomainsRequireApproval
  MaxDomains,       \* MaxDomainsPerOwner
  MaxChecks         \* maxVerificationChecks

VARIABLES
  row,       \* custom_domains
  matched,   \* the rows whose TXT record has been seen to match
  cert,      \* the names the TLS manager holds
  worker,    \* statements a handler still has to run, row by row
  overlap    \* two handlers have been under way at once

vars == <<row, matched, cert, worker, overlap>>

NoRow == [state |-> "none"]
Deleted == [state |-> "deleted"]

Init ==
  /\ row = [d \in Rows |-> NoRow]
  /\ matched = {}
  /\ cert = {}
  /\ worker = [w \in Workers |-> <<>>]
  /\ overlap = FALSE

Stored == {d \in Rows : row[d].state = "row"}

CountDomains(o) == Cardinality({d \in Stored : row[d].owner = o})

DomainByName(n) == {d \in Stored : row[d].name = n}

-----------------------------------------------------------------------------
(* The handlers, up to the first statement that writes.                     *)

Do(op, d, arg) == [op |-> op, id |-> d, arg |-> arg, new |-> NoRow]

Start(w, work) ==
  /\ worker[w] = <<>>
  /\ worker' = [worker EXCEPT ![w] = work]
  /\ overlap' = (overlap \/ \E v \in Workers : worker[v] # <<>>)
  /\ UNCHANGED <<row, cert>>

\* Primary keys are handed out in order by the database.
Unused(d) ==
  /\ row[d].state = "none"
  /\ \A v \in Workers : \A i \in 1..Len(worker[v]) : Head(worker[v][i]).id # d

AddDomain(w, o, n, d) ==
  /\ Unused(d)
  /\ CountDomains(o) < MaxDomains
  /\ DomainByName(n) = {}
  /\ Start(w, << <<[Do("create", d, "none") EXCEPT !.new =
                       [state |-> "row", owner |-> o, name |-> n,
                        verification |-> "pending", checks |-> 0, status |-> "pending",
                        ssl |-> "none"]]>> >>)
  /\ UNCHANGED matched

requestCertificate(d) ==
  IF row[d].name \in Eligible
    THEN <<Do("ssl", d, "pending"), Do("addCert", d, row[d].name)>>
    ELSE <<Do("ssl", d, "none")>>

\* Mutant: the counter is compared after it was incremented.
failedLookupLate(d) == IF row[d].checks >= MaxChecks THEN "failed" ELSE "pending"

failedLookup(d) == IF row[d].checks + 1 >= MaxChecks THEN "failed" ELSE "pending"

runVerification(d, match) ==
  IF ~ match
    THEN <<Do("checked", d, failedLookup(d))>>
    ELSE IF RequireApproval
      THEN <<Do("verified", d, "pending")>>
      ELSE <<Do("verified", d, "active")>> \o requestCertificate(d)

\* MaxChecks also bounds the checks of a tenant, which the code does not.
VerifyDomain(w, d, match) ==
  /\ d \in Stored
  /\ row[d].verification # "verified"
  /\ row[d].checks <= MaxChecks
  /\ matched' = IF match THEN matched \cup {d} ELSE matched
  /\ Start(w, <<runVerification(d, match)>>)

\* The rows of a query, in any order.
Listed(due) ==
  {q \in [1..Cardinality(due) -> due] : \A i, j \in DOMAIN q : q[i] = q[j] => i = j}

\* Every pending row, in turn; hits are those whose record matches.
RunDomainVerification(w, hits) ==
  LET due == {d \in Stored : row[d].verification = "pending"}
  IN /\ due # {}
     /\ hits \subseteq due
     /\ matched' = matched \cup hits
     /\ \E q \in Listed(due) :
          Start(w, [i \in 1..Cardinality(due) |-> runVerification(q[i], q[i] \in hits)])

\* Mutant: an unverified domain can be approved.
ActivateUnverified(w, d) ==
  /\ d \in Stored
  /\ Start(w, << <<Do("status", d, "active")>> \o requestCertificate(d) >>)
  /\ UNCHANGED matched

ActivateDomain(w, d) ==
  /\ d \in Stored
  /\ row[d].verification = "verified"
  /\ Start(w, << <<Do("status", d, "active")>> \o requestCertificate(d) >>)
  /\ UNCHANGED matched

SuspendDomain(w, d) ==
  /\ d \in Stored
  /\ Start(w, << <<Do("status", d, "suspended"), Do("removeCert", d, row[d].name)>> >>)
  /\ UNCHANGED matched

DeleteDomain(w, d) ==
  /\ d \in Stored
  /\ Start(w, << <<Do("delete", d, "none"), Do("removeCert", d, row[d].name)>> >>)
  /\ UNCHANGED matched

-----------------------------------------------------------------------------
(* The statements.  An UPDATE of a row that is gone matches nothing.        *)

SetRow(d, r) == row' = IF d \in Stored THEN [row EXCEPT ![d] = r] ELSE row

CreateDomain(d, r) == row' = [row EXCEPT ![d] = r]

MarkDomainChecked(d, status) ==
  SetRow(d, [row[d] EXCEPT !.verification = status, !.checks = @ + 1])

MarkDomainVerified(d, status) ==
  SetRow(d, [row[d] EXCEPT !.verification = "verified", !.checks = @ + 1,
                           !.status = status])

SetDomainStatus(d, status) == SetRow(d, [row[d] EXCEPT !.status = status])

\* SetDomainSSLPending, SetDomainSSLError and DisableDomainSSL.
SetDomainSSL(d, status) == SetRow(d, [row[d] EXCEPT !.ssl = status])

DeleteRow(d) == row' = [row EXCEPT ![d] = Deleted]

Statement(w) ==
  LET work == Head(worker[w])
      s == Head(work)
  IN /\ worker[w] # <<>>
     /\ worker' = [worker EXCEPT ![w] =
                     IF Len(work) = 1 THEN Tail(@) ELSE <<Tail(work)>> \o Tail(@)]
     /\ \/ s.op = "create" /\ CreateDomain(s.id, s.new) /\ UNCHANGED cert
        \/ s.op = "checked" /\ MarkDomainChecked(s.id, s.arg) /\ UNCHANGED cert
        \/ s.op = "verified" /\ MarkDomainVerified(s.id, s.arg) /\ UNCHANGED cert
        \/ s.op = "status" /\ SetDomainStatus(s.id, s.arg) /\ UNCHANGED cert
        \/ s.op = "ssl" /\ SetDomainSSL(s.id, s.arg) /\ UNCHANGED cert
        \/ s.op = "delete" /\ DeleteRow(s.id) /\ UNCHANGED cert
        \/ s.op = "addCert" /\ cert' = cert \cup {s.arg} /\ UNCHANGED row
        \/ s.op = "removeCert" /\ cert' = cert \ {s.arg} /\ UNCHANGED row
     /\ UNCHANGED <<matched, overlap>>

\* A failed issuance is recorded on the row; any other failure ends the work on
\* this row, and a sweep goes on with the next one.
StatementFails(w) ==
  LET s == Head(Head(worker[w]))
  IN /\ worker[w] # <<>>
     /\ worker' = [worker EXCEPT ![w] =
                     IF s.op = "addCert" THEN << <<Do("ssl", s.id, "error")>> >> \o Tail(@)
                     ELSE Tail(@)]
     /\ UNCHANGED <<row, matched, cert, overlap>>

HandlerFails(w) ==
  /\ worker[w] # <<>>
  /\ worker' = [worker EXCEPT ![w] = <<>>]
  /\ UNCHANGED <<row, matched, cert, overlap>>

\* One DELETE; any subset of the unverified rows may be past the grace period.
PurgeStaleDomains(old) ==
  /\ old # {}
  /\ \A d \in old : d \in Stored /\ row[d].verification # "verified"
  /\ row' = [d \in Rows |-> IF d \in old THEN Deleted ELSE row[d]]
  /\ UNCHANGED <<matched, cert, worker, overlap>>

Next ==
  \/ \E old \in SUBSET Rows : PurgeStaleDomains(old)
  \/ \E w \in Workers :
       \/ Statement(w) \/ StatementFails(w) \/ HandlerFails(w)
       \/ \E hits \in SUBSET Rows : RunDomainVerification(w, hits)
       \/ \E d \in Rows :
            \/ ActivateDomain(w, d) \/ SuspendDomain(w, d) \/ DeleteDomain(w, d)
            \/ \E match \in BOOLEAN : VerifyDomain(w, d, match)
            \/ \E o \in Owners, n \in Names : AddDomain(w, o, n, d)

Spec == Init /\ [][Next]_vars

-----------------------------------------------------------------------------
(* Properties.                                                              *)

\* A domain that is served has proven its ownership, whatever the handlers
\* that write its row had read: activation demands a verified row, and only a
\* matching record ever makes one.
ProvenBeforeServed ==
  \A d \in Stored : row[d].status = "active" => d \in matched

\* As long as no two handlers are under way at once, whichever of their
\* statements fails, a name belongs to one tenant, the quota holds, an active
\* domain is a verified one, and a domain is polled only while it has checks left.
RulesKeptAlone ==
  ~ overlap =>
    /\ \A d, e \in Stored : row[d].name = row[e].name => d = e
    /\ \A o \in Owners : CountDomains(o) <= MaxDomains
    /\ \A d \in Stored :
         /\ row[d].status = "active" => row[d].verification = "verified"
         /\ row[d].verification = "pending" => row[d].checks < MaxChecks

(* Statements of the source that TLC refutes; see the README.               *)

\* service_domain.go: "A domain is globally unique".
NamesUnique == \A d, e \in Stored : row[d].name = row[e].name => d = e

\* store_domain.go: "ListActiveDomains returns every verified, active domain":
\* a late failed lookup takes an active domain out of that list.
ActiveIsVerified ==
  \A d \in Stored : row[d].status = "active" => row[d].verification = "verified"

\* service_domain.go: VerifyDomain is "additionally capped by the per-domain
\* check counter".
ChecksCapped == \A d \in Stored : row[d].checks <= MaxChecks
==============================================================================
