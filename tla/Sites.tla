-------------------------------- MODULE Sites -------------------------------
(***************************************************************************)
(* Web sites (src/hosting/web.go), the activation of a generated nginx     *)
(* configuration (apply.go) and the domain claims that gate it (domain.go).*)
(*                                                                         *)
(* An activation snapshots the file, writes it, has nginx check the whole  *)
(* configuration and reload it, and puts the snapshot back when either     *)
(* fails.  nginx is external: a reload adopts every file on disk.  Nothing *)
(* locks the files.  Each site has one domain, which names its file.       *)
(***************************************************************************)
EXTENDS Naturals, Sequences

CONSTANTS
  Sites,    \* sites, with the domain each is created for
  Confs,    \* settings a site can have; its server block is a function of them
  Off,      \* no server block
  Workers   \* requests being executed at once

VARIABLES
  claim,    \* hosting_domain_ownership
  row,      \* hosting_sites
  tree,     \* sites whose document root exists
  file,     \* the server block on disk
  live,     \* the server block nginx has loaded
  worker,   \* the handler of a request: its copies and remaining statements
  lost,     \* something that is only logged, or is not undone, has failed
  overlap   \* two handlers have been under way at once

vars == <<claim, row, tree, file, live, worker, lost, overlap>>

NoSite == [stored |-> FALSE, enabled |-> FALSE, conf |-> Off]
Idle == [site |-> Off, copy |-> NoSite, want |-> Off, snap |-> Off, todo |-> <<>>]

Init ==
  /\ claim = [s \in Sites |-> "none"]
  /\ row = [s \in Sites |-> NoSite]
  /\ tree = {}
  /\ file = [s \in Sites |-> Off]
  /\ live = [s \in Sites |-> Off]
  /\ worker = [w \in Workers |-> Idle]
  /\ lost = FALSE
  /\ overlap = FALSE

-----------------------------------------------------------------------------
(* The handlers, up to the first statement that writes.                     *)

Start(w, s, copy, want, todo) ==
  /\ worker[w] = Idle
  /\ worker' = [worker EXCEPT ![w] = [site |-> s, copy |-> copy, want |-> want,
                                      snap |-> Off, todo |-> todo]]
  /\ overlap' = (overlap \/ \E v \in Workers : worker[v] # Idle)
  /\ UNCHANGED <<claim, row, tree, file, live, lost>>

\* A verified claim is answered as it is; the row is deleted and inserted again.
ClaimDomain(w, s) ==
  /\ claim[s] # "verified"
  /\ Start(w, s, NoSite, Off, <<"DeleteClaim", "PutClaimed">>)

VerifyDomain(w, s) ==
  /\ claim[s] = "claimed"
  /\ Start(w, s, NoSite, Off, <<"DeleteClaim", "PutVerified">>)

requireOwnedDomain(s) == claim[s] = "verified"

apply == <<"takeSnapshot", "write", "Check", "Reload">>

\* What a site is served with.
renderVhost(r) == IF r.stored /\ r.enabled THEN r.conf ELSE Off

SiteByDomain(s) == row[s].stored

CreateSite(w, s, c) ==
  /\ requireOwnedDomain(s) /\ ~ SiteByDomain(s)
  /\ LET site == [stored |-> TRUE, enabled |-> TRUE, conf |-> c]
     IN Start(w, s, site, renderVhost(site),
              <<"provisionSiteTree">> \o apply \o <<"CreateSite">>)

UpdateSite(w, s, c) ==
  /\ row[s].stored
  /\ LET site == [row[s] EXCEPT !.conf = c]
     IN Start(w, s, site, renderVhost(site), apply \o <<"UpdateSite">>)

setSiteEnabled(w, s) ==
  /\ row[s].stored
  /\ LET site == [row[s] EXCEPT !.enabled = ~ @]
     IN Start(w, s, site, renderVhost(site), apply \o <<"UpdateSite">>)

\* Mutant: the content is removed while the site is still stored.
DeleteSiteTreeFirst(w, s) ==
  /\ row[s].stored
  /\ Start(w, s, NoSite, Off, apply \o <<"RemoveAll", "DeleteSite">>)

\* The certificates are released between the row and the tree.
DeleteSite(w, s) ==
  /\ row[s].stored
  /\ Start(w, s, NoSite, Off, apply \o <<"DeleteSite", "RemoveAll">>)

-----------------------------------------------------------------------------
(* The statements.                                                          *)

\* A row that is gone is "not found", a claim that is there a duplicate key.
Possible(h, op) ==
  CASE op \in {"UpdateSite", "DeleteSite"} -> row[h.site].stored
    [] op \in {"PutClaimed", "PutVerified"} -> claim[h.site] = "none"
    [] OTHER -> TRUE

PutOwnership(h, op) ==
  CASE op = "DeleteClaim" -> [claim EXCEPT ![h.site] = "none"]
    [] op = "PutClaimed" -> [claim EXCEPT ![h.site] = "claimed"]
    [] op = "PutVerified" -> [claim EXCEPT ![h.site] = "verified"]
    [] OTHER -> claim

Files(h, op) ==
  CASE op = "write" -> [file EXCEPT ![h.site] = h.want]
    [] op = "restoreAll" -> [file EXCEPT ![h.site] = h.snap]
    [] OTHER -> file

Finish(h) == IF h.todo = <<>> THEN Idle ELSE h

Statement(w) ==
  LET h == worker[w]
      op == Head(h.todo)
  IN /\ h # Idle /\ Possible(h, op)
     /\ claim' = PutOwnership(h, op)
     /\ row' = IF op \in {"CreateSite", "UpdateSite", "DeleteSite"}
                 THEN [row EXCEPT ![h.site] = h.copy] ELSE row
     /\ tree' = CASE op = "provisionSiteTree" -> tree \cup {h.site}
                  [] op = "RemoveAll" -> tree \ {h.site}
                  [] OTHER -> tree
     /\ file' = Files(h, op)
     /\ live' = IF op \in {"Reload", "reloadQuietly"} THEN file ELSE live
     /\ worker' = [worker EXCEPT ![w] =
                     Finish([h EXCEPT !.snap = IF op = "takeSnapshot" THEN file[h.site] ELSE @,
                                      !.todo = Tail(@)])]
     /\ UNCHANGED <<lost, overlap>>

\* Mutant: a rejected configuration is left on disk for the next reload.
OnFailureKept(h, op) ==
  CASE op = "write" -> [h EXCEPT !.todo = <<"restoreAll">>]
    [] op = "Reload" -> [h EXCEPT !.todo = <<"restoreAll", "reloadQuietly">>]
    [] op = "restoreAll" -> Finish([h EXCEPT !.todo = Tail(@)])
    [] op = "CreateSite" -> [h EXCEPT !.copy = NoSite, !.want = Off, !.todo = apply]
    [] OTHER -> Idle

\* What follows a statement that fails: the files are put back, a site that could
\* not be stored is taken out of the configuration again, and the rest returns.
OnFailure(h, op) ==
  CASE op = "write" -> [h EXCEPT !.todo = <<"restoreAll">>]
    [] op \in {"Check", "Reload"} -> [h EXCEPT !.todo = <<"restoreAll", "reloadQuietly">>]
    [] op = "restoreAll" -> Finish([h EXCEPT !.todo = Tail(@)])
    [] op = "CreateSite" -> [h EXCEPT !.copy = NoSite, !.want = Off, !.todo = apply]
    [] OTHER -> Idle

\* A failure that leaves the configuration apart from the rows for good.
Unrepaired(h, op) ==
  \/ op \in {"restoreAll", "reloadQuietly", "UpdateSite", "DeleteSite", "RemoveAll"}
  \/ op \in {"takeSnapshot", "write", "Check", "Reload"} /\ ~ h.copy.stored /\ ~ row[h.site].stored

StatementFails(w) ==
  LET h == worker[w]
      op == Head(h.todo)
  IN /\ h # Idle
     /\ worker' = [worker EXCEPT ![w] = OnFailure(h, op)]
     /\ lost' = (lost \/ Unrepaired(h, op))
     /\ UNCHANGED <<claim, row, tree, file, live, overlap>>

\* The process stops; what its handlers were doing is not taken up again.
Crash ==
  /\ \E w \in Workers : worker[w] # Idle
  /\ worker' = [w \in Workers |-> Idle]
  /\ lost' = TRUE
  /\ UNCHANGED <<claim, row, tree, file, live, overlap>>

Next ==
  \/ Crash
  \/ \E w \in Workers :
       \/ Statement(w) \/ StatementFails(w)
       \/ \E s \in Sites :
            \/ ClaimDomain(w, s) \/ VerifyDomain(w, s) \/ setSiteEnabled(w, s) \/ DeleteSite(w, s)
            \/ \E c \in Confs : CreateSite(w, s, c) \/ UpdateSite(w, s, c)

Spec == Init /\ [][Next]_vars

-----------------------------------------------------------------------------
(* Properties.                                                              *)

Quiet == \A w \in Workers : worker[w] = Idle

\* Between requests, what nginx serves is what is on disk and what the rows say,
\* although nginx may have rejected a configuration, a reload may have failed or
\* a new site may not have been stored: each is undone.  It takes a failed undo,
\* a row not written after nginx adopted the change, a crash, or two requests at
\* once to part them.
ServedIsStored ==
  ~ overlap /\ ~ lost /\ Quiet =>
    \A s \in Sites : file[s] = renderVhost(row[s]) /\ live[s] = file[s]

\* A stored site has its document root and a verified claim on its domain,
\* whatever has failed: the root is made before the row and removed after it,
\* and a claim is rewritten only while it is unverified.
RulesKeptAlone ==
  ~ overlap => \A s \in Sites : row[s].stored => s \in tree /\ requireOwnedDomain(s)

(* Statements of the source that TLC refutes; see the README.               *)

\* web.go: "UpdateSite changes the mutable fields of a site and regenerates its
\* config"; two requests for one site part the row from the file.
ServedIsStoredAlways ==
  ~ lost /\ Quiet =>
    \A s \in Sites : file[s] = renderVhost(row[s]) /\ live[s] = file[s]

\* store.go: "A vhost or a zone for a domain is only ever activated once ownership
\* is verified"; a claim made during the verification takes it back.
OwnedAlways == \A s \in Sites : row[s].stored => requireOwnedDomain(s)
=============================================================================
