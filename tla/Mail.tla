-------------------------------- MODULE Mail --------------------------------
(***************************************************************************)
(* Mail hosting for one domain (src/hosting/mail.go): its row, mailboxes   *)
(* and alias, and the maps three services read, all regenerated from the   *)
(* rows after every change.  Activating the files of one service is one    *)
(* step, which takes place or changes nothing (the module Sites has the    *)
(* steps); the three are not undone together.                              *)
(***************************************************************************)
EXTENDS Naturals, Sequences

CONSTANTS
  Boxes,      \* mailboxes of the domain
  Passwords,  \* hashes a mailbox can have
  Disabled,   \* what a map has for a mailbox that is off or absent
  Hosted,     \* whether the zone of the domain is hosted here
  Workers     \* requests being executed at once

VARIABLES
  domain,   \* the hosting_mail_domains row exists
  box,      \* hosting_mailboxes
  alias,    \* the hosting_mail_aliases row exists
  home,     \* mailboxes whose directory exists
  key,      \* the signing key is on disk
  dns,      \* the mail records are in the hosted zone
  maps,     \* what transport, delivery and signing have been given
  worker,   \* the handler of a request: its copies and remaining statements
  lost,     \* a statement has failed and the maps were not regenerated since
  overlap   \* two handlers have been under way at once

vars == <<domain, box, alias, home, key, dns, maps, worker, lost, overlap>>

NoBox == [stored |-> FALSE, enabled |-> FALSE, hash |-> Disabled]
NoMaps == [transport |-> {}, delivery |-> [b \in Boxes |-> Disabled], signing |-> FALSE]
Idle == [box |-> Disabled, copy |-> NoBox, data |-> NoMaps, todo |-> <<>>]

Init ==
  /\ domain = FALSE
  /\ box = [b \in Boxes |-> NoBox]
  /\ alias = FALSE
  /\ home = {}
  /\ key = FALSE
  /\ dns = FALSE
  /\ maps = NoMaps
  /\ worker = [w \in Workers |-> Idle]
  /\ lost = FALSE
  /\ overlap = FALSE

-----------------------------------------------------------------------------
\* The rows of an enabled domain as the maps hold them: addresses and alias for
\* the transport, password hashes for delivery, the domain for signing.
mailData ==
  LET on == {b \in Boxes : domain /\ box[b].stored /\ box[b].enabled}
  IN [transport |-> on \cup (IF domain THEN {"domain"} ELSE {})
                       \cup (IF domain /\ alias THEN {"alias"} ELSE {}),
      delivery |-> [b \in Boxes |-> IF b \in on THEN box[b].hash ELSE Disabled],
      signing |-> domain]

Start(w, b, copy, todo) ==
  /\ worker[w] = Idle
  /\ worker' = [worker EXCEPT ![w] = [Idle EXCEPT !.box = b, !.copy = copy, !.todo = todo]]
  /\ overlap' = (overlap \/ \E v \in Workers : worker[v] # Idle)
  /\ UNCHANGED <<domain, box, alias, home, key, dns, maps, lost>>

\* Mutant: the map of password hashes is not among the ones regenerated.
publishMailPartly == <<"mailData", "transport", "signing">>

publishMail == <<"mailData", "transport", "delivery", "signing">>

CreateMailDomain(w) ==
  /\ ~ domain
  /\ Start(w, Disabled, NoBox,
           <<"CreateMailDomain", "writeDKIMKey">> \o publishMail \o <<"publishMailDNS">>)

DeleteMailDomain(w) ==
  /\ domain
  /\ Start(w, Disabled, NoBox,
           <<"DeleteMailboxes", "DeleteAlias", "DeleteMailDomain", "retractMailDNS">>
           \o publishMail \o <<"removeKey", "RemoveAll">>)

CreateMailbox(w, b, p) ==
  /\ domain /\ ~ box[b].stored
  /\ Start(w, b, [stored |-> TRUE, enabled |-> TRUE, hash |-> p],
           <<"ensureDir", "CreateMailbox">> \o publishMail)

\* The quota of a mailbox is changed in the same way.
SetMailboxPassword(w, b, p) ==
  /\ box[b].stored
  /\ Start(w, b, [box[b] EXCEPT !.hash = p], <<"UpdateMailbox">> \o publishMail)

SetMailboxEnabled(w, b) ==
  /\ box[b].stored
  /\ Start(w, b, [box[b] EXCEPT !.enabled = ~ @], <<"UpdateMailbox">> \o publishMail)

\* Mutant: the mail goes before the services have been told.
DeleteMailboxEarly(w, b) ==
  /\ box[b].stored
  /\ Start(w, b, NoBox, <<"removeHome", "DeleteMailbox">> \o publishMail)

DeleteMailbox(w, b) ==
  /\ box[b].stored
  /\ Start(w, b, NoBox, <<"DeleteMailbox">> \o publishMail \o <<"removeHome">>)

CreateAlias(w) ==
  /\ domain /\ ~ alias
  /\ Start(w, Disabled, NoBox, <<"CreateAlias">> \o publishMail)

DeleteAlias(w) ==
  /\ alias
  /\ Start(w, Disabled, NoBox, <<"DeleteAlias">> \o publishMail)

-----------------------------------------------------------------------------
(* The statements.                                                          *)

Possible(h, op) ==
  CASE op \in {"UpdateMailbox", "DeleteMailbox"} -> box[h.box].stored
    [] op = "DeleteMailDomain" -> domain
    [] OTHER -> TRUE

BoxRows(h, op) ==
  CASE op \in {"CreateMailbox", "UpdateMailbox", "DeleteMailbox"} -> [box EXCEPT ![h.box] = h.copy]
    [] op = "DeleteMailboxes" -> [b \in Boxes |-> NoBox]
    [] OTHER -> box

Homes(h, op) ==
  CASE op = "ensureDir" -> home \cup {h.box}
    [] op = "removeHome" -> home \ {h.box}
    [] op = "RemoveAll" -> {}
    [] OTHER -> home

Switched(flag, op, on, off) == (flag \/ op = on) /\ op # off

Finish(h) == IF h.todo = <<>> THEN Idle ELSE h

Statement(w) ==
  LET h == worker[w]
      op == Head(h.todo)
  IN /\ h # Idle /\ Possible(h, op)
     /\ domain' = Switched(domain, op, "CreateMailDomain", "DeleteMailDomain")
     /\ alias' = Switched(alias, op, "CreateAlias", "DeleteAlias")
     /\ key' = Switched(key, op, "writeDKIMKey", "removeKey")
     /\ dns' = (Hosted /\ Switched(dns, op, "publishMailDNS", "retractMailDNS"))
     /\ box' = BoxRows(h, op)
     /\ home' = Homes(h, op)
     /\ maps' = IF op \in DOMAIN maps THEN [maps EXCEPT ![op] = h.data[op]] ELSE maps
     /\ lost' = (lost /\ op # "signing")
     /\ worker' = [worker EXCEPT ![w] =
                     Finish([h EXCEPT !.data = IF op = "mailData" THEN mailData ELSE @,
                                      !.todo = Tail(@)])]
     /\ UNCHANGED overlap

StatementFails(w) ==
  /\ worker[w] # Idle
  /\ worker' = [worker EXCEPT ![w] = Idle]
  /\ lost' = TRUE
  /\ UNCHANGED <<domain, box, alias, home, key, dns, maps, overlap>>

Next ==
  \E w \in Workers :
    \/ Statement(w) \/ StatementFails(w)
    \/ CreateMailDomain(w) \/ DeleteMailDomain(w) \/ CreateAlias(w) \/ DeleteAlias(w)
    \/ \E b \in Boxes :
         \/ SetMailboxEnabled(w, b) \/ DeleteMailbox(w, b)
         \/ \E p \in Passwords : CreateMailbox(w, b, p) \/ SetMailboxPassword(w, b, p)

Spec == Init /\ [][Next]_vars

-----------------------------------------------------------------------------
(* Properties.                                                              *)

Quiet == \A w \in Workers : worker[w] = Idle

\* Between requests the three services have been given exactly the stored rows;
\* after a failure anywhere, that is so again once any later change has been
\* published, because every publication regenerates all of the maps.
ServedIsStored == ~ overlap /\ ~ lost /\ Quiet => maps = mailData

\* Mail is delivered only into directories that exist, whatever fails: the
\* directory is made before the mailbox is stored, and removed once the services
\* have stopped delivering to it.
DeliveredIsKept ==
  ~ overlap =>
    \A b \in Boxes : b \in maps.transport \/ maps.delivery[b] # Disabled => b \in home

(* Statements of the source that TLC refutes; see the README.               *)

\* mail.go: "regenerates every mail map from stored state"; a publication that
\* read the rows earlier can be the last to write.
LastPublishWins == ~ lost /\ Quiet => maps = mailData

\* mail.go: CreateMailDomain "generates an OpenDKIM signing key, rebuilds the mail
\* maps, and publishes the MX, SPF, DKIM, and DMARC records when the tenant also
\* hosts the zone here"; what failed is not tried again, for the domain now exists.
SignedHasKey == ~ overlap /\ Quiet /\ maps.signing => key

\* The records that the same comment says are published are in the hosted zone.
RecordsPublished == ~ overlap /\ ~ lost /\ Quiet /\ Hosted => dns = domain
=============================================================================
