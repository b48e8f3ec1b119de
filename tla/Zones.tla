-------------------------------- MODULE Zones -------------------------------
(***************************************************************************)
(* An authoritative DNS zone (src/hosting/dns.go): its row, its records,   *)
(* the zone file and its entry in the include that named reads.  The mail  *)
(* stack owns one managed record of it, the tenant another.                *)
(*                                                                         *)
(* Rows are written first and the files from what is then read back; the   *)
(* zone row is written whole, from the copy a handler read.  Activating a  *)
(* file is one step here: it is written, checked and adopted, or put back  *)
(* (the module Sites has the steps).                                       *)
(***************************************************************************)
EXTENDS Naturals, Sequences

CONSTANTS
  Values,     \* contents a tenant's record can have; 0 is no record
  Today,      \* the serial the date of today stands for
  MaxSerial,  \* bound on the serial
  Workers     \* requests and the resync task, being executed at once

VARIABLES
  zone,      \* the hosting_dns_zones row
  records,   \* hosting_dns_records: seeded name servers, mail's and the tenant's
  file,      \* the zone file
  include,   \* the entry of the zone in the generated include
  worker,    \* the handler of a request: its copies and remaining statements
  lost,      \* a statement has failed and no resync has completed since
  overlap    \* two handlers have been under way at once

vars == <<zone, records, file, include, worker, lost, overlap>>

NoZone == [stored |-> FALSE, enabled |-> FALSE, dnssec |-> FALSE, serial |-> 0]
NoRecords == [ns |-> 0, mx |-> 0, own |-> 0]
NoFile == [serial |-> 0, records |-> NoRecords]
NoEntry == [listed |-> FALSE, dnssec |-> FALSE]
Idle == [zone |-> NoZone, own |-> 0, put |-> 0, file |-> NoFile, entry |-> NoEntry,
         todo |-> <<>>, orElse |-> <<>>]

Init ==
  /\ zone = NoZone
  /\ records = NoRecords
  /\ file = NoFile
  /\ include = NoEntry
  /\ worker = [w \in Workers |-> Idle]
  /\ lost = FALSE
  /\ overlap = FALSE

-----------------------------------------------------------------------------
nextSerial(current) == IF current < Today THEN Today + 1 ELSE current + 1

renderZone(z, rs) == [serial |-> z.serial, records |-> rs]

Entry == IF zone.stored /\ zone.enabled THEN [listed |-> TRUE, dnssec |-> zone.dnssec] ELSE NoEntry

-----------------------------------------------------------------------------
(* The handlers, up to the first statement that writes.                     *)

Start(w, copy, put, todo, orElse) ==
  /\ worker[w] = Idle
  /\ worker' = [worker EXCEPT ![w] = [Idle EXCEPT !.zone = copy, !.own = records.own, !.put = put,
                                                  !.todo = todo, !.orElse = orElse]]
  /\ overlap' = (overlap \/ \E v \in Workers : worker[v] # Idle)
  /\ UNCHANGED <<zone, records, file, include, lost>>

GetZone == zone.stored

publishZone == <<"ListRecords", "applyZone">>

rebuildNamedInclude == <<"ListAllZones", "applyInclude">>

\* Mutant: the file is rewritten under the serial it has.
bumpAndPublishSame == <<"UpdateZone">> \o publishZone

bumpAndPublish == <<"bump", "UpdateZone">> \o publishZone

rollbackZone == <<"rollbackRecords", "rollbackZone">>

CreateZone(w, dnssec) ==
  /\ ~ GetZone
  /\ Start(w, [stored |-> TRUE, enabled |-> TRUE, dnssec |-> dnssec, serial |-> nextSerial(0)], 0,
           <<"CreateZone", "seedNS">> \o publishZone \o rebuildNamedInclude, rollbackZone)

SetZoneDNSSEC(w) ==
  /\ GetZone
  /\ Start(w, [zone EXCEPT !.dnssec = ~ @], 0, <<"UpdateZone">> \o rebuildNamedInclude, <<>>)

SetZoneEnabled(w) ==
  /\ GetZone
  /\ Start(w, [zone EXCEPT !.enabled = ~ @], 0, <<"UpdateZone">> \o rebuildNamedInclude, <<>>)

DeleteZone(w) ==
  /\ GetZone
  /\ Start(w, zone, 0, <<"DeleteRecords", "DeleteZone">> \o rebuildNamedInclude \o <<"removeFile">>,
           <<>>)

CreateRecord(w, v) ==
  /\ GetZone /\ records.own = 0
  /\ Start(w, zone, v, <<"PutRecord">> \o bumpAndPublish, <<"undoRecord">>)

UpdateRecord(w, v) ==
  /\ GetZone /\ records.own \notin {0, v}
  /\ Start(w, zone, v, <<"PutRecord">> \o bumpAndPublish, <<"undoRecord">>)

DeleteRecord(w) ==
  /\ GetZone /\ records.own # 0
  /\ Start(w, zone, 0, <<"DropRecord">> \o bumpAndPublish, <<>>)

publishMailDNS(w) ==
  /\ GetZone
  /\ Start(w, zone, 0, <<"upsertManagedRecord">> \o bumpAndPublish, <<>>)

retractMailDNS(w) ==
  /\ GetZone
  /\ Start(w, zone, 0, <<"removeManagedRecords">> \o bumpAndPublish, <<>>)

\* Mutant: the files are resynchronised and the include is not.
ResyncZonesFiles(w) ==
  /\ GetZone /\ zone.enabled
  /\ file # renderZone(zone, records)
  /\ Start(w, zone, 0, publishZone \o <<"resynced">>, <<>>)

\* The include is refreshed only when some file had to be rewritten.
ResyncZones(w) ==
  /\ GetZone /\ zone.enabled
  /\ file # renderZone(zone, records)
  /\ Start(w, zone, 0, publishZone \o rebuildNamedInclude \o <<"resynced">>, <<>>)

-----------------------------------------------------------------------------
(* The statements.                                                          *)

Possible(h, op) ==
  CASE op \in {"UpdateZone", "DeleteZone"} -> GetZone
    [] op = "CreateZone" -> ~ GetZone
    [] op = "bump" -> nextSerial(h.zone.serial) <= MaxSerial
    [] OTHER -> TRUE

ZoneRow(h, op) ==
  CASE op \in {"CreateZone", "UpdateZone"} -> h.zone
    [] op \in {"DeleteZone", "rollbackZone"} -> NoZone
    [] OTHER -> zone

RecordRows(h, op) ==
  CASE op = "seedNS" -> [records EXCEPT !.ns = 1]
    [] op \in {"PutRecord", "DropRecord"} -> [records EXCEPT !.own = h.put]
    [] op = "undoRecord" -> [records EXCEPT !.own = h.own]
    [] op = "upsertManagedRecord" -> [records EXCEPT !.mx = 1]
    [] op = "removeManagedRecords" -> [records EXCEPT !.mx = 0]
    [] op \in {"DeleteRecords", "rollbackRecords"} -> NoRecords
    [] OTHER -> records

Finish(h) == IF h.todo = <<>> THEN Idle ELSE h

Statement(w) ==
  LET h == worker[w]
      op == Head(h.todo)
  IN /\ h # Idle /\ Possible(h, op)
     /\ zone' = ZoneRow(h, op)
     /\ records' = RecordRows(h, op)
     /\ file' = CASE op = "applyZone" -> h.file
                  [] op = "removeFile" -> NoFile
                  [] OTHER -> file
     /\ include' = IF op = "applyInclude" THEN h.entry ELSE include
     /\ lost' = (lost /\ op # "resynced")
     /\ worker' = [worker EXCEPT ![w] =
          Finish([h EXCEPT
            !.zone = IF op = "bump" THEN [@ EXCEPT !.serial = nextSerial(@)] ELSE @,
            !.file = IF op = "ListRecords" THEN renderZone(h.zone, records) ELSE @,
            !.entry = IF op = "ListAllZones" THEN Entry ELSE @,
            !.todo = Tail(@)])]
     /\ UNCHANGED overlap

\* A new record, or a changed one, is undone; so are the rows of a new zone that
\* cannot be activated.  A rollback goes on past a row it cannot delete.
OnFailure(h, op) ==
  CASE op \in {"bump", "UpdateZone", "ListRecords", "applyZone", "ListAllZones", "applyInclude"} ->
         Finish([h EXCEPT !.todo = h.orElse, !.orElse = <<>>])
    [] op = "rollbackRecords" -> [h EXCEPT !.todo = Tail(@)]
    [] OTHER -> Idle

StatementFails(w) ==
  /\ worker[w] # Idle
  /\ worker' = [worker EXCEPT ![w] = OnFailure(worker[w], Head(worker[w].todo))]
  /\ lost' = TRUE
  /\ UNCHANGED <<zone, records, file, include, overlap>>

Next ==
  \E w \in Workers :
    \/ Statement(w) \/ StatementFails(w)
    \/ SetZoneDNSSEC(w) \/ SetZoneEnabled(w) \/ DeleteZone(w)
    \/ DeleteRecord(w) \/ publishMailDNS(w) \/ retractMailDNS(w) \/ ResyncZones(w)
    \/ \E b \in BOOLEAN : CreateZone(w, b)
    \/ \E v \in Values : CreateRecord(w, v) \/ UpdateRecord(w, v)

Spec == Init /\ [][Next]_vars

-----------------------------------------------------------------------------
(* Properties.                                                              *)

Quiet == \A w \in Workers : worker[w] = Idle

\* Between requests an enabled zone is served from exactly the rows stored for
\* it, and is in the include as its row says; after a failure that is so again
\* as soon as a resync has run to its end.
ServedIsStored ==
  ~ overlap /\ ~ lost /\ Quiet =>
    /\ include = Entry
    /\ GetZone /\ zone.enabled => file = renderZone(zone, records)

\* A secondary sees every change: while handlers do not overlap and none has
\* failed, the records in the zone file change only under a higher serial.
SerialAdvances ==
  /\ ~ overlap /\ ~ lost
  /\ file # NoFile /\ file' # NoFile /\ file'.records # file.records
  => file'.serial > file.serial

(* Statements of the source that TLC refutes; see the README.               *)

\* dns.go: "rewrites any zone file on this node whose content no longer matches
\* the stored zone state, then refreshes the generated named include"; when only
\* the include is out of date no resync touches it.
IncludeResyncs ==
  ~ overlap /\ Quiet /\ GetZone /\ zone.enabled /\ file = renderZone(zone, records)
    => include = Entry

\* dns.go: "always strictly greater than the current one so a secondary always
\* sees the change"; two edits at once take the same serial.
ChangeIsSeen ==
  [][file # NoFile /\ file' # NoFile /\ file'.records # file.records
     => file'.serial > file.serial]_vars
=============================================================================
