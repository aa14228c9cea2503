------------------------------- MODULE Store --------------------------------
(***************************************************************************)
(* internal/store/sqlite: the inventory tables and the statements that     *)
(* read and write them, as operators from tables to tables. Every method   *)
(* of sqlite.Store holds one mutex for its whole body, so an action built  *)
(* from one of these operators is one call of the store.                   *)
(*                                                                         *)
(*   hosts         a function from the hosts present to                    *)
(*                 [id, status]; the key (hostname, port) is one value     *)
(*   links         host_certificates, a function from the rowids in use to *)
(*                 rows [id, cert, at]                                     *)
(*   states        certificate_states, a function of pairs <<id, cert>>    *)
(*   events        rows [kind, cert, id, notified, acked] in id order      *)
(*                                                                         *)
(* Columns only a page displays are left out.                              *)
(***************************************************************************)
EXTENDS Evaluate, Sequences, FiniteSets

CONSTANTS
  Hosts,    \* the (hostname, port) pairs discovery can return
  Certs,    \* the fingerprints they can present
  NoCert,   \* no previous certificate: the empty fingerprint
  NotAfter,      \* certificates.not_after, hundredths of a day
  LifetimeDays,  \* certificates.lifetime_days
  BadCerts       \* certificates that are self-signed or do not match their host

ASSUME StoreAssumption ==
  /\ NoCert \notin Certs
  /\ NotAfter \in [Certs -> Nat] /\ LifetimeDays \in [Certs -> Nat]
  /\ BadCerts \subseteq Certs

\* What a probe that meets certificate c reports about it.
Metadata(c, chainComplete) ==
  [notAfter |-> NotAfter[c], lifetimeDays |-> LifetimeDays[c],
   chainComplete |-> chainComplete, hostnameMatch |-> c \notin BadCerts,
   isSelfSigned |-> FALSE]

\* Mutant of Renews: the same certificate seen again counts.
Renews_Same(previous, c) == previous # NoCert /\ NotAfter[c] >= NotAfter[previous]

\* previous is what LatestHostCertificate returned before c was linked.
Renews(previous, c) ==
  previous # NoCert /\ previous # c /\ NotAfter[c] > NotAfter[previous]

\* t with row v at key k, inserted or replaced (INSERT ... ON CONFLICT DO UPDATE).
Upserted(t, k, v) == [x \in DOMAIN t \cup {k} |-> IF x = k THEN v ELSE t[x]]

Without(t, keys) == [x \in DOMAIN t \ keys |-> t[x]]

\* The rowid SQLite gives to a new row, and so the id of an INTEGER PRIMARY KEY
\* without AUTOINCREMENT: one more than the largest in the table, so that the
\* id of a deleted last row is given out again.
IsNext(ids, k) == (\A i \in ids : i < k) /\ (k = 1 \/ k - 1 \in ids)

-----------------------------------------------------------------------------
(* hosts                                                                   *)

HostIds(hosts) == {hosts[h].id : h \in DOMAIN hosts}

\* The id UpsertHost returns for h.
IsHostId(hosts, h, id) ==
  IF h \in DOMAIN hosts THEN id = hosts[h].id ELSE IsNext(HostIds(hosts), id)

\* Mutant of UpsertHost: the status of a row that exists is kept.
UpsertHost_KeepsStatus(hosts, h, id, status) ==
  IF h \in DOMAIN hosts THEN hosts
  ELSE Upserted(hosts, h, [id |-> id, status |-> status])

\* The row is inserted, or its status overwritten.
UpsertHost(hosts, h, id, status) ==
  Upserted(hosts, h, [id |-> id, status |-> status])

\* An UPDATE ... WHERE hostname = ?: nothing happens when the row is gone.
MarkHostResolved(hosts, h) ==
  IF h \in DOMAIN hosts THEN [hosts EXCEPT ![h].status = "active"] ELSE hosts

-----------------------------------------------------------------------------
(* host_certificates                                                       *)

\* The rows of a host.
LinkRows(links, id) == {i \in DOMAIN links : links[i].id = id}

\* ORDER BY observed_at DESC, rowid DESC LIMIT 1. observed_at has a resolution
\* of one second, and an updated row keeps its rowid.
IsLatest(links, id, i) ==
  /\ i \in LinkRows(links, id)
  /\ \A j \in LinkRows(links, id) :
       \/ links[j].at < links[i].at
       \/ links[j].at = links[i].at /\ j <= i

LatestHostCertificate(links, id) ==
  LET latest == {i \in DOMAIN links : IsLatest(links, id, i)}
  IN  IF latest = {} THEN NoCert ELSE links[CHOOSE i \in latest : TRUE].cert

\* The row of the pair (id, cert) if there is one, otherwise a new row.
IsLinkRow(links, id, cert, row) ==
  LET own == {i \in LinkRows(links, id) : links[i].cert = cert}
  IN  IF own # {} THEN row \in own ELSE IsNext(DOMAIN links, row)

\* What row can be, for TLC.
LinkRowRange(links) == DOMAIN links \cup {1} \cup {i + 1 : i \in DOMAIN links}

\* Mutant of LinkHostCertificate: ON CONFLICT DO NOTHING.
LinkHostCertificate_Nothing(links, row, id, cert, at) ==
  IF row \in DOMAIN links THEN links
  ELSE Upserted(links, row, [id |-> id, cert |-> cert, at |-> at])

LinkHostCertificate(links, row, id, cert, at) ==
  Upserted(links, row, [id |-> id, cert |-> cert, at |-> at])

-----------------------------------------------------------------------------
(* certificate_states                                                      *)

GetCertificateState(states, id, cert) ==
  IF <<id, cert>> \in DOMAIN states THEN states[<<id, cert>>] ELSE Unseen

SetCertificateState(states, id, cert, state) == Upserted(states, <<id, cert>>, state)

-----------------------------------------------------------------------------
(* events                                                                  *)

RecordEvent(events, kind, cert, id) ==
  Append(events, [kind |-> kind, cert |-> cert, id |-> id,
                  notified |-> FALSE, acked |-> FALSE])

\* SELECT ... WHERE notified_at IS NULL, as the set of their ids.
PendingEvents(events) == {e \in DOMAIN events : ~events[e].notified}

\* Mutant of MarkEventNotified: the row is written as it was read before.
MarkEventNotified_Row(events, e) ==
  [events EXCEPT ![e].notified = TRUE, ![e].acked = FALSE]

MarkEventNotified(events, e) == [events EXCEPT ![e].notified = TRUE]

\* The rows AcknowledgeEvent changes; for any other it answers ErrEventNotFound.
CanAcknowledge(events, e) ==
  ~events[e].acked /\ events[e].kind \in {"warn", "alert"}

AcknowledgeEvent(events, e) == [events EXCEPT ![e].acked = TRUE]

-----------------------------------------------------------------------------
(* suppressed_hosts                                                        *)

SuppressHost(suppressed, h)   == suppressed \cup {h}
UnsuppressHost(suppressed, h) == suppressed \ {h}

-----------------------------------------------------------------------------
(* What the console and /metrics read in one call.                         *)

\* Mutant of Joined: an inner JOIN.
Joined_Inner(links, certificates, id) ==
  {links[i].cert : i \in LinkRows(links, id)} \cap certificates

\* The fingerprints a LEFT JOIN pairs host id with: NoCert stands for NULL.
Joined(links, certificates, id) ==
  IF LinkRows(links, id) = {} THEN {NoCert}
  ELSE {IF links[i].cert \in certificates THEN links[i].cert ELSE NoCert :
          i \in LinkRows(links, id)}

\* One row for every certificate a host ever presented, suppressed hosts left out.
InventorySnapshot(hosts, links, states, certificates, suppressed) ==
  UNION {{[host |-> h, status |-> hosts[h].status, cert |-> c,
           state |-> GetCertificateState(states, hosts[h].id, c)] :
            c \in Joined(links, certificates, hosts[h].id)} :
         h \in DOMAIN hosts \ suppressed}

UnacknowledgedEvents(events) == {e \in DOMAIN events : CanAcknowledge(events, e)}

\* hostMetrics: the hosts /metrics calls reachable.
Reachable(hosts) == {h \in DOMAIN hosts : hosts[h].status = "active"}

-----------------------------------------------------------------------------
(* PurgeHost: one transaction over four tables; events are kept.           *)

PurgedHosts(hosts, h) == Without(hosts, {h})

\* Mutants of PurgedLinks and PurgedStates: the table is forgotten.
PurgedLinks_Kept(hosts, links, h) == links
PurgedStates_Kept(hosts, states, h) == states

PurgedLinks(hosts, links, h) ==
  IF h \in DOMAIN hosts THEN Without(links, LinkRows(links, hosts[h].id)) ELSE links

PurgedStates(hosts, states, h) ==
  IF h \in DOMAIN hosts
  THEN Without(states, {k \in DOMAIN states : k[1] = hosts[h].id}) ELSE states
=============================================================================
