---------------------------- MODULE HostHistory -----------------------------
(***************************************************************************)
(* What the ledger of events says about one host over its life: repeated   *)
(* scans that reach the end of processHost, without failures, while time   *)
(* passes and the host changes the certificate it presents. Module Scan    *)
(* has the concurrency and the failures; here a scan of the host is one    *)
(* step and the question is what the rules of evaluate and of the renewal  *)
(* amount to in the long run.                                              *)
(***************************************************************************)
EXTENDS Store

CONSTANTS
  ChainOutcomes,  \* outcomes of the chain check: a subset of BOOLEAN
  TimeStep,       \* how far one step of the clock goes
  MaxTime,        \* bound: the clock stops here
  MaxEvents       \* bound: no scan starts once the ledger is this long

ASSUME HistoryAssumption ==
  /\ ChainOutcomes \subseteq BOOLEAN
  /\ TimeStep \in Nat \ {0} /\ MaxTime \in Nat /\ MaxEvents \in Nat

VARIABLES
  now,        \* the clock of the scanner
  served,     \* the certificate the host presents
  links,      \* host_certificates
  states,     \* certificate_states
  events,     \* the ledger
  stateAt,    \* history: stateAt[e] is the state the scan of event e stored
  lastScan    \* history: [at, cert] of the last scan, cert = NoCert before it

vars == <<now, served, links, states, events, stateAt, lastScan>>

\* The host keeps its row, hence its id, throughout.
HostId == 1

Init ==
  /\ now = 0
  /\ served \in Certs
  /\ links = <<>>
  /\ states = <<>>
  /\ events = <<>>
  /\ stateAt = <<>>
  /\ lastScan = [at |-> 0, cert |-> NoCert]

\* All rows are about the one host, and no event is marked in this module.
TypeOK ==
  /\ now \in Nat /\ served \in Certs
  /\ DOMAIN links \subseteq Nat
  /\ links \in [DOMAIN links -> [id: {HostId}, cert: Certs, at: Nat]]
  /\ DOMAIN states \subseteq {HostId} \X Certs /\ states \in [DOMAIN states -> States]
  /\ events \in Seq([kind: EventKinds, cert: Certs, id: {HostId},
                     notified: {FALSE}, acked: {FALSE}])
  /\ stateAt \in Seq(States) /\ Len(stateAt) = Len(events)
  /\ lastScan \in [at: Nat, cert: Certs \cup {NoCert}]

Tick ==
  /\ now + TimeStep <= MaxTime
  /\ now' = now + TimeStep
  /\ UNCHANGED <<served, links, states, events, stateAt, lastScan>>

\* The administrator of the host installs another certificate, or a load
\* balancer answers with another one. Not at the last tick of the bounded clock,
\* after which no later scan would see it.
Replace(c) ==
  /\ now < MaxTime
  /\ c # served
  /\ served' = c
  /\ UNCHANGED <<now, links, states, events, stateAt, lastScan>>

\* processHost from the probe to RecordEvent. Scans of one host start in
\* different seconds of the clock.
Scan ==
  /\ Len(events) < MaxEvents
  /\ lastScan.cert = NoCert \/ lastScan.at < now
  /\ \E chainComplete \in ChainOutcomes :
       LET state == StateOf(Metadata(served, chainComplete), now)
           event == ScanEvent(Renews(LatestHostCertificate(links, HostId), served), state,
                              GetCertificateState(states, HostId, served))
       IN  /\ \E row \in LinkRowRange(links) :
                /\ IsLinkRow(links, HostId, served, row)
                /\ links' = LinkHostCertificate(links, row, HostId, served, now)
           /\ states' = SetCertificateState(states, HostId, served, state)
           /\ IF event = NoEvent
              THEN UNCHANGED <<events, stateAt>>
              ELSE /\ events' = RecordEvent(events, event, served, HostId)
                   /\ stateAt' = Append(stateAt, state)
  /\ lastScan' = [at |-> now, cert |-> served]
  /\ UNCHANGED <<now, served>>

Next == Tick \/ Scan \/ \E c \in Certs : Replace(c)

\* Time passes and the scheduler keeps scanning.
Spec == Init /\ [][Next]_vars /\ WF_vars(Tick) /\ WF_vars(Scan)

-----------------------------------------------------------------------------
(* Properties.                                                             *)

StateIn(sts, c) == GetCertificateState(sts, HostId, c)

Severity(s) ==
  CASE s = "healthy" -> 0 [] s = "warn" -> 1 [] s = "alert" -> 2 [] s = "expired" -> 3

\* While its TLS configuration is sound a certificate only gets worse: no later
\* scan stores a milder state, and an expired certificate stays expired even
\* when its chain breaks afterwards (order of the switch in evaluate).
NeverRecovers ==
  [][\A c \in Certs :
       LET s == StateIn(states, c)
           t == StateIn(states', c)
       IN  /\ s = "expired" => t = "expired"
           /\ ({s, t} \cap {Unseen, "misconfigured"} = {}) => Severity(t) >= Severity(s)]_vars

LastEventAbout(c) ==
  LET about == {e \in DOMAIN events : events[e].cert = c}
  IN  IF about = {} THEN 0 ELSE CHOOSE e \in about : \A f \in about : f <= e

\* A stored danger is named by the last event about its certificate, with two
\* exceptions and no other: the scan that stored it recorded the discovery
\* (evaluate.go:70) or the renewal (core.go:444) instead, which name no danger, so
\* that the ledger alone does not tell of it (CrossingIsRaised below). Previous
\* state, evaluation and renewal combined, over any number of scans.
Dangers == States \ {"healthy"}

DangerIsNamed ==
  \A c \in Certs :
    LET state == StateIn(states, c)
        last  == LastEventAbout(c)
    IN  state \in Dangers =>
          /\ last # 0 /\ stateAt[last] = state
          /\ events[last].kind \in {state, "discovered", "renewed"}

\* No noise: a warn, alert, expired or discovered record about a certificate is
\* repeated only after a record of another kind about it ("fires on state
\* transitions only"), however often the host is scanned in between.
NoRepeatedAnnouncement ==
  \A e, f \in DOMAIN events :
    /\ e < f
    /\ events[e].cert = events[f].cert
    /\ events[e].kind = events[f].kind
    /\ events[e].kind \in {"warn", "alert", "expired", "discovered"}
    => /\ events[e].kind # "discovered"
       /\ \E g \in e..f : events[g].cert = events[e].cert /\ events[g].kind # events[e].kind

\* A renewed record means what it says: the host presented another, shorter
\* lived certificate in the scan before. Relies on LatestHostCertificate being
\* the certificate of that scan, which its resolution of a second decides.
RenewedMeansChanged ==
  [][Len(events') > Len(events) /\ events'[Len(events')].kind = "renewed"
       => /\ lastScan.cert \notin {NoCert, served}
          /\ NotAfter[lastScan.cert] < NotAfter[served]]_vars

\* The expiry of a certificate the host keeps presenting leaves an event in the
\* end, recorded on entering "expired" (though as a discovery or renewal if the
\* certificate was discovered or came back expired), unless the bound on the
\* ledger stops the scans first.
ExpiryIsAnnounced ==
  \A c \in Certs :
    <>[](served = c /\ Len(events) < MaxEvents) =>
      <>\E e \in DOMAIN events : events[e].cert = c /\ stateAt[e] = "expired"

-----------------------------------------------------------------------------
(* What the documentation says and the code does not do.                   *)

\* docs/design.md: `warn` and `alert` are raised when a threshold is crossed. Here:
\* a certificate whose state is known changes into "warn" or "alert".
CrossingIsRaised ==
  [][\A c \in Certs :
       LET state == StateIn(states', c)
       IN  /\ state \in {"warn", "alert"}
           /\ StateIn(states, c) \notin {Unseen, state}
           => \E e \in DOMAIN events' \ DOMAIN events :
                events'[e].cert = c /\ events'[e].kind = state]_vars
=============================================================================
