------------------------- MODULE HostHistoryProofs --------------------------
(***************************************************************************)
(* What the rules of evaluate and of the renewal amount to over any number *)
(* of scans, for any thresholds, certificates and lifetimes: states only   *)
(* get worse, only a discovery or a renewal hides a danger, nothing is     *)
(* announced twice, and a renewal is one. The proofs rest on where the     *)
(* tables come from: every state was computed at some earlier moment, the  *)
(* latest link is that of the last scan, and the last event about a        *)
(* certificate agrees with its state.                                      *)
(***************************************************************************)
EXTENDS HostHistory, SequenceTheorems, TLAPS

-----------------------------------------------------------------------------
(* The inductive invariant.                                                *)

\* The last scan left the one link with the greatest time.
LastScanLinked ==
  /\ lastScan.at <= now
  /\ lastScan.cert = NoCert => DOMAIN links = {}
  /\ lastScan.cert # NoCert =>
       \E i \in DOMAIN links :
         /\ links[i].cert = lastScan.cert /\ links[i].at = lastScan.at
         /\ \A j \in DOMAIN links \ {i} : links[j].at < lastScan.at

\* s is a state that a scan at some moment up to t may have computed for c.
Dated(s, c, t) ==
  \E at \in 0..t, chain \in ChainOutcomes : s = StateOf(Metadata(c, chain), at)

StatesDated == \A k \in DOMAIN states : Dated(states[k], k[2], now)

\* Every event is about a certificate whose state is stored.
EventsSeen == \A e \in DOMAIN events : <<HostId, events[e].cert>> \in DOMAIN states

\* LastEventAbout is the last event about c, if there is one.
LedgerEnds ==
  \A e \in DOMAIN events :
    LET l == LastEventAbout(events[e].cert)
    IN  /\ l \in DOMAIN events /\ events[l].cert = events[e].cert
        /\ e <= l

\* A certificate whose last event is a warning of time is in the state it names:
\* since time does not run back, only another event leads out of it.
LastEventHolds ==
  \A e \in DOMAIN events :
    /\ e = LastEventAbout(events[e].cert)
    /\ events[e].kind \in {"warn", "alert", "expired"}
    => StateIn(states, events[e].cert) = events[e].kind

HistoryInv ==
  /\ LastScanLinked /\ StatesDated /\ EventsSeen /\ LedgerEnds /\ LastEventHolds
  /\ DangerIsNamed /\ NoRepeatedAnnouncement

-----------------------------------------------------------------------------
(* States and events as functions of time.                                 *)

LEMMA WindowTyped ==
  ASSUME NEW days \in Nat, NEW threshold \in Threshold
  PROVE  ThresholdWindow(days, threshold) \in Int
BY DEF ThresholdWindow, Threshold

\* As time passes a state gets worse, except that the TLS configuration may be
\* repaired. Nothing is assumed of how the two windows compare.
LEMMA StateMonotone ==
  ASSUME NEW c \in Certs, NEW t \in Nat, NEW u \in Nat, t <= u, NEW x, NEW y,
         NEW r, r = StateOf(Metadata(c, x), t), NEW s, s = StateOf(Metadata(c, y), u)
  PROVE  /\ r = "expired" => s = "expired"
         /\ r \in {"warn", "alert"} => s # "healthy"
         /\ "misconfigured" \notin {r, s} => Severity(s) >= Severity(r)
<1> DEFINE window(threshold) == ThresholdWindow(LifetimeDays[c], threshold)
<1>1. NotAfter[c] \in Nat /\ window(Warn) \in Int /\ window(Alert) \in Int
  BY WindowTyped, StoreAssumption, ThresholdsAssumption
<1>2. ASSUME NEW z, NEW v \in Nat
      PROVE  LET q == StateOf(Metadata(c, z), v)
             IN  /\ q = "expired" <=> NotAfter[c] <= v
                 /\ q = "alert" => NotAfter[c] - v <= window(Alert)
                 /\ q = "warn" => /\ NotAfter[c] - v <= window(Warn)
                                  /\ ~(NotAfter[c] - v <= window(Alert))
                 /\ q = "healthy" => /\ ~(NotAfter[c] - v <= window(Warn))
                                     /\ ~(NotAfter[c] - v <= window(Alert))
                 /\ q \in States
  <2> DEFINE m == Metadata(c, z)
  <2>1. m.notAfter = NotAfter[c] /\ m.lifetimeDays = LifetimeDays[c]
    BY DEF Metadata
  <2> HIDE DEF m
  <2>2. StateOf(m, v) =
          IF NotAfter[c] - v <= 0 THEN "expired"
          ELSE IF Misconfigured(m) THEN "misconfigured"
          ELSE IF NotAfter[c] - v <= window(Alert) THEN "alert"
          ELSE IF NotAfter[c] - v <= window(Warn) THEN "warn"
          ELSE "healthy"
    BY <2>1 DEF StateOf
  <2>3. NotAfter[c] - v <= 0 <=> NotAfter[c] <= v
    BY <1>1
  <2> QED
    BY <2>2, <2>3 DEF m, States
<1> HIDE DEF window
<1>3. /\ r = "expired" <=> NotAfter[c] <= t
      /\ r = "alert" => NotAfter[c] - t <= window(Alert)
      /\ r = "warn" => NotAfter[c] - t <= window(Warn)
      /\ r \in States
  BY <1>2
<1>4. /\ s = "expired" <=> NotAfter[c] <= u
      /\ s = "warn" => ~(NotAfter[c] - u <= window(Alert))
      /\ s = "healthy" => /\ ~(NotAfter[c] - u <= window(Warn))
                          /\ ~(NotAfter[c] - u <= window(Alert))
      /\ s \in States
  BY <1>2
<1>5. r = "expired" => s = "expired"
  BY <1>1, <1>3, <1>4
<1>6. r = "alert" => s \notin {"healthy", "warn"}
  BY <1>1, <1>3, <1>4
<1>7. r = "warn" => s # "healthy"
  BY <1>1, <1>3, <1>4
<1>8. ASSUME "misconfigured" \notin {r, s} PROVE Severity(s) >= Severity(r)
  BY <1>3, <1>4, <1>5, <1>6, <1>7, <1>8 DEF Severity, States
<1> QED
  BY <1>5, <1>6, <1>7, <1>8

Outcome == EventKinds \cup {NoEvent}

\* What an evaluation and the renewal rule can raise.
LEMMA RaisedKinds ==
  ASSUME NEW renewed \in BOOLEAN, NEW s \in States, NEW previousState
  PROVE  LET k == ScanEvent(renewed, s, previousState)
         IN  /\ k \in Outcome
             /\ k = "renewed" => renewed
             /\ k = "discovered" => previousState = Unseen
             /\ k \in States => k = s /\ previousState # s /\ ~renewed
             /\ k = NoEvent => /\ previousState # Unseen
                               /\ s = "healthy" \/ s = previousState
BY DEF ScanEvent, EventOf, States, EventKinds, NoEvent, Unseen, Outcome

-----------------------------------------------------------------------------
(* Typing.                                                                 *)

EventRow == [kind: EventKinds, cert: Certs, id: {HostId}, notified: {FALSE}, acked: {FALSE}]

LEMMA EventTyped ==
  ASSUME TypeOK, NEW e \in DOMAIN events
  PROVE  events[e] \in EventRow /\ events[e].cert \in Certs /\ events[e].kind \in EventKinds
<1>1. events \in Seq(EventRow)
  BY DEF TypeOK, EventRow
<1>2. events[e] \in EventRow
  BY <1>1
<1> QED
  BY <1>2 DEF EventRow

LEMMA VerdictTyped ==
  ASSUME NEW certificate, NEW at PROVE StateOf(certificate, at) \in States
BY DEF StateOf, States

\* What the last scan left is what the next one compares with.
LEMMA LatestIsLast ==
  ASSUME TypeOK, LastScanLinked
  PROVE  LatestHostCertificate(links, HostId) = lastScan.cert
<1> DEFINE latest == {i \in DOMAIN links : IsLatest(links, HostId, i)}
<1>1. /\ \A i \in DOMAIN links : links[i].id = HostId /\ links[i].at \in Nat
      /\ DOMAIN links \subseteq Nat
  BY DEF TypeOK
<1>2. CASE lastScan.cert = NoCert
  <2>1. latest = {}
    BY <1>2 DEF LastScanLinked
  <2> QED
    BY <1>2, <2>1 DEF LatestHostCertificate
<1>3. CASE lastScan.cert # NoCert
  <2>1. PICK i \in DOMAIN links :
          /\ links[i].cert = lastScan.cert
          /\ \A j \in DOMAIN links \ {i} : links[j].at < links[i].at
    BY <1>3 DEF LastScanLinked
  <2>2. IsLatest(links, HostId, i)
    BY <1>1, <2>1 DEF IsLatest, LinkRows
  <2>3. \A j \in DOMAIN links : IsLatest(links, HostId, j) => j = i
    BY <1>1, <2>1 DEF IsLatest, LinkRows
  <2>4. latest = {i}
    BY <2>2, <2>3
  <2>5. (CHOOSE j \in latest : TRUE) = i
    BY <2>4
  <2> HIDE DEF latest
  <2>6. latest # {}
    BY <2>4
  <2> QED
    BY <2>1, <2>5, <2>6 DEF LatestHostCertificate, latest
<1> QED
  BY <1>2, <1>3

\* A scan at its end: s was stored and k raised.
Ends(chain, s, k) ==
  /\ s = StateOf(Metadata(served, chain), now)
  /\ k = ScanEvent(Renews(lastScan.cert, served), s, StateIn(states, served))
  /\ states' = SetCertificateState(states, HostId, served, s)
  /\ k = NoEvent => UNCHANGED <<events, stateAt>>
  /\ k # NoEvent => /\ events' = RecordEvent(events, k, served, HostId)
                    /\ stateAt' = Append(stateAt, s)

LEMMA ScanEnds ==
  ASSUME TypeOK, LastScanLinked, Scan
  PROVE  \E chain \in ChainOutcomes, s \in States, k \in Outcome :
           /\ Ends(chain, s, k)
           /\ k = "renewed" => Renews(lastScan.cert, served)
           /\ k = "discovered" => StateIn(states, served) = Unseen
           /\ k \in States => k = s /\ StateIn(states, served) # s
           /\ k = NoEvent => /\ StateIn(states, served) # Unseen
                             /\ s = "healthy" \/ s = StateIn(states, served)
<1>1. PICK chain \in ChainOutcomes :
        LET s == StateOf(Metadata(served, chain), now)
            k == ScanEvent(Renews(LatestHostCertificate(links, HostId), served), s,
                           GetCertificateState(states, HostId, served))
        IN  /\ states' = SetCertificateState(states, HostId, served, s)
            /\ IF k = NoEvent
               THEN UNCHANGED <<events, stateAt>>
               ELSE /\ events' = RecordEvent(events, k, served, HostId)
                    /\ stateAt' = Append(stateAt, s)
  BY DEF Scan
<1> DEFINE s == StateOf(Metadata(served, chain), now)
           r == Renews(lastScan.cert, served)
           k == ScanEvent(r, s, StateIn(states, served))
<1>2. Ends(chain, s, k)
  BY <1>1, LatestIsLast DEF Ends, StateIn
<1>3. s \in States
  BY VerdictTyped
<1>4. r \in BOOLEAN
  BY DEF Renews
<1> HIDE DEF s, r
<1>5. /\ k \in Outcome
      /\ k = "renewed" => r
      /\ k = "discovered" => StateIn(states, served) = Unseen
      /\ k \in States => k = s /\ StateIn(states, served) # s
      /\ k = NoEvent => /\ StateIn(states, served) # Unseen
                        /\ s = "healthy" \/ s = StateIn(states, served)
  BY <1>3, <1>4, RaisedKinds
<1> HIDE DEF k
<1> QED
  BY <1>2, <1>3, <1>5 DEF r

\* The tables after a scan: what is written, and what is left alone.
LEMMA StatesAfter ==
  ASSUME NEW s, states' = SetCertificateState(states, HostId, served, s)
  PROVE  /\ DOMAIN states' = DOMAIN states \cup {<<HostId, served>>}
         /\ states'[<<HostId, served>>] = s
         /\ \A x \in DOMAIN states \ {<<HostId, served>>} : states'[x] = states[x]
         /\ StateIn(states', served) = s
         /\ \A c \in Certs \ {served} : StateIn(states', c) = StateIn(states, c)
BY DEF SetCertificateState, Upserted, StateIn, GetCertificateState

LEMMA EventsAfter ==
  ASSUME TypeOK, NEW k \in EventKinds, NEW s \in States,
         events' = RecordEvent(events, k, served, HostId), stateAt' = Append(stateAt, s)
  PROVE  LET n == Len(events) + 1
         IN  /\ n \in Nat \ {0} /\ Len(events') = n /\ DOMAIN events = 1..n - 1
             /\ DOMAIN events' = 1..n
             /\ events'[n].kind = k /\ events'[n].cert = served /\ stateAt'[n] = s
             /\ \A e \in DOMAIN events : events'[e] = events[e] /\ stateAt'[e] = stateAt[e]
             /\ events' \in Seq(EventRow) /\ stateAt' \in Seq(States)
             /\ Len(stateAt') = n
<1> DEFINE row == [kind |-> k, cert |-> served, id |-> HostId, notified |-> FALSE,
                   acked |-> FALSE]
<1>1. row \in EventRow /\ row.kind = k /\ row.cert = served
  BY DEF TypeOK, EventRow
<1>2. events' = Append(events, row)
  BY DEF RecordEvent
<1> HIDE DEF row
<1>3. /\ events \in Seq(EventRow) /\ stateAt \in Seq(States) /\ Len(stateAt) = Len(events)
  BY DEF TypeOK, EventRow
<1> QED
  BY <1>1, <1>2, <1>3

LEMMA TypeStep == TypeOK /\ LastScanLinked /\ [Next]_vars => TypeOK'
<1> SUFFICES ASSUME TypeOK, LastScanLinked, [Next]_vars PROVE TypeOK'
  OBVIOUS
<1>1. CASE UNCHANGED vars
  BY <1>1 DEF TypeOK, vars
<1>2. CASE Tick
  BY <1>2, HistoryAssumption DEF TypeOK, Tick
<1>3. ASSUME NEW c \in Certs, Replace(c) PROVE TypeOK'
  BY <1>3 DEF TypeOK, Replace
<1>4. CASE Scan
  <2>1. PICK chain \in ChainOutcomes, s \in States, k \in Outcome :
          Ends(chain, s, k)
    BY <1>4, ScanEnds
  <2>2. /\ DOMAIN links' \subseteq Nat
        /\ links' \in [DOMAIN links' -> [id: {HostId}, cert: Certs, at: Nat]]
    <3>1. PICK row \in LinkRowRange(links) :
            links' = LinkHostCertificate(links, row, HostId, served, now)
      BY <1>4 DEF Scan
    <3>2. row \in Nat
      BY DEF TypeOK, LinkRowRange
    <3> QED
      BY <3>1, <3>2 DEF LinkHostCertificate, Upserted, TypeOK
  <2>3. /\ DOMAIN states' \subseteq {HostId} \X Certs
        /\ states' \in [DOMAIN states' -> States]
    BY <2>1 DEF Ends, SetCertificateState, Upserted, TypeOK
  <2>4. /\ events' \in Seq(EventRow) /\ stateAt' \in Seq(States)
        /\ Len(stateAt') = Len(events')
    <3>1. CASE k = NoEvent
      BY <2>1, <3>1 DEF Ends, TypeOK, EventRow
    <3>2. CASE k # NoEvent
      BY <2>1, <3>2, EventsAfter DEF Ends, Outcome
    <3> QED
      BY <3>1, <3>2
  <2>5. now' \in Nat /\ served' \in Certs /\ lastScan' \in [at: Nat, cert: Certs \cup {NoCert}]
    BY <1>4 DEF Scan, TypeOK
  <2> QED
    BY <2>2, <2>3, <2>4, <2>5 DEF TypeOK, EventRow
<1> QED
  BY <1>1, <1>2, <1>3, <1>4 DEF Next

-----------------------------------------------------------------------------
(* The steps.                                                              *)

\* All steps but Scan let time pass at most.
Quiet == now <= now' /\ UNCHANGED <<links, states, events, stateAt, lastScan>>

LEMMA StepCases ==
  ASSUME TypeOK, [Next]_vars PROVE Scan \/ Quiet
<1>1. CASE UNCHANGED vars
  BY <1>1 DEF vars, Quiet, TypeOK
<1>2. CASE Tick
  BY <1>2, HistoryAssumption DEF TypeOK, Tick, Quiet
<1>3. ASSUME NEW c \in Certs, Replace(c) PROVE Quiet
  BY <1>3 DEF TypeOK, Replace, Quiet
<1> QED
  BY <1>1, <1>2, <1>3 DEF Next

LEMMA InitHistory == Init => TypeOK /\ HistoryInv
<1> SUFFICES ASSUME Init PROVE TypeOK /\ HistoryInv
  OBVIOUS
<1>1. /\ DOMAIN links = {} /\ DOMAIN states = {} /\ DOMAIN events = {}
      /\ events = <<>> /\ stateAt = <<>> /\ now = 0 /\ served \in Certs
      /\ lastScan = [at |-> 0, cert |-> NoCert]
  BY DEF Init
<1>2. TypeOK
  BY <1>1 DEF TypeOK, Init
<1>3. \A c \in Certs : StateIn(states, c) = Unseen
  BY <1>1 DEF StateIn, GetCertificateState
<1>4. DangerIsNamed
  BY <1>3 DEF DangerIsNamed, Dangers, States, Unseen
<1>5. NoRepeatedAnnouncement /\ LastEventHolds /\ LedgerEnds /\ EventsSeen
  BY <1>1 DEF NoRepeatedAnnouncement, LastEventHolds, LedgerEnds, EventsSeen
<1>6. StatesDated /\ LastScanLinked
  BY <1>1 DEF StatesDated, LastScanLinked
<1> QED
  BY <1>2, <1>4, <1>5, <1>6 DEF HistoryInv

\* The row a scan writes is later than all others, because the scans of a host
\* start in different seconds.
LEMMA LinkStep ==
  ASSUME TypeOK, LastScanLinked, [Next]_vars PROVE LastScanLinked'
<1>0. /\ now \in Nat /\ lastScan.at \in Nat /\ served \in Certs
      /\ \A i \in DOMAIN links : links[i].at \in Nat
  BY DEF TypeOK
<1>1. CASE Quiet
  <2>1. now' \in Nat
    BY TypeStep DEF TypeOK
  <2> QED
    BY <1>0, <1>1, <2>1 DEF Quiet, LastScanLinked
<1>2. CASE Scan
  <2>1. /\ lastScan.cert = NoCert \/ lastScan.at < now
        /\ lastScan' = [at |-> now, cert |-> served] /\ now' = now
    BY <1>2 DEF Scan
  <2>2. \A i \in DOMAIN links : links[i].at < now
    <3>1. CASE lastScan.cert = NoCert
      BY <3>1 DEF LastScanLinked
    <3>2. CASE lastScan.cert # NoCert
      <4>1. \A i \in DOMAIN links : links[i].at <= lastScan.at
        BY <1>0, <3>2 DEF LastScanLinked
      <4> QED
        BY <1>0, <2>1, <3>2, <4>1
    <3> QED
      BY <3>1, <3>2
  <2>3. PICK row : links' = LinkHostCertificate(links, row, HostId, served, now)
    BY <1>2 DEF Scan
  <2>4. /\ DOMAIN links' = DOMAIN links \cup {row}
        /\ links'[row].cert = served /\ links'[row].at = now
        /\ \A i \in DOMAIN links \ {row} : links'[i] = links[i]
    BY <2>3 DEF LinkHostCertificate, Upserted
  <2>5. lastScan'.cert = served /\ lastScan'.at = now /\ now <= now'
    BY <1>0, <2>1
  <2>6. served # NoCert
    BY <1>0, StoreAssumption
  <2> QED
    BY <2>2, <2>4, <2>5, <2>6 DEF LastScanLinked
<1> QED
  BY <1>1, <1>2, StepCases

\* A state keeps the moment it was computed at; a new one is computed now.
LEMMA DatedStep ==
  ASSUME TypeOK, LastScanLinked, StatesDated, [Next]_vars PROVE StatesDated'
<1>0. now \in Nat /\ now' \in Nat
  BY TypeStep DEF TypeOK
<1>1. CASE Quiet
  BY <1>0, <1>1 DEF Quiet, StatesDated, Dated
<1>2. CASE Scan
  <2>1. PICK chain \in ChainOutcomes, s \in States, k \in Outcome :
          Ends(chain, s, k)
    BY <1>2, ScanEnds
  <2>2. now' = now
    BY <1>2 DEF Scan
  <2>3. Dated(s, served, now)
    BY <1>0, <2>1 DEF Ends, Dated
  <2> SUFFICES ASSUME NEW x \in DOMAIN states' PROVE Dated(states'[x], x[2], now)
    BY <2>2 DEF StatesDated
  <2>4. CASE x = <<HostId, served>>
    BY <2>1, <2>3, <2>4, StatesAfter DEF Ends
  <2>5. CASE x # <<HostId, served>>
    BY <2>1, <2>5, StatesAfter DEF Ends, StatesDated
  <2> QED
    BY <2>4, <2>5
<1> QED
  BY <1>1, <1>2, StepCases

LEMMA LastEventKept ==
  ASSUME UNCHANGED events, NEW c PROVE LastEventAbout(c)' = LastEventAbout(c)
<1> DEFINE top(S) == IF S = {} THEN 0 ELSE CHOOSE e \in S : \A f \in S : f <= e
           about(evs) == {e \in DOMAIN evs : evs[e].cert = c}
<1>1. LastEventAbout(c)' = top(about(events')) /\ LastEventAbout(c) = top(about(events))
  BY DEF LastEventAbout
<1> HIDE DEF top, about
<1> QED
  BY <1>1

\* What a scan does to the last events: its own, if there is one, is the last about
\* the certificate served, and those of the other certificates stay.
LEMMA LastEventAfter ==
  ASSUME TypeOK, NEW k \in EventKinds, NEW s \in States, UNCHANGED served,
         events' = RecordEvent(events, k, served, HostId), stateAt' = Append(stateAt, s)
  PROVE  /\ LastEventAbout(served)' = Len(events) + 1
         /\ \A c \in Certs \ {served} : LastEventAbout(c)' = LastEventAbout(c)
<1> DEFINE n == Len(events) + 1
           about(c) == {e \in DOMAIN events : events[e].cert = c}
           aboutNow(c) == {e \in DOMAIN events' : events'[e].cert = c}
<1>1. /\ n \in Nat \ {0} /\ DOMAIN events = 1..n - 1 /\ DOMAIN events' = 1..n
      /\ events'[n].cert = served
      /\ \A e \in DOMAIN events : events'[e] = events[e]
  BY EventsAfter
<1> HIDE DEF n
<1>2. ASSUME NEW c \in Certs \ {served} PROVE aboutNow(c) = about(c)
  <2>1. \A e \in DOMAIN events' : e \in DOMAIN events \/ e = n
    BY <1>1
  <2>2. DOMAIN events \subseteq DOMAIN events'
    BY <1>1
  <2> QED
    BY <1>1, <2>1, <2>2
<1>3. ASSUME NEW c \in Certs \ {served} PROVE LastEventAbout(c)' = LastEventAbout(c)
  <2> DEFINE top(S) == IF S = {} THEN 0 ELSE CHOOSE e \in S : \A f \in S : f <= e
  <2>1. LastEventAbout(c)' = top(aboutNow(c)) /\ LastEventAbout(c) = top(about(c))
    BY DEF LastEventAbout
  <2> HIDE DEF top, about, aboutNow
  <2> QED
    BY <1>2, <2>1
<1>4. n \in aboutNow(served) /\ \A e \in aboutNow(served) : e <= n
  BY <1>1
<1>5. \A e \in aboutNow(served) : (\A f \in aboutNow(served) : f <= e) => e = n
  BY <1>1, <1>4
<1> DEFINE last == CHOOSE e \in aboutNow(served) : \A f \in aboutNow(served) : f <= e
<1>6. last = n
  <2> HIDE DEF aboutNow
  <2> QED
    BY <1>4, <1>5
<1>7. aboutNow(served) # {}
  BY <1>4
<1>8. LastEventAbout(served)' = IF aboutNow(served) = {} THEN 0 ELSE last
  BY DEF LastEventAbout
<1> QED
  BY <1>3, <1>6, <1>7, <1>8 DEF n

\* Either a scan says nothing, or the ledger grows by an event about the
\* certificate served, which becomes the last event about it.
Silent(s, k) ==
  /\ k = NoEvent /\ UNCHANGED <<events, stateAt>>
  /\ StateIn(states, served) # Unseen
  /\ s = "healthy" \/ s = StateIn(states, served)

Speaks(s, k, n) ==
  /\ k \in EventKinds /\ n = Len(events) + 1 /\ n \in Nat \ {0}
  /\ DOMAIN events = 1..n - 1 /\ DOMAIN events' = 1..n
  /\ events'[n].kind = k /\ events'[n].cert = served /\ stateAt'[n] = s
  /\ \A e \in DOMAIN events : events'[e] = events[e] /\ stateAt'[e] = stateAt[e]
  /\ LastEventAbout(served)' = n
  /\ \A c \in Certs \ {served} : LastEventAbout(c)' = LastEventAbout(c)
  /\ k = "discovered" => StateIn(states, served) = Unseen
  /\ k \in States => k = s /\ StateIn(states, served) # s

LEMMA ScanCases ==
  ASSUME TypeOK, LastScanLinked, Scan
  PROVE  \E chain \in ChainOutcomes, s \in States, k \in Outcome, n \in Nat :
           /\ s = StateOf(Metadata(served, chain), now)
           /\ states' = SetCertificateState(states, HostId, served, s)
           /\ Silent(s, k) \/ Speaks(s, k, n)
<1>0. UNCHANGED served /\ served \in Certs
  BY DEF Scan, TypeOK
<1>1. PICK chain \in ChainOutcomes, s \in States, k \in Outcome :
        /\ Ends(chain, s, k)
        /\ k = "discovered" => StateIn(states, served) = Unseen
        /\ k \in States => k = s /\ StateIn(states, served) # s
        /\ k = NoEvent => /\ StateIn(states, served) # Unseen
                          /\ s = "healthy" \/ s = StateIn(states, served)
  BY ScanEnds
<1>2. CASE k = NoEvent
  BY <1>1, <1>2 DEF Ends, Silent
<1>3. CASE k # NoEvent
  <2>1. k \in EventKinds
    BY <1>3 DEF Outcome
  <2>2. events' = RecordEvent(events, k, served, HostId) /\ stateAt' = Append(stateAt, s)
    BY <1>1, <1>3 DEF Ends
  <2>3. Speaks(s, k, Len(events) + 1)
    BY <1>0, <1>1, <2>1, <2>2, EventsAfter, LastEventAfter DEF Speaks
  <2> QED
    BY <1>1, <2>3 DEF Ends
<1> QED
  BY <1>2, <1>3

LEMMA SeenStep ==
  ASSUME TypeOK, LastScanLinked, EventsSeen, [Next]_vars PROVE EventsSeen'
<1>1. CASE Quiet
  BY <1>1 DEF Quiet, EventsSeen
<1>2. CASE Scan
  <2>1. PICK s \in States, k \in Outcome, n \in Nat :
          /\ states' = SetCertificateState(states, HostId, served, s)
          /\ Silent(s, k) \/ Speaks(s, k, n)
    BY <1>2, ScanCases
  <2>2. DOMAIN states' = DOMAIN states \cup {<<HostId, served>>}
    BY <2>1, StatesAfter
  <2>3. CASE Silent(s, k)
    BY <2>2, <2>3 DEF Silent, EventsSeen
  <2>4. CASE Speaks(s, k, n)
    BY <2>2, <2>4 DEF Speaks, EventsSeen
  <2> QED
    BY <2>1, <2>3, <2>4
<1> QED
  BY <1>1, <1>2, StepCases

LEMMA LedgerEndsStep ==
  ASSUME TypeOK, LastScanLinked, LedgerEnds, [Next]_vars PROVE LedgerEnds'
<1>0. \A e \in DOMAIN events : events[e].cert \in Certs
  BY EventTyped
<1>1. CASE UNCHANGED events
  BY <1>1 DEF LedgerEnds, LastEventAbout
<1>2. CASE Scan
  <2>1. PICK s \in States, k \in Outcome, n \in Nat : Silent(s, k) \/ Speaks(s, k, n)
    BY <1>2, ScanCases
  <2>2. CASE Speaks(s, k, n)
    <3>0. UNCHANGED served
      BY <1>2 DEF Scan
    <3> SUFFICES ASSUME NEW e \in DOMAIN events'
                 PROVE  \E l \in DOMAIN events' :
                          /\ l = LastEventAbout(events[e].cert)'
                          /\ events'[l].cert = events'[e].cert /\ e <= l
      BY DEF LedgerEnds
    <3>1. CASE events'[e].cert = served
      <4>1. LastEventAbout(events[e].cert)' = n
        BY <2>2, <3>0, <3>1 DEF Speaks
      <4> QED
        BY <2>2, <3>1, <4>1 DEF Speaks
    <3>2. CASE events'[e].cert # served
      <4>1. e \in DOMAIN events /\ events'[e] = events[e]
        BY <2>2, <3>2 DEF Speaks
      <4>2. LastEventAbout(events[e].cert)' = LastEventAbout(events[e].cert)
        BY <1>0, <2>2, <3>2, <4>1 DEF Speaks
      <4>3. PICK l \in DOMAIN events : /\ l = LastEventAbout(events[e].cert)
                                       /\ events[l].cert = events[e].cert /\ e <= l
        BY <4>1 DEF LedgerEnds
      <4> QED
        BY <2>2, <4>1, <4>2, <4>3 DEF Speaks
    <3> QED
      BY <3>1, <3>2
  <2> QED
    BY <1>1, <2>1, <2>2 DEF Silent
<1> QED
  BY <1>1, <1>2, StepCases DEF Quiet

\* A warning of time is left only through another event: a later evaluation can
\* raise nothing only if it finds the same state, for it cannot find "healthy".
LEMMA LastEventStep ==
  ASSUME TypeOK, LastScanLinked, StatesDated, LastEventHolds, [Next]_vars
  PROVE  LastEventHolds'
<1>0. \A e \in DOMAIN events : events[e].cert \in Certs
  BY EventTyped
<1>1. CASE Quiet
  <2>1. UNCHANGED events /\ UNCHANGED states
    BY <1>1 DEF Quiet
  <2> SUFFICES ASSUME NEW e \in DOMAIN events', e = LastEventAbout(events[e].cert)',
                      events'[e].kind \in {"warn", "alert", "expired"}
               PROVE  StateIn(states', events'[e].cert) = events'[e].kind
    BY DEF LastEventHolds
  <2>2. e = LastEventAbout(events[e].cert)
    BY <2>1, LastEventKept
  <2> QED
    BY <2>1, <2>2 DEF LastEventHolds
<1>2. CASE Scan
  <2>1. PICK chain \in ChainOutcomes, s \in States, k \in Outcome, n \in Nat :
          /\ s = StateOf(Metadata(served, chain), now)
          /\ states' = SetCertificateState(states, HostId, served, s)
          /\ Silent(s, k) \/ Speaks(s, k, n)
    BY <1>2, ScanCases
  <2>2. /\ served \in Certs /\ now \in Nat /\ UNCHANGED <<served, now>>
    BY <1>2 DEF TypeOK, Scan
  <2> SUFFICES ASSUME NEW e \in DOMAIN events', e = LastEventAbout(events[e].cert)',
                      events'[e].kind \in {"warn", "alert", "expired"}
               PROVE  StateIn(states', events'[e].cert) = events'[e].kind
    BY DEF LastEventHolds
  <2>3. CASE Silent(s, k)
    <3>1. /\ e \in DOMAIN events /\ events' = events
          /\ e = LastEventAbout(events[e].cert)
      BY <2>3, LastEventKept DEF Silent
    <3>2. StateIn(states, events[e].cert) = events[e].kind
      BY <3>1 DEF LastEventHolds
    <3>3. CASE events[e].cert = served
      <4>1. <<HostId, served>> \in DOMAIN states /\ states[<<HostId, served>>] = events[e].kind
        BY <2>3, <3>2, <3>3 DEF Silent, StateIn, GetCertificateState
      <4>2. Dated(events[e].kind, served, now)
        BY <4>1 DEF StatesDated
      <4>3. PICK t \in 0..now, x \in ChainOutcomes : events[e].kind = StateOf(Metadata(served, x), t)
        BY <4>2 DEF Dated
      <4>4. t \in Nat /\ t <= now
        BY <2>2
      <4>5. s # "healthy"
        BY <2>1, <2>2, <3>1, <4>3, <4>4, StateMonotone
      <4>6. s = events[e].kind
        BY <2>3, <3>2, <3>3, <4>5 DEF Silent
      <4> QED
        BY <2>1, <2>2, <3>1, <3>3, <4>6, StatesAfter
    <3>4. CASE events[e].cert # served
      BY <1>0, <2>1, <3>1, <3>2, <3>4, StatesAfter
    <3> QED
      BY <3>3, <3>4
  <2>4. CASE Speaks(s, k, n)
    <3>1. CASE events'[e].cert = served
      <4>1. e = n
        BY <2>2, <2>4, <3>1 DEF Speaks
      <4>2. events'[e].kind = s
        BY <2>4, <4>1 DEF Speaks, States
      <4> QED
        BY <2>1, <3>1, <4>2, StatesAfter
    <3>2. CASE events'[e].cert # served
      <4>1. e \in DOMAIN events /\ events'[e] = events[e]
        BY <2>4, <3>2 DEF Speaks
      <4>2. e = LastEventAbout(events[e].cert)
        BY <1>0, <2>4, <3>2, <4>1 DEF Speaks
      <4>3. StateIn(states, events[e].cert) = events[e].kind
        BY <4>1, <4>2 DEF LastEventHolds
      <4> QED
        BY <1>0, <2>1, <3>2, <4>1, <4>3, StatesAfter
    <3> QED
      BY <3>1, <3>2
  <2> QED
    BY <2>1, <2>3, <2>4
<1> QED
  BY <1>1, <1>2, StepCases

LEMMA LastEventExists ==
  ASSUME LedgerEnds, NEW c, LastEventAbout(c) # 0
  PROVE  LastEventAbout(c) \in DOMAIN events /\ events[LastEventAbout(c)].cert = c
<1>1. PICK e \in DOMAIN events : events[e].cert = c
  BY DEF LastEventAbout
<1> QED
  BY <1>1 DEF LedgerEnds

\* The last event about c was recorded with the stored state, and names it unless
\* it is a discovery or a renewal.
Named(c) ==
  /\ LastEventAbout(c) # 0
  /\ stateAt[LastEventAbout(c)] = StateIn(states, c)
  /\ events[LastEventAbout(c)].kind \in {StateIn(states, c), "discovered", "renewed"}

\* A scan that raises nothing finds the certificate healthy or leaves its state.
LEMMA DangerStep ==
  ASSUME TypeOK, LastScanLinked, LedgerEnds, DangerIsNamed, [Next]_vars
  PROVE  DangerIsNamed'
<1>1. CASE Quiet
  <2>1. UNCHANGED events /\ UNCHANGED states /\ UNCHANGED stateAt
    BY <1>1 DEF Quiet
  <2> SUFFICES ASSUME NEW c \in Certs, StateIn(states', c) \in Dangers
               PROVE  Named(c)'
    BY DEF DangerIsNamed, Named
  <2>2. LastEventAbout(c)' = LastEventAbout(c)
    BY <2>1, LastEventKept
  <2> QED
    BY <2>1, <2>2 DEF DangerIsNamed, Named
<1>2. CASE Scan
  <2>1. PICK s \in States, k \in Outcome, n \in Nat :
          /\ states' = SetCertificateState(states, HostId, served, s)
          /\ Silent(s, k) \/ Speaks(s, k, n)
    BY <1>2, ScanCases
  <2> SUFFICES ASSUME NEW c \in Certs, StateIn(states', c) \in Dangers
               PROVE  Named(c)'
    BY DEF DangerIsNamed, Named
  <2>2. CASE Silent(s, k)
    <3>1. StateIn(states', c) = StateIn(states, c)
      BY <2>1, <2>2, StatesAfter DEF Silent, Dangers
    <3>2. LastEventAbout(c)' = LastEventAbout(c) /\ UNCHANGED <<events, stateAt>>
      BY <2>2, LastEventKept DEF Silent
    <3> QED
      BY <3>1, <3>2 DEF DangerIsNamed, Named
  <2>3. CASE Speaks(s, k, n)
    <3>1. CASE c = served
      <4>0. UNCHANGED served
        BY <1>2 DEF Scan
      <4>1. LastEventAbout(c)' = n
        BY <2>3, <3>1, <4>0 DEF Speaks
      <4>2. StateIn(states', c) = s /\ s \in Dangers
        BY <2>1, <3>1, StatesAfter
      <4>3. k \in {s, "discovered", "renewed"}
        BY <2>3, <4>2 DEF Speaks, States, EventKinds, Dangers
      <4> QED
        BY <2>3, <4>1, <4>2, <4>3 DEF Speaks, Named
    <3>2. CASE c # served
      <4>1. StateIn(states', c) = StateIn(states, c)
        BY <2>1, <3>2, StatesAfter
      <4>2. LastEventAbout(c)' = LastEventAbout(c)
        BY <2>3, <3>2 DEF Speaks
      <4>3. Named(c)
        BY <4>1 DEF DangerIsNamed, Named
      <4>4. LastEventAbout(c) \in DOMAIN events
        BY <4>3, LastEventExists DEF Named
      <4>5. /\ stateAt'[LastEventAbout(c)] = stateAt[LastEventAbout(c)]
            /\ events'[LastEventAbout(c)] = events[LastEventAbout(c)]
        BY <2>3, <4>4 DEF Speaks
      <4> QED
        BY <4>1, <4>2, <4>3, <4>5 DEF Named
    <3> QED
      BY <3>1, <3>2
  <2> QED
    BY <2>1, <2>2, <2>3
<1> QED
  BY <1>1, <1>2, StepCases

\* If the new event were the second in a row of its kind, the certificate would be in
\* that state already; and a certificate with an event is not discovered.
LEMMA NoRepeatStep ==
  ASSUME TypeOK, LastScanLinked, EventsSeen, LedgerEnds, LastEventHolds,
         NoRepeatedAnnouncement, [Next]_vars
  PROVE  NoRepeatedAnnouncement'
<1>1. CASE UNCHANGED events
  BY <1>1 DEF NoRepeatedAnnouncement
<1>2. CASE Scan
  <2>1. PICK s \in States, k \in Outcome, n \in Nat : Silent(s, k) \/ Speaks(s, k, n)
    BY <1>2, ScanCases
  <2>2. CASE Speaks(s, k, n)
    <3> DEFINE Relieved(evs, e, f) ==
          /\ evs[e].kind # "discovered"
          /\ \E g \in e..f : evs[g].cert = evs[e].cert /\ evs[g].kind # evs[e].kind
    <3> SUFFICES ASSUME NEW e \in DOMAIN events', NEW f \in DOMAIN events', e < f,
                        events'[e].cert = events'[f].cert, events'[e].kind = events'[f].kind,
                        events'[e].kind \in {"warn", "alert", "expired", "discovered"}
                 PROVE  Relieved(events', e, f)
      BY DEF NoRepeatedAnnouncement
    <3>1. /\ n \in Nat \ {0} /\ DOMAIN events = 1..n - 1 /\ DOMAIN events' = 1..n
          /\ \A g \in DOMAIN events : events'[g] = events[g]
      BY <2>2 DEF Speaks
    <3>2. e \in DOMAIN events /\ e..f \subseteq DOMAIN events'
      BY <3>1
    <3>3. CASE f \in DOMAIN events
      <4>1. Relieved(events, e, f)
        BY <3>1, <3>2, <3>3 DEF NoRepeatedAnnouncement
      <4>2. e..f \subseteq DOMAIN events
        BY <3>1, <3>2, <3>3
      <4> QED
        BY <3>1, <3>2, <4>1, <4>2
    <3>4. CASE f = n
      <4>1. events[e].cert = served /\ events[e].kind = k
        BY <2>2, <3>1, <3>2, <3>4 DEF Speaks
      <4>2. StateIn(states, served) # Unseen
        <5>1. <<HostId, served>> \in DOMAIN states
          BY <3>2, <4>1 DEF EventsSeen
        <5>2. states[<<HostId, served>>] \in States
          BY <5>1 DEF TypeOK
        <5> QED
          BY <5>1, <5>2 DEF StateIn, GetCertificateState, Unseen, States
      <4>3. k # "discovered"
        BY <2>2, <4>2 DEF Speaks
      <4>4. StateIn(states, served) # k
        BY <2>2, <3>1, <3>4, <4>3 DEF Speaks, States
      <4> DEFINE l == LastEventAbout(served)
      <4>5. l \in DOMAIN events /\ events[l].cert = served /\ e <= l
        BY <3>2, <4>1 DEF LedgerEnds
      <4>6. events[l].kind # k
        BY <3>1, <3>2, <4>1, <4>3, <4>4, <4>5 DEF LastEventHolds
      <4> HIDE DEF l
      <4>7. l \in e..f
        BY <3>1, <3>2, <3>4, <4>5
      <4> QED
        BY <3>1, <3>2, <4>1, <4>3, <4>5, <4>6, <4>7
    <3> QED
      BY <3>1, <3>3, <3>4
  <2> QED
    BY <1>1, <2>1, <2>2 DEF Silent
<1> QED
  BY <1>1, <1>2, StepCases DEF Quiet

LEMMA HistoryHolds == Spec => [](TypeOK /\ HistoryInv)
<1>1. TypeOK /\ HistoryInv /\ [Next]_vars => (TypeOK /\ HistoryInv)'
  <2> SUFFICES ASSUME TypeOK, HistoryInv, [Next]_vars PROVE (TypeOK /\ HistoryInv)'
    OBVIOUS
  <2> USE DEF HistoryInv
  <2>1. TypeOK' /\ LastScanLinked' /\ StatesDated'
    BY TypeStep, LinkStep, DatedStep
  <2>2. EventsSeen' /\ LedgerEnds' /\ LastEventHolds'
    BY SeenStep, LedgerEndsStep, LastEventStep
  <2>3. DangerIsNamed' /\ NoRepeatedAnnouncement'
    BY DangerStep, NoRepeatStep
  <2> QED
    BY <2>1, <2>2, <2>3
<1> QED
  BY <1>1, InitHistory, PTL DEF Spec

-----------------------------------------------------------------------------
(* Theorems.                                                               *)

\* The tables, the ledger and the history keep their types.
THEOREM HistoryTyping == Spec => []TypeOK
BY HistoryHolds, PTL

\* A stored danger is named by the last event about its certificate, unless the
\* scan that stored it recorded a discovery or a renewal in its place: evaluate and
\* the renewal rule of processHost leave no other way for a danger to go unnamed.
THEOREM DangersAreNamed == Spec => []DangerIsNamed
<1>1. HistoryInv => DangerIsNamed
  BY DEF HistoryInv
<1> QED
  BY <1>1, HistoryHolds, PTL

\* No record of a kind is repeated about a certificate without one of another kind
\* in between, and none is discovered twice ("fires on state transitions only").
THEOREM AnnouncementsAreNotRepeated == Spec => []NoRepeatedAnnouncement
<1>1. HistoryInv => NoRepeatedAnnouncement
  BY DEF HistoryInv
<1> QED
  BY <1>1, HistoryHolds, PTL

\* From scan to scan a certificate gets worse, except that its TLS configuration may
\* be repaired; expired is for ever.
THEOREM StatesOnlyWorsen == Spec => NeverRecovers
<1> DEFINE Worse ==
      \A c \in Certs :
        LET s == StateIn(states, c)
            t == StateIn(states', c)
        IN  /\ s = "expired" => t = "expired"
            /\ ({s, t} \cap {Unseen, "misconfigured"} = {}) => Severity(t) >= Severity(s)
<1>1. TypeOK /\ HistoryInv /\ [Next]_vars => [Worse]_vars
  <2> SUFFICES ASSUME TypeOK, HistoryInv, [Next]_vars PROVE Worse
    OBVIOUS
  <2> SUFFICES ASSUME NEW c \in Certs
               PROVE  LET s == StateIn(states, c)
                          t == StateIn(states', c)
                      IN  /\ s = "expired" => t = "expired"
                          /\ ({s, t} \cap {Unseen, "misconfigured"} = {})
                               => Severity(t) >= Severity(s)
    OBVIOUS
  <2>1. StateIn(states, c) \in States \cup {Unseen}
    BY DEF TypeOK, StateIn, GetCertificateState
  <2>2. CASE StateIn(states', c) = StateIn(states, c)
    <3>1. Severity(StateIn(states, c)) >= Severity(StateIn(states, c))
          \/ StateIn(states, c) \in {Unseen, "misconfigured"}
      BY <2>1 DEF Severity, States
    <3> QED
      BY <2>2, <3>1
  <2>3. CASE StateIn(states', c) # StateIn(states, c)
    <3>1. Scan
      BY <2>3, StepCases DEF Quiet
    <3>2. PICK chain \in ChainOutcomes, s \in States :
            /\ s = StateOf(Metadata(served, chain), now)
            /\ states' = SetCertificateState(states, HostId, served, s)
      BY <3>1, ScanCases DEF HistoryInv
    <3>3. c = served /\ StateIn(states', c) = s
      BY <2>3, <3>2, StatesAfter
    <3>4. CASE StateIn(states, c) = Unseen
      BY <3>4 DEF Unseen
    <3>5. CASE StateIn(states, c) # Unseen
      <4>1. <<HostId, c>> \in DOMAIN states /\ states[<<HostId, c>>] = StateIn(states, c)
        BY <3>5 DEF StateIn, GetCertificateState
      <4>2. PICK t \in 0..now, x \in ChainOutcomes : StateIn(states, c) = StateOf(Metadata(c, x), t)
        BY <4>1 DEF HistoryInv, StatesDated, Dated
      <4>3. t \in Nat /\ now \in Nat /\ t <= now
        BY DEF TypeOK
      <4>4. /\ StateIn(states, c) = "expired" => s = "expired"
            /\ "misconfigured" \notin {StateIn(states, c), s}
                 => Severity(s) >= Severity(StateIn(states, c))
        BY <3>2, <3>3, <4>2, <4>3, StateMonotone
      <4> QED
        BY <3>3, <4>4
    <3> QED
      BY <3>4, <3>5
  <2> QED
    BY <2>2, <2>3
<1>2. Spec => [][Worse]_vars
  BY <1>1, HistoryHolds, PTL DEF Spec
<1> QED
  BY <1>2 DEF NeverRecovers

\* A renewed record means that the scan before saw another certificate, and that it
\* ends earlier: the latest link is the link of that scan.
THEOREM RenewalsAreChanges == Spec => RenewedMeansChanged
<1> DEFINE Changed ==
      Len(events') > Len(events) /\ events'[Len(events')].kind = "renewed"
        => /\ lastScan.cert \notin {NoCert, served}
           /\ NotAfter[lastScan.cert] < NotAfter[served]
<1>1. TypeOK /\ HistoryInv /\ [Next]_vars => [Changed]_vars
  <2> SUFFICES ASSUME TypeOK, HistoryInv, [Next]_vars,
                      Len(events') > Len(events), events'[Len(events')].kind = "renewed"
               PROVE  /\ lastScan.cert \notin {NoCert, served}
                      /\ NotAfter[lastScan.cert] < NotAfter[served]
    OBVIOUS
  <2>1. events' # events
    <3>1. Len(events) \in Nat
      BY DEF TypeOK
    <3> QED
      BY <3>1
  <2>2. Scan
    BY <2>1, StepCases DEF Quiet
  <2>3. PICK chain \in ChainOutcomes, s \in States, k \in Outcome :
          Ends(chain, s, k) /\ (k = "renewed" => Renews(lastScan.cert, served))
    BY <2>2, ScanEnds DEF HistoryInv
  <2>4. k \in EventKinds /\ events' = RecordEvent(events, k, served, HostId)
        /\ stateAt' = Append(stateAt, s)
    BY <2>1, <2>3 DEF Ends, Outcome
  <2>5. events'[Len(events')].kind = k
    BY <2>4, EventsAfter
  <2> QED
    BY <2>3, <2>5 DEF Renews
<1>2. Spec => [][Changed]_vars
  BY <1>1, HistoryHolds, PTL DEF Spec
<1> QED
  BY <1>2 DEF RenewedMeansChanged
=============================================================================
