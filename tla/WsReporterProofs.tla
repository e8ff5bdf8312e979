-------------------------- MODULE WsReporterProofs --------------------------
(***************************************************************************)
(* IndInv is an invariant of the WebSocket reporter for every set of tasks *)
(* and every value of the limits; with it no leased result is forgotten    *)
(* and no result is given up before the server has persisted it.           *)
(***************************************************************************)
EXTENDS WsReporter, FiniteSetTheorems, SequenceTheorems, TLAPS

-----------------------------------------------------------------------------
(* The parts of the invariant, for a queue pd and a set H of reports *)

Covers(pd, n, H) ==
    /\ \A t \in Tasks : pd[t] # NoResult /\ pd[t].leased =>
         \E r \in H : <<t, pd[t].seq, pd[t].cfg>> \in r.results
    /\ \A r \in H :
         /\ \A t \in Tasks : pd[t] # NoResult /\ <<t, pd[t].seq>> \in r.leases =>
              <<t, pd[t].seq, pd[t].cfg>> \in r.results
         /\ \A x \in r.results : <<x[1], x[2]>> \in r.leases
         /\ \A t \in Tasks, c \in Configs : pd[t] # NoResult /\ <<t, pd[t].seq, c>> \in r.results =>
              c = pd[t].cfg
         /\ \A l \in r.leases : l[2] <= n

QueueType(pd) == pd \in [Tasks -> Queued \cup {NoResult}]

\* r1 is r0, but for results that pd no longer holds.
SameProbes(pd, r0, r1) ==
    /\ r1.leases = r0.leases
    /\ r1.results \subseteq r0.results
    /\ \A x \in r0.results : pd[x[1]] # NoResult /\ pd[x[1]].seq = x[2] => x \in r1.results

\* currentReportResults returns a report that differs from its argument only in
\* what the queue has given up.
LEMMA CurrentReportKeeps ==
    ASSUME NEW pd, NEW rev \in Nat, NEW bp \in BOOLEAN, NEW r \in Reports
    PROVE  /\ CurrentReport(pd, rev, bp, r) \in Reports
           /\ SameProbes(pd, r, CurrentReport(pd, rev, bp, r))
  BY DEF CurrentReport, Reports, SameProbes

\* Replacing reports by what the queue still holds of them, and dropping those left
\* without results, loses no leased result.
LEMMA RefreshedReportsCover ==
    ASSUME NEW pd, QueueType(pd), NEW n, NEW H0 \in SUBSET Reports, NEW H1 \in SUBSET Reports,
           Covers(pd, n, H0),
           \A r1 \in H1 : \E r0 \in H0 : SameProbes(pd, r0, r1),
           \A r0 \in H0 : \E r1 \in Reports : SameProbes(pd, r0, r1) /\ (HasResult(r1) => r1 \in H1)
    PROVE  Covers(pd, n, H1)
  <1>1. ASSUME NEW t \in Tasks, pd[t] # NoResult, pd[t].leased
        PROVE  \E r \in H1 : <<t, pd[t].seq, pd[t].cfg>> \in r.results
    <2>1. PICK r0 \in H0 : <<t, pd[t].seq, pd[t].cfg>> \in r0.results
      BY <1>1 DEF Covers
    <2>2. PICK r1 \in Reports : SameProbes(pd, r0, r1) /\ (HasResult(r1) => r1 \in H1)
      OBVIOUS
    <2>3. <<t, pd[t].seq, pd[t].cfg>> \in r1.results
      BY <1>1, <2>1, <2>2 DEF SameProbes
    <2> QED
      BY <2>2, <2>3 DEF HasResult
  <1>2. ASSUME NEW r1 \in H1
        PROVE  /\ \A t \in Tasks : pd[t] # NoResult /\ <<t, pd[t].seq>> \in r1.leases =>
                    <<t, pd[t].seq, pd[t].cfg>> \in r1.results
               /\ \A x \in r1.results : <<x[1], x[2]>> \in r1.leases
               /\ \A t \in Tasks, c \in Configs : pd[t] # NoResult /\ <<t, pd[t].seq, c>> \in r1.results =>
                    c = pd[t].cfg
               /\ \A l \in r1.leases : l[2] <= n
    <2>1. PICK r0 \in H0 : SameProbes(pd, r0, r1)
      OBVIOUS
    <2>2. /\ \A t \in Tasks : pd[t] # NoResult /\ <<t, pd[t].seq>> \in r0.leases =>
               <<t, pd[t].seq, pd[t].cfg>> \in r0.results
          /\ \A x \in r0.results : <<x[1], x[2]>> \in r0.leases
          /\ \A t \in Tasks, c \in Configs : pd[t] # NoResult /\ <<t, pd[t].seq, c>> \in r0.results =>
               c = pd[t].cfg
          /\ \A l \in r0.leases : l[2] <= n
      BY DEF Covers
    <2> QED
      BY <2>1, <2>2 DEF SameProbes
  <1> QED
    BY <1>1, <1>2 DEF Covers

\* What retryReports keeps is a finite set of reports.
LEMMA RetainedType ==
    ASSUME NEW pd, NEW rev \in Nat, NEW bp \in BOOLEAN, NEW R \in SUBSET Reports, IsFiniteSet(R)
    PROVE  Retained(pd, rev, bp, R) \subseteq Reports /\ IsFiniteSet(Retained(pd, rev, bp, R))
  <1> DEFINE T == {CurrentReport(pd, rev, bp, r) : r \in R}
             f == [r \in R |-> CurrentReport(pd, rev, bp, r)]
  <1>1. T \subseteq Reports
    BY CurrentReportKeeps
  <1>2. f \in Surjection(R, T)
    BY DEF Surjection
  <1>3. IsFiniteSet(T)
    BY <1>2, FS_Surjection
  <1> QED
    BY <1>1, <1>3, FS_Subset DEF Retained

\* retryReports loses no result that the queue still holds.
LEMMA RetainedKeeps ==
    ASSUME NEW pd, NEW rev \in Nat, NEW bp \in BOOLEAN, NEW R \in SUBSET Reports
    PROVE  /\ \A r1 \in Retained(pd, rev, bp, R) : \E r0 \in R : SameProbes(pd, r0, r1)
           /\ \A r0 \in R : \E r1 \in Reports :
                SameProbes(pd, r0, r1) /\ (HasResult(r1) => r1 \in Retained(pd, rev, bp, R))
  <1>1. ASSUME NEW r0 \in R
        PROVE  \E r1 \in Reports :
                 SameProbes(pd, r0, r1) /\ (HasResult(r1) => r1 \in Retained(pd, rev, bp, R))
    <2>1. CurrentReport(pd, rev, bp, r0) \in Reports /\ SameProbes(pd, r0, CurrentReport(pd, rev, bp, r0))
      BY CurrentReportKeeps
    <2>2. HasResult(CurrentReport(pd, rev, bp, r0)) => CurrentReport(pd, rev, bp, r0) \in Retained(pd, rev, bp, R)
      BY DEF Retained
    <2> QED
      BY <2>1, <2>2
  <1>2. ASSUME NEW r1 \in Retained(pd, rev, bp, R) PROVE \E r0 \in R : SameProbes(pd, r0, r1)
    BY CurrentReportKeeps DEF Retained
  <1> QED
    BY <1>1, <1>2

\* The reports of a sequence form a finite set of reports.
LEMMA SeqRangeType ==
    ASSUME NEW S, NEW s \in Seq(S)
    PROVE  Range(s) \subseteq S /\ IsFiniteSet(Range(s))
  <1>1. Len(s) \in Nat /\ DOMAIN s = 1..Len(s) /\ s \in [1..Len(s) -> S]
    BY LenProperties
  <1>2. Range(s) \subseteq S
    BY <1>1 DEF Range
  <1>3. s \in Surjection(1..Len(s), Range(s))
    BY <1>1 DEF Range, Surjection
  <1>4. IsFiniteSet(1..Len(s))
    BY <1>1, FS_Interval
  <1>5. IsFiniteSet(Range(s))
    BY <1>3, <1>4, FS_Surjection
  <1>6. QED
    BY <1>2, <1>5

-----------------------------------------------------------------------------
(* prepareReportsWithPing *)

\* Every waiting result has a place in one of the reports of a cycle.
LEMMA ReportIndexType ==
    ASSUME NEW pd, NEW t \in Tasks
    PROVE  ReportIndex(pd, t) \in Nat \ {0}
  <1>1. ASSUME NEW K \in SUBSET Tasks, NEW limit \in Nat \ {0}
        PROVE  ReportOf(pd, K, limit, t) \in Nat \ {0}
    <2> DEFINE B == {u \in Unleased(pd, K) : pd[u].seq < pd[t].seq}
    <2>1. IsFiniteSet(Tasks)
      BY TasksAssumption
    <2>2. B \subseteq Tasks
      BY DEF Unleased
    <2>3. IsFiniteSet(B)
      BY <2>1, <2>2, FS_Subset
    <2>4. Cardinality(B) \in Nat
      BY <2>3, FS_CardinalityType
    <2> HIDE DEF B
    <2>5. Cardinality(B) \div limit \in Nat
      BY <2>4
    <2> QED
      BY <2>5 DEF ReportOf, B
  <1> QED
    BY <1>1, LimitAssumption DEF ReportIndex, Tasks

\* appendPendingResultsLocked builds a report.
LEMMA FreshReportType ==
    ASSUME NEW pd, QueueType(pd), NEW i, NEW basic \in Nat
    PROVE  FreshReport(pd, i, basic) \in Reports
  <1> DEFINE U == {t \in Unleased(pd, Tasks) : ReportIndex(pd, t) = i}
  <1>1. \A t \in U : t \in Tasks /\ pd[t] \in Queued
    BY DEF Unleased, QueueType
  <1>2. {<<t, pd[t].seq>> : t \in U} \subseteq Tasks \X Seqs
    BY <1>1 DEF Queued
  <1>3. {<<t, pd[t].seq, pd[t].cfg>> : t \in U} \subseteq Results
    BY <1>1 DEF Queued, Results
  <1>4. (IF i = 1 THEN basic ELSE 0) \in Nat
    OBVIOUS
  <1> QED
    BY <1>2, <1>3, <1>4 DEF FreshReport, Reports

\* The reports of a cycle: the retried ones and those with the fresh results.
LEMMA PreparedReportsAre ==
    ASSUME NEW pd, QueueType(pd), TypeOK, basicPending' \in BOOLEAN, basicRevision' \in Nat,
           NEW reports \in PreparedReports(pd)
    PROVE  /\ reports \in Seq(Reports)
           /\ reports # <<>>
           /\ \A r \in Retained(pd, basicRevision, basicPending, retryQueue) : r \in Range(reports)
           /\ \A t \in Unleased(pd, Tasks) : \E basic \in Nat :
                 FreshReport(pd, ReportIndex(pd, t), basic) \in Range(reports)
           /\ \A r \in Range(reports) :
                \/ r \in Retained(pd, basicRevision, basicPending, retryQueue)
                \/ \E i, basic \in Nat : r = FreshReport(pd, i, basic)
  <1> DEFINE R == Retained(pd, basicRevision, basicPending, retryQueue)
             basic == IF basicPending' THEN basicRevision' ELSE 0
             I == {1} \cup {ReportIndex(pd, t) : t \in Unleased(pd, Tasks)}
  <1>1. PICK retry \in RetryOrders(pd, basicRevision, basicPending),
             fresh \in FreshReports(pd, basic) : reports = retry \o fresh
    BY DEF PreparedReports
  <1>2. R \subseteq Reports
    BY RetainedType DEF TypeOK, QueueTypeOK
  <1>3. IsFiniteSet(R)
    BY RetainedType DEF TypeOK, QueueTypeOK
  <1>4. Cardinality(R) \in Nat
    BY <1>3, FS_CardinalityType
  <1>5. retry \in [1..Cardinality(R) -> R] /\ \A r \in R : \E i \in 1..Cardinality(R) : retry[i] = r
    BY <1>1 DEF RetryOrders, Surjection
  <1>6. retry \in Seq(Reports) /\ Len(retry) = Cardinality(R)
    BY <1>2, <1>4, <1>5
  <1>7. PICK n \in I : /\ \A i \in I : i <= n
                       /\ fresh = [i \in 1..n |-> FreshReport(pd, i, basic)]
    BY <1>1 DEF FreshReports
  <1>8. I \subseteq Nat \ {0}
    BY ReportIndexType DEF Unleased
  <1>9. basic \in Nat
    OBVIOUS
  <1>10. \A i \in 1..n : FreshReport(pd, i, basic) \in Reports
    BY <1>9, FreshReportType
  <1>11. fresh \in Seq(Reports) /\ Len(fresh) = n /\ n \in Nat \ {0}
    BY <1>7, <1>8, <1>10
  <1> HIDE DEF R, basic, I
  <1>12. reports \in Seq(Reports) /\ Len(reports) = Len(retry) + n
    BY <1>1, <1>6, <1>11, ConcatProperties
  <1>13. \A i \in 1..Len(retry) : reports[i] = retry[i]
    BY <1>1, <1>6, <1>11
  <1>14. \A i \in 1..n : reports[Len(retry) + i] = FreshReport(pd, i, basic)
    BY <1>1, <1>6, <1>7, <1>11
  <1>15. Range(reports) = {reports[i] : i \in 1..(Len(retry) + n)}
    BY <1>12 DEF Range
  <1>16. \A r \in R : r \in Range(reports)
    BY <1>5, <1>6, <1>11, <1>13, <1>15
  <1>17. \A i \in 1..n : FreshReport(pd, i, basic) \in Range(reports)
    BY <1>6, <1>11, <1>14, <1>15
  <1>18. \A t \in Unleased(pd, Tasks) : ReportIndex(pd, t) \in 1..n
    BY <1>7, <1>8, <1>11 DEF I
  <1>19. \A r \in Range(reports) : r \in R \/ \E i \in 1..n : r = FreshReport(pd, i, basic)
    <2> SUFFICES ASSUME NEW j \in 1..(Len(retry) + n)
                 PROVE  reports[j] \in R \/ \E i \in 1..n : reports[j] = FreshReport(pd, i, basic)
      BY <1>15
    <2>1. CASE j \in 1..Len(retry)
      BY <2>1, <1>5, <1>6, <1>13
    <2>2. CASE j \notin 1..Len(retry)
      <3>1. j - Len(retry) \in 1..n /\ j = Len(retry) + (j - Len(retry))
        BY <2>2, <1>6, <1>11
      <3> QED
        BY <3>1, <1>14
    <2> QED
      BY <2>1, <2>2
  <1> QED
    <2>1. reports # <<>>
      BY <1>12, <1>6, <1>11
    <2>2. \A i \in 1..n : i \in Nat
      OBVIOUS
    <2> QED
      BY <2>1, <2>2, <1>9, <1>12, <1>16, <1>17, <1>18, <1>19 DEF R

\* Preparing reports leases every result that waited, and each one is in a report.
LEMMA PreparedReportsCover ==
    ASSUME NEW pd, QueueType(pd), TypeOK, basicPending' \in BOOLEAN, basicRevision' \in Nat,
           NEW reports \in PreparedReports(pd), NEW n \in Nat, NEW H \in SUBSET Reports,
           Covers(pd, n, H \cup retryQueue),
           \A t \in Tasks : pd[t] # NoResult => pd[t].seq <= n
    PROVE  /\ QueueType(Lease(pd))
           /\ Covers(Lease(pd), n, H \cup Range(reports))
           /\ \A t \in Tasks : Lease(pd)[t] # NoResult => Lease(pd)[t].seq <= n
  <1> DEFINE R == Retained(pd, basicRevision, basicPending, retryQueue)
             ld == Lease(pd)
  <1>1. \A t \in Tasks : /\ pd[t] = NoResult => ld[t] = NoResult
                         /\ pd[t] # NoResult => /\ ld[t] \in Queued
                                                /\ ld[t].seq = pd[t].seq
                                                /\ ld[t].cfg = pd[t].cfg
                                                /\ ld[t] # NoResult
    BY NoResultAssumption DEF Lease, QueueType, Queued
  <1>2. QueueType(ld)
    BY <1>1 DEF QueueType, Lease
  <1>3. \A r \in R : \E r0 \in retryQueue : SameProbes(pd, r0, r)
    BY RetainedKeeps DEF TypeOK, QueueTypeOK
  <1>4. \A r0 \in retryQueue : \E r1 \in Reports : SameProbes(pd, r0, r1) /\ (HasResult(r1) => r1 \in R)
    BY RetainedKeeps DEF TypeOK, QueueTypeOK
  <1>5. R \subseteq Reports /\ retryQueue \subseteq Reports
    BY RetainedType DEF TypeOK, QueueTypeOK
  <1>6. Covers(pd, n, H \cup R)
    <2> DEFINE H0 == H \cup retryQueue
               H1 == H \cup R
    <2>1. \A r \in H : r \in Reports /\ SameProbes(pd, r, r)
      BY DEF SameProbes
    <2>2. H0 \in SUBSET Reports /\ H1 \in SUBSET Reports
      BY <1>5
    <2>3. \A r1 \in H1 : \E r0 \in H0 : SameProbes(pd, r0, r1)
      BY <1>3, <2>1
    <2>4. \A r0 \in H0 : \E r1 \in Reports : SameProbes(pd, r0, r1) /\ (HasResult(r1) => r1 \in H1)
      BY <1>4, <2>1
    <2> QED
      BY <2>2, <2>3, <2>4, RefreshedReportsCover
  <1>7. /\ \A r \in R : r \in Range(reports)
        /\ \A t \in Unleased(pd, Tasks) : \E basic \in Nat :
             FreshReport(pd, ReportIndex(pd, t), basic) \in Range(reports)
        /\ \A r \in Range(reports) : r \in R \/ \E i, basic \in Nat : r = FreshReport(pd, i, basic)
    BY PreparedReportsAre
  <1> HIDE DEF R, ld
  <1>8. ASSUME NEW t \in Tasks, ld[t] # NoResult, ld[t].leased
        PROVE  \E r \in H \cup Range(reports) : <<t, ld[t].seq, ld[t].cfg>> \in r.results
    <2>1. CASE pd[t].leased
      <3>1. \E r \in H \cup R : <<t, pd[t].seq, pd[t].cfg>> \in r.results
        BY <1>1, <1>6, <1>8, <2>1 DEF Covers
      <3> QED
        BY <1>1, <1>7, <1>8, <3>1
    <2>2. CASE ~pd[t].leased
      <3>1. t \in Unleased(pd, Tasks)
        BY <1>1, <1>8, <2>2 DEF Unleased
      <3>2. PICK basic \in Nat : FreshReport(pd, ReportIndex(pd, t), basic) \in Range(reports)
        BY <1>7, <3>1
      <3>3. <<t, pd[t].seq, pd[t].cfg>> \in FreshReport(pd, ReportIndex(pd, t), basic).results
        BY <3>1 DEF FreshReport
      <3> QED
        BY <1>1, <1>8, <3>2, <3>3
    <2> QED
      BY <2>1, <2>2
  <1>9. ASSUME NEW r \in H \cup Range(reports)
        PROVE  /\ \A t \in Tasks : ld[t] # NoResult /\ <<t, ld[t].seq>> \in r.leases =>
                    <<t, ld[t].seq, ld[t].cfg>> \in r.results
               /\ \A x \in r.results : <<x[1], x[2]>> \in r.leases
               /\ \A t \in Tasks, c \in Configs : ld[t] # NoResult /\ <<t, ld[t].seq, c>> \in r.results =>
                    c = ld[t].cfg
               /\ \A l \in r.leases : l[2] <= n
    <2>1. CASE r \in H \cup R
      <3>1. /\ \A t \in Tasks : pd[t] # NoResult /\ <<t, pd[t].seq>> \in r.leases =>
                    <<t, pd[t].seq, pd[t].cfg>> \in r.results
            /\ \A x \in r.results : <<x[1], x[2]>> \in r.leases
            /\ \A t \in Tasks, c \in Configs : pd[t] # NoResult /\ <<t, pd[t].seq, c>> \in r.results =>
                 c = pd[t].cfg
            /\ \A l \in r.leases : l[2] <= n
        BY <1>6, <2>1 DEF Covers
      <3> QED
        BY <1>1, <3>1
    <2>2. CASE \E i, basic \in Nat : r = FreshReport(pd, i, basic)
      <3>1. PICK i, basic \in Nat : r = FreshReport(pd, i, basic)
        BY <2>2
      <3> DEFINE U == {t \in Unleased(pd, Tasks) : ReportIndex(pd, t) = i}
      <3>2. r.leases = {<<t, pd[t].seq>> : t \in U} /\ r.results = {<<t, pd[t].seq, pd[t].cfg>> : t \in U}
        BY <3>1 DEF FreshReport
      <3>3. \A t \in U : t \in Tasks /\ pd[t] # NoResult
        BY DEF Unleased
      <3> HIDE DEF U
      <3>4. \A t \in Tasks : ld[t] # NoResult /\ <<t, ld[t].seq>> \in r.leases =>
               <<t, ld[t].seq, ld[t].cfg>> \in r.results
        BY <1>1, <3>2, <3>3
      <3>5. \A t \in Tasks, c \in Configs : ld[t] # NoResult /\ <<t, ld[t].seq, c>> \in r.results =>
               c = ld[t].cfg
        BY <1>1, <3>2, <3>3
      <3> QED
        BY <3>2, <3>3, <3>4, <3>5
    <2> QED
      BY <1>7, <2>1, <2>2
  <1>10. Covers(ld, n, H \cup Range(reports))
    BY <1>8, <1>9 DEF Covers
  <1>11. \A t \in Tasks : ld[t] # NoResult => ld[t].seq <= n
    BY <1>1
  <1> QED
    BY <1>2, <1>10, <1>11 DEF ld

-----------------------------------------------------------------------------
(* flush *)

\* The part of the invariant about messages, for a session that holds inf in flight
\* and chan acknowledgements in its channel.
Messaging(inf, chan) ==
    /\ \A i, j \in LiveMessages : i = j
    /\ \A i \in LiveMessages : wire[i].batch = inf /\ chan = 0 /\ ackWire = 0
    /\ chan + ackWire <= 1
    /\ chan + ackWire = 1 \/ LiveMessages # {} => inf # <<>>
    /\ chan + ackWire = 1 =>
         \A i \in DOMAIN inf :
             /\ \A x \in inf[i].results : <<x[1], x[2]>> \in accepted
             /\ inf[i].basic # 0 => inf[i].basic \in acceptedBasic

SessionType ==
    /\ connected \in BOOLEAN
    /\ pending \in Seq(Reports)
    /\ inFlight \in Seq(Reports)
    /\ uploadReady \in BOOLEAN
    /\ ackDeadline \in BOOLEAN
    /\ acks \in 0..1
    /\ ackWire \in Nat
    /\ wire \in Seq(Messages)
    /\ faults \in 0..MaxFaults

\* An envelope and what is left after it are the reports that waited.
Splits(pd, rev, bp, pnd, envelope) ==
    /\ envelope \in Seq(Reports)
    /\ envelope # <<>>
    /\ Rest(pnd) \in Seq(Reports)
    /\ \A r \in Range(pnd) :
         r \in Range(Rest(pnd)) \/ CurrentReport(pd, rev, bp, r) \in Range(envelope)
    /\ \A r \in Range(Rest(pnd)) : r \in Range(pnd)
    /\ \A r \in Range(envelope) : \E r0 \in Range(pnd) : r = CurrentReport(pd, rev, bp, r0)

\* flush cuts its pending list into the envelope and the rest.
LEMMA EnvelopeSplits ==
    ASSUME NEW pd, NEW rev \in Nat, NEW bp \in BOOLEAN, NEW pnd \in Seq(Reports), pnd # <<>>
    PROVE  Splits(pd, rev, bp, pnd, Envelope(pd, rev, bp, pnd))
  <1> DEFINE k == EnvelopeLen(pnd)
             s == SubSeq(pnd, 1, k)
             e == Envelope(pd, rev, bp, pnd)
  <1>1. /\ Len(pnd) \in Nat \ {0}
        /\ DOMAIN pnd = 1..Len(pnd)
        /\ \A i \in 1..Len(pnd) : pnd[i] \in Reports
    BY EmptySeq, LenProperties, ElementOfSeq
  <1>2. k \in 1..Len(pnd)
    BY <1>1, EnvelopeAssumption DEF EnvelopeLen
  <1>3. s \in Seq(Reports) /\ Len(s) = k /\ \A i \in 1..k : s[i] = pnd[i]
    <2>1. 1 \in Int /\ k \in Int /\ 1 <= k /\ (k - 1) + 1 = k /\ \A i \in 1..k : pnd[i] \in Reports
      BY <1>1, <1>2
    <2>2. \A i \in 1..k : (1 + i) - 1 = i
      OBVIOUS
    <2> HIDE DEF k
    <2> QED
      BY <2>1, <2>2, SubSeqProperties
  <1>4. e = [i \in 1..k |-> CurrentReport(pd, rev, bp, pnd[i])]
    BY <1>3 DEF Envelope, CurrentReports
  <1>5. \A i \in 1..k : CurrentReport(pd, rev, bp, pnd[i]) \in Reports
    BY <1>1, <1>2, CurrentReportKeeps
  <1>6. e \in Seq(Reports) /\ Len(e) = k /\ DOMAIN e = 1..k
    <2> HIDE DEF e, k
    <2> QED
      BY <1>2, <1>4, <1>5
  <1>7. /\ Rest(pnd) \in Seq(Reports)
        /\ Len(Rest(pnd)) = Len(pnd) - k
        /\ \A i \in 1..(Len(pnd) - k) : Rest(pnd)[i] = pnd[k + i]
    <2>1. k + 1 \in Int /\ Len(pnd) \in Int /\ \A i \in (k + 1)..Len(pnd) : pnd[i] \in Reports
      BY <1>1, <1>2
    <2>2. Len(pnd) - (k + 1) + 1 = Len(pnd) - k /\ \A i \in 1..(Len(pnd) - k) : (k + 1) + i - 1 = k + i
      BY <1>1, <1>2
    <2>3. k + 1 <= Len(pnd) \/ Len(pnd) - k = 0
      BY <1>1, <1>2
    <2>4. /\ SubSeq(pnd, k + 1, Len(pnd)) \in Seq(Reports)
          /\ Len(SubSeq(pnd, k + 1, Len(pnd))) = IF k + 1 <= Len(pnd) THEN Len(pnd) - (k + 1) + 1 ELSE 0
          /\ \A i \in 1..(Len(pnd) - (k + 1) + 1) : SubSeq(pnd, k + 1, Len(pnd))[i] = pnd[(k + 1) + i - 1]
      <3> HIDE DEF k
      <3> QED
        BY <2>1, SubSeqProperties
    <2> HIDE DEF k
    <2> QED
      BY <2>2, <2>3, <2>4 DEF Rest, k
  <1>8. DOMAIN Rest(pnd) = 1..(Len(pnd) - k)
    BY <1>7, LenProperties
  <1> HIDE DEF k, s, e
  <1>9. ASSUME NEW i \in 1..Len(pnd)
        PROVE  pnd[i] \in Range(Rest(pnd)) \/ CurrentReport(pd, rev, bp, pnd[i]) \in Range(e)
    <2>1. CASE i \in 1..k
      BY <1>4, <1>6, <2>1 DEF Range
    <2>2. CASE i \notin 1..k
      <3>1. i - k \in 1..(Len(pnd) - k) /\ k + (i - k) = i
        BY <1>1, <1>2, <2>2
      <3> QED
        BY <1>7, <1>8, <3>1 DEF Range
    <2> QED
      BY <2>1, <2>2
  <1>10. ASSUME NEW i \in 1..(Len(pnd) - k) PROVE Rest(pnd)[i] \in Range(pnd)
    <2>1. k + i \in 1..Len(pnd)
      BY <1>1, <1>2
    <2> QED
      BY <1>1, <1>7, <2>1 DEF Range
  <1>11. ASSUME NEW i \in 1..k PROVE pnd[i] \in Range(pnd) /\ e[i] = CurrentReport(pd, rev, bp, pnd[i])
    BY <1>1, <1>2, <1>4 DEF Range
  <1>12. e # <<>>
    BY <1>2, <1>6
  <1>13. \A r \in Range(pnd) : r \in Range(Rest(pnd)) \/ CurrentReport(pd, rev, bp, r) \in Range(e)
    BY <1>1, <1>9 DEF Range
  <1>14. \A r \in Range(Rest(pnd)) : r \in Range(pnd)
    BY <1>8, <1>10 DEF Range
  <1>15. \A r \in Range(e) : \E r0 \in Range(pnd) : r = CurrentReport(pd, rev, bp, r0)
    BY <1>6, <1>11 DEF Range
  <1> QED
    BY <1>6, <1>7, <1>12, <1>13, <1>14, <1>15 DEF e, Splits

\* Cutting an envelope off the pending list forgets no leased result.
LEMMA EnvelopeCovers ==
    ASSUME NEW pd, QueueType(pd), NEW rev \in Nat, NEW bp \in BOOLEAN, NEW n,
           NEW pnd \in Seq(Reports), pnd # <<>>, NEW kept \in SUBSET Reports,
           Covers(pd, n, Range(pnd) \cup kept)
    PROVE  Covers(pd, n, Range(Rest(pnd)) \cup Range(Envelope(pd, rev, bp, pnd)) \cup kept)
  <1> DEFINE batch == Envelope(pd, rev, bp, pnd)
             H0 == Range(pnd) \cup kept
             H1 == Range(Rest(pnd)) \cup Range(batch) \cup kept
  <1>1. Splits(pd, rev, bp, pnd, batch)
    BY EnvelopeSplits
  <1> HIDE DEF batch
  <1>2. /\ batch \in Seq(Reports)
        /\ Rest(pnd) \in Seq(Reports)
        /\ \A r \in Range(pnd) :
             r \in Range(Rest(pnd)) \/ CurrentReport(pd, rev, bp, r) \in Range(batch)
        /\ \A r \in Range(Rest(pnd)) : r \in Range(pnd)
        /\ \A r \in Range(batch) : \E r0 \in Range(pnd) : r = CurrentReport(pd, rev, bp, r0)
    BY <1>1 DEF Splits
  <1>3. H0 \in SUBSET Reports /\ H1 \in SUBSET Reports
    BY <1>2, SeqRangeType
  <1>4. \A r \in H0 \cup H1 : SameProbes(pd, r, r)
    BY DEF SameProbes
  <1>5. \A r \in Range(pnd) : /\ CurrentReport(pd, rev, bp, r) \in Reports
                              /\ SameProbes(pd, r, CurrentReport(pd, rev, bp, r))
    BY <1>3, CurrentReportKeeps
  <1>6. \A r1 \in H1 : \E r0 \in H0 : SameProbes(pd, r0, r1)
    BY <1>2, <1>4, <1>5
  <1>7. \A r0 \in H0 : \E r1 \in Reports : SameProbes(pd, r0, r1) /\ (HasResult(r1) => r1 \in H1)
    BY <1>2, <1>3, <1>4, <1>5
  <1>8. Covers(pd, n, H1)
    BY <1>3, <1>6, <1>7, RefreshedReportsCover
  <1> QED
    BY <1>8 DEF batch

\* A flush that sends, or has nothing to send.
LEMMA FlushStep ==
    ASSUME NEW kept \in SUBSET Reports, NEW pnd \in Seq(Reports), NEW inf \in Seq(Reports),
           NEW ready \in BOOLEAN, NEW deadline \in BOOLEAN, NEW chan \in 0..1, NEW n \in Nat,
           SessionType, QueueType(pend'), basicRevision' \in Nat, basicPending' \in BOOLEAN,
           Covers(pend', n, Range(pnd) \cup Range(inf) \cup kept),
           Messaging(inf, chan), accepted' = accepted, acceptedBasic' = acceptedBasic,
           Flush(pnd, inf, ready, deadline, chan), retryQueue' = kept
    PROVE  /\ SessionType'
           /\ Covers(pend', n, Held')
           /\ Messaging(inFlight, acks)'
           /\ connected'
  <1>1. CASE ~WouldSend(pnd, inf, ready)
    <2>1. /\ connected' = TRUE /\ inFlight' = inf /\ pending' = pnd /\ uploadReady' = ready
          /\ acks' = chan /\ ackDeadline' = deadline /\ wire' = wire
          /\ ackWire' = ackWire /\ faults' = faults
      BY <1>1 DEF Flush
    <2>2. SessionType'
      BY <2>1 DEF SessionType
    <2>3. Covers(pend', n, Held')
      BY <2>1 DEF Held
    <2>4. Messaging(inFlight, acks)'
      BY <2>1 DEF Messaging, LiveMessages
    <2> QED
      BY <2>1, <2>2, <2>3, <2>4
  <1>2. CASE WouldSend(pnd, inf, ready)
    <2> DEFINE batch == Envelope(pend', basicRevision', basicPending', pnd)
               msg == [live |-> TRUE, batch |-> batch]
    <2>1. /\ connected' = TRUE /\ inFlight' = batch /\ pending' = Rest(pnd)
          /\ uploadReady' = (Rest(pnd) # <<>>)
          /\ acks' = 0 /\ ackDeadline' = TRUE /\ wire' = Append(wire, msg)
          /\ ackWire' = ackWire /\ faults' = faults
      BY <1>2 DEF Flush
    <2>2. ready /\ inf = <<>> /\ pnd # <<>>
      BY <1>2 DEF WouldSend
    <2>a. Splits(pend', basicRevision', basicPending', pnd, batch)
      BY <2>2, EnvelopeSplits
    <2> HIDE DEF batch
    <2>3. /\ batch \in Seq(Reports)
          /\ batch # <<>>
          /\ Rest(pnd) \in Seq(Reports)
          /\ \A r \in Range(pnd) :
               r \in Range(Rest(pnd)) \/ CurrentReport(pend', basicRevision', basicPending', r) \in Range(batch)
          /\ \A r \in Range(Rest(pnd)) : r \in Range(pnd)
          /\ \A r \in Range(batch) : \E r0 \in Range(pnd) :
               r = CurrentReport(pend', basicRevision', basicPending', r0)
      BY <2>a DEF Splits
    <2>4. msg \in Messages
      BY <2>3 DEF Messages
    <2>5. /\ wire' \in Seq(Messages)
          /\ Len(wire) \in Nat
          /\ DOMAIN wire = 1..Len(wire)
          /\ DOMAIN wire' = 1..(Len(wire) + 1)
          /\ \A i \in 1..Len(wire) : wire'[i] = wire[i]
          /\ wire'[Len(wire) + 1] = msg
      BY <2>1, <2>4 DEF SessionType
    <2>6. SessionType'
      BY <2>1, <2>3, <2>5 DEF SessionType
    <2>7. Covers(pend', n, Held')
      <3>1. Range(inf) = {}
        BY <2>2 DEF Range
      <3>2. Covers(pend', n, Range(Rest(pnd)) \cup Range(batch) \cup kept)
        BY <2>2, <3>1, EnvelopeCovers DEF batch
      <3> QED
        BY <2>1, <3>2 DEF Held
    <2>8. chan + ackWire = 0 /\ LiveMessages = {}
      BY <2>2 DEF Messaging, SessionType
    <2>9. LiveMessages' = {Len(wire) + 1}
      BY <2>5, <2>8 DEF LiveMessages
    <2>10. ackWire = 0
      BY <2>8 DEF SessionType
    <2>11. Messaging(inFlight, acks)'
      BY <2>1, <2>3, <2>5, <2>9, <2>10 DEF Messaging
    <2> QED
      BY <2>1, <2>6, <2>7, <2>11
  <1> QED
    BY <1>1, <1>2

\* The end of a session hands every leased result to the retry queue.
LEMMA EndSessionStep ==
    ASSUME NEW pd, QueueType(pd), NEW rev \in Nat, NEW bp \in BOOLEAN, NEW n \in Nat,
           NEW kept \in SUBSET Reports, IsFiniteSet(kept), NEW msgs \in Seq(Messages),
           NEW pnd \in Seq(Reports), NEW inf \in Seq(Reports), faults' \in 0..MaxFaults,
           Covers(pd, n, Range(pnd) \cup Range(inf) \cup kept),
           EndSession(pd, rev, bp, kept, msgs, pnd, inf)
    PROVE  /\ SessionType'
           /\ retryQueue' \subseteq Reports /\ IsFiniteSet(retryQueue')
           /\ Covers(pd, n, Held')
           /\ Messaging(inFlight, acks)'
           /\ ~connected' /\ pending' = <<>> /\ inFlight' = <<>>
  <1> DEFINE R == Range(inf) \cup Range(pnd)
             K == Retained(pd, rev, bp, R)
  <1>1. /\ connected' = FALSE /\ retryQueue' = kept \cup K /\ pending' = <<>> /\ inFlight' = <<>>
        /\ uploadReady' = FALSE /\ ackDeadline' = FALSE /\ acks' = 0 /\ ackWire' = 0
        /\ wire' = [i \in 1..Len(msgs) |-> [msgs[i] EXCEPT !.live = FALSE]]
    BY DEF EndSession
  <1>2. R \in SUBSET Reports /\ IsFiniteSet(R)
    BY SeqRangeType, FS_Union
  <1> HIDE DEF R
  <1>3. K \subseteq Reports /\ IsFiniteSet(K)
    BY <1>2, RetainedType
  <1>4. retryQueue' \subseteq Reports /\ IsFiniteSet(retryQueue')
    BY <1>1, <1>3, FS_Union
  <1>5. \A i \in 1..Len(msgs) : msgs[i] \in Messages
    BY ElementOfSeq
  <1>6. \A i \in 1..Len(msgs) : [msgs[i] EXCEPT !.live = FALSE] \in Messages /\ ~[msgs[i] EXCEPT !.live = FALSE].live
    BY <1>5 DEF Messages
  <1>7. wire' \in Seq(Messages) /\ DOMAIN wire' = 1..Len(msgs)
    BY <1>1, <1>6, LenProperties
  <1>8. LiveMessages' = {}
    BY <1>1, <1>6, <1>7 DEF LiveMessages
  <1>9. SessionType'
    <2>1. pending' \in Seq(Reports) /\ inFlight' \in Seq(Reports)
      BY <1>1, EmptySeq
    <2>2. acks' \in 0..1 /\ ackWire' \in Nat
      BY <1>1
    <2>3. connected' \in BOOLEAN /\ uploadReady' \in BOOLEAN /\ ackDeadline' \in BOOLEAN
      BY <1>1
    <2> QED
      BY <1>7, <2>1, <2>2, <2>3 DEF SessionType
  <1>10. Messaging(inFlight, acks)'
    BY <1>1, <1>8 DEF Messaging
  <1>11. Covers(pd, n, Held')
    <2> DEFINE H0 == R \cup kept
               H1 == K \cup kept
    <2>1. H0 \in SUBSET Reports /\ H1 \in SUBSET Reports
      BY <1>2, <1>3
    <2>2. Covers(pd, n, H0)
      <3>1. H0 = Range(pnd) \cup Range(inf) \cup kept
        BY DEF R
      <3> QED
        BY <3>1
    <2>3. \A r \in kept : r \in Reports /\ SameProbes(pd, r, r)
      BY DEF SameProbes
    <2>4. /\ \A r1 \in K : \E r0 \in R : SameProbes(pd, r0, r1)
          /\ \A r0 \in R : \E r1 \in Reports : SameProbes(pd, r0, r1) /\ (HasResult(r1) => r1 \in K)
      BY <1>2, RetainedKeeps
    <2> HIDE DEF K
    <2>5. \A r1 \in H1 : \E r0 \in H0 : SameProbes(pd, r0, r1)
      BY <2>3, <2>4
    <2>6. \A r0 \in H0 : \E r1 \in Reports : SameProbes(pd, r0, r1) /\ (HasResult(r1) => r1 \in H1)
      BY <2>3, <2>4
    <2>7. Covers(pd, n, H1)
      BY <2>1, <2>2, <2>5, <2>6, RefreshedReportsCover
    <2>8. Held' = H1
      BY <1>1 DEF Held, Range
    <2> QED
      BY <2>7, <2>8
  <1> QED
    BY <1>1, <1>4, <1>9, <1>10, <1>11

\* The end of every handler that may send.
LEMMA FlushOrFailStep ==
    ASSUME NEW kept \in SUBSET Reports, IsFiniteSet(kept),
           NEW pnd \in Seq(Reports), NEW inf \in Seq(Reports),
           NEW ready \in BOOLEAN, NEW deadline \in BOOLEAN, NEW chan \in 0..1, NEW n \in Nat,
           SessionType, QueueType(pend'), basicRevision' \in Nat, basicPending' \in BOOLEAN,
           Covers(pend', n, Range(pnd) \cup Range(inf) \cup kept),
           Messaging(inf, chan), accepted' = accepted, acceptedBasic' = acceptedBasic,
           FlushOrFail(kept, pnd, inf, ready, deadline, chan)
    PROVE  /\ SessionType'
           /\ retryQueue' \subseteq Reports /\ IsFiniteSet(retryQueue')
           /\ Covers(pend', n, Held')
           /\ Messaging(inFlight, acks)'
           /\ ~connected' => pending' = <<>> /\ inFlight' = <<>>
  <1>1. CASE Flush(pnd, inf, ready, deadline, chan) /\ retryQueue' = kept
    BY <1>1, FlushStep
  <1>2. CASE FlushFails(kept, pnd, inf, ready)
    <2> DEFINE batch == Envelope(pend', basicRevision', basicPending', pnd)
    <2>1. ready /\ inf = <<>> /\ pnd # <<>>
      BY <1>2 DEF FlushFails, WouldSend
    <2>2. faults' \in 0..MaxFaults
      BY <1>2, WsBoundAssumption DEF FlushFails, SessionType
    <2>3. PICK msgs \in {wire, Append(wire, [live |-> TRUE, batch |-> batch])} :
            EndSession(pend', basicRevision', basicPending', kept, msgs, Rest(pnd), batch)
      BY <1>2 DEF FlushFails
    <2>4. Splits(pend', basicRevision', basicPending', pnd, batch)
      BY <2>1, EnvelopeSplits
    <2>5. Range(inf) = {}
      BY <2>1 DEF Range
    <2>6. Covers(pend', n, Range(Rest(pnd)) \cup Range(batch) \cup kept)
      BY <2>1, <2>5, EnvelopeCovers
    <2> HIDE DEF batch
    <2>7. batch \in Seq(Reports) /\ Rest(pnd) \in Seq(Reports)
      BY <2>4 DEF Splits
    <2>8. msgs \in Seq(Messages)
      <3>1. [live |-> TRUE, batch |-> batch] \in Messages
        BY <2>7 DEF Messages
      <3>2. wire \in Seq(Messages)
        BY DEF SessionType
      <3>3. Append(wire, [live |-> TRUE, batch |-> batch]) \in Seq(Messages)
        BY <3>1, <3>2
      <3> QED
        BY <3>2, <3>3
    <2> QED
      BY <2>2, <2>3, <2>6, <2>7, <2>8, EndSessionStep
  <1> QED
    BY <1>1, <1>2 DEF FlushOrFail

-----------------------------------------------------------------------------
(* The invariant, in the parts that the lemmas above are about *)

Idle == pending = <<>> /\ inFlight = <<>>

Parts ==
    /\ TypeOK
    /\ ResultsAreCurrent
    /\ SequencesAreGivenOut
    /\ Covers(pend, nextResultID, Held)
    /\ Messaging(inFlight, acks)
    /\ ~connected => Idle

\* The parts proved separately below are the inductive invariant.
LEMMA PartsAreIndInv == Parts <=> IndInv
  BY DEF Parts, IndInv, Covers, Messaging, Idle, LeasedResultsAreHeld, LeasesMatchResults,
         OneMessageUnderWay, AnswersAreTrue, TypeOK

\* The invariant holds when the agent starts.
LEMMA InitParts == Init => Parts
  <1> SUFFICES ASSUME Init PROVE Parts
    OBVIOUS
  <1> USE DEF Init, QueueInit
  <1>1. TypeOK
    <2>1. basicPending \in BOOLEAN /\ connected \in BOOLEAN /\ uploadReady \in BOOLEAN
          /\ eager \in BOOLEAN /\ ackDeadline \in BOOLEAN
      OBVIOUS
    <2>2. /\ nextResultID \in Nat /\ basicRevision \in Nat /\ policyCount \in 0..MaxPolicies
          /\ acks \in 0..1 /\ ackWire \in Nat /\ faults \in 0..MaxFaults
      BY BoundAssumption, WsBoundAssumption
    <2>3. /\ config \in [Tasks -> Configs \cup {NoTask}]
          /\ running \in [Tasks -> Runs]
          /\ pend \in [Tasks -> Queued \cup {NoResult}]
      BY DEF Runs
    <2>4. /\ retryQueue \subseteq Reports /\ IsFiniteSet(retryQueue)
          /\ accepted \subseteq Tasks \X Seqs /\ acceptedBasic \subseteq Nat
      BY FS_EmptySet
    <2>5. pending \in Seq(Reports) /\ inFlight \in Seq(Reports) /\ wire \in Seq(Messages)
      BY EmptySeq
    <2>6. QueueTypeOK
      BY <2>1, <2>2, <2>3, <2>4 DEF QueueTypeOK
    <2> QED
      BY <2>1, <2>2, <2>5, <2>6 DEF TypeOK
  <1>2. ResultsAreCurrent
    BY TasksAssumption DEF ResultsAreCurrent
  <1>3. SequencesAreGivenOut
    BY DEF SequencesAreGivenOut
  <1>4. Held = {}
    BY DEF Held, Range
  <1>5. Covers(pend, nextResultID, Held)
    BY <1>4 DEF Covers
  <1>6. LiveMessages = {}
    BY DEF LiveMessages
  <1>7. Messaging(inFlight, acks)
    BY <1>6 DEF Messaging
  <1> QED
    BY <1>1, <1>2, <1>3, <1>5, <1>7 DEF Parts, Idle

\* prepareReportsWithPing leaves the queue and its reports as the invariant wants them.
LEMMA PreparedStep ==
    ASSUME TypeOK, NEW pd, QueueType(pd), Covers(pd, nextResultID, Held),
           \A t \in Tasks : pd[t] # NoResult => pd[t].seq <= nextResultID,
           PrepareReports(pd), NEW reports \in PreparedReports(pd)
    PROVE  /\ QueueType(pend')
           /\ basicRevision' \in Nat /\ basicPending' \in BOOLEAN
           /\ reports \in Seq(Reports) /\ pending \o reports \in Seq(Reports)
           /\ Covers(pend', nextResultID, Range(pending \o reports) \cup Range(inFlight) \cup {})
           /\ \A t \in Tasks : pend'[t] # NoResult =>
                pd[t] # NoResult /\ pend'[t].seq = pd[t].seq /\ pend'[t].cfg = pd[t].cfg
  <1>1. basicRevision' \in Nat /\ basicPending' \in BOOLEAN
    <2>1. basicRevision' \in Nat
      BY DEF PrepareReports, RefreshBasicInfo, TypeOK, QueueTypeOK
    <2>2. basicPending' \in BOOLEAN
      BY DEF PrepareReports, RefreshBasicInfo, TypeOK, QueueTypeOK
    <2> QED
      BY <2>1, <2>2
  <1>2. pend' = Lease(pd)
    BY DEF PrepareReports
  <1> DEFINE H == Range(pending) \cup Range(inFlight)
  <1>3. H \in SUBSET Reports
    BY SeqRangeType DEF TypeOK
  <1>4. Covers(pd, nextResultID, H \cup retryQueue)
    BY DEF Held
  <1>5. nextResultID \in Nat
    BY DEF TypeOK, QueueTypeOK
  <1> HIDE DEF H
  <1>6. QueueType(pend') /\ Covers(pend', nextResultID, H \cup Range(reports))
    BY <1>1, <1>2, <1>3, <1>4, <1>5, PreparedReportsCover
  <1>7. reports \in Seq(Reports)
    BY <1>1, PreparedReportsAre
  <1>8. pending \in Seq(Reports)
    BY DEF TypeOK
  <1>9. pending \o reports \in Seq(Reports) /\ Range(pending \o reports) = Range(pending) \cup Range(reports)
    BY <1>7, <1>8, ConcatProperties, RangeConcatenation
  <1>10. H \cup Range(reports) = Range(pending \o reports) \cup Range(inFlight) \cup {}
    BY <1>9 DEF H
  <1>11. \A t \in Tasks : pend'[t] # NoResult =>
           pd[t] # NoResult /\ pend'[t].seq = pd[t].seq /\ pend'[t].cfg = pd[t].cfg
    BY <1>2 DEF Lease, QueueType, Queued
  <1> QED
    BY <1>1, <1>6, <1>7, <1>9, <1>10, <1>11

\* A new session keeps the invariant.
LEMMA ConnectStep == Parts /\ Connect => Parts'
  <1> SUFFICES ASSUME Parts, Connect PROVE Parts'
    OBVIOUS
  <1>1. PICK reports \in PreparedReports(pend) : FlushOrFail({}, reports, <<>>, TRUE, FALSE, 0)
    BY DEF Connect
  <1>2. /\ ~connected /\ PrepareReports(pend) /\ eager' = TRUE
        /\ UNCHANGED <<config, running, nextResultID, policyCount, accepted, acceptedBasic>>
    BY DEF Connect, historyVars
  <1>3. TypeOK /\ SessionType /\ Messaging(inFlight, acks) /\ Covers(pend, nextResultID, Held)
    BY DEF Parts, TypeOK, SessionType
  <1>4. pending = <<>> /\ inFlight = <<>>
    BY <1>2 DEF Parts, Idle
  <1>5. QueueType(pend) /\ nextResultID \in Nat
    BY <1>3 DEF QueueType, TypeOK, QueueTypeOK
  <1>6. \A t \in Tasks : pend[t] # NoResult => pend[t].seq <= nextResultID
    BY DEF Parts, SequencesAreGivenOut
  <1>7. /\ QueueType(pend')
        /\ basicRevision' \in Nat /\ basicPending' \in BOOLEAN
        /\ reports \in Seq(Reports) /\ pending \o reports \in Seq(Reports)
        /\ Covers(pend', nextResultID, Range(pending \o reports) \cup Range(inFlight) \cup {})
        /\ \A t \in Tasks : pend'[t] # NoResult =>
             pend[t] # NoResult /\ pend'[t].seq = pend[t].seq /\ pend'[t].cfg = pend[t].cfg
    BY <1>2, <1>3, <1>5, <1>6, PreparedStep
  <1>8. pending \o reports = reports
    BY <1>4, <1>7, ConcatEmptySeq
  <1>9. Covers(pend', nextResultID, Range(reports) \cup Range(<<>>) \cup {})
    BY <1>4, <1>7, <1>8
  <1>10. Messaging(<<>>, 0)
    BY <1>3, <1>4 DEF Messaging, SessionType
  <1>11. <<>> \in Seq(Reports) /\ IsFiniteSet({}) /\ 0 \in 0..1
    BY EmptySeq, FS_EmptySet
  <1>12. /\ SessionType'
         /\ retryQueue' \subseteq Reports /\ IsFiniteSet(retryQueue')
         /\ Covers(pend', nextResultID, Held')
         /\ Messaging(inFlight, acks)'
         /\ ~connected' => pending' = <<>> /\ inFlight' = <<>>
    BY <1>1, <1>2, <1>3, <1>5, <1>7, <1>9, <1>10, <1>11, FlushOrFailStep
  <1>13. TypeOK'
    BY <1>2, <1>3, <1>7, <1>12 DEF TypeOK, QueueTypeOK, SessionType, QueueType
  <1>14. ResultsAreCurrent'
    BY <1>2, <1>7 DEF ResultsAreCurrent, Parts
  <1>15. SequencesAreGivenOut'
    BY <1>2, <1>6, <1>7 DEF SequencesAreGivenOut
  <1> QED
    BY <1>2, <1>12, <1>13, <1>14, <1>15 DEF Parts, Idle

\* The sampleTimer case keeps the invariant.
LEMMA SampleStep == Parts /\ Sample => Parts'
  <1> SUFFICES ASSUME Parts, Sample PROVE Parts'
    OBVIOUS
  <1>1. PICK reports \in PreparedReports(pend) :
          \/ eager /\ FlushOrFail({}, pending \o reports, inFlight, TRUE, ackDeadline, acks)
          \/ /\ pending' = pending \o reports
             /\ retryQueue' = {}
             /\ UNCHANGED <<connected, inFlight, uploadReady, ackDeadline, acks, netVars, faults>>
    BY DEF Sample
  <1>2. /\ connected /\ PrepareReports(pend)
        /\ UNCHANGED <<config, running, nextResultID, policyCount, accepted, acceptedBasic, eager>>
    BY DEF Sample, historyVars
  <1>3. TypeOK /\ SessionType /\ Messaging(inFlight, acks) /\ Covers(pend, nextResultID, Held)
    BY DEF Parts, TypeOK, SessionType
  <1>4. QueueType(pend) /\ nextResultID \in Nat
    BY <1>3 DEF QueueType, TypeOK, QueueTypeOK
  <1>5. \A t \in Tasks : pend[t] # NoResult => pend[t].seq <= nextResultID
    BY DEF Parts, SequencesAreGivenOut
  <1>6. /\ QueueType(pend')
        /\ basicRevision' \in Nat /\ basicPending' \in BOOLEAN
        /\ pending \o reports \in Seq(Reports)
        /\ Covers(pend', nextResultID, Range(pending \o reports) \cup Range(inFlight) \cup {})
        /\ \A t \in Tasks : pend'[t] # NoResult =>
             pend[t] # NoResult /\ pend'[t].seq = pend[t].seq /\ pend'[t].cfg = pend[t].cfg
    BY <1>2, <1>3, <1>4, <1>5, PreparedStep
  <1>7. /\ SessionType'
        /\ retryQueue' \subseteq Reports /\ IsFiniteSet(retryQueue')
        /\ Covers(pend', nextResultID, Held')
        /\ Messaging(inFlight, acks)'
        /\ ~connected' => pending' = <<>> /\ inFlight' = <<>>
    <2>1. CASE FlushOrFail({}, pending \o reports, inFlight, TRUE, ackDeadline, acks)
      <3>1. inFlight \in Seq(Reports) /\ ackDeadline \in BOOLEAN /\ acks \in 0..1 /\ IsFiniteSet({})
        BY <1>3, FS_EmptySet DEF SessionType
      <3> QED
        BY <1>2, <1>3, <1>4, <1>6, <2>1, <3>1, FlushOrFailStep
    <2>2. CASE /\ pending' = pending \o reports
               /\ retryQueue' = {}
               /\ UNCHANGED <<connected, inFlight, uploadReady, ackDeadline, acks, netVars, faults>>
      <3>1. SessionType'
        BY <1>3, <1>6, <2>2 DEF SessionType, netVars
      <3>2. Messaging(inFlight, acks)'
        BY <1>2, <1>3, <2>2 DEF Messaging, LiveMessages, netVars
      <3>3. Covers(pend', nextResultID, Held')
        BY <1>6, <2>2 DEF Held
      <3> QED
        BY <1>2, <2>2, <3>1, <3>2, <3>3, FS_EmptySet
    <2> QED
      BY <1>1, <2>1, <2>2
  <1>8. TypeOK'
    BY <1>2, <1>3, <1>6, <1>7 DEF TypeOK, QueueTypeOK, SessionType, QueueType
  <1>9. ResultsAreCurrent'
    BY <1>2, <1>6 DEF ResultsAreCurrent, Parts
  <1>10. SequencesAreGivenOut'
    BY <1>2, <1>5, <1>6 DEF SequencesAreGivenOut
  <1> QED
    BY <1>2, <1>7, <1>8, <1>9, <1>10 DEF Parts, Idle

\* The uploadTimer case keeps the invariant.
LEMMA UploadStep == Parts /\ Upload => Parts'
  <1> SUFFICES ASSUME Parts, Upload PROVE Parts'
    OBVIOUS
  <1>1. /\ FlushOrFail(retryQueue, pending, inFlight, pending # <<>>, ackDeadline, acks)
        /\ UNCHANGED <<config, running, pend, nextResultID, basicRevision, basicPending,
                       policyCount, accepted, acceptedBasic, eager>>
    BY DEF Upload, historyVars
  <1>2. TypeOK /\ SessionType /\ Messaging(inFlight, acks) /\ Covers(pend, nextResultID, Held)
    BY DEF Parts, TypeOK, SessionType
  <1>3. /\ QueueType(pend') /\ nextResultID \in Nat
        /\ basicRevision' \in Nat /\ basicPending' \in BOOLEAN
        /\ retryQueue \in SUBSET Reports /\ IsFiniteSet(retryQueue)
    BY <1>1, <1>2 DEF QueueType, TypeOK, QueueTypeOK
  <1>4. /\ pending \in Seq(Reports) /\ inFlight \in Seq(Reports)
        /\ ackDeadline \in BOOLEAN /\ acks \in 0..1
    BY <1>2 DEF SessionType
  <1>5. Covers(pend', nextResultID, Range(pending) \cup Range(inFlight) \cup retryQueue)
    BY <1>1, <1>2 DEF Held
  <1>6. /\ SessionType'
        /\ retryQueue' \subseteq Reports /\ IsFiniteSet(retryQueue')
        /\ Covers(pend', nextResultID, Held')
        /\ Messaging(inFlight, acks)'
        /\ ~connected' => pending' = <<>> /\ inFlight' = <<>>
    BY <1>1, <1>2, <1>3, <1>4, <1>5, FlushOrFailStep
  <1>7. TypeOK'
    BY <1>1, <1>2, <1>6 DEF TypeOK, QueueTypeOK, SessionType, QueueType
  <1>8. ResultsAreCurrent' /\ SequencesAreGivenOut'
    BY <1>1 DEF ResultsAreCurrent, SequencesAreGivenOut, Parts
  <1> QED
    BY <1>1, <1>6, <1>7, <1>8 DEF Parts, Idle

\* An acknowledged batch may be forgotten: what it holds has left the queue.
LEMMA AcknowledgedCovers ==
    ASSUME NEW pd, QueueType(pd), NEW n, NEW batch \in Seq(Reports), NEW H \in SUBSET Reports,
           Covers(pd, n, H \cup Range(batch))
    PROVE  /\ QueueType(Acknowledged(pd, batch))
           /\ Covers(Acknowledged(pd, batch), n, H)
           /\ \A t \in Tasks : Acknowledged(pd, batch)[t] \in {pd[t], NoResult}
  <1> DEFINE ad == Acknowledged(pd, batch)
  <1>1. \A t \in Tasks : ad[t] \in {pd[t], NoResult}
    BY DEF Acknowledged
  <1>2. QueueType(ad)
    BY DEF Acknowledged, QueueType
  <1>3. DOMAIN batch = 1..Len(batch)
    BY LenProperties
  <1>4. ASSUME NEW t \in Tasks, ad[t] # NoResult, ad[t].leased
        PROVE  \E r \in H : <<t, ad[t].seq, ad[t].cfg>> \in r.results
    <2>1. ad[t] = pd[t] /\ pd[t] # NoResult
      BY <1>1, <1>4
    <2>2. \A i \in 1..Len(batch) : <<t, pd[t].seq>> \notin batch[i].leases
      BY <1>4, <2>1 DEF Acknowledged
    <2>3. PICK r \in H \cup Range(batch) : <<t, pd[t].seq, pd[t].cfg>> \in r.results
      BY <1>4, <2>1 DEF Covers
    <2>4. \A x \in r.results : <<x[1], x[2]>> \in r.leases
      BY DEF Covers
    <2>5. <<t, pd[t].seq>> \in r.leases
      BY <2>3, <2>4
    <2>6. r \notin Range(batch)
      BY <1>3, <2>2, <2>5 DEF Range
    <2> QED
      BY <2>1, <2>3, <2>6
  <1>5. ASSUME NEW r \in H
        PROVE  /\ \A t \in Tasks : ad[t] # NoResult /\ <<t, ad[t].seq>> \in r.leases =>
                    <<t, ad[t].seq, ad[t].cfg>> \in r.results
               /\ \A x \in r.results : <<x[1], x[2]>> \in r.leases
               /\ \A t \in Tasks, c \in Configs : ad[t] # NoResult /\ <<t, ad[t].seq, c>> \in r.results =>
                    c = ad[t].cfg
               /\ \A l \in r.leases : l[2] <= n
    <2>1. /\ \A t \in Tasks : pd[t] # NoResult /\ <<t, pd[t].seq>> \in r.leases =>
               <<t, pd[t].seq, pd[t].cfg>> \in r.results
          /\ \A x \in r.results : <<x[1], x[2]>> \in r.leases
          /\ \A t \in Tasks, c \in Configs : pd[t] # NoResult /\ <<t, pd[t].seq, c>> \in r.results =>
               c = pd[t].cfg
          /\ \A l \in r.leases : l[2] <= n
      BY DEF Covers
    <2> HIDE DEF ad
    <2> QED
      BY <1>1, <2>1
  <1> HIDE DEF ad
  <1>6. Covers(ad, n, H)
    BY <1>4, <1>5 DEF Covers
  <1> QED
    BY <1>1, <1>2, <1>6 DEF ad

\* The acks case keeps the invariant.
LEMMA ReceiveAckStep == Parts /\ ReceiveAck => Parts'
  <1> SUFFICES ASSUME Parts, ReceiveAck PROVE Parts'
    OBVIOUS
  <1>1. TypeOK /\ SessionType /\ Messaging(inFlight, acks) /\ Covers(pend, nextResultID, Held)
    BY DEF Parts, TypeOK, SessionType
  <1>2. acks = 1 /\ ackWire \in Nat
    BY <1>1 DEF ReceiveAck, SessionType
  <1>3. inFlight # <<>> /\ ackWire = 0 /\ LiveMessages = {}
    BY <1>1, <1>2 DEF Messaging
  <1>4. /\ pend' = Acknowledged(pend, inFlight)
        /\ basicPending' = (basicPending /\ ~BasicAcknowledged(inFlight))
        /\ FlushOrFail(retryQueue, pending, <<>>, uploadReady, FALSE, 0)
        /\ UNCHANGED <<config, running, nextResultID, basicRevision, policyCount, accepted,
                       acceptedBasic, eager>>
    BY <1>3 DEF ReceiveAck, historyVars
  <1>5. /\ QueueType(pend) /\ nextResultID \in Nat /\ basicRevision' \in Nat
        /\ retryQueue \in SUBSET Reports /\ IsFiniteSet(retryQueue)
    BY <1>1, <1>4 DEF QueueType, TypeOK, QueueTypeOK
  <1>6. basicPending' \in BOOLEAN
    BY <1>4
  <1>7. /\ pending \in Seq(Reports) /\ inFlight \in Seq(Reports) /\ uploadReady \in BOOLEAN
        /\ <<>> \in Seq(Reports) /\ 0 \in 0..1
    BY <1>1, EmptySeq DEF SessionType
  <1> DEFINE H == Range(pending) \cup retryQueue
  <1>8. H \in SUBSET Reports /\ Held = H \cup Range(inFlight)
    BY <1>5, <1>7, SeqRangeType DEF Held
  <1> HIDE DEF H
  <1>9. /\ QueueType(pend') /\ Covers(pend', nextResultID, H)
        /\ \A t \in Tasks : pend'[t] \in {pend[t], NoResult}
    BY <1>1, <1>4, <1>5, <1>7, <1>8, AcknowledgedCovers
  <1>10. Range(<<>>) = {}
    BY DEF Range
  <1>11. Covers(pend', nextResultID, Range(pending) \cup Range(<<>>) \cup retryQueue)
    BY <1>9, <1>10 DEF H
  <1>12. Messaging(<<>>, 0)
    BY <1>3 DEF Messaging
  <1>13. /\ SessionType'
         /\ retryQueue' \subseteq Reports /\ IsFiniteSet(retryQueue')
         /\ Covers(pend', nextResultID, Held')
         /\ Messaging(inFlight, acks)'
         /\ ~connected' => pending' = <<>> /\ inFlight' = <<>>
    BY <1>1, <1>4, <1>5, <1>6, <1>7, <1>9, <1>11, <1>12, FlushOrFailStep
  <1>14. TypeOK'
    BY <1>1, <1>4, <1>5, <1>6, <1>9, <1>13 DEF TypeOK, QueueTypeOK, SessionType, QueueType
  <1>15. ResultsAreCurrent' /\ SequencesAreGivenOut'
    BY <1>4, <1>9 DEF ResultsAreCurrent, SequencesAreGivenOut, Parts
  <1> QED
    BY <1>4, <1>13, <1>14, <1>15 DEF Parts, Idle

\* A policy only takes results away.
LEMMA InvalidatedCovers ==
    ASSUME Parts, NEW new \in Policies
    PROVE  /\ QueueType(Invalidated(new))
           /\ Covers(Invalidated(new), nextResultID, Held)
           /\ \A t \in Tasks : Invalidated(new)[t] # NoResult =>
                Invalidated(new)[t] = pend[t] /\ t \notin Changed(new)
  <1> DEFINE pd == Invalidated(new)
  <1>1. \A t \in Tasks : pd[t] # NoResult => pd[t] = pend[t] /\ t \notin Changed(new)
    BY DEF Invalidated
  <1>2. QueueType(pd)
    BY DEF Invalidated, QueueType, Parts, TypeOK, QueueTypeOK
  <1>3. Covers(pend, nextResultID, Held)
    BY DEF Parts
  <1> HIDE DEF pd
  <1>4. Covers(pd, nextResultID, Held)
    BY <1>1, <1>3 DEF Covers
  <1> QED
    BY <1>1, <1>2, <1>4 DEF pd

\* The types that a policy changes, and what is left of the probes and results.
LEMMA PolicyIsCurrent ==
    ASSUME Parts, NEW new \in Policies, ApplyPolicy(new), QueueType(pend'),
           \A t \in Tasks : pend'[t] # NoResult =>
              Invalidated(new)[t] # NoResult /\ pend'[t].cfg = Invalidated(new)[t].cfg
    PROVE  /\ ResultsAreCurrent'
           /\ config' \in [Tasks -> Configs \cup {NoTask}]
           /\ running' \in [Tasks -> Runs]
           /\ policyCount' \in 0..MaxPolicies
  <1>1. /\ config' = new /\ policyCount < MaxPolicies /\ policyCount' = policyCount + 1
        /\ running' = [t \in Tasks |-> IF t \in Changed(new) /\ running[t] # NoProbe
                                       THEN Cancelled ELSE running[t]]
    BY DEF ApplyPolicy
  <1>2. /\ config \in [Tasks -> Configs \cup {NoTask}] /\ running \in [Tasks -> Runs]
        /\ policyCount \in 0..MaxPolicies
    BY DEF Parts, TypeOK, QueueTypeOK
  <1>3. config' \in [Tasks -> Configs \cup {NoTask}]
    BY <1>1 DEF Policies
  <1>4. running' \in [Tasks -> Runs]
    BY <1>1, <1>2 DEF Runs
  <1>5. policyCount' \in 0..MaxPolicies
    BY <1>1, <1>2, BoundAssumption
  <1>6. \A t \in Tasks : t \notin Changed(new) /\ config[t] # NoTask => new[t] = config[t]
    BY DEF Changed
  <1>7. ASSUME NEW t \in Tasks, pend'[t] # NoResult PROVE pend'[t].cfg = config'[t]
    <2>1. Invalidated(new)[t] = pend[t] /\ t \notin Changed(new) /\ pend[t] # NoResult
      BY <1>7, InvalidatedCovers
    <2>2. pend[t].cfg = config[t] /\ pend[t].cfg \in Configs
      BY <2>1 DEF Parts, ResultsAreCurrent, TypeOK, QueueTypeOK, Queued
    <2>3. config[t] # NoTask
      BY <2>2, TasksAssumption
    <2> QED
      BY <1>1, <1>6, <1>7, <2>1, <2>2, <2>3
  <1>8. ASSUME NEW t \in Tasks, running'[t] \in Configs PROVE running'[t] = config'[t]
    <2>1. running[t] # NoProbe /\ t \notin Changed(new) /\ running'[t] = running[t]
      BY <1>1, <1>8, TasksAssumption
    <2>2. running[t] = config[t] /\ config[t] # NoTask
      BY <1>8, <2>1, TasksAssumption DEF Parts, ResultsAreCurrent
    <2> QED
      BY <1>1, <1>6, <2>1, <2>2
  <1>9. ResultsAreCurrent'
    BY <1>7, <1>8 DEF ResultsAreCurrent
  <1> QED
    BY <1>3, <1>4, <1>5, <1>9

\* The policies case keeps the invariant, with and without report_now.
LEMMA ReceivePolicyStep ==
    ASSUME Parts, NEW new \in Policies, NEW uploadEvery \in BOOLEAN, NEW reportNow \in BOOLEAN,
           ReceivePolicy(new, uploadEvery, reportNow)
    PROVE  Parts'
  <1> DEFINE pd == Invalidated(new)
  <1>1. /\ connected /\ ApplyPolicy(new) /\ eager' = uploadEvery
        /\ UNCHANGED <<nextResultID, accepted, acceptedBasic>>
    BY DEF ReceivePolicy, historyVars
  <1>2. TypeOK /\ SessionType /\ Messaging(inFlight, acks)
    BY DEF Parts, TypeOK, SessionType
  <1>3. /\ QueueType(pd) /\ Covers(pd, nextResultID, Held)
        /\ \A t \in Tasks : pd[t] # NoResult => pd[t] = pend[t]
    BY InvalidatedCovers
  <1>4. \A t \in Tasks : pd[t] # NoResult => pd[t].seq <= nextResultID
    BY <1>3 DEF Parts, SequencesAreGivenOut
  <1>5. nextResultID \in Nat
    BY <1>2 DEF TypeOK, QueueTypeOK
  <1> HIDE DEF pd
  <1>6. /\ QueueType(pend') /\ basicRevision' \in Nat /\ basicPending' \in BOOLEAN
        /\ SessionType'
        /\ retryQueue' \subseteq Reports /\ IsFiniteSet(retryQueue')
        /\ Covers(pend', nextResultID, Held')
        /\ Messaging(inFlight, acks)'
        /\ ~connected' => pending' = <<>> /\ inFlight' = <<>>
        /\ \A t \in Tasks : pend'[t] # NoResult =>
             pd[t] # NoResult /\ pend'[t].seq = pd[t].seq /\ pend'[t].cfg = pd[t].cfg
    <2>1. CASE /\ pend' = pd
               /\ UNCHANGED <<basicRevision, basicPending, retryQueue, connected, pending, inFlight,
                              uploadReady, ackDeadline, acks, netVars, faults>>
      <3>1. SessionType'
        BY <1>2, <2>1 DEF SessionType, netVars
      <3>2. Messaging(inFlight, acks)'
        BY <1>1, <1>2, <2>1 DEF Messaging, LiveMessages, netVars
      <3>3. Held' = Held
        BY <2>1 DEF Held
      <3>4. basicRevision' \in Nat /\ basicPending' \in BOOLEAN /\ retryQueue' \subseteq Reports
            /\ IsFiniteSet(retryQueue')
        BY <1>2, <2>1 DEF TypeOK, QueueTypeOK
      <3> QED
        BY <1>1, <1>3, <2>1, <3>1, <3>2, <3>3, <3>4
    <2>2. CASE /\ PrepareReports(pd)
               /\ \E reports \in PreparedReports(pd) :
                    FlushOrFail({}, pending \o reports, inFlight, TRUE, ackDeadline, acks)
      <3>1. PICK reports \in PreparedReports(pd) :
              FlushOrFail({}, pending \o reports, inFlight, TRUE, ackDeadline, acks)
        BY <2>2
      <3>2. /\ QueueType(pend')
            /\ basicRevision' \in Nat /\ basicPending' \in BOOLEAN
            /\ pending \o reports \in Seq(Reports)
            /\ Covers(pend', nextResultID, Range(pending \o reports) \cup Range(inFlight) \cup {})
            /\ \A t \in Tasks : pend'[t] # NoResult =>
                 pd[t] # NoResult /\ pend'[t].seq = pd[t].seq /\ pend'[t].cfg = pd[t].cfg
        BY <1>2, <1>3, <1>4, <2>2, PreparedStep
      <3>3. inFlight \in Seq(Reports) /\ ackDeadline \in BOOLEAN /\ acks \in 0..1 /\ IsFiniteSet({})
        BY <1>2, FS_EmptySet DEF SessionType
      <3>4. accepted' = accepted /\ acceptedBasic' = acceptedBasic
        BY <1>1
      <3>5. /\ SessionType'
            /\ retryQueue' \subseteq Reports /\ IsFiniteSet(retryQueue')
            /\ Covers(pend', nextResultID, Held')
            /\ Messaging(inFlight, acks)'
            /\ ~connected' => pending' = <<>> /\ inFlight' = <<>>
        BY <1>2, <1>5, <3>1, <3>2, <3>3, <3>4, FlushOrFailStep
      <3> QED
        BY <3>2, <3>5
    <2> QED
      BY <2>1, <2>2 DEF ReceivePolicy, pd
  <1>7. /\ ResultsAreCurrent'
        /\ config' \in [Tasks -> Configs \cup {NoTask}]
        /\ running' \in [Tasks -> Runs]
        /\ policyCount' \in 0..MaxPolicies
    BY <1>1, <1>6, PolicyIsCurrent DEF pd
  <1>8. TypeOK'
    BY <1>1, <1>2, <1>6, <1>7 DEF TypeOK, QueueTypeOK, SessionType, QueueType
  <1>9. SequencesAreGivenOut'
    BY <1>1, <1>4, <1>6 DEF SequencesAreGivenOut
  <1> QED
    BY <1>1, <1>6, <1>7, <1>8, <1>9 DEF Parts, Idle

\* The end of a session by an error keeps the invariant.
LEMMA SessionErrorStep == Parts /\ SessionError /\ faults' \in 0..MaxFaults => Parts'
  <1> SUFFICES ASSUME Parts, SessionError, faults' \in 0..MaxFaults PROVE Parts'
    OBVIOUS
  <1>1. /\ EndSession(pend, basicRevision, basicPending, retryQueue, wire, pending, inFlight)
        /\ UNCHANGED <<config, running, pend, nextResultID, basicRevision, basicPending,
                       policyCount, accepted, acceptedBasic, eager>>
    BY DEF SessionError, historyVars
  <1>2. TypeOK /\ SessionType /\ Covers(pend, nextResultID, Held)
    BY DEF Parts, TypeOK, SessionType
  <1>3. /\ QueueType(pend) /\ nextResultID \in Nat
        /\ basicRevision \in Nat /\ basicPending \in BOOLEAN
        /\ retryQueue \in SUBSET Reports /\ IsFiniteSet(retryQueue)
    BY <1>2 DEF QueueType, TypeOK, QueueTypeOK
  <1>4. pending \in Seq(Reports) /\ inFlight \in Seq(Reports) /\ wire \in Seq(Messages)
    BY <1>2 DEF SessionType
  <1>5. Covers(pend, nextResultID, Range(pending) \cup Range(inFlight) \cup retryQueue)
    BY <1>2 DEF Held
  <1>6. /\ SessionType'
        /\ retryQueue' \subseteq Reports /\ IsFiniteSet(retryQueue')
        /\ Covers(pend, nextResultID, Held')
        /\ Messaging(inFlight, acks)'
        /\ ~connected' /\ pending' = <<>> /\ inFlight' = <<>>
    BY <1>1, <1>3, <1>4, <1>5, EndSessionStep
  <1>7. TypeOK'
    BY <1>1, <1>2, <1>6 DEF TypeOK, QueueTypeOK, SessionType
  <1>8. ResultsAreCurrent' /\ SequencesAreGivenOut'
    BY <1>1 DEF ResultsAreCurrent, SequencesAreGivenOut, Parts
  <1>9. Covers(pend', nextResultID', Held')
    BY <1>1, <1>6
  <1> QED
    BY <1>6, <1>7, <1>8, <1>9 DEF Parts, Idle

\* The reader that hands over an acknowledgement keeps the invariant.
LEMMA ReadAckStep == Parts /\ ReadAck => Parts'
  <1> SUFFICES ASSUME Parts, ReadAck PROVE Parts'
    OBVIOUS
  <1>1. /\ ackWire > 0 /\ ackWire' = ackWire - 1 /\ acks' = 1
        /\ UNCHANGED <<queueVars, accepted, acceptedBasic, connected, pending, inFlight, uploadReady,
                       eager, ackDeadline, wire, faults>>
    BY DEF ReadAck, historyVars
  <1>2. TypeOK /\ Messaging(inFlight, acks)
    BY DEF Parts
  <1>3. acks = 0 /\ ackWire = 1 /\ LiveMessages = {}
    BY <1>1, <1>2 DEF TypeOK, Messaging
  <1>4. LiveMessages' = {}
    BY <1>1, <1>3 DEF LiveMessages
  <1>5. Messaging(inFlight, acks)'
    BY <1>1, <1>2, <1>3, <1>4 DEF Messaging
  <1>6. TypeOK'
    BY <1>1, <1>2, <1>3 DEF TypeOK, QueueTypeOK, queueVars
  <1>7. Held' = Held /\ ResultsAreCurrent' /\ SequencesAreGivenOut'
    BY <1>1 DEF Held, queueVars, ResultsAreCurrent, SequencesAreGivenOut, Parts
  <1>8. Covers(pend', nextResultID', Held')
    BY <1>1, <1>7 DEF Parts, queueVars
  <1> QED
    BY <1>1, <1>5, <1>6, <1>7, <1>8 DEF Parts, Idle

\* Taking the first message off the wire: the others move up by one.
LEMMA WireAdvances ==
    ASSUME SessionType, wire # <<>>, wire' = Tail(wire)
    PROVE  /\ wire' \in Seq(Messages)
           /\ Head(wire) = wire[1] /\ Head(wire) \in Messages /\ 1 \in DOMAIN wire
           /\ \A i \in DOMAIN wire' : i \in Nat /\ i # 0 /\ i + 1 \in DOMAIN wire /\ wire'[i] = wire[i + 1]
  <1>1. wire \in Seq(Messages)
    BY DEF SessionType
  <1>2. Len(wire) \in Nat \ {0} /\ DOMAIN wire = 1..Len(wire)
    BY <1>1, EmptySeq, LenProperties
  <1>3. /\ Head(wire) \in Messages /\ Tail(wire) \in Seq(Messages) /\ Len(Tail(wire)) = Len(wire) - 1
        /\ \A i \in 1..Len(Tail(wire)) : Tail(wire)[i] = wire[i + 1]
    BY <1>1, HeadTailProperties
  <1>4. DOMAIN Tail(wire) = 1..(Len(wire) - 1)
    BY <1>3, LenProperties
  <1>5. Head(wire) = wire[1]
    BY <1>1, <1>2
  <1> QED
    BY <1>2, <1>3, <1>4, <1>5

\* What the server does changes the wire and the history only.
LEMMA ServerStep ==
    ASSUME Parts, wire # <<>>, wire' = Tail(wire), UNCHANGED <<queueVars, sessionVars>>,
           accepted \subseteq accepted', acceptedBasic \subseteq acceptedBasic',
           accepted' \subseteq Tasks \X Seqs, acceptedBasic' \subseteq Nat,
           faults' \in 0..MaxFaults,
           \/ ackWire' = ackWire
           \/ /\ Head(wire).live /\ ackWire' = ackWire + 1
              /\ \A i \in DOMAIN Head(wire).batch :
                   /\ \A x \in Head(wire).batch[i].results : <<x[1], x[2]>> \in accepted'
                   /\ Head(wire).batch[i].basic # 0 => Head(wire).batch[i].basic \in acceptedBasic'
    PROVE  Parts'
  <1>1. TypeOK /\ SessionType /\ Messaging(inFlight, acks)
    BY DEF Parts, TypeOK, SessionType
  <1>2. /\ wire' \in Seq(Messages)
        /\ Head(wire) = wire[1] /\ 1 \in DOMAIN wire
        /\ \A i \in DOMAIN wire' : i \in Nat /\ i # 0 /\ i + 1 \in DOMAIN wire /\ wire'[i] = wire[i + 1]
    BY <1>1, WireAdvances
  <1>3. \A i \in LiveMessages' : i \in Nat /\ i # 0 /\ i + 1 \in LiveMessages /\ wire'[i] = wire[i + 1]
    BY <1>2 DEF LiveMessages
  <1>4. acks' = acks /\ inFlight' = inFlight /\ acks \in 0..1 /\ ackWire \in Nat
    BY <1>1 DEF sessionVars, SessionType
  <1>5. Messaging(inFlight, acks)'
    <2>1. CASE ackWire' = ackWire
      <3>1. /\ \A i, j \in LiveMessages' : i = j
            /\ \A i \in LiveMessages' : wire'[i].batch = inFlight' /\ acks' = 0 /\ ackWire' = 0
        <4>1. ASSUME NEW i \in LiveMessages', NEW j \in LiveMessages' PROVE i = j
          <5>1. i \in Nat /\ j \in Nat /\ i + 1 \in LiveMessages /\ j + 1 \in LiveMessages
            BY <1>3
          <5>2. i + 1 = j + 1
            BY <1>1, <5>1 DEF Messaging
          <5> QED
            BY <5>1, <5>2
        <4>2. ASSUME NEW i \in LiveMessages'
              PROVE  wire'[i].batch = inFlight' /\ acks' = 0 /\ ackWire' = 0
          <5>1. i + 1 \in LiveMessages /\ wire'[i] = wire[i + 1]
            BY <1>3
          <5>2. wire[i + 1].batch = inFlight /\ acks = 0 /\ ackWire = 0
            BY <1>1, <5>1 DEF Messaging
          <5> QED
            BY <1>4, <2>1, <5>1, <5>2
        <4> QED
          BY <4>1, <4>2
      <3>2. LiveMessages' # {} => LiveMessages # {}
        BY <1>3
      <3> QED
        BY <1>1, <1>4, <2>1, <3>1, <3>2 DEF Messaging
    <2>2. CASE /\ Head(wire).live /\ ackWire' = ackWire + 1
               /\ \A i \in DOMAIN Head(wire).batch :
                    /\ \A x \in Head(wire).batch[i].results : <<x[1], x[2]>> \in accepted'
                    /\ Head(wire).batch[i].basic # 0 => Head(wire).batch[i].basic \in acceptedBasic'
      <3>1. 1 \in LiveMessages
        BY <1>2, <2>2 DEF LiveMessages
      <3>2. Head(wire).batch = inFlight /\ acks = 0 /\ ackWire = 0 /\ \A i \in LiveMessages : i = 1
        BY <1>1, <1>2, <3>1 DEF Messaging
      <3>3. LiveMessages' = {}
        BY <1>3, <3>2
      <3>4. inFlight # <<>>
        BY <1>1, <3>1 DEF Messaging
      <3> QED
        BY <1>4, <2>2, <3>2, <3>3, <3>4 DEF Messaging
    <2> QED
      BY <2>1, <2>2
  <1>6. ackWire' \in Nat
    BY <1>4
  <1>7. TypeOK'
    BY <1>1, <1>2, <1>6 DEF TypeOK, QueueTypeOK, queueVars, sessionVars
  <1>8. Held' = Held /\ ResultsAreCurrent' /\ SequencesAreGivenOut'
    BY DEF Held, queueVars, sessionVars, ResultsAreCurrent, SequencesAreGivenOut, Parts
  <1>9. Covers(pend', nextResultID', Held')
    BY <1>8 DEF Parts, queueVars
  <1> QED
    BY <1>5, <1>7, <1>8, <1>9 DEF Parts, Idle, sessionVars

\* The history records what a prefix of a batch carries.
LEMMA ResultsInType ==
    ASSUME NEW batch, \A r \in Range(batch) : r \in Reports
    PROVE  /\ ResultsIn(batch) \subseteq Tasks \X Seqs
           /\ BasicIn(batch) \subseteq Nat
           /\ \A i \in DOMAIN batch :
                /\ \A x \in batch[i].results : <<x[1], x[2]>> \in ResultsIn(batch)
                /\ batch[i].basic # 0 => batch[i].basic \in BasicIn(batch)
  <1>1. \A i \in DOMAIN batch : batch[i] \in Range(batch)
    BY DEF Range
  <1>2. ResultsIn(batch) \subseteq Tasks \X Seqs
    BY DEF ResultsIn, Reports, Results
  <1>3. BasicIn(batch) \subseteq Nat
    BY DEF BasicIn, Reports
  <1>4. \A i \in DOMAIN batch : \A x \in batch[i].results : <<x[1], x[2]>> \in ResultsIn(batch)
    BY <1>1 DEF ResultsIn
  <1>5. \A i \in DOMAIN batch : batch[i].basic # 0 => batch[i].basic \in BasicIn(batch)
    BY <1>1 DEF BasicIn
  <1> QED
    BY <1>2, <1>3, <1>4, <1>5

\* A batch that the server persists and answers keeps the invariant.
LEMMA ServerAcceptsStep == Parts /\ ServerAccepts => Parts'
  <1> SUFFICES ASSUME Parts, ServerAccepts PROVE Parts'
    OBVIOUS
  <1>1. TypeOK /\ SessionType
    BY DEF Parts, TypeOK, SessionType
  <1>2. Head(wire) \in Messages
    BY <1>1, WireAdvances DEF ServerAccepts
  <1> DEFINE batch == Head(wire).batch
  <1>3. \A r \in Range(batch) : r \in Reports
    BY <1>2, SeqRangeType DEF Messages
  <1>4. /\ ResultsIn(batch) \subseteq Tasks \X Seqs
        /\ BasicIn(batch) \subseteq Nat
        /\ \A i \in DOMAIN batch :
             /\ \A x \in batch[i].results : <<x[1], x[2]>> \in ResultsIn(batch)
             /\ batch[i].basic # 0 => batch[i].basic \in BasicIn(batch)
    BY <1>3, ResultsInType
  <1>5. /\ accepted' = accepted \cup ResultsIn(batch)
        /\ acceptedBasic' = acceptedBasic \cup BasicIn(batch)
        /\ wire # <<>> /\ wire' = Tail(wire) /\ faults' = faults
        /\ UNCHANGED <<queueVars, sessionVars>>
    BY DEF ServerAccepts
  <1>6. ackWire' = ackWire \/ (Head(wire).live /\ ackWire' = ackWire + 1)
    BY DEF ServerAccepts
  <1>7. accepted' \subseteq Tasks \X Seqs /\ acceptedBasic' \subseteq Nat /\ faults' \in 0..MaxFaults
    BY <1>1, <1>4, <1>5 DEF TypeOK, QueueTypeOK
  <1> QED
    BY <1>4, <1>5, <1>6, <1>7, ServerStep

\* A batch that the server persists in part and does not answer keeps the invariant.
LEMMA ServerRejectsStep == Parts /\ ServerRejects => Parts'
  <1> SUFFICES ASSUME Parts, ServerRejects PROVE Parts'
    OBVIOUS
  <1>1. TypeOK /\ SessionType
    BY DEF Parts, TypeOK, SessionType
  <1>2. /\ wire # <<>> /\ wire' = Tail(wire) /\ faults < MaxFaults /\ faults' = faults + 1
        /\ acceptedBasic' = acceptedBasic /\ ackWire' = ackWire
        /\ UNCHANGED <<queueVars, sessionVars>>
    BY DEF ServerRejects
  <1>3. Head(wire) \in Messages
    BY <1>1, <1>2, WireAdvances
  <1> DEFINE batch == Head(wire).batch
  <1>4. PICK n \in 0..Len(batch) : accepted' = accepted \cup ResultsIn(SubSeq(batch, 1, n))
    BY DEF ServerRejects
  <1>5. batch \in Seq(Reports) /\ Len(batch) \in Nat
    BY <1>3 DEF Messages
  <1> HIDE DEF batch
  <1>6. SubSeq(batch, 1, n) \in Seq(Reports)
    <2>1. \A i \in 1..n : batch[i] \in Reports
      BY <1>5, ElementOfSeq
    <2>2. 1 \in Int /\ n \in Int
      BY <1>5
    <2> QED
      BY <2>1, <2>2, SubSeqProperties
  <1>7. ResultsIn(SubSeq(batch, 1, n)) \subseteq Tasks \X Seqs
    BY <1>6, SeqRangeType, ResultsInType
  <1>8. accepted' \subseteq Tasks \X Seqs /\ acceptedBasic' \subseteq Nat /\ faults' \in 0..MaxFaults
    BY <1>1, <1>2, <1>4, <1>7, WsBoundAssumption DEF TypeOK, QueueTypeOK
  <1> QED
    BY <1>2, <1>4, <1>8, ServerStep

\* A lost message keeps the invariant.
LEMMA LoseMessageStep == Parts /\ LoseMessage => Parts'
  <1> SUFFICES ASSUME Parts, LoseMessage PROVE Parts'
    OBVIOUS
  <1>1. /\ wire # <<>> /\ wire' = Tail(wire) /\ faults' = faults /\ ackWire' = ackWire
        /\ accepted' = accepted /\ acceptedBasic' = acceptedBasic
        /\ UNCHANGED <<queueVars, sessionVars>>
    BY DEF LoseMessage, historyVars
  <1>2. accepted' \subseteq Tasks \X Seqs /\ acceptedBasic' \subseteq Nat /\ faults' \in 0..MaxFaults
    BY <1>1 DEF Parts, TypeOK, QueueTypeOK
  <1> QED
    BY <1>1, <1>2, ServerStep

\* The start and the end of a probe keep the invariant.
LEMMA ProbeStep == ASSUME NEW t \in Tasks PROVE Parts /\ Probe(t) => Parts'
  <1> SUFFICES ASSUME Parts, Probe(t) PROVE Parts'
    OBVIOUS
  <1>1. /\ UNCHANGED <<config, retryQueue, basicRevision, basicPending, policyCount>>
        /\ UNCHANGED <<accepted, acceptedBasic, sessionVars, netVars, faults>>
    BY DEF Probe, LaunchProbe, FinishProbe, historyVars
  <1>2. Held' = Held /\ LiveMessages' = LiveMessages
    BY <1>1 DEF Held, LiveMessages, sessionVars, netVars
  <1>3. Messaging(inFlight, acks)'
    BY <1>1, <1>2 DEF Parts, Messaging, sessionVars, netVars
  <1>4. TypeOK /\ QueueTypeOK /\ ResultsAreCurrent /\ SequencesAreGivenOut /\ Covers(pend, nextResultID, Held)
    BY DEF Parts, TypeOK
  <1>5. CASE /\ pend' = pend /\ nextResultID' = nextResultID
             /\ \E run \in {NoProbe, config[t]} :
                  run # NoTask /\ running' = [running EXCEPT ![t] = run]
    <2>1. PICK run \in {NoProbe, config[t]} : run # NoTask /\ running' = [running EXCEPT ![t] = run]
      BY <1>5
    <2>2. run = NoProbe \/ (run \in Configs /\ run = config[t])
      BY <1>4, <2>1 DEF QueueTypeOK
    <2>3. /\ running' \in [Tasks -> Runs]
          /\ \A u \in Tasks : running'[u] \in Configs => running'[u] = running[u] \/ running'[u] = config[u]
      BY <1>4, <2>1, <2>2, TasksAssumption DEF QueueTypeOK, Runs
    <2>4. ResultsAreCurrent'
      BY <1>1, <1>4, <1>5, <2>3 DEF ResultsAreCurrent
    <2>5. SequencesAreGivenOut' /\ Covers(pend', nextResultID', Held')
      BY <1>1, <1>2, <1>4, <1>5 DEF SequencesAreGivenOut
    <2>6. TypeOK'
      BY <1>1, <1>4, <1>5, <2>3 DEF TypeOK, QueueTypeOK, sessionVars, netVars
    <2> QED
      BY <1>1, <1>3, <2>4, <2>5, <2>6 DEF Parts, Idle, sessionVars
  <1>6. CASE /\ running[t] # NoProbe /\ running[t] # Cancelled /\ pend[t] = NoResult
             /\ running' = [running EXCEPT ![t] = NoProbe]
             /\ nextResultID' = nextResultID + 1
             /\ pend' = [pend EXCEPT ![t] = [seq |-> nextResultID + 1, leased |-> FALSE,
                                             cfg |-> running[t]]]
    <2> DEFINE new == [seq |-> nextResultID + 1, leased |-> FALSE, cfg |-> running[t]]
    <2>1. nextResultID \in Nat /\ running[t] \in Configs /\ running[t] = config[t]
      BY <1>4, <1>6 DEF QueueTypeOK, Runs, ResultsAreCurrent
    <2>2. new \in Queued /\ new.seq = nextResultID + 1 /\ ~new.leased /\ new.cfg = config[t]
      BY <2>1 DEF Queued, Seqs
    <2>3. pend'[t] = new /\ \A u \in Tasks : u # t => pend'[u] = pend[u]
      BY <1>4, <1>6 DEF QueueTypeOK
    <2>4. pend' \in [Tasks -> Queued \cup {NoResult}]
      BY <1>4, <1>6, <2>2 DEF QueueTypeOK
    <2>5. running' \in [Tasks -> Runs] /\ \A u \in Tasks : running'[u] \in Configs => running'[u] = running[u]
      BY <1>4, <1>6, TasksAssumption DEF QueueTypeOK, Runs
    <2> HIDE DEF new
    <2>6. ResultsAreCurrent'
      BY <1>1, <1>4, <2>2, <2>3, <2>5 DEF ResultsAreCurrent
    <2>7. SequencesAreGivenOut'
      <3> SUFFICES ASSUME NEW u \in Tasks, pend'[u] # NoResult PROVE pend'[u].seq <= nextResultID + 1
        BY <1>6 DEF SequencesAreGivenOut
      <3>1. CASE u = t
        BY <2>1, <2>2, <2>3, <3>1
      <3>2. CASE u # t
        <4>1. pend'[u] = pend[u] /\ pend[u] \in Queued
          BY <1>4, <2>3, <3>2 DEF QueueTypeOK
        <4>2. pend[u].seq \in Nat
          BY <4>1 DEF Queued, Seqs
        <4>3. pend[u].seq <= nextResultID
          BY <1>4, <4>1 DEF SequencesAreGivenOut
        <4> QED
          BY <2>1, <4>1, <4>2, <4>3
      <3> QED
        BY <3>1, <3>2
    <2>8. Covers(pend', nextResultID', Held')
      <3>1. ASSUME NEW u \in Tasks, pend'[u] # NoResult, pend'[u].leased
            PROVE  \E r \in Held : <<u, pend'[u].seq, pend'[u].cfg>> \in r.results
        <4>1. u # t /\ pend'[u] = pend[u]
          BY <2>2, <2>3, <3>1
        <4> QED
          BY <1>4, <3>1, <4>1 DEF Covers
      <3>2. ASSUME NEW r \in Held
            PROVE  /\ \A u \in Tasks : pend'[u] # NoResult /\ <<u, pend'[u].seq>> \in r.leases =>
                        <<u, pend'[u].seq, pend'[u].cfg>> \in r.results
                   /\ \A x \in r.results : <<x[1], x[2]>> \in r.leases
                   /\ \A u \in Tasks, c \in Configs :
                        pend'[u] # NoResult /\ <<u, pend'[u].seq, c>> \in r.results => c = pend'[u].cfg
                   /\ \A l \in r.leases : l[2] <= nextResultID + 1
        <4>1. /\ \A u \in Tasks : pend[u] # NoResult /\ <<u, pend[u].seq>> \in r.leases =>
                   <<u, pend[u].seq, pend[u].cfg>> \in r.results
              /\ \A x \in r.results : <<x[1], x[2]>> \in r.leases
              /\ \A u \in Tasks, c \in Configs :
                   pend[u] # NoResult /\ <<u, pend[u].seq, c>> \in r.results => c = pend[u].cfg
              /\ \A l \in r.leases : l[2] <= nextResultID
          BY <1>4 DEF Covers
        <4>2. r \in Reports
          BY <1>4, SeqRangeType DEF Held, TypeOK, QueueTypeOK
        <4>3. \A l \in r.leases : l[2] \in Nat
          BY <4>2 DEF Reports, Seqs
        <4>4. <<t, nextResultID + 1>> \notin r.leases
          <5> SUFFICES ASSUME <<t, nextResultID + 1>> \in r.leases PROVE FALSE
            OBVIOUS
          <5>1. <<t, nextResultID + 1>>[2] <= nextResultID
            BY <4>1
          <5> QED
            BY <2>1, <5>1
        <4>5. \A u \in Tasks : pend'[u] # NoResult /\ <<u, pend'[u].seq>> \in r.leases =>
                 <<u, pend'[u].seq, pend'[u].cfg>> \in r.results
          BY <2>2, <2>3, <4>1, <4>4
        <4>6. \A l \in r.leases : l[2] <= nextResultID + 1
          BY <2>1, <4>1, <4>3
        <4>7. ASSUME NEW u \in Tasks, NEW c \in Configs, pend'[u] # NoResult,
                     <<u, pend'[u].seq, c>> \in r.results
              PROVE  c = pend'[u].cfg
          <5> DEFINE x == <<u, pend'[u].seq, c>>
          <5>1. <<x[1], x[2]>> \in r.leases
            BY <4>1, <4>7
          <5>2. <<u, pend'[u].seq>> \in r.leases
            BY <5>1
          <5>3. u # t
            BY <2>2, <2>3, <4>4, <5>2
          <5> QED
            BY <2>3, <4>1, <4>7, <5>3
        <4> QED
          BY <4>1, <4>5, <4>6, <4>7
      <3> QED
        BY <1>2, <1>6, <3>1, <3>2 DEF Covers
    <2>9. TypeOK'
      BY <1>1, <1>4, <1>6, <2>1, <2>4, <2>5 DEF TypeOK, QueueTypeOK, sessionVars, netVars
    <2> QED
      BY <1>1, <1>3, <2>6, <2>7, <2>8, <2>9 DEF Parts, Idle, sessionVars
  <1>7. CASE LaunchProbe(t)
    BY <1>5, <1>7 DEF LaunchProbe
  <1>8. CASE FinishProbe(t) /\ ~(running[t] # Cancelled /\ pend[t] = NoResult)
    <2>1. pend' = pend /\ nextResultID' = nextResultID /\ running' = [running EXCEPT ![t] = NoProbe]
      BY <1>8 DEF FinishProbe
    <2> QED
      BY <1>5, <2>1, TasksAssumption
  <1>9. CASE FinishProbe(t) /\ running[t] # Cancelled /\ pend[t] = NoResult
    BY <1>6, <1>9 DEF FinishProbe
  <1> QED
    BY <1>7, <1>8, <1>9 DEF Probe

\* Every step keeps the invariant.
LEMMA NextStep == Parts /\ [Next]_vars => Parts'
  <1> SUFFICES ASSUME Parts, [Next]_vars PROVE Parts'
    OBVIOUS
  <1>1. CASE \E new \in Policies, uploadEvery, reportNow \in BOOLEAN :
               ReceivePolicy(new, uploadEvery, reportNow)
    BY <1>1, ReceivePolicyStep
  <1>2. CASE AckTimeout \/ BreakConnection
    <2>1. faults' \in 0..MaxFaults
      BY <1>2, WsBoundAssumption DEF AckTimeout, BreakConnection, Parts, TypeOK
    <2> QED
      BY <1>2, <2>1, SessionErrorStep DEF AckTimeout, BreakConnection
  <1>3. CASE UNCHANGED vars
    BY <1>3 DEF vars, queueVars, historyVars, sessionVars, netVars, Parts, TypeOK, QueueTypeOK,
                ResultsAreCurrent, SequencesAreGivenOut, Covers, Held, Messaging, LiveMessages, Idle
  <1> QED
    BY <1>1, <1>2, <1>3, ConnectStep, SampleStep, UploadStep, ReceiveAckStep, ReadAckStep,
       ServerAcceptsStep, ServerRejectsStep, LoseMessageStep, ProbeStep DEF Next

-----------------------------------------------------------------------------
(* The results *)

\* The inductive invariant holds in every reachable state of the reporter, whatever
\* the tasks, configurations and limits are.
THEOREM InvariantHolds == Spec => []IndInv
  <1>1. Init => Parts
    BY InitParts
  <1>2. Parts /\ [Next]_vars => Parts'
    BY NextStep
  <1>3. Parts => IndInv
    BY PartsAreIndInv
  <1> QED
    BY <1>1, <1>2, <1>3, PTL DEF Spec

\* Every variable keeps its type.
THEOREM TypeCorrect == Spec => []TypeOK
  <1>1. IndInv => TypeOK
    BY DEF IndInv
  <1> QED
    BY <1>1, InvariantHolds, PTL

\* A leased result is always in a report that the agent still holds.
THEOREM NoLeaseIsForgotten == Spec => []LeasedResultsAreHeld
  <1>1. IndInv => LeasedResultsAreHeld
    BY DEF IndInv
  <1> QED
    BY <1>1, InvariantHolds, PTL

\* No result and no probe outlives the policy that asked for it.
THEOREM ResultsFollowPolicy == Spec => []ResultsAreCurrent
  <1>1. IndInv => ResultsAreCurrent
    BY DEF IndInv
  <1> QED
    BY <1>1, InvariantHolds, PTL

\* Leasing changes nothing but the lease.
LEMMA LeaseKeeps ==
    ASSUME NEW pd, QueueType(pd), NEW t \in Tasks, pd[t] # NoResult
    PROVE  Lease(pd)[t] = [pd[t] EXCEPT !.leased = TRUE]
  BY DEF Lease

\* No step drops a result that is neither persisted nor replaced by a policy.
LEMMA StepKeepsResults ==
    ASSUME Parts, [Next]_vars, NEW t \in Tasks
    PROVE  ResultKept(t)
  <1> SUFFICES ASSUME pend[t] # NoResult, pend'[t] # pend[t]
               PROVE  \/ pend'[t] = [pend[t] EXCEPT !.leased = TRUE]
                      \/ <<t, pend[t].seq>> \in accepted
                      \/ config'[t] # config[t]
    BY DEF ResultKept
  <1>1. QueueType(pend)
    BY DEF Parts, TypeOK, QueueTypeOK, QueueType
  <1>2. CASE Connect \/ Sample
    <2>1. pend' = Lease(pend)
      BY <1>2 DEF Connect, Sample, PrepareReports
    <2> QED
      BY <1>1, <2>1, LeaseKeeps
  <1>3. CASE ReceiveAck
    <2>1. acks = 1 /\ ackWire \in Nat /\ acks + ackWire = 1 /\ inFlight \in Seq(Reports)
      BY <1>3 DEF ReceiveAck, Parts, Messaging, TypeOK
    <2>2. pend' = Acknowledged(pend, inFlight)
      <3>1. inFlight # <<>>
        BY <2>1 DEF Parts, Messaging
      <3> QED
        BY <1>3, <3>1 DEF ReceiveAck
    <2>3. PICK i \in 1..Len(inFlight) : <<t, pend[t].seq>> \in inFlight[i].leases
      BY <2>2 DEF Acknowledged
    <2>4. i \in DOMAIN inFlight
      BY <2>1, LenProperties
    <2>5. inFlight[i] \in Held
      BY <2>4 DEF Held, Range
    <2>6. <<t, pend[t].seq, pend[t].cfg>> \in inFlight[i].results
      BY <2>3, <2>5 DEF Parts, Covers
    <2>7. \A x \in inFlight[i].results : <<x[1], x[2]>> \in accepted
      BY <2>1, <2>4 DEF Parts, Messaging
    <2> QED
      BY <2>6, <2>7
  <1>4. CASE \E new \in Policies, uploadEvery, reportNow \in BOOLEAN :
               ReceivePolicy(new, uploadEvery, reportNow)
    <2>1. PICK new \in Policies : ApplyPolicy(new) /\ (pend' = Invalidated(new) \/ pend' = Lease(Invalidated(new)))
      BY <1>4 DEF ReceivePolicy, PrepareReports
    <2>2. config' = new
      BY <2>1 DEF ApplyPolicy
    <2>3. CASE t \in Changed(new)
      BY <2>2, <2>3 DEF Changed
    <2>4. CASE t \notin Changed(new)
      <3>1. Invalidated(new)[t] = pend[t] /\ QueueType(Invalidated(new))
        BY <2>4, InvalidatedCovers DEF Invalidated
      <3> QED
        BY <2>1, <3>1, LeaseKeeps
    <2> QED
      BY <2>3, <2>4
  <1>5. CASE \/ Upload \/ AckTimeout \/ BreakConnection \/ ReadAck
             \/ ServerAccepts \/ ServerRejects \/ LoseMessage \/ UNCHANGED vars
    BY <1>5 DEF Upload, AckTimeout, BreakConnection, SessionError, ReadAck, ServerAccepts,
                ServerRejects, LoseMessage, vars, queueVars
  <1>6. CASE \E u \in Tasks : Probe(u)
    BY <1>1, <1>6 DEF Probe, LaunchProbe, FinishProbe, QueueType
  <1> QED
    BY <1>2, <1>3, <1>4, <1>5, <1>6 DEF Next

\* The agent gives a result up only once the server has persisted it or a policy
\* has replaced its probe.
THEOREM ResultsAreNeverLost == Spec => NoResultLost
  <1>1. Init => Parts
    BY InitParts
  <1>2. Parts /\ [Next]_vars => Parts'
    BY NextStep
  <1>3. Parts /\ [Next]_vars => [\A t \in Tasks : ResultKept(t)]_vars
    BY StepKeepsResults
  <1> QED
    BY <1>1, <1>2, <1>3, PTL DEF Spec, NoResultLost

\* The reports of an envelope are those of the pending list as the queue holds them.
LEMMA EnvelopeIsCurrent ==
    ASSUME NEW pd, NEW rev, NEW bp, NEW pnd, NEW r \in Range(Envelope(pd, rev, bp, pnd)),
           NEW x \in r.results
    PROVE  pd[x[1]] # NoResult /\ pd[x[1]].seq = x[2]
  <1> DEFINE s == SubSeq(pnd, 1, EnvelopeLen(pnd))
  <1>1. PICK r0 : r = CurrentReport(pd, rev, bp, r0)
    <2>1. Envelope(pd, rev, bp, pnd) = [j \in 1..Len(s) |-> CurrentReport(pd, rev, bp, s[j])]
      BY DEF Envelope, CurrentReports
    <2> HIDE DEF s
    <2> QED
      BY <2>1 DEF Range
  <1> QED
    BY <1>1 DEF CurrentReport

\* What a handler puts on the wire stays with the session or, when the write failed,
\* with the retry queue.
LEMMA SentIsHeld ==
    ASSUME wire \in Seq(Messages), NEW kept, NEW pnd, NEW inf, NEW ready, NEW deadline, NEW chan,
           FlushOrFail(kept, pnd, inf, ready, deadline, chan),
           NEW i \in DOMAIN wire', i > Len(wire), NEW r \in Range(wire'[i].batch), HasResult(r)
    PROVE  /\ r \in Range(Envelope(pend', basicRevision', basicPending', pnd))
           /\ \E h \in Held' : h.results = r.results
  <1> DEFINE batch == Envelope(pend', basicRevision', basicPending', pnd)
             msg == [live |-> TRUE, batch |-> batch]
  <1>1. DOMAIN wire = 1..Len(wire) /\ Len(wire) \in Nat
    BY LenProperties
  <1>2. /\ Len(Append(wire, msg)) = Len(wire) + 1
        /\ DOMAIN Append(wire, msg) = 1..(Len(wire) + 1)
        /\ Append(wire, msg)[Len(wire) + 1] = msg
    OBVIOUS
  <1> HIDE DEF batch
  <1>3. CASE Flush(pnd, inf, ready, deadline, chan)
    <2>1. wire' = Append(wire, msg) /\ inFlight' = batch
      BY <1>1, <1>3 DEF Flush, batch
    <2>2. i = Len(wire) + 1
      BY <1>1, <1>2, <2>1
    <2>3. r \in Range(batch)
      BY <1>2, <2>1, <2>2
    <2>4. r \in Held'
      BY <2>1, <2>3 DEF Held
    <2> QED
      BY <2>3, <2>4 DEF batch
  <1>4. CASE FlushFails(kept, pnd, inf, ready)
    <2>1. PICK msgs \in {wire, Append(wire, msg)} :
            EndSession(pend', basicRevision', basicPending', kept, msgs, Rest(pnd), batch)
      BY <1>4 DEF FlushFails, batch
    <2>2. /\ wire' = [j \in 1..Len(msgs) |-> [msgs[j] EXCEPT !.live = FALSE]]
          /\ retryQueue' = kept \cup Retained(pend', basicRevision', basicPending',
                                              Range(batch) \cup Range(Rest(pnd)))
      BY <2>1 DEF EndSession
    <2>3. msgs = Append(wire, msg) /\ i = Len(wire) + 1
      BY <1>1, <1>2, <2>1, <2>2
    <2>4. wire'[i].batch = batch
      BY <1>1, <1>2, <2>2, <2>3
    <2>5. r \in Range(batch)
      BY <2>4
    <2>6. \A x \in r.results : pend'[x[1]] # NoResult /\ pend'[x[1]].seq = x[2]
      BY <2>5, EnvelopeIsCurrent DEF batch
    <2> DEFINE h == CurrentReport(pend', basicRevision', basicPending', r)
    <2>7. h.results = r.results
      BY <2>6 DEF CurrentReport
    <2>8. h \in retryQueue'
      BY <2>2, <2>5, <2>7 DEF Retained, HasResult
    <2>9. h \in Held'
      BY <2>8 DEF Held
    <2> QED
      BY <2>5, <2>7, <2>9 DEF batch
  <1> QED
    BY <1>3, <1>4 DEF FlushOrFail

\* What a handler puts on the wire belongs to the policy it leaves in force.
LEMMA FlushSendsCurrent ==
    ASSUME Parts, Parts', NEW kept, NEW pnd, NEW inf, NEW ready, NEW deadline, NEW chan,
           FlushOrFail(kept, pnd, inf, ready, deadline, chan),
           NEW i \in DOMAIN wire', i > Len(wire), NEW r \in Range(wire'[i].batch),
           NEW x \in r.results
    PROVE  x[3] = config'[x[1]]
  <1>1. wire \in Seq(Messages) /\ HasResult(r)
    BY DEF Parts, TypeOK, HasResult
  <1>2. PICK h \in Held' : h.results = r.results
    BY <1>1, SentIsHeld
  <1>3. pend'[x[1]] # NoResult /\ pend'[x[1]].seq = x[2]
    BY <1>1, SentIsHeld, EnvelopeIsCurrent
  <1>4. h \in Reports
    BY SeqRangeType DEF Parts, TypeOK, QueueTypeOK, Held
  <1>5. x \in Tasks \X Seqs \X Configs
    BY <1>2, <1>4 DEF Reports, Results
  <1>6. PICK t \in Tasks, n \in Seqs, c \in Configs : x = <<t, n, c>>
    BY <1>5
  <1>7. x[1] = t /\ x[2] = n /\ x[3] = c
    BY <1>6
  <1>8. <<t, pend'[t].seq, c>> \in h.results
    BY <1>2, <1>3, <1>6, <1>7
  <1>9. \A g \in Held' : \A u \in Tasks, d \in Configs :
          pend'[u] # NoResult /\ <<u, pend'[u].seq, d>> \in g.results => d = pend'[u].cfg
    BY DEF Parts, Covers
  <1>10. c = pend'[t].cfg
    BY <1>3, <1>7, <1>8, <1>9
  <1>11. pend'[t].cfg = config'[t]
    BY <1>3, <1>7 DEF Parts, ResultsAreCurrent
  <1> QED
    BY <1>7, <1>10, <1>11

\* A step that does not flush puts nothing on the wire.
LEMMA OnlyFlushSends ==
    ASSUME Parts, [Next]_vars, NEW i \in DOMAIN wire', i > Len(wire)
    PROVE  \E kept, pnd, inf, ready, deadline, chan :
             FlushOrFail(kept, pnd, inf, ready, deadline, chan)
  <1>1. wire \in Seq(Messages) /\ DOMAIN wire = 1..Len(wire) /\ Len(wire) \in Nat
    BY LenProperties DEF Parts, TypeOK
  <1>2. wire' # wire
    BY <1>1
  <1>3. ~(SessionError \/ ServerAccepts \/ ServerRejects \/ LoseMessage)
    <2>1. CASE SessionError
      <3>1. wire' = [j \in 1..Len(wire) |-> [wire[j] EXCEPT !.live = FALSE]]
        BY <2>1 DEF SessionError, EndSession
      <3> QED
        BY <1>1, <3>1
    <2>2. CASE wire # <<>> /\ wire' = Tail(wire)
      <3>1. Tail(wire) \in Seq(Messages) /\ Len(Tail(wire)) = Len(wire) - 1
        BY <1>1, <2>2, HeadTailProperties
      <3>2. DOMAIN wire' = 1..(Len(wire) - 1)
        BY <2>2, <3>1, LenProperties
      <3> QED
        BY <1>1, <3>2
    <2> QED
      BY <2>1, <2>2 DEF ServerAccepts, ServerRejects, LoseMessage
  <1>4. CASE Connect
    BY <1>4 DEF Connect
  <1>5. CASE Sample
    BY <1>2, <1>5 DEF Sample, netVars
  <1>6. CASE Upload
    BY <1>6 DEF Upload
  <1>7. CASE ReceiveAck
    BY <1>2, <1>7 DEF ReceiveAck, netVars
  <1>8. CASE \E new \in Policies, uploadEvery, reportNow \in BOOLEAN :
               ReceivePolicy(new, uploadEvery, reportNow)
    BY <1>2, <1>8 DEF ReceivePolicy, netVars
  <1>9. CASE ReadAck \/ (\E t \in Tasks : Probe(t)) \/ UNCHANGED vars
    BY <1>2, <1>9 DEF ReadAck, Probe, vars, netVars
  <1> QED
    BY <1>3, <1>4, <1>5, <1>6, <1>7, <1>8, <1>9 DEF Next, AckTimeout, BreakConnection

\* No report leaves with a result of a probe that a policy has replaced, however long
\* it waited in the session or in the retry queue.
THEOREM OnlyCurrentIsSent == Spec => SentResultsAreCurrent
  <1> DEFINE Current == \A i \in DOMAIN wire' : i > Len(wire) =>
                          \A r \in Range(wire'[i].batch) : \A x \in r.results : x[3] = config'[x[1]]
  <1>1. Init => Parts
    BY InitParts
  <1>2. Parts /\ [Next]_vars => Parts'
    BY NextStep
  <1>3. ASSUME Parts, [Next]_vars PROVE Current
    <2>1. Parts'
      BY <1>3, NextStep
    <2>2. ASSUME NEW i \in DOMAIN wire', i > Len(wire), NEW r \in Range(wire'[i].batch),
                 NEW x \in r.results
          PROVE  x[3] = config'[x[1]]
      <3>1. PICK kept, pnd, inf, ready, deadline, chan :
              FlushOrFail(kept, pnd, inf, ready, deadline, chan)
        BY <1>3, <2>2, OnlyFlushSends
      <3> QED
        BY <1>3, <2>1, <2>2, <3>1, FlushSendsCurrent
    <2> QED
      BY <2>2
  <1>4. Parts /\ [Next]_vars => [Current]_vars
    BY <1>3
  <1> QED
    BY <1>1, <1>2, <1>4, PTL DEF Spec, SentResultsAreCurrent

\* The agent stops attaching the basic information only once the server has
\* persisted the revision it attached.
THEOREM BasicInfoIsNeverLost == Spec => BasicInfoKept
  <1> DEFINE Kept == basicPending /\ ~basicPending' => basicRevision \in acceptedBasic
  <1>1. Init => Parts
    BY InitParts
  <1>2. Parts /\ [Next]_vars => Parts'
    BY NextStep
  <1>3. ASSUME Parts, [Next]_vars, basicPending, ~basicPending' PROVE basicRevision \in acceptedBasic
    <2>1. ReceiveAck /\ inFlight # <<>>
      BY <1>3 DEF Next, Connect, Sample, Upload, ReceiveAck, ReceivePolicy, PrepareReports,
                  RefreshBasicInfo, AckTimeout, BreakConnection, SessionError, ReadAck, ServerAccepts,
                  ServerRejects, LoseMessage, Probe, LaunchProbe, FinishProbe, vars, queueVars
    <2>2. acks = 1 /\ acks + ackWire = 1 /\ inFlight \in Seq(Reports)
      BY <1>3, <2>1 DEF ReceiveAck, Parts, Messaging, TypeOK
    <2>3. PICK i \in 1..Len(inFlight) : inFlight[i].basic # 0 /\ inFlight[i].basic = basicRevision
      BY <1>3, <2>1 DEF ReceiveAck, BasicAcknowledged
    <2>4. i \in DOMAIN inFlight
      BY <2>2, LenProperties
    <2> QED
      BY <1>3, <2>2, <2>3, <2>4 DEF Parts, Messaging
  <1>4. Parts /\ [Next]_vars => [Kept]_vars
    BY <1>3
  <1> QED
    BY <1>1, <1>2, <1>4, PTL DEF Spec, BasicInfoKept

-----------------------------------------------------------------------------
(* The reporter implements ProbeLifecycle *)

\* Two queues that differ in their leases only hold the same samples.
LEMMA SameSamples ==
    ASSUME NEW q, NEW r, \A t \in Tasks : /\ (q[t] = NoResult) <=> (r[t] = NoResult)
                                          /\ r[t] # NoResult => q[t].cfg = r[t].cfg
    PROVE  [t \in Tasks |-> IF q[t] = NoResult THEN NoResult ELSE q[t].cfg]
             = [t \in Tasks |-> IF r[t] = NoResult THEN NoResult ELSE r[t].cfg]
  <1>1. \A t \in Tasks : (IF q[t] = NoResult THEN NoResult ELSE q[t].cfg)
                            = (IF r[t] = NoResult THEN NoResult ELSE r[t].cfg)
    OBVIOUS
  <1> QED
    BY <1>1

\* Leasing the results of a queue keeps its samples.
LEMMA LeaseKeepsSamples ==
    ASSUME NEW q, QueueType(q)
    PROVE  \A t \in Tasks : /\ (Lease(q)[t] = NoResult) <=> (q[t] = NoResult)
                            /\ q[t] # NoResult => Lease(q)[t].cfg = q[t].cfg
  <1> SUFFICES ASSUME NEW t \in Tasks
               PROVE  /\ (Lease(q)[t] = NoResult) <=> (q[t] = NoResult)
                      /\ q[t] # NoResult => Lease(q)[t].cfg = q[t].cfg
    OBVIOUS
  <1>1. CASE q[t] = NoResult
    BY <1>1 DEF Lease
  <1>2. CASE q[t] # NoResult
    <2>1. q[t] \in Queued
      BY <1>2 DEF QueueType
    <2>2. [q[t] EXCEPT !.leased = TRUE] \in Queued /\ [q[t] EXCEPT !.leased = TRUE].cfg = q[t].cfg
      BY <2>1 DEF Queued
    <2>3. Lease(q)[t] = [q[t] EXCEPT !.leased = TRUE]
      BY <1>2 DEF Lease
    <2> QED
      BY <1>2, <2>2, <2>3, NoResultAssumption
  <1> QED
    BY <1>1, <1>2

\* A probe that ends leaves its sample, unless it was cancelled.
LEMMA ProbeImplements ==
    ASSUME Parts, NEW t \in Tasks, Probe(t)
    PROVE  Lifecycle!Start(t) \/ Lifecycle!End(t)
  <1>1. /\ QueueType(pend) /\ running \in [Tasks -> Runs] /\ ResultsAreCurrent
    BY DEF Parts, TypeOK, QueueTypeOK, QueueType
  <1>2. CASE LaunchProbe(t)
    <2>1. config[t] # NoTask /\ running[t] = NoProbe /\ running' = [running EXCEPT ![t] = config[t]]
          /\ config' = config /\ pend' = pend /\ pend[t] = NoResult
      BY <1>2 DEF LaunchProbe
    <2>2. sample' = sample /\ sample[t] = NoResult
      BY <2>1 DEF sample
    <2> QED
      BY <2>1, <2>2 DEF Lifecycle!Start
  <1>3. CASE FinishProbe(t)
    <2>1. running[t] # NoProbe /\ running' = [running EXCEPT ![t] = NoProbe] /\ config' = config
      BY <1>3 DEF FinishProbe
    <2>2. CASE running[t] = Cancelled
      <3>1. pend' = pend
        BY <1>3, <2>2 DEF FinishProbe
      <3>2. sample' = sample
        BY <3>1 DEF sample
      <3> QED
        BY <2>1, <2>2, <3>2 DEF Lifecycle!End
    <2>3. CASE running[t] # Cancelled
      <3>1. running[t] \in Configs /\ running[t] = config[t]
        BY <1>1, <2>1, <2>3 DEF Runs, ResultsAreCurrent
      <3>2. \A u \in Tasks : u # t => pend'[u] = pend[u]
        BY <1>1, <1>3 DEF FinishProbe, QueueType
      <3>3. pend'[t] # NoResult /\ pend'[t].cfg = running[t]
        <4>1. CASE pend[t] # NoResult
          <5>1. pend' = pend
            BY <1>3, <4>1 DEF FinishProbe
          <5> QED
            BY <1>1, <3>1, <4>1, <5>1 DEF ResultsAreCurrent
        <4>2. CASE pend[t] = NoResult
          <5> DEFINE q == [seq |-> nextResultID + 1, leased |-> FALSE, cfg |-> running[t]]
          <5>1. pend' = [pend EXCEPT ![t] = q]
            BY <1>3, <2>3, <4>2 DEF FinishProbe
          <5>2. q \in Queued
            BY <3>1 DEF Queued, Seqs, Parts, TypeOK, QueueTypeOK
          <5>3. pend'[t] = q
            BY <1>1, <5>1 DEF QueueType
          <5>4. q.cfg = running[t]
            OBVIOUS
          <5> HIDE DEF q
          <5> QED
            BY <5>2, <5>3, <5>4, NoResultAssumption
        <4> QED
          BY <4>1, <4>2
      <3>4. sample'[t] = running[t] /\ \A u \in Tasks : u # t => sample'[u] = sample[u]
        BY <3>2, <3>3 DEF sample
      <3>5. sample' = [sample EXCEPT ![t] = running[t]]
        <4>1. sample = [u \in Tasks |-> sample[u]] /\ sample' = [u \in Tasks |-> sample'[u]]
          BY DEF sample
        <4> QED
          BY <3>4, <4>1
      <3> QED
        BY <2>1, <2>3, <3>5 DEF Lifecycle!End
    <2> QED
      BY <2>2, <2>3
  <1> QED
    BY <1>2, <1>3 DEF Probe

\* A policy replaces probes and samples at once, also when reports are sent with it.
LEMMA PolicyImplements ==
    ASSUME Parts, NEW new \in Policies, NEW uploadEvery, NEW reportNow,
           ReceivePolicy(new, uploadEvery, reportNow)
    PROVE  Lifecycle!Replace(new)
  <1>1. QueueType(Invalidated(new))
    BY InvalidatedCovers DEF Parts, TypeOK, QueueTypeOK, QueueType
  <1>2. /\ config' = new
        /\ running' = [t \in Tasks |-> IF t \in Changed(new) /\ running[t] # NoProbe
                                       THEN Cancelled ELSE running[t]]
    BY DEF ReceivePolicy, ApplyPolicy
  <1>3. pend' = Invalidated(new) \/ pend' = Lease(Invalidated(new))
    BY DEF ReceivePolicy, PrepareReports
  <1>4. \A t \in Tasks : /\ (pend'[t] = NoResult) <=> (Invalidated(new)[t] = NoResult)
                         /\ Invalidated(new)[t] # NoResult => pend'[t].cfg = Invalidated(new)[t].cfg
    BY <1>1, <1>3, LeaseKeepsSamples
  <1>5. sample' = [t \in Tasks |-> IF Invalidated(new)[t] = NoResult THEN NoResult
                                   ELSE Invalidated(new)[t].cfg]
    BY <1>4, SameSamples DEF sample
  <1>6. sample' = [t \in Tasks |-> IF t \in Changed(new) THEN NoResult ELSE sample[t]]
    BY <1>5 DEF sample, Invalidated
  <1>7. Lifecycle!Changed(new) = Changed(new)
    BY DEF Lifecycle!Changed, Changed
  <1> QED
    BY <1>2, <1>6, <1>7 DEF Lifecycle!Replace

\* An acknowledgement releases samples.
LEMMA AckImplements ==
    ASSUME Parts, ReceiveAck
    PROVE  \E S \in SUBSET Tasks : Lifecycle!Release(S)
  <1> DEFINE S == {t \in Tasks : pend'[t] = NoResult}
  <1>1. \A t \in Tasks : pend'[t] \in {pend[t], NoResult}
    BY DEF ReceiveAck, Acknowledged
  <1>2. config' = config /\ running' = running
    BY DEF ReceiveAck
  <1>3. sample' = [t \in Tasks |-> IF t \in S THEN NoResult ELSE sample[t]]
    BY <1>1 DEF sample
  <1>4. Lifecycle!Release(S)
    BY <1>2, <1>3 DEF Lifecycle!Release
  <1> QED
    BY <1>4

\* Every step of the reporter is a step of ProbeLifecycle or invisible.
LEMMA StepsImplement == Parts /\ [Next]_vars => [Lifecycle!Next]_(Lifecycle!vars)
  <1> SUFFICES ASSUME Parts, [Next]_vars PROVE Lifecycle!Next \/ UNCHANGED Lifecycle!vars
    OBVIOUS
  <1>1. CASE Connect \/ Sample
    <2>1. pend' = Lease(pend) /\ config' = config /\ running' = running /\ QueueType(pend)
      BY <1>1 DEF Connect, Sample, PrepareReports, Parts, TypeOK, QueueTypeOK, QueueType
    <2>2. sample' = sample
      BY <2>1, LeaseKeepsSamples, SameSamples DEF sample
    <2> QED
      BY <2>1, <2>2 DEF Lifecycle!vars
  <1>2. CASE ReceiveAck
    BY <1>2, AckImplements DEF Lifecycle!Next
  <1>3. CASE \E new \in Policies, uploadEvery, reportNow \in BOOLEAN :
               ReceivePolicy(new, uploadEvery, reportNow)
    BY <1>3, PolicyImplements DEF Lifecycle!Next, Policies
  <1>4. CASE \E t \in Tasks : Probe(t)
    BY <1>4, ProbeImplements DEF Lifecycle!Next
  <1>5. CASE \/ Upload \/ AckTimeout \/ BreakConnection \/ ReadAck
             \/ ServerAccepts \/ ServerRejects \/ LoseMessage \/ UNCHANGED vars
    <2>1. pend' = pend /\ config' = config /\ running' = running
      BY <1>5 DEF Upload, AckTimeout, BreakConnection, SessionError, ReadAck, ServerAccepts,
                  ServerRejects, LoseMessage, vars, queueVars
    <2>2. sample' = sample
      BY <2>1 DEF sample
    <2> QED
      BY <2>1, <2>2 DEF Lifecycle!vars
  <1> QED
    BY <1>1, <1>2, <1>3, <1>4, <1>5 DEF Next

\* The queue, its sessions and the server implement ProbeLifecycle: only an
\* acknowledgement or a policy releases a sample.
THEOREM ReporterImplements == Spec => ImplementsLifecycle
  <1>1. Init => Parts
    BY InitParts
  <1>2. Parts /\ [Next]_vars => Parts'
    BY NextStep
  <1>3. Init => Lifecycle!Init
    <2> SUFFICES ASSUME Init PROVE Lifecycle!Init
      OBVIOUS
    <2>1. sample = [t \in Tasks |-> NoResult]
      BY DEF Init, QueueInit, sample
    <2> QED
      BY <2>1 DEF Init, QueueInit, Lifecycle!Init
  <1> QED
    BY <1>1, <1>2, <1>3, StepsImplement, PTL DEF Spec, ImplementsLifecycle, Lifecycle!Spec
=============================================================================
