------------------------- MODULE LiveReportsProofs -------------------------
(***************************************************************************)
(* Proofs about LiveReports.  The invariant says that reports wait in the  *)
(* order of their numbers; that the one under way is either overtaken by a *)
(* removal or a restore, or is what storage and memory hold; that memory   *)
(* and storage are as new as the last acknowledgement; and that a node     *)
(* gone or going is out of memory, with no report that could bring it back.*)
(*                                                                         *)
(* LeaveInv, AdvanceInv, MemoryInv, ForgottenInv and StartedInv say what a *)
(* step of each kind must keep; the lemma of an action applies one of them.*)
(***************************************************************************)
EXTENDS LiveReports, TLAPS

Pcs == {"queued", "update", "write", "check", "retire", "results"}

LEMMA NoneType == None \in Entries /\ None.time = 0 /\ ~None.exp /\ ~None.ws /\ IsKept(None)
BY LiveAssumption DEF None, Entries, IsKept

LEMMA ControlledFacts ==
    ASSUME TypeOK, NEW e \in Entries
    PROVE  /\ Controlled(e) \in Entries
           /\ Gone \/ e = None => Controlled(e) = None
           /\ IsKept(e) => IsKept(Controlled(e))
           /\ ~Gone /\ e # None => /\ Controlled(e).time = e.time /\ Controlled(e).exp = e.exp
                                   /\ Controlled(e).ws = e.ws
                                   /\ meta = "hidden" => Controlled(e).hidden
           /\ ~Gone /\ e.time > 0 => Controlled(e) # None
<1> DEFINE h == IF meta = "none" THEN e.hidden ELSE meta = "hidden"
           c == [e EXCEPT !.hidden = h]
<1>1. h \in BOOLEAN /\ (meta = "hidden" => h)
    BY DEF Entries
<1> HIDE DEF h
<1>2. /\ c \in Entries /\ c.time = e.time /\ c.exp = e.exp /\ c.ws = e.ws
      /\ meta = "hidden" => c.hidden
    BY <1>1 DEF Entries
<1>3. Controlled(e) = IF e = None \/ Gone THEN None ELSE c
    BY DEF Controlled, h
<1> HIDE DEF c
<1> QED BY <1>2, <1>3, NoneType DEF IsKept, Entries

LEMMA ResolvedFacts ==
    ASSUME TypeOK, NEW h \in BOOLEAN
    PROVE  Resolved(h) \in BOOLEAN /\ (meta = "hidden" => Resolved(h))
BY DEF Resolved, TypeOK, Entries

LEMMA AdvanceFacts ==
    ASSUME TypeOK, chain # <<>>, NEW pc \in Pcs, NEW h \in BOOLEAN, Advance(pc, h)
    PROVE  /\ chain' \in Seq(Reports) /\ chain' # <<>> /\ Len(chain') = Len(chain)
           /\ Head1' = [Head1 EXCEPT !.pc = pc, !.hidden = h]
           /\ Head1 \in Reports /\ Head1' \in Reports
           /\ \A i \in DOMAIN chain : i # 1 => chain'[i] = chain[i]
<1>1. Head1 \in Reports /\ Len(chain) \in Nat \ {0}
    BY DEF TypeOK, Head1
<1> DEFINE r == [Head1 EXCEPT !.pc = pc, !.hidden = h]
<1>2. r \in Reports
    BY <1>1 DEF Reports, Pcs
<1>3. chain' = [chain EXCEPT ![1] = r]
    BY <1>1 DEF Advance, TypeOK, Head1
<1> HIDE DEF r
<1>4. chain' \in Seq(Reports) /\ Len(chain') = Len(chain) /\ chain'[1] = r
    BY <1>1, <1>2, <1>3 DEF TypeOK
<1> QED BY <1>1, <1>2, <1>3, <1>4 DEF TypeOK, Head1, r

LEMMA LeaveFacts ==
    ASSUME TypeOK, chain # <<>>, Leave
    PROVE  /\ chain' \in Seq(Reports) /\ Len(chain') = Len(chain) - 1
           /\ \A i \in DOMAIN chain' : i + 1 \in DOMAIN chain /\ chain'[i] = chain[i + 1]
           /\ \A i \in DOMAIN chain' : chain'[i].pc = "queued"
           /\ chain' # <<>> => removal' = removal
           /\ removal' \in Nat
BY DEF TypeOK, Leave

LEMMA EnqueueFacts ==
    ASSUME TypeOK, NEW s \in 0..MaxConnects, NEW h \in BOOLEAN, Enqueue(s, h)
    PROVE  /\ chain' \in Seq(Reports) /\ Len(chain') = Len(chain) + 1 /\ Len(chain') <= MaxQueue
           /\ \A i \in DOMAIN chain : i \in DOMAIN chain' /\ chain'[i] = chain[i]
           /\ LET r == chain'[Len(chain) + 1]
              IN  /\ r.id = arrived + 1 /\ r.sock = s /\ r.pc = "queued"
                  /\ r.rv = removal /\ r.xv = restores
           /\ arrived' = arrived + 1 /\ arrived' \in 0..MaxReports
           /\ chain # <<>> => Head1' = Head1
<1> DEFINE r == [id |-> arrived + 1, sock |-> s, hidden |-> h, rv |-> removal,
                 xv |-> restores, pc |-> "queued"]
<1>1. /\ r.id = arrived + 1 /\ r.sock = s /\ r.pc = "queued" /\ r.rv = removal
      /\ r.xv = restores /\ arrived' = arrived + 1 /\ arrived' \in 0..MaxReports
    BY LiveAssumption DEF TypeOK, Enqueue
<1>2. r \in Reports
    BY LiveAssumption DEF TypeOK, Enqueue, Reports
<1>3. chain' = Append(chain, r) /\ Len(chain) < MaxQueue
    BY DEF Enqueue
<1> HIDE DEF r
<1>4. chain \in Seq(Reports)
    BY DEF TypeOK
<1>5. /\ chain' \in Seq(Reports) /\ Len(chain') = Len(chain) + 1
      /\ \A i \in DOMAIN chain : i \in DOMAIN chain' /\ chain'[i] = chain[i]
      /\ chain'[Len(chain) + 1] = r
    BY <1>2, <1>3, <1>4
<1> QED BY <1>1, <1>3, <1>4, <1>5, LiveAssumption DEF Head1

\* The head moves on: the queue stays in order.
LEMMA AdvanceQueue ==
    ASSUME IndInv, chain # <<>>, NEW pc \in Pcs, NEW h \in BOOLEAN, Advance(pc, h),
           UNCHANGED <<acked, arrived, connects, removal, restores>>
    PROVE  /\ chain' \in Seq(Reports) /\ Len(chain') <= MaxQueue
           /\ \A i \in 2..Len(chain') : chain'[i].pc = "queued"
           /\ QueueInOrder'
           /\ chain' # <<>> /\ Head1' = [Head1 EXCEPT !.pc = pc, !.hidden = h]
           /\ Head1 \in Reports /\ Head1' \in Reports /\ Current(Head1)' = Current(Head1)
           /\ \A i \in DOMAIN chain' : i # 1 => i \in DOMAIN chain /\ chain'[i] = chain[i]
           /\ 1 \in DOMAIN chain /\ 1 \in DOMAIN chain'
<1>1. TypeOK /\ QueueInOrder
    BY DEF IndInv
<1>2. /\ chain' \in Seq(Reports) /\ chain' # <<>> /\ Len(chain') = Len(chain)
      /\ Head1' = [Head1 EXCEPT !.pc = pc, !.hidden = h]
      /\ Head1 \in Reports /\ Head1' \in Reports
      /\ \A i \in DOMAIN chain : i # 1 => chain'[i] = chain[i]
    BY <1>1, AdvanceFacts
<1>3. chain \in Seq(Reports) /\ DOMAIN chain' = DOMAIN chain /\ 1 \in DOMAIN chain
    BY <1>1, <1>2 DEF TypeOK
<1>4. \A i \in DOMAIN chain : /\ chain'[i].id = chain[i].id /\ chain'[i].sock = chain[i].sock
                              /\ chain'[i].rv = chain[i].rv /\ chain'[i].xv = chain[i].xv
  <2>1. /\ Head1'.id = Head1.id /\ Head1'.sock = Head1.sock
        /\ Head1'.rv = Head1.rv /\ Head1'.xv = Head1.xv
    BY <1>2 DEF Reports
  <2>2. chain'[1] = Head1' /\ chain[1] = Head1
    BY DEF Head1
  <2> HIDE DEF Head1
  <2> QED BY <1>2, <2>1, <2>2
<1>5. QueueInOrder'
    BY <1>1, <1>3, <1>4 DEF QueueInOrder
<1>6. Current(Head1)' = Current(Head1)
    BY <1>3, <1>4 DEF Current, Head1
<1>7. Len(chain') <= MaxQueue /\ \A i \in 2..Len(chain') : chain'[i].pc = "queued"
    BY <1>1, <1>2, <1>3 DEF TypeOK
<1> QED BY <1>2, <1>3, <1>5, <1>6, <1>7

\* The head leaves: the others wait, and the versions they began under still count.
LEMMA LeaveQueue ==
    ASSUME IndInv, chain # <<>>, Leave, UNCHANGED <<arrived, connects, restores>>,
           acked' \in Nat, acked' <= Head1.id
    PROVE  /\ chain' \in Seq(Reports) /\ Len(chain') <= MaxQueue
           /\ \A i \in DOMAIN chain' : chain'[i].pc = "queued"
           /\ removal' \in Nat /\ QueueInOrder' /\ HeadIsKept'
           /\ (\A i \in DOMAIN chain : chain[i].sock = 0 \/ Stale(chain[i]))
                => \A i \in DOMAIN chain' : chain'[i].sock = 0 \/ Stale(chain[i])'
<1>1. TypeOK /\ QueueInOrder
    BY DEF IndInv
<1>2. /\ chain' \in Seq(Reports) /\ Len(chain') = Len(chain) - 1
      /\ \A i \in DOMAIN chain' : i + 1 \in DOMAIN chain /\ chain'[i] = chain[i + 1]
      /\ \A i \in DOMAIN chain' : chain'[i].pc = "queued"
      /\ chain' # <<>> => removal' = removal
      /\ removal' \in Nat
    BY <1>1, LeaveFacts
<1>3. /\ chain \in Seq(Reports) /\ 1 \in DOMAIN chain /\ DOMAIN chain' = 1..Len(chain')
      /\ \A i \in DOMAIN chain' : chain' # <<>>
    BY <1>1, <1>2 DEF TypeOK
<1>4. \A i \in DOMAIN chain : chain[i].id \in Nat
  <2>1. \A i \in DOMAIN chain : chain[i] \in Reports
    BY <1>3
  <2> QED BY <2>1, LiveAssumption DEF Reports
<1>5. ASSUME NEW i \in DOMAIN chain' PROVE Head1.id < chain'[i].id
  <2>1. i + 1 \in DOMAIN chain /\ 1 < i + 1
    BY <1>2, <1>3
  <2>2. chain[1].id < chain[i + 1].id
    BY <1>1, <1>3, <2>1 DEF QueueInOrder
  <2> QED BY <1>2, <2>2 DEF Head1
<1>6. QueueInOrder'
  <2>1. ASSUME NEW i \in DOMAIN chain'
        PROVE  /\ chain'[i].id \in (acked' + 1)..arrived' /\ chain'[i].sock <= connects'
               /\ chain'[i].rv <= removal' /\ chain'[i].xv <= restores'
    BY <1>1, <1>2, <1>3, <1>4, <1>5 DEF QueueInOrder, Head1
  <2>2. ASSUME NEW i \in DOMAIN chain', NEW j \in DOMAIN chain', i < j
        PROVE  chain'[i].id < chain'[j].id
    BY <1>1, <1>2, <1>3, <2>2 DEF QueueInOrder
  <2> QED BY <2>1, <2>2 DEF QueueInOrder
<1>7. HeadIsKept'
    BY <1>2, <1>3 DEF HeadIsKept, Head1
<1>8. (\A i \in DOMAIN chain : chain[i].sock = 0 \/ Stale(chain[i]))
         => \A i \in DOMAIN chain' : chain'[i].sock = 0 \/ Stale(chain[i])'
  <2> SUFFICES ASSUME \A i \in DOMAIN chain : chain[i].sock = 0 \/ Stale(chain[i]),
                      NEW i \in DOMAIN chain'
               PROVE  chain'[i].sock = 0 \/ Stale(chain[i])'
    OBVIOUS
  <2>1. chain[i + 1].sock = 0 \/ Stale(chain[i + 1])
    BY <1>2
  <2>2. chain'[i] = chain[i + 1] /\ removal' = removal
    BY <1>2, <1>3
  <2> QED BY <2>1, <2>2 DEF Stale
<1>9. Len(chain') <= MaxQueue
    BY <1>1, <1>2, <1>3, LiveAssumption DEF TypeOK
<1> QED BY <1>2, <1>6, <1>7, <1>8, <1>9

memoryVars == <<clients, known, sock, att, pub>>
controlVars == <<meta, complete, cred, removing, restores>>

\* The head leaves, and what it leaves in storage and as acknowledged is kept.
LEMMA LeaveInv ==
    ASSUME IndInv, chain # <<>>, Leave,
           UNCHANGED <<controlVars, memoryVars, streak, timeVars, connects>>,
           stored' \in Entries, IsKept(stored'),
           acked' \in 0..arrived, acked' <= Head1.id, acked' <= stored'.time,
           NewerThan(acked'),
           Gone \/ removing # "no" => acked' = 0,
           meta = "removed" \/ removing # "no" => stored' = None
    PROVE  IndInv'
<1> USE DEF memoryVars, controlVars, timeVars
<1>1. /\ chain' \in Seq(Reports) /\ Len(chain') <= MaxQueue
      /\ \A i \in DOMAIN chain' : chain'[i].pc = "queued"
      /\ removal' \in Nat /\ QueueInOrder' /\ HeadIsKept'
      /\ (\A i \in DOMAIN chain : chain[i].sock = 0 \/ Stale(chain[i]))
           => \A i \in DOMAIN chain' : chain'[i].sock = 0 \/ Stale(chain[i])'
    BY LeaveQueue
<1>2. TypeOK'
    BY <1>1 DEF IndInv, TypeOK
<1>3. /\ connects' \in 0..MaxConnects /\ sock' <= connects'
      /\ HiddenFromPublic' /\ OnlineMeansConnected'
    BY DEF IndInv, HiddenFromPublic, OnlineMeansConnected
<1>4. EntriesAreReports'
    BY DEF IndInv, EntriesAreReports
<1>5. AcknowledgedIsKept'
    BY DEF AcknowledgedIsKept, NewerThan
<1>6. GoneIsForgotten'
    BY <1>1 DEF IndInv, GoneIsForgotten, Gone
<1>7. RemovingIsClosed'
    BY <1>1 DEF IndInv, RemovingIsClosed
<1>8. WriteIsTakenBack'
    BY DEF IndInv, WriteIsTakenBack
<1> QED BY <1>1, <1>2, <1>3, <1>4, <1>5, <1>6, <1>7, <1>8 DEF IndInv

\* The head moves on to a step before the last one.
LEMMA AdvanceInv ==
    ASSUME IndInv, chain # <<>>,
           NEW pc \in {"update", "write", "check", "retire"}, NEW h \in BOOLEAN, Advance(pc, h),
           UNCHANGED <<controlVars, memoryVars, removal, streak, timeVars, acked, connects>>,
           stored' \in Entries, IsKept(stored'), acked <= stored'.time,
           Head1.pc = "queued" => Current(Head1) /\ ~Gone /\ removing = "no",
           pc = "check" => stored'.time = Head1.id,
           meta = "removed" \/ removing # "no" => stored' = None \/ pc \in {"check", "retire"}
    PROVE  IndInv'
<1> USE DEF memoryVars, controlVars, timeVars
<1>0. TypeOK /\ HeadIsKept
    BY DEF IndInv
<1>1. /\ chain' \in Seq(Reports) /\ Len(chain') <= MaxQueue
      /\ \A i \in 2..Len(chain') : chain'[i].pc = "queued"
      /\ QueueInOrder'
      /\ chain' # <<>> /\ Head1' = [Head1 EXCEPT !.pc = pc, !.hidden = h]
      /\ Head1 \in Reports /\ Head1' \in Reports /\ Current(Head1)' = Current(Head1)
      /\ \A i \in DOMAIN chain' : i # 1 => i \in DOMAIN chain /\ chain'[i] = chain[i]
      /\ 1 \in DOMAIN chain /\ 1 \in DOMAIN chain'
    BY AdvanceQueue DEF Pcs
<1>2. TypeOK'
    BY <1>1 DEF IndInv, TypeOK
<1>3. /\ connects' \in 0..MaxConnects /\ sock' <= connects'
      /\ HiddenFromPublic' /\ OnlineMeansConnected'
    BY DEF IndInv, HiddenFromPublic, OnlineMeansConnected
<1>4. EntriesAreReports'
    BY DEF IndInv, EntriesAreReports
<1>5. AcknowledgedIsKept'
    BY DEF IndInv, AcknowledgedIsKept, NewerThan
<1>6. /\ Head1'.pc = pc /\ Head1'.id = Head1.id /\ Head1'.sock = Head1.sock
      /\ Head1'.rv = Head1.rv /\ Head1'.xv = Head1.xv
    BY <1>1 DEF Reports
<1>7. HeadIsKept'
    BY <1>0, <1>1, <1>6 DEF HeadIsKept
<1>8. ASSUME Gone \/ removing # "no"
      PROVE  Stale(Head1)
    BY <1>1, <1>8 DEF IndInv, GoneIsForgotten, Head1
<1>9. GoneIsForgotten'
    BY <1>1, <1>6, <1>8 DEF IndInv, GoneIsForgotten, Gone, Stale, Head1
<1>10. RemovingIsClosed'
    BY <1>1, <1>6 DEF IndInv, RemovingIsClosed, Stale, Head1
<1>11. WriteIsTakenBack'
    BY <1>1, <1>6 DEF IndInv, WriteIsTakenBack, AtHead
<1> QED BY <1>1, <1>2, <1>3, <1>4, <1>5, <1>7, <1>9, <1>10, <1>11 DEF IndInv

\* What the report at the head is, and what the invariant says about it.
LEMMA HeadFacts ==
    ASSUME IndInv, chain # <<>>
    PROVE  /\ TypeOK /\ Head1 \in Reports /\ 1 \in DOMAIN chain
           /\ Head1.id \in 1..arrived /\ Head1.id > acked /\ acked \in 0..arrived
           /\ Head1.sock \in 0..connects /\ Head1.hidden \in BOOLEAN
           /\ Current(Head1) <=> ~Stale(Head1)
           /\ (Gone \/ removing # "no") /\ Head1.pc # "queued" => Stale(Head1)
           /\ removing # "no" => Head1.sock = 0 \/ Stale(Head1)
<1>1. TypeOK /\ Head1 \in Reports /\ 1 \in DOMAIN chain
    BY DEF IndInv, TypeOK, Head1
<1>2. /\ Head1.id \in (acked + 1)..arrived /\ Head1.sock <= connects
      /\ Head1.rv <= removal /\ Head1.xv <= restores
    BY <1>1 DEF IndInv, QueueInOrder, Head1
<1>3. Current(Head1) <=> ~Stale(Head1)
  <2>1. Head1.rv \in Nat /\ Head1.xv \in Nat /\ removal \in Nat /\ restores \in Nat
    BY <1>1 DEF Reports, TypeOK
  <2> QED BY <1>2, <2>1 DEF Current, Stale
<1>4. /\ (Gone \/ removing # "no") /\ Head1.pc # "queued" => Stale(Head1)
      /\ removing # "no" => Head1.sock = 0 \/ Stale(Head1)
    BY <1>1 DEF IndInv, GoneIsForgotten, RemovingIsClosed, Head1
<1>5. Head1.sock \in Nat /\ Head1.hidden \in BOOLEAN /\ acked \in 0..arrived
    BY <1>1, LiveAssumption DEF Reports, TypeOK
<1> QED BY <1>1, <1>2, <1>3, <1>4, <1>5, LiveAssumption DEF IndInv, TypeOK

\* A report that goes without having written leaves storage as it is.
LEMMA LeaveQuietly ==
    ASSUME IndInv, chain # <<>>, Head1.pc \notin {"check", "retire"}, Leave,
           UNCHANGED <<controlVars, memoryVars, stored, streak, timeVars, acked, connects>>
    PROVE  IndInv'
<1>1. /\ acked \in 0..arrived /\ acked <= Head1.id /\ acked <= stored.time /\ NewerThan(acked)
      /\ stored \in Entries /\ IsKept(stored)
    BY HeadFacts, LiveAssumption
       DEF IndInv, AcknowledgedIsKept, EntriesAreReports, TypeOK
<1>2. /\ Gone \/ removing # "no" => acked = 0
      /\ meta = "removed" \/ removing # "no" => stored = None
    BY DEF IndInv, GoneIsForgotten, WriteIsTakenBack, AtHead
<1> QED BY <1>1, <1>2, LeaveInv DEF timeVars

LEMMA BeginInv == ASSUME IndInv, Begin PROVE IndInv'
<1>1. chain # <<>> /\ Head1.pc = "queued"
    BY DEF Begin, AtHead
<1>2. CASE Leave
    BY <1>1, <1>2, LeaveQuietly DEF Begin, controlVars, memoryVars, boundVars
<1>3. CASE /\ Current(Head1) /\ (Head1.sock = 0 => cred) /\ ~Gone
           /\ Advance("update", Resolved(Head1.hidden)) /\ UNCHANGED removal
  <2>1. removing = "no"
    BY <1>1, <1>3, HeadFacts DEF IndInv, RemovingIsClosed
  <2>2. Resolved(Head1.hidden) \in BOOLEAN
    BY <1>1, HeadFacts, ResolvedFacts
  <2>3. stored \in Entries /\ IsKept(stored) /\ acked <= stored.time /\ meta # "removed"
    BY <1>3 DEF IndInv, TypeOK, EntriesAreReports, AcknowledgedIsKept, Gone
  <2> QED BY <1>1, <1>3, <2>1, <2>2, <2>3, AdvanceInv
          DEF Begin, controlVars, memoryVars, boundVars
<1> QED BY <1>2, <1>3 DEF Begin

LEMMA UpdateInv == ASSUME IndInv, Update PROVE IndInv'
<1>1. chain # <<>> /\ Head1.pc = "update"
    BY DEF Update, AtHead
<1>2. CASE Leave
    BY <1>1, <1>2, LeaveQuietly DEF Update, controlVars, memoryVars, boundVars
<1>3. CASE /\ Current(Head1) /\ ~Gone
           /\ Advance("write", Resolved(Head1.hidden)) /\ UNCHANGED removal
  <2>1. removing = "no"
    BY <1>1, <1>3, HeadFacts
  <2>2. Resolved(Head1.hidden) \in BOOLEAN
    BY <1>1, HeadFacts, ResolvedFacts
  <2>3. stored \in Entries /\ IsKept(stored) /\ acked <= stored.time /\ meta # "removed"
    BY <1>3 DEF IndInv, TypeOK, EntriesAreReports, AcknowledgedIsKept, Gone
  <2> QED BY <1>1, <1>3, <2>1, <2>2, <2>3, AdvanceInv
          DEF Update, controlVars, memoryVars, boundVars
<1> QED BY <1>2, <1>3 DEF Update

LEMMA EntryOfFacts ==
    ASSUME NEW r \in Reports
    PROVE  /\ EntryOf(r) \in Entries /\ IsKept(EntryOf(r)) /\ EntryOf(r) # None
           /\ EntryOf(r).time = r.id /\ EntryOf(r).hidden = r.hidden
           /\ ~EntryOf(r).exp => r.sock # 0
<1> DEFINE s == r.sock = 0
           w == r.sock # 0
<1>1. s \in BOOLEAN /\ w \in BOOLEAN /\ (s \/ w) /\ (~s => r.sock # 0)
    OBVIOUS
<1>2. EntryOf(r) = [time |-> r.id, hidden |-> r.hidden, exp |-> s, ws |-> w]
    BY DEF EntryOf
<1>3. r.id \in 1..MaxReports /\ r.hidden \in BOOLEAN
    BY DEF Reports
<1> HIDE DEF s, w
<1> QED BY <1>1, <1>2, <1>3, LiveAssumption DEF Entries, IsKept, None

LEMMA WriteInv == ASSUME IndInv, Write PROVE IndInv'
<1>1. chain # <<>> /\ Head1.pc = "write"
    BY DEF Write, AtHead
<1>2. /\ stored' \in Entries /\ IsKept(stored') /\ stored'.time = Head1.id
      /\ acked <= stored'.time /\ Head1.hidden \in BOOLEAN
    BY <1>1, HeadFacts, EntryOfFacts, LiveAssumption DEF Write, TypeOK
<1> QED BY <1>1, <1>2, AdvanceInv DEF Write, controlVars, memoryVars, boundVars

LEMMA RetireInv == ASSUME IndInv, Retire PROVE IndInv'
<1>1. chain # <<>> /\ Head1.pc = "retire"
    BY DEF Retire, AtHead
<1>2. /\ known \in Entries /\ IsKept(known) /\ acked <= known.time /\ NewerThan(acked)
      /\ acked \in 0..arrived /\ acked <= Head1.id
    BY <1>1, HeadFacts DEF IndInv, TypeOK, EntriesAreReports, AcknowledgedIsKept, NewerThan
<1>3. stored' \in Entries /\ IsKept(stored')
    BY <1>1, <1>2, HeadFacts, ControlledFacts, NoneType DEF Retire
<1>4. Gone \/ removing # "no" => acked = 0
    BY DEF IndInv, GoneIsForgotten
<1>5. acked <= stored'.time
  <2>1. CASE Current(Head1)
    BY <1>1, <1>2, <1>4, <2>1, HeadFacts, ControlledFacts, NoneType DEF Retire
  <2>2. CASE ~Current(Head1)
    BY <1>1, <2>2, NoneType DEF Retire, IndInv, HeadIsKept
  <2> QED BY <2>1, <2>2
<1>6. meta = "removed" \/ removing # "no" => stored' = None
    BY <1>1, <1>2, HeadFacts, ControlledFacts DEF Retire, Gone
<1> QED BY <1>1, <1>2, <1>3, <1>4, <1>5, <1>6, LeaveInv
        DEF Retire, controlVars, memoryVars, boundVars, timeVars

LEMMA AnswerInv == ASSUME IndInv, Answer PROVE IndInv'
<1>1. chain # <<>> /\ Head1.pc = "results"
    BY DEF Answer, AtHead
<1>2. CASE UNCHANGED acked
    BY <1>1, <1>2, LeaveQuietly DEF Answer, controlVars, memoryVars, boundVars
<1>3. CASE acked' = Head1.id /\ Current(Head1) /\ Head1.sock \in {0, sock}
  <2>1. /\ stored.time = Head1.id /\ NewerThan(Head1.id)
        /\ stored \in Entries /\ IsKept(stored)
    BY <1>1, <1>3 DEF IndInv, HeadIsKept, TypeOK, EntriesAreReports
  <2>2. Head1.id \in 0..arrived /\ ~Gone /\ removing = "no" /\ meta # "removed"
    BY <1>1, <1>3, HeadFacts, LiveAssumption DEF Gone, TypeOK
  <2>3. Head1.id <= Head1.id /\ Head1.id <= stored.time
    BY <2>1, <2>2
  <2> QED BY <1>1, <1>3, <2>1, <2>2, <2>3, LeaveInv
          DEF Answer, controlVars, memoryVars, boundVars, timeVars
<1> QED BY <1>2, <1>3 DEF Answer

LEMMA ResultsFailInv == ASSUME IndInv, ResultsFail PROVE IndInv'
<1>1. chain # <<>> /\ Head1.pc = "results"
    BY DEF ResultsFail, AtHead
<1> QED BY <1>1, LeaveQuietly DEF ResultsFail, controlVars, memoryVars

\* Memory, the socket and the visitors change; storage, the queue and the administrator's
\* decisions do not.
LEMMA MemoryInv ==
    ASSUME IndInv,
           UNCHANGED <<controlVars, chain, removal, stored, timeVars, acked>>,
           streak' \in 0..MaxStreak, pub' \in BOOLEAN, HiddenFromPublic',
           clients' \in Entries, known' \in Entries, att' \in Entries,
           connects' \in connects..MaxConnects, sock' \in 0..connects',
           removing # "no" => sock' = 0,
           sock' \in {0, sock} \/ sock' > connects,
           IsKept(clients'), IsKept(known'), OnlineMeansConnected',
           Gone \/ removing # "no" => clients' = None /\ known' = None,
           \A n \in Nat : NewerThan(n) => NewerThan(n)'
    PROVE  IndInv'
<1> USE DEF controlVars, timeVars
<1>1. TypeOK'
    BY LiveAssumption DEF IndInv, TypeOK
<1>2. connects' \in 0..MaxConnects /\ sock' <= connects'
    BY LiveAssumption DEF IndInv
<1>3. QueueInOrder'
  <2>1. ASSUME NEW i \in DOMAIN chain PROVE chain[i].sock <= connects'
    <3>1. chain[i] \in Reports /\ chain[i].sock <= connects
        BY DEF IndInv, TypeOK, QueueInOrder
    <3>2. chain[i].sock \in Nat
        BY <3>1, LiveAssumption DEF Reports
    <3> QED BY <3>1, <3>2, LiveAssumption DEF IndInv
  <2> QED BY <2>1 DEF IndInv, QueueInOrder
<1>4. EntriesAreReports'
    BY DEF IndInv, EntriesAreReports
<1>5. AcknowledgedIsKept'
  <2>1. acked \in Nat
    BY DEF IndInv, TypeOK
  <2> QED BY <2>1 DEF IndInv, AcknowledgedIsKept
<1>6. HeadIsKept'
  <2> SUFFICES ASSUME chain # <<>>, Head1.pc = "results", Current(Head1),
                      Head1.sock \in {0, sock'}
               PROVE  NewerThan(Head1.id)'
    BY DEF IndInv, HeadIsKept, Head1, Current
  <2>1. Head1.id \in Nat /\ Head1.sock \in 0..connects
    BY HeadFacts
  <2>2. Head1.sock \in {0, sock}
    BY <2>1, LiveAssumption DEF IndInv
  <2>3. NewerThan(Head1.id)
    BY <2>2 DEF IndInv, HeadIsKept
  <2> QED BY <2>1, <2>3 DEF NewerThan, Head1
<1>7. GoneIsForgotten' /\ RemovingIsClosed' /\ WriteIsTakenBack'
    BY DEF IndInv, GoneIsForgotten, RemovingIsClosed, WriteIsTakenBack, Gone, Stale, AtHead, Head1
<1> QED BY <1>1, <1>2, <1>3, <1>4, <1>5, <1>6, <1>7 DEF IndInv

\* What visitors are told about a node.
LEMMA ShownFacts ==
    ASSUME TypeOK, HiddenFromPublic, UNCHANGED meta, NEW h \in BOOLEAN, Shown(h),
           meta \in {"hidden", "removed"} => h
    PROVE  pub' \in BOOLEAN /\ HiddenFromPublic'
BY DEF Shown, TypeOK, HiddenFromPublic

LEMMA ShownOfflineFacts ==
    ASSUME TypeOK, HiddenFromPublic, UNCHANGED meta, NEW e \in Entries, ShownOffline(e)
    PROVE  pub' \in BOOLEAN /\ HiddenFromPublic'
<1>1. CASE Controlled(e) = None
    BY <1>1 DEF ShownOffline, TypeOK, HiddenFromPublic
<1>2. CASE Controlled(e) # None
  <2>1. ~Gone /\ e # None
    BY <1>2, ControlledFacts
  <2>2. /\ Controlled(e).hidden \in BOOLEAN
        /\ meta \in {"hidden", "removed"} => Controlled(e).hidden
    BY <2>1, ControlledFacts DEF Entries, Gone
  <2> QED BY <1>2, <2>2, ShownFacts DEF ShownOffline
<1> QED BY <1>1, <1>2

\* A socket closes, in its handler or with a refused report.
LEMMA DisconnectedInv ==
    ASSUME IndInv, sock # 0, Disconnected,
           UNCHANGED <<controlVars, chain, removal, stored, known, streak, timeVars, acked,
                       connects>>
    PROVE  IndInv'
<1>1. TypeOK /\ HiddenFromPublic
    BY DEF IndInv
<1>2. pub' \in BOOLEAN /\ HiddenFromPublic'
    BY <1>1, ShownOfflineFacts DEF Disconnected, TypeOK, controlVars
<1>3. /\ clients' = None /\ known' = known /\ sock' = 0 /\ att' = None
      /\ None \in Entries /\ IsKept(None)
    BY NoneType DEF Disconnected
<1>4. /\ known \in Entries /\ IsKept(known) /\ streak \in 0..MaxStreak
      /\ connects \in 0..MaxConnects
      /\ Gone \/ removing # "no" => known = None
    BY DEF IndInv, TypeOK, EntriesAreReports, GoneIsForgotten
<1>5. OnlineMeansConnected' /\ \A n \in Nat : NewerThan(n) => NewerThan(n)'
    BY <1>3 DEF OnlineMeansConnected, NewerThan
<1>6. connects' \in connects..MaxConnects /\ sock' \in 0..connects'
    BY <1>3, <1>4, LiveAssumption
<1> QED BY <1>2, <1>3, <1>4, <1>5, <1>6, MemoryInv

LEMMA SocketClosesInv == ASSUME IndInv, SocketCloses PROVE IndInv'
BY DisconnectedInv DEF SocketCloses, controlVars, boundVars

LEMMA AlarmInv == ASSUME IndInv, Alarm PROVE IndInv'
<1>1. TypeOK /\ HiddenFromPublic
    BY DEF IndInv
<1>2. pub' \in BOOLEAN /\ HiddenFromPublic'
    BY <1>1, ShownOfflineFacts DEF Alarm, TypeOK
<1>3. /\ clients' = None /\ known' = known /\ sock' = sock /\ att' = att
      /\ None \in Entries /\ IsKept(None)
    BY NoneType DEF Alarm
<1>4. /\ known \in Entries /\ IsKept(known) /\ streak \in 0..MaxStreak /\ att \in Entries
      /\ connects \in 0..MaxConnects /\ sock \in 0..connects
      /\ Gone \/ removing # "no" => known = None
      /\ removing # "no" => sock = 0
    BY LiveAssumption
       DEF IndInv, TypeOK, EntriesAreReports, GoneIsForgotten, RemovingIsClosed
<1>5. OnlineMeansConnected' /\ \A n \in Nat : NewerThan(n) => NewerThan(n)'
    BY <1>3 DEF OnlineMeansConnected, NewerThan
<1>6. connects' \in connects..MaxConnects /\ sock' \in 0..connects'
    BY <1>3, <1>4, LiveAssumption DEF Alarm, boundVars
<1> QED BY <1>2, <1>3, <1>4, <1>5, <1>6, MemoryInv DEF Alarm, controlVars, boundVars

\* What the invariant says about memory.
LEMMA MemoryFacts ==
    ASSUME IndInv
    PROVE  /\ TypeOK /\ HiddenFromPublic /\ OnlineMeansConnected
           /\ clients \in Entries /\ known \in Entries /\ stored \in Entries /\ att \in Entries
           /\ IsKept(clients) /\ IsKept(known) /\ IsKept(stored)
           /\ streak \in 0..MaxStreak /\ pub \in BOOLEAN
           /\ connects \in 0..MaxConnects /\ connects \in connects..MaxConnects
           /\ sock \in 0..connects /\ (removing # "no" => sock = 0)
           /\ Gone \/ removing # "no" => clients = None /\ known = None
BY LiveAssumption DEF IndInv, TypeOK, EntriesAreReports, GoneIsForgotten, RemovingIsClosed

LEMMA InferNetworkInv == ASSUME IndInv, InferNetwork PROVE IndInv'
<1> DEFINE e == Controlled(clients)
<1>1. e # None /\ clients' = e /\ known' = e /\ Shown(e.hidden)
    BY DEF InferNetwork
<1>2. clients # None /\ ~Gone
    BY <1>1, MemoryFacts, ControlledFacts
<1>3. /\ e \in Entries /\ IsKept(e) /\ e.time = clients.time /\ e.exp = clients.exp
      /\ e.hidden \in BOOLEAN /\ (meta \in {"hidden", "removed"} => e.hidden)
    BY <1>2, MemoryFacts, ControlledFacts DEF Entries, Gone
<1> HIDE DEF e
<1>4. pub' \in BOOLEAN /\ HiddenFromPublic'
    BY <1>1, <1>3, MemoryFacts, ShownFacts DEF InferNetwork
<1>5. att' \in Entries
  <2>1. att' \in {att, [e EXCEPT !.ws = TRUE]}
    BY DEF InferNetwork, e
  <2> QED BY <1>3, <2>1, MemoryFacts DEF Entries
<1>6. OnlineMeansConnected' /\ sock' = sock
    BY <1>1, <1>2, <1>3, MemoryFacts DEF OnlineMeansConnected, InferNetwork
<1>7. \A n \in Nat : NewerThan(n) => NewerThan(n)'
    BY <1>1, <1>2, <1>3 DEF NewerThan
<1>8. removing = "no"
    BY <1>2, MemoryFacts
<1> QED BY <1>1, <1>2, <1>3, <1>4, <1>5, <1>6, <1>7, <1>8, MemoryFacts, MemoryInv
        DEF InferNetwork, controlVars, boundVars

LEMMA ConnectInv == ASSUME IndInv, Connect PROVE IndInv'
<1>1. /\ cred /\ connects' = connects + 1 /\ sock' = connects + 1
      /\ connects' \in connects..MaxConnects /\ sock' \in 0..connects' /\ sock' > connects
    BY MemoryFacts, LiveAssumption DEF Connect
<1>2. removing = "no"
    BY <1>1 DEF IndInv, RemovingIsClosed
<1>3. att' \in Entries
    BY NoneType DEF Connect, Entries
<1>4. OnlineMeansConnected' /\ HiddenFromPublic'
    BY <1>1, MemoryFacts DEF Connect, OnlineMeansConnected, HiddenFromPublic
<1>5. \A n \in Nat : NewerThan(n) => NewerThan(n)'
    BY DEF NewerThan, Connect
<1> QED BY <1>1, <1>2, <1>3, <1>4, <1>5, MemoryFacts, MemoryInv
        DEF Connect, controlVars

\* Memory stays as it is.
LEMMA QuietInv ==
    ASSUME IndInv,
           UNCHANGED <<controlVars, chain, removal, stored, timeVars, acked,
                       clients, known, sock, att, connects>>,
           streak' \in 0..MaxStreak, pub' \in BOOLEAN, HiddenFromPublic'
    PROVE  IndInv'
<1>1. OnlineMeansConnected' /\ \A n \in Nat : NewerThan(n) => NewerThan(n)'
    BY MemoryFacts DEF OnlineMeansConnected, NewerThan
<1> QED BY <1>1, MemoryFacts, MemoryInv

LEMMA ViewerConnectsInv == ASSUME IndInv, ViewerConnects PROVE IndInv'
<1> DEFINE c == IF Expired(clients) THEN None ELSE clients
<1>1. pub' = Visible(c, known) /\ c \in Entries /\ known \in Entries
    BY MemoryFacts, NoneType DEF ViewerConnects
<1> HIDE DEF c
<1>2. pub' \in BOOLEAN
    BY <1>1 DEF Visible
<1>3. ASSUME pub' PROVE meta \notin {"hidden", "removed"}
  <2>1. PICK e \in {c, known} : Controlled(e) # None /\ ~Controlled(e).hidden
    BY <1>1, <1>3 DEF Visible
  <2>2. ~Gone /\ meta # "hidden"
    BY <1>1, <2>1, MemoryFacts, ControlledFacts
  <2> QED BY <2>2 DEF Gone
<1>4. HiddenFromPublic'
    BY <1>3 DEF HiddenFromPublic, ViewerConnects
<1> QED BY <1>2, <1>4, QuietInv, MemoryFacts DEF ViewerConnects, controlVars, boundVars

LEMMA EvaluateOfflineInv == ASSUME IndInv, EvaluateOffline PROVE IndInv'
<1>1. streak' \in 0..MaxStreak
    BY MemoryFacts, LiveAssumption DEF EvaluateOffline
<1>2. HiddenFromPublic' /\ pub' \in BOOLEAN
    BY MemoryFacts DEF HiddenFromPublic, EvaluateOffline
<1> QED BY <1>1, <1>2, QuietInv DEF EvaluateOffline, controlVars, boundVars

LEMMA TimePassesInv == ASSUME IndInv, TimePasses PROVE IndInv'
<1>1. TypeOK'
    BY DEF IndInv, TypeOK, TimePasses, boundVars
<1> QED BY <1>1 DEF IndInv, TimePasses, boundVars, HiddenFromPublic, OnlineMeansConnected,
           QueueInOrder, EntriesAreReports, AcknowledgedIsKept, NewerThan, HeadIsKept, Head1,
           Current, GoneIsForgotten, Gone, Stale, RemovingIsClosed, WriteIsTakenBack, AtHead

\* The report is the newest: memory, the attachment and the visitors follow.
LEMMA CheckEndsInv ==
    ASSUME IndInv, AtHead("check"), Current(Head1), ~Gone,
           Resolved(Head1.hidden) = Head1.hidden, Advance("results", Head1.hidden),
           known' = EntryOf(Head1), Shown(Head1.hidden),
           clients' = IF Head1.sock \in {0, sock} THEN EntryOf(Head1) ELSE clients,
           att' = IF sock # 0 /\ Head1.sock = sock THEN EntryOf(Head1) ELSE att,
           UNCHANGED <<controlVars, stored, sock, removal, streak, timeVars, acked, connects>>
    PROVE  IndInv'
<1> USE DEF controlVars, timeVars
<1> DEFINE e == EntryOf(Head1)
<1>1. chain # <<>> /\ Head1.pc = "check"
    BY DEF AtHead
<1>2. /\ e \in Entries /\ IsKept(e) /\ e # None /\ e.time = Head1.id
      /\ ~e.exp => Head1.sock # 0
    BY <1>1, HeadFacts, EntryOfFacts
<1> HIDE DEF e
<1>3. removing = "no" /\ meta # "removed"
    BY <1>1, HeadFacts DEF Gone
<1>4. pub' \in BOOLEAN /\ HiddenFromPublic'
    BY <1>1, <1>3, HeadFacts, MemoryFacts, ResolvedFacts, ShownFacts
<1>5. /\ chain' \in Seq(Reports) /\ Len(chain') <= MaxQueue
      /\ \A i \in 2..Len(chain') : chain'[i].pc = "queued"
      /\ QueueInOrder'
      /\ chain' # <<>> /\ Head1' = [Head1 EXCEPT !.pc = "results", !.hidden = Head1.hidden]
      /\ Head1 \in Reports /\ Current(Head1)' = Current(Head1)
    BY <1>1, HeadFacts, AdvanceQueue DEF Pcs
<1>6. Head1'.pc = "results" /\ Head1'.id = Head1.id /\ Head1'.sock = Head1.sock
    BY <1>5 DEF Reports
<1>7. clients' \in Entries /\ known' \in Entries /\ att' \in Entries
    BY <1>2, MemoryFacts DEF e
<1>8. TypeOK'
    BY <1>4, <1>5, <1>7 DEF IndInv, TypeOK
<1>9. connects' \in 0..MaxConnects /\ sock' <= connects'
    BY DEF IndInv
<1>10. OnlineMeansConnected'
    BY <1>2, MemoryFacts DEF OnlineMeansConnected, e
<1>11. EntriesAreReports'
    BY <1>2, MemoryFacts DEF EntriesAreReports, e
<1>12. stored.time = Head1.id
    BY <1>1 DEF IndInv, HeadIsKept
<1>13. Head1.id \in Nat /\ acked \in Nat /\ Head1.id > acked
    BY <1>1, HeadFacts
<1>14. AcknowledgedIsKept'
    BY <1>2, <1>13 DEF AcknowledgedIsKept, NewerThan, IndInv, e
<1>15. HeadIsKept'
    BY <1>2, <1>5, <1>6, <1>12, <1>13 DEF HeadIsKept, NewerThan, e
<1>16. GoneIsForgotten' /\ RemovingIsClosed' /\ WriteIsTakenBack'
    BY <1>3 DEF GoneIsForgotten, RemovingIsClosed, WriteIsTakenBack, Gone
<1> QED BY <1>4, <1>5, <1>8, <1>9, <1>10, <1>11, <1>14, <1>15, <1>16 DEF IndInv

LEMMA CheckInv == ASSUME IndInv, Check PROVE IndInv'
<1> USE DEF controlVars, memoryVars, boundVars
<1>1. chain # <<>> /\ Head1.pc = "check"
    BY DEF Check, AtHead
<1>2. /\ stored \in Entries /\ IsKept(stored) /\ acked <= stored.time
      /\ Head1.hidden \in BOOLEAN /\ Resolved(Head1.hidden) \in BOOLEAN
    BY <1>1, HeadFacts, MemoryFacts, ResolvedFacts DEF IndInv, AcknowledgedIsKept
<1>3. CASE ~Current(Head1) \/ Gone
    BY <1>1, <1>2, <1>3, AdvanceInv DEF Check
<1>4. CASE Current(Head1) /\ ~Gone /\ Resolved(Head1.hidden) # Head1.hidden
  <2>1. removing = "no" /\ meta # "removed"
    BY <1>1, <1>4, HeadFacts DEF Gone
  <2> QED BY <1>1, <1>2, <1>4, <2>1, AdvanceInv DEF Check
<1>5. CASE Current(Head1) /\ ~Gone /\ Resolved(Head1.hidden) = Head1.hidden
  <2>1. EntryOf(Head1).hidden = Head1.hidden
    BY <1>1, HeadFacts, EntryOfFacts
  <2> QED BY <1>5, <2>1, CheckEndsInv DEF Check
<1> QED BY <1>3, <1>4, <1>5

\* A report arrives.
LEMMA EnqueueInv ==
    ASSUME IndInv, NEW s \in 0..connects, NEW h \in BOOLEAN, Enqueue(s, h),
           removing # "no" => s = 0,
           UNCHANGED <<controlVars, memoryVars, stored, removal, streak, ttl, old, acked,
                       connects>>
    PROVE  IndInv'
<1> USE DEF controlVars, memoryVars
<1> DEFINE n == Len(chain) + 1
<1>1. TypeOK /\ chain \in Seq(Reports) /\ s \in 0..MaxConnects
    BY LiveAssumption DEF IndInv, TypeOK
<1>2. /\ chain' \in Seq(Reports) /\ Len(chain') = n /\ Len(chain') <= MaxQueue
      /\ \A i \in DOMAIN chain : i \in DOMAIN chain' /\ chain'[i] = chain[i]
      /\ chain'[n].id = arrived + 1 /\ chain'[n].sock = s /\ chain'[n].pc = "queued"
      /\ chain'[n].rv = removal /\ chain'[n].xv = restores
      /\ arrived' = arrived + 1 /\ arrived' \in 0..MaxReports
      /\ chain # <<>> => Head1' = Head1
    BY <1>1, EnqueueFacts
<1>3. /\ DOMAIN chain' = 1..n /\ DOMAIN chain = 1..(n - 1) /\ n \in Nat \ {0}
      /\ \A i \in DOMAIN chain' : i \in DOMAIN chain \/ i = n
    BY <1>1, <1>2
<1> HIDE DEF n
<1>4. TypeOK'
  <2>1. ASSUME NEW i \in 2..Len(chain')
        PROVE  chain'[i].pc = "queued"
    <3>1. CASE i = n
        BY <1>2, <3>1
    <3>2. CASE i # n
        BY <1>1, <1>2, <1>3, <3>2 DEF TypeOK
    <3> QED BY <3>1, <3>2
  <2>2. /\ arrived \in Nat /\ ttl \in 0..arrived /\ old \in 0..arrived /\ acked \in 0..arrived
        /\ ttl' = ttl /\ old' = old /\ acked' = acked
    BY <1>1, LiveAssumption DEF TypeOK
  <2>3. ttl' \in 0..arrived' /\ old' \in 0..arrived' /\ acked' \in 0..arrived'
    BY <1>2, <2>2
  <2>4. restores' = restores
    OBVIOUS
  <2> QED BY <1>1, <1>2, <2>1, <2>3, <2>4 DEF TypeOK
<1>5. \A i \in DOMAIN chain : chain[i].id \in Nat
  <2>1. \A i \in DOMAIN chain : chain[i] \in Reports
    BY <1>1
  <2> QED BY <2>1, LiveAssumption DEF Reports
<1>6. QueueInOrder'
  <2>1. acked \in 0..arrived /\ arrived \in Nat /\ connects \in Nat /\ QueueInOrder
        /\ removal \in Nat /\ restores \in Nat
    BY LiveAssumption DEF IndInv, TypeOK
  <2>2. ASSUME NEW i \in DOMAIN chain'
        PROVE  /\ chain'[i].id \in (acked' + 1)..arrived' /\ chain'[i].sock <= connects'
               /\ chain'[i].rv <= removal' /\ chain'[i].xv <= restores'
    BY <1>2, <1>3, <1>5, <2>1 DEF QueueInOrder
  <2>3. ASSUME NEW i \in DOMAIN chain', NEW j \in DOMAIN chain', i < j
        PROVE  chain'[i].id < chain'[j].id
    <3>1. i \in DOMAIN chain /\ chain[i].id \in (acked + 1)..arrived
        BY <1>3, <2>1, <2>3 DEF QueueInOrder
    <3>2. CASE j = n
        BY <1>2, <2>1, <3>1, <3>2
    <3>3. CASE j # n
        BY <1>2, <1>3, <2>1, <2>3, <3>1, <3>3 DEF QueueInOrder
    <3> QED BY <3>2, <3>3
  <2> QED BY <2>2, <2>3 DEF QueueInOrder
<1>7. chain' # <<>> /\ (chain = <<>> => Head1'.pc = "queued")
    BY <1>1, <1>2, <1>3 DEF Head1
<1>8. HeadIsKept'
    BY <1>2, <1>7 DEF IndInv, HeadIsKept, Current, NewerThan
<1>9. GoneIsForgotten'
    BY <1>2, <1>3 DEF IndInv, GoneIsForgotten, Gone, Stale
<1>10. RemovingIsClosed'
    BY <1>2, <1>3 DEF IndInv, RemovingIsClosed, Stale
<1>11. WriteIsTakenBack'
    BY <1>2, <1>7 DEF IndInv, WriteIsTakenBack, AtHead
<1>12. /\ connects' \in 0..MaxConnects /\ sock' <= connects' /\ HiddenFromPublic'
       /\ OnlineMeansConnected' /\ EntriesAreReports' /\ AcknowledgedIsKept'
    BY DEF IndInv, HiddenFromPublic, OnlineMeansConnected, EntriesAreReports,
           AcknowledgedIsKept, NewerThan
<1> QED BY <1>4, <1>6, <1>8, <1>9, <1>10, <1>11, <1>12 DEF IndInv

LEMMA WsReportInv == ASSUME IndInv, WsReport PROVE IndInv'
<1> USE DEF controlVars, memoryVars, boundVars, timeVars
<1>1. CASE Disconnected /\ UNCHANGED <<arrived, chain>>
    BY <1>1, DisconnectedInv DEF WsReport
<1>2. CASE Enqueue(sock, att.hidden) /\ UNCHANGED <<clients, sock, att, pub>>
  <2>1. sock \in 0..connects /\ att.hidden \in BOOLEAN /\ (removing # "no" => sock = 0)
    BY MemoryFacts DEF Entries
  <2> QED BY <1>2, <2>1, EnqueueInv DEF WsReport
<1> QED BY <1>1, <1>2 DEF WsReport

LEMMA HttpReportInv == ASSUME IndInv, HttpReport PROVE IndInv'
<1>1. PICK h \in BOOLEAN : Enqueue(0, h)
    BY DEF HttpReport
<1>2. 0 \in 0..connects
    BY MemoryFacts
<1> QED BY <1>1, <1>2, EnqueueInv DEF HttpReport, controlVars, memoryVars, boundVars

LEMMA UpdateMetaInv == ASSUME IndInv, NEW h \in BOOLEAN, UpdateMeta(h) PROVE IndInv'
<1> USE DEF timeVars
<1> DEFINE online == clients # None /\ ~Expired(clients)
           kept == IF clients # None THEN clients ELSE known
           next == IF kept = None THEN None ELSE [kept EXCEPT !.hidden = h]
<1>1. /\ removing = "no" /\ meta' = IF h THEN "hidden" ELSE "shown"
      /\ cred' \in {TRUE, cred}
      /\ clients' = IF online THEN next ELSE None
      /\ known' = IF next = None THEN known ELSE next
      /\ att' = IF online /\ sock # 0 THEN [next EXCEPT !.ws = TRUE] ELSE att
      /\ pub' = IF h THEN FALSE ELSE pub \/ next # None
      /\ UNCHANGED <<complete, stored, sock, chain, removal, restores, removing, streak,
                     timeVars, acked, connects>>
    BY DEF UpdateMeta, Changing
<1>2. kept \in Entries /\ IsKept(kept)
    BY MemoryFacts
<1>3. /\ next \in Entries /\ IsKept(next) /\ (next = None <=> kept = None)
      /\ next.time = kept.time /\ next.exp = kept.exp
    BY <1>2, NoneType DEF Entries, IsKept, None
<1>4. online => kept = clients /\ clients # None
    OBVIOUS
<1>5. known' = IF kept = None THEN known ELSE next
    BY <1>1, <1>3
<1> HIDE DEF online, next
<1>6. pub' \in BOOLEAN /\ HiddenFromPublic'
  <2>1. CASE h
    BY <1>1, <2>1 DEF HiddenFromPublic
  <2>2. CASE ~h
    BY <1>1, <2>2, MemoryFacts DEF HiddenFromPublic
  <2> QED BY <2>1, <2>2
<1>7. clients' \in Entries /\ known' \in Entries /\ att' \in Entries
    BY <1>1, <1>3, MemoryFacts, NoneType DEF Entries
<1>8. IsKept(clients') /\ IsKept(known')
    BY <1>1, <1>3, MemoryFacts, NoneType
<1>9. OnlineMeansConnected'
    BY <1>1, <1>3, <1>4, MemoryFacts DEF OnlineMeansConnected
<1>10. \A n \in Nat : NewerThan(n) => NewerThan(n)'
    BY <1>1, <1>3, <1>4, <1>5, NoneType DEF NewerThan
<1>11. cred' \in BOOLEAN /\ meta' \in {"none", "shown", "hidden", "removed"}
    BY <1>1, MemoryFacts DEF TypeOK
<1>12. TypeOK'
    BY <1>1, <1>6, <1>7, <1>11 DEF IndInv, TypeOK
<1>13. EntriesAreReports'
    BY <1>1, <1>8, MemoryFacts DEF EntriesAreReports
<1>14. AcknowledgedIsKept'
    BY <1>1, <1>10 DEF IndInv, TypeOK, AcknowledgedIsKept
<1>15. HeadIsKept'
  <2> SUFFICES ASSUME chain # <<>>, Head1.pc = "results", Current(Head1),
                      Head1.sock \in {0, sock}
               PROVE  NewerThan(Head1.id)'
    BY <1>1 DEF IndInv, HeadIsKept, Head1, Current
  <2>1. Head1.id \in Nat /\ NewerThan(Head1.id)
    BY HeadFacts DEF IndInv, HeadIsKept
  <2> QED BY <1>1, <1>10, <2>1 DEF NewerThan, Head1
<1>16. GoneIsForgotten' /\ RemovingIsClosed' /\ WriteIsTakenBack'
    BY <1>1 DEF GoneIsForgotten, Gone, RemovingIsClosed, WriteIsTakenBack
<1>17. connects' \in 0..MaxConnects /\ sock' <= connects' /\ QueueInOrder'
    BY <1>1 DEF IndInv, QueueInOrder
<1> QED BY <1>6, <1>9, <1>12, <1>13, <1>14, <1>15, <1>16, <1>17 DEF IndInv

\* Everything about the node is forgotten, and the reports under way are overtaken.
LEMMA ForgottenInv ==
    ASSUME IndInv, UNCHANGED <<chain, arrived, ttl, old, connects>>,
           removal' \in Nat, restores' \in Nat, removal' >= removal, restores' >= restores,
           chain # <<>> => removal' > removal \/ restores' > restores,
           sock' = 0, att' = None, clients' = None, known' = None, stored' = None, acked' = 0,
           streak' \in 0..MaxStreak, pub' \in BOOLEAN, HiddenFromPublic',
           meta' \in {"none", "shown", "hidden", "removed"}, complete' \in BOOLEAN,
           cred' \in BOOLEAN, removing' \in {"no", "all", "keep"},
           removing' # "no" => ~cred'
    PROVE  IndInv'
<1>1. TypeOK'
    BY NoneType, LiveAssumption DEF IndInv, TypeOK
<1>2. ASSUME NEW i \in DOMAIN chain
      PROVE  /\ chain[i].id \in 1..arrived /\ chain[i].sock <= connects
             /\ chain[i].rv <= removal' /\ chain[i].xv <= restores'
             /\ chain[i].rv < removal' \/ chain[i].xv < restores'
  <2>1. chain[i] \in Reports /\ chain # <<>>
    BY DEF IndInv, TypeOK
  <2>2. chain[i].id \in Nat /\ chain[i].rv \in Nat /\ chain[i].xv \in Nat
    BY <2>1, LiveAssumption DEF Reports
  <2>3. /\ chain[i].id \in (acked + 1)..arrived /\ chain[i].sock <= connects
        /\ chain[i].rv <= removal /\ chain[i].xv <= restores
        /\ acked \in Nat /\ removal \in Nat /\ restores \in Nat
    BY DEF IndInv, TypeOK, QueueInOrder
  <2> QED BY <2>1, <2>2, <2>3
<1>3. QueueInOrder'
    BY <1>2 DEF IndInv, QueueInOrder
<1>4. \A i \in DOMAIN chain' : Stale(chain[i])'
    BY <1>2 DEF Stale
<1>5. GoneIsForgotten' /\ RemovingIsClosed' /\ WriteIsTakenBack'
    BY <1>4 DEF GoneIsForgotten, RemovingIsClosed, WriteIsTakenBack
<1>6. EntriesAreReports' /\ AcknowledgedIsKept' /\ OnlineMeansConnected'
    BY NoneType DEF EntriesAreReports, AcknowledgedIsKept, NewerThan, OnlineMeansConnected
<1>7. HeadIsKept'
  <2> SUFFICES ASSUME chain # <<>> PROVE ~Current(Head1)'
    BY DEF HeadIsKept
  <2>1. 1 \in DOMAIN chain /\ Head1 \in Reports
    BY HeadFacts
  <2>2. chain[1].rv < removal' \/ chain[1].xv < restores'
    BY <1>2, <2>1
  <2>3. chain[1].rv \in Nat /\ chain[1].xv \in Nat
    BY <2>1 DEF Head1, Reports
  <2> QED BY <2>2, <2>3 DEF Current, Head1
<1>8. connects' \in 0..MaxConnects /\ sock' <= connects'
    BY DEF IndInv
<1> QED BY <1>1, <1>3, <1>5, <1>6, <1>7, <1>8 DEF IndInv

LEMMA RemoveClientInv == ASSUME IndInv, RemoveClient PROVE IndInv'
<1>1. /\ removal' \in Nat /\ restores' \in Nat /\ removal' >= removal /\ restores' >= restores
      /\ chain # <<>> => removal' > removal
    BY MemoryFacts DEF RemoveClient, TypeOK
<1>2. /\ streak' \in 0..MaxStreak /\ removing' \in {"no", "all", "keep"}
      /\ pub' \in BOOLEAN /\ HiddenFromPublic' /\ complete' \in BOOLEAN
      /\ meta' \in {"none", "shown", "hidden", "removed"}
    BY MemoryFacts, LiveAssumption DEF RemoveClient, TypeOK, HiddenFromPublic
<1> QED BY <1>1, <1>2, ForgottenInv DEF RemoveClient, timeVars

LEMMA RestoreClientsInv ==
    ASSUME IndInv, NEW m \in {"none", "shown", "hidden"}, RestoreClients(m) PROVE IndInv'
<1>1. /\ removal' \in Nat /\ restores' \in Nat /\ removal' >= removal /\ restores' >= restores
      /\ restores' > restores
    BY MemoryFacts DEF RestoreClients, TypeOK
<1>2. /\ streak' \in 0..MaxStreak /\ removing' = "no"
      /\ pub' = FALSE /\ HiddenFromPublic' /\ complete' \in BOOLEAN /\ cred' \in BOOLEAN
      /\ meta' \in {"none", "shown", "hidden", "removed"}
    BY MemoryFacts DEF RestoreClients, TypeOK, HiddenFromPublic, Changing
<1> QED BY <1>1, <1>2, ForgottenInv DEF RestoreClients, timeVars

LEMMA RemoveClientDoneInv == ASSUME IndInv, RemoveClientDone PROVE IndInv'
<1> USE DEF RemoveClientDone, timeVars, boundVars
<1>1. TypeOK' /\ connects' \in 0..MaxConnects /\ sock' <= connects'
    BY DEF IndInv, TypeOK
<1>2. HiddenFromPublic' /\ OnlineMeansConnected' /\ QueueInOrder' /\ EntriesAreReports'
    BY DEF IndInv, HiddenFromPublic, OnlineMeansConnected, QueueInOrder, EntriesAreReports
<1>3. AcknowledgedIsKept' /\ HeadIsKept'
    BY DEF IndInv, AcknowledgedIsKept, HeadIsKept, NewerThan, Head1, Current
<1>4. GoneIsForgotten' /\ RemovingIsClosed'
    BY DEF IndInv, GoneIsForgotten, RemovingIsClosed, Stale
<1>5. WriteIsTakenBack'
    BY DEF IndInv, WriteIsTakenBack, AtHead, Head1
<1> QED BY <1>1, <1>2, <1>3, <1>4, <1>5 DEF IndInv

\* The object starts again with an empty queue and what it finds in storage.
LEMMA StartedInv ==
    ASSUME IndInv, chain' = <<>>, removal' = 0, restores' = 0, removing' = "no",
           UNCHANGED <<meta, complete, cred, streak, pub, timeVars, connects>>,
           sock' \in {0, sock}, att' \in Entries,
           clients' \in Entries, known' \in Entries, stored' \in Entries,
           IsKept(clients'), IsKept(known'), IsKept(stored'), OnlineMeansConnected',
           acked' \in {0, acked},
           acked' <= stored'.time, acked' <= known'.time,
           clients' # None => acked' <= clients'.time,
           Gone => clients' = None /\ known' = None /\ stored' = None
    PROVE  IndInv'
<1> USE DEF timeVars
<1>1. TypeOK'
    BY LiveAssumption DEF IndInv, TypeOK
<1>2. connects' \in 0..MaxConnects /\ sock' <= connects' /\ HiddenFromPublic'
    BY LiveAssumption DEF IndInv, HiddenFromPublic
<1>3. QueueInOrder' /\ HeadIsKept' /\ RemovingIsClosed'
    BY DEF QueueInOrder, HeadIsKept, RemovingIsClosed
<1>4. EntriesAreReports' /\ AcknowledgedIsKept'
    BY DEF EntriesAreReports, AcknowledgedIsKept, NewerThan, IndInv, TypeOK, Entries
<1>5. GoneIsForgotten'
    BY DEF IndInv, GoneIsForgotten, Gone
<1>6. WriteIsTakenBack'
    BY DEF WriteIsTakenBack, Gone
<1> QED BY <1>1, <1>2, <1>3, <1>4, <1>5, <1>6 DEF IndInv

LEMMA FromSocketFacts ==
    ASSUME IndInv
    PROVE  /\ FromSocket \in Entries /\ IsKept(FromSocket)
           /\ FromSocket # None => sock # 0 /\ FromSocket.time > 0
<1>1. CASE FromSocket = None
    BY <1>1, NoneType
<1>2. CASE FromSocket # None
  <2>1. sock # 0 /\ att.time # 0 /\ FromSocket = [att EXCEPT !.ws = TRUE] /\ att \in Entries
    BY <1>2, MemoryFacts DEF FromSocket
  <2>2. att.time \in Nat
    BY <2>1, LiveAssumption DEF Entries
  <2>3. FromSocket \in Entries /\ FromSocket.ws /\ FromSocket.time = att.time
    BY <2>1 DEF Entries
  <2> QED BY <2>1, <2>2, <2>3 DEF IsKept
<1> QED BY <1>1, <1>2

\* What the constructor makes of a stored report and of the socket.
LEMMA HydrateFacts ==
    ASSUME IndInv, NEW st \in Entries, IsKept(st), Hydrate(st), UNCHANGED sock
    PROVE  /\ clients' \in Entries /\ known' \in Entries /\ stored' \in Entries
           /\ IsKept(clients') /\ IsKept(known') /\ IsKept(stored') /\ OnlineMeansConnected'
           /\ Gone => clients' = None /\ known' = None /\ stored' = None
           /\ ~Gone => /\ st.time <= stored'.time /\ st.time <= known'.time
                       /\ clients' # None => st.time <= clients'.time
<1> DEFINE g == IF FromSocket # None THEN FromSocket
                ELSE IF ~st.ws /\ ~Expired(st) THEN st ELSE None
           k == Controlled(st)
           f == Controlled(g)
           c == IF f # None /\ k.time > f.time THEN [f EXCEPT !.time = k.time] ELSE f
           l == IF k.time < c.time THEN c ELSE k
<1>1. clients' = c /\ known' = l /\ stored' = l
    BY DEF Hydrate
<1>2. g \in Entries /\ IsKept(g) /\ (g # None /\ ~g.exp => sock # 0)
    BY FromSocketFacts, NoneType DEF IsKept
<1> HIDE DEF g
<1>3. /\ k \in Entries /\ IsKept(k) /\ (Gone => k = None)
      /\ ~Gone => k.time = st.time
    BY MemoryFacts, ControlledFacts, NoneType
<1>4. /\ f \in Entries /\ IsKept(f) /\ (Gone => f = None)
      /\ f # None /\ ~f.exp => sock # 0
    BY <1>2, MemoryFacts, ControlledFacts
<1> HIDE DEF k, f
<1>9. c = IF f # None /\ k.time > f.time THEN [f EXCEPT !.time = k.time] ELSE f
    OBVIOUS
<1> HIDE DEF c
<1>5. /\ c \in Entries /\ (c = None <=> f = None) /\ c.exp = f.exp /\ c.ws = f.ws
      /\ c.time >= f.time /\ (f # None => c.time >= k.time)
  <2>1. CASE f # None /\ k.time > f.time
    <3>1. c = [f EXCEPT !.time = k.time] /\ k.time \in 0..MaxReports /\ f.time \in 0..MaxReports
        BY <1>9, <1>3, <1>4, <2>1 DEF Entries
    <3>2. c \in Entries /\ c.time = k.time /\ c.exp = f.exp /\ c.ws = f.ws
        BY <1>4, <3>1 DEF Entries
    <3>3. c # None
      <4>1. c.time > 0
        BY <2>1, <3>1, <3>2, LiveAssumption
      <4> QED BY <4>1, NoneType
    <3> QED BY <2>1, <3>1, <3>2, <3>3, LiveAssumption
  <2>2. CASE ~(f # None /\ k.time > f.time)
    <3>1. c = f /\ k.time \in 0..MaxReports /\ f.time \in 0..MaxReports
        BY <1>9, <1>3, <1>4, <2>2 DEF Entries
    <3> QED BY <1>4, <2>2, <3>1, LiveAssumption
  <2> QED BY <2>1, <2>2
<1>6. IsKept(c)
    BY <1>4, <1>5, LiveAssumption DEF IsKept, Entries
<1>7. l \in Entries /\ IsKept(l) /\ l.time >= k.time /\ (Gone => l = None)
    BY <1>3, <1>4, <1>5, <1>6, NoneType, LiveAssumption DEF Entries
<1> HIDE DEF l
<1>8. OnlineMeansConnected'
    BY <1>1, <1>4, <1>5 DEF OnlineMeansConnected
<1> QED BY <1>1, <1>3, <1>4, <1>5, <1>6, <1>7, <1>8

LEMMA RestartInv == ASSUME IndInv, Restart PROVE IndInv'
<1>1. /\ chain' = <<>> /\ removal' = 0 /\ restores' = 0 /\ removing' = "no"
      /\ UNCHANGED <<meta, complete, cred, streak, pub, timeVars, acked, connects>>
    BY DEF Restart, Forget
<1>2. /\ acked <= stored.time /\ acked \in Nat
      /\ (Gone => acked = 0) /\ \A e \in Entries : e.time \in Nat
    BY LiveAssumption DEF IndInv, AcknowledgedIsKept, TypeOK, GoneIsForgotten, Entries
<1>3. CASE Hydrate(stored) /\ UNCHANGED <<sock, att>>
  <2>1. /\ clients' \in Entries /\ known' \in Entries /\ stored' \in Entries
        /\ IsKept(clients') /\ IsKept(known') /\ IsKept(stored') /\ OnlineMeansConnected'
        /\ Gone => clients' = None /\ known' = None /\ stored' = None
        /\ ~Gone => /\ stored.time <= stored'.time /\ stored.time <= known'.time
                    /\ clients' # None => stored.time <= clients'.time
    BY <1>3, MemoryFacts, HydrateFacts
  <2>2. /\ acked <= stored'.time /\ acked <= known'.time
        /\ clients' # None => acked <= clients'.time
    BY <1>2, <2>1, MemoryFacts
  <2> QED BY <1>1, <1>3, <2>1, <2>2, MemoryFacts, StartedInv
<1>4. CASE /\ sock' = 0 /\ att' = None
           /\ LET k == Controlled(stored)
              IN  /\ known' = k /\ stored' = k
                  /\ clients' = IF ~k.ws /\ ~Expired(k) THEN k ELSE None
  <2> DEFINE k == Controlled(stored)
  <2>1. /\ k \in Entries /\ IsKept(k) /\ (Gone => k = None)
        /\ ~Gone => k.time = stored.time
    BY MemoryFacts, ControlledFacts, NoneType
  <2>2. /\ known' = k /\ stored' = k
        /\ clients' = IF ~k.ws /\ ~Expired(k) THEN k ELSE None
    BY <1>4
  <2> HIDE DEF k
  <2>3. clients' \in {k, None} /\ (clients' # None => clients'.exp)
    BY <2>1, <2>2 DEF IsKept
  <2>4. OnlineMeansConnected'
    BY <2>3 DEF OnlineMeansConnected
  <2>5. acked <= k.time
    BY <1>2, <2>1, NoneType
  <2> QED BY <1>1, <1>4, <2>1, <2>2, <2>3, <2>4, <2>5, NoneType, StartedInv
<1> QED BY <1>3, <1>4 DEF Restart

LEMMA RestoreStopsInv == ASSUME IndInv, RestoreStops PROVE IndInv'
<1>1. /\ chain' = <<>> /\ removal' = 0 /\ restores' = 0 /\ removing' = "no" /\ acked' = 0
      /\ UNCHANGED <<meta, complete, cred, sock, att, streak, pub, timeVars, connects>>
    BY DEF RestoreStops, Forget
<1>2. /\ clients' \in Entries /\ known' \in Entries /\ stored' \in Entries
      /\ IsKept(clients') /\ IsKept(known') /\ IsKept(stored') /\ OnlineMeansConnected'
      /\ Gone => clients' = None /\ known' = None /\ stored' = None
    BY <1>1, NoneType, HydrateFacts DEF RestoreStops
<1>3. stored'.time >= 0 /\ known'.time >= 0 /\ clients'.time >= 0
    BY <1>2, LiveAssumption DEF Entries
<1> QED BY <1>1, <1>2, <1>3, MemoryFacts, StartedInv

-----------------------------------------------------------------------------
LEMMA InitInv == Init => IndInv
<1> SUFFICES ASSUME Init PROVE IndInv
    OBVIOUS
<1>1. TypeOK
  <2>1. chain \in Seq(Reports) /\ Len(chain) = 0 /\ Len(chain) <= MaxQueue
    BY LiveAssumption DEF Init
  <2>2. /\ sock \in 0..MaxConnects /\ streak \in 0..MaxStreak /\ arrived \in 0..MaxReports
        /\ ttl \in 0..arrived /\ old \in 0..arrived /\ acked \in 0..arrived
        /\ \A i \in 2..Len(chain) : chain[i].pc = "queued"
    BY <2>1, LiveAssumption DEF Init
  <2> QED BY <2>1, <2>2, NoneType DEF Init, TypeOK
<1> QED BY <1>1, NoneType, LiveAssumption
        DEF Init, IndInv, HiddenFromPublic, OnlineMeansConnected, QueueInOrder,
            EntriesAreReports, AcknowledgedIsKept, NewerThan, HeadIsKept, GoneIsForgotten,
            RemovingIsClosed, WriteIsTakenBack

LEMMA NextInv == IndInv /\ [Next]_vars => IndInv'
<1> SUFFICES ASSUME IndInv, [Next]_vars PROVE IndInv'
    OBVIOUS
<1>1. CASE UNCHANGED vars
    BY <1>1 DEF vars, timeVars, boundVars, IndInv, TypeOK, HiddenFromPublic,
           OnlineMeansConnected, QueueInOrder, EntriesAreReports, AcknowledgedIsKept, NewerThan,
           HeadIsKept, Head1, Current, GoneIsForgotten, Gone, Stale, RemovingIsClosed,
           WriteIsTakenBack, AtHead
<1>2. CASE Next
    BY <1>2, WsReportInv, HttpReportInv, BeginInv, UpdateInv, WriteInv, CheckInv, RetireInv,
       AnswerInv, ResultsFailInv, InferNetworkInv, ConnectInv, SocketClosesInv, AlarmInv,
       ViewerConnectsInv, TimePassesInv, EvaluateOfflineInv, UpdateMetaInv, RemoveClientInv,
       RemoveClientDoneInv, RestoreClientsInv, RestartInv, RestoreStopsInv DEF Next
<1> QED BY <1>1, <1>2

\* The queue, memory, storage and the administrator's decision agree in every reachable
\* state, whatever the bounds (updateClientReport, removeClient, the constructor).
THEOREM LiveInvariant == Spec => []IndInv
BY InitInv, NextInv, PTL DEF Spec

\* Memory, storage, sockets and the report queue keep their types (LiveDataDO).
THEOREM LiveTypes == Spec => []TypeOK
<1>1. IndInv => TypeOK BY DEF IndInv
<1> QED BY <1>1, LiveInvariant, PTL

\* A removed node leaves nothing behind once its reports are done with (updateClientReport,
\* removeClient).
THEOREM RemovedNodesStayRemoved == Spec => []RemovedStaysRemoved
<1>1. IndInv => RemovedStaysRemoved
    BY DEF IndInv, RemovedStaysRemoved, WriteIsTakenBack, AtHead, GoneIsForgotten, Gone
<1> QED BY <1>1, LiveInvariant, PTL

\* No report under way shows visitors a node that was hidden or removed meanwhile
\* (updateClientReport, updateClientMeta).
THEOREM HiddenStaysHidden == Spec => []HiddenFromPublic
<1>1. IndInv => HiddenFromPublic
    BY DEF IndInv
<1> QED BY <1>1, LiveInvariant, PTL

\* A node online over a socket has one, also after a restart (cleanupSession,
\* hydrateHttpClients).
THEOREM OnlineIsConnected == Spec => []OnlineMeansConnected
<1>1. IndInv => OnlineMeansConnected
    BY DEF IndInv
<1> QED BY <1>1, LiveInvariant, PTL

\* A streak of missed reports grows only for a node whose newest acknowledged report is
\* older than the grace period (evaluateOfflineLiveness).
THEOREM NoOfflineByMistake == Spec => NoFalseOffline
<1>1. ASSUME IndInv, [Next]_vars, streak' > streak PROVE acked <= old
  <2>1. EvaluateOffline
    <3>1. streak' \in Nat /\ streak \in Nat
        BY <1>1, NextInv, LiveAssumption DEF IndInv, TypeOK
    <3>2. streak' # streak /\ ~RemoveClient
        BY <1>1, <3>1 DEF RemoveClient
    <3> QED BY <1>1, <3>2
            DEF vars, Next, WsReport, HttpReport, Begin, Update, Write, Check, Retire, Answer,
                ResultsFail, InferNetwork, Connect, SocketCloses, Alarm, ViewerConnects,
                TimePasses, UpdateMeta, RemoveClientDone, RestoreClients, Restart, RestoreStops
  <2>2. PICK seen \in {LastSeen, Max2(LastSeen, acked)} :
           streak' = IF seen <= old
                     THEN IF streak < MaxStreak THEN streak + 1 ELSE streak ELSE 0
    BY <2>1 DEF EvaluateOffline
  <2>3. /\ acked \in Nat /\ old \in Nat /\ known.time \in Nat /\ clients.time \in Nat
        /\ acked <= known.time /\ streak \in Nat
    BY <1>1, LiveAssumption DEF IndInv, TypeOK, Entries, AcknowledgedIsKept, NewerThan
  <2>4. LastSeen \in Nat /\ known.time <= LastSeen
    BY <2>3 DEF LastSeen, Max2
  <2>5. seen \in Nat /\ acked <= seen
    BY <2>2, <2>3, <2>4 DEF Max2
  <2>6. seen <= old
    BY <1>1, <2>2, <2>3, <2>5
  <2> QED BY <2>3, <2>5, <2>6
<1>2. IndInv /\ [Next]_vars => [streak' > streak => acked <= old]_vars
    BY <1>1
<1> QED BY <1>2, LiveInvariant, PTL DEF Spec, NoFalseOffline
=============================================================================
