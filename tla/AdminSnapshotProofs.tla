------------------------- MODULE AdminSnapshotProofs -------------------------
(***************************************************************************)
(* Proofs about AdminSnapshot.  A list read in SQL may be stored later, so *)
(* the invariant says of every list that still can be stored (its version  *)
(* is the snapshot's) that it agrees with SQL on all nodes without a       *)
(* change that waits, and of every list an answer can be put together from *)
(* that it is not older than what its request was owed.                    *)
(*                                                                         *)
(* SqlStep, SnapStep and KeepStep say what a step of each kind must keep;  *)
(* the lemma of an action applies one of them.                             *)
(***************************************************************************)
EXTENDS AdminSnapshot, TLAPS

Entry == Rows \cup {NoRow}

LEMMA EntryFacts == \A x \in Entry : x # NoRow => x.meta \in Nat /\ x.ord \in Nat /\ x.at \in Nat
BY SnapshotAssumption DEF Entry, Rows, Revisions

LEMMA ConstantFacts ==
    /\ Empty \in Lists /\ NoTombs \in [Clients -> Nat] /\ Missing \in Snapshots
    /\ Quiet \in Gets /\ Tombs(Missing) = {}
    /\ Quiet.pc = "idle" /\ Quiet.ver = 0 /\ Quiet.current = TRUE
    /\ Missing.ver = 0 /\ Missing.clients = Empty /\ \A c \in Clients : Empty[c] = NoRow
<1>1. Empty \in Lists /\ NoTombs \in [Clients -> Nat] /\ \A c \in Clients : Empty[c] = NoRow
    BY DEF Empty, NoTombs, Lists
<1>2. Missing \in Snapshots /\ Missing.ver = 0 /\ Missing.clients = Empty /\ Missing.removed = NoTombs
    BY <1>1 DEF Missing, Snapshots
<1>3. Tombs(Missing) = {}
    BY <1>2 DEF Tombs, NoTombs
<1>4. 0 \in Revisions
    BY SnapshotAssumption DEF Revisions
<1>5. Quiet \in Gets /\ Quiet.pc = "idle" /\ Quiet.ver = 0 /\ Quiet.current = TRUE
    BY <1>1, <1>4 DEF Quiet, Gets
<1> QED BY <1>1, <1>2, <1>3, <1>5

\* The row in SQL is good for any request that it is not older than, and so is what agrees
\* with it for a request that has just begun.
LEMMA GoodNow ==
    ASSUME NEW now \in Entry, NEW was \in Entry, NEW since \in Nat, NotOlder(now, was, since)
    PROVE  Good(now, now, was, since)
BY DEF Good, Lost

LEMMA GoodSame ==
    ASSUME NEW x \in Entry, NEW now \in Entry, NEW since \in Nat, Same(x, now)
    PROVE  Good(x, now, now, since) /\ NotOlder(x, now, since)
BY EntryFacts DEF Good, Same, NotOlder, Lost

\* A row of SQL changes: it is kept, removed, moved or written anew.
Turns(now, next, rev) ==
    \/ next = now
    \/ next = NoRow
    \/ next.meta = rev
    \/ now # NoRow /\ next.meta = now.meta

LEMMA GoodTurns ==
    ASSUME NEW x \in Entry, NEW now \in Entry, NEW next \in Entry, NEW was \in Entry,
           NEW since \in Nat, NEW rev \in Nat, since < rev, was # NoRow => was.meta <= since,
           NotOlder(now, was, since), Turns(now, next, rev)
    PROVE  /\ NotOlder(next, was, since)
           /\ Lost(now, since) => Lost(next, since)
           /\ Good(x, now, was, since) => Good(x, next, was, since)
<1>1. Lost(now, since) => Lost(next, since)
    BY EntryFacts DEF Turns, Lost
<1>2. NotOlder(next, was, since)
    BY EntryFacts DEF Turns, NotOlder
<1> QED BY <1>1, <1>2 DEF Good

\* What an answer is put together from: SQL's list and the snapshot.
LEMMA OverlayCases ==
    ASSUME NEW list \in Lists, NEW s \in Snapshots, NEW ver \in Nat, NEW had \in SUBSET Clients,
           NEW c \in Clients
    PROVE  LET x == Overlay(list, s, ver, had)[c] IN
           \/ x = list[c] /\ (s.ver = 0 \/ c \notin Tombs(s))
           \/ s.ver # 0 /\ c \in Tombs(s) /\ x = NoRow
           \/ s.ver # 0 /\ c \notin Tombs(s) /\ x = s.clients[c] /\ x # NoRow
              /\ (list[c] # NoRow \/ s.ver > ver)
BY DEF Overlay, Snapshots, Lists

LEMMA OverlayType ==
    ASSUME NEW list \in Lists, NEW s \in Snapshots, NEW ver \in Nat, NEW had \in SUBSET Clients
    PROVE  Overlay(list, s, ver, had) \in Lists
BY DEF Overlay, Snapshots, Lists

LEMMA OverlayGood ==
    ASSUME NEW list \in Lists, NEW s \in Snapshots, NEW ver \in Nat, NEW had \in SUBSET Clients,
           NEW c \in Clients, NEW now \in Entry, NEW was \in Entry, NEW since \in Nat,
           Good(list[c], now, was, since), NotOlder(s.clients[c], was, since),
           (was # NoRow /\ c \in Tombs(s)) => Lost(now, since)
    PROVE  Good(Overlay(list, s, ver, had)[c], now, was, since)
<1> DEFINE x == Overlay(list, s, ver, had)[c]
<1>1. x = list[c] \/ (c \in Tombs(s) /\ x = NoRow) \/ (x = s.clients[c] /\ x # NoRow)
    BY OverlayCases
<1> HIDE DEF x
<1>2. Good(x, now, was, since)
    BY <1>1 DEF Good, NotOlder
<1> QED BY <1>2 DEF x

LEMMA OverlaySame ==
    ASSUME NEW list \in Lists, NEW s \in Snapshots, NEW had \in SUBSET Clients,
           NEW c \in Clients, NEW now \in Entry, Same(list[c], now),
           s.ver # 0 => Fits(s, c, now)
    PROVE  Same(Overlay(list, s, s.ver, had)[c], now)
<1> DEFINE x == Overlay(list, s, s.ver, had)[c]
<1>1. s.ver \in Nat
    BY DEF Snapshots
<1>2. \/ x = list[c]
      \/ s.ver # 0 /\ c \in Tombs(s) /\ x = NoRow
      \/ s.ver # 0 /\ x = s.clients[c] /\ x # NoRow
    BY <1>1, OverlayCases
<1> HIDE DEF x
<1>3. Same(x, now)
    BY <1>2 DEF Same, Fits
<1> QED BY <1>3 DEF x

-----------------------------------------------------------------------------
(* The kinds of steps *)

OrderRecs == [pc : {"idle", "list", "put"}, list : Lists]
RestoreRecs == [pc : {"idle", "read", "list", "put"}, base : Nat, list : Lists, tries : Nat]

\* Types that the steps below need one at a time.
LEMMA StateTypes ==
    ASSUME TypeOK
    PROVE  /\ revision \in Nat /\ snap.ver \in Nat /\ restore.base \in Nat
           /\ restore.list \in Lists
           /\ \A c \in Clients : /\ row[c] \in Entry /\ pend[c] \in Nat /\ applied[c] \in Nat
                                 /\ snap.clients[c] \in Entry /\ snap.removed[c] \in Nat
                                 /\ cache # NoList => cache[c] \in Entry
                                 /\ \A e \in carry[c] : e.rev \in Nat /\ e.row \in Entry
           /\ \A r \in Readers : /\ get[r] \in Gets
                                 /\ get[r].ver \in Nat /\ get[r].since \in Nat
                                 /\ get[r].list \in Lists /\ get[r].answer \in Lists
                                 /\ get[r].owed \in Lists /\ get[r].quiet \in SUBSET Clients
           /\ \A o \in Orders : order[o] \in OrderRecs /\ order[o].list \in Lists
<1>1. revision \in Nat /\ snap.ver \in Nat /\ restore.base \in Nat /\ restore.list \in Lists
    BY SnapshotAssumption DEF TypeOK, Revisions, Snapshots
<1>2. \A c \in Clients : /\ row[c] \in Entry /\ pend[c] \in Nat /\ applied[c] \in Nat
                         /\ snap.clients[c] \in Entry /\ snap.removed[c] \in Nat
                         /\ cache # NoList => cache[c] \in Entry
    BY SnapshotAssumption DEF TypeOK, Revisions, Snapshots, Lists, Entry
<1>3. \A c \in Clients : \A e \in carry[c] : e.rev \in Nat /\ e.row \in Entry
  <2> TAKE c \in Clients
  <2> TAKE e \in carry[c]
  <2>1. e \in Changes
      BY DEF TypeOK
  <2> QED BY <2>1, SnapshotAssumption DEF Changes, Revisions, Entry
<1>4. \A r \in Readers : /\ get[r] \in Gets
                         /\ get[r].ver \in Nat /\ get[r].since \in Nat
                         /\ get[r].list \in Lists /\ get[r].answer \in Lists
                         /\ get[r].owed \in Lists /\ get[r].quiet \in SUBSET Clients
  <2> TAKE r \in Readers
  <2>1. get[r] \in Gets
      BY DEF TypeOK
  <2> QED BY <2>1, SnapshotAssumption DEF Gets, Revisions
<1>5. \A o \in Orders : order[o] \in OrderRecs /\ order[o].list \in Lists
    BY DEF TypeOK, OrderRecs
<1> QED BY <1>1, <1>2, <1>3, <1>4, <1>5

\* SQL changes: the nodes that change wait in the outbox.
LEMMA SqlStep ==
    ASSUME IndInv, TypeOK', revision' = revision + 1,
           UNCHANGED <<carry, applied, snap, cache, get>>,
           \A c \in Clients : \/ pend'[c] = revision + 1 /\ Turns(row[c], row'[c], revision + 1)
                              \/ pend'[c] = pend[c] /\ row'[c] = row[c],
           \A o \in Orders : order'[o].pc = "put" => order'[o] = order[o],
           restore'.pc \in {"list", "put"} => restore' = restore
    PROVE  IndInv'
<1>1. TypeOK /\ OutboxInOrder /\ RowsAreOld /\ SnapshotMatches /\ ListsMatch
      /\ AnswersAreOwed /\ AnswerIsCurrent
    BY DEF IndInv
<1>t. /\ revision \in Nat
      /\ \A c \in Clients : /\ row[c] \in Entry /\ row'[c] \in Entry /\ pend[c] \in Nat
                            /\ applied[c] \in Nat
                            /\ snap.clients[c] \in Entry /\ (cache # NoList => cache[c] \in Entry)
                            /\ \A e \in carry[c] : e.rev \in Nat /\ e.row \in Entry
    BY <1>1, StateTypes DEF TypeOK, Lists, Entry
<1>2. OutboxInOrder'
  <2> SUFFICES ASSUME NEW c \in Clients
               PROVE  /\ applied[c] <= revision + 1 /\ pend'[c] <= revision + 1
                      /\ pend'[c] # 0 => applied[c] < pend'[c]
                      /\ \A e \in carry[c] :
                           /\ e.rev >= 1
                           /\ e.rev <= applied[c] \/ e.rev <= pend'[c]
                           /\ e.rev = pend'[c] => e.row = row'[c]
      BY DEF OutboxInOrder
  <2>1. CASE pend'[c] = revision + 1
      BY <1>1, <1>t, <2>1 DEF OutboxInOrder
  <2>2. CASE pend'[c] = pend[c] /\ row'[c] = row[c]
      BY <1>1, <1>t, <2>2 DEF OutboxInOrder
  <2> QED BY <2>1, <2>2
<1>3. RowsAreOld'
  <2> SUFFICES ASSUME NEW c \in Clients, row'[c] # NoRow
               PROVE  row'[c].meta <= revision + 1
      BY DEF RowsAreOld
  <2>1. Turns(row[c], row'[c], revision + 1)
      BY DEF Turns
  <2> QED BY <1>1, <1>t, <2>1, EntryFacts DEF RowsAreOld, Turns
<1>4. \A c \in Clients : pend'[c] = 0 => pend[c] = 0 /\ row'[c] = row[c]
    BY <1>t
<1>5. SnapshotMatches'
    BY <1>1, <1>4 DEF SnapshotMatches, Stored
<1>7. ListsMatch'
  <2>1. (~Stored => /\ snap = Missing
                    /\ \A c \in Clients : applied[c] = 0
                    /\ cache # NoList => Matches(cache))'
      BY <1>1, <1>4 DEF ListsMatch, Stored, Matches
  <2>2. (\A r \in Readers :
         /\ get[r].ver <= snap.ver
         /\ (get[r].pc = "list" /\ ~get[r].forced) => get[r].ver = 0
         /\ (get[r].pc = "again" /\ get[r].ver = snap.ver) => Matches(get[r].list)
         /\ (get[r].pc = "save" /\ get[r].ver = snap.ver) => Matches(get[r].answer))'
      BY <1>1, <1>4 DEF ListsMatch, Matches
  <2>3. (\A o \in Orders : (order[o].pc = "put" /\ ~Stored) => Matches(order[o].list))'
      BY <1>1, <1>4 DEF ListsMatch, Stored, Matches
  <2>4. (/\ restore.pc \in {"list", "put"} => restore.base <= snap.ver
         /\ (restore.pc = "put" /\ restore.base = snap.ver) => Matches(restore.list))'
      BY <1>1, <1>4 DEF ListsMatch, Matches
  <2> QED BY <2>1, <2>2, <2>3, <2>4 DEF ListsMatch
<1>8. AnswersAreOwed'
  <2> SUFFICES ASSUME NEW q \in Readers, get[q].pc \in {"list", "again"}
               PROVE  /\ get[q].since <= revision + 1
                      /\ \A c \in get[q].quiet : Sources(get[q], c, get[q].owed[c], get[q].since)'
      BY DEF AnswersAreOwed
  <2>1. get[q].since <= revision /\ get[q].since \in Nat /\ get[q].quiet \subseteq Clients
        /\ get[q].owed \in Lists /\ get[q].list \in Lists
      BY <1>1, StateTypes DEF AnswersAreOwed
  <2> SUFFICES ASSUME NEW c \in get[q].quiet
               PROVE  Sources(get[q], c, get[q].owed[c], get[q].since)'
      BY <1>t, <2>1
  <2> DEFINE was == get[q].owed[c]
             since == get[q].since
  <2>2. was \in Entry /\ since \in Nat /\ since < revision + 1 /\ c \in Clients
      BY <1>t, <2>1 DEF Lists, Entry
  <2>3. Sources(get[q], c, was, since)
      BY <1>1 DEF AnswersAreOwed
  <2>4. Turns(row[c], row'[c], revision + 1)
      BY <2>2 DEF Turns
  <2> HIDE DEF was, since
  <2>5. NotOlder(row[c], was, since) /\ (was # NoRow => was.meta <= since)
      BY <2>3 DEF Sources
  <2>6. /\ NotOlder(row'[c], was, since)
        /\ Lost(row[c], since) => Lost(row'[c], since)
        /\ \A x \in Entry : Good(x, row[c], was, since) => Good(x, row'[c], was, since)
    <3>1. revision + 1 \in Nat /\ row[c] \in Entry /\ row'[c] \in Entry
        BY <1>t, <2>2
    <3>2. ASSUME NEW x \in Entry
          PROVE  /\ NotOlder(row'[c], was, since)
                 /\ Lost(row[c], since) => Lost(row'[c], since)
                 /\ Good(x, row[c], was, since) => Good(x, row'[c], was, since)
        BY <2>2, <2>4, <2>5, <3>1, GoodTurns
    <3> QED BY <3>1, <3>2
  <2>7. /\ (get[q].pc = "again" => Good(get[q].list[c], row'[c], was, since))
        /\ ((~get[q].forced \/ ~Stored) /\ cache # NoList) => Good(cache[c], row'[c], was, since)
        /\ \A e \in carry[c] : Good(e.row, row'[c], was, since)
    <3>1. get[q].list[c] \in Entry
        BY <2>1, <2>2 DEF Lists, Entry
    <3> QED BY <1>t, <2>2, <2>3, <2>6, <3>1 DEF Sources
  <2>8. \A r \in Readers : get[r].ver = snap.ver =>
         /\ get[r].pc = "again" => Good(get[r].list[c], row'[c], was, since)
         /\ get[r].pc = "save" => Good(get[r].answer[c], row'[c], was, since)
    <3> TAKE r \in Readers
    <3>1. get[r].list[c] \in Entry /\ get[r].answer[c] \in Entry
        BY <1>1, <2>2, StateTypes DEF Lists, Entry
    <3> QED BY <2>3, <2>6, <3>1 DEF Sources
  <2>9. \A o \in Orders : (order'[o].pc = "put" /\ ~Stored) => Good(order'[o].list[c], row'[c], was, since)
    <3> TAKE o \in Orders
    <3>1. order[o].list[c] \in Entry
        BY <1>1, <2>2, StateTypes DEF Lists, Entry
    <3> QED BY <2>3, <2>6, <3>1 DEF Sources
  <2>10. (restore'.pc = "put" /\ restore'.base = snap.ver) => Good(restore'.list[c], row'[c], was, since)
    <3>1. restore.list[c] \in Entry
        BY <1>1, <2>2, StateTypes DEF Lists, Entry
    <3> QED BY <2>3, <2>6, <3>1 DEF Sources
  <2>11. NotOlder(snap.clients[c], was, since) /\ (was # NoRow /\ c \in Tombs(snap) => Lost(row'[c], since))
      BY <2>3, <2>6 DEF Sources
  <2> QED BY <2>5, <2>6, <2>7, <2>8, <2>9, <2>10, <2>11 DEF Sources, Stored, was, since
<1>9. AnswerIsCurrent'
    BY <1>1 DEF AnswerIsCurrent
<1> QED BY <1>2, <1>3, <1>5, <1>7, <1>8, <1>9 DEF IndInv

\* The snapshot is written: no list read before can be stored any more.
LEMMA SnapStep ==
    ASSUME IndInv, TypeOK', OutboxInOrder', UNCHANGED <<row, revision, cache>>,
           snap'.ver = snap.ver + 1,
           \A c \in Clients : pend'[c] = 0 => Fits(snap', c, row[c]),
           \A c \in Clients : carry'[c] \subseteq carry[c],
           \A r \in Readers : get'[r] = get[r] \/ get'[r] = Quiet,
           \A o \in Orders : order'[o] = order[o] \/ order'[o].pc # "put",
           restore' = restore \/ restore'.pc = "idle",
           \A r \in Readers : get[r].pc \in {"list", "again"} =>
             \A c \in get[r].quiet :
               /\ NotOlder(snap'.clients[c], get[r].owed[c], get[r].since)
               /\ (get[r].owed[c] # NoRow /\ c \in Tombs(snap')) => Lost(row[c], get[r].since)
    PROVE  IndInv'
<1>1. TypeOK /\ RowsAreOld /\ ListsMatch /\ AnswersAreOwed /\ AnswerIsCurrent
    BY DEF IndInv
<1>t. snap.ver \in Nat /\ restore.base \in Nat /\ \A r \in Readers : get[r].ver \in Nat
    BY <1>1, StateTypes
<1>2. /\ snap'.ver # 0 /\ Stored'
      /\ \A r \in Readers : get[r].ver <= snap.ver /\ get[r].ver # snap'.ver
      /\ restore.pc \in {"list", "put"} => restore.base <= snap.ver /\ restore.base # snap'.ver
    BY <1>1, <1>t DEF ListsMatch, Stored
<1>3. RowsAreOld' /\ SnapshotMatches'
    BY <1>1 DEF RowsAreOld, SnapshotMatches
<1>4. ListsMatch'
  <2>1. (\A r \in Readers :
         /\ get[r].ver <= snap.ver
         /\ (get[r].pc = "list" /\ ~get[r].forced) => get[r].ver = 0
         /\ (get[r].pc = "again" /\ get[r].ver = snap.ver) => Matches(get[r].list)
         /\ (get[r].pc = "save" /\ get[r].ver = snap.ver) => Matches(get[r].answer))'
    <3> SUFFICES ASSUME NEW r \in Readers
                 PROVE  /\ get'[r].ver <= snap'.ver
                        /\ (get'[r].pc = "list" /\ ~get'[r].forced) => get'[r].ver = 0
                        /\ get'[r].pc \in {"again", "save"} => get'[r].ver # snap'.ver
        OBVIOUS
    <3>1. CASE get'[r] = get[r]
        BY <1>1, <1>t, <1>2, <3>1 DEF ListsMatch
    <3>2. CASE get'[r] = Quiet
        BY <1>t, <3>2, ConstantFacts
    <3> QED BY <3>1, <3>2
  <2>2. (/\ restore.pc \in {"list", "put"} => restore.base <= snap.ver
         /\ (restore.pc = "put" /\ restore.base = snap.ver) => Matches(restore.list))'
      BY <1>1, <1>t, <1>2 DEF ListsMatch
  <2> QED BY <1>2, <2>1, <2>2 DEF ListsMatch
<1>5. AnswersAreOwed'
  <2> SUFFICES ASSUME NEW q \in Readers, get'[q].pc \in {"list", "again"}
               PROVE  /\ get'[q].since <= revision
                      /\ \A c \in get'[q].quiet :
                           Sources(get[q], c, get[q].owed[c], get[q].since)'
      BY DEF AnswersAreOwed
  <2>1. get'[q] = get[q]
      BY ConstantFacts
  <2>2. get[q].since <= revision
      BY <1>1, <2>1 DEF AnswersAreOwed
  <2> SUFFICES ASSUME NEW c \in get[q].quiet
               PROVE  Sources(get[q], c, get[q].owed[c], get[q].since)'
      BY <2>1, <2>2
  <2> DEFINE was == get[q].owed[c]
             since == get[q].since
  <2>3. Sources(get[q], c, was, since)
      BY <1>1, <2>1 DEF AnswersAreOwed
  <2>4. c \in Clients
      BY <1>1, StateTypes
  <2>5. /\ NotOlder(snap'.clients[c], was, since)
        /\ (was # NoRow /\ c \in Tombs(snap')) => Lost(row[c], since)
      BY <2>1
  <2>6. was' = was /\ since' = since
      BY <2>1
  <2> HIDE DEF was, since
  <2>7. \A e \in carry'[c] : Good(e.row, row[c], was, since)
      BY <2>3, <2>4 DEF Sources
  <2>8. \A r \in Readers : get'[r].pc \in {"again", "save"} => get'[r].ver # snap'.ver
      BY <1>2, ConstantFacts
  <2>9. restore'.pc = "put" => restore'.base # snap'.ver
      BY <1>2
  <2>10. Sources(get[q], c, was, since)'
      BY <1>2, <2>1, <2>3, <2>5, <2>6, <2>7, <2>8, <2>9 DEF Sources
  <2> QED BY <2>10 DEF was, since
<1>6. AnswerIsCurrent'
    BY <1>1, ConstantFacts DEF AnswerIsCurrent
<1> QED BY <1>3, <1>4, <1>5, <1>6 DEF IndInv

\* Lists are read, taken over and dropped; SQL and the snapshot stay.
LEMMA KeepStep ==
    ASSUME IndInv, TypeOK', UNCHANGED <<row, revision, pend, applied, snap>>,
           \A c \in Clients : \A e \in carry'[c] :
             e \in carry[c] \/ (pend[c] # 0 /\ e.rev = pend[c] /\ e.row = row[c]),
           cache' \in {cache, NoList, row},
           \A r \in Readers : get'[r] = get[r] \/ get'[r] = Quiet,
           \A o \in Orders : order'[o] = order[o] \/ order'[o].pc # "put" \/ order'[o].list = row,
           \/ restore' = restore
           \/ restore'.pc \in {"idle", "read"}
           \/ restore'.base <= snap.ver /\ (restore'.pc = "put" => restore'.list = row)
    PROVE  IndInv'
<1>1. TypeOK /\ OutboxInOrder /\ RowsAreOld /\ SnapshotMatches /\ ListsMatch
      /\ AnswersAreOwed /\ AnswerIsCurrent
    BY DEF IndInv
<1>t. /\ snap.ver \in Nat
      /\ \A c \in Clients : row[c] \in Entry /\ pend[c] \in Nat /\ applied[c] \in Nat
    BY <1>1, StateTypes
<1>2. OutboxInOrder'
    BY <1>1, <1>t DEF OutboxInOrder
<1>3. RowsAreOld' /\ SnapshotMatches'
    BY <1>1 DEF RowsAreOld, SnapshotMatches, Stored
<1>4. Matches(row)' /\ Matches(row)
    BY DEF Matches, Same
<1>5. ListsMatch'
  <2>1. (~Stored => /\ snap = Missing
                    /\ \A c \in Clients : applied[c] = 0
                    /\ cache # NoList => Matches(cache))'
      BY <1>1, <1>4 DEF ListsMatch, Stored, Matches
  <2>2. (\A r \in Readers :
         /\ get[r].ver <= snap.ver
         /\ (get[r].pc = "list" /\ ~get[r].forced) => get[r].ver = 0
         /\ (get[r].pc = "again" /\ get[r].ver = snap.ver) => Matches(get[r].list)
         /\ (get[r].pc = "save" /\ get[r].ver = snap.ver) => Matches(get[r].answer))'
      BY <1>1, <1>t, ConstantFacts DEF ListsMatch, Matches
  <2>3. (\A o \in Orders : (order[o].pc = "put" /\ ~Stored) => Matches(order[o].list))'
      BY <1>1, <1>4 DEF ListsMatch, Stored, Matches
  <2>4. (/\ restore.pc \in {"list", "put"} => restore.base <= snap.ver
         /\ (restore.pc = "put" /\ restore.base = snap.ver) => Matches(restore.list))'
      BY <1>1, <1>4 DEF ListsMatch, Matches
  <2> QED BY <2>1, <2>2, <2>3, <2>4 DEF ListsMatch
<1>6. AnswersAreOwed'
  <2> SUFFICES ASSUME NEW q \in Readers, get'[q].pc \in {"list", "again"}
               PROVE  /\ get'[q].since <= revision
                      /\ \A c \in get'[q].quiet :
                           Sources(get[q], c, get[q].owed[c], get[q].since)'
      BY DEF AnswersAreOwed
  <2>1. get'[q] = get[q]
      BY ConstantFacts
  <2>2. get[q].since <= revision
      BY <1>1, <2>1 DEF AnswersAreOwed
  <2> SUFFICES ASSUME NEW c \in get[q].quiet
               PROVE  Sources(get[q], c, get[q].owed[c], get[q].since)'
      BY <2>1, <2>2
  <2> DEFINE was == get[q].owed[c]
             since == get[q].since
  <2>3. Sources(get[q], c, was, since)
      BY <1>1, <2>1 DEF AnswersAreOwed
  <2>4. c \in Clients /\ was \in Entry /\ since \in Nat
      BY <1>1, StateTypes DEF Lists, Entry
  <2>5. Good(row[c], row[c], was, since)
      BY <1>t, <2>3, <2>4, GoodNow DEF Sources
  <2>6. was' = was /\ since' = since
      BY <2>1
  <2> HIDE DEF was, since
  <2>7. \A e \in carry'[c] : Good(e.row, row[c], was, since)
      BY <2>3, <2>4, <2>5 DEF Sources
  <2>8. \A r \in Readers : get'[r].ver = snap.ver =>
         /\ get'[r].pc = "again" => Good(get'[r].list[c], row[c], was, since)
         /\ get'[r].pc = "save" => Good(get'[r].answer[c], row[c], was, since)
      BY <2>3, ConstantFacts DEF Sources
  <2>9. \A o \in Orders : (order'[o].pc = "put" /\ ~Stored) => Good(order'[o].list[c], row[c], was, since)
      BY <2>3, <2>5 DEF Sources
  <2>10. (restore'.pc = "put" /\ restore'.base = snap.ver) => Good(restore'.list[c], row[c], was, since)
      BY <2>3, <2>5 DEF Sources
  <2>11. ((~get[q].forced \/ ~Stored) /\ cache' # NoList) => Good(cache'[c], row[c], was, since)
      BY <2>3, <2>5 DEF Sources
  <2>12. Sources(get[q], c, was, since)'
      BY <2>1, <2>3, <2>6, <2>7, <2>8, <2>9, <2>10, <2>11 DEF Sources, Stored
  <2> QED BY <2>12 DEF was, since
<1>7. AnswerIsCurrent'
    BY <1>1, ConstantFacts DEF AnswerIsCurrent
<1> QED BY <1>2, <1>3, <1>5, <1>6, <1>7 DEF IndInv

\* One request GET /clients moves; SQL, the outbox and the snapshot stay.
LEMMA ReaderStep ==
    ASSUME IndInv, TypeOK', NEW r0 \in Readers,
           UNCHANGED <<row, revision, pend, applied, snap, carry, order, restore>>,
           \A r \in Readers : r # r0 => get'[r] = get[r],
           cache' \in {cache, row},
           get'[r0].current = TRUE, get'[r0].ver <= snap.ver,
           (get'[r0].pc = "list" /\ ~get'[r0].forced) => get'[r0].ver = 0,
           get'[r0].ver = snap.ver => \A c \in Clients : pend[c] = 0 =>
             /\ get'[r0].pc = "again" => Same(get'[r0].list[c], row[c])
             /\ get'[r0].pc = "save" => Same(get'[r0].answer[c], row[c]),
           get'[r0].ver = snap.ver => \A q \in Readers :
             (q # r0 /\ get[q].pc \in {"list", "again"}) => \A c \in get[q].quiet :
               /\ get'[r0].pc = "again" =>
                    Good(get'[r0].list[c], row[c], get[q].owed[c], get[q].since)
               /\ get'[r0].pc = "save" =>
                    Good(get'[r0].answer[c], row[c], get[q].owed[c], get[q].since),
           get'[r0].pc \in {"list", "again"} =>
             /\ get'[r0].since <= revision
             /\ \A c \in get'[r0].quiet : Sources(get[r0], c, get[r0].owed[c], get[r0].since)'
    PROVE  IndInv'
<1>1. TypeOK /\ OutboxInOrder /\ RowsAreOld /\ SnapshotMatches /\ ListsMatch
      /\ AnswersAreOwed /\ AnswerIsCurrent
    BY DEF IndInv
<1>t. \A c \in Clients : row[c] \in Entry
    BY <1>1, StateTypes
<1>2. OutboxInOrder' /\ RowsAreOld' /\ SnapshotMatches'
    BY <1>1 DEF OutboxInOrder, RowsAreOld, SnapshotMatches, Stored
<1>3. Matches(row)
    BY DEF Matches, Same
<1>4. ListsMatch'
  <2>1. (~Stored => /\ snap = Missing
                    /\ \A c \in Clients : applied[c] = 0
                    /\ cache # NoList => Matches(cache))'
      BY <1>1, <1>3 DEF ListsMatch, Stored, Matches
  <2>2. (\A r \in Readers :
         /\ get[r].ver <= snap.ver
         /\ (get[r].pc = "list" /\ ~get[r].forced) => get[r].ver = 0
         /\ (get[r].pc = "again" /\ get[r].ver = snap.ver) => Matches(get[r].list)
         /\ (get[r].pc = "save" /\ get[r].ver = snap.ver) => Matches(get[r].answer))'
    <3> SUFFICES ASSUME NEW r \in Readers
                 PROVE  (/\ get[r].ver <= snap.ver
                         /\ (get[r].pc = "list" /\ ~get[r].forced) => get[r].ver = 0
                         /\ (get[r].pc = "again" /\ get[r].ver = snap.ver) => Matches(get[r].list)
                         /\ (get[r].pc = "save" /\ get[r].ver = snap.ver) => Matches(get[r].answer))'
        OBVIOUS
    <3>1. CASE r = r0
        BY <3>1 DEF Matches
    <3>2. CASE r # r0
        BY <1>1, <3>2 DEF ListsMatch, Matches
    <3> QED BY <3>1, <3>2
  <2>3. (\A o \in Orders : (order[o].pc = "put" /\ ~Stored) => Matches(order[o].list))'
      BY <1>1 DEF ListsMatch, Stored, Matches
  <2>4. (/\ restore.pc \in {"list", "put"} => restore.base <= snap.ver
         /\ (restore.pc = "put" /\ restore.base = snap.ver) => Matches(restore.list))'
      BY <1>1 DEF ListsMatch, Matches
  <2> QED BY <2>1, <2>2, <2>3, <2>4 DEF ListsMatch
<1>5. AnswersAreOwed'
  <2> SUFFICES ASSUME NEW q \in Readers, q # r0, get'[q].pc \in {"list", "again"}
               PROVE  /\ get'[q].since <= revision
                      /\ \A c \in get'[q].quiet :
                           Sources(get[q], c, get[q].owed[c], get[q].since)'
      BY DEF AnswersAreOwed
  <2>1. get'[q] = get[q]
      OBVIOUS
  <2>2. get[q].since <= revision
      BY <1>1, <2>1 DEF AnswersAreOwed
  <2> SUFFICES ASSUME NEW c \in get[q].quiet
               PROVE  Sources(get[q], c, get[q].owed[c], get[q].since)'
      BY <2>1, <2>2
  <2> DEFINE was == get[q].owed[c]
             since == get[q].since
  <2>3. Sources(get[q], c, was, since)
      BY <1>1, <2>1 DEF AnswersAreOwed
  <2>4. c \in Clients /\ was \in Entry /\ since \in Nat
      BY <1>1, StateTypes DEF Lists, Entry
  <2>5. Good(row[c], row[c], was, since)
      BY <1>t, <2>3, <2>4, GoodNow DEF Sources
  <2>6. was' = was /\ since' = since
      BY <2>1
  <2>7. \A r \in Readers : get'[r].ver = snap.ver =>
         /\ get'[r].pc = "again" => Good(get'[r].list[c], row[c], was, since)
         /\ get'[r].pc = "save" => Good(get'[r].answer[c], row[c], was, since)
    <3> TAKE r \in Readers
    <3>1. CASE r = r0
        BY <2>1, <3>1
    <3>2. CASE r # r0
      <4> HIDE DEF was, since
      <4> QED BY <2>3, <3>2 DEF Sources
    <3> QED BY <3>1, <3>2
  <2> HIDE DEF was, since
  <2>8. ((~get[q].forced \/ ~Stored) /\ cache' # NoList) => Good(cache'[c], row[c], was, since)
      BY <2>3, <2>5 DEF Sources
  <2>9. Sources(get[q], c, was, since)'
      BY <2>1, <2>3, <2>6, <2>7, <2>8 DEF Sources, Stored
  <2> QED BY <2>9 DEF was, since
<1>6. AnswerIsCurrent'
    BY <1>1 DEF AnswerIsCurrent
<1> QED BY <1>2, <1>4, <1>5, <1>6 DEF IndInv

-----------------------------------------------------------------------------
(* The actions *)

LEMMA WriteInv ==
    ASSUME IndInv, NEW S \in SUBSET Clients, Write(S, Changed(S)) \/ Write(S, Without(S))
    PROVE  IndInv'
<1>1. TypeOK /\ revision \in Nat /\ revision + 1 \in Revisions /\ revision < MaxRevision
    BY SnapshotAssumption DEF IndInv, TypeOK, Revisions, Write
<1>t. \A c \in Clients : row[c] \in Entry
    BY <1>1, StateTypes
<1>2. \A c \in Clients : Fresh(c) \in Rows /\ Fresh(c).meta = revision + 1
  <2> TAKE c \in Clients
  <2> DEFINE ord == IF row[c] = NoRow THEN revision + 1 ELSE row[c].ord
  <2>1. ord \in Revisions
      BY <1>1, <1>t DEF Rows, Entry
  <2>2. Fresh(c) = [meta |-> revision + 1, ord |-> ord, at |-> revision + 1]
      BY DEF Fresh
  <2> HIDE DEF ord
  <2> QED BY <1>1, <2>1, <2>2 DEF Rows
<1>3. /\ row' \in Lists /\ revision' = revision + 1
      /\ pend' = [c \in Clients |-> IF c \in S THEN revision + 1 ELSE pend[c]]
      /\ \A c \in Clients : IF c \in S THEN row'[c] = Fresh(c) \/ row'[c] = NoRow
                                         ELSE row'[c] = row[c]
      /\ UNCHANGED <<carry, applied, snap, cache, get, order, restore>>
    BY <1>1, <1>2 DEF Write, Changed, Without, TypeOK, Lists, reqVars
<1>4. TypeOK'
    BY <1>1, <1>3 DEF TypeOK
<1>5. \A c \in Clients : \/ pend'[c] = revision + 1 /\ Turns(row[c], row'[c], revision + 1)
                         \/ pend'[c] = pend[c] /\ row'[c] = row[c]
    BY <1>2, <1>3 DEF Turns
<1> QED BY <1>3, <1>4, <1>5, SqlStep

LEMMA ReorderSqlInv ==
    ASSUME IndInv, NEW o \in Orders, NEW S \in SUBSET Clients, ReorderSql(o, S)
    PROVE  IndInv'
<1>0. TypeOK /\ revision < MaxRevision
    BY DEF IndInv, ReorderSql
<1>1. TypeOK /\ revision \in Nat /\ revision + 1 \in Revisions
    BY <1>0, SnapshotAssumption DEF TypeOK, Revisions
<1>t. \A c \in Clients : row[c] \in Entry
    BY <1>1, StateTypes
<1>2. /\ revision' = revision + 1 /\ UNCHANGED <<carry, applied, snap, cache, get, restore>>
      /\ pend' = [c \in Clients |-> IF c \in S THEN revision + 1 ELSE pend[c]]
      /\ order' = [order EXCEPT ![o].pc = "list"]
      /\ \A c \in S : c \in Clients /\ row[c] # NoRow
    BY DEF ReorderSql, Has
<1> DEFINE Moved(c) == [row[c] EXCEPT !.ord = revision + 1, !.at = revision + 1]
<1>3. row' = [c \in Clients |-> IF c \in S THEN Moved(c) ELSE row[c]]
    BY DEF ReorderSql
<1>4. \A c \in S : Moved(c) \in Rows /\ Moved(c).meta = row[c].meta
    BY <1>1, <1>2, <1>t DEF Rows, Entry
<1> HIDE DEF Moved
<1>5. row' \in Lists /\ \A c \in Clients : row'[c] = row[c] \/ (row[c] # NoRow /\ row'[c].meta = row[c].meta)
    BY <1>1, <1>2, <1>3, <1>4 DEF TypeOK, Lists
<1>6. \A c \in Clients : \/ pend'[c] = revision + 1 /\ Turns(row[c], row'[c], revision + 1)
                         \/ pend'[c] = pend[c] /\ row'[c] = row[c]
    BY <1>2, <1>3, <1>5 DEF Turns
<1>7. order' \in [Orders -> OrderRecs] /\ \A p \in Orders : order'[p].pc = "put" => order'[p] = order[p]
    BY <1>1, <1>2 DEF TypeOK, OrderRecs
<1>8. TypeOK'
    BY <1>1, <1>2, <1>5, <1>7 DEF TypeOK, OrderRecs
<1> QED BY <1>2, <1>6, <1>7, <1>8, SqlStep

LEMMA RestoreSqlInv ==
    ASSUME IndInv, NEW S \in SUBSET Clients, RestoreSql(S)
    PROVE  IndInv'
<1>1. TypeOK /\ revision \in Nat /\ revision + 1 \in Revisions
    BY SnapshotAssumption DEF IndInv, TypeOK, Revisions, RestoreSql
<1> DEFINE New == [meta |-> revision + 1, ord |-> revision + 1, at |-> revision + 1]
<1>2. New \in Rows /\ New.meta = revision + 1
    BY <1>1 DEF Rows
<1>3. /\ revision' = revision + 1 /\ UNCHANGED <<carry, applied, snap, cache, get, order>>
      /\ row' = [c \in Clients |-> IF c \in S THEN New ELSE NoRow]
      /\ pend' = [c \in Clients |-> IF c \in S \/ row[c] # NoRow THEN revision + 1 ELSE pend[c]]
      /\ restore' = [pc |-> "read", base |-> 0, list |-> Empty, tries |-> 0]
    BY DEF RestoreSql
<1> HIDE DEF New
<1>4. \A c \in Clients : \/ pend'[c] = revision + 1 /\ Turns(row[c], row'[c], revision + 1)
                         \/ pend'[c] = pend[c] /\ row'[c] = row[c]
    BY <1>2, <1>3 DEF Turns
<1>5. TypeOK' /\ restore'.pc = "read"
    BY <1>1, <1>2, <1>3, ConstantFacts DEF TypeOK, Lists
<1> QED BY <1>3, <1>4, <1>5, SqlStep

\* A change listed earlier arrives: LiveDataDO applies it unless it has a newer one.
LEMMA ApplyChangeInv ==
    ASSUME IndInv, NEW c \in Clients, ApplyChange(c)
    PROVE  IndInv'
<1>1. TypeOK /\ OutboxInOrder /\ SnapshotMatches /\ AnswersAreOwed
    BY DEF IndInv
<1>t. /\ snap.ver \in Nat /\ revision \in Nat /\ snap \in Snapshots
      /\ \A d \in Clients : /\ row[d] \in Entry /\ pend[d] \in Nat /\ applied[d] \in Nat
                            /\ snap.clients[d] \in Entry /\ snap.removed[d] \in Nat
                            /\ \A f \in carry[d] : f.rev \in Nat /\ f.row \in Entry
    BY <1>1, StateTypes DEF TypeOK
<1>2. PICK e \in carry[c] :
        /\ carry' = [carry EXCEPT ![c] = @ \ {e}]
        /\ pend' = [pend EXCEPT ![c] = IF @ = e.rev THEN 0 ELSE @]
        /\ applied' = [applied EXCEPT ![c] = IF @ > e.rev THEN @ ELSE e.rev]
        /\ IF applied[c] >= e.rev THEN UNCHANGED snap
           ELSE IF e.row = NoRow THEN Remove(c) ELSE Upsert(c, e.row)
        /\ UNCHANGED <<row, revision, cache, get, order, restore>>
    BY DEF ApplyChange, reqVars
<1>3. e \in Changes /\ e.rev \in Revisions /\ e.rev \in Nat /\ e.row \in Entry /\ e.rev >= 1
    BY <1>1, <1>2, <1>t DEF TypeOK, Changes, OutboxInOrder
<1>4. /\ carry' \in [Clients -> SUBSET Changes] /\ \A d \in Clients : carry'[d] \subseteq carry[d]
      /\ pend' \in [Clients -> Revisions] /\ applied' \in [Clients -> Revisions]
    BY <1>1, <1>2, <1>3, SnapshotAssumption DEF TypeOK, Revisions
<1>5. CASE applied[c] >= e.rev
  <2>1. pend[c] # e.rev
      BY <1>1, <1>3, <1>5, <1>t DEF OutboxInOrder
  <2>2. pend' = pend
      BY <1>1, <1>2, <2>1 DEF TypeOK
  <2>3. applied' = applied
    <3> DEFINE m == IF applied[c] > e.rev THEN applied[c] ELSE e.rev
    <3>1. m = applied[c]
        BY <1>3, <1>5, <1>t
    <3>2. applied' = [applied EXCEPT ![c] = m]
        BY <1>2
    <3> HIDE DEF m
    <3> QED BY <1>1, <3>1, <3>2 DEF TypeOK
  <2>4. UNCHANGED snap
      BY <1>2, <1>5
  <2>5. TypeOK'
      BY <1>1, <1>2, <1>4, <2>2, <2>3, <2>4 DEF TypeOK
  <2> QED BY <1>2, <1>4, <2>2, <2>3, <2>4, <2>5, KeepStep
<1>6. CASE ~(applied[c] >= e.rev)
  <2>1. /\ applied'[c] = e.rev /\ (pend'[c] = 0 => e.row = row[c]) /\ e.rev <= pend[c]
        /\ pend'[c] # 0 => e.rev < pend'[c] /\ pend'[c] = pend[c]
        /\ \A d \in Clients : d # c => /\ applied'[d] = applied[d] /\ pend'[d] = pend[d]
                                      /\ carry'[d] = carry[d]
    <3>1. /\ e.rev <= pend[c] /\ pend[c] # 0 /\ (e.rev = pend[c] => e.row = row[c])
        BY <1>1, <1>2, <1>3, <1>6, <1>t DEF OutboxInOrder
    <3>2. /\ applied'[c] = IF applied[c] > e.rev THEN applied[c] ELSE e.rev
          /\ pend'[c] = IF pend[c] = e.rev THEN 0 ELSE pend[c]
          /\ \A d \in Clients : d # c => /\ applied'[d] = applied[d] /\ pend'[d] = pend[d]
                                        /\ carry'[d] = carry[d]
        BY <1>1, <1>2 DEF TypeOK
    <3> QED BY <1>3, <1>6, <1>t, <3>1, <3>2
  <2>2. OutboxInOrder'
    <3> SUFFICES ASSUME NEW d \in Clients
                 PROVE  /\ applied'[d] <= revision /\ pend'[d] <= revision
                        /\ pend'[d] # 0 => applied'[d] < pend'[d]
                        /\ \A f \in carry'[d] :
                             /\ f.rev >= 1
                             /\ f.rev <= applied'[d] \/ f.rev <= pend'[d]
                             /\ f.rev = pend'[d] => f.row = row[d]
        BY <1>2 DEF OutboxInOrder
    <3>1. CASE d # c
        BY <1>1, <1>4, <2>1, <3>1 DEF OutboxInOrder
    <3>2. CASE d = c /\ pend'[c] # 0
        BY <1>1, <1>3, <1>4, <1>t, <1>6, <2>1, <3>2 DEF OutboxInOrder
    <3>3. CASE d = c /\ pend'[c] = 0
      <4>1. pend[c] = e.rev
          BY <1>1, <1>2, <1>3, <1>6, <1>t, <3>3 DEF TypeOK, OutboxInOrder
      <4> QED BY <1>1, <1>3, <1>4, <1>t, <1>6, <2>1, <3>3, <4>1 DEF OutboxInOrder
    <3> QED BY <3>1, <3>2, <3>3
  <2>3. /\ snap' \in Snapshots /\ snap'.ver = snap.ver + 1
        /\ snap'.clients = [snap.clients EXCEPT ![c] = e.row]
        /\ \A d \in Clients : d # c => (d \in Tombs(snap') => d \in Tombs(snap))
        /\ c \in Tombs(snap') => e.row = NoRow
        /\ snap'.complete => Stored /\ snap.complete
    <3> DEFINE done == Stored /\ snap.complete
    <3>b. done \in BOOLEAN /\ (done => Stored /\ snap.complete)
        BY <1>t DEF Stored, Snapshots
    <3>c. [snap.clients EXCEPT ![c] = e.row] \in Lists
        BY <1>3, <1>t DEF Snapshots, Lists, Entry
    <3>1. CASE e.row = NoRow
      <4> DEFINE stamped == [snap.removed EXCEPT ![c] = NextVersion]
                 kept(d) == Cardinality({t \in Clients : stamped[t] > stamped[d]}) < MaxTombstones
                 removed == [d \in Clients |-> IF kept(d) THEN stamped[d] ELSE 0]
      <4>1. stamped \in [Clients -> Nat] /\ \A d \in Clients : d # c => stamped[d] = snap.removed[d]
          BY <1>t DEF NextVersion, Snapshots
      <4> HIDE DEF stamped, kept
      <4>2. /\ removed \in [Clients -> Nat]
            /\ \A d \in Clients : d # c => (removed[d] # 0 => snap.removed[d] # 0)
          BY <4>1
      <4>3. snap' = [ver |-> NextVersion, clients |-> [snap.clients EXCEPT ![c] = e.row],
                     removed |-> removed, complete |-> done]
          BY <1>2, <1>6, <3>1 DEF Remove, stamped, kept
      <4> HIDE DEF removed, done
      <4> QED BY <1>t, <3>b, <3>c, <3>1, <4>2, <4>3 DEF Snapshots, NextVersion, Tombs
    <3>2. CASE e.row # NoRow
      <4> DEFINE removed == [snap.removed EXCEPT ![c] = 0]
      <4>2. /\ removed \in [Clients -> Nat] /\ removed[c] = 0
            /\ \A d \in Clients : d # c => (removed[d] # 0 => snap.removed[d] # 0)
          BY <1>t DEF Snapshots
      <4>3. snap' = [ver |-> NextVersion, clients |-> [snap.clients EXCEPT ![c] = e.row],
                     removed |-> removed, complete |-> done]
          BY <1>2, <1>6, <3>2 DEF Upsert
      <4> HIDE DEF removed, done
      <4> QED BY <1>t, <3>b, <3>c, <3>2, <4>2, <4>3 DEF Snapshots, NextVersion, Tombs
    <3> QED BY <3>1, <3>2
  <2>4. TypeOK'
      BY <1>1, <1>2, <1>4, <2>3 DEF TypeOK
  <2>5. \A d \in Clients : pend'[d] = 0 => Fits(snap', d, row[d])
    <3> SUFFICES ASSUME NEW d \in Clients, pend'[d] = 0
                 PROVE  Fits(snap', d, row[d])
        OBVIOUS
    <3>1. CASE d = c
        BY <1>t, <2>1, <2>3, <3>1 DEF Fits, Snapshots, Lists
    <3>2. CASE d # c /\ Stored
        BY <1>1, <1>t, <2>1, <2>3, <3>2 DEF Fits, SnapshotMatches, Snapshots, Lists
    <3>3. CASE d # c /\ ~Stored
      <4>1. snap.clients[d] = NoRow /\ d \notin Tombs(snap)
          BY <3>3, ConstantFacts DEF IndInv, ListsMatch
      <4> QED BY <1>t, <2>3, <3>3, <4>1 DEF Fits, Snapshots, Lists
    <3> QED BY <3>1, <3>2, <3>3
  <2>6. ASSUME NEW r \in Readers, get[r].pc \in {"list", "again"}, NEW d \in get[r].quiet
        PROVE  /\ NotOlder(snap'.clients[d], get[r].owed[d], get[r].since)
               /\ (get[r].owed[d] # NoRow /\ d \in Tombs(snap')) => Lost(row[d], get[r].since)
    <3>1. Sources(get[r], d, get[r].owed[d], get[r].since) /\ d \in Clients
        BY <1>1, <2>6, StateTypes DEF AnswersAreOwed
    <3>2. CASE d # c
      <4>1. snap'.clients[d] = snap.clients[d]
          BY <1>t, <2>3, <3>1, <3>2 DEF Snapshots, Lists
      <4> QED BY <2>3, <3>1, <3>2, <4>1 DEF Sources
    <3>3. CASE d = c
      <4>1. snap'.clients[c] = e.row
          BY <1>t, <2>3 DEF Snapshots, Lists
      <4>2. Good(e.row, row[c], get[r].owed[c], get[r].since)
          BY <1>2, <3>1, <3>3 DEF Sources
      <4> QED BY <2>3, <3>3, <4>1, <4>2 DEF Good
    <3> QED BY <3>2, <3>3
  <2> QED BY <1>2, <1>4, <2>2, <2>3, <2>4, <2>5, <2>6, SnapStep
<1> QED BY <1>5, <1>6

LEMMA ListPendingInv ==
    ASSUME IndInv, NEW c \in Clients, ListPending(c)
    PROVE  IndInv'
<1> DEFINE e == [rev |-> pend[c], row |-> row[c]]
<1>1. TypeOK /\ pend[c] # 0
    BY DEF IndInv, ListPending
<1>2. e \in Changes /\ e.rev = pend[c] /\ e.row = row[c]
    BY <1>1 DEF TypeOK, Changes, Lists
<1>3. /\ carry' = [carry EXCEPT ![c] = @ \cup {e}]
      /\ UNCHANGED <<row, revision, pend, applied, snap, cache, get, order, restore>>
    BY DEF ListPending, sqlVars, reqVars
<1> HIDE DEF e
<1>4. TypeOK'
    BY <1>1, <1>2, <1>3 DEF TypeOK
<1>5. \A d \in Clients : \A f \in carry'[d] :
        f \in carry[d] \/ (pend[d] # 0 /\ f.rev = pend[d] /\ f.row = row[d])
    BY <1>1, <1>2, <1>3 DEF TypeOK
<1> QED BY <1>3, <1>4, <1>5, KeepStep

LEMMA CacheExpiresInv ==
    ASSUME IndInv, CacheExpires
    PROVE  IndInv'
<1>1. UNCHANGED <<row, revision, pend, applied, snap, carry, get, order, restore>> /\ cache' = NoList
    BY DEF CacheExpires, sqlVars, reqVars
<1>2. TypeOK'
    BY <1>1 DEF IndInv, TypeOK
<1> QED BY <1>1, <1>2, KeepStep

LEMMA AgentUpsertInv ==
    ASSUME IndInv, NEW c \in Clients, AgentUpsert(c)
    PROVE  IndInv'
<1>1. TypeOK /\ OutboxInOrder /\ SnapshotMatches /\ AnswersAreOwed
    BY DEF IndInv
<1>2. /\ UNCHANGED <<row, revision, pend, applied, carry, cache, get, order, restore>>
      /\ snap' = [snap EXCEPT !.ver = snap.ver + 1] /\ Stored
    BY DEF AgentUpsert, sqlVars, reqVars, NextVersion
<1>3. /\ snap' \in Snapshots /\ snap'.ver = snap.ver + 1 /\ snap'.clients = snap.clients
      /\ snap'.removed = snap.removed /\ snap'.complete = snap.complete
    BY <1>1, <1>2 DEF TypeOK, Snapshots
<1>4. TypeOK' /\ OutboxInOrder'
    BY <1>1, <1>2, <1>3 DEF TypeOK, OutboxInOrder
<1>5. Tombs(snap') = Tombs(snap)
    BY <1>3 DEF Tombs
<1>6. \A d \in Clients : pend'[d] = 0 => Fits(snap', d, row[d])
    BY <1>1, <1>2, <1>3, <1>5 DEF SnapshotMatches, Fits
<1>7. \A r \in Readers : get[r].pc \in {"list", "again"} => \A d \in get[r].quiet :
        /\ NotOlder(snap'.clients[d], get[r].owed[d], get[r].since)
        /\ (get[r].owed[d] # NoRow /\ d \in Tombs(snap')) => Lost(row[d], get[r].since)
    BY <1>1, <1>3, <1>5 DEF AnswersAreOwed, Sources
<1> QED BY <1>2, <1>3, <1>4, <1>6, <1>7, SnapStep

\* A list that agrees with SQL, and is good for every request, replaces the snapshot;
\* the tombstones hide what they name.
LEMMA PutStep ==
    ASSUME IndInv, TypeOK', UNCHANGED <<row, revision, pend, applied, carry, cache>>,
           snap'.ver = snap.ver + 1, NEW list \in Lists,
           \A c \in Clients : snap'.clients[c] = list[c] /\ (c \in Tombs(snap') => list[c] = NoRow),
           Matches(list),
           \A r \in Readers : get[r].pc \in {"list", "again"} => \A c \in get[r].quiet :
             Good(list[c], row[c], get[r].owed[c], get[r].since),
           \A r \in Readers : get'[r] = get[r] \/ get'[r] = Quiet,
           \A o \in Orders : order'[o] = order[o] \/ order'[o].pc # "put",
           restore' = restore \/ restore'.pc = "idle"
    PROVE  IndInv'
<1>1. TypeOK /\ OutboxInOrder /\ AnswersAreOwed
    BY DEF IndInv
<1>2. OutboxInOrder'
    BY <1>1 DEF OutboxInOrder
<1>3. \A c \in Clients : pend'[c] = 0 => Fits(snap', c, row[c])
    BY DEF Matches, Same, Fits
<1>4. ASSUME NEW r \in Readers, get[r].pc \in {"list", "again"}, NEW c \in get[r].quiet
      PROVE  /\ NotOlder(snap'.clients[c], get[r].owed[c], get[r].since)
             /\ (get[r].owed[c] # NoRow /\ c \in Tombs(snap')) => Lost(row[c], get[r].since)
  <2>1. c \in Clients /\ Good(list[c], row[c], get[r].owed[c], get[r].since)
      BY <1>1, <1>4, StateTypes
  <2> QED BY <2>1 DEF Good
<1> QED BY <1>2, <1>3, <1>4, SnapStep

\* writeAdminClientsSnapshot replaces the clients and keeps the tombstones not confirmed.
LEMMA StoreListStep ==
    ASSUME IndInv, NEW r0 \in Readers, get[r0].pc = "save", get[r0].ver = snap.ver,
           snap' = [ver |-> NextVersion,
                    clients |-> [c \in Clients |-> IF c \in Tombs(snap) THEN NoRow
                                                   ELSE get[r0].answer[c]],
                    removed |-> [c \in Clients |-> IF c \in get[r0].conf THEN 0
                                                   ELSE snap.removed[c]],
                    complete |-> TRUE],
           get' = [get EXCEPT ![r0] = Quiet],
           UNCHANGED <<row, revision, pend, carry, applied, cache, order, restore>>
    PROVE  IndInv'
<1>1. TypeOK /\ ListsMatch /\ SnapshotMatches /\ AnswersAreOwed
    BY DEF IndInv
<1>t. /\ snap.ver \in Nat /\ get[r0].answer \in Lists
      /\ \A c \in Clients : /\ row[c] \in Entry /\ snap.removed[c] \in Nat
                            /\ get[r0].answer[c] \in Entry
    BY <1>1, StateTypes DEF Lists, Entry
<1> DEFINE list == [c \in Clients |-> IF c \in Tombs(snap) THEN NoRow ELSE get[r0].answer[c]]
           removed == [c \in Clients |-> IF c \in get[r0].conf THEN 0 ELSE snap.removed[c]]
<1>2. list \in Lists /\ removed \in [Clients -> Nat]
    BY <1>t DEF Lists, Entry
<1>3. \A c \in Clients : /\ c \in Tombs(snap) => list[c] = NoRow
                         /\ c \notin Tombs(snap) => list[c] = get[r0].answer[c]
                         /\ removed[c] # 0 => c \in Tombs(snap)
    BY DEF Tombs
<1>4. snap' = [ver |-> NextVersion, clients |-> list, removed |-> removed, complete |-> TRUE]
    OBVIOUS
<1> HIDE DEF list, removed
<1>5. /\ snap' \in Snapshots /\ snap'.ver = snap.ver + 1 /\ snap'.clients = list
      /\ \A c \in Clients : c \in Tombs(snap') => c \in Tombs(snap) /\ list[c] = NoRow
    BY <1>t, <1>2, <1>3, <1>4 DEF Snapshots, NextVersion, Tombs
<1>6. TypeOK'
    BY <1>1, <1>5, ConstantFacts DEF TypeOK
<1>7. Matches(list)
  <2> SUFFICES ASSUME NEW c \in Clients, pend[c] = 0
               PROVE  Same(list[c], row[c])
      BY DEF Matches
  <2>1. Same(get[r0].answer[c], row[c])
      BY <1>1 DEF ListsMatch, Matches
  <2>2. c \in Tombs(snap) => row[c] = NoRow
    <3>1. CASE Stored
        BY <1>1, <3>1 DEF SnapshotMatches, Fits
    <3>2. CASE ~Stored
        BY <1>1, <3>2, ConstantFacts DEF ListsMatch
    <3> QED BY <3>1, <3>2
  <2> QED BY <1>3, <2>1, <2>2 DEF Same
<1>8. ASSUME NEW r \in Readers, get[r].pc \in {"list", "again"}, NEW c \in get[r].quiet
      PROVE  Good(list[c], row[c], get[r].owed[c], get[r].since)
  <2>1. Sources(get[r], c, get[r].owed[c], get[r].since) /\ c \in Clients
      BY <1>1, <1>8, StateTypes DEF AnswersAreOwed
  <2>2. CASE c \in Tombs(snap)
      BY <1>3, <2>1, <2>2 DEF Sources, Good, NotOlder
  <2>3. CASE c \notin Tombs(snap)
      BY <1>3, <2>1, <2>3 DEF Sources
  <2> QED BY <2>2, <2>3
<1>9. \A r \in Readers : get'[r] = get[r] \/ get'[r] = Quiet
    BY <1>1 DEF TypeOK
<1> QED BY <1>2, <1>5, <1>6, <1>7, <1>8, <1>9, PutStep

LEMMA GetSavesInv ==
    ASSUME IndInv, NEW r \in Readers, GetSaves(r)
    PROVE  IndInv'
<1>1. /\ get[r].pc = "save" /\ get' = [get EXCEPT ![r] = Quiet]
      /\ UNCHANGED <<row, revision, pend, carry, applied, cache, order, restore>>
    BY DEF GetSaves, sqlVars
<1>2. CASE snap' = snap
  <2>1. TypeOK' /\ \A q \in Readers : get'[q] = get[q] \/ get'[q] = Quiet
      BY <1>1, <1>2, ConstantFacts DEF IndInv, TypeOK
  <2> QED BY <1>1, <1>2, <2>1, KeepStep
<1>3. CASE snap' # snap
    BY <1>1, <1>3, StoreListStep DEF GetSaves, StoreList
<1> QED BY <1>2, <1>3

LEMMA ReorderListsInv ==
    ASSUME IndInv, NEW o \in Orders, ReorderLists(o)
    PROVE  IndInv'
<1>1. /\ order' = [order EXCEPT ![o] = [pc |-> "put", list |-> row]] /\ cache' = row
      /\ UNCHANGED <<row, revision, pend, carry, applied, snap, get, restore>>
    BY DEF ReorderLists, sqlVars
<1>2. TypeOK' /\ \A p \in Orders : order'[p] = order[p] \/ order'[p].list = row
    BY <1>1 DEF IndInv, TypeOK
<1> QED BY <1>1, <1>2, KeepStep

LEMMA ReorderStoresInv ==
    ASSUME IndInv, NEW o \in Orders, ReorderStores(o)
    PROVE  IndInv'
<1>1. TypeOK /\ OutboxInOrder /\ SnapshotMatches /\ ListsMatch /\ AnswersAreOwed
    BY DEF IndInv
<1>t. /\ snap.ver \in Nat /\ snap \in Snapshots /\ order[o].list \in Lists
      /\ \A c \in Clients : snap.clients[c] \in Entry /\ order[o].list[c] \in Entry
    BY <1>1, StateTypes DEF TypeOK, Lists, Entry
<1>2. /\ order[o].pc = "put" /\ StoreOrder(order[o].list)
      /\ order' = [order EXCEPT ![o] = [pc |-> "idle", list |-> Empty]]
      /\ UNCHANGED <<row, revision, pend, carry, applied, cache, get, restore>>
    BY DEF ReorderStores, sqlVars
<1>3. /\ order' \in [Orders -> OrderRecs]
      /\ \A p \in Orders : order'[p] = order[p] \/ order'[p].pc # "put"
    BY <1>1, <1>2, ConstantFacts DEF TypeOK, OrderRecs
<1>4. CASE Stored
  <2> DEFINE Moved(c) == [snap.clients[c] EXCEPT !.ord = order[o].list[c].ord]
             clients == [c \in Clients |->
                          IF snap.clients[c] = NoRow \/ order[o].list[c] = NoRow
                          THEN snap.clients[c] ELSE Moved(c)]
  <2>1. \A c \in Clients : (snap.clients[c] # NoRow /\ order[o].list[c] # NoRow) =>
          Moved(c) \in Rows /\ Moved(c).meta = snap.clients[c].meta
      BY <1>t DEF Entry, Rows
  <2> HIDE DEF Moved
  <2>2. /\ clients \in Lists
        /\ \A c \in Clients : /\ clients[c] = NoRow <=> snap.clients[c] = NoRow
                              /\ clients[c] # NoRow => clients[c].meta = snap.clients[c].meta
      BY <1>t, <2>1, AbsentAssumption DEF Lists, Entry
  <2>3. snap' = [snap EXCEPT !.ver = snap.ver + 1, !.clients = clients]
      BY <1>2, <1>4 DEF StoreOrder, NextVersion, Moved
  <2> HIDE DEF clients
  <2>4. /\ snap' \in Snapshots /\ snap'.ver = snap.ver + 1 /\ snap'.clients = clients
        /\ snap'.removed = snap.removed /\ snap'.complete = snap.complete
    <3> DEFINE next == snap.ver + 1
    <3>1. next \in Nat /\ snap' = [snap EXCEPT !.ver = next, !.clients = clients]
        BY <1>t, <2>3
    <3> HIDE DEF next
    <3>2. /\ snap' \in Snapshots /\ snap'.ver = next /\ snap'.clients = clients
          /\ snap'.removed = snap.removed /\ snap'.complete = snap.complete
        BY <1>t, <2>2, <3>1 DEF Snapshots
    <3> QED BY <3>2 DEF next
  <2>5. Tombs(snap') = Tombs(snap)
      BY <2>4 DEF Tombs
  <2>6. TypeOK' /\ OutboxInOrder'
      BY <1>1, <1>2, <1>3, <2>4 DEF TypeOK, OrderRecs, OutboxInOrder
  <2>7. \A c \in Clients : pend'[c] = 0 => Fits(snap', c, row[c])
      BY <1>1, <1>2, <1>4, <2>2, <2>4, <2>5 DEF SnapshotMatches, Fits
  <2>8. ASSUME NEW r \in Readers, get[r].pc \in {"list", "again"}, NEW c \in get[r].quiet
        PROVE  /\ NotOlder(snap'.clients[c], get[r].owed[c], get[r].since)
               /\ (get[r].owed[c] # NoRow /\ c \in Tombs(snap')) => Lost(row[c], get[r].since)
    <3>1. Sources(get[r], c, get[r].owed[c], get[r].since) /\ c \in Clients
        BY <1>1, <2>8, StateTypes DEF AnswersAreOwed
    <3> QED BY <2>2, <2>4, <2>5, <3>1 DEF Sources, NotOlder
  <2> QED BY <1>2, <1>3, <2>4, <2>6, <2>7, <2>8, SnapStep
<1>5. CASE ~Stored
  <2>1. snap' = [ver |-> 1, clients |-> order[o].list, removed |-> NoTombs, complete |-> TRUE]
      BY <1>2, <1>5 DEF StoreOrder
  <2>2. /\ snap' \in Snapshots /\ snap'.ver = snap.ver + 1 /\ snap'.clients = order[o].list
        /\ Tombs(snap') = {}
      BY <1>5, <1>t, <2>1, ConstantFacts DEF Snapshots, Stored, Tombs, NoTombs
  <2>3. TypeOK'
      BY <1>1, <1>2, <1>3, <2>2 DEF TypeOK, OrderRecs
  <2>4. Matches(order[o].list)
      BY <1>1, <1>2, <1>5 DEF ListsMatch
  <2>5. ASSUME NEW r \in Readers, get[r].pc \in {"list", "again"}, NEW c \in get[r].quiet
        PROVE  Good(order[o].list[c], row[c], get[r].owed[c], get[r].since)
      BY <1>1, <1>2, <1>5, <2>5 DEF AnswersAreOwed, Sources
  <2> QED BY <1>t, <1>2, <1>3, <2>2, <2>3, <2>4, <2>5, PutStep
<1> QED BY <1>4, <1>5

LEMMA RestoreReadsInv ==
    ASSUME IndInv, RestoreReads \/ RestoreLists
    PROVE  IndInv'
<1>1. TypeOK /\ ListsMatch
    BY DEF IndInv
<1>2. UNCHANGED <<row, revision, pend, carry, applied, snap, cache, get, order>>
    BY DEF RestoreReads, RestoreLists, sqlVars
<1>t. restore \in RestoreRecs /\ row \in Lists /\ snap.ver \in Nat
    BY <1>1, StateTypes DEF TypeOK, RestoreRecs
<1>3. /\ restore' \in RestoreRecs /\ restore'.base <= snap.ver
      /\ restore'.pc = "put" => restore'.list = row
  <2>1. CASE RestoreReads
    <3>1. restore' = [restore EXCEPT !.pc = "list", !.base = snap.ver]
        BY <2>1 DEF RestoreReads
    <3>2. restore' \in RestoreRecs /\ restore'.base = snap.ver /\ restore'.pc = "list"
        BY <1>t, <3>1 DEF RestoreRecs
    <3> QED BY <1>t, <3>2
  <2>2. CASE RestoreLists
    <3>1. /\ restore' = [restore EXCEPT !.pc = "put", !.list = row]
          /\ restore.base <= snap.ver
        BY <1>1, <2>2 DEF RestoreLists, ListsMatch
    <3> QED BY <1>t, <3>1 DEF RestoreRecs
  <2> QED BY <2>1, <2>2
<1>4. TypeOK'
    BY <1>1, <1>2, <1>3 DEF TypeOK, RestoreRecs
<1> QED BY <1>2, <1>3, <1>4, KeepStep

LEMMA RestoreStoresInv ==
    ASSUME IndInv, RestoreStores
    PROVE  IndInv'
<1>1. TypeOK /\ ListsMatch /\ AnswersAreOwed
    BY DEF IndInv
<1>2. /\ restore.pc = "put" /\ RestoreClients
      /\ UNCHANGED <<row, revision, pend, carry, applied, cache, get, order>>
    BY DEF RestoreStores, sqlVars
<1>t. snap.ver \in Nat /\ restore.list \in Lists /\ restore \in RestoreRecs
    BY <1>1, StateTypes DEF TypeOK, RestoreRecs
<1>3. CASE restore.base = snap.ver
  <2>1. /\ snap' = [ver |-> NextVersion, clients |-> restore.list, removed |-> NoTombs,
                     complete |-> TRUE]
        /\ restore' = [restore EXCEPT !.pc = "idle", !.list = Empty]
      BY <1>2, <1>3 DEF RestoreClients
  <2>2. /\ snap' \in Snapshots /\ snap'.ver = snap.ver + 1 /\ snap'.clients = restore.list
        /\ Tombs(snap') = {}
      BY <1>t, <2>1, ConstantFacts DEF Snapshots, NextVersion, Tombs, NoTombs
  <2>3. restore' \in RestoreRecs /\ restore'.pc = "idle"
      BY <1>t, <2>1, ConstantFacts DEF RestoreRecs
  <2>4. TypeOK'
      BY <1>1, <1>2, <2>2, <2>3 DEF TypeOK, RestoreRecs
  <2>5. Matches(restore.list)
      BY <1>1, <1>2, <1>3 DEF ListsMatch
  <2>6. ASSUME NEW r \in Readers, get[r].pc \in {"list", "again"}, NEW c \in get[r].quiet
        PROVE  Good(restore.list[c], row[c], get[r].owed[c], get[r].since)
      BY <1>1, <1>2, <1>3, <2>6 DEF AnswersAreOwed, Sources
  <2> QED BY <1>t, <1>2, <2>2, <2>3, <2>4, <2>5, <2>6, PutStep
<1>4. CASE restore.base # snap.ver
  <2> DEFINE next == IF restore.tries + 1 < MaxAttempts THEN "read" ELSE "idle"
  <2>1. next \in {"read", "idle"}
      OBVIOUS
  <2>2. /\ restore' = [restore EXCEPT !.pc = next, !.tries = @ + 1, !.list = Empty]
        /\ UNCHANGED snap
      BY <1>2, <1>4 DEF RestoreClients
  <2> HIDE DEF next
  <2>3. restore' \in RestoreRecs /\ restore'.pc \in {"read", "idle"}
    <3> DEFINE tries == restore.tries + 1
    <3>1. tries \in Nat /\ Empty \in Lists
        BY <1>t, ConstantFacts DEF RestoreRecs
    <3>2. restore' = [restore EXCEPT !.pc = next, !.tries = tries, !.list = Empty]
        BY <2>2
    <3> HIDE DEF tries
    <3> QED BY <1>t, <2>1, <3>1, <3>2 DEF RestoreRecs
  <2>4. TypeOK'
      BY <1>1, <1>2, <2>2, <2>3 DEF TypeOK, RestoreRecs
  <2> QED BY <1>2, <2>2, <2>3, <2>4, KeepStep
<1> QED BY <1>3, <1>4

LEMMA GetListsInv ==
    ASSUME IndInv, NEW r \in Readers, GetLists(r)
    PROVE  IndInv'
<1>1. TypeOK /\ ListsMatch /\ AnswersAreOwed /\ AnswerIsCurrent
    BY DEF IndInv
<1> DEFINE list == IF ~get[r].forced /\ cache # NoList THEN cache ELSE row
<1>2. /\ get[r].pc = "list" /\ get' = [get EXCEPT ![r].pc = "again", ![r].list = list]
      /\ cache' = list
      /\ UNCHANGED <<row, revision, pend, carry, applied, snap, order, restore>>
    BY DEF GetLists, sqlVars
<1>t. /\ get[r] \in Gets /\ row \in Lists /\ snap.ver \in Nat
      /\ get[r].quiet \in SUBSET Clients /\ get[r].owed \in Lists
      /\ get[r].since \in Nat /\ get[r].ver \in Nat
      /\ \A c \in Clients : row[c] \in Entry
    BY <1>1, StateTypes DEF TypeOK
<1>3. /\ list \in Lists
      /\ list = row \/ (list = cache /\ cache # NoList /\ ~get[r].forced)
    BY <1>1, <1>t DEF TypeOK
<1> HIDE DEF list
<1>4. /\ get'[r] \in Gets /\ get'[r].pc = "again" /\ get'[r].list = list
      /\ get'[r].ver = get[r].ver /\ get'[r].forced = get[r].forced
      /\ get'[r].current = get[r].current /\ get'[r].since = get[r].since
      /\ get'[r].quiet = get[r].quiet /\ get'[r].owed = get[r].owed
      /\ get' \in [Readers -> Gets] /\ \A q \in Readers : q # r => get'[q] = get[q]
  <2> DEFINE g == [get[r] EXCEPT !.pc = "again", !.list = list]
  <2>1. get' = [get EXCEPT ![r] = g]
      BY <1>1, <1>2 DEF TypeOK
  <2>2. /\ g \in Gets /\ g.pc = "again" /\ g.list = list
        /\ g.ver = get[r].ver /\ g.forced = get[r].forced
        /\ g.current = get[r].current /\ g.since = get[r].since
        /\ g.quiet = get[r].quiet /\ g.owed = get[r].owed
      BY <1>t, <1>3 DEF Gets
  <2> HIDE DEF g
  <2> QED BY <1>1, <2>1, <2>2 DEF TypeOK
<1>5. TypeOK' /\ cache' \in {cache, row}
    BY <1>1, <1>2, <1>3, <1>4 DEF TypeOK
<1>6. get[r].ver <= snap.ver /\ (~get[r].forced => get[r].ver = 0) /\ get[r].current = TRUE
    BY <1>1, <1>2, <1>t DEF ListsMatch, AnswerIsCurrent, Gets
<1>7. get[r].ver = snap.ver => \A c \in Clients : pend[c] = 0 => Same(list[c], row[c])
    BY <1>1, <1>3, <1>6 DEF ListsMatch, Matches, Same, Stored
<1>8. ASSUME NEW q \in Readers, get[q].pc \in {"list", "again"}, NEW c \in get[q].quiet
      PROVE  /\ Sources(get[q], c, get[q].owed[c], get[q].since)
             /\ Good(row[c], row[c], get[q].owed[c], get[q].since)
             /\ (get[r].ver = snap.ver \/ ~get[q].forced \/ q = r) =>
                  Good(list[c], row[c], get[q].owed[c], get[q].since)
  <2>1. Sources(get[q], c, get[q].owed[c], get[q].since)
      BY <1>1, <1>8 DEF AnswersAreOwed
  <2>2. c \in Clients /\ get[q].owed[c] \in Entry /\ get[q].since \in Nat
      BY <1>1, StateTypes DEF Lists, Entry
  <2>3. Good(row[c], row[c], get[q].owed[c], get[q].since)
      BY <1>t, <2>1, <2>2, GoodNow DEF Sources
  <2>4. list = cache /\ cache # NoList /\ ~get[r].forced =>
          (get[r].ver = snap.ver \/ ~get[q].forced \/ q = r => ~get[q].forced \/ ~Stored)
      BY <1>6 DEF Stored
  <2>5. ((~get[q].forced \/ ~Stored) /\ cache # NoList)
          => Good(cache[c], row[c], get[q].owed[c], get[q].since)
      BY <2>1 DEF Sources
  <2> QED BY <1>3, <2>1, <2>3, <2>4, <2>5
<1>9. ASSUME NEW c \in get[r].quiet
      PROVE  Sources(get[r], c, get[r].owed[c], get[r].since)'
  <2> DEFINE was == get[r].owed[c]
             since == get[r].since
  <2>1. /\ Sources(get[r], c, was, since) /\ Good(row[c], row[c], was, since)
        /\ Good(list[c], row[c], was, since)
      BY <1>2, <1>8
  <2>2. was' = was /\ since' = since
      BY <1>4
  <2> HIDE DEF was, since
  <2>3. \A q \in Readers : get'[q].ver = snap.ver =>
         /\ get'[q].pc = "again" => Good(get'[q].list[c], row[c], was, since)
         /\ get'[q].pc = "save" => Good(get'[q].answer[c], row[c], was, since)
      BY <1>4, <2>1 DEF Sources
  <2>4. Sources(get[r], c, was, since)'
      BY <1>2, <1>4, <2>1, <2>2, <2>3 DEF Sources, Stored
  <2> QED BY <2>4 DEF was, since
<1>10. get'[r].since <= revision /\ \A c \in get'[r].quiet : Sources(get[r], c, get[r].owed[c], get[r].since)'
    BY <1>1, <1>2, <1>4, <1>9 DEF AnswersAreOwed
<1>11. get'[r].ver = snap.ver => \A q \in Readers :
         (q # r /\ get[q].pc \in {"list", "again"}) => \A c \in get[q].quiet :
           Good(get'[r].list[c], row[c], get[q].owed[c], get[q].since)
    BY <1>4, <1>8
<1> QED BY <1>2, <1>4, <1>5, <1>6, <1>7, <1>10, <1>11, ReaderStep

\* An answer that has what it owes leaves nothing behind.
LEMMA DoneIsQuiet ==
    ASSUME NEW g, NEW answer, Current(g, answer)
    PROVE  Done(g, answer) = Quiet
<1>1. Current(g, answer) = TRUE
    BY DEF Current
<1>2. Done(g, answer) = [Quiet EXCEPT !.current = TRUE]
    BY <1>1 DEF Done
<1> QED BY <1>2, ConstantFacts DEF Gets

LEMMA GetAnswersInv ==
    ASSUME IndInv, NEW r \in Readers, GetAnswers(r)
    PROVE  IndInv'
<1>1. TypeOK /\ ListsMatch /\ SnapshotMatches /\ AnswersAreOwed
    BY DEF IndInv
<1> DEFINE answer == Overlay(get[r].list, snap, get[r].ver, get[r].had)
           conf == Tombs(snap) \ Has(get[r].list)
           saved == [Quiet EXCEPT !.pc = "save", !.ver = get[r].ver, !.answer = answer,
                                  !.conf = conf]
<1>t. /\ get[r] \in Gets /\ snap \in Snapshots /\ snap.ver \in Nat /\ get[r].list \in Lists
      /\ get[r].ver \in Nat /\ get[r].had \in SUBSET Clients
      /\ \A c \in Clients : row[c] \in Entry
      /\ \A q \in Readers : /\ get[q].quiet \in SUBSET Clients /\ get[q].since \in Nat
                            /\ get[q].owed \in Lists
    BY <1>1, StateTypes DEF TypeOK, Gets
<1>2. answer \in Lists
    BY <1>t, OverlayType
<1>3. conf \in SUBSET Clients
    BY DEF Tombs
<1>4. ASSUME NEW q \in Readers, get[q].pc \in {"list", "again"}, NEW c \in get[q].quiet,
             q = r \/ get[r].ver = snap.ver, get[r].pc = "again"
      PROVE  Good(answer[c], row[c], get[q].owed[c], get[q].since)
  <2>1. Sources(get[q], c, get[q].owed[c], get[q].since)
      BY <1>1, <1>4 DEF AnswersAreOwed
  <2>2. c \in Clients /\ get[q].owed[c] \in Entry /\ get[q].since \in Nat /\ row[c] \in Entry
      BY <1>t DEF Lists, Entry
  <2>3. /\ Good(get[r].list[c], row[c], get[q].owed[c], get[q].since)
        /\ NotOlder(snap.clients[c], get[q].owed[c], get[q].since)
        /\ (get[q].owed[c] # NoRow /\ c \in Tombs(snap)) => Lost(row[c], get[q].since)
      BY <1>4, <2>1 DEF Sources
  <2> QED BY <1>t, <2>2, <2>3, OverlayGood
<1>5. ASSUME get[r].pc = "again", get[r].ver = snap.ver, NEW c \in Clients, pend[c] = 0
      PROVE  Same(answer[c], row[c])
  <2>1. Same(get[r].list[c], row[c])
      BY <1>1, <1>5 DEF ListsMatch, Matches
  <2>2. snap.ver # 0 => Fits(snap, c, row[c])
      BY <1>1, <1>5 DEF SnapshotMatches, Stored
  <2>3. answer = Overlay(get[r].list, snap, snap.ver, get[r].had)
      BY <1>5
  <2> QED BY <1>t, <2>1, <2>2, <2>3, OverlaySame
<1>6. get[r].pc = "again"
    BY DEF GetAnswers
<1>7. Current(get[r], answer)
    BY <1>4, <1>6 DEF Current
<1>8. Done(get[r], answer) = Quiet
    BY <1>7, DoneIsQuiet
<1>9. /\ saved \in Gets /\ saved.pc = "save" /\ saved.ver = get[r].ver
      /\ saved.answer = answer /\ saved.current = TRUE
  <2> HIDE DEF answer, conf
  <2>1. Quiet \in Gets /\ Quiet.current = TRUE
      BY ConstantFacts
  <2> QED BY <1>t, <1>2, <1>3, <2>1 DEF Gets
<1>10. /\ \/ get' = [get EXCEPT ![r] = saved]
          \/ get' = [get EXCEPT ![r] = Quiet]
       /\ UNCHANGED <<row, revision, pend, carry, applied, snap, cache, order, restore>>
    BY <1>8 DEF GetAnswers, sqlVars
<1> HIDE DEF saved, answer
<1>11. /\ TypeOK' /\ \A q \in Readers : q # r => get'[q] = get[q]
       /\ get'[r] = saved \/ get'[r] = Quiet
    BY <1>1, <1>9, <1>10, ConstantFacts DEF TypeOK
<1>12. /\ get'[r].current = TRUE /\ get'[r].ver <= snap.ver
       /\ get'[r].pc \notin {"list", "again"}
    BY <1>1, <1>t, <1>9, <1>11, ConstantFacts DEF ListsMatch
<1>13. get'[r].ver = snap.ver => \A c \in Clients : pend[c] = 0 =>
         (get'[r].pc = "save" => Same(get'[r].answer[c], row[c]))
    BY <1>5, <1>6, <1>9, <1>11, ConstantFacts
<1>14. get'[r].ver = snap.ver => \A q \in Readers :
         (q # r /\ get[q].pc \in {"list", "again"}) => \A c \in get[q].quiet :
           get'[r].pc = "save" => Good(get'[r].answer[c], row[c], get[q].owed[c], get[q].since)
    BY <1>4, <1>6, <1>9, <1>11, ConstantFacts
<1> QED BY <1>10, <1>11, <1>12, <1>13, <1>14, ReaderStep

LEMMA GetBeginsInv ==
    ASSUME IndInv, NEW r \in Readers, NEW refresh \in BOOLEAN, GetBegins(r, refresh)
    PROVE  IndInv'
<1>1. TypeOK /\ OutboxInOrder /\ RowsAreOld /\ SnapshotMatches /\ ListsMatch
    BY DEF IndInv
<1>t. /\ snap \in Snapshots /\ snap.ver \in Nat /\ revision \in Revisions /\ revision \in Nat
      /\ row \in Lists
      /\ \A c \in Clients : row[c] \in Entry /\ snap.clients[c] \in Entry
                            /\ (cache # NoList => cache[c] \in Entry)
    BY <1>1, StateTypes DEF TypeOK
<1> DEFINE forced == Forced(refresh)
           had == Has(snap.clients)
           quiet == {c \in Clients : Settled(c)}
           hit == ~refresh /\ Stored /\ snap.complete /\ Tombs(snap) = {}
           g == [Quiet EXCEPT !.pc = "list", !.refresh = refresh, !.forced = forced,
                              !.ver = snap.ver, !.had = had, !.since = revision,
                              !.quiet = quiet, !.owed = row]
<1>2. forced \in BOOLEAN /\ had \in SUBSET Clients /\ quiet \in SUBSET Clients
    BY <1>t DEF Forced, NeedsRepair, Has, Snapshots
<1>3. hit \in BOOLEAN /\ (~hit /\ ~forced => ~Stored)
    BY <1>t DEF Forced, NeedsRepair, Stored, Snapshots
<1>4. \A c \in quiet : c \in Clients /\ pend[c] = 0 /\ carry[c] = {}
    BY DEF Settled
<1>5. /\ get' = [get EXCEPT ![r] = IF hit THEN Done(g, snap.clients) ELSE g]
      /\ UNCHANGED <<row, revision, pend, carry, applied, snap, cache, order, restore>>
    BY DEF GetBegins, sqlVars
<1>h. hit => Stored /\ snap.complete
    OBVIOUS
<1> HIDE DEF forced, had, quiet, hit
<1>6. /\ g \in Gets /\ g.pc = "list" /\ g.forced = forced /\ g.ver = snap.ver
      /\ g.since = revision /\ g.quiet = quiet /\ g.owed = row /\ g.current = TRUE
  <2>1. Quiet \in Gets /\ Quiet.current = TRUE
      BY ConstantFacts
  <2> QED BY <1>t, <1>2, <2>1 DEF Gets
<1> HIDE DEF g
<1>7. ASSUME NEW c \in quiet
      PROVE  /\ NotOlder(row[c], row[c], revision)
             /\ NotOlder(snap.clients[c], row[c], revision)
             /\ row[c] # NoRow => row[c].meta <= revision
             /\ (row[c] # NoRow /\ c \in Tombs(snap)) => Lost(row[c], revision)
             /\ (Stored /\ snap.complete) => Good(snap.clients[c], row[c], row[c], revision)
  <2>1. c \in Clients /\ pend[c] = 0
      BY <1>4
  <2>2. row[c] \in Entry /\ snap.clients[c] \in Entry
      BY <1>t, <2>1
  <2>3. Same(row[c], row[c])
      BY DEF Same
  <2>4. NotOlder(row[c], row[c], revision)
      BY <1>t, <2>2, <2>3, GoodSame
  <2>5. CASE Stored
    <3>1. Fits(snap, c, row[c])
        BY <1>1, <2>1, <2>5 DEF SnapshotMatches
    <3>2. snap.clients[c] # NoRow => Same(snap.clients[c], row[c])
        BY <3>1 DEF Fits, Same
    <3>3. NotOlder(snap.clients[c], row[c], revision)
        BY <1>t, <2>2, <3>2, GoodSame DEF NotOlder
    <3>4. (row[c] # NoRow /\ snap.complete => snap.clients[c] # NoRow)
          /\ (row[c] # NoRow => c \notin Tombs(snap))
        BY <3>1 DEF Fits
    <3> QED BY <1>1, <2>1, <2>4, <3>3, <3>4 DEF RowsAreOld, Good
  <2>6. CASE ~Stored
    <3>1. snap.clients[c] = NoRow /\ c \notin Tombs(snap)
        BY <1>1, <2>1, <2>6, ConstantFacts DEF ListsMatch
    <3> QED BY <1>1, <2>1, <2>4, <2>6, <3>1 DEF RowsAreOld, NotOlder
  <2> QED BY <2>5, <2>6
<1>8. ASSUME NEW list \in Lists, Matches(list), NEW c \in quiet
      PROVE  Good(list[c], row[c], row[c], revision)
  <2>1. c \in Clients /\ Same(list[c], row[c]) /\ list[c] \in Entry /\ row[c] \in Entry
      BY <1>4, <1>8, <1>t DEF Matches, Lists, Entry
  <2> QED BY <1>t, <2>1, GoodSame
<1>9. CASE hit
  <2>1. Current(g, snap.clients)
      BY <1>6, <1>7, <1>9, <1>h DEF Current
  <2>2. get' = [get EXCEPT ![r] = Quiet]
      BY <1>5, <1>9, <2>1, DoneIsQuiet
  <2>3. TypeOK' /\ \A q \in Readers : get'[q] = get[q] \/ get'[q] = Quiet
      BY <1>1, <1>5, <2>2, ConstantFacts DEF TypeOK
  <2> QED BY <1>5, <2>3, KeepStep
<1>10. CASE ~hit
  <2>1. get' = [get EXCEPT ![r] = g]
      BY <1>5, <1>10
  <2>2. /\ TypeOK' /\ get'[r] = g /\ \A q \in Readers : q # r => get'[q] = get[q]
      BY <1>1, <1>5, <1>6, <2>1 DEF TypeOK
  <2>3. ~forced => snap.ver = 0
      BY <1>3, <1>10 DEF Stored
  <2>4. ASSUME NEW c \in quiet
        PROVE  Sources(get[r], c, get[r].owed[c], get[r].since)'
    <3>1. c \in Clients /\ carry[c] = {}
        BY <1>4
    <3>2. ((~forced \/ ~Stored) /\ cache # NoList) => Good(cache[c], row[c], row[c], revision)
      <4> SUFFICES ASSUME ~forced \/ ~Stored, cache # NoList
                   PROVE  Good(cache[c], row[c], row[c], revision)
          OBVIOUS
      <4>1. cache \in Lists /\ Matches(cache)
          BY <1>1, <2>3 DEF ListsMatch, TypeOK, Stored
      <4> QED BY <1>8, <4>1
    <3>3. \A q \in Readers : get'[q].ver = snap.ver =>
            /\ get'[q].pc = "again" => Good(get'[q].list[c], row[c], row[c], revision)
            /\ get'[q].pc = "save" => Good(get'[q].answer[c], row[c], row[c], revision)
      <4> SUFFICES ASSUME NEW q \in Readers, q # r, get[q].ver = snap.ver
                   PROVE  /\ get[q].pc = "again" => Good(get[q].list[c], row[c], row[c], revision)
                          /\ get[q].pc = "save" => Good(get[q].answer[c], row[c], row[c], revision)
          BY <1>6, <2>2
      <4>1. get[q].list \in Lists /\ get[q].answer \in Lists
          BY <1>1, StateTypes
      <4>2. /\ get[q].pc = "again" => Matches(get[q].list)
            /\ get[q].pc = "save" => Matches(get[q].answer)
          BY <1>1 DEF ListsMatch
      <4> QED BY <1>8, <4>1, <4>2
    <3>4. \A o \in Orders : (order[o].pc = "put" /\ ~Stored) => Good(order[o].list[c], row[c], row[c], revision)
      <4> SUFFICES ASSUME NEW o \in Orders, order[o].pc = "put", ~Stored
                   PROVE  Good(order[o].list[c], row[c], row[c], revision)
          OBVIOUS
      <4>1. order[o].list \in Lists /\ Matches(order[o].list)
          BY <1>1, StateTypes DEF ListsMatch
      <4> QED BY <1>8, <4>1
    <3>5. (restore.pc = "put" /\ restore.base = snap.ver) => Good(restore.list[c], row[c], row[c], revision)
      <4> SUFFICES ASSUME restore.pc = "put", restore.base = snap.ver
                   PROVE  Good(restore.list[c], row[c], row[c], revision)
          OBVIOUS
      <4>1. restore.list \in Lists /\ Matches(restore.list)
          BY <1>1, StateTypes DEF ListsMatch
      <4> QED BY <1>8, <4>1
    <3> QED BY <1>5, <1>6, <1>7, <2>2, <3>1, <3>2, <3>3, <3>4, <3>5 DEF Sources, Stored
  <2>5. /\ get'[r].current = TRUE /\ get'[r].ver <= snap.ver /\ get'[r].since <= revision
        /\ get'[r].pc = "list" /\ (~get'[r].forced => get'[r].ver = 0)
        /\ \A c \in get'[r].quiet : Sources(get[r], c, get[r].owed[c], get[r].since)'
      BY <1>t, <1>6, <2>2, <2>3, <2>4
  <2> QED BY <1>5, <2>2, <2>5, ReaderStep
<1> QED BY <1>9, <1>10, <1>3

-----------------------------------------------------------------------------
(* The theorems *)

LEMMA InitInv == Init => IndInv
<1> SUFFICES ASSUME Init
             PROVE  IndInv
    OBVIOUS
<1> DEFINE first == [meta |-> 0, ord |-> 0, at |-> 0]
<1>1. 0 \in Revisions /\ first \in Rows /\ first.meta = 0
    BY SnapshotAssumption DEF Revisions, Rows
<1>2. row \in [Clients -> {NoRow, first}]
    BY DEF Init
<1> HIDE DEF first
<1>3. row \in Lists /\ RowsAreOld
    BY <1>1, <1>2 DEF Lists, RowsAreOld, Init
<1>4. TypeOK
    BY <1>1, <1>3, ConstantFacts DEF TypeOK, Init
<1>5. OutboxInOrder
    BY DEF OutboxInOrder, Init
<1>6. ~Stored
    BY ConstantFacts DEF Stored, Init
<1>7. ListsMatch
    BY <1>6, ConstantFacts DEF ListsMatch, Init
<1>8. AnswersAreOwed /\ AnswerIsCurrent
    BY ConstantFacts DEF AnswersAreOwed, AnswerIsCurrent, Init
<1> QED BY <1>3, <1>4, <1>5, <1>6, <1>7, <1>8 DEF IndInv, SnapshotMatches

LEMMA NextInv == IndInv /\ [Next]_vars => IndInv'
<1> SUFFICES ASSUME IndInv, [Next]_vars
             PROVE  IndInv'
    OBVIOUS
<1>1. ASSUME NEW c \in Clients,
             AddClient(c) \/ EditClient(c) \/ RotateToken(c) \/ RemoveClient(c)
      PROVE  IndInv'
  <2>1. Write({c}, Changed({c})) \/ Write({c}, Without({c}))
      BY <1>1 DEF AddClient, EditClient, RotateToken, RemoveClient
  <2> QED BY <2>1, WriteInv
<1>2. ASSUME NEW c \in Clients, ListPending(c) \/ ApplyChange(c) \/ AgentUpsert(c)
      PROVE  IndInv'
    BY <1>2, ListPendingInv, ApplyChangeInv, AgentUpsertInv
<1>3. ASSUME NEW S \in SUBSET Clients, BatchHide(S) \/ BatchRemove(S) \/ RestoreSql(S)
      PROVE  IndInv'
    BY <1>3, WriteInv, RestoreSqlInv DEF BatchHide, BatchRemove
<1>4. ASSUME NEW r \in Readers, \E refresh \in BOOLEAN : GetBegins(r, refresh)
      PROVE  IndInv'
    BY <1>4, GetBeginsInv
<1>5. ASSUME NEW r \in Readers, GetLists(r) \/ GetAnswers(r) \/ GetSaves(r)
      PROVE  IndInv'
    BY <1>5, GetListsInv, GetAnswersInv, GetSavesInv
<1>6. ASSUME NEW o \in Orders, \E S \in SUBSET Clients : ReorderSql(o, S)
      PROVE  IndInv'
    BY <1>6, ReorderSqlInv
<1>7. ASSUME NEW o \in Orders, ReorderLists(o) \/ ReorderStores(o)
      PROVE  IndInv'
    BY <1>7, ReorderListsInv, ReorderStoresInv
<1>8. CASE CacheExpires \/ RestoreReads \/ RestoreLists \/ RestoreStores
    BY <1>8, CacheExpiresInv, RestoreReadsInv, RestoreStoresInv
<1>9. CASE UNCHANGED vars
  <2>1. UNCHANGED <<row, revision, pend, applied, snap, carry, cache, get, order, restore>>
      BY <1>9 DEF vars, sqlVars, reqVars
  <2>2. TypeOK'
      BY <2>1 DEF IndInv, TypeOK
  <2> QED BY <2>1, <2>2, KeepStep
<1> QED BY <1>1, <1>2, <1>3, <1>4, <1>5, <1>6, <1>7, <1>8, <1>9 DEF Next

\* The invariant holds, for any number of nodes, requests, reorders and backups.
THEOREM SnapshotInvariant == Spec => []IndInv
BY InitInv, NextInv, PTL DEF Spec

\* The variables have their types.
THEOREM SnapshotTypes == Spec => []TypeOK
<1>1. IndInv => TypeOK
    BY DEF IndInv
<1> QED BY <1>1, SnapshotInvariant, PTL

\* A node none of whose changes is on its way is in the stored list as it is in SQL
\* (writeAdminClientsSnapshot, restoreClients, applyClientSynchronization).
THEOREM TheSnapshotSettles == Spec => []SnapshotSettles
<1>1. IndInv => SnapshotSettles
    BY DEF IndInv, SnapshotMatches, SnapshotSettles, Settled
<1> QED BY <1>1, SnapshotInvariant, PTL

\* Every answer of GET /clients has the changes that were complete when it began.
THEOREM AnswersAreCurrent == Spec => []AnswerIsCurrent
<1>1. IndInv => AnswerIsCurrent
    BY DEF IndInv
<1> QED BY <1>1, SnapshotInvariant, PTL
=============================================================================
