------------------------------- MODULE InboxProofs -------------------------------
(***************************************************************************)
(* Proofs about Inbox, for any entries, statuses, requests and page size.  *)
(*                                                                         *)
(* An admin who pages by offset misses an entry when it moves in front of  *)
(* the offset before it was on a page.  Such entries, and those that are   *)
(* out of the filter for now, are called lost: no step but a triage that   *)
(* takes an entry out of the filter makes more of them, and that one makes *)
(* one more at most.                                                       *)
(***************************************************************************)
EXTENDS Inbox, FiniteSetTheorems, TLAPS

Inserting == {s \in Request : txn[s].pc = "insert"}

(* every insertion under way will get an id                                *)
RoomOK ==
    Cardinality(Entries) + Cardinality(Inserting) <= Cardinality(Entry)

(* reports are not deleted: what an update has loaded stays                *)
WritesOK ==
    \A r \in Request : txn[r].pc = "write" => txn[r].entry \in Entries

InboxOK == TypeOK /\ RoomOK /\ WritesOK

(* what the pages are cut from                                             *)
Listed == {e \in Entries : Matches(row[e], walk.filter)}

Newer(e) == {f \in Listed : row[f].created > row[e].created}

Lost == {e \in walk.start \ walk.seen :
           /\ Placed(e)
           /\ \/ e \notin Listed
              \/ walk.done
              \/ Cardinality(Newer(e)) < walk.offset}

LostBounded ==
    walk # Idle => /\ walk.start \subseteq Entries
                   /\ Cardinality(Lost) <= walk.left

InboxInv == InboxOK /\ LostBounded

-----------------------------------------------------------------------------
LEMMA SomeEntries ==
    ASSUME NEW S \in SUBSET Entry
    PROVE  IsFiniteSet(S) /\ Cardinality(S) \in Nat
  BY InboxAssumption, FS_Subset, FS_CardinalityType DEF InboxAssumption

LEMMA FewerEntries ==
    ASSUME NEW T \in SUBSET Entry, NEW S \in SUBSET T
    PROVE  Cardinality(S) <= Cardinality(T)
  BY SomeEntries, FS_Subset

LEMMA OneMore ==
    ASSUME NEW S \in SUBSET Entry, NEW e \in Entry \ S
    PROVE  Cardinality(S \cup {e}) = Cardinality(S) + 1
  BY SomeEntries, FS_AddElement

LEMMA OneLess ==
    ASSUME NEW S \in SUBSET Entry, NEW e \in S
    PROVE  Cardinality(S \ {e}) = Cardinality(S) - 1
  BY SomeEntries, FS_RemoveElement

LEMMA NoneIsNot == None \notin Row
  BY InboxAssumption DEF InboxAssumption, Row

LEMMA EntryRow ==
    ASSUME TypeOK, NEW e \in Entries
    PROVE  /\ e \in Entry
           /\ row[e] \in Row
           /\ row[e].created \in Nat
  BY DEF TypeOK, Entries, Row

LEMMA RequestKinds ==
    ASSUME TypeOK, NEW r \in Request
    PROVE  /\ txn[r] = Idle => txn[r].pc = "idle"
           /\ txn[r].pc = "insert" => txn[r].created \in Nat
           /\ txn[r].pc = "write" =>
                 /\ txn[r].entry \in Entry
                 /\ txn[r].status \in Status
                 /\ txn[r].loaded \in Status
  BY DEF TypeOK, Running, Idle

LEMMA InsertingFinite ==
    /\ IsFiniteSet(Inserting)
    /\ Cardinality(Inserting) \in Nat
  BY InboxAssumption, FS_Subset, FS_CardinalityType
     DEF InboxAssumption, Inserting

(* a request that is not inserting any more frees a place                  *)
LEMMA FewerInserting ==
    ASSUME Inserting' \in SUBSET Inserting
    PROVE  Cardinality(Inserting') <= Cardinality(Inserting)
  BY InsertingFinite, FS_Subset

-----------------------------------------------------------------------------
LEMMA CreateBeginOK ==
    ASSUME InboxOK, NEW r \in Request, CreateBegin(r)
    PROVE  InboxOK'
  <1>1. /\ TypeOK
        /\ txn[r] = Idle
        /\ clock' \in 0..MaxClock
        /\ txn' = [txn EXCEPT ![r] = [pc |-> "insert", created |-> clock']]
        /\ row' = row /\ sets' = sets /\ walk' = walk
        /\ Cardinality(Entries) + Cardinality(Inserting) < Cardinality(Entry)
    BY DEF InboxOK, CreateBegin, Goto, Inserting
  <1>2. clock' \in Nat
    BY <1>1, InboxAssumption DEF InboxAssumption
  <1>3. [pc |-> "insert", created |-> clock'] \in Running
    BY <1>2 DEF Running
  <1>4. TypeOK'
    BY <1>1, <1>3 DEF TypeOK
  <1>5. Entries' = Entries
    BY <1>1 DEF Entries
  <1>6. r \notin Inserting
    BY <1>1, RequestKinds DEF Inserting
  <1>7. Inserting' = Inserting \cup {r}
    BY <1>1 DEF Inserting, TypeOK
  <1>8. Cardinality(Inserting') = Cardinality(Inserting) + 1
    BY <1>6, <1>7, InsertingFinite, FS_AddElement
  <1>9. Cardinality(Entries) \in Nat /\ Cardinality(Entry) \in Nat
    BY SomeEntries DEF Entries
  <1>10. RoomOK'
    BY <1>1, <1>5, <1>8, <1>9, InsertingFinite DEF RoomOK
  <1>11. WritesOK'
    BY <1>1, <1>5 DEF InboxOK, WritesOK, TypeOK
  <1>12. QED
    BY <1>4, <1>10, <1>11 DEF InboxOK

(* the new entry, dated when its transaction began                         *)
LEMMA Created ==
    ASSUME InboxOK, NEW r \in Request, CreateCommit(r)
    PROVE  \E e \in Entry \ Entries :
              /\ row' \in [Entry -> Row \cup {None}]
              /\ \A f \in Entry :
                    row'[f] = IF f = e THEN NewRow(txn[r]) ELSE row[f]
              /\ Entries' = Entries \cup {e}
  <1>1. /\ TypeOK
        /\ txn[r].pc = "insert"
        /\ row' = [row EXCEPT ![CHOOSE e \in Entry \ Entries : TRUE] =
                     NewRow(txn[r])]
    BY DEF InboxOK, CreateCommit
  <1>2. Entry \ Entries # {}
    <2> SUFFICES ASSUME Entries = Entry
                 PROVE  FALSE
      BY DEF Entries
    <2>1. Cardinality(Inserting) # 0
      BY <1>1, InsertingFinite, FS_EmptySet DEF Inserting
    <2>2. Cardinality(Entry) \in Nat
      BY SomeEntries
    <2>3. QED
      BY <2>1, <2>2, InsertingFinite DEF InboxOK, RoomOK
  <1>3. PICK e \in Entry \ Entries : e = CHOOSE x \in Entry \ Entries : TRUE
    BY <1>2
  <1>4. NewRow(txn[r]) \in Row
    BY <1>1, RequestKinds, InboxAssumption
       DEF NewRow, Row, InboxAssumption
  <1>5. row' = [row EXCEPT ![e] = NewRow(txn[r])]
    BY <1>1, <1>3
  <1>6. \A f \in Entry : row'[f] = IF f = e THEN NewRow(txn[r]) ELSE row[f]
    BY <1>1, <1>5 DEF TypeOK
  <1>7. row' \in [Entry -> Row \cup {None}]
    BY <1>1, <1>4, <1>5 DEF TypeOK
  <1>8. Entries' = Entries \cup {e}
    BY <1>4, <1>6, NoneIsNot DEF Entries
  <1>9. QED
    BY <1>6, <1>7, <1>8

LEMMA CreateCommitOK ==
    ASSUME InboxOK, NEW r \in Request, CreateCommit(r)
    PROVE  InboxOK'
  <1>1. /\ TypeOK
        /\ txn[r].pc = "insert"
        /\ txn' = [txn EXCEPT ![r] = Idle]
        /\ clock' = clock /\ sets' = sets /\ walk' = walk
    BY DEF InboxOK, CreateCommit, Goto
  <1>2. PICK e \in Entry \ Entries :
           /\ row' \in [Entry -> Row \cup {None}]
           /\ Entries' = Entries \cup {e}
    BY Created
  <1>3. TypeOK'
    BY <1>1, <1>2 DEF TypeOK
  <1>4. r \in Inserting /\ Inserting' = Inserting \ {r}
    BY <1>1 DEF Inserting, TypeOK, Idle
  <1>5. Cardinality(Inserting') = Cardinality(Inserting) - 1
    BY <1>4, InsertingFinite, FS_RemoveElement
  <1>6. Cardinality(Entries') = Cardinality(Entries) + 1
    <2>1. Entries \in SUBSET Entry
      BY DEF Entries
    <2>2. QED
      BY <1>2, <2>1, OneMore
  <1>7. Cardinality(Entries) \in Nat /\ Cardinality(Entry) \in Nat
    BY SomeEntries DEF Entries
  <1>8. RoomOK'
    BY <1>5, <1>6, <1>7, InsertingFinite DEF InboxOK, RoomOK
  <1>9. WritesOK'
    BY <1>1, <1>2 DEF InboxOK, WritesOK, TypeOK, Idle
  <1>10. QED
    BY <1>3, <1>8, <1>9 DEF InboxOK

LEMMA SetBeginOK ==
    ASSUME InboxOK, NEW r \in Request, NEW e \in Entry, NEW s \in Status,
           SetBegin(r, e, s)
    PROVE  InboxOK'
  <1> DEFINE t == [pc |-> "write", entry |-> e, status |-> s,
                   loaded |-> row[e].status]
  <1>1. /\ TypeOK
        /\ txn[r] = Idle
        /\ e \in Entries
        /\ sets < MaxSets /\ sets' = sets + 1
        /\ txn' = [txn EXCEPT ![r] = t]
        /\ row' = row /\ clock' = clock /\ walk' = walk
    BY DEF InboxOK, SetBegin, Goto
  <1>2. t \in Running
    BY <1>1, EntryRow DEF Running, Row
  <1>3. sets' \in 0..MaxSets
    BY <1>1, InboxAssumption DEF TypeOK, InboxAssumption
  <1>4. t.pc = "write" /\ t.entry = e
    OBVIOUS
  <1> HIDE DEF t
  <1>5. TypeOK'
    BY <1>1, <1>2, <1>3 DEF TypeOK
  <1>6. Entries' = Entries
    BY <1>1 DEF Entries
  <1>7. Inserting' = Inserting
    BY <1>1, <1>4, RequestKinds DEF Inserting, TypeOK
  <1>8. RoomOK'
    BY <1>6, <1>7 DEF InboxOK, RoomOK
  <1>9. WritesOK'
    BY <1>1, <1>4, <1>6 DEF InboxOK, WritesOK, TypeOK
  <1>10. QED
    BY <1>5, <1>8, <1>9 DEF InboxOK

(* a status is set; nothing else of the entry changes                      *)
LEMMA StatusSet ==
    ASSUME InboxOK, NEW r \in Request, SetCommit(r)
    PROVE  LET e == txn[r].entry
           IN  /\ e \in Entries
               /\ row' \in [Entry -> Row \cup {None}]
               /\ row'[e] \in Row
               /\ row'[e].created = row[e].created
               /\ row'[e].status = After(txn[r])
               /\ \A f \in Entry \ {e} : row'[f] = row[f]
               /\ Entries' = Entries
  <1>1. PICK t : t = txn[r]
    OBVIOUS
  <1>2. PICK x : x = [row[t.entry] EXCEPT !.status = After(t)]
    OBVIOUS
  <1>3. /\ t.pc = "write"
        /\ row' = [row EXCEPT ![t.entry] = x]
    BY <1>1, <1>2 DEF SetCommit
  <1>4. t.entry \in Entries /\ TypeOK
    BY <1>1, <1>3 DEF InboxOK, WritesOK
  <1>5. t.entry \in Entry /\ row[t.entry] \in Row
    BY <1>4, EntryRow
  <1>6. After(t) \in Status
    BY <1>1, <1>3, <1>4, <1>5, RequestKinds DEF After, Row
  <1>7. /\ x \in Row
        /\ x.created = row[t.entry].created
        /\ x.status = After(t)
    BY <1>2, <1>5, <1>6 DEF Row
  <1>8. /\ row' \in [Entry -> Row \cup {None}]
        /\ row'[t.entry] = x
        /\ \A f \in Entry \ {t.entry} : row'[f] = row[f]
    BY <1>3, <1>4, <1>5, <1>7 DEF TypeOK
  <1>9. Entries' = Entries
    BY <1>4, <1>7, <1>8, NoneIsNot DEF Entries
  <1>10. QED
    BY <1>1, <1>4, <1>7, <1>8, <1>9

LEMMA SetCommitOK ==
    ASSUME InboxOK, NEW r \in Request, SetCommit(r)
    PROVE  InboxOK'
  <1>1. /\ TypeOK
        /\ txn[r].pc = "write"
        /\ txn' = [txn EXCEPT ![r] = Idle]
        /\ clock' = clock /\ sets' = sets
        /\ \/ walk' = walk
           \/ walk # Idle /\ walk' = [walk EXCEPT !.left = @ + 1]
    BY DEF InboxOK, SetCommit, Goto
  <1>2. row' \in [Entry -> Row \cup {None}] /\ Entries' = Entries
    BY StatusSet
  <1>3. walk' \in Walk \cup {Idle}
    BY <1>1 DEF TypeOK, Walk
  <1>4. TypeOK'
    BY <1>1, <1>2, <1>3 DEF TypeOK
  <1>5. Inserting' = Inserting
    BY <1>1 DEF Inserting, TypeOK, Idle
  <1>6. RoomOK'
    BY <1>2, <1>5 DEF InboxOK, RoomOK
  <1>7. WritesOK'
    BY <1>1, <1>2 DEF InboxOK, WritesOK, TypeOK, Idle
  <1>8. QED
    BY <1>4, <1>6, <1>7 DEF InboxOK

LEMMA CrashOK ==
    ASSUME InboxOK, NEW r \in Request, Crash(r)
    PROVE  InboxOK'
  <1>1. /\ TypeOK
        /\ txn' = [txn EXCEPT ![r] = Idle]
        /\ row' = row /\ clock' = clock /\ sets' = sets /\ walk' = walk
    BY DEF InboxOK, Crash, Goto
  <1>2. TypeOK'
    BY <1>1 DEF TypeOK
  <1>3. Entries' = Entries
    BY <1>1 DEF Entries
  <1>4. Inserting' \in SUBSET Inserting
    BY <1>1 DEF Inserting, TypeOK, Idle
  <1>5. Cardinality(Inserting') <= Cardinality(Inserting)
    BY <1>4, FewerInserting
  <1>6. Cardinality(Inserting') \in Nat
    <2>1. Inserting' \in SUBSET Request
      BY <1>4 DEF Inserting
    <2>2. QED
      BY <2>1, InboxAssumption, FS_Subset, FS_CardinalityType
         DEF InboxAssumption
  <1>7. Cardinality(Entries) \in Nat /\ Cardinality(Entry) \in Nat
    BY SomeEntries DEF Entries
  <1>8. RoomOK'
    BY <1>3, <1>5, <1>6, <1>7, InsertingFinite DEF InboxOK, RoomOK
  <1>9. WritesOK'
    BY <1>1, <1>3 DEF InboxOK, WritesOK, TypeOK, Idle
  <1>10. QED
    BY <1>2, <1>8, <1>9 DEF InboxOK

(* a walk reads, and changes nothing but itself                            *)
LEMMA WalksOK ==
    ASSUME InboxOK, UNCHANGED <<row, clock, txn, sets>>,
           walk' \in Walk \cup {Idle}
    PROVE  InboxOK'
  <1>1. TypeOK' /\ Entries' = Entries /\ Inserting' = Inserting
    BY DEF InboxOK, TypeOK, Entries, Inserting
  <1>2. QED
    BY <1>1 DEF InboxOK, RoomOK, WritesOK

LEMMA WalkBeginOK ==
    ASSUME InboxOK, NEW filter \in Status \cup {None}, WalkBegin(filter)
    PROVE  InboxOK'
  <1>1. Matching(filter) \in SUBSET Entry
    BY DEF Matching, Entries
  <1>2. walk' \in Walk
    BY <1>1 DEF WalkBegin, Walk
  <1>3. QED
    BY <1>2, WalksOK DEF WalkBegin

LEMMA ListedIsMatching == Listed = Matching(walk.filter)
  BY DEF Listed, Matching

(* one page further                                                        *)
LEMMA PageTurned ==
    ASSUME InboxOK, WalkPage
    PROVE  \E page \in SUBSET Listed :
              /\ walk \in Walk /\ walk' \in Walk
              /\ IsPage(page, Listed, walk.offset)
              /\ walk'.filter = walk.filter /\ walk'.start = walk.start
              /\ walk'.left = walk.left
              /\ walk'.seen = walk.seen \cup page
              /\ walk'.offset = walk.offset + PageSize
              /\ walk'.done <=> Cardinality(page) < PageSize
  <1>1. PICK page \in SUBSET Listed :
           /\ walk # Idle
           /\ IsPage(page, Listed, walk.offset)
           /\ walk' = [walk EXCEPT !.seen = @ \cup page,
                                   !.offset = @ + PageSize,
                                   !.done = Cardinality(page) < PageSize]
    BY ListedIsMatching DEF WalkPage
  <1>2. walk \in Walk
    BY <1>1 DEF InboxOK, TypeOK
  <1>3. page \in SUBSET Entry
    BY <1>1 DEF Listed, Entries
  <1>4. PICK short : short = (Cardinality(page) < PageSize)
    OBVIOUS
  <1>5. short \in BOOLEAN
    BY <1>4
  <1>6. walk' = [walk EXCEPT !.seen = @ \cup page,
                             !.offset = @ + PageSize, !.done = short]
    BY <1>1, <1>4
  <1>7. /\ walk' \in Walk
        /\ walk'.filter = walk.filter /\ walk'.start = walk.start
        /\ walk'.left = walk.left
        /\ walk'.seen = walk.seen \cup page
        /\ walk'.offset = walk.offset + PageSize
        /\ walk'.done <=> short
    <2>1. PICK seen \in SUBSET Entry : seen = walk.seen \cup page
      BY <1>2, <1>3 DEF Walk
    <2>2. PICK offset \in Nat : offset = walk.offset + PageSize
      BY <1>2, InboxAssumption DEF Walk, InboxAssumption
    <2>3. walk' = [walk EXCEPT !.seen = seen, !.offset = offset,
                               !.done = short]
      BY <1>6, <2>1, <2>2
    <2>4. QED
      BY <1>2, <1>5, <2>1, <2>2, <2>3 DEF Walk
  <1>8. QED
    BY <1>1, <1>2, <1>4, <1>7

LEMMA WalkPageOK ==
    ASSUME InboxOK, WalkPage
    PROVE  InboxOK'
  BY PageTurned, WalksOK DEF WalkPage

-----------------------------------------------------------------------------
(* What a step loses                                                       *)

LEMMA LostEntries ==
    ASSUME LostBounded, walk # Idle
    PROVE  /\ Listed \in SUBSET Entry
           /\ \A e \in Entry : Newer(e) \in SUBSET Entry
           /\ Lost \in SUBSET Entry
  BY DEF LostBounded, Listed, Newer, Lost, Entries

(* Of two entries whose places are certain the older comes later.          *)
LEMMA OlderIsLater ==
    ASSUME TypeOK, NEW e \in Listed, NEW f \in Listed,
           row[e].created > row[f].created
    PROVE  Cardinality(Newer(e)) < Cardinality(Newer(f))
  <1>1. /\ Newer(e) \in SUBSET Entry
        /\ Newer(f) \in SUBSET Entry
        /\ e \in Entry \ Newer(e)
    BY EntryRow DEF Newer, Listed, Entries
  <1>2. Newer(e) \cup {e} \in SUBSET Newer(f)
    <2>1. \A g \in Listed : row[g].created \in Nat
      BY EntryRow DEF Listed
    <2>2. QED
      BY <2>1 DEF Newer
  <1>3. Cardinality(Newer(e)) + 1 <= Cardinality(Newer(f))
    BY <1>1, <1>2, OneMore, FewerEntries
  <1>4. QED
    BY <1>1, <1>3, SomeEntries

(* the rows stay as they are, or a new one comes: nothing is lost          *)
LEMMA NothingLost ==
    ASSUME InboxInv, InboxOK', walk # Idle, walk' = walk,
           Entries \subseteq Entries',
           \A e \in Entries : row'[e].created = row[e].created,
           Listed \subseteq Listed'
    PROVE  LostBounded'
  <1>1. TypeOK /\ TypeOK' /\ walk \in Walk /\ walk.start \subseteq Entries
    BY DEF InboxInv, InboxOK, TypeOK, LostBounded
  <1>2. Lost' \subseteq Lost
    <2> SUFFICES ASSUME NEW e \in Lost'
                 PROVE  e \in Lost
      OBVIOUS
    <2>1. /\ e \in walk.start \ walk.seen /\ e \in Entries
          /\ \A f \in Entries' \ {e} : row'[f].created # row'[e].created
          /\ \/ e \notin Listed'
             \/ walk.done
             \/ Cardinality(Newer(e)') < walk.offset
      BY <1>1 DEF Lost, Placed
    <2>2. Placed(e)
      BY <2>1 DEF Placed
    <2>3. Newer(e) \subseteq Newer(e)' /\ Newer(e)' \subseteq Entry
      BY <2>1 DEF Newer, Listed, Entries
    <2>4. /\ Cardinality(Newer(e)) <= Cardinality(Newer(e)')
          /\ Cardinality(Newer(e)) \in Nat
          /\ Cardinality(Newer(e)') \in Nat
      <3>1. Newer(e)' \in SUBSET Entry /\ Newer(e) \in SUBSET Newer(e)'
        BY <2>3
      <3>2. QED
        BY <3>1, FewerEntries, SomeEntries
    <2>5. QED
      BY <1>1, <2>1, <2>2, <2>4 DEF Lost, Walk
  <1>3. Lost \in SUBSET Entry
    BY LostEntries DEF InboxInv
  <1>4. /\ Cardinality(Lost') <= Cardinality(Lost)
        /\ Cardinality(Lost) \in Nat /\ Cardinality(Lost') \in Nat
    <2>1. Lost' \in SUBSET Lost /\ Lost' \in SUBSET Entry
      BY <1>2, <1>3
    <2>2. QED
      BY <1>3, <2>1, FewerEntries, SomeEntries
  <1>5. QED
    BY <1>1, <1>4 DEF InboxInv, LostBounded, Walk

(* An entry leaves the filter: it may be lost, or the one that takes the   *)
(* last place in front of the offset, but never both.                      *)
LEMMA OneLost ==
    ASSUME InboxInv, walk # Idle, NEW x \in Listed,
           Entries' = Entries, Listed' = Listed \ {x},
           \A e \in Entries : row'[e].created = row[e].created,
           walk'.start = walk.start, walk'.seen = walk.seen,
           walk'.done <=> walk.done, walk'.offset = walk.offset,
           walk'.left = walk.left + 1
    PROVE  LostBounded'
  <1>1. TypeOK /\ walk \in Walk /\ walk.start \subseteq Entries
    BY DEF InboxInv, InboxOK, TypeOK, LostBounded
  <1>2. ASSUME NEW e \in Lost', e \notin Lost
        PROVE  /\ e \in walk.start \ walk.seen
               /\ e \in Listed /\ Placed(e) /\ ~walk.done
               /\ Cardinality(Newer(e)) >= walk.offset
               /\ e # x => /\ x \in Newer(e)
                           /\ Cardinality(Newer(e)) = walk.offset
    <2>1. /\ e \in walk.start \ walk.seen /\ e \in Entries
          /\ Placed(e)
          /\ \/ e \notin Listed \ {x}
             \/ walk.done
             \/ Cardinality(Newer(e)') < walk.offset
      BY <1>1, <1>2 DEF Lost, Placed
    <2>2. /\ Newer(e) \in SUBSET Entry
          /\ Newer(e)' = Newer(e) \ {x}
      BY <1>1, <2>1 DEF Newer, Listed, Entries
    <2>3. /\ Cardinality(Newer(e)) \in Nat
          /\ x \in Newer(e) =>
                Cardinality(Newer(e)') = Cardinality(Newer(e)) - 1
          /\ x \notin Newer(e) =>
                Cardinality(Newer(e)') = Cardinality(Newer(e))
      BY <2>2, SomeEntries, OneLess
    <2>4. /\ e \in Listed /\ ~walk.done
          /\ ~(Cardinality(Newer(e)) < walk.offset)
      BY <1>2, <2>1 DEF Lost
    <2>5. walk.offset \in Nat
      BY <1>1 DEF Walk
    <2>6. e # x => Cardinality(Newer(e)') < walk.offset
      BY <2>1, <2>4
    <2>7. QED
      BY <2>1, <2>3, <2>4, <2>5, <2>6
  <1>3. \A e \in Listed : row[e].created \in Nat /\ e \in Entries
    BY <1>1, EntryRow DEF Listed
  <1>4. ASSUME NEW e \in Lost', NEW f \in Lost',
               e \notin Lost, f \notin Lost, e # f
        PROVE  ~(row[e].created > row[f].created)
    <2> SUFFICES ASSUME row[e].created > row[f].created
                 PROVE  FALSE
      OBVIOUS
    <2>1. /\ e \in Listed /\ f \in Listed
          /\ Cardinality(Newer(e)) >= walk.offset
          /\ f # x => x \in Newer(f) /\ Cardinality(Newer(f)) = walk.offset
          /\ e # x => x \in Newer(e)
      BY <1>2, <1>4
    <2>2. Cardinality(Newer(e)) < Cardinality(Newer(f))
      BY <1>1, <2>1, OlderIsLater
    <2>3. /\ Cardinality(Newer(e)) \in Nat /\ Cardinality(Newer(f)) \in Nat
          /\ walk.offset \in Nat
      <3>1. Newer(e) \in SUBSET Entry /\ Newer(f) \in SUBSET Entry
        BY DEF Newer, Listed, Entries
      <3>2. QED
        BY <1>1, <3>1, SomeEntries DEF Walk
    <2>4. CASE f # x
      BY <2>1, <2>2, <2>3, <2>4
    <2>5. CASE f = x
      <3>1. row[f].created > row[e].created
        BY <1>4, <2>1, <2>5 DEF Newer
      <3>2. QED
        BY <1>3, <2>1, <3>1
    <2>6. QED
      BY <2>4, <2>5
  <1>5. ASSUME NEW e \in Lost', NEW f \in Lost', e \notin Lost, f \notin Lost
        PROVE  e = f
    <2> SUFFICES ASSUME e # f
                 PROVE  FALSE
      OBVIOUS
    <2>1. ~(row[e].created > row[f].created)
      BY <1>4, <1>5
    <2>2. ~(row[f].created > row[e].created)
      BY <1>4, <1>5
    <2>3. /\ e \in Listed /\ f \in Listed /\ Placed(e)
      BY <1>2, <1>5
    <2>4. row[f].created # row[e].created
      BY <1>3, <2>3 DEF Placed
    <2>5. QED
      BY <1>3, <2>1, <2>2, <2>3, <2>4
  <1>6. Lost \in SUBSET Entry /\ Lost' \in SUBSET Entry
    <2>1. Lost' \subseteq walk.start
      BY DEF Lost
    <2>2. QED
      BY <1>1, <2>1, LostEntries DEF InboxInv, Entries
  <1>7. Cardinality(Lost') <= Cardinality(Lost) + 1
    <2>1. CASE Lost' \subseteq Lost
      <3>1. Lost' \in SUBSET Lost
        BY <2>1
      <3>2. QED
        BY <1>6, <3>1, FewerEntries, SomeEntries
    <2>2. CASE ~(Lost' \subseteq Lost)
      <3>1. PICK e \in Lost' : e \notin Lost
        BY <2>2
      <3>2. Lost' \in SUBSET (Lost \cup {e}) /\ e \in Entry \ Lost
        BY <1>5, <1>6, <3>1
      <3>3. Lost \cup {e} \in SUBSET Entry
        BY <1>6, <3>2
      <3>4. QED
        BY <1>6, <3>2, <3>3, FewerEntries, OneMore
    <2>3. QED
      BY <2>1, <2>2
  <1>8. Cardinality(Lost) \in Nat /\ Cardinality(Lost') \in Nat
    BY <1>6, SomeEntries
  <1>9. /\ walk.left \in Nat /\ Cardinality(Lost) <= walk.left
    BY <1>1 DEF Walk, InboxInv, LostBounded
  <1>10. Cardinality(Lost') <= walk'.left
    BY <1>7, <1>8, <1>9
  <1>11. QED
    BY <1>1, <1>10 DEF LostBounded

(* An entry with a certain place that lies in front of the next offset was *)
(* in front of this one, or is on the page.                                *)
LEMMA PageReaches ==
    ASSUME TypeOK, NEW offset \in Nat, NEW page \in SUBSET Listed,
           IsPage(page, Listed, offset),
           NEW e \in Listed, e \notin page, Placed(e),
           \/ Cardinality(page) < PageSize
           \/ Cardinality(Newer(e)) < offset + PageSize
    PROVE  Cardinality(Newer(e)) < offset
  <1>1. PICK skipped \in SUBSET (Listed \ page) :
           LET rest == Listed \ (skipped \cup page)
           IN  /\ \A d \in skipped, f \in page \cup rest : Before(d, f)
               /\ \A d \in page, f \in rest : Before(d, f)
               /\ \/ Cardinality(skipped) = offset
                  \/ Cardinality(skipped) < offset /\ page \cup rest = {}
               /\ Cardinality(page) = PageSize \/ rest = {}
    BY DEF IsPage
  <1> DEFINE rest == Listed \ (skipped \cup page)
  <1>2. /\ skipped \in SUBSET Entry /\ page \in SUBSET Entry
        /\ Newer(e) \in SUBSET Entry
        /\ \A d \in Listed : d \in Entries /\ row[d].created \in Nat
    BY EntryRow DEF Listed, Newer, Entries
  <1>3. /\ Cardinality(skipped) \in Nat /\ Cardinality(page) \in Nat
        /\ Cardinality(Newer(e)) \in Nat
        /\ PageSize \in Nat
    BY <1>2, SomeEntries, InboxAssumption DEF InboxAssumption
  <1>4. Cardinality(skipped) <= offset
    BY <1>1, <1>3
  <1>5. CASE e \in skipped
    <2>1. Newer(e) \in SUBSET (skipped \ {e})
      BY <1>1, <1>2, <1>5 DEF Newer, Before
    <2>2. Cardinality(skipped \ {e}) = Cardinality(skipped) - 1
      BY <1>2, <1>5, OneLess
    <2>3. skipped \ {e} \in SUBSET Entry
      BY <1>2
    <2>4. Cardinality(Newer(e)) <= Cardinality(skipped \ {e})
      BY <2>1, <2>3, FewerEntries
    <2>5. QED
      BY <1>3, <1>4, <2>2, <2>4
  <1>6. CASE e \notin skipped
    <2>1. e \in rest
      BY <1>6
    <2>2. Cardinality(skipped) = offset /\ Cardinality(page) = PageSize
      BY <1>1, <2>1
    <2>3. skipped \cup page \in SUBSET Newer(e)
      <3>1. \A d \in skipped \cup page : Before(d, e) /\ d \in Listed
        BY <1>1, <2>1
      <3>2. \A d \in skipped \cup page : d # e
        BY <1>6
      <3>3. QED
        BY <1>2, <3>1, <3>2 DEF Newer, Before, Placed
    <2>4. Cardinality(skipped \cup page) = offset + PageSize
      <3>1. skipped \cap page = {} /\ IsFiniteSet(skipped) /\ IsFiniteSet(page)
        BY <1>2, SomeEntries
      <3>2. Cardinality(skipped \cup page)
              = Cardinality(skipped) + Cardinality(page)
                - Cardinality(skipped \cap page)
        BY <3>1, FS_Union
      <3>3. Cardinality(skipped \cap page) = 0
        BY <3>1, FS_EmptySet
      <3>4. QED
        BY <1>3, <2>2, <3>2, <3>3
    <2>5. Cardinality(skipped \cup page) <= Cardinality(Newer(e))
      BY <1>2, <2>3, FewerEntries
    <2>6. QED
      BY <1>3, <2>2, <2>4, <2>5
  <1>7. QED
    BY <1>5, <1>6

LEMMA WalkPageLoses ==
    ASSUME InboxInv, WalkPage
    PROVE  LostBounded'
  <1>1. /\ walk # Idle
        /\ row' = row
        /\ TypeOK /\ InboxOK
    BY DEF InboxInv, InboxOK, WalkPage
  <1>2. PICK page \in SUBSET Listed :
           /\ walk \in Walk /\ walk' \in Walk
           /\ IsPage(page, Listed, walk.offset)
           /\ walk'.filter = walk.filter /\ walk'.start = walk.start
           /\ walk'.left = walk.left
           /\ walk'.seen = walk.seen \cup page
           /\ walk'.offset = walk.offset + PageSize
           /\ walk'.done <=> Cardinality(page) < PageSize
    BY <1>1, PageTurned
  <1>3. ~walk.done /\ walk.offset \in Nat /\ walk.start \subseteq Entries
    BY <1>1, <1>2 DEF WalkPage, Walk, InboxInv, LostBounded
  <1>4. Entries' = Entries
    BY <1>1 DEF Entries
  <1>5. Listed' = Listed
    BY <1>1, <1>2, <1>4 DEF Listed, Matches
  <1>6. \A e \in Entry : Newer(e)' = Newer(e) /\ (Placed(e)' <=> Placed(e))
    BY <1>1, <1>4, <1>5 DEF Newer, Placed
  <1>7. Lost' \in SUBSET Lost
    <2> SUFFICES ASSUME NEW e \in Lost'
                 PROVE  e \in Lost
      OBVIOUS
    <2>1. /\ e \in walk.start \ walk.seen /\ e \notin page
          /\ e \in Entry
      BY <1>2, <1>3 DEF Lost, Entries
    <2>2. /\ Placed(e)
          /\ \/ e \notin Listed
             \/ Cardinality(page) < PageSize
             \/ Cardinality(Newer(e)) < walk.offset + PageSize
      <3>1. /\ Placed(e)'
            /\ \/ e \notin Listed'
               \/ walk'.done
               \/ Cardinality(Newer(e)') < walk'.offset
        BY DEF Lost
      <3>2. QED
        BY <1>2, <1>5, <1>6, <2>1, <3>1
    <2>3. e \in Listed => Cardinality(Newer(e)) < walk.offset
      BY <1>1, <1>2, <1>3, <2>1, <2>2, PageReaches
    <2>4. QED
      BY <2>1, <2>2, <2>3 DEF Lost
  <1>8. Lost \in SUBSET Entry /\ Lost' \in SUBSET Entry
    BY <1>1, <1>7, LostEntries DEF InboxInv
  <1>9. /\ Cardinality(Lost') <= Cardinality(Lost)
        /\ Cardinality(Lost) \in Nat /\ Cardinality(Lost') \in Nat
    BY <1>7, <1>8, FewerEntries, SomeEntries
  <1>10. walk.left \in Nat /\ Cardinality(Lost) <= walk.left
    BY <1>1, <1>2 DEF Walk, InboxInv, LostBounded
  <1>11. QED
    BY <1>2, <1>3, <1>4, <1>9, <1>10 DEF LostBounded

(* a walk begins in front of everything                                    *)
LEMMA WalkBeginLoses ==
    ASSUME InboxInv, NEW filter \in Status \cup {None}, WalkBegin(filter)
    PROVE  LostBounded'
  <1>1. /\ row' = row
        /\ walk'.filter = filter /\ walk'.start = Matching(filter)
        /\ walk'.offset = 0 /\ walk'.left = 0 /\ walk'.done = FALSE
    BY DEF WalkBegin
  <1>2. Entries' = Entries
    BY <1>1 DEF Entries
  <1>3. Listed' = Matching(filter)
    BY <1>1, <1>2 DEF Listed, Matching, Matches
  <1>4. Lost' = {}
    <2> SUFFICES ASSUME NEW e \in Lost'
                 PROVE  FALSE
      OBVIOUS
    <2>1. Cardinality(Newer(e)') < 0
      BY <1>1, <1>3 DEF Lost
    <2>2. Newer(e)' \in SUBSET Entry
      BY <1>3 DEF Newer, Matching, Entries
    <2>3. QED
      BY <2>1, <2>2, SomeEntries
  <1>5. Cardinality(Lost') = 0
    BY <1>4, FS_EmptySet
  <1>6. walk'.start \subseteq Entries'
    BY <1>1, <1>2 DEF Matching
  <1>7. QED
    BY <1>1, <1>5, <1>6 DEF LostBounded

LEMMA CreateCommitLoses ==
    ASSUME InboxInv, NEW r \in Request, CreateCommit(r), walk # Idle
    PROVE  LostBounded'
  <1>1. InboxOK /\ walk' = walk
    BY DEF InboxInv, CreateCommit
  <1>2. PICK e \in Entry \ Entries :
           /\ \A f \in Entry :
                 row'[f] = IF f = e THEN NewRow(txn[r]) ELSE row[f]
           /\ Entries' = Entries \cup {e}
    BY <1>1, Created
  <1>3. \A f \in Entries : f \in Entry /\ f # e /\ row'[f] = row[f]
    BY <1>2 DEF Entries
  <1>4. Listed \subseteq Listed'
    BY <1>1, <1>2, <1>3 DEF Listed, Matches
  <1>5. QED
    BY <1>1, <1>2, <1>3, <1>4, CreateCommitOK, NothingLost

LEMMA SetCommitLoses ==
    ASSUME InboxInv, NEW r \in Request, SetCommit(r), walk # Idle
    PROVE  LostBounded'
  <1>1. PICK t : t = txn[r]
    OBVIOUS
  <1>2. PICK x : x = [row[t.entry] EXCEPT !.status = After(t)]
    OBVIOUS
  <1> DEFINE leaves == /\ Matches(row[t.entry], walk.filter)
                       /\ ~Matches(x, walk.filter)
  <1>3. /\ row' = [row EXCEPT ![t.entry] = x]
        /\ walk' = IF leaves THEN [walk EXCEPT !.left = @ + 1] ELSE walk
    BY <1>1, <1>2 DEF SetCommit
  <1>4. TypeOK /\ InboxOK /\ walk \in Walk
    BY DEF InboxInv, InboxOK, TypeOK
  <1>5. /\ t.entry \in Entries
        /\ row'[t.entry].created = row[t.entry].created
        /\ \A f \in Entry \ {t.entry} : row'[f] = row[f]
        /\ Entries' = Entries
    BY <1>1, <1>4, StatusSet
  <1>6. t.entry \in Entry /\ row'[t.entry] = x
    BY <1>3, <1>4, <1>5 DEF TypeOK, Entries
  <1>7. \A f \in Entries : row'[f].created = row[f].created
    BY <1>5 DEF Entries
  <1>8. CASE leaves
    <2>1. walk' = [walk EXCEPT !.left = @ + 1]
      BY <1>3, <1>8
    <2>2. /\ walk'.filter = walk.filter /\ walk'.start = walk.start
          /\ walk'.seen = walk.seen /\ (walk'.done <=> walk.done)
          /\ walk'.offset = walk.offset /\ walk'.left = walk.left + 1
      BY <1>4, <2>1 DEF Walk
    <2>3. t.entry \in Listed
      BY <1>5, <1>8 DEF Listed
    <2>4. \A f \in Entries : f \in Listed' <=> f \in Listed /\ f # t.entry
      <3>1. \A f \in Entries \ {t.entry} : row'[f] = row[f]
        BY <1>5 DEF Entries
      <3>2. t.entry \notin Listed'
        BY <1>6, <1>8, <2>2 DEF Listed, Matches
      <3>3. QED
        BY <1>5, <2>2, <3>1, <3>2 DEF Listed, Matches
    <2>5. Listed' = Listed \ {t.entry}
      BY <1>5, <2>4 DEF Listed
    <2>6. QED
      BY <1>5, <1>7, <2>2, <2>3, <2>5, OneLost
  <1>9. CASE ~leaves
    <2>1. walk' = walk
      BY <1>3, <1>9
    <2>2. Listed \subseteq Listed'
      <3>1. \A f \in Entries \ {t.entry} : row'[f] = row[f]
        BY <1>5 DEF Entries
      <3>2. t.entry \in Listed => t.entry \in Listed'
        BY <1>5, <1>6, <1>9, <2>1 DEF Listed, Matches
      <3>3. QED
        BY <1>5, <2>1, <3>1, <3>2 DEF Listed, Matches
    <2>3. InboxOK'
      BY <1>4, SetCommitOK
    <2>4. QED
      BY <1>5, <1>7, <2>1, <2>2, <2>3, NothingLost
  <1>10. QED
    BY <1>8, <1>9

(* nothing that a walk depends on changes                                  *)
LEMMA Unmoved ==
    ASSUME LostBounded, row' = row, walk' = walk
    PROVE  LostBounded'
  BY DEF LostBounded, Lost, Newer, Listed, Matches, Placed, Entries


-----------------------------------------------------------------------------
LEMMA InitInbox == Init => InboxInv
  <1> SUFFICES ASSUME Init
               PROVE  InboxInv
    OBVIOUS
  <1>1. TypeOK
    BY InboxAssumption DEF Init, TypeOK, InboxAssumption
  <1>2. Entries = {} /\ Inserting = {}
    BY DEF Init, Entries, Inserting, Idle
  <1>3. RoomOK
    <2>1. Cardinality(Entry) \in Nat
      BY SomeEntries
    <2>2. QED
      BY <1>2, <2>1, FS_EmptySet DEF RoomOK
  <1>4. WritesOK /\ LostBounded
    BY DEF Init, WritesOK, LostBounded, Idle
  <1>5. QED
    BY <1>1, <1>3, <1>4 DEF InboxInv, InboxOK

LEMMA NextInbox == InboxInv /\ [Next]_vars => InboxInv'
  <1> SUFFICES ASSUME InboxInv, [Next]_vars
               PROVE  InboxInv'
    OBVIOUS
  <1>1. InboxOK /\ LostBounded
    BY DEF InboxInv
  <1>2. ASSUME NEW r \in Request, CreateBegin(r)
        PROVE  InboxInv'
    BY <1>1, <1>2, CreateBeginOK, Unmoved DEF CreateBegin, InboxInv
  <1>3. ASSUME NEW r \in Request, CreateCommit(r)
        PROVE  InboxInv'
    <2>1. CASE walk = Idle
      <3>1. LostBounded'
        BY <1>3, <2>1 DEF CreateCommit, LostBounded, Idle
      <3>2. QED
        BY <1>1, <1>3, <3>1, CreateCommitOK DEF InboxInv
    <2>2. CASE walk # Idle
      BY <1>1, <1>3, <2>2, CreateCommitOK, CreateCommitLoses DEF InboxInv
    <2>3. QED
      BY <2>1, <2>2
  <1>4. ASSUME NEW r \in Request, NEW e \in Entry, NEW s \in Status,
               SetBegin(r, e, s)
        PROVE  InboxInv'
    BY <1>1, <1>4, SetBeginOK, Unmoved DEF SetBegin, InboxInv
  <1>5. ASSUME NEW r \in Request, SetCommit(r)
        PROVE  InboxInv'
    <2>1. CASE walk = Idle
      <3>1. walk' = Idle
        BY <1>5, <2>1 DEF SetCommit
      <3>2. LostBounded'
        BY <3>1 DEF LostBounded, Idle
      <3>3. QED
        BY <1>1, <1>5, <3>2, SetCommitOK DEF InboxInv
    <2>2. CASE walk # Idle
      BY <1>1, <1>5, <2>2, SetCommitOK, SetCommitLoses DEF InboxInv
    <2>3. QED
      BY <2>1, <2>2
  <1>6. ASSUME NEW r \in Request, Crash(r)
        PROVE  InboxInv'
    BY <1>1, <1>6, CrashOK, Unmoved DEF Crash, InboxInv
  <1>7. ASSUME NEW filter \in Status \cup {None}, WalkBegin(filter)
        PROVE  InboxInv'
    BY <1>1, <1>7, WalkBeginOK, WalkBeginLoses DEF InboxInv
  <1>8. CASE WalkPage
    BY <1>1, <1>8, WalkPageOK, WalkPageLoses DEF InboxInv
  <1>9. CASE WalkEnd
    <2>1. walk' = Idle /\ UNCHANGED <<row, clock, txn, sets>>
      BY <1>9 DEF WalkEnd
    <2>2. LostBounded'
      BY <2>1 DEF LostBounded, Idle
    <2>3. QED
      BY <1>1, <2>1, <2>2, WalksOK DEF InboxInv
  <1>10. CASE UNCHANGED vars
    <2>1. row' = row /\ walk' = walk /\ UNCHANGED <<row, clock, txn, sets>>
      BY <1>10 DEF vars
    <2>2. walk' \in Walk \cup {Idle}
      BY <1>1, <2>1 DEF InboxOK, TypeOK
    <2>3. QED
      BY <1>1, <2>1, <2>2, WalksOK, Unmoved DEF InboxInv
  <1>11. QED
    BY <1>2, <1>3, <1>4, <1>5, <1>6, <1>7, <1>8, <1>9, <1>10 DEF Next

LEMMA InboxInvariant == Spec => []InboxInv
  BY InitInbox, NextInbox, PTL DEF Spec

(***************************************************************************)
(* Type correctness: every entry has a status, every write knows an entry, *)
(* and a walk has seen entries only.                                       *)
(***************************************************************************)
THEOREM InboxTypes == Spec => []TypeOK
  <1>1. InboxInv => TypeOK
    BY DEF InboxInv, InboxOK
  <1>2. QED
    BY <1>1, InboxInvariant, PTL

(***************************************************************************)
(* An admin who pages through list_reports or list_feedback misses no more *)
(* entries than were triaged out of the filter meanwhile, of those that    *)
(* share their created_at with no other entry (ORDER BY created_at desc    *)
(* has no tie-breaker, and of the others nothing is promised), for any     *)
(* page size and any number of entries, of writes and of statuses.         *)
(***************************************************************************)
THEOREM WalkMissesBounded == Spec => []MissedBounded
  <1>1. InboxInv => MissedBounded
    <2> SUFFICES ASSUME InboxInv, walk # Idle, walk.done
                 PROVE  Cardinality({e \in (walk.start \cap
                              Matching(walk.filter)) \ walk.seen : Placed(e)})
                          <= walk.left
      BY DEF MissedBounded
    <2> DEFINE missed == {e \in (walk.start \cap Matching(walk.filter))
                                   \ walk.seen : Placed(e)}
    <2>1. Lost \in SUBSET Entry /\ missed \in SUBSET Lost
      BY LostEntries DEF InboxInv, Lost
    <2>2. walk.left \in Nat /\ Cardinality(Lost) <= walk.left
      BY DEF InboxInv, InboxOK, TypeOK, Walk, LostBounded
    <2> HIDE DEF missed
    <2>3. missed \in SUBSET Entry
      BY <2>1
    <2>4. /\ Cardinality(missed) <= Cardinality(Lost)
          /\ Cardinality(missed) \in Nat /\ Cardinality(Lost) \in Nat
      BY <2>1, <2>3, FewerEntries, SomeEntries
    <2>5. Cardinality(missed) <= walk.left
      BY <2>2, <2>4
    <2>6. QED
      BY <2>5 DEF missed
  <1>2. QED
    BY <1>1, InboxInvariant, PTL
=============================================================================
