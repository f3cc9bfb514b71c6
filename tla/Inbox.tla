--------------------------------- MODULE Inbox ---------------------------------
(***************************************************************************)
(* Question reports and app feedback (endpoints/reports.py, feedback.py):  *)
(* visitors add entries, admins page through them, newest first and        *)
(* filtered by status, while others set statuses.  The two inboxes have    *)
(* the same handlers but for the check of the report's question and the    *)
(* names of the statuses; this is one of them.                             *)
(***************************************************************************)
EXTENDS Integers, FiniteSets

CONSTANTS
    Entry,      \* ids
    Status,     \* "open" is one of them
    Request,    \* writes in flight at one time
    PageSize,   \* the limit an admin pages with
    None,
    MaxSets,    \* bound: how many statuses are set
    MaxClock    \* bound: how often the clock advances

ASSUME InboxAssumption ==
    /\ IsFiniteSet(Entry) /\ IsFiniteSet(Request)
    /\ "open" \in Status
    /\ None \notin Status
    /\ None \notin [status: Status, created: Nat]
    /\ PageSize \in Nat \ {0}
    /\ MaxSets \in Nat /\ MaxClock \in Nat

VARIABLES
    row,        \* question_reports or app_feedback: status and created_at
    clock,
    txn,        \* each write's handler: its program counter and locals
    sets,       \* how many statuses have been set
    walk        \* an admin's walk through the pages

vars == <<row, clock, txn, sets, walk>>

Idle == [pc |-> "idle"]

Row == [status: Status, created: Nat]

Running ==
    [pc: {"insert"}, created: Nat] \cup
    [pc: {"write"}, entry: Entry, status: Status, loaded: Status]

(* start: what matched at the first page; left: how often an entry has     *)
(* stopped to match since                                                  *)
Walk == [filter: Status \cup {None}, offset: Nat, start: SUBSET Entry,
         seen: SUBSET Entry, left: Nat, done: BOOLEAN]

TypeOK ==
    /\ row \in [Entry -> Row \cup {None}]
    /\ clock \in 0..MaxClock
    /\ txn \in [Request -> {Idle} \cup Running]
    /\ sets \in 0..MaxSets
    /\ walk \in Walk \cup {Idle}

-----------------------------------------------------------------------------
Entries == {e \in Entry : row[e] # None}

Matches(x, filter) == filter \in {None, x.status}

Matching(filter) == {e \in Entries : Matches(row[e], filter)}

Init ==
    /\ row = [e \in Entry |-> None]
    /\ clock = 0
    /\ txn = [r \in Request |-> Idle]
    /\ sets = 0
    /\ walk = Idle

Goto(r, t) == txn' = [txn EXCEPT ![r] = t]

-----------------------------------------------------------------------------
(* create_report and create_feedback                                       *)

(* created_at is the time the transaction starts, and may be another's;    *)
(* a report of an unknown question is a 404                                *)
CreateBegin(r) ==
    /\ txn[r] = Idle
    /\ clock' \in {clock, clock + 1} \cap (0..MaxClock)
    /\ Cardinality(Entries) +
       Cardinality({s \in Request : txn[s].pc = "insert"}) < Cardinality(Entry)
    /\ Goto(r, [pc |-> "insert", created |-> clock'])
    /\ UNCHANGED <<row, sets, walk>>

NewRow(t) == [status |-> "open", created |-> t.created]

CreateCommit(r) ==
    /\ txn[r].pc = "insert"
    /\ row' = [row EXCEPT ![CHOOSE e \in Entry \ Entries : TRUE] =
                 NewRow(txn[r])]
    /\ Goto(r, Idle)
    /\ UNCHANGED <<clock, sets, walk>>

-----------------------------------------------------------------------------
(* update_report_status and update_feedback_status                         *)

SetBegin(r, e, s) ==
    /\ txn[r] = Idle
    /\ sets < MaxSets
    /\ e \in Entries
    /\ sets' = sets + 1
    /\ Goto(r, [pc |-> "write", entry |-> e, status |-> s,
                loaded |-> row[e].status])
    /\ UNCHANGED <<row, clock, walk>>

(* no UPDATE is emitted for a value that the row had when it was loaded    *)
After(t) == IF t.status = t.loaded THEN row[t.entry].status ELSE t.status

SetCommit(r) ==
    LET t == txn[r]
        x == [row[t.entry] EXCEPT !.status = After(t)]
        leaves == /\ walk # Idle
                  /\ Matches(row[t.entry], walk.filter)
                  /\ ~Matches(x, walk.filter)
    IN  /\ t.pc = "write"
        /\ row' = [row EXCEPT ![t.entry] = x]
        /\ Goto(r, Idle)
        /\ walk' = IF leaves THEN [walk EXCEPT !.left = @ + 1] ELSE walk
        /\ UNCHANGED <<clock, sets>>

(* the process or the connection dies                                      *)
Crash(r) ==
    /\ txn[r] # Idle
    /\ Goto(r, Idle)
    /\ UNCHANGED <<row, clock, sets, walk>>

-----------------------------------------------------------------------------
(* list_reports and list_feedback                                          *)

(* the query has no ORDER BY                                               *)
BeforeMutant(e, f) == TRUE

(* e may come before f                                                     *)
Before(e, f) == row[e].created >= row[f].created

(* page is a page of the matching entries: those at offset, ...            *)
IsPage(page, matching, offset) ==
    \E skipped \in SUBSET (matching \ page) :
        LET rest == matching \ (skipped \cup page)
        IN  /\ \A e \in skipped, f \in page \cup rest : Before(e, f)
            /\ \A e \in page, f \in rest : Before(e, f)
            /\ \/ Cardinality(skipped) = offset
               \/ Cardinality(skipped) < offset /\ page \cup rest = {}
            /\ Cardinality(page) = PageSize \/ rest = {}

WalkBegin(filter) ==
    /\ walk = Idle
    /\ walk' = [filter |-> filter, offset |-> 0, start |-> Matching(filter),
                seen |-> {}, left |-> 0, done |-> FALSE]
    /\ UNCHANGED <<row, clock, txn, sets>>

(* the next page, one request; a short one is the last                     *)
WalkPage ==
    /\ walk # Idle
    /\ ~walk.done
    /\ \E page \in SUBSET Matching(walk.filter) :
          /\ Cardinality(page) <= PageSize
          /\ IsPage(page, Matching(walk.filter), walk.offset)
          /\ walk' = [walk EXCEPT !.seen = @ \cup page,
                                  !.offset = @ + PageSize,
                                  !.done = Cardinality(page) < PageSize]
    /\ UNCHANGED <<row, clock, txn, sets>>

WalkEnd ==
    /\ walk # Idle
    /\ walk.done
    /\ walk' = Idle
    /\ UNCHANGED <<row, clock, txn, sets>>

-----------------------------------------------------------------------------
Next ==
    \/ \E r \in Request :
          \/ CreateBegin(r)
          \/ CreateCommit(r)
          \/ \E e \in Entry, s \in Status : SetBegin(r, e, s)
          \/ SetCommit(r)
          \/ Crash(r)
    \/ \E filter \in Status \cup {None} : WalkBegin(filter)
    \/ WalkPage
    \/ WalkEnd

Spec == Init /\ [][Next]_vars

-----------------------------------------------------------------------------
(* What the inbox promises                                                 *)

(* entries that share their created_at with no other: only their place is  *)
(* certain, since ORDER BY created_at desc has no tie-breaker              *)
Placed(e) == \A f \in Entries \ {e} : row[f].created # row[e].created

(***************************************************************************)
(* Of the entries that matched when a walk began, match at its end and     *)
(* share their created_at with no other entry, the walk misses no more     *)
(* than have left the filter meanwhile: pages are cut by offset, so new    *)
(* entries, which are committed in another order than they are dated, only *)
(* repeat what was seen, but every entry that is resolved moves one past   *)
(* the walk.  Without a filter none of them is missed.  Of entries dated   *)
(* alike nothing is promised: with nothing triaged, two pages may order    *)
(* them in two ways, show one of them twice and the other not at all.      *)
(***************************************************************************)
MissedBounded ==
    walk # Idle /\ walk.done =>
        Cardinality({e \in (walk.start \cap Matching(walk.filter)) \ walk.seen :
                       Placed(e)}) <= walk.left
=============================================================================
