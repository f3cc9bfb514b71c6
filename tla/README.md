# Verification of the Lambda quiz backend

TLA+ modules for the FastAPI backend under `src/`: an anonymous quiz API, an
admin console for its question bank, and a retention job, all over one
PostgreSQL database. TLC checks the models on small instances, TLAPS proves
the main safety properties for every value of the constants. `PROJECT.json`
lists components, runs, hazards, findings and theorems, and maps every
definition to the lines it models.

## Inventory

| Component | Source | State | Operations | Hard behaviour |
|---|---|---|---|---|
| Quiz attempts | `endpoints/attempts.py`, `models.py` | `quiz_attempts`, `user_answers` | create, submit answer, complete, read | concurrent and retried submits and completes, responses lost after a commit, edits and the purge in between |
| Question selection | `attempts.py` `_select_question_ids` | none (reads `questions`) | sample, filtered query | sampling before the archive filter |
| Retention job | `scripts/purge_stale_attempts.py` | none (deletes attempts) | batched DELETE, size alert | races and row locks with players and edits, killed between batches |
| Question console | `endpoints/admin_questions.py` | `questions`, `question_options` | create, update, bulk change, archive, restore, list | lost updates, unique violations at the autoflush, deadlocks |
| Bulk import | `endpoints/questions.py` | the same tables | import, list | pre-check and insert are two statements |
| Reports, feedback | `endpoints/reports.py`, `feedback.py` | `question_reports`, `app_feedback` | create, list, set status | pages cut by offset while entries arrive and leave the filter |
| Categories, tags | `endpoints/categories.py`, `tags.py` | none written | list | none |
| Statistics | `endpoints/stats.py` | none written | overview, by tag, by difficulty, history | not mounted (guest-only) |
| Leveling, spaced repetition | `core/leveling.py`, `core/spaced_repetition.py` | none | pure helpers | not called by any mounted route |
| Accounts | `endpoints/auth.py`, `admin_users.py` | `users`, `refresh_tokens` | sign up, login, refresh, logout, rename, delete | concurrent refreshes of one token, deletes in between, deadlocks; not mounted (guest-only) |
| Admin session | `endpoints/admin_auth.py`, `api/deps.py`, `core/security.py` | none (stateless token) | exchange a key, check a token | none of state |
| Edge, client address, limits | `core/edge.py`, `core/limiter.py` | counters of a library | middleware, key of a request | several processes, restarts, fallback to memory when the store is out |
| Analytics | `core/analytics.py` | none | fire and forget events | events may be lost |
| Settings | `core/config.py` | what each process read at its start | start-up guards | processes with old and new settings side by side |
| Migrations | `migrations/` | the schema | 0001 to 0010, and back | 0009 and 0010 run around a deploy, with old and new code serving |

**How they interact.** Requests share nothing but the database: each has a
session (`db/session.py`) with one transaction at READ COMMITTED, and every
`await session.execute` is a point where any other request, the admin console
or the job may commit. What keeps them apart is row locks (`FOR UPDATE` in
`complete_attempt`, the locks of upserts and of foreign keys), unique
constraints (`(attempt_id, question_id)`, `(title, category_id)`,
`(question_id, position)`), and foreign keys with cascades
(`selected_option_id ... ON DELETE SET NULL`). None of this shows in a test
that sends one request at a time.

**What makes each part correct.** Attempts: one answer per question, kept once
acknowledged, with the right verdict; a retry is never refused; one score,
counted once, equal to the stored verdicts, no deadlock of players alone.
Reading: no key is shown for an unanswered question, no acknowledged answer is
missing. Selection: as many questions as asked for. Purge: deletes what is
abandoned and nothing else, also after being killed. Bank: titles unique per
category, one option list per question, reported counts exact, every request
answered, what is confirmed done as a whole and what is refused not at all.
Accounts: one user per username and address, tokens only of users, a spent token
stays spent, no deadlock of players alone. Gate: in production nobody chooses or
shares a bucket, but for one misconfiguration the docs warn of; a budget is
given once by the shared storage and once per start of a process that counts
alone. Migrations: every attempt keeps its questions and its credit. Inbox:
paging misses no more than was triaged away, ties of `created_at` aside.

## Modules

| Module | Models | Notes |
|---|---|---|
| `QuizAttempts` | create, submit, complete, option replacement, purge | the core |
| `QuizAttemptsProofs` | type correctness, the answer protocol, who can deadlock | TLAPS |
| `QuizAttemptsCompleteProofs` | completion and scores, the contract, what a page shows | TLAPS |
| `AttemptContract` | what the API promises a client, without requests, locks or rows | the abstract specification of `QuizAttempts` |
| `AttemptRead` | `get_attempt` on top of `QuizAttempts` | extends it |
| `QuestionBank` | the console's writes and the import | |
| `BankContract` | what the console promises an admin, without statements, locks or indexes | the abstract specification of `QuestionBank` |
| `QuestionBankProofs` | unique titles, option lists, counts, edits, the contract | TLAPS |
| `QuestionSelection` | `_select_question_ids` | |
| `QuestionSelectionProofs` | `QuizIsFull` | TLAPS |
| `Accounts` | sign up, login, refresh, logout, rename, delete | unmounted code |
| `AccountsProofs` | names, orphans, rotation, deadlocks | TLAPS |
| `Gate` | start-up guards, edge middleware, client address, place of the counters | |
| `GateProofs` | own buckets, budgets | TLAPS |
| `PlaceholderMigration` | 0009, the deploy, 0010 and the way back | |
| `PlaceholderMigrationProofs` | what they keep | TLAPS |
| `Inbox` | reports and feedback | one module for both |
| `InboxProofs` | what paging misses | TLAPS |
| `MC*` | instances and symmetry for TLC | one per module, several `.cfg` |

Operators named `...Mutant` are variants of the definition below them with a
plausible bug: every property of every passing run is violated when one of them
takes the definition's place.

### QuizAttempts

State: the columns of `quiz_attempts` (`status`, `picked`, `score`), of
`user_answers` (`answer`) and of `question_options` (`edition`, `key`) that the
handlers read or write; one record per request in flight with its program
counter and locals (`txn`); the rows an edit has locked (`edit`); the purge job
(`purge`, `victims`, `doomed`, `swept`, `stale`); what was committed
(`recorded`), and what clients and analytics have been told (`told`,
`reported`, `tracked`), which is what the properties are about.

* An option list is identified by its *edition*: `update_question` deletes all
  option rows and inserts new ones, so an option id never comes back.
* Each handler is a chain of actions, one per awaited statement: `SubmitLoad`,
  `SubmitReadStored`, `SubmitReadOptions`, the upsert, `SubmitCommit`,
  `SubmitRespond`; `CompleteBegin`, `CompleteLock`, `CompleteReadAnswers`,
  `CompleteClose`, `CompleteTrack`. The upsert is one of `StoreInsert`,
  `StoreRefill` and `StoreConflict`, by the row it meets, and then the foreign
  keys of what it has written (`StoreAttemptKey`, `StoreOptionKey`), each of
  which may wait for a lock while the answer's row is held. The row as it was
  written is read back in the last of these steps, since it is locked. An
  early return goes back to `Idle`. `Crash` is possible at every point; after
  `SubmitCommit` or `CompleteClose` it is the lost response.
* An edit deletes the options one by one (`EditDelete`), after each sets the
  answers that picked it to NULL (`EditNull`), and keeps all of them locked
  until `ReplaceOptions`, which is the inserts and the commit; `EditAbort`
  undoes it. Edits of one question do not overlap here, as they do in
  `QuestionBank`.
* The job's DELETE is `PurgeSelect` (the sub-select on the statement's
  snapshot), `PurgeTake` per attempt and `PurgeSweep` per answer of the cascade
  (their locks, possibly waited for), and `PurgeDelete` (the commit). On a row
  that changed while it waited, PostgreSQL evaluates the outer condition again
  but not the sub-select, so `PurgeTake` has no guard on `status`.
* Row locks are operators over where everyone is: `HasAnswer`, `HasAttempt`,
  `SharesAttempt`, `SharesOption`, `Deleting`. `WaitsFor` says who needs what
  whom has. No detector is needed as an action: that it ends a deadlock by
  aborting one of the circle is among what `Crash`, `EditAbort` and
  `PurgeCrash` may do at any time.
* `overtaken` records attempts whose answers were stored after the scoring: the
  code allows it (see the disagreements below), and `ScoreExactUnlessOvertaken`
  says it is the only way for score and answers to differ.

Left out of the locks is the foreign key `question_id`: a new answer waits there
for an edit that renames the question. The edit it waits for could wait only for
the purge, or for answers and options of submits with no lock left to wait for.

### AttemptContract

State: where each attempt is (`phase`), its `quiz`, every answer taken with its
verdict (`accepted`), those whose verdict has reached a client (`given`), the
`final` score, what was `reported`, and how many `events` analytics counted.
`Accept` allows one option per question and option list, `Tell` gives only the
verdict of an answer taken, as often as it is asked for, and perhaps never.
`Complete` allows any score between the questions that are certainly right and
those some verdict called right (they differ only where an edit made a question
answerable again), counting answers nobody was told of, `Report` only that
score. `ImplementsContract` maps these variables to `status`, `picked`,
`recorded`, `told`, `score`, `reported` and `tracked`; everything else
`QuizAttempts` has is hidden. `Accept` does not ask for an open attempt, because
the code accepts an answer that overlaps with a complete.

### AttemptRead

`get_attempt` reads the attempt, the questions with their options, and the
answers, in this order (`After`), with any step of `QuizAttempts` in between.
One page is in flight at a time; pages do not affect each other. The page keeps
the score, the option lists with their keys, and the answer rows as each was
read, so that `PageCoherent` and `ScoreShown` can say when they fit together:
always, but for a list that was replaced in between (and is served no more), a
late answer, or a purged attempt.

### QuestionBank

One step per row a statement touches, since rows are locked one by one.
Uncommitted versions are in the request's record (`new`: a row lock; `keys`:
entries of the unique index). Lock waits and index waits are separate phases,
as in PostgreSQL, so that deadlocks appear; the deadlock detector is external
and aborts a request of the cycle. `update_question` is `UpdateLoad`,
`UpdateLoadOptions`, `UpdateFlush` (the autoflush at the category lookup),
the move to the new category, `UpdateDelete` of the option rows that were
loaded, and the inserts with the commit; an edit writes only the columns that
differ from what it loaded, as the unit of work does. Bulk changes check their
WHERE again on a row they waited for. `difficulty` stands for `description` and
`explanation`, which no constraint covers.

### BankContract

State: the questions (`row`), which of its option lists each is served with
(`list`), what was reported of archivals (`shelved`), and what each request has
asked for or was told (`ask`). A request asks for something (`Ask`), then has
the whole effect in one step and is confirmed (`Add`, `Change`, `Edit`), or is
refused and has had none (`Refuse`), or nobody learns (`Leave`). No step may
leave two questions with one title and category (`NoTwins`).

A bulk change names questions (`ids`) and passes over one of them only at a
moment when it is unknown or does not suit (`Pass`: archived already, or not
archived); at its commit it changes and reports all others that it names and
nothing else. The moments differ in the code: what is unknown or unsuitable in
the statement's snapshot, or once a row's lock is granted, is out.

The contract concedes what the code does to edits. An edit
takes the row and the option list it replaces at two moments (`See`: the query
and its `selectinload` are two statements), is confirmed only if that list is
still the one served, and of the row changes what the draft changes in the row
it saw, leaving the rest as it is by now (`Merge`). `ImplementsBank` maps `ask`
to `Asked` of the request's record (`over` is what is neither still to do nor
changed), `list` to the one list in `options`, and
hides the program counters, the uncommitted versions and the index entries.

### QuestionSelection

The bank with its archived questions and categories, and requests that select.
`SYSTEM_ROWS(n)` is any set of exactly `min(n, |table|)` rows. `category` stands
for both filters.

### Accounts

State: `account` (username and email) and `token` are the two tables as
committed, `txn` the requests; `from` remembers which token a refresh exchanged.
A request's first SELECT is its first action; every later statement is one, and
an INSERT directly before the COMMIT is one step with it. A row of `users` is
entered in two unique indexes, that of the username first (`EnterUsername`), and
keeps the first entry while it waits for the second (`InsertUser`,
`RenameCommit`). Row locks and index entries are operators over the program
counters (`LocksUser`, `LocksToken`, `Entered`, `Unsettled`), lock waits are
`WaitsFor`, the deadlock detector is external as in `QuestionBank`. An UPDATE
whose row is gone is a `StaleDataError` and a 500, a DELETE whose row is gone
only a warning, and the foreign key of a new token waits for a delete that holds
the user. Ids are used once. Expiry is a nondeterministic refusal.

### Gate

What a request meets before its handler. `Safe` is `_deployment_guards`,
`ClientIp` is `client_ip` over the chain of `X-Forwarded-For`: what the sender
wrote (`Written`) and, to its right, what the proxies of the route appended.
`Refused` is `RequireCloudflare`, and `Place` says where a process counts:
`_limiter_kwargs`, and the memory of the process during an outage, which lasts
from a start of it to its end. The environment may differ from start to start;
a process reads it once, and several run side by side on one storage. The moving
window is a set of hits, at most `Limit` in a bucket, each of which may leave it
at any time; `Stop` takes a memory away, not the hits that were served from it,
so `BudgetHeld` counts what a client gets again from the next start. `OwnBucket`
has one exception, which TLC finds needed and `SECURITY.md:88-91` warns of: a
process without the secret whose hop count is above one (`Forgeable`) counts a
direct caller under the address that the caller wrote, which may be that of a
client of production on the same storage. The health check is left out: each
route has buckets of its own, and this one is let through directly.

### PlaceholderMigration

`row` is what the old code reads an attempt's questions from, `ids` what the
code in `src/` reads them from. A process runs one version or the other and is
redeployed alone. 0009 is one step, because ADD COLUMN locks the table; 0010 is
two, since its UPDATE locks nothing against an INSERT and its snapshot is older
than the DELETE. `WithoutOption` is the foreign key's SET NULL, after which a
wrong answer looks like a placeholder. The down migrations and the rollback are
actions too. `author` is a history variable: which code started an attempt.
The old code is not in the repository; it is modelled from what the two
migrations say of it.

### Inbox

`create_*`, `update_*_status` and `list_*`. `created_at` is the time a
transaction starts and two may be equal, so the order of a page is any that
`Before` allows (`IsPage`), another one on every page: two entries of one time
may change places between two pages, and a walk then shows one twice and misses
the other with nothing triaged. `MissedBounded` is about the entries whose time
no other entry shares. An admin's walk through the pages is one variable,
a page per step; `left` counts the entries that stopped to match meanwhile.

## Runs

| Run | Shows |
|---|---|
| `one_question` | the safety properties of attempts and the refinement of `AttemptContract`, lost responses included: one attempt, one question with two slots, two requests, one edit |
| `requests` | two questions and two requests: verdicts, scores, and that abandoned attempts go (`AbandonedGoes`) |
| `purge` | two attempts, batches of up to two, an edit, the job killed: completed attempts keep their answers, and which circles of row locks there can be |
| `resume` | pages read during answers, edits, completes and the purge |
| `pairs` | the bank and the refinement of `BankContract`: two questions, titles and categories, two requests |
| `answered` | every admin request is answered, deadlocks included |
| `selection` | five questions, quizzes of up to two |
| `accounts` | two users, usernames and addresses, four tokens, two requests: uniqueness, foreign keys, rotation, and who can deadlock |
| `gate` | two processes with three starts, two clients with or without an address written to `X-Forwarded-For`, four environments, outages and restarts |
| `migration` | two attempts, two questions, two processes: up, deploy, down and up again |
| `inbox` | three entries, pages of one, two writers: what paging can miss |
| `completed_kept` | violation: the purge deletes an attempt completed after it was selected |

**Bounds.** `MaxEdits` bounds how often a question's options are replaced;
`BatchSize` is the job's 5000. Two requests are enough for the races of the
code, which are all between two transactions on one row (the third party is the
admin or the job, which are separate processes here); the proofs lift answers
and completion to any number. One edit suffices to tell an option from one
deleted, and for a circle of an edit and the purge (`purge`); a circle of three,
in which a submit fills a row in again, takes two, and is covered by the proof.
`requests` has no edits: that a purge in a circle with edits gets through would
need an assumption on whom PostgreSQL aborts. In the bank an edit begins only
while fewer than three option lists have been given or are about to be: two
edits of one question overlap, or one edit meets creates, imports, moves and
archives of two questions. A bulk change names any of the two in `pairs`, always
both in `answered` (`Selection`), which is where their row locks can be taken in
two orders. Two attempts and batches of two make the job take rows apart and
together. In `accounts` two requests make every race and every deadlock of two,
and four tokens let a token be exchanged twice and its successors again; in
`gate` a limit of two with three hits (`MaxHits`) lets a bucket be full while
another holds one, and three starts let one process restart beside the other;
`migration` is bounded by its sets alone; `inbox` sets two statuses (`MaxSets`)
and has four points in time (`MaxClock`), so that a page, a second and an end
follow changes of either kind. Symmetry is used in safety runs only.

**Fairness.** `QuizAttempts`: strong fairness for the server's steps of every
request, for the steps of an edit that has begun, and for the job, since
PostgreSQL grants row locks in arrival order, so a statement whose lock is free
again and again gets it; the event loop resumes every handler. The job is
scheduled daily, so it is started again. It is not killed forever, and in the
end requests are not either: from some point on what looks like a crash is an
early return (or the job's own end). Without the latter, ever new requests that
die holding `FOR KEY SHARE` could keep the purge from an attempt. Nothing is
assumed of clients, of admins, or of attempts growing old. `QuestionBank`:
strong fairness for every request, for the same reason. Deadlock is checked in
every run.

## Proofs

All from `Spec` and the assumptions on the constants, none of which bounds the
number of attempts, questions, requests, slots or edits. Where a model counts
(ids left, entries of a page, hits of a bucket) the set counted is assumed to be
finite.

* `QuizAttemptsProofs`: `Spec => []TypeOK`, one step per action; then
  `OneAcceptedOption`, `AckedAnswerKept`, `RetryAccepted`, `VerdictMatchesKey`
  and the action property `AnswerFinal`. None of them is inductive. The
  invariant adds: what rows may hold (`RowsOK`: an option stored is live, of its
  question, with the key's verdict); what a submit in flight knows (`SubmitsOK`:
  an option read is of its question, the verdict read is the key's while the
  option is live, the answer found is still there); who holds an answer's row
  (`LocksOK`: a request between upsert and commit, an edit or the cascade, and
  no two of them; the row is as the request saw it); what was committed
  (`ClaimsOK`, `KeptOK`: an answer that was recorded is in its row, and none was
  told that was not recorded, `ToldOK`); that claims about one list agree
  (`AgreeOK`); and that a completing request's attempt is not open to others
  (`ClosersOK`). Each conjunct has a lemma per action that can disturb it.
* The same module: `DeadlockNeedsEditAndPurge`, by exclusion: whoever is in a
  circle waits and is waited for. A request is so only between its upsert and
  its commit (`RequestInCircle`): at an attempt, which only the purge can hold,
  since a complete waits for nothing once it has it, or at an option, which an
  edit holds. An edit waits for answers with an option, and a submit that waits
  has only rows without one or rows nobody else can see, so the edit waits for
  the purge (`EditInCircle`). The purge waits for an edit, or for a submit that
  is at an option and so waits for one (`PurgeInCircle`).
* `QuizAttemptsCompleteProofs`: `CompletedOnce`, `CompletedHasAnswer`,
  `ScoreExactUnlessOvertaken` and `ScoreFrozen`. `ScoreFrozen` follows from
  `ClosersOK`: who closes an attempt still finds it open. The others add
  `TrackOK` (what was reported is the score, and one request per attempt is
  between its commit and its event), `FenceOK` (no answer is being inserted
  into an attempt that is being scored: `FOR UPDATE` and the `FOR KEY SHARE`
  of the foreign key exclude each other) and `ScoresOK` (a count taken is right
  until it is stored and after, unless the attempt is overtaken). An edit
  keeps rows and verdicts, the purge does not reach a locked attempt, so only
  a late answer can disturb a count.
* The same module, refinement: `Spec => ImplementsContract`. Each step maps to
  the action of the contract that it is (`CreateAttempt` to `Start`,
  `SubmitCommit` to `Accept` or a stutter, `SubmitRespond` to `Tell`,
  `CompleteClose` to `Complete`, `CompleteTrack` and the replay to `Report`,
  `PurgeDelete` to `Discard`), all others to a stutter. On top of the invariants
  above it needs `AskedOK` (what is answered was asked), `RecordedOK` (what was
  recorded is what rows hold or held), `VictimsOK` (the purge holds attempts
  that were started) and `BoundsOK` (a count taken lies between `Sure` and
  `Right`).
* The same module, `AttemptRead`: `GetTypeOK`, `KeyStaysSecret`, `PageCoherent`,
  `ScoreShown` and `AckedShown`. `ReadSpec` implements `Spec`, so the
  invariants above hold while a page is read. `PageOK` says what has been read
  by each point (`ListsRead`, `ScoreRead`, `AnswersRead`), and `Onward` why it
  stays right: no step of the other handlers brings back an option list, an
  attempt or a claim in another form.
* `QuestionSelectionProofs`: `QuizIsFull`, from the cardinalities of what a
  LIMIT returns: a sample of twice the count loses at most the archived rows.
* `QuestionBankProofs`: `TypeOK`, `UniquePairs`, `OneOptionList`,
  `AffectedExact` and the action property `EditReplacesWhatItLoaded`. A unique
  index only compares a new pair with what its own transaction sees; that two
  transactions cannot both commit it is the work of the locks. `PairsOK` says
  how: a row and an index entry have one owner each (`LocksOK`, `KeysApart`);
  an entered pair that a committed row has can only be freed by whoever
  entered it (`KeysTaken`); each pair a request may commit, but the one it is
  waiting to enter, is among its entries (`Entered`); and the bank as a request
  sees it has no duplicates but that one (`ViewsUnique`). `FineOK` is what a
  request knows of its rows: a bulk archive has changed only rows that were not
  archived, an edit has loaded one list and deleted no other. Steps are
  classified first: three commit (`Commits`), all others are one of six moves
  of a request's locks and entries (`Move`), so the invariant is proved for
  those and not for thirty disjuncts.
* The same module, refinement: `Spec => ImplementsBank`. The three commits map
  to `Add`, `Change` and `Edit`, `UpdateLoad` and `UpdateLoadOptions` to `See`,
  a row found not to suit to `Pass`, an arrival to `Ask`, an error to `Refuse`,
  the answer and a crash to `Leave`, and every other statement to a stutter. A
  request's versions are copies of rows taken at different times, and the
  contract speaks of the rows at the commit; what makes the two agree is
  `ExactOK`, on top of the invariant above: what a bulk change has neither
  changed nor still to do is what it has passed over, and a version is at every
  moment what was asked for applied to the row as it is *now*, because the
  version is the row's lock and no other request can commit it. `ListsCounted`
  says that the list a question is served with is the last that it was given, so
  that `base = list` is the check the `(question_id, position)` constraint
  makes. `NoTwins` after a commit is `UniquePairs` of the next state.
* `AccountsProofs`: `TypeOK`, `UniqueAccounts`, `TokensHaveUser`,
  `SuccessorsBounded`, `SpentForGood` and `DeadlockShapes`. `FreshOK` says that
  an id is given to one sign-up, `EntriesOK` that a value a request has in a
  unique index and not committed stays free of other users, `RowsHeldOK` that
  the row a request has written is there, `HeldOK` that a cascade does not reach
  a token a refresh has locked, `FromOK` that a token has successors only if it
  is spent, `RoomOK` that every request that issues a token finds an id. Steps
  are classified first: a few write tables, the others only move one request
  (`Quiet`). The bound is inductive because each successor takes the place of a
  refresh that was exchanging the token. `DeadlocksHaveShapes` says who is in a
  deadlock: of the places where a request can wait, only four hold what another
  needs, and the index of the username is entered before that of the email.
* `PlaceholderMigrationProofs`: `QuestionsKept`, `VersionServesItsOwn` and
  `CreditKept`, and `TypeOK` within them. The invariant relates placeholders and
  ids by who started the attempt and by the schema (`PlacesOK`), bounds what the
  UPDATE of 0010 is about to store (`PendingOK`), and says which code may run
  under which schema (`VersionsOK`), which is the order of deploys the
  migrations ask for.
* `GateProofs`: `TypeOK`, `OwnBucket` and `BudgetHeld`. A process that runs has
  passed the guards (`RunningSafe`), so whatever production counts is counted
  under the client's own address, and others name a client falsely only where
  the hop count is too high (`KeysOK`, from lemmas on the chain of forwarded
  addresses, of any length, and on what `client_ip` returns for it);
  hits of a bucket have distinct places (`PlacesOK`) and lie where their
  process counted (`AloneOK`), so a client's hits inject into `1..Limit`.
* `InboxProofs`: `TypeOK` and `MissedBounded`, that is for entries whose time no
  other entry shares. Which entries have been missed
  shows only at the end, so the invariant counts those that may still be
  (`Lost`): entries of the start that were on no page yet and are in front of
  the offset, or out of the filter for now. A page loses nothing (`PageReaches`),
  nor does an insertion, which moves the others back. A triage out of the filter
  loses the entry itself or the one that moves in front of the offset, never
  both (`OneLost`), and `left` counts it.

Only model-checked: liveness (`AbandonedGoes`,
`RequestsAnswered`), which is beyond the prover.

## Disagreements with the documentation

`completed_kept` is the run that expects a violation. Met as well, and part of
the models rather than runs of their own:

* `submit_answer` tests the `completed_at` it loaded at its start
  (`attempts.py:337`), so an answer can be stored after the scoring, although
  `attempts.py:358` says "A replay reports the verdict as stored, which is what
  the score counts". `overtaken` marks these attempts.
* Only columns that differ from what `update_question` loaded are written
  (`admin_questions.py:222`), so two overlapping edits can leave the title of
  one with the options of the other, although "The console edits a whole draft
  and saves it as a unit" (`admin_questions.py:215`).
* The category lookup at `admin_questions.py:226` autoflushes the new title
  outside `_commit_or_conflict`, and the flush at `:233` the new category:
  renaming or moving a question to a title in use is an unhandled
  `IntegrityError`, a 500, not the 409 of `:85` (`UpdateIndexFlush`,
  `UpdateIndexMove`).
* "Oversampling absorbs the rows the filter removes" (`attempts.py:118`) holds
  only while no more questions are archived than were asked for; `QuizIsFull`
  has this condition.
* `questions.py:102` says the pre-check rules out duplicate titles, but an
  import may meet one committed since.
* A page whose question is edited between its two reads shows a wrong answer
  with the key of the list before (`PageCoherent`).
* `models.py:32`, `models.py:237` and `core/leveling.py:3` say
  `complete_attempt` maintains XP, streaks and review boxes, which it does not.
* "Rotate: revoke the presented token" (`auth.py:120`) is not exclusive: two
  refreshes that read a token together both get a successor, and a logout that
  overlaps with a refresh leaves the successor usable (`SuccessorsBounded` says
  how far this goes).
* Two admins who set the status of one report at once may both be confirmed
  with only one UPDATE sent, where one of them sets the status that was loaded
  (`After` in `Inbox`).
* A row whose option was deleted and that was wrong reads as unanswered, so
  0010 deletes it; `0010...up.sql:11` says this "changes nothing a client can
  see", but `complete_attempt` refuses an attempt that has no answer row left.
* Attempts that the new code starts after `0010...down.sql` have no placeholders
  and lose their questions with `0009...down.sql` (author `"lost"`).

## Not modelled

Categories and tags and the other listings (single reads); statistics, leveling
and spaced repetition (no mounted route calls them, and they leave no state);
admin sessions (stateless tokens); the connection pool, the arithmetic of the
moving window and analytics delivery (libraries); the other settings;
migrations 0001 to 0008; seeds.

## Plan

Done: the attempt protocol, its contract and their proofs; reading; selection;
the bank and its contract; accounts; the gate; the placeholder migration; the
inbox. Left:

1. The rules of statistics and leveling as pure operators, should their routes
   be mounted.
