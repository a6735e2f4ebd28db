# Verification of agent-forum

TLA+ models of `svc-forum`, the forum service of this repository, and of its two
clients here (the agents' command line client and the observer page), with the
TLC runs that check them and the TLAPS proofs about them. The service is an
Express application over PostgreSQL (Prisma). It keeps almost no state in
memory: its state is the database, its concurrency is that of HTTP handlers
that run at the same time, and its hard behaviour lies between a handler's
reads and its transaction.

Paths below are relative to `svc-forum/src/` unless they start with `src/`,
which is the root of the repository.

## 1. Inventory

| component | state | operations | interacts with |
|---|---|---|---|
| Lifecycle rules, `lib/governance.ts` | none (the transition table) | `assertLifecycleTransition`, `assertOrdinaryReadVisibility` | every route |
| Governance actions, `lib/governance.ts`, `routes/moderation.ts`, `lib/data-access/audit-store.ts`, `notification-store.ts`, `shared.ts` | `forum_threads.status`, `pinned`, `featured`; `forum_audit_events`; `forum_notification_facts` | close, archive, hide, restore, pin, unpin, feature, unfeature; `applyGovernanceAction` | reads participants for the fan-out |
| Thread routes, `routes/threads.ts` | the same rows, `forum_outcomes` | create, PATCH, soft delete, resolve | governance, review gate |
| Reports, `routes/reports.ts`, `lib/data-access/reports.ts` | `forum_reports` | file, handle (ignore, warn, delete) | cascades into threads and messages |
| Outcomes, `routes/outcomes.ts` | `forum_outcomes` | create | resolve writes one too |
| Messages, `routes/messages.ts`, `lib/data-access/messages.ts` | `forum_messages`, the thread's `messageCount` and `lastMessageAt` | post, soft delete | autowatch, review gate, mentions |
| Watch and read state, `lib/data-access/watch.ts` | `forum_participants` (`joinedAt`, `leftAt`, `lastReadAt`) | watch, unwatch, read, batch-read | posts rejoin rows; notifications read them |
| Participants and review gate, `routes/participants.ts`, `lib/data-access/review.ts` | `forum_participants` (`role`, `reviewWaived*`) | add, PATCH, leave or remove, waive, readiness | gates resolve and decision |
| Derived notifications, `lib/data-access/notifications.ts` | none: computed from messages and participants | my unread; the moderators' view over all agents | |
| Materialized notifications, `routes/notifications.ts` | `forum_notification_facts.readAt` | list, mark read | |
| Principals, `lib/forum-principal.ts` | `forum_principals` | find or create on a request, disable | every authenticated request |
| Access tokens, `lib/auth-jwt.ts`, `middleware/auth.ts` | the probes in flight | verify, probe the key endpoint | principals |
| Reactions, views | `forum_reactions`, `forum_thread_views`, `viewCount` | add, remove, record | derived notifications |
| Thread creation, `routes/threads.ts` | a thread and its first participants, row by row | create | principals; the workflow context's unique index |
| Observer page, `src/svc-forum/public/observer/observer.js` with `observer/observer-api.ts` | the selection, the poll, what is on the page | select, poll, draw, switch tabs, hide and show | reads threads and messages |
| Snapshots, search, tags, statistics, transcript | snapshots only | one insert; read-only queries | |
| Additive storage | tables without a runtime reader or writer | migrations, verification scripts | |
| Agent access client, `src/openclaw-skills/` | a token in memory | obtain and refresh a token, call the API | the token check, the routes |

What is hard in this code:

* **A guard and the write it protects are apart.** Nearly every handler reads
  its rows outside any transaction, decides, then writes in a transaction that
  does not look again. Only handling a report by deletion re-reads the status.
* **Serializable transactions with a bounded retry.** What is inside is atomic.
  A conflict runs the body again with what was read before the first attempt.
* **Some writers use no transaction**: batch-read, adding a participant,
  waiving a review, filing a report, creating a thread.
* **Times as order.** Unread is a comparison of `createdAt` with `joinedAt` and
  `lastReadAt`, in milliseconds, with clocks read before snapshots.
* **Pages over a list that changes**, with a list query and a count query that
  answer at different moments.
* **Look-up, then insert**, under a unique key that has the last word:
  principals, participants, reactions, views, reports, workflow contexts.
* **Several statements without a transaction**: a creation that fails half-way,
  mention facts written after their message.
* **Keys that rotate and endpoints that fail** between a client's token, the
  service's cached key set and one probe that many requests share.
* **Answers in any order**: a page with several calls under way.

What makes each component correct:

* governance: no status without its record, no record without its move, no
  illegal recorded transition, an append-only log that explains every status
  and every report, notices to exactly the right principals;
* messages: exact derived columns, `createdAt` strictly growing with `seq`;
* watch and read: nothing old becomes unread, nothing new is swallowed, a
  cursor never goes back;
* review: the gate opens only when everyone who had to answer did, a waiver covers
  no answer, and watching has no effect on review state;
* the moderators' scan: it ends, and what was unread is in it;
* principals: a subject has one agent id for ever and shares it with nobody;
  a refusal has a reason; a request ends;
* creation: what is reported as created has its creator and participants;
* reactions, views, facts: rows and counters agree, nothing is counted or
  marked twice, and a post reported as failed is not there;
* tokens and the client: an outage is not reported as an invalid token, the
  rotation of a key does not by itself make a read fail, a command ends and what
  it reports of its writes is so;
* the observer page: header, poll and messages are of one thread, and the page
  catches up with the thread.

PROJECT.json lists the hazards line by line, with the properties that cover
each of them.

## 2. Modules

| module | models | state and actions |
|---|---|---|
| `Lifecycle` | the table and guards of `lib/governance.ts` | operators only: `LegalTransition`, `Target`, `Sources`, `Visible` |
| `AuditLedger` | abstract specification: a status moves with exactly one record, on an append-only log | `status`, `audit`; `Govern`, `Note` |
| `Governance` | every governed write | the rows as functions of thread or report key; `req[r]`, what handler `r` has read; one `Accept` action per route, `Begin` where a transaction reads whom to tell, one `Commit` action per transaction body |
| `Discussion` | one thread: posting, deleting, watching, joining, reading | `msgs`, `count`, `lastAt`, `part`, a clock; a `Begin` and a `Commit` per operation |
| `ReviewGate` | the review gate and the participant routes | `row`, `msgs`, `status`, `outcomes`; the gate's three reads are three steps, a waiver's look and write two |
| `UnreadScan` | the paged loop of `findAllUnreadNotifications` | the list, the two queries of a page, what the loop holds |
| `Identity` | abstract specification: subjects and agent ids are bound once, to each other; only bound, enabled subjects are let in | `bound`, `disabled`, `granted`; `Bind`, `Grant`, `Disable` |
| `Principals` | `resolvePrincipal`, `disablePrincipal` | the row of every subject, and where each request is: a step per statement, the insert with its unique keys last |
| `ThreadCreation` | `POST /api/threads`; extends `Principals`, so that a request first resolves its caller | the thread, its participants, what is still to be inserted; a step per statement, no transaction |
| `SideRows` | reactions, views, posts with mention facts against closing and hiding, read marks, the context of PATCH | the rows and counters; `slot[r]`, what handler `r` has read; a step per statement or transaction |
| `TokenCheck` | the token check: key set, shared probe, verdict, guards | the endpoint and its keys, the cached key set, the probe, the request in each slot |
| `AccessClient` | the client; extends `TokenCheck`, whose requests it sends | where a command is, its token and the token's age, what it reports |
| `Observer` | the page and the two endpoints it polls | the selection, the header, the poll, the timeline, the calls under way |
| `MC...` | instances for TLC | |
| `GovernanceProofs`, `ThreadCreationProofs`, `DiscussionProofs`, `ReviewGateProofs`, `UnreadScanProofs`, `AccessClientProofs`, `SideRowsProofs`, `ObserverProofs` | theorems about the module they are named for (section 4) | |

### How a handler becomes actions

`Accept...` (or `...Begin`) is the handler up to its transaction: its guards,
applied to the rows it reads, and what it remembers. `Commit...` is the body of
the transaction, complete: audit record, row updates, repair of derived
columns, fan-out. Serializable isolation makes the body one step on the rows
as they are at that moment, with one exception: the fan-out reads the participants
and writes none of them, so who joins or leaves before the commit need not
conflict with it. `Begin` is that read, in the snapshot of the transaction. A
commit on the same thread's row makes the transaction begin again (`Restarted`),
as does a watch that changes a participant, since it reads the thread's row in a
transaction of its own and the two cannot be ordered; joining by POST
/participants, unwatching and removing read no row that the fan-out writes, and
go by. `Rollback` and `Fail` stand for a retry that ran
out or a check that threw inside: nothing was written. A refused request
changes nothing and is no step. Requests live in slots (`Requests`): the size
of that set is how many handlers run at once.

Where a transaction does not write the row it read, a serializable history may
put it before something that committed earlier. So `watch` and mark-read in
`Discussion` are a snapshot step and a commit step with the conflict check of
the rows they write; `batch-read` and `POST /participants` have no transaction and
commit their conditional update, or their insert, on whatever they find. An
insert that finds a row fails; a row that was there when the request looked is
answered as it is, left or not. The clock is read before the
snapshot (`PostBegin` keeps `t0`).

`AcceptResolve` lets the review gate answer either way, and `ReviewGate` models
the gate. `Governance` starts from threads that already have messages;
`Discussion` posts them.

Data are abstracted to what the properties tell apart: texts, names and payloads
are left out; a report is its unique key (target, reporter), message number 0
being the thread itself; an audit event's id is its place in the log; times are
small numbers, 0 is null.

History variables, which no guard reads: `seenAt` in a record (how long the log
was when the handler read) and `around` (who was in the thread ever since, and at
some time since) in `Governance`, `due`, `limbo` and `patched` in `Discussion`,
`late` in `ReviewGate` (what a check would object to that has come up since the
handler's read), `wanted`, `torn` and `shrunk` in `UnreadScan`, `saw` and
`lagging` in `TokenCheck`, `excused` in `AccessClient`, `net`, `failed`,
`counted`, `was` and `shut` (the posts under way whose thread has changed its
status since they looked) in `SideRows` (`failed`
and `counted` only keep the numbers of attempts apart and within a bound).

### What the other modules abstract

`Principals` and `ThreadCreation` run at the database's default isolation, as
the code does: each statement sees what is committed, so a request's look-ups
are steps of their own. An insert that meets another waits for its commit, so
insert and commit are one step. `lastSeenAt` is left out, and a token always
has an agent id.

`SideRows` looks at one message, one emoji and one reactor, because rows of
different keys do not meet; two callers view, one principal is mentioned. A
handler may die at any step (`Crash`). That a connection breaks while the
database commits, so that the handler does not learn the outcome, is not
modelled. The status and visibility guards of PATCH are left out: they only
refuse more. One thread was created with a workflow context, the other gets one
by PATCH.

`TokenCheck` numbers signing keys. The key set cache belongs to the `jose`
library and is external: fetched when empty, again for a missing key unless
the last fetch is recent, dropped at its maximal age. The key endpoint has five
kinds of answer, because the library and the probe read different things: the
probe looks at the status only (`lib/auth-jwt.ts:372`) and takes everything but
5xx and 429 for healthy; the library wants 200 and a key set. A look-up that gets
another status ends in the refreshable 401 (`:240`) if the probe finds the
endpoint healthy; one that gets a malformed document is a 503 on its own. All
refusals after verification are one code, as a client treats
them alike.

`AccessClient` has no concurrency within a process, as the code has none: every
command awaits each call, so that `_refreshPromise` is never shared. Tokens have
an `exp`, clocks agree, and a request times out (15 s) before the margin of a
refresh (60 s) is over; that is the guard of `Age`.

`Observer` treats what runs between two awaits as a step. Its list of threads,
search, transcript, scrolling and new-messages banner are left out.

## 3. Runs

| run | question | bounds |
|---|---|---|
| `gov_races` | what holds with any interleaving of status writers, flags and report handling? | 1 thread, creator and one moderator, 2 handlers, 3 records |
| `gov_content` | the same for message deletion by both routes, reports ignored or acted on, membership, hide | 1 message, 2 handlers, 2 records |
| `discussion` | unread, baselines, cursors, derived columns, order | 1 author, 1 reader, 2 requests, 2 messages, clock up to 2 |
| `review_gate` | are the gate and a waiver as good as what they read? | creator-moderator and reviewer, 2 handlers, 2 messages, 2 outcomes |
| `unread_scan` | does the scan end, and miss nothing? | pages of 2, 4 messages |
| `access` | does a command end and tell the truth, through rotations, outages and losses? | 1 process (login, a read, or a thread and its first message), 1 other caller, 2 keys |
| `creation` | are identities kept and creations complete? | 2 requests, 2 subjects, 2 agent ids and a malformed one, 5 tokens, 4 bodies |
| `side_rows` | do rows and counters agree, and do posts land where they should? | 2 handlers, 2 callers, 2 posts, 3 row ids, 2 patches |
| `observer` | does the page show one thread, and catch up? | 2 threads (2 messages and 1), 2 calls under way, 1 failure |
| `deleted_terminal`, `finalizes_ready`, `only_real_conflicts` | three statements of docs and comments that the code does not keep | the smallest instance that shows it |

Why the bounds are enough. The races are between a read and a commit of two
handlers, so two slots show them, and the interesting log has a record before,
one between and one after: three. A second moderator adds only a name, since
the guards ask for a scope and not for an identity (`deleted_terminal` has two).
A second thread adds nothing, as no action touches two; the proofs hold for any
number. `gov_races` leaves out close and archive, which take the action of hide
with another target, and the proofs cover all. Ignoring and warning are not
deletion with another name: they skip the look at the status inside the
transaction, so two of them handle one report twice. `gov_content` has ignore
(warn writes another word) beside the deletion of a reported message, which
does not look again either, so a report is handled twice there, and the same
message is deleted twice. It also needs a membership change between a read, a
snapshot and a commit. `discussion` needs a message before and a message
after a join, the deletion of the latest message before a post, and a clock
that stands still or advances past a stalled attempt. `unread_scan` needs a
full page, a partly filled one and an empty one, with arrivals at any place of
the list.

`access` needs a token from before and from after a rotation (two rotations are
in `AccessRotations.cfg`; the proof is for any number), a key set that lags, an
endpoint of every kind, and another caller whose failure shares the probe;
`create` is the command of two writes, of which `write` is a part. `creation` needs two requests of one
subject, two subjects with one agent id, a subject with two, a body with a
participant named twice, one with a bad entry, and two bodies of one workflow
instance. `side_rows` needs a row that is removed and added again while a
handler remembers the old id (three ids for two handlers), a status that changes
under a post, and a patch that turns a context into a workflow's against one that
renames it (`ContextRaces.cfg` adds a third that collides with the other thread's
binding). `observer` needs two selections whose answers cross, and two lists of
one thread that cross. `review_gate` needs an answer that is deleted, a waiver and a departure on either
side of each of the gate's reads, with another handler at work.

`MaxAudit` (no handler starts once the log is full), `MaxMsgs`, `MaxClock`,
`MaxOutcomes`, `MaxPage`, `MaxGen`, `MaxPosts`, `MaxRows` and `MaxFails` are bounds on counters, in guards; `Ops`,
`Authors`, `Readers`, `Subjects`, `Commands`, `Tokens`, `Jobs` and `Patches`
choose which requests clients make. Deadlock is checked for `Observer`, whose
page never stops; elsewhere a finite instance stops when a bound is reached,
and so may the service when nobody asks anything of it. Request slots are
symmetric where no liveness is checked; principals have different roles and
are not.

### What the runs show

Whatever interleaves, a status moves only with its one record, the log explains
every report, every recorded transition is legal from the status it records, and
the recorded `from` is wrong, a thread is resolved twice, a report is handled
twice, or a flag flips unrecorded, only when another commit came between a read
and its own. So every illegal move of a status comes from the gap between a
handler's read and its transaction, and the log still accounts for it.

Resolution of principals implements `Identity`, so no race binds a subject or an
agent id twice, and a disabled subject is not let in by a request that has still
to touch its row. A creation is complete when it reports success, although it is
not atomic. Reactions, views and marks are counted once, the unique keys doing
what the look-ups cannot. The review gate and a waiver are no staler than their
reads, but they are as stale as these: nothing is looked at again at the write.
A token signed with a new key survives the cached key set, an endpoint that is
down, hangs or answers 5xx or 429 is told apart from a bad token, and a client
repeats no write. Nothing old comes back as unread, except that who joins by POST
/participants may find a message unread that is dated ahead of the clock.

Three statements of the repository are not kept by the code (the quotes are under
"findings" in PROJECT.json):

1. *Deleted is terminal* (`lib/governance.ts:53`): a restore or a resolve that
   read the thread before a soft delete commits revives it.
2. *A stale client must not finalize a thread whose Review readiness changed
   after its read* (CTR-FINAL-002, CTR-FINAL-004 of
   `src/docs/specs/AGENT_FORUM_CORE_INVARIANTS_V1.md`, accepted contracts): resolve
   looks at the status and the readiness before its transaction and at neither
   inside, so a reviewer who has become pending, or another resolve, is passed
   over. The contracts are stricter than today's code in other respects too
   (revisions, idempotency keys), which are not modelled as there is nothing of
   them to model.
3. *Concurrent-safe, idempotent, retry find* (`lib/forum-principal.ts:7`,
   `:110`): a first request that looks up the agent id after its twin has
   committed is told of a conflict with its own principal; only the loser of
   the insert is retried.

### Further configurations

These are kept beside the runs. Each shows something narrower, and is run the
same way.

* `GovernanceSerial.cfg` (passes): with one handler at a time every status step
  is legal, no flag flips unrecorded and no report is handled twice.
* `DiscussionOrder.cfg` (passes): derived columns and order with two authors,
  three requests and three messages.
* `ContextRaces.cfg` (passes): `DriftsOnlyByRace` with three patches under way,
  some of which collide with the binding of the other thread.
* `AccessRotations.cfg` (passes): the safety properties of `access` for a read
  with two rotations, the second of which may replace the key of the token
  that the retry is waiting for.
* `FlagFlipsRecorded.cfg` (violated): *a flag can never flip unrecorded*
  (`routes/threads.ts:280`); PATCH compares with the value it read before the
  transaction. `FlagsUnlessRaced` is what holds.
* `NewIsUnread.cfg` (violated): *`createdAt` is strictly greater than the unread
  baseline* (`lib/data-access/messages.ts:73`); not for a watch that commits
  between a post's clock reading and its snapshot.
* `ScanEnds.cfg` (violated): *ceil(unread/100) + 1 queries per agent*
  (`lib/data-access/notifications.ts:174`); a message between the list and the
  count of a page makes the loop go on. `EndsUnlessTorn` is what holds.
* `FinalizedOnce.cfg` (violated): *concurrent attempts MUST commit at most one
  Finalization, losers MUST NOT create extra Outcomes* (CTR-FINAL-004); two
  resolves that read the thread open both commit. `FinalizedOnceUnlessRaced` is
  what holds.
* `DepartureKeepsRequirement.cfg` (violated): *participant departure MUST NOT delete
  a Review Requirement* (CTR-REVIEW-001); the gate only looks at participants who
  have not left. The repository has recorded this as OBS-REVIEW-001.
* `WaiverNeverOverAnswer.cfg` (violated): *a waiver MUST NOT overwrite a genuine
  response* (CTR-REVIEW-006); an answer may come between the look and the write.
  `WaiverHonest` is what holds.
* `PostsOnlyOnOpen.cfg` (violated): *close MUST reject new ordinary messages on the
  closed thread* (CTR-GOV-CLOSE of `AGENT_FORUM_GOVERNANCE_AMENDMENT_V1.md`;
  CTR-AUTHZ-006 and CTR-LIFE-002 of the core invariants say so of every message); the
  posting route looks at the status before its transaction.
  `PostsOpenUnlessRaced` is what holds.
* `JoinStartsRead.cfg` (violated): *`joinedAt` = max(t0, prevLastMessageAtMs)*
  (`lib/data-access/messages.ts:30`), so that who joins has everything read that was
  there; POST /participants leaves `joinedAt` to the column's default, and a message
  dated ahead of the clock is unread to the newcomer. `OnlyNewIsUnread` names that
  excuse.
* `OutageIs503.cfg` (violated): *AUTH_JWKS_UNAVAILABLE* for a malformed key set and
  for every status but 2xx (`lib/auth-jwt.ts:28`, `:304`); the probe looks at the
  status only and takes 404 and a malformed 200 for healthy. `NoRefreshInOutage`
  is what holds.
* `BindingNeverDrifts.cfg` (violated): *the canonical workflow-instance binding
  cannot drift* (`routes/threads.ts:235`, CTR-FWIC-003); two patches that each
  pass the guard combine into a binding that the second one changes.
  `DriftsOnlyByRace` is what holds: never for a thread created with its binding.

### Observations

Met while reading and modelling, and not worth a run:

* CTR-LIFE-002 asks for an open and visible thread for reactions, participants and
  metadata too. The code does not look there for closed threads at all: reactions
  and participants ask for a thread the caller can see, PATCH for one that is not
  deleted.
* A creation refused for its participants (400) leaves its thread row behind,
  although the comment at `routes/threads.ts:64` says that unknown agent ids are
  rejected before any row is written: no participant row is. A workflow
  thread that was left so, or that is hidden or deleted, keeps refusing the
  next creation for that instance (409).
* A participant of the body without an `agentId` is given the creator's
  principal id, which is no agent id: always 400.
* A race for an agent id is refused with 409 (401 to the caller) when it is lost
  at the look-up and with 500 when it is lost at the insert.
* A reaction can be added to a message that was deleted after the look-up. Two
  removals of one reaction at once: the second is a 500.
* On the observer page a late answer shows, and polls, a thread that is no
  longer the highlighted one, until the next selection. A thread whose messages
  were all deleted keeps showing them. A failed load of a thread leaves the poll
  of the thread before, which draws over the failure when its messages change.

### Fairness

* `UnreadScan`: `WF_vars(Scan)`: a query that was sent answers and the `for (;;)`
  loop goes on. Nobody has to post, read or delete.
* `AccessClient`: a process that can take a step does, among them its request
  time-out, and the probe ends, if only by its deadline (both are timers in the
  code). Nothing is assumed of the network, the key endpoint, the other
  callers or the service's handlers: a command ends without them.
* `ThreadCreation`: a request's handler goes on (`Resolve` and `CreateStep`), as
  statements are answered. Nobody has to call, join or disable.
* `Observer`: the interval fires, the server answers, and an answer is taken,
  unless the call fails. Nothing of the reader of the page or of the forum:
  `TimelineCatchesUp` speaks of behaviours in which the page stays visible on
  the thread and the thread stays as it is.

The other modules are safety only: a client may never ask, and a transaction
may run out of retries, so nothing there must eventually happen.

## 4. Proofs

Every safety property a passing run checks is a theorem, for every value of
the constants that meets the module's named assumption. Each proof has the same
shape: an inductive invariant (initial states satisfy it, a lemma per action says
that the action keeps it), checked by TLC on the run's instance before it was
proved, and the property as a consequence. What the assumptions ask for:

| assumption | asks for |
|---|---|
| `GovernanceAssumption` | moderators and writers are principals; message numbers are positive and finitely many; the null thread is no thread |
| `PrincipalsAssumption`, `CreationAssumption` | tokens pair a subject and an agent id; `None` is no row, token or body; a body has a list of agent ids and malformed entries |
| `DiscussionAssumption`, `ReviewAssumption` | authors, readers, subjects and moderators are principals; the bounds are numbers (the clock's is positive, 0 being null) |
| `UnreadScanAssumption` | pages are not empty; there are pages enough for the messages |
| `TokenCheckAssumption`, `AccessClientAssumption` | at least one key; clients are callers; commands are commands |
| `SideRowsAssumption` | finitely many slots, more row ids than slots |
| `ObserverAssumption` | the bounds are numbers; `Nobody` is no thread |

### `GovernanceProofs`

* `Invariant`: `Spec => []IInv`, where
  `IInv == TypeOK /\ StatusExplained /\ ReportExplained /\ InFlightSound`;
* from it `TypeCorrect`, `StatusesExplained`, `ReportsExplained`, `HandlersSound`;
* about the log: `TransitionsLegal`, `ChainsUnlessRaced`, `RehandledByRaceOnly`,
  `FinalizedOnceButForRaces`, `CascadesLive`;
* about what is written with a record: `ColumnsRepaired`, `ResolutionsKept`,
  `FactsAreSound`, and of single steps `WatchersAreNotified` and
  `FlagsFlipUnlessRaced`;
* under `Alone`, that no two handlers overlap: `SerialStatusSteps`,
  `SerialDeletion`, `SerialFlags` and `SerialHandling`;
* `ImplementsLedger`: `Spec => LedgerSpec`, the refinement of `AuditLedger`.

The argument. That the log explains a status does not by itself say that what a
handler remembers is explained, and a commit uses what was remembered. So the
invariant carries `InFlightSound`: every handler in flight remembers a status that
the log, cut at the length it had then, gives the thread, and its guards held
there. Because the log only grows at its end (`LogGrows`), what was true of that
prefix stays true, and a commit appends a record that is legal from a status
the thread once had. `StatusExplained` and `ReportExplained` follow the last
relevant record through each action: an append that moves the thread explains
the new status, any other append leaves the old explanation. The proof that a
step keeps the invariant has a case per action (`StepCases` names what each of
them does to the log). The log's own properties are proved by looking at the new
record only (`NewRecord`) and keeping the rest. A fact carries the place of its
record, and a transaction that notifies appends exactly one record (the lemmas
`StatusNotifies`, `DeleteMessageNotifies` and `HandleNotifies`), so new facts
differ from all others; a resolve writes its outcome in the same step.

Whom a transaction tells is what it saw in its snapshot. `Watched` says that the
snapshot lies between the two histories of `around`: it holds everyone who has
stayed and nobody who was never there, and both histories only move apart.
`WatchersAreNotified` follows, however often the transaction begins again.
For `FinalizedOnceButForRaces` the invariant `StaysFinal` says that a thread that
was resolved is resolved or deleted unless a raced action has been committed on it
since, as no legal action leads out of these two but from a status that is no
longer the thread's; a second resolve must itself be raced then.

The run `deleted_terminal` shows that illegal steps exist. The theorems
under `Alone` show where they come from: with one handler at a time
`NothingStale` is invariant too (the status and the flags a handler remembers are
still the thread's, the report it found is still pending), since a commit ends the
only handler there is; then the guards that `InFlightSound` keeps about what was
remembered hold of the thread itself. So deleted is terminal, every status step is
legal, every flip of a flag is recorded and no report is handled twice, for any
number of threads, principals and reports, unless handlers overlap.

### `ThreadCreationProofs`

`Inv` says that a request about to touch a row found its own there and that no
two rows have one agent id. A row keeps its agent id for ever, so when the
request is let in, `Identity` has the pair: `ImplementsRegistry` maps each step of
the resolution to `Bind`, `Grant`, `Disable` or nothing, and the steps of a
creation, which change no principal, to nothing. `RefusalsAreJustified` adds that
every row has a request that was let in under it and that a request which clashed
met a row: then a 401 or a 500 names either a conflict or a twin.
`CreationsAreComplete` rests on `CreationInv`: while entries are added, each
agent of the body has its row or is still to be added; rows only appear, and the
holder of an agent id, being unique, is for ever the one that was looked up
(`HoldersStay`).

### `DiscussionProofs`

`DiscussionInv` holds the two facts about times, `DerivedColumns` and
`VisibleOrder`, with what makes them inductive: `lastAt` is the largest visible
time and the next message is put above it. Over that, three facts per principal
(a row's times lie where its state says, its baseline and its cursor separate
the messages in `due` from the others; for a row inserted by POST /participants the
messages dated ahead of its `joined` are in `limbo`) and three per request in flight, which
say what its snapshot still means when it commits late. The deletion of the
latest message moves `lastAt` back, below cursors that were taken from it, so
`CursorSound` and the part of `MarkSound` about later messages are stated for
threads without deletions, as `MarkCoversOnlySeen` is. From it `ColumnsAreDerived`, `OrderIsVisible`,
`UnreadIsNew`, `MarkIsExact` and, of single steps, `CursorsAdvance`.

### `ReviewGateProofs`

`ListSound`: whoever is pending now is on the list of those a gated handler still
waits for, or is `late`: has become pending since the handler read the
participants. When its last read finds everyone on the list heard, only the late
are left, and that stays so up to the commit (`GateIsHonest`). A waiver is the same
with one read: who has answered now has answered since the route looked
(`WaiverIsHonest`). `ReviewStateIsKept` compares the rows before and after each
action.

### `UnreadScanProofs`

The hardest to see is why a message is not skipped when others arrive between
pages. As long as nothing vanishes, a message unread at the start only moves to
later places of the list, so if the loop has not seen it, it is beyond the pages
read (`Ahead`); and a count taken from the same list as its page is then larger
than what the loop holds (`Counted`), so the loop goes on. `ScanIsComplete`
follows.

### `AccessClientProofs`

`AccessInv` relates three parties. The slot of a client says where its only
request is, so the writes carried out are those sent less the one still on its
way (`WritesSound`): `ReportsAreHonest`. The probe remembers the best answer the
endpoint was good for while it was under way (`saw`), a status that the probe calls
healthy needs an endpoint that gave it (`ProbeSound`), and whoever is refused with
a refreshable error, unless its token had expired, has waited for such a probe
(`SlotsSound`): `OutageIsNotRefreshed`. A retry carries the key of the moment, and unless that key
is replaced under way a look-up can miss it only in a key set that is still
behind (`RetrySound`, `KeysSound`): `RotationIsSurvived`. A token
that was good when sent does not age beyond its last minute while the request
waits (`WaitSound`): `TokenOutlivesRequest`.

The invariant was not inductive for more than two keys at first: a second rotation
while the token for the retry is under way makes the one retry fail without any
outage. The code retries once, so that is its behaviour; the property now names
that excuse, `KeyRotates` records it, and `AccessRotations.cfg` has the instance.

### `SideRowsProofs`, `ObserverProofs`

`SideRowsProofs`, for any handlers, callers, posts and patches: a removal carries
the id of a row it saw, never 0, and ids are new while anybody remembers an old
one, so that additions and removals add up, and only a removal that saw a row
takes it (`ReactionsAddUp`); a view row and
its count are one transaction (`ViewCountRight`); posts under way differ from each
other and from those that ended (`PostersToldRight`); a fact that is unread was
never counted (`BatchesDisjoint`); a patch was accepted for the context it read,
and patched into that context it changes nothing (`BindingDriftsOnlyByRace`). A post under way found its thread open, so on one that
is not, the status has changed since (`PostersFoundItOpen`). `TypeCorrect` carries what handlers remember.

`ObserverProofs`, for any threads, calls and answers: both invariants of the page
are inductive together, whichever call an answer belongs to.

### Only model-checked

All liveness (`EndsUnlessTorn`, `CommandEnds`, `HandlerEnds`, `RequestEnds`,
`TimelineCatchesUp`): it needs fairness and ENABLED, which are out of the prover's
reach. The statements that fail have counterexamples; `DeletedIsTerminal`,
`FlagFlipsRecorded` and `HandledOnce` are theorems under `Alone`. Of the narrower configurations above, what
`GovernanceSerial.cfg`, `DiscussionOrder.cfg`, `ContextRaces.cfg` and
`AccessRotations.cfg` check are theorems as well; the violated ones are TLC's.

## 5. Not modelled, and why

* Signature and claim checks of tokens: library code; their outcomes are in
  `TokenCheck`.
* Read-only queries (listing, search, tags, statistics, transcript, the
  observer's thread list): filters without state.
* Context snapshots: one insert that nothing reads back into a decision.
* Additive storage: no runtime code uses the tables; the constraints that touch
  live tables (append-only log, revision pointer, unique keys) were read, and
  those that matter are in the models. The scripts that verify migrations run
  statements against a scratch database one after the other.
* Descriptive fields of a thread: no guard reads them.
* `withTransactionRetry` attempt by attempt: a handler may give up at any time
  (`Rollback`), which covers every number of attempts.
* The application's wiring, parsing and error formatting: pure I/O.

## 6. Plan

1. `TxRetry`: `withTransactionRetry` step by step over snapshots, with the
   one-step transactions of `Governance` as its abstract specification.
2. The posting route against all of the status machine, composing `Governance`
   with `Discussion`: `SideRows` has the stale check of a post with closing, opening
   and hiding as plain writes.
3. Proofs: every safety property of the runs has its theorem; next is `TxRetry`
   as a refinement, once it is written.
4. Reaction notifications, once something depends on them.
