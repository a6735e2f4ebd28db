----------------------------- MODULE Discussion ------------------------------
(***************************************************************************)
(* One thread's messages, its derived columns, and the watch and read      *)
(* state of its participants (lib/data-access/messages.ts, watch.ts, the   *)
(* posting and deleting routes of routes/messages.ts, joining and the read *)
(* cursor of routes/participants.ts, the unread rule of notifications.ts). *)
(*                                                                         *)
(* Threads do not share this state, so one is modelled.  Times are         *)
(* milliseconds, 0 is null.  A transaction that must commit on the thread  *)
(* row it read (posting, deleting) is one step at its commit; its clock    *)
(* reading t0, taken before its snapshot, is a step of its own.  watch and *)
(* mark-read do not write the row they read the time from, so a message    *)
(* can commit between their snapshot and their commit: two steps.          *)
(* batch-read and POST /participants use no transaction at all: reads, and *)
(* later one conditional update, or one insert.  The status guards of      *)
(* these routes are read before all this and never again; with the thread  *)
(* open they let every request through.                                    *)
(*                                                                         *)
(* due, limbo and patched are history variables: no guard looks at them.   *)
(***************************************************************************)
EXTENDS Naturals, Sequences, FiniteSets

CONSTANTS
  Principals,  \* everyone with a principal row
  Authors,     \* those who post
  Readers,     \* those who watch, leave, mark read and set their cursor
  Requests,    \* request slots
  MaxClock,    \* bound on the clock
  MaxMsgs      \* bound on the number of messages

ASSUME DiscussionAssumption ==
  /\ Authors \subseteq Principals /\ Readers \subseteq Principals
  /\ MaxClock \in Nat \ {0} /\ MaxMsgs \in Nat

VARIABLES
  clock,     \* the server's clock
  msgs,      \* the messages by seq, deleted ones included
  count,     \* forum_threads.messageCount
  lastAt,    \* forum_threads.lastMessageAt
  part,      \* the participant row of every principal
  req,       \* what every running request has read so far
  due,       \* due[p]: messages p has to see as unread
  limbo,     \* limbo[p]: messages p's joining may or may not have left unread
  patched    \* who has set the cursor by hand (PATCH lastReadAt)

vars == <<clock, msgs, count, lastAt, part, req, due, limbo, patched>>

Idle   == [op |-> "idle"]
NoRow  == [state |-> "absent", joined |-> 0, read |-> 0]
Times  == 0 .. MaxClock + MaxMsgs + 1
Seqs   == 1 .. MaxMsgs

Later(a, b) == IF a < b THEN b ELSE a

-----------------------------------------------------------------------------
(* The derived columns, and who has what unread. *)

LiveSeqs(ms) == {i \in 1 .. Len(ms) : ms[i].live}

\* The latest visible createdAt, null if nothing is visible.
LatestAt(ms) ==
  IF LiveSeqs(ms) = {} THEN 0
  ELSE LET i == CHOOSE i \in LiveSeqs(ms) : \A j \in LiveSeqs(ms) : ms[j].at <= ms[i].at
       IN ms[i].at

\* The cutoff of findMyNotifications: what is at or before it counts as read.
Baseline(row) == Later(row.read, row.joined)

\* findMyNotifications returns message i to p, as a mention or as a watch.
Unread(i, p) ==
  /\ part[p].state = "in"
  /\ msgs[i].live /\ msgs[i].author # p
  /\ msgs[i].at > Baseline(part[p])

\* Mutant: a returning row keeps its old joinedAt.
AutowatchOldJoin(row, joinedAt) ==
  CASE row.state = "absent" -> [state |-> "in", joined |-> joinedAt, read |-> 0]
    [] row.state = "left"   -> [row EXCEPT !.state = "in"]
    [] row.state = "in"     -> row

\* autowatchThread: absent rows are created, left ones rejoin, others stay.
Autowatch(row, joinedAt) ==
  CASE row.state = "absent" -> [state |-> "in", joined |-> joinedAt, read |-> 0]
    [] row.state = "left"   -> [row EXCEPT !.state = "in", !.joined = joinedAt]
    [] row.state = "in"     -> row

\* Mutant: marking read sets the cursor to the present.
NextCursorNow(row, latest) == Later(row.read, clock)

\* The cursor a mark-read aims at: max(previous, latest visible).
NextCursor(row, latest) == Later(row.read, latest)

\* Mutant: the write is unconditional.
WriteCursorBlind(row, next) == [row EXCEPT !.read = next]

\* The write happens only if it moves the stored cursor forward.
WriteCursor(row, next) == IF row.read < next THEN [row EXCEPT !.read = next] ELSE row

\* Mutant: the clock alone dates a message.
CreatedAtClock(t0, prev) == t0 + 1

\* createdAt of a new message.
CreatedAt(t0, prev) == Later(t0 + 1, prev + 1)

Remember(r, q) == req[r] = Idle /\ req' = [req EXCEPT ![r] = q]
Finish(r) == req' = [req EXCEPT ![r] = Idle]

-----------------------------------------------------------------------------
(* Posting *)

\* A transaction attempt starts and reads the clock.
PostBegin(r, a, ms) ==
  /\ Remember(r, [op |-> "post", author |-> a, mentions |-> ms, t0 |-> clock])
  /\ UNCHANGED <<clock, msgs, count, lastAt, part, due, limbo, patched>>

\* createMessage: the row with the next seq, the thread's columns, and the
\* autowatch of the author and everyone mentioned.
PostCommit(r) ==
  LET q    == req[r]
      n    == Len(msgs) + 1
      at   == CreatedAt(q.t0, lastAt)
      grown == Append(msgs, [author |-> q.author, at |-> at, live |-> TRUE])
      watchers == q.mentions \cup {q.author}
  IN
  /\ q.op = "post"
  /\ n <= MaxMsgs
  /\ msgs' = grown
  /\ count' = Cardinality(LiveSeqs(grown))
  /\ lastAt' = at
  /\ part' = [p \in Principals |->
                IF p \in watchers THEN Autowatch(part[p], Later(q.t0, lastAt))
                ELSE part[p]]
  /\ due' = [p \in Principals |->
               IF part'[p].state # "in" THEN due[p]
               ELSE (IF part[p].state = "in" THEN due[p] ELSE {}) \cup {n}]
  /\ limbo' = [p \in Principals |-> IF part[p].state = "in" THEN limbo[p] ELSE {}]
  /\ Finish(r)
  /\ UNCHANGED <<clock, patched>>

-----------------------------------------------------------------------------
(* Deleting a message: looked up outside the transaction, then its deletedAt *)
(* is set and the derived columns are repaired, together.                    *)

DeleteBegin(r, i) ==
  /\ i \in LiveSeqs(msgs)
  /\ Remember(r, [op |-> "delete", seq |-> i])
  /\ UNCHANGED <<clock, msgs, count, lastAt, part, due, limbo, patched>>

\* Mutant: lastMessageAt is not repaired.
DeleteCommitStale(r) ==
  LET q == req[r]
      left == [msgs EXCEPT ![q.seq].live = FALSE]
  IN
  /\ q.op = "delete"
  /\ msgs' = left
  /\ count' = Cardinality(LiveSeqs(left))
  /\ Finish(r)
  /\ UNCHANGED <<clock, lastAt, part, due, limbo, patched>>

DeleteCommit(r) ==
  LET q == req[r]
      left == [msgs EXCEPT ![q.seq].live = FALSE]
  IN
  /\ q.op = "delete"
  /\ msgs' = left
  /\ count' = Cardinality(LiveSeqs(left))
  /\ lastAt' = LatestAt(left)
  /\ Finish(r)
  /\ UNCHANGED <<clock, part, due, limbo, patched>>

-----------------------------------------------------------------------------
(* Watching *)

\* The snapshot of the thread's lastMessageAt and of the caller's row.
WatchBegin(r, p) ==
  /\ Remember(r, [op |-> "watch", who |-> p, prev |-> lastAt, row |-> part[p],
                  since |-> clock, n |-> Len(msgs)])
  /\ UNCHANGED <<clock, msgs, count, lastAt, part, due, limbo, patched>>

\* The write, with a clock reading taken since; a row someone else changed
\* meanwhile is a conflict, and the attempt starts again or fails.
WatchCommit(r) ==
  LET q == req[r] IN
  /\ q.op = "watch"
  /\ part[q.who] = q.row
  /\ \E now \in q.since .. clock :
       part' = [part EXCEPT ![q.who] = Autowatch(@, Later(now, q.prev))]
  /\ IF q.row.state = "in" THEN UNCHANGED <<due, limbo>>
     ELSE /\ due' = [due EXCEPT ![q.who] = {}]
          /\ limbo' = [limbo EXCEPT ![q.who] = q.n + 1 .. Len(msgs)]
  /\ Finish(r)
  /\ UNCHANGED <<clock, msgs, count, lastAt, patched>>

\* POST /participants, for oneself or for another: whoever has a row already,
\* one that left included, keeps it as it is.
AddBegin(r, p) ==
  /\ part[p].state = "absent"
  /\ Remember(r, [op |-> "add", who |-> p, since |-> clock, n |-> Len(msgs)])
  /\ UNCHANGED <<clock, msgs, count, lastAt, part, due, limbo, patched>>

\* The insert: joinedAt is the clock's (the column's default), whatever time
\* the thread's messages have reached.  A row that is there by now is a unique
\* clash, and the request fails.
AddCommit(r) ==
  LET q == req[r] IN
  /\ q.op = "add"
  /\ part[q.who].state = "absent"
  /\ \E now \in q.since .. clock :
       /\ part' = [part EXCEPT ![q.who] = [state |-> "in", joined |-> now, read |-> 0]]
       /\ limbo' = [limbo EXCEPT ![q.who] =
                      {i \in 1 .. Len(msgs) : i > q.n \/ msgs[i].at > now}]
  /\ due' = [due EXCEPT ![q.who] = {}]
  /\ Finish(r)
  /\ UNCHANGED <<clock, msgs, count, lastAt, patched>>

\* unwatchThread reads and writes one row only; leaving twice changes nothing.
Unwatch(p) ==
  /\ part[p].state = "in"
  /\ part' = [part EXCEPT ![p].state = "left"]
  /\ UNCHANGED <<clock, msgs, count, lastAt, req, due, limbo, patched>>

-----------------------------------------------------------------------------
(* The read cursor *)

\* The rows both mark-read paths read: the caller's, and the latest visible.
MarkBegin(r, p, op) ==
  /\ part[p].state # "absent"
  /\ Remember(r, [op |-> op, who |-> p, row |-> part[p],
                  next |-> NextCursor(part[p], LatestAt(msgs)), n |-> Len(msgs)])
  /\ UNCHANGED <<clock, msgs, count, lastAt, part, due, limbo, patched>>

\* markThreadRead ("read") is serializable, so the row is still the one it
\* read; batchMarkRead ("batch") just runs its conditional update.
MarkCommit(r) ==
  LET q == req[r] IN
  /\ q.op \in {"read", "batch"}
  /\ q.op = "read" => part[q.who] = q.row
  /\ part' = [part EXCEPT ![q.who] =
                IF q.next = q.row.read THEN @ ELSE WriteCursor(@, q.next)]
  /\ due' = [due EXCEPT ![q.who] = @ \ (1 .. q.n)]
  /\ limbo' = [limbo EXCEPT ![q.who] = @ \ (1 .. q.n)]
  /\ Finish(r)
  /\ UNCHANGED <<clock, msgs, count, lastAt, patched>>

\* PATCH /participants/:id with lastReadAt: any date, on the caller's own row.
\* (p \notin patched is a bound: one PATCH per principal.)
PatchCursor(p, at) ==
  /\ p \notin patched
  /\ part[p].state # "absent"
  /\ part' = [part EXCEPT ![p].read = at]
  /\ patched' = patched \cup {p}
  /\ UNCHANGED <<clock, msgs, count, lastAt, req, due, limbo>>

-----------------------------------------------------------------------------

\* A conflict or an error ends the attempt without a trace; the handler
\* starts over (a new Begin) or gives up.
Rollback(r) ==
  /\ req[r] # Idle
  /\ Finish(r)
  /\ UNCHANGED <<clock, msgs, count, lastAt, part, due, limbo, patched>>

Tick ==
  /\ clock < MaxClock
  /\ clock' = clock + 1
  /\ UNCHANGED <<msgs, count, lastAt, part, req, due, limbo, patched>>

Init ==
  /\ clock = 1
  /\ msgs = <<>> /\ count = 0 /\ lastAt = 0
  /\ part = [p \in Principals |-> NoRow]
  /\ req = [r \in Requests |-> Idle]
  /\ due = [p \in Principals |-> {}]
  /\ limbo = [p \in Principals |-> {}]
  /\ patched = {}

Next ==
  \/ \E r \in Requests, a \in Authors :
       \E ms \in SUBSET (Principals \ {a}) : PostBegin(r, a, ms)
  \/ \E r \in Requests : PostCommit(r)
  \/ \E r \in Requests, i \in Seqs : DeleteBegin(r, i)
  \/ \E r \in Requests : DeleteCommit(r)
  \/ \E r \in Requests, p \in Readers : WatchBegin(r, p)
  \/ \E r \in Requests : WatchCommit(r)
  \/ \E r \in Requests, p \in Readers : AddBegin(r, p)
  \/ \E r \in Requests : AddCommit(r)
  \/ \E p \in Readers : Unwatch(p)
  \/ \E r \in Requests, p \in Readers, op \in {"read", "batch"} : MarkBegin(r, p, op)
  \/ \E r \in Requests : MarkCommit(r)
  \/ \E p \in Readers, at \in 0 .. clock : PatchCursor(p, at)
  \/ \E r \in Requests : Rollback(r)
  \/ Tick

Spec == Init /\ [][Next]_vars

-----------------------------------------------------------------------------
(* Properties. *)

Rows == [state: {"absent", "in", "left"}, joined: Times, read: Times]

TypeOK ==
  /\ clock \in 0 .. MaxClock
  /\ msgs \in Seq([author: Principals, at: Times, live: BOOLEAN])
  /\ Len(msgs) <= MaxMsgs
  /\ count \in Nat /\ lastAt \in Times
  /\ part \in [Principals -> Rows]
  /\ due \in [Principals -> SUBSET Seqs]
  /\ limbo \in [Principals -> SUBSET Seqs]
  /\ patched \subseteq Principals
  /\ \A r \in Requests :
       req[r].op \in {"idle", "post", "delete", "watch", "add", "read", "batch"}

\* messageCount and lastMessageAt always describe the visible messages,
\* however posts, deletions and repeated deletions interleave.
DerivedColumns == count = Cardinality(LiveSeqs(msgs)) /\ lastAt = LatestAt(msgs)

\* Reading the visible messages by seq (transcripts) and by createdAt
\* (notifications) gives the same order: createdAt strictly grows with seq,
\* even when the clock stands still and when a deletion has moved
\* lastMessageAt back.
VisibleOrder ==
  \A i, j \in LiveSeqs(msgs) : i < j => msgs[i].at < msgs[j].at

\* Nothing comes back as unread: what a principal gets as unread was posted
\* after the last time it joined, rejoined or marked the thread read.  Excused
\* are one that set its cursor by hand; a message committed while that join was
\* running; and, for one who came by POST /participants, a message dated ahead
\* of the clock at its insert (createdAt is at least one millisecond ahead of
\* the clock its post read, and that route, unlike watch, does not raise
\* joinedAt to lastMessageAt).
OnlyNewIsUnread ==
  \A p \in Principals \ patched : \A i \in LiveSeqs(msgs) :
    Unread(i, p) => i \in due[p] \cup limbo[p]

\* Marking read never swallows a message it did not see: while no message has
\* been deleted, every message committed since a principal last joined or
\* marked the thread read is above its cursor, stalled batch updates included.
MarkCoversOnlySeen ==
  LiveSeqs(msgs) = 1 .. Len(msgs) =>
    \A p \in Principals \ patched : \A i \in due[p] :
      part[p].state = "in" => msgs[i].at > part[p].read

\* A message another principal commits while one is in the thread is unread to
\* it ("message.createdAt is STRICTLY greater than the participant's unread
\* baseline", messages.ts).
NewIsUnread ==
  \A p \in Principals \ patched : \A i \in due[p] \cap LiveSeqs(msgs) :
    part[p].state = "in" /\ msgs[i].author # p => Unread(i, p)

\* Who joins starts with everything read that was there when its request began
\* ("joinedAt = max(t0, prevLastMessageAtMs)", messages.ts:30).
JoinStartsRead ==
  [][\A r \in Requests, p \in Principals :
       (/\ req[r].op \in {"watch", "add"} /\ req'[r] = Idle /\ req[r].who = p
        /\ part[p].state # "in" /\ part'[p].state = "in")
       => \A i \in LiveSeqs(msgs) : i <= req[r].n => ~Unread(i, p)']_vars

\* No writer but PATCH moves a read cursor back, a batch update resumed after
\* a later mark-read included (watch.ts: "a concurrent writer can never move
\* it backwards").
CursorMonotone ==
  [][\A p \in Principals \ patched' : part'[p].read >= part[p].read]_vars

=============================================================================
