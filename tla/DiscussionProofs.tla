--------------------------- MODULE DiscussionProofs ---------------------------
(***************************************************************************)
(* Theorems about Discussion, for any principals, requests, clock and      *)
(* number of messages.                                                     *)
(*                                                                         *)
(* The argument.  lastMessageAt is the largest visible createdAt, so a new *)
(* message is above it, and above every time a request has read before:    *)
(* a watch or a mark-read that commits late still separates what it saw    *)
(* from what it did not (WatchSound, MarkSound).  A cursor can be ahead of *)
(* lastMessageAt only where a deletion has moved that back, or a client    *)
(* has set it (CursorSound).                                               *)
(***************************************************************************)
EXTENDS Discussion, FiniteSetTheorems, SequenceTheorems, TLAPS

-----------------------------------------------------------------------------
(* The inductive invariant. *)

Message == [author: Principals, at: Times, live: BOOLEAN]

\* What a request can have read.
Handlers ==
  {Idle}
  \cup [op: {"post"}, author: Authors, mentions: SUBSET Principals, t0: 0 .. MaxClock]
  \cup [op: {"delete"}, seq: Seqs]
  \cup [op: {"watch"}, who: Readers, prev: Times, row: Rows, since: 0 .. MaxClock,
        n: 0 .. MaxMsgs]
  \cup [op: {"add"}, who: Readers, since: 0 .. MaxClock, n: 0 .. MaxMsgs]
  \cup [op: {"read", "batch"}, who: Readers, row: Rows, next: Times, n: 0 .. MaxMsgs]

\* Nothing was ever deleted.
AllLive == LiveSeqs(msgs) = 1 .. Len(msgs)

\* A time is ahead of the clock by no more than the messages posted.
TimesBounded == \A i \in 1 .. Len(msgs) : msgs[i].at <= MaxClock + i

\* A missing row has no cursor; the history is about messages there are.
RowSound(p) ==
  /\ part[p].state = "absent" => part[p].read = 0
  /\ due[p] \subseteq 1 .. Len(msgs) /\ limbo[p] \subseteq 1 .. Len(msgs)

\* What is neither due nor in limbo counts as read.
BaselineSound(p) ==
  p \notin patched /\ part[p].state = "in" =>
    \A i \in LiveSeqs(msgs) :
      i \notin due[p] /\ i \notin limbo[p] => msgs[i].at <= Baseline(part[p])

\* A cursor nobody set by hand is below what is due, and not ahead of the thread.
CursorSound(p) ==
  AllLive /\ p \notin patched =>
    /\ part[p].read <= lastAt
    /\ part[p].state = "in" => \A i \in due[p] : msgs[i].at > part[p].read

\* The time a watch has read is not below any message it has seen.
WatchSound(r) ==
  LET q == req[r] IN
  q.op = "watch" =>
    /\ q.n <= Len(msgs)
    /\ \A i \in LiveSeqs(msgs) : i <= q.n => msgs[i].at <= q.prev

\* The cursor a mark-read is about to write separates what it has seen from what
\* came later.
MarkSound(r) ==
  LET q == req[r] IN
  q.op \in {"read", "batch"} =>
    /\ q.n <= Len(msgs) /\ part[q.who].state # "absent"
    /\ \A i \in LiveSeqs(msgs) : i <= q.n => msgs[i].at <= q.next
    /\ q.row.read <= q.next
    /\ q.who \notin patched => q.row.read <= part[q.who].read
    /\ q.who \notin patched /\ AllLive =>
         /\ q.next <= lastAt
         /\ \A i \in 1 .. Len(msgs) : i > q.n => msgs[i].at > q.next

DeleteSound(r) == req[r].op = "delete" => req[r].seq \in 1 .. Len(msgs)

DiscussionInv ==
  /\ TypeOK
  /\ req \in [Requests -> Handlers]
  /\ DerivedColumns /\ VisibleOrder
  /\ TimesBounded
  /\ \A p \in Principals : RowSound(p) /\ BaselineSound(p) /\ CursorSound(p)
  /\ \A r \in Requests : WatchSound(r) /\ MarkSound(r) /\ DeleteSound(r)

-----------------------------------------------------------------------------
(* Times and sequences of messages. *)

LEMMA DiscussionSets ==
  /\ Authors \subseteq Principals /\ Readers \subseteq Principals
  /\ MaxClock \in Nat \ {0} /\ MaxMsgs \in Nat
  /\ Times \subseteq Nat
  BY DiscussionAssumption DEF DiscussionAssumption, Times

LEMMA LaterMax ==
  ASSUME NEW a \in Nat, NEW b \in Nat
  PROVE  /\ Later(a, b) \in {a, b} /\ a <= Later(a, b) /\ b <= Later(a, b)
  BY DEF Later

LEMMA RowFields ==
  ASSUME NEW row \in Rows
  PROVE  /\ row.state \in {"absent", "in", "left"}
         /\ row.joined \in Times /\ row.read \in Times
         /\ row.joined \in Nat /\ row.read \in Nat
  BY DiscussionSets DEF Rows

LEMMA MessageAt ==
  ASSUME NEW ms \in Seq(Message), NEW i \in 1 .. Len(ms)
  PROVE  ms[i] \in Message /\ ms[i].at \in Times /\ ms[i].at \in Nat
<1>1. ms[i] \in Message
  BY ElementOfSeq
<1>2. QED
  BY <1>1, DiscussionSets DEF Message

LEMMA LiveFinite ==
  ASSUME NEW ms \in Seq(Message)
  PROVE  /\ IsFiniteSet(LiveSeqs(ms)) /\ Cardinality(LiveSeqs(ms)) \in Nat
         /\ LiveSeqs(ms) \subseteq 1 .. Len(ms)
<1>1. LiveSeqs(ms) \in SUBSET (1 .. Len(ms)) /\ Len(ms) \in Nat
  BY DEF LiveSeqs
<1>2. IsFiniteSet(LiveSeqs(ms))
  <2>1. IsFiniteSet(1 .. Len(ms))
    BY <1>1, FS_Interval
  <2>2. QED
    BY <1>1, <2>1, FS_Subset
<1>3. QED
  BY <1>1, <1>2, FS_CardinalityType

\* What the fields of a request's record are.
LEMMA HandlerFields ==
  ASSUME NEW q \in Handlers
  PROVE  /\ q.op \in {"idle", "post", "delete", "watch", "add", "read", "batch"}
         /\ q.op = "post" => /\ q.author \in Principals /\ q.mentions \subseteq Principals
                             /\ q.t0 \in 0 .. MaxClock
         /\ q.op = "delete" => q.seq \in Seqs
         /\ q.op = "watch" => /\ q.who \in Principals /\ q.prev \in Times /\ q.row \in Rows
                              /\ q.since \in 0 .. MaxClock /\ q.n \in 0 .. MaxMsgs
         /\ q.op = "add" => /\ q.who \in Principals /\ q.since \in 0 .. MaxClock
                            /\ q.n \in 0 .. MaxMsgs
         /\ q.op \in {"read", "batch"} =>
              /\ q.who \in Principals /\ q.row \in Rows /\ q.next \in Times
              /\ q.n \in 0 .. MaxMsgs
<1>1. CASE q = Idle
  BY <1>1 DEF Idle
<1>2. CASE q \in [op: {"post"}, author: Authors, mentions: SUBSET Principals, t0: 0 .. MaxClock]
  BY <1>2, DiscussionSets
<1>3. CASE q \in [op: {"delete"}, seq: Seqs]
  BY <1>3
<1>4. CASE q \in [op: {"watch"}, who: Readers, prev: Times, row: Rows, since: 0 .. MaxClock,
                  n: 0 .. MaxMsgs]
  BY <1>4, DiscussionSets
<1>5. CASE q \in [op: {"read", "batch"}, who: Readers, row: Rows, next: Times, n: 0 .. MaxMsgs]
  BY <1>5, DiscussionSets
<1>6. CASE q \in [op: {"add"}, who: Readers, since: 0 .. MaxClock, n: 0 .. MaxMsgs]
  BY <1>6, DiscussionSets
<1>7. QED
  BY <1>1, <1>2, <1>3, <1>4, <1>5, <1>6 DEF Handlers

\* A nonempty set of naturals with a bound has a largest element.
LEMMA LargestNatural ==
  ASSUME NEW S \in SUBSET Nat, S # {}, NEW b \in Nat, \A x \in S : x <= b
  PROVE  \E x \in S : \A y \in S : y <= x
<1> DEFINE T == {b - x : x \in S}
<1>1. T \subseteq Nat /\ T # {}
  <2>1. \A x \in S : b - x \in Nat
    OBVIOUS
  <2>2. QED
    BY <2>1
<1>2. PICK t \in T : \A u \in T : ~ (<<u, t>> \in OpToRel(<, Nat))
  <2> HIDE DEF T
  <2>1. QED
    BY <1>1, NatLessThanWellFounded, WFMin
<1>3. \A u \in T : ~(u < t)
  BY <1>1, <1>2 DEF OpToRel
<1>4. PICK x \in S : t = b - x
  BY <1>2
<1>5. ASSUME NEW y \in S PROVE y <= x
  <2>1. b - y \in T
    OBVIOUS
  <2>2. ~(b - y < b - x)
    BY <1>3, <1>4, <2>1
  <2>3. QED
    BY <2>2
<1>6. QED
  BY <1>5

\* lastMessageAt is the largest createdAt that is visible.
LEMMA LatestIsLargest ==
  ASSUME NEW ms \in Seq(Message)
  PROVE  /\ LatestAt(ms) \in Times /\ LatestAt(ms) \in Nat
         /\ \A i \in LiveSeqs(ms) : ms[i].at <= LatestAt(ms)
         /\ LatestAt(ms) = 0 \/ \E i \in LiveSeqs(ms) : LatestAt(ms) = ms[i].at
<1> DEFINE L == LiveSeqs(ms)
           S == {ms[i].at : i \in L}
           Top(i) == i \in L /\ \A j \in L : ms[j].at <= ms[i].at
<1>1. L \subseteq 1 .. Len(ms) /\ 0 \in Times
  BY LiveFinite, DiscussionSets DEF Times
<1>2. \A i \in L : ms[i].at \in Times /\ ms[i].at \in Nat
  BY <1>1, MessageAt
<1>3. CASE L = {}
  BY <1>1, <1>3 DEF LatestAt
<1>4. CASE L # {}
  <2>1. S \in SUBSET Nat /\ S # {} /\ \A x \in S : x <= MaxClock + MaxMsgs + 1
    BY <1>2, <1>4, DiscussionSets DEF Times
  <2>2. MaxClock + MaxMsgs + 1 \in Nat
    BY DiscussionSets
  <2>3. PICK x \in S : \A y \in S : y <= x
    <3> HIDE DEF S
    <3>1. QED
      BY <2>1, <2>2, LargestNatural
  <2>4. \E i \in L : \A j \in L : ms[j].at <= ms[i].at
    BY <2>3
  <2>5. PICK i \in L : LatestAt(ms) = ms[i].at /\ \A j \in L : ms[j].at <= ms[i].at
    BY <1>4, <2>4 DEF LatestAt
  <2>6. QED
    BY <1>2, <2>5
<1>5. QED
  BY <1>3, <1>4

-----------------------------------------------------------------------------
(* What steps do to the messages and to the rows. *)

\* No message moves in time; new ones are above everything that is visible.
MsgsGrow ==
  /\ Len(msgs) <= Len(msgs')
  /\ \A i \in 1 .. Len(msgs) : msgs'[i].at = msgs[i].at
  /\ \A i \in LiveSeqs(msgs') : i <= Len(msgs) => i \in LiveSeqs(msgs)
  /\ \A i \in 1 .. Len(msgs') : i > Len(msgs) => msgs'[i].at > lastAt
  /\ AllLive' => AllLive /\ lastAt <= lastAt'

\* Rows stay, and cursors nobody sets by hand do not go back.
RowsGrow ==
  /\ patched \subseteq patched'
  /\ \A p \in Principals :
       /\ part[p].state # "absent" => part'[p].state # "absent"
       /\ p \notin patched' => part[p].read <= part'[p].read

LEMMA MsgsSame ==
  ASSUME DiscussionInv, UNCHANGED <<msgs, count, lastAt>>
  PROVE  MsgsGrow /\ DerivedColumns' /\ VisibleOrder' /\ TimesBounded'
<1>1. Len(msgs) \in Nat /\ lastAt \in Nat /\ Len(msgs') = Len(msgs)
  BY DiscussionSets DEF DiscussionInv, TypeOK
<1>2. MsgsGrow
  BY <1>1 DEF MsgsGrow, AllLive, LiveSeqs
<1>3. QED
  BY <1>2 DEF DiscussionInv, DerivedColumns, VisibleOrder, TimesBounded, LiveSeqs, LatestAt

LEMMA RowsSame ==
  ASSUME DiscussionInv, UNCHANGED part, patched \subseteq patched'
  PROVE  RowsGrow
<1>1. \A p \in Principals : part[p].read \in Nat
  BY DiscussionSets DEF DiscussionInv, TypeOK, Rows
<1>2. QED
  BY <1>1 DEF RowsGrow

\* A principal nothing happens to.
LEMMA PrincipalKeeps ==
  ASSUME DiscussionInv, MsgsGrow, Len(msgs') = Len(msgs), NEW p \in Principals,
         part'[p] = part[p], due'[p] = due[p], limbo'[p] = limbo[p],
         patched \subseteq patched', lastAt' \in Nat
  PROVE  RowSound(p)' /\ BaselineSound(p)' /\ CursorSound(p)'
<1>1. RowSound(p) /\ BaselineSound(p) /\ CursorSound(p) /\ lastAt \in Nat
      /\ part[p].read \in Nat
  BY DiscussionSets DEF DiscussionInv, TypeOK, Rows
<1>2. RowSound(p)'
  BY <1>1 DEF RowSound
<1>3. BaselineSound(p)'
  <2> SUFFICES ASSUME p \notin patched', part[p].state = "in",
                      NEW i \in LiveSeqs(msgs'), i \notin due[p], i \notin limbo[p]
               PROVE  msgs'[i].at <= Baseline(part[p])
    BY DEF BaselineSound, Baseline
  <2>1. i \in 1 .. Len(msgs)
    BY DEF LiveSeqs
  <2>2. i \in LiveSeqs(msgs) /\ msgs'[i].at = msgs[i].at
    BY <2>1 DEF MsgsGrow
  <2>3. QED
    BY <1>1, <2>2 DEF BaselineSound
<1>4. CursorSound(p)'
  <2> SUFFICES ASSUME AllLive', p \notin patched'
               PROVE  /\ part[p].read <= lastAt'
                      /\ part[p].state = "in" => \A i \in due[p] : msgs'[i].at > part[p].read
    BY DEF CursorSound
  <2>1. AllLive /\ lastAt <= lastAt' /\ p \notin patched
    BY DEF MsgsGrow
  <2>2. \A i \in due[p] : msgs'[i].at = msgs[i].at
    BY <1>1 DEF MsgsGrow, RowSound
  <2>3. QED
    BY <1>1, <2>1, <2>2 DEF CursorSound
<1>5. QED
  BY <1>2, <1>3, <1>4

\* A request that is not the one that moves.
LEMMA RequestKeeps ==
  ASSUME DiscussionInv, MsgsGrow, RowsGrow, NEW r \in Requests, req'[r] = req[r],
         msgs' \in Seq(Message), lastAt' \in Nat, part' \in [Principals -> Rows]
  PROVE  WatchSound(r)' /\ MarkSound(r)' /\ DeleteSound(r)'
<1> DEFINE q == req[r]
<1>1. /\ WatchSound(r) /\ MarkSound(r) /\ DeleteSound(r)
      /\ Len(msgs) \in Nat /\ lastAt \in Nat /\ q \in Handlers
      /\ part \in [Principals -> Rows]
  BY DiscussionSets DEF DiscussionInv, TypeOK
<1>2. WatchSound(r)'
  <2> SUFFICES ASSUME q.op = "watch"
               PROVE  /\ q.n <= Len(msgs')
                      /\ \A i \in LiveSeqs(msgs') : i <= q.n => msgs'[i].at <= q.prev
    BY DEF WatchSound
  <2>1. q.n \in Nat /\ q.n <= Len(msgs)
    BY <1>1, HandlerFields, DiscussionSets DEF WatchSound
  <2>2. ASSUME NEW i \in LiveSeqs(msgs'), i <= q.n PROVE msgs'[i].at <= q.prev
    <3>1. i \in 1 .. Len(msgs)
      BY <1>1, <2>1, <2>2 DEF LiveSeqs
    <3>2. i \in LiveSeqs(msgs) /\ msgs'[i].at = msgs[i].at
      BY <3>1 DEF MsgsGrow
    <3>3. QED
      BY <1>1, <2>2, <3>2 DEF WatchSound
  <2>3. QED
    BY <1>1, <2>1, <2>2 DEF MsgsGrow
<1>3. MarkSound(r)'
  <2> SUFFICES ASSUME q.op \in {"read", "batch"}
               PROVE  /\ q.n <= Len(msgs') /\ part'[q.who].state # "absent"
                      /\ \A i \in LiveSeqs(msgs') : i <= q.n => msgs'[i].at <= q.next
                      /\ q.row.read <= q.next
                      /\ q.who \notin patched' => q.row.read <= part'[q.who].read
                      /\ q.who \notin patched' /\ AllLive' =>
                           /\ q.next <= lastAt'
                           /\ \A i \in 1 .. Len(msgs') : i > q.n => msgs'[i].at > q.next
    BY DEF MarkSound
  <2>1. /\ q.n \in Nat /\ q.n <= Len(msgs) /\ q.who \in Principals
        /\ q.next \in Nat /\ q.row.read \in Nat
    <3>1. q.who \in Principals /\ q.row \in Rows /\ q.next \in Times /\ q.n \in 0 .. MaxMsgs
      BY <1>1, HandlerFields
    <3>2. q.n <= Len(msgs)
      BY <1>1 DEF MarkSound
    <3>3. q.row.read \in Nat
      BY <3>1, RowFields
    <3>4. q.next \in Nat
      BY <3>1, DiscussionSets
    <3>5. q.n \in Nat
      BY <3>1, DiscussionSets, SMTT(20)
    <3>6. QED
      BY <3>1, <3>2, <3>3, <3>4, <3>5
  <2>2. part[q.who].read \in Nat /\ part'[q.who].read \in Nat
    <3>1. part[q.who] \in Rows /\ part'[q.who] \in Rows
      BY <1>1, <2>1
    <3>2. QED
      BY <3>1, RowFields
  <2>3. ASSUME NEW i \in LiveSeqs(msgs'), i <= q.n PROVE msgs'[i].at <= q.next
    <3>1. i \in 1 .. Len(msgs)
      BY <1>1, <2>1, <2>3 DEF LiveSeqs
    <3>2. i \in LiveSeqs(msgs) /\ msgs'[i].at = msgs[i].at
      BY <3>1 DEF MsgsGrow
    <3>3. QED
      BY <1>1, <2>3, <3>2 DEF MarkSound
  <2>4. part'[q.who].state # "absent"
    BY <1>1, <2>1 DEF MarkSound, RowsGrow
  <2>5. q.who \notin patched' => q.row.read <= part'[q.who].read
    BY <1>1, <2>1, <2>2 DEF MarkSound, RowsGrow
  <2>6. ASSUME q.who \notin patched', AllLive'
        PROVE  /\ q.next <= lastAt'
               /\ \A i \in 1 .. Len(msgs') : i > q.n => msgs'[i].at > q.next
    <3>1. q.who \notin patched /\ AllLive /\ lastAt <= lastAt'
      BY <2>6 DEF RowsGrow, MsgsGrow
    <3>2. q.next <= lastAt /\ \A i \in 1 .. Len(msgs) : i > q.n => msgs[i].at > q.next
      BY <1>1, <3>1 DEF MarkSound
    <3>3. ASSUME NEW i \in 1 .. Len(msgs'), i > q.n PROVE msgs'[i].at > q.next
      <4>1. CASE i <= Len(msgs)
        BY <1>1, <3>2, <3>3, <4>1 DEF MsgsGrow
      <4>2. CASE i > Len(msgs)
        <5>1. msgs'[i].at > lastAt /\ msgs'[i].at \in Nat
          BY <4>2, MessageAt DEF MsgsGrow
        <5>2. QED
          BY <1>1, <2>1, <3>2, <5>1
      <4>3. QED
        BY <1>1, <4>1, <4>2
    <3>4. QED
      BY <1>1, <2>1, <3>1, <3>2, <3>3
  <2>7. QED
    BY <1>1, <2>1, <2>3, <2>4, <2>5, <2>6 DEF MarkSound, MsgsGrow
<1>4. DeleteSound(r)'
  BY <1>1 DEF DeleteSound, MsgsGrow
<1>5. QED
  BY <1>2, <1>3, <1>4

-----------------------------------------------------------------------------
(* What is left to show of a step. *)

WorldTyped ==
  /\ clock \in 0 .. MaxClock
  /\ msgs \in Seq(Message) /\ Len(msgs) <= MaxMsgs
  /\ count \in Nat /\ lastAt \in Times
  /\ part \in [Principals -> Rows]
  /\ due \in [Principals -> SUBSET Seqs]
  /\ limbo \in [Principals -> SUBSET Seqs]
  /\ patched \subseteq Principals

LEMMA TypeParts ==
  /\ TypeOK => WorldTyped
  /\ WorldTyped' /\ req' \in [Requests -> Handlers] => TypeOK'
<1>1. TypeOK => WorldTyped
  BY DEF TypeOK, WorldTyped, Message
<1>2. ASSUME WorldTyped', req' \in [Requests -> Handlers] PROVE TypeOK'
  <2>1. \A r \in Requests : req'[r].op \in {"idle", "post", "delete", "watch", "add", "read", "batch"}
    BY <1>2, HandlerFields
  <2>2. QED
    BY <1>2, <2>1 DEF TypeOK, WorldTyped, Message
<1>3. QED
  BY <1>1, <1>2

\* A step moves the request in one slot, or none.
LEMMA StepKeeps ==
  ASSUME DiscussionInv, WorldTyped', MsgsGrow, RowsGrow,
         DerivedColumns', VisibleOrder', TimesBounded',
         \A p \in Principals : RowSound(p)' /\ BaselineSound(p)' /\ CursorSound(p)',
         \/ req' = req
         \/ \E r \in Requests :
              /\ \E q \in Handlers : req' = [req EXCEPT ![r] = q]
              /\ WatchSound(r)' /\ MarkSound(r)' /\ DeleteSound(r)'
  PROVE  DiscussionInv' /\ RowsGrow
<1>1. req \in [Requests -> Handlers] /\ req' \in [Requests -> Handlers]
  BY DEF DiscussionInv
<1>2. TypeOK'
  BY <1>1, TypeParts
<1>3. msgs' \in Seq(Message) /\ lastAt' \in Nat /\ part' \in [Principals -> Rows]
  BY DiscussionSets DEF WorldTyped
<1>4. ASSUME NEW s \in Requests PROVE WatchSound(s)' /\ MarkSound(s)' /\ DeleteSound(s)'
  <2>1. CASE req'[s] = req[s]
    BY <1>3, <2>1, RequestKeeps
  <2>2. CASE req'[s] # req[s]
    <3>1. PICK r \in Requests :
            /\ \E q \in Handlers : req' = [req EXCEPT ![r] = q]
            /\ WatchSound(r)' /\ MarkSound(r)' /\ DeleteSound(r)'
      BY <2>2
    <3>2. s = r
      BY <1>1, <2>2, <3>1
    <3>3. QED
      BY <3>1, <3>2
  <2>3. QED
    BY <2>1, <2>2
<1>5. QED
  BY <1>1, <1>2, <1>4 DEF DiscussionInv

\* An idle request, and one that posts, has nothing to be sound about.
LEMMA IdleSound ==
  ASSUME req \in [Requests -> Handlers], NEW r \in Requests, NEW q \in Handlers,
         q.op \in {"idle", "post"}, req' = [req EXCEPT ![r] = q]
  PROVE  WatchSound(r)' /\ MarkSound(r)' /\ DeleteSound(r)'
<1>1. req'[r] = q
  OBVIOUS
<1>2. QED
  BY <1>1 DEF WatchSound, MarkSound, DeleteSound

LEMMA IdleHandler == Idle \in Handlers /\ Idle.op = "idle"
  BY DEF Handlers, Idle

\* A step that only reads.
WorldSame == UNCHANGED <<clock, msgs, count, lastAt, part, due, limbo, patched>>

LEMMA ReadKeeps ==
  ASSUME DiscussionInv, WorldSame, NEW r \in Requests, NEW q \in Handlers,
         req' = [req EXCEPT ![r] = q],
         WatchSound(r)' /\ MarkSound(r)' /\ DeleteSound(r)'
  PROVE  DiscussionInv' /\ RowsGrow
<1>1. WorldTyped /\ lastAt \in Nat
  BY TypeParts, DiscussionSets DEF DiscussionInv, WorldTyped
<1>2. WorldTyped'
  BY <1>1 DEF WorldSame, WorldTyped
<1>3. MsgsGrow /\ DerivedColumns' /\ VisibleOrder' /\ TimesBounded' /\ RowsGrow
  BY MsgsSame, RowsSame DEF WorldSame
<1>4. \A p \in Principals : RowSound(p)' /\ BaselineSound(p)' /\ CursorSound(p)'
  BY <1>1, <1>3, PrincipalKeeps DEF WorldSame
<1>5. QED
  BY <1>2, <1>3, <1>4, StepKeeps

-----------------------------------------------------------------------------
(* The steps that read: what a request remembers is sound when it is read. *)

LEMMA PostBeginKeeps ==
  ASSUME DiscussionInv, NEW r \in Requests, NEW a \in Authors,
         NEW ms \in SUBSET (Principals \ {a}), PostBegin(r, a, ms)
  PROVE  DiscussionInv' /\ RowsGrow
<1> DEFINE q == [op |-> "post", author |-> a, mentions |-> ms, t0 |-> clock]
<1>1. clock \in 0 .. MaxClock /\ req \in [Requests -> Handlers]
  BY DEF DiscussionInv, TypeOK
<1>2. q \in Handlers /\ q.op = "post"
  BY <1>1 DEF Handlers
<1>3. req' = [req EXCEPT ![r] = q] /\ WorldSame
  BY DEF PostBegin, Remember, WorldSame
<1> HIDE DEF q
<1>4. QED
  BY <1>1, <1>2, <1>3, IdleSound, ReadKeeps

LEMMA RollbackKeeps ==
  ASSUME DiscussionInv, NEW r \in Requests, Rollback(r)
  PROVE  DiscussionInv' /\ RowsGrow
<1>1. req \in [Requests -> Handlers] /\ req' = [req EXCEPT ![r] = Idle] /\ WorldSame
  BY DEF DiscussionInv, Rollback, Finish, WorldSame
<1>2. QED
  BY <1>1, IdleHandler, IdleSound, ReadKeeps

LEMMA DeleteBeginKeeps ==
  ASSUME DiscussionInv, NEW r \in Requests, NEW i \in Seqs, DeleteBegin(r, i)
  PROVE  DiscussionInv' /\ RowsGrow
<1> DEFINE q == [op |-> "delete", seq |-> i]
<1>1. q \in Handlers /\ q.op = "delete" /\ q.seq = i
  BY DEF Handlers
<1>2. req' = [req EXCEPT ![r] = q] /\ WorldSame /\ i \in 1 .. Len(msgs)
  BY DEF DeleteBegin, Remember, WorldSame, LiveSeqs
<1> HIDE DEF q
<1>3. req'[r] = q /\ Len(msgs') = Len(msgs)
  BY <1>2 DEF DiscussionInv, WorldSame
<1>4. WatchSound(r)' /\ MarkSound(r)' /\ DeleteSound(r)'
  BY <1>1, <1>2, <1>3 DEF WatchSound, MarkSound, DeleteSound
<1>5. QED
  BY <1>1, <1>2, <1>4, ReadKeeps

\* The latest visible time, as a fact about now.
LEMMA LastIsLargest ==
  ASSUME DiscussionInv
  PROVE  /\ lastAt = LatestAt(msgs) /\ lastAt \in Nat /\ lastAt \in Times
         /\ Len(msgs) \in 0 .. MaxMsgs
         /\ \A i \in LiveSeqs(msgs) : msgs[i].at <= lastAt
<1>1. msgs \in Seq(Message) /\ Len(msgs) <= MaxMsgs /\ lastAt = LatestAt(msgs)
  BY DEF DiscussionInv, TypeOK, Message, DerivedColumns
<1>2. QED
  BY <1>1, LatestIsLargest, DiscussionSets

LEMMA WatchBeginKeeps ==
  ASSUME DiscussionInv, NEW r \in Requests, NEW p \in Readers, WatchBegin(r, p)
  PROVE  DiscussionInv' /\ RowsGrow
<1> DEFINE q == [op |-> "watch", who |-> p, prev |-> lastAt, row |-> part[p],
                 since |-> clock, n |-> Len(msgs)]
<1>1. clock \in 0 .. MaxClock /\ part[p] \in Rows
  BY DiscussionSets DEF DiscussionInv, TypeOK
<1>2. q \in Handlers /\ q.op = "watch" /\ q.n = Len(msgs) /\ q.prev = lastAt
  BY <1>1, LastIsLargest DEF Handlers
<1>3. req' = [req EXCEPT ![r] = q] /\ WorldSame
  BY DEF WatchBegin, Remember, WorldSame
<1> HIDE DEF q
<1>4. req'[r] = q /\ msgs' = msgs
  BY <1>3 DEF DiscussionInv, WorldSame
<1>5. WatchSound(r)'
  BY <1>2, <1>4, LastIsLargest DEF WatchSound, LiveSeqs
<1>6. MarkSound(r)' /\ DeleteSound(r)'
  BY <1>2, <1>4 DEF MarkSound, DeleteSound
<1>7. QED
  BY <1>2, <1>3, <1>5, <1>6, ReadKeeps

LEMMA AddBeginKeeps ==
  ASSUME DiscussionInv, NEW r \in Requests, NEW p \in Readers, AddBegin(r, p)
  PROVE  DiscussionInv' /\ RowsGrow
<1> DEFINE q == [op |-> "add", who |-> p, since |-> clock, n |-> Len(msgs)]
<1>1. clock \in 0 .. MaxClock
  BY DEF DiscussionInv, TypeOK
<1>2. q \in Handlers /\ q.op = "add"
  BY <1>1, LastIsLargest DEF Handlers
<1>3. req' = [req EXCEPT ![r] = q] /\ WorldSame
  BY DEF AddBegin, Remember, WorldSame
<1> HIDE DEF q
<1>4. req'[r] = q
  BY <1>3 DEF DiscussionInv
<1>5. WatchSound(r)' /\ MarkSound(r)' /\ DeleteSound(r)'
  BY <1>2, <1>4 DEF WatchSound, MarkSound, DeleteSound
<1>6. QED
  BY <1>2, <1>3, <1>5, ReadKeeps

LEMMA MarkBeginKeeps ==
  ASSUME DiscussionInv, NEW r \in Requests, NEW p \in Readers,
         NEW op \in {"read", "batch"}, MarkBegin(r, p, op)
  PROVE  DiscussionInv' /\ RowsGrow
<1> DEFINE next == NextCursor(part[p], LatestAt(msgs))
           q == [op |-> op, who |-> p, row |-> part[p], next |-> next, n |-> Len(msgs)]
<1>1. p \in Principals /\ part[p] \in Rows /\ part[p].read \in Nat
      /\ part[p].read \in Times /\ part[p].state # "absent"
  BY DiscussionSets, RowFields DEF DiscussionInv, TypeOK, MarkBegin
<1>2. /\ next \in Times /\ next \in Nat /\ part[p].read <= next /\ lastAt <= next
      /\ next \in {part[p].read, lastAt}
  BY <1>1, LastIsLargest, LaterMax DEF NextCursor
<1> HIDE DEF next
<1>3. /\ q \in Handlers /\ q.op = op /\ q.n = Len(msgs) /\ q.next = next /\ q.who = p
      /\ q.row = part[p]
  BY <1>1, <1>2, LastIsLargest DEF Handlers
<1>4. req' = [req EXCEPT ![r] = q] /\ WorldSame
  BY DEF MarkBegin, Remember, WorldSame, next
<1> HIDE DEF q
<1>5. req'[r] = q /\ UNCHANGED <<msgs, part, lastAt, patched>>
  BY <1>4 DEF DiscussionInv, WorldSame
<1>6. MarkSound(r)'
  <2>1. \A i \in LiveSeqs(msgs) : msgs[i].at <= next
    <3>1. ASSUME NEW i \in LiveSeqs(msgs) PROVE msgs[i].at \in Nat
      BY MessageAt DEF DiscussionInv, TypeOK, Message, LiveSeqs
    <3>2. QED
      BY <1>2, <3>1, LastIsLargest
  <2>2. p \notin patched /\ AllLive => next <= lastAt
    BY <1>1, <1>2, LastIsLargest DEF DiscussionInv, CursorSound
  <2>3. AllLive' <=> AllLive
    BY <1>5 DEF AllLive, LiveSeqs
  <2>4. LiveSeqs(msgs') = LiveSeqs(msgs)
    BY <1>5
  <2>5. QED
    BY <1>1, <1>2, <1>3, <1>5, <2>1, <2>2, <2>3, <2>4, LastIsLargest DEF MarkSound
<1>7. WatchSound(r)' /\ DeleteSound(r)'
  BY <1>3, <1>5 DEF WatchSound, DeleteSound
<1>8. QED
  BY <1>3, <1>4, <1>6, <1>7, ReadKeeps

-----------------------------------------------------------------------------
(* Posting. *)

LEMMA AutowatchRow ==
  ASSUME NEW row \in Rows, NEW t \in Times
  PROVE  /\ Autowatch(row, t) \in Rows /\ Autowatch(row, t).state = "in"
         /\ row.state = "in" => Autowatch(row, t) = row
         /\ row.state # "in" => Autowatch(row, t).joined = t
         /\ Autowatch(row, t).read = (IF row.state = "absent" THEN 0 ELSE row.read)
<1>1. row.state \in {"absent", "in", "left"} /\ 0 \in Times
  BY DiscussionSets DEF Rows, Times
<1>2. CASE row.state = "absent"
  BY <1>1, <1>2 DEF Autowatch, Rows
<1>3. CASE row.state = "left"
  BY <1>1, <1>3 DEF Autowatch, Rows
<1>4. CASE row.state = "in"
  BY <1>1, <1>4 DEF Autowatch, Rows
<1>5. QED
  BY <1>1, <1>2, <1>3, <1>4

\* A new message is visible, above everything, and not far ahead of the clock.
LEMMA PostedMessage ==
  ASSUME DiscussionInv, NEW r \in Requests, PostCommit(r), NEW n, NEW at,
         n = Len(msgs) + 1, at = CreatedAt(req[r].t0, lastAt)
  PROVE  /\ n \in 1 .. MaxMsgs /\ at \in Times /\ at \in Nat /\ at > lastAt
         /\ at <= MaxClock + n /\ lastAt' = at
         /\ msgs' \in Seq(Message) /\ Len(msgs') = n /\ msgs'[n].at = at
         /\ \A i \in 1 .. Len(msgs) : msgs'[i] = msgs[i]
         /\ LiveSeqs(msgs') = LiveSeqs(msgs) \cup {n}
         /\ Later(req[r].t0, lastAt) \in Times /\ lastAt <= Later(req[r].t0, lastAt)
<1> DEFINE q == req[r]
           m == [author |-> q.author, at |-> at, live |-> TRUE]
<1>1. /\ q \in Handlers /\ q.op = "post" /\ n <= MaxMsgs /\ msgs' = Append(msgs, m)
      /\ lastAt' = at /\ msgs \in Seq(Message)
  BY DEF DiscussionInv, TypeOK, Message, PostCommit
<1>2. q.author \in Principals /\ q.t0 \in 0 .. MaxClock
  BY <1>1, HandlerFields
<1>3. lastAt \in Nat /\ lastAt <= MaxClock + Len(msgs)
  <2>1. lastAt \in Nat /\ Len(msgs) \in Nat /\ MaxClock \in Nat
    BY LastIsLargest, DiscussionSets
  <2>2. lastAt = 0 \/ \E i \in LiveSeqs(msgs) : lastAt = msgs[i].at
    BY <1>1, LastIsLargest, LatestIsLargest
  <2>3. ASSUME NEW i \in LiveSeqs(msgs), lastAt = msgs[i].at
        PROVE  lastAt <= MaxClock + Len(msgs)
    <3>1. i \in 1 .. Len(msgs)
      BY DEF LiveSeqs
    <3>2. msgs[i].at <= MaxClock + i
      BY <3>1 DEF DiscussionInv, TimesBounded
    <3>3. QED
      BY <2>1, <2>3, <3>1, <3>2
  <2>4. QED
    BY <2>1, <2>2, <2>3
<1>4. n \in 1 .. MaxMsgs
  BY <1>1, LastIsLargest, DiscussionSets
<1>5. at \in Nat /\ at > lastAt /\ at <= MaxClock + n /\ at \in Times
  <2>1. /\ q.t0 \in Nat /\ q.t0 <= MaxClock /\ lastAt \in Nat /\ MaxClock \in Nat
        /\ Len(msgs) \in Nat /\ MaxMsgs \in Nat
    BY <1>2, <1>3, DiscussionSets, LastIsLargest
  <2>2. at = Later(q.t0 + 1, lastAt + 1)
    BY DEF CreatedAt
  <2> HIDE DEF q
  <2>3. at \in Nat /\ at > lastAt /\ at <= MaxClock + n
    BY <1>3, <2>1, <2>2 DEF Later
  <2>4. QED
    BY <1>4, <2>1, <2>3 DEF Times
<1>6. Later(q.t0, lastAt) \in Times /\ lastAt <= Later(q.t0, lastAt)
  BY <1>2, <1>3, LastIsLargest, DiscussionSets DEF Later, Times
<1>7. m \in Message /\ m.at = at /\ m.live
  BY <1>2, <1>5 DEF Message
<1> HIDE DEF m
<1>8. /\ msgs' \in Seq(Message) /\ Len(msgs') = n /\ msgs'[n] = m
      /\ \A i \in 1 .. Len(msgs) : msgs'[i] = msgs[i]
  BY <1>1, <1>7, AppendProperties
<1>9. LiveSeqs(msgs') = LiveSeqs(msgs) \cup {n}
  <2>1. 1 .. n = (1 .. Len(msgs)) \cup {n}
    BY <1>4, LastIsLargest
  <2>2. \A i : i \in LiveSeqs(msgs') <=> i \in LiveSeqs(msgs) \/ i = n
    BY <1>7, <1>8, <2>1, LastIsLargest DEF LiveSeqs
  <2>3. QED
    BY <2>2
<1>10. QED
  BY <1>1, <1>4, <1>5, <1>6, <1>7, <1>8, <1>9

\* The rows a post touches: watchers are in, with a baseline below the message.
LEMMA PostedRow ==
  ASSUME DiscussionInv, NEW r \in Requests, PostCommit(r), NEW p \in Principals
  PROVE  /\ part'[p] \in Rows
         /\ part[p].state = "in" => /\ part'[p] = part[p] /\ limbo'[p] = limbo[p]
                                    /\ due'[p] = due[p] \cup {Len(msgs) + 1}
         /\ part[p].state # "in" => /\ limbo'[p] = {}
                                    /\ \/ part'[p] = part[p] /\ due'[p] = due[p]
                                       \/ /\ part'[p].state = "in"
                                          /\ part'[p].joined = Later(req[r].t0, lastAt)
                                          /\ due'[p] = {Len(msgs) + 1}
         /\ part'[p].state = "absent" => part[p].state = "absent"
         /\ part'[p].read = part[p].read
<1> DEFINE t == Later(req[r].t0, lastAt)
           n == Len(msgs) + 1
           W == req[r].mentions \cup {req[r].author}
<1>1. t \in Times
  BY PostedMessage
<1>2. part[p] \in Rows /\ (part[p].state = "absent" => part[p].read = 0)
  BY DEF DiscussionInv, TypeOK, RowSound
<1>3. /\ part'[p] = IF p \in W THEN Autowatch(part[p], t) ELSE part[p]
      /\ due'[p] = IF part'[p].state # "in" THEN due[p]
                   ELSE (IF part[p].state = "in" THEN due[p] ELSE {}) \cup {n}
      /\ limbo'[p] = IF part[p].state = "in" THEN limbo[p] ELSE {}
  BY DEF PostCommit
<1> HIDE DEF t, n, W
<1>4. CASE p \in W
  <2>1. part'[p] = Autowatch(part[p], t)
    BY <1>3, <1>4
  <2>2. QED
    BY <1>1, <1>2, <1>3, <2>1, AutowatchRow DEF t, n
<1>5. CASE p \notin W
  BY <1>2, <1>3, <1>5 DEF t, n
<1>6. QED
  BY <1>4, <1>5

LEMMA PostedWorld ==
  ASSUME DiscussionInv, NEW r \in Requests, PostCommit(r)
  PROVE  WorldTyped' /\ MsgsGrow /\ RowsGrow /\ DerivedColumns' /\ VisibleOrder' /\ TimesBounded'
<1> DEFINE n == Len(msgs) + 1
           at == CreatedAt(req[r].t0, lastAt)
<1>1. /\ n \in 1 .. MaxMsgs /\ at \in Times /\ at \in Nat /\ at > lastAt
      /\ at <= MaxClock + n /\ lastAt' = at
      /\ msgs' \in Seq(Message) /\ Len(msgs') = n /\ msgs'[n].at = at
      /\ \A i \in 1 .. Len(msgs) : msgs'[i] = msgs[i]
      /\ LiveSeqs(msgs') = LiveSeqs(msgs) \cup {n}
  BY PostedMessage
<1>2. /\ clock' = clock /\ patched' = patched /\ count' = Cardinality(LiveSeqs(msgs'))
      /\ part' = [p \in Principals |-> part'[p]] /\ due' = [p \in Principals |-> due'[p]]
      /\ limbo' = [p \in Principals |-> limbo'[p]]
  BY DEF PostCommit
<1>3. WorldTyped /\ lastAt \in Nat /\ Len(msgs) \in Nat /\ msgs \in Seq(Message)
  BY TypeParts, LastIsLargest DEF DiscussionInv, WorldTyped
<1> HIDE DEF n, at
<1>4. WorldTyped'
  <2>1. \A p \in Principals : part'[p] \in Rows /\ due'[p] \in SUBSET Seqs
                              /\ limbo'[p] \in SUBSET Seqs
    <3> SUFFICES ASSUME NEW p \in Principals
                 PROVE  /\ part'[p] \in Rows /\ due'[p] \in SUBSET Seqs
                        /\ limbo'[p] \in SUBSET Seqs
      OBVIOUS
    <3>1. due[p] \subseteq Seqs /\ limbo[p] \subseteq Seqs /\ n \in Seqs
      BY <1>1, <1>3 DEF WorldTyped, Seqs
    <3>2. QED
      BY <3>1, PostedRow DEF n
  <2>2. count' \in Nat
    BY <1>1, <1>2, LiveFinite
  <2>3. QED
    BY <1>1, <1>2, <1>3, <2>1, <2>2 DEF WorldTyped
<1>5. TimesBounded'
  BY <1>1, <1>3 DEF DiscussionInv, TimesBounded, n
<1>6. \A i \in LiveSeqs(msgs) : i \in 1 .. Len(msgs) /\ msgs[i].at <= lastAt /\ msgs[i].at \in Nat
  BY <1>3, LiveFinite, MessageAt, LastIsLargest
<1>7. VisibleOrder'
  <2> SUFFICES ASSUME NEW i \in LiveSeqs(msgs'), NEW j \in LiveSeqs(msgs'), i < j
               PROVE  msgs'[i].at < msgs'[j].at
    BY DEF VisibleOrder
  <2>1. i # n
    BY <1>1, <1>3, <1>6 DEF n
  <2>2. i \in LiveSeqs(msgs) /\ msgs'[i] = msgs[i]
    BY <1>1, <1>6, <2>1
  <2>3. CASE j = n
    BY <1>1, <1>3, <1>6, <2>2, <2>3
  <2>4. CASE j # n
    BY <1>1, <1>6, <2>2, <2>4 DEF DiscussionInv, VisibleOrder
  <2>5. QED
    BY <2>3, <2>4
<1>8. DerivedColumns'
  <2>1. /\ LatestAt(msgs') \in Nat /\ at <= LatestAt(msgs')
        /\ LatestAt(msgs') = 0 \/ \E i \in LiveSeqs(msgs') : LatestAt(msgs') = msgs'[i].at
    BY <1>1, LatestIsLargest
  <2>2. \A i \in LiveSeqs(msgs') : msgs'[i].at <= at
    BY <1>1, <1>3, <1>6
  <2>3. LatestAt(msgs') = at
    BY <1>1, <2>1, <2>2
  <2>4. QED
    BY <1>1, <1>2, <2>3 DEF DerivedColumns
<1>9. MsgsGrow
  <2>1. AllLive' => AllLive
    <3> SUFFICES ASSUME LiveSeqs(msgs') = 1 .. n PROVE LiveSeqs(msgs) = 1 .. Len(msgs)
      BY <1>1 DEF AllLive
    <3>1. \A i \in 1 .. Len(msgs) : i \in LiveSeqs(msgs') /\ i # n
      BY <1>3 DEF n
    <3>2. QED
      BY <1>1, <1>6, <3>1
  <2>2. \A i \in LiveSeqs(msgs') : i <= Len(msgs) => i \in LiveSeqs(msgs)
    BY <1>1, <1>3 DEF n
  <2>3. \A i \in 1 .. Len(msgs') : i > Len(msgs) => msgs'[i].at > lastAt
    BY <1>1, <1>3 DEF n
  <2>4. QED
    BY <1>1, <1>3, <2>1, <2>2, <2>3 DEF MsgsGrow, n
<1>10. RowsGrow
  <2>1. ASSUME NEW p \in Principals
        PROVE  /\ part[p].state # "absent" => part'[p].state # "absent"
               /\ part[p].read <= part'[p].read
    <3>1. part[p].read \in Nat
      BY <1>3, RowFields DEF WorldTyped
    <3>2. QED
      BY <3>1, PostedRow
  <2>2. QED
    BY <1>2, <2>1 DEF RowsGrow
<1>11. QED
  BY <1>4, <1>5, <1>7, <1>8, <1>9, <1>10

LEMMA PostedPrincipal ==
  ASSUME DiscussionInv, NEW r \in Requests, PostCommit(r), NEW p \in Principals
  PROVE  RowSound(p)' /\ BaselineSound(p)' /\ CursorSound(p)'
<1> DEFINE n == Len(msgs) + 1
           at == CreatedAt(req[r].t0, lastAt)
           t == Later(req[r].t0, lastAt)
<1>1. /\ at \in Nat /\ at > lastAt /\ lastAt' = at /\ msgs'[n].at = at /\ Len(msgs') = n
      /\ \A i \in 1 .. Len(msgs) : msgs'[i] = msgs[i]
      /\ LiveSeqs(msgs') = LiveSeqs(msgs) \cup {n}
      /\ lastAt <= t /\ t \in Nat
  <2>1. /\ at \in Nat /\ at > lastAt /\ lastAt' = at /\ msgs'[n].at = at /\ Len(msgs') = n
        /\ \A i \in 1 .. Len(msgs) : msgs'[i] = msgs[i]
        /\ LiveSeqs(msgs') = LiveSeqs(msgs) \cup {n}
    BY PostedMessage
  <2>2. lastAt <= t /\ t \in Times
    BY PostedMessage
  <2> HIDE DEF n, at, t
  <2>3. t \in Nat
    BY <2>2, DiscussionSets
  <2>4. QED
    BY <2>1, <2>2, <2>3
<1>2. part'[p] \in Rows /\ part[p] \in Rows /\ patched' = patched
  BY PostedRow DEF DiscussionInv, TypeOK, PostCommit
<1>3. /\ part[p].read \in Nat /\ part[p].joined \in Nat
      /\ part'[p].read \in Nat /\ part'[p].joined \in Nat
  BY <1>2, RowFields
<1>4. /\ part[p].state = "in" => /\ part'[p] = part[p] /\ limbo'[p] = limbo[p]
                                 /\ due'[p] = due[p] \cup {n}
      /\ part[p].state # "in" => /\ limbo'[p] = {}
                                 /\ \/ part'[p] = part[p] /\ due'[p] = due[p]
                                    \/ /\ part'[p].state = "in" /\ part'[p].joined = t
                                       /\ due'[p] = {n}
      /\ part'[p].state = "absent" => part[p].state = "absent"
      /\ part'[p].read = part[p].read
  BY PostedRow
<1>5. /\ RowSound(p) /\ BaselineSound(p) /\ CursorSound(p) /\ lastAt \in Nat /\ Len(msgs) \in Nat
      /\ \A i \in LiveSeqs(msgs) : /\ i \in 1 .. Len(msgs) /\ msgs[i].at <= lastAt
                                   /\ msgs[i].at \in Nat
  <2>1. msgs \in Seq(Message)
    BY DEF DiscussionInv, TypeOK, Message
  <2>2. QED
    BY <2>1, LiveFinite, MessageAt, LastIsLargest DEF DiscussionInv
<1>6. AllLive' => AllLive
  BY PostedWorld DEF MsgsGrow
<1> HIDE DEF n, at, t
<1>7. RowSound(p)'
  <2>1. 1 .. Len(msgs) \subseteq 1 .. Len(msgs') /\ n \in 1 .. Len(msgs')
    BY <1>1, <1>5 DEF n
  <2>2. QED
    BY <1>4, <1>5, <2>1 DEF RowSound
<1>8. BaselineSound(p)'
  <2> SUFFICES ASSUME p \notin patched', part'[p].state = "in", NEW i \in LiveSeqs(msgs'),
                      i \notin due'[p], i \notin limbo'[p]
               PROVE  msgs'[i].at <= Baseline(part'[p])
    BY DEF BaselineSound
  <2>1. i # n
    BY <1>4
  <2>2. i \in LiveSeqs(msgs) /\ msgs'[i].at = msgs[i].at
    BY <1>1, <1>5, <2>1
  <2>3. CASE part[p].state = "in"
    BY <1>2, <1>4, <1>5, <2>2, <2>3 DEF BaselineSound
  <2>4. CASE part[p].state # "in"
    <3>1. part'[p].joined = t
      BY <1>4, <2>4
    <3>2. t <= Baseline(part'[p]) /\ Baseline(part'[p]) \in Nat
      BY <1>3, <3>1, LaterMax DEF Baseline
    <3>3. QED
      BY <1>1, <1>5, <2>2, <3>2
  <2>5. QED
    BY <2>3, <2>4
<1>9. CursorSound(p)'
  <2> SUFFICES ASSUME AllLive', p \notin patched'
               PROVE  /\ part'[p].read <= lastAt'
                      /\ part'[p].state = "in" => \A i \in due'[p] : msgs'[i].at > part'[p].read
    BY DEF CursorSound
  <2>1. /\ part[p].read <= lastAt
        /\ part[p].state = "in" => \A i \in due[p] : msgs[i].at > part[p].read
    BY <1>2, <1>5, <1>6 DEF CursorSound
  <2>2. at > part[p].read
    BY <1>1, <1>3, <1>5, <2>1
  <2>3. ASSUME part'[p].state = "in", NEW i \in due'[p] PROVE msgs'[i].at > part[p].read
    <3>1. CASE i = n
      BY <1>1, <2>2, <3>1
    <3>2. CASE i # n
      <4>1. part[p].state = "in" /\ i \in due[p]
        BY <1>4, <2>3, <3>2
      <4>2. QED
        BY <1>1, <1>5, <2>1, <4>1 DEF RowSound
    <3>3. QED
      BY <3>1, <3>2
  <2>4. QED
    BY <1>1, <1>3, <1>4, <2>2, <2>3
<1>10. QED
  BY <1>7, <1>8, <1>9

LEMMA PostCommitKeeps ==
  ASSUME DiscussionInv, NEW r \in Requests, PostCommit(r)
  PROVE  DiscussionInv' /\ RowsGrow
<1>1. req \in [Requests -> Handlers] /\ req' = [req EXCEPT ![r] = Idle]
  BY DEF DiscussionInv, PostCommit, Finish
<1>2. WatchSound(r)' /\ MarkSound(r)' /\ DeleteSound(r)'
  BY <1>1, IdleHandler, IdleSound
<1>3. QED
  BY <1>1, <1>2, IdleHandler, PostedWorld, PostedPrincipal, StepKeeps

-----------------------------------------------------------------------------
(* Deleting. *)

LEMMA DeletedMessage ==
  ASSUME NEW ms \in Seq(Message), NEW k \in 1 .. Len(ms), NEW left \in Seq(Message),
         Len(left) = Len(ms), left[k].at = ms[k].at, ~left[k].live,
         \A i \in 1 .. Len(ms) : i # k => left[i] = ms[i]
  PROVE  /\ \A i \in 1 .. Len(ms) : left[i].at = ms[i].at
         /\ LiveSeqs(left) = LiveSeqs(ms) \ {k}
<1>1. \A i \in 1 .. Len(ms) : left[i].live <=> ms[i].live /\ i # k
  OBVIOUS
<1>2. \A i : i \in LiveSeqs(left) <=> i \in LiveSeqs(ms) /\ i # k
  BY <1>1 DEF LiveSeqs
<1>3. QED
  BY <1>2

LEMMA DeleteCommitKeeps ==
  ASSUME DiscussionInv, NEW r \in Requests, DeleteCommit(r)
  PROVE  DiscussionInv' /\ RowsGrow
<1> DEFINE k == req[r].seq
<1>1. /\ req \in [Requests -> Handlers] /\ req' = [req EXCEPT ![r] = Idle]
      /\ msgs' = [msgs EXCEPT ![k].live = FALSE] /\ k \in 1 .. Len(msgs)
      /\ count' = Cardinality(LiveSeqs(msgs')) /\ lastAt' = LatestAt(msgs')
      /\ UNCHANGED <<clock, part, due, limbo, patched>> /\ msgs \in Seq(Message)
  BY DEF DiscussionInv, DeleteCommit, DeleteSound, Finish, TypeOK, Message
<1> HIDE DEF k
<1>2. /\ msgs' \in Seq(Message) /\ Len(msgs') = Len(msgs)
      /\ \A i \in 1 .. Len(msgs) : msgs'[i].at = msgs[i].at
      /\ LiveSeqs(msgs') = LiveSeqs(msgs) \ {k}
  <2> DEFINE m == [msgs[k] EXCEPT !.live = FALSE]
  <2>1. msgs \in Seq(Message) /\ k \in 1 .. Len(msgs) /\ msgs' = [msgs EXCEPT ![k] = m]
    BY <1>1
  <2>2. msgs[k] \in Message
    BY <2>1, ElementOfSeq
  <2>3. m \in Message /\ m.at = msgs[k].at /\ ~m.live
    BY <2>2 DEF Message
  <2> HIDE DEF m
  <2>4. msgs' \in Seq(Message) /\ Len(msgs') = Len(msgs)
    BY <2>1, <2>3, ExceptSeq
  <2>5. msgs'[k] = m /\ \A i \in 1 .. Len(msgs) : i # k => msgs'[i] = msgs[i]
    <3>1. msgs \in [1 .. Len(msgs) -> Message]
      BY <2>1, LenProperties
    <3>2. QED
      BY <2>1, <3>1
  <2>6. msgs \in Seq(Message) /\ k \in 1 .. Len(msgs)
    BY <2>1
  <2>7. msgs'[k].at = msgs[k].at /\ ~msgs'[k].live
    BY <2>3, <2>5
  <2>8. QED
    BY <2>4, <2>5, <2>6, <2>7, DeletedMessage
<1>3. WorldTyped /\ Len(msgs) \in Nat
  BY TypeParts, LastIsLargest DEF DiscussionInv
<1>4. lastAt' \in Times /\ lastAt' \in Nat /\ count' \in Nat
  BY <1>1, <1>2, LatestIsLargest, LiveFinite
<1>5. WorldTyped'
  BY <1>1, <1>2, <1>3, <1>4 DEF WorldTyped
<1>6. MsgsGrow
  <2>1. ~AllLive'
    BY <1>1, <1>2 DEF AllLive
  <2>2. QED
    BY <1>2, <1>3, <2>1 DEF MsgsGrow
<1>7. RowsGrow
  BY <1>1, RowsSame
<1>8. DerivedColumns'
  BY <1>1 DEF DerivedColumns
<1>9. VisibleOrder'
  BY <1>2 DEF VisibleOrder, DiscussionInv, LiveSeqs
<1>10. TimesBounded'
  BY <1>2 DEF DiscussionInv, TimesBounded
<1>11. \A p \in Principals : RowSound(p)' /\ BaselineSound(p)' /\ CursorSound(p)'
  BY <1>1, <1>2, <1>4, <1>6, PrincipalKeeps
<1>12. WatchSound(r)' /\ MarkSound(r)' /\ DeleteSound(r)'
  BY <1>1, IdleHandler, IdleSound
<1>13. QED
  BY <1>1, <1>5, <1>6, <1>7, <1>8, <1>9, <1>10, <1>11, <1>12, IdleHandler, StepKeeps

-----------------------------------------------------------------------------
(* The participants' steps: one row changes, the messages do not. *)

LEMMA RowStepKeeps ==
  ASSUME DiscussionInv, UNCHANGED <<clock, msgs, count, lastAt>>,
         NEW p \in Principals, NEW row \in Rows, NEW d \in SUBSET (1 .. Len(msgs)),
         NEW l \in SUBSET (1 .. Len(msgs)), patched' \in {patched, patched \cup {p}},
         part' = [part EXCEPT ![p] = row], due' = [due EXCEPT ![p] = d],
         limbo' = [limbo EXCEPT ![p] = l],
         part[p].state # "absent" => row.state # "absent",
         p \notin patched' => part[p].read <= row.read,
         RowSound(p)' /\ BaselineSound(p)' /\ CursorSound(p)',
         \/ req' = req
         \/ \E r \in Requests : req' = [req EXCEPT ![r] = Idle]
  PROVE  DiscussionInv' /\ RowsGrow
<1>1. WorldTyped /\ lastAt \in Nat /\ Len(msgs) \in 0 .. MaxMsgs
  BY TypeParts, LastIsLargest DEF DiscussionInv
<1>2. WorldTyped'
  <2>1. 1 .. Len(msgs) \subseteq Seqs
    BY <1>1, DiscussionSets DEF Seqs
  <2>2. QED
    BY <1>1, <2>1 DEF WorldTyped
<1>3. MsgsGrow /\ DerivedColumns' /\ VisibleOrder' /\ TimesBounded'
  BY MsgsSame
<1>4. ASSUME NEW o \in Principals, o # p
      PROVE  part'[o] = part[o] /\ due'[o] = due[o] /\ limbo'[o] = limbo[o]
  BY <1>1, <1>4 DEF WorldTyped
<1>5. part'[p] = row /\ patched \subseteq patched'
  BY <1>1 DEF WorldTyped
<1>6. RowsGrow
  <2>1. ASSUME NEW o \in Principals
        PROVE  /\ part[o].state # "absent" => part'[o].state # "absent"
               /\ o \notin patched' => part[o].read <= part'[o].read
    <3>1. CASE o = p
      BY <1>5, <3>1
    <3>2. CASE o # p
      <4>1. part[o].read \in Nat
        BY <1>1, RowFields DEF WorldTyped
      <4>2. QED
        BY <1>4, <3>2, <4>1
    <3>3. QED
      BY <3>1, <3>2
  <2>2. QED
    BY <1>5, <2>1 DEF RowsGrow
<1>7. ASSUME NEW o \in Principals PROVE RowSound(o)' /\ BaselineSound(o)' /\ CursorSound(o)'
  <2>1. CASE o = p
    BY <2>1
  <2>2. CASE o # p
    <3>1. part'[o] = part[o] /\ due'[o] = due[o] /\ limbo'[o] = limbo[o]
      BY <1>4, <2>2
    <3>2. lastAt' \in Nat /\ Len(msgs') = Len(msgs)
      BY <1>1
    <3>3. QED
      BY <1>3, <1>5, <3>1, <3>2, PrincipalKeeps
  <2>3. QED
    BY <2>1, <2>2
<1>8. \/ req' = req
      \/ \E r \in Requests : /\ \E q \in Handlers : req' = [req EXCEPT ![r] = q]
                             /\ WatchSound(r)' /\ MarkSound(r)' /\ DeleteSound(r)'
  <2>1. req \in [Requests -> Handlers]
    BY DEF DiscussionInv
  <2>2. ASSUME NEW r \in Requests, req' = [req EXCEPT ![r] = Idle]
        PROVE  /\ \E q \in Handlers : req' = [req EXCEPT ![r] = q]
               /\ WatchSound(r)' /\ MarkSound(r)' /\ DeleteSound(r)'
    BY <2>1, <2>2, IdleHandler, IdleSound
  <2>3. QED
    BY <2>2
<1>9. QED
  BY <1>2, <1>3, <1>6, <1>7, <1>8, StepKeeps

LEMMA RowNow ==
  ASSUME DiscussionInv, NEW p \in Principals
  PROVE  /\ part[p] \in Rows /\ part[p].state \in {"absent", "in", "left"}
         /\ part[p].joined \in Nat /\ part[p].read \in Nat
         /\ due[p] \in SUBSET (1 .. Len(msgs)) /\ limbo[p] \in SUBSET (1 .. Len(msgs))
         /\ RowSound(p) /\ BaselineSound(p) /\ CursorSound(p)
<1>1. part[p] \in Rows
  BY DEF DiscussionInv, TypeOK
<1>2. RowSound(p) /\ BaselineSound(p) /\ CursorSound(p)
  BY DEF DiscussionInv
<1>3. QED
  BY <1>1, <1>2, RowFields DEF RowSound

\* The functions themselves, to change them in one place.
LEMMA RowMaps ==
  ASSUME DiscussionInv
  PROVE  /\ part \in [Principals -> Rows] /\ DOMAIN due = Principals
         /\ DOMAIN limbo = Principals
         /\ \A p \in Principals : /\ due = [due EXCEPT ![p] = due[p]]
                                  /\ limbo = [limbo EXCEPT ![p] = limbo[p]]
  BY DEF DiscussionInv, TypeOK

LEMMA UnwatchKeeps ==
  ASSUME DiscussionInv, NEW p \in Readers, Unwatch(p)
  PROVE  DiscussionInv' /\ RowsGrow
<1> DEFINE row == [part[p] EXCEPT !.state = "left"]
<1>1. p \in Principals
  BY DiscussionSets
<1>2. row \in Rows /\ row.state = "left" /\ row.read = part[p].read
  BY <1>1, RowNow DEF Rows
<1>3. /\ UNCHANGED <<clock, msgs, count, lastAt, req, due, limbo, patched>>
      /\ part' = [part EXCEPT ![p] = row] /\ part[p].read \in Nat
  BY <1>1, RowNow DEF Unwatch
<1> HIDE DEF row
<1>4. part'[p] = row
  BY <1>1, <1>3, RowMaps
<1>5. RowSound(p)' /\ BaselineSound(p)' /\ CursorSound(p)'
  <2>1. RowSound(p)'
    BY <1>1, <1>2, <1>3, <1>4, RowNow DEF RowSound
  <2>2. BaselineSound(p)'
    BY <1>2, <1>4 DEF BaselineSound
  <2>3. AllLive' <=> AllLive
    BY <1>3 DEF AllLive, LiveSeqs
  <2>4. CursorSound(p)'
    BY <1>1, <1>2, <1>3, <1>4, <2>3, RowNow DEF CursorSound
  <2>5. QED
    BY <2>1, <2>2, <2>4
<1>6. due' = [due EXCEPT ![p] = due[p]] /\ limbo' = [limbo EXCEPT ![p] = limbo[p]]
  BY <1>1, <1>3, RowMaps
<1>7. due[p] \in SUBSET (1 .. Len(msgs)) /\ limbo[p] \in SUBSET (1 .. Len(msgs))
      /\ part[p].read <= row.read
  BY <1>1, <1>2, <1>3, RowNow
<1>8. QED
  BY <1>1, <1>2, <1>3, <1>5, <1>6, <1>7, RowStepKeeps

LEMMA PatchCursorKeeps ==
  ASSUME DiscussionInv, NEW p \in Readers, NEW at \in 0 .. clock, PatchCursor(p, at)
  PROVE  DiscussionInv' /\ RowsGrow
<1> DEFINE row == [part[p] EXCEPT !.read = at]
<1>1. p \in Principals /\ at \in Times
  BY DiscussionSets DEF DiscussionInv, TypeOK, Times
<1>2. row \in Rows /\ row.state = part[p].state
  BY <1>1, RowNow DEF Rows
<1>3. /\ UNCHANGED <<clock, msgs, count, lastAt, req, due, limbo>>
      /\ part' = [part EXCEPT ![p] = row] /\ patched' = patched \cup {p}
      /\ part[p].state # "absent"
  BY DEF PatchCursor
<1> HIDE DEF row
<1>4. part'[p] = row
  BY <1>1, <1>3, RowMaps
<1>5. RowSound(p)' /\ BaselineSound(p)' /\ CursorSound(p)'
  <2>1. RowSound(p)'
    BY <1>1, <1>2, <1>3, <1>4, RowNow DEF RowSound
  <2>2. QED
    BY <1>3, <2>1 DEF BaselineSound, CursorSound
<1>6. due' = [due EXCEPT ![p] = due[p]] /\ limbo' = [limbo EXCEPT ![p] = limbo[p]]
  BY <1>1, <1>3, RowMaps
<1>7. due[p] \in SUBSET (1 .. Len(msgs)) /\ limbo[p] \in SUBSET (1 .. Len(msgs))
  BY <1>1, RowNow
<1>8. QED
  BY <1>1, <1>2, <1>3, <1>5, <1>6, <1>7, RowStepKeeps

LEMMA TickKeeps ==
  ASSUME DiscussionInv, Tick \/ UNCHANGED vars
  PROVE  DiscussionInv' /\ RowsGrow
<1>1. /\ UNCHANGED <<msgs, count, lastAt, part, req, due, limbo, patched>>
      /\ clock' \in 0 .. MaxClock
  BY DiscussionSets DEF DiscussionInv, TypeOK, Tick, vars
<1>2. WorldTyped /\ lastAt \in Nat
  BY TypeParts, LastIsLargest DEF DiscussionInv
<1>3. WorldTyped'
  BY <1>1, <1>2 DEF WorldTyped
<1>4. MsgsGrow /\ DerivedColumns' /\ VisibleOrder' /\ TimesBounded' /\ RowsGrow
  BY <1>1, MsgsSame, RowsSame
<1>5. \A p \in Principals : RowSound(p)' /\ BaselineSound(p)' /\ CursorSound(p)'
  BY <1>1, <1>2, <1>4, PrincipalKeeps
<1>6. QED
  BY <1>1, <1>3, <1>4, <1>5, StepKeeps

\* The write of watch: what the row was read with is still there.
LEMMA WatchCommitKeeps ==
  ASSUME DiscussionInv, NEW r \in Requests, WatchCommit(r)
  PROVE  DiscussionInv' /\ RowsGrow
<1> DEFINE q == req[r]
<1>1. q \in Handlers /\ q.op = "watch" /\ part[q.who] = q.row /\ WatchSound(r)
  BY DEF DiscussionInv, WatchCommit
<1>2. PICK p \in Principals :
        /\ p = q.who /\ q.prev \in Times /\ q.since \in 0 .. MaxClock /\ q.n \in 0 .. MaxMsgs
  BY <1>1, HandlerFields
<1>3. PICK now \in q.since .. clock :
        part' = [part EXCEPT ![p] = Autowatch(part[p], Later(now, q.prev))]
  BY <1>2 DEF WatchCommit
<1> DEFINE t == Later(now, q.prev)
           row == Autowatch(part[p], t)
<1>4. t \in Times /\ q.prev <= t /\ t \in Nat /\ q.prev \in Nat
  <2>1. clock \in 0 .. MaxClock /\ q.prev \in Nat
    BY <1>2, DiscussionSets DEF DiscussionInv, TypeOK
  <2>2. now \in 0 .. MaxClock
    BY <1>2, <1>3, <2>1, DiscussionSets
  <2>3. now \in Nat /\ now \in Times
    BY <2>2, DiscussionSets DEF Times
  <2>4. t \in {now, q.prev} /\ q.prev <= t
    BY <2>1, <2>3, LaterMax
  <2>5. QED
    BY <1>2, <2>1, <2>3, <2>4
<1>5. /\ part[p] \in Rows /\ part[p].read \in Nat /\ part[p].joined \in Nat
      /\ RowSound(p) /\ BaselineSound(p) /\ CursorSound(p)
      /\ due[p] \in SUBSET (1 .. Len(msgs)) /\ limbo[p] \in SUBSET (1 .. Len(msgs))
  BY <1>2, RowNow
<1>6. /\ row \in Rows /\ row.state = "in" /\ row.read = part[p].read
      /\ part[p].state = "in" => row = part[p]
      /\ part[p].state # "in" => row.joined = t
  <2>1. part[p].state = "absent" => part[p].read = 0
    BY <1>5 DEF RowSound
  <2>2. QED
    BY <1>4, <1>5, <2>1, AutowatchRow
<1>7. /\ UNCHANGED <<clock, msgs, count, lastAt, patched>>
      /\ req' = [req EXCEPT ![r] = Idle]
      /\ IF part[p].state = "in" THEN UNCHANGED <<due, limbo>>
         ELSE /\ due' = [due EXCEPT ![p] = {}]
              /\ limbo' = [limbo EXCEPT ![p] = q.n + 1 .. Len(msgs)]
  BY <1>1, <1>2 DEF WatchCommit, Finish
<1>8. part' = [part EXCEPT ![p] = row]
  BY <1>3
<1> HIDE DEF row
<1>9. part'[p] = row
  BY <1>2, <1>8, RowMaps
<1>10. row.read \in Nat /\ row.joined \in Nat
  BY <1>6, RowFields
<1>11. lastAt' \in Nat /\ Len(msgs') = Len(msgs) /\ Len(msgs) \in Nat /\ MsgsGrow
       /\ msgs \in Seq(Message)
  BY <1>7, LastIsLargest, MsgsSame DEF DiscussionInv, TypeOK, Message
<1>12. CASE part[p].state = "in"
  <2>1. due' = [due EXCEPT ![p] = due[p]] /\ limbo' = [limbo EXCEPT ![p] = limbo[p]]
    BY <1>2, <1>7, <1>12, RowMaps
  <2>2. /\ part'[p] = part[p] /\ due'[p] = due[p] /\ limbo'[p] = limbo[p]
        /\ patched \subseteq patched'
    BY <1>6, <1>7, <1>9, <1>12
  <2>3. RowSound(p)' /\ BaselineSound(p)' /\ CursorSound(p)'
    BY <1>2, <1>11, <2>2, PrincipalKeeps
  <2>4. patched' \in {patched, patched \cup {p}} /\ row.state # "absent"
        /\ part[p].read <= row.read
    BY <1>5, <1>6, <1>7
  <2>5. QED
    BY <1>2, <1>5, <1>6, <1>7, <1>8, <2>1, <2>3, <2>4, RowStepKeeps
<1>13. CASE part[p].state # "in"
  <2> DEFINE l == q.n + 1 .. Len(msgs)
  <2>1. due' = [due EXCEPT ![p] = {}] /\ limbo' = [limbo EXCEPT ![p] = l]
    BY <1>7, <1>13
  <2>2. due'[p] = {} /\ limbo'[p] = l
    BY <1>2, <2>1, RowMaps
  <2>3. q.n \in Nat
    BY <1>2, DiscussionSets, SMTT(20)
  <2>4. l \subseteq 1 .. Len(msgs) /\ {} \subseteq 1 .. Len(msgs)
    BY <1>11, <2>3
  <2>5. RowSound(p)'
    BY <1>6, <1>9, <1>11, <2>2, <2>4 DEF RowSound
  <2>6. BaselineSound(p)'
    <3> SUFFICES ASSUME NEW i \in LiveSeqs(msgs), i \notin l
                 PROVE  msgs[i].at <= Baseline(row)
      BY <1>7, <1>9, <2>2 DEF BaselineSound
    <3>1. i \in 1 .. Len(msgs) /\ msgs[i].at \in Nat
      BY <1>11, MessageAt DEF LiveSeqs
    <3>2. i <= q.n
      BY <1>11, <2>3, <3>1
    <3>3. msgs[i].at <= q.prev
      BY <1>1, <3>2 DEF WatchSound
    <3>4. t <= Baseline(row) /\ Baseline(row) \in Nat
      BY <1>6, <1>10, <1>13, LaterMax DEF Baseline
    <3>5. QED
      BY <1>4, <3>1, <3>3, <3>4
  <2>7. CursorSound(p)'
    <3>1. AllLive' <=> AllLive
      BY <1>7 DEF AllLive, LiveSeqs
    <3>2. QED
      BY <1>5, <1>6, <1>7, <1>9, <2>2, <3>1 DEF CursorSound
  <2>8. patched' \in {patched, patched \cup {p}} /\ row.state # "absent"
        /\ part[p].read <= row.read
    BY <1>5, <1>6, <1>7
  <2> HIDE DEF l
  <2>9. UNCHANGED <<clock, msgs, count, lastAt>> /\ req' = [req EXCEPT ![r] = Idle]
    BY <1>7
  <2>10. QED
    BY <1>2, <1>6, <1>8, <2>1, <2>4, <2>5, <2>6, <2>7, <2>8, <2>9, RowStepKeeps
<1>14. QED
  BY <1>12, <1>13

\* The insert of POST /participants: what its joinedAt does not cover is in limbo.
LEMMA AddCommitKeeps ==
  ASSUME DiscussionInv, NEW r \in Requests, AddCommit(r)
  PROVE  DiscussionInv' /\ RowsGrow
<1> DEFINE q == req[r]
<1>1. q \in Handlers /\ q.op = "add" /\ part[q.who].state = "absent"
  BY DEF DiscussionInv, AddCommit
<1>2. PICK p \in Principals : p = q.who /\ q.since \in 0 .. MaxClock /\ q.n \in 0 .. MaxMsgs
  BY <1>1, HandlerFields
<1> DEFINE row(now) == [state |-> "in", joined |-> now, read |-> 0]
           l(now)   == {i \in 1 .. Len(msgs) : i > q.n \/ msgs[i].at > now}
<1>3. PICK now \in q.since .. clock :
        part' = [part EXCEPT ![p] = row(now)] /\ limbo' = [limbo EXCEPT ![p] = l(now)]
  BY <1>2 DEF AddCommit
<1>4. /\ UNCHANGED <<clock, msgs, count, lastAt, patched>>
      /\ due' = [due EXCEPT ![p] = {}]
      /\ req' = [req EXCEPT ![r] = Idle]
  BY <1>2 DEF AddCommit, Finish
<1>5. now \in Times /\ 0 \in Times /\ now \in Nat
  <2>1. clock \in 0 .. MaxClock
    BY DEF DiscussionInv, TypeOK
  <2>2. now \in 0 .. MaxClock
    BY <1>2, <1>3, <2>1, DiscussionSets
  <2>3. QED
    BY <2>2, DiscussionSets DEF Times
<1>6. /\ row(now) \in Rows /\ row(now).state = "in"
      /\ row(now).joined = now /\ row(now).read = 0
  BY <1>5 DEF Rows
<1>7. /\ part[p].state = "absent" /\ part[p].read = 0 /\ CursorSound(p)
      /\ lastAt \in Nat /\ msgs \in Seq(Message) /\ Len(msgs) \in Nat /\ q.n \in Nat
  <2>1. q.n \in Nat
    BY <1>2, DiscussionSets, SMTT(20)
  <2>2. QED
    BY <1>1, <1>2, <2>1, RowNow, LastIsLargest DEF RowSound, DiscussionInv, TypeOK, Message
<1>8. part'[p] = row(now) /\ due'[p] = {} /\ limbo'[p] = l(now)
  BY <1>2, <1>3, <1>4, RowMaps
<1>9. l(now) \in SUBSET (1 .. Len(msgs)) /\ {} \in SUBSET (1 .. Len(msgs))
  OBVIOUS
<1> DEFINE new == row(now)
           lim == l(now)
<1>10. BaselineSound(p)'
  <2> SUFFICES ASSUME NEW i \in LiveSeqs(msgs), i \notin lim
               PROVE  msgs[i].at <= Baseline(new)
    BY <1>4, <1>8 DEF BaselineSound
  <2>1. i \in 1 .. Len(msgs) /\ msgs[i].at \in Nat
    BY <1>7, MessageAt DEF LiveSeqs
  <2>2. msgs[i].at <= now
    BY <1>5, <2>1
  <2>3. now <= Baseline(new) /\ Baseline(new) \in Nat
    BY <1>5, <1>6, LaterMax DEF Baseline
  <2>4. QED
    BY <1>5, <2>1, <2>2, <2>3
<1>11. 0 <= lastAt /\ part[p].read <= 0
  BY <1>7
<1> HIDE DEF row, l, new, lim
<1>12. RowSound(p)'
  BY <1>4, <1>6, <1>8, <1>9 DEF RowSound
<1>13. CursorSound(p)'
  BY <1>4, <1>6, <1>8, <1>11 DEF CursorSound
<1>14. patched' \in {patched, patched \cup {p}} /\ new.state # "absent"
       /\ part[p].read <= new.read
  BY <1>4, <1>6, <1>11 DEF new
<1>15. part' = [part EXCEPT ![p] = new] /\ limbo' = [limbo EXCEPT ![p] = lim]
       /\ new \in Rows /\ lim \in SUBSET (1 .. Len(msgs))
  BY <1>3, <1>6, <1>9 DEF new, lim
<1>16. QED
  BY <1>2, <1>4, <1>9, <1>10, <1>12, <1>13, <1>14, <1>15, RowStepKeeps

\* The write of mark-read: the cursor it leaves covers what it has seen, and what
\* came later stays above it.
LEMMA MarkCommitKeeps ==
  ASSUME DiscussionInv, NEW r \in Requests, MarkCommit(r)
  PROVE  DiscussionInv' /\ RowsGrow
<1> DEFINE q == req[r]
           next == q.next
<1>1. q \in Handlers /\ q.op \in {"read", "batch"} /\ MarkSound(r)
  BY DEF DiscussionInv, MarkCommit
<1>2. PICK p \in Principals :
        p = q.who /\ next \in Times /\ q.row \in Rows /\ q.n \in 0 .. MaxMsgs
  BY <1>1, HandlerFields
<1> DEFINE row == IF next = q.row.read THEN part[p] ELSE WriteCursor(part[p], next)
           d == due[p] \ (1 .. q.n)
           l == limbo[p] \ (1 .. q.n)
<1>3. next \in Nat /\ q.row.read \in Nat
  BY <1>2, DiscussionSets, RowFields
<1>4. q.n \in Nat
  BY <1>2, DiscussionSets, SMTT(20)
<1>5. /\ UNCHANGED <<clock, msgs, count, lastAt, patched>>
      /\ part' = [part EXCEPT ![p] = row]
      /\ due' = [due EXCEPT ![p] = d] /\ limbo' = [limbo EXCEPT ![p] = l]
      /\ req' = [req EXCEPT ![r] = Idle]
  BY <1>2 DEF MarkCommit, Finish
<1>6. /\ part[p] \in Rows /\ part[p].read \in Nat /\ part[p].joined \in Nat
      /\ RowSound(p) /\ BaselineSound(p) /\ CursorSound(p)
      /\ due[p] \in SUBSET (1 .. Len(msgs)) /\ limbo[p] \in SUBSET (1 .. Len(msgs))
  BY <1>2, RowNow
<1>7. /\ part[p].state # "absent"
      /\ \A i \in LiveSeqs(msgs) : i <= q.n => msgs[i].at <= next
      /\ p \notin patched => q.row.read <= part[p].read
      /\ p \notin patched /\ AllLive =>
           /\ next <= lastAt
           /\ \A i \in 1 .. Len(msgs) : i > q.n => msgs[i].at > next
  BY <1>1, <1>2 DEF MarkSound
<1>8. /\ row \in Rows /\ row.state = part[p].state /\ row.joined = part[p].joined
      /\ row.read \in {part[p].read, next} /\ part[p].read <= row.read
      /\ p \notin patched => next <= row.read
  BY <1>2, <1>3, <1>6, <1>7 DEF WriteCursor, Rows
<1> HIDE DEF row
<1>9. part'[p] = row /\ due'[p] = d /\ limbo'[p] = l
  BY <1>2, <1>5, RowMaps
<1>10. /\ Len(msgs) \in Nat /\ lastAt \in Nat /\ msgs \in Seq(Message)
       /\ d \in SUBSET (1 .. Len(msgs)) /\ l \in SUBSET (1 .. Len(msgs))
       /\ row.read \in Nat /\ row.joined \in Nat
  BY <1>6, <1>8, LastIsLargest, RowFields DEF DiscussionInv, TypeOK, Message
<1>11. RowSound(p)'
  BY <1>5, <1>7, <1>8, <1>9, <1>10 DEF RowSound
<1>12. BaselineSound(p)'
  <2> SUFFICES ASSUME p \notin patched, part[p].state = "in", NEW i \in LiveSeqs(msgs),
                      i \notin d, i \notin l
               PROVE  msgs[i].at <= Baseline(row)
    BY <1>5, <1>8, <1>9 DEF BaselineSound
  <2>1. i \in 1 .. Len(msgs) /\ msgs[i].at \in Nat
    BY <1>10, MessageAt DEF LiveSeqs
  <2>2. /\ row.read <= Baseline(row) /\ row.joined <= Baseline(row) /\ Baseline(row) \in Nat
    BY <1>10, LaterMax DEF Baseline
  <2>3. CASE i \in 1 .. q.n
    <3>1. msgs[i].at <= next
      BY <1>4, <1>7, <2>3
    <3>2. next <= row.read
      BY <1>8
    <3>3. QED
      BY <1>3, <1>10, <2>1, <2>2, <3>1, <3>2
  <2>4. CASE i \notin 1 .. q.n
    <3>1. msgs[i].at <= Baseline(part[p])
      BY <1>6, <2>4 DEF BaselineSound
    <3>2. Baseline(part[p]) \in {part[p].read, part[p].joined}
      BY <1>6, LaterMax DEF Baseline
    <3>3. QED
      BY <1>6, <1>8, <1>10, <2>1, <2>2, <3>1, <3>2
  <2>5. QED
    BY <2>3, <2>4
<1>13. CursorSound(p)'
  <2> SUFFICES ASSUME AllLive, p \notin patched
               PROVE  /\ row.read <= lastAt
                      /\ part[p].state = "in" => \A i \in d : msgs[i].at > row.read
    BY <1>5, <1>8, <1>9 DEF CursorSound, AllLive, LiveSeqs
  <2>1. part[p].read <= lastAt /\ next <= lastAt
    BY <1>6, <1>7 DEF CursorSound
  <2>2. ASSUME part[p].state = "in", NEW i \in d PROVE msgs[i].at > row.read
    <3>1. msgs[i].at > part[p].read
      BY <1>6, <2>2 DEF CursorSound
    <3>2. i \in 1 .. Len(msgs) /\ i > q.n
      BY <1>4, <1>10, <2>2
    <3>3. msgs[i].at > next
      BY <1>7, <3>2
    <3>4. QED
      BY <1>8, <3>1, <3>3
  <2>3. QED
    BY <1>8, <2>1, <2>2
<1>14. patched' \in {patched, patched \cup {p}} /\ row.state # "absent"
  BY <1>5, <1>7, <1>8
<1> HIDE DEF d, l
<1>15. UNCHANGED <<clock, msgs, count, lastAt>>
  BY <1>5
<1>16. QED
  BY <1>2, <1>5, <1>8, <1>10, <1>11, <1>12, <1>13, <1>14, <1>15, RowStepKeeps

-----------------------------------------------------------------------------
(* The theorems. *)

LEMMA InitSound == Init => DiscussionInv
<1> SUFFICES ASSUME Init PROVE DiscussionInv
  OBVIOUS
<1>1. 0 \in Times /\ 0 \in Nat /\ 1 \in 0 .. MaxClock /\ NoRow \in Rows
      /\ NoRow.state = "absent" /\ NoRow.read = 0
  BY DiscussionSets DEF Times, NoRow, Rows
<1>2. msgs = <<>> /\ msgs \in Seq(Message) /\ Len(msgs) = 0 /\ 1 .. Len(msgs) = {}
  BY DEF Init
<1>3. LiveSeqs(msgs) = {} /\ Cardinality(LiveSeqs(msgs)) = 0 /\ LatestAt(msgs) = 0
  BY <1>2, FS_EmptySet DEF LiveSeqs, LatestAt
<1>4. req \in [Requests -> Handlers] /\ \A r \in Requests : req[r] = Idle
  BY IdleHandler DEF Init
<1>5. TypeOK
  <2>1. \A r \in Requests : req[r].op = "idle"
    BY <1>4, IdleHandler
  <2>2. part \in [Principals -> Rows] /\ patched \subseteq Principals
        /\ due \in [Principals -> SUBSET Seqs] /\ limbo \in [Principals -> SUBSET Seqs]
    BY <1>1 DEF Init
  <2>3. clock \in 0 .. MaxClock /\ count \in Nat /\ lastAt \in Times /\ Len(msgs) <= MaxMsgs
    BY <1>1, <1>2, DiscussionSets DEF Init
  <2>4. QED
    BY <1>2, <2>1, <2>2, <2>3 DEF TypeOK, Message
<1>6. DerivedColumns /\ VisibleOrder /\ TimesBounded
  BY <1>2, <1>3 DEF Init, DerivedColumns, VisibleOrder, TimesBounded
<1>7. ASSUME NEW p \in Principals PROVE RowSound(p) /\ BaselineSound(p) /\ CursorSound(p)
  <2>1. part[p] = NoRow /\ due[p] = {} /\ limbo[p] = {} /\ lastAt = 0
    BY DEF Init
  <2>2. QED
    BY <1>1, <1>3, <2>1 DEF RowSound, BaselineSound, CursorSound
<1>8. ASSUME NEW r \in Requests PROVE WatchSound(r) /\ MarkSound(r) /\ DeleteSound(r)
  BY <1>4, IdleHandler DEF WatchSound, MarkSound, DeleteSound
<1>9. QED
  BY <1>4, <1>5, <1>6, <1>7, <1>8 DEF DiscussionInv

LEMMA NextSound == DiscussionInv /\ [Next]_vars => DiscussionInv' /\ RowsGrow
<1> SUFFICES ASSUME DiscussionInv, [Next]_vars PROVE DiscussionInv' /\ RowsGrow
  OBVIOUS
<1>1. CASE \E r \in Requests, a \in Authors :
             \E ms \in SUBSET (Principals \ {a}) : PostBegin(r, a, ms)
  BY <1>1, PostBeginKeeps
<1>2. CASE \E r \in Requests : PostCommit(r)
  BY <1>2, PostCommitKeeps
<1>3. CASE \E r \in Requests, i \in Seqs : DeleteBegin(r, i)
  BY <1>3, DeleteBeginKeeps
<1>4. CASE \E r \in Requests : DeleteCommit(r)
  BY <1>4, DeleteCommitKeeps
<1>5. CASE \E r \in Requests, p \in Readers : WatchBegin(r, p)
  BY <1>5, WatchBeginKeeps
<1>6. CASE \E r \in Requests : WatchCommit(r)
  BY <1>6, WatchCommitKeeps
<1>7. CASE \E p \in Readers : Unwatch(p)
  BY <1>7, UnwatchKeeps
<1>8. CASE \E r \in Requests, p \in Readers, op \in {"read", "batch"} : MarkBegin(r, p, op)
  BY <1>8, MarkBeginKeeps
<1>9. CASE \E r \in Requests : MarkCommit(r)
  BY <1>9, MarkCommitKeeps
<1>10. CASE \E p \in Readers, at \in 0 .. clock : PatchCursor(p, at)
  BY <1>10, PatchCursorKeeps
<1>11. CASE \E r \in Requests : Rollback(r)
  BY <1>11, RollbackKeeps
<1>12. CASE Tick \/ UNCHANGED vars
  BY <1>12, TickKeeps
<1>13. CASE \E r \in Requests, p \in Readers : AddBegin(r, p)
  BY <1>13, AddBeginKeeps
<1>14. CASE \E r \in Requests : AddCommit(r)
  BY <1>14, AddCommitKeeps
<1>15. QED
  BY <1>1, <1>2, <1>3, <1>4, <1>5, <1>6, <1>7, <1>8, <1>9, <1>10, <1>11, <1>12, <1>13, <1>14
     DEF Next

\* Whatever posts, deletions, joins, read marks and stalled batch updates do
\* to each other, the thread's columns, rows and requests stay sound.
THEOREM DiscussionInvariant == Spec => []DiscussionInv
<1>1. Init => DiscussionInv
  BY InitSound
<1>2. DiscussionInv /\ [Next]_vars => DiscussionInv'
  BY NextSound
<1>3. QED
  BY <1>1, <1>2, PTL DEF Spec

\* Times, counts and rows keep their types, and no time passes the bound a clock
\* and a number of messages give it.
THEOREM DiscussionTyped == Spec => []TypeOK
<1>1. DiscussionInv => TypeOK
  BY DEF DiscussionInv
<1>2. QED
  BY <1>1, DiscussionInvariant, PTL

\* messageCount and lastMessageAt describe the visible messages in every state.
THEOREM ColumnsAreDerived == Spec => []DerivedColumns
<1>1. DiscussionInv => DerivedColumns
  BY DEF DiscussionInv
<1>2. QED
  BY <1>1, DiscussionInvariant, PTL

\* By createdAt or by seq, the visible messages come in the same order, whatever
\* has been deleted and however slow the clock is.
THEOREM OrderIsVisible == Spec => []VisibleOrder
<1>1. DiscussionInv => VisibleOrder
  BY DEF DiscussionInv
<1>2. QED
  BY <1>1, DiscussionInvariant, PTL

\* Nobody gets as unread what was there when it last joined, rejoined or marked
\* the thread read, but for what POST /participants finds dated ahead of the clock.
THEOREM UnreadIsNew == Spec => []OnlyNewIsUnread
<1>1. ASSUME DiscussionInv PROVE OnlyNewIsUnread
  <2> SUFFICES ASSUME NEW p \in Principals \ patched, NEW i \in LiveSeqs(msgs), Unread(i, p),
                      i \notin due[p] \cup limbo[p]
               PROVE  FALSE
    BY DEF OnlyNewIsUnread
  <2>1. /\ BaselineSound(p) /\ part[p].joined \in Nat /\ part[p].read \in Nat
        /\ msgs \in Seq(Message)
    BY <1>1, RowNow DEF DiscussionInv, TypeOK, Message
  <2>2. msgs[i].at \in Nat /\ Baseline(part[p]) \in Nat
    BY <2>1, MessageAt, LaterMax DEF LiveSeqs, Baseline
  <2>3. msgs[i].at > Baseline(part[p]) /\ part[p].state = "in"
    BY DEF Unread
  <2>4. msgs[i].at <= Baseline(part[p])
    BY <2>1, <2>3 DEF BaselineSound
  <2>5. QED
    BY <2>2, <2>3, <2>4
<1>2. QED
  BY <1>1, DiscussionInvariant, PTL

\* While nothing has been deleted, marking read does not swallow a message that
\* was committed after the mark-read had looked.
THEOREM MarkIsExact == Spec => []MarkCoversOnlySeen
<1>1. ASSUME DiscussionInv PROVE MarkCoversOnlySeen
  BY <1>1, RowNow DEF MarkCoversOnlySeen, CursorSound, AllLive
<1>2. QED
  BY <1>1, DiscussionInvariant, PTL

\* A cursor nobody sets by hand never goes back, whatever is written late.
THEOREM CursorsAdvance == Spec => CursorMonotone
<1>1. ASSUME DiscussionInv, [Next]_vars
      PROVE  [\A p \in Principals \ patched' : part'[p].read >= part[p].read]_vars
  <2>1. RowsGrow
    BY <1>1, NextSound
  <2>2. ASSUME NEW p \in Principals \ patched' PROVE part'[p].read >= part[p].read
    BY <2>1 DEF RowsGrow
  <2>3. QED
    BY <2>2
<1>2. QED
  BY <1>1, DiscussionInvariant, PTL DEF Spec, CursorMonotone
=============================================================================
