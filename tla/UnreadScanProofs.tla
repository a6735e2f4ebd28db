--------------------------- MODULE UnreadScanProofs ---------------------------
(***************************************************************************)
(* Theorems about UnreadScan, for any page size and number of messages.    *)
(*                                                                         *)
(* The argument.  While nothing vanishes, a message that was wanted only   *)
(* moves to later places of the list; so one the loop has not seen is      *)
(* beyond the pages it has read (Ahead), and as long as the count is from  *)
(* the list the page is from, that message makes it larger than what the   *)
(* loop holds (Counted): the loop does not end on it.                      *)
(***************************************************************************)
EXTENDS UnreadScan, SequenceTheorems, TLAPS

-----------------------------------------------------------------------------
(* The inductive invariant. *)

ListTyped ==
  /\ posted \in 0 .. MaxMsgs
  /\ unread \in Seq(1 .. posted) /\ Len(unread) <= posted

LoopTyped ==
  /\ page \in 1 .. MaxPage /\ waiting \in SUBSET Queries
  /\ items \in Seq(1 .. MaxMsgs) /\ Len(items) <= PageLimit
  /\ total \in 0 .. MaxMsgs /\ held \in Nat
  /\ seen \subseteq 1 .. MaxMsgs /\ wanted \subseteq 1 .. posted
  /\ done \in BOOLEAN /\ torn \in BOOLEAN /\ shrunk \in BOOLEAN

\* How many places of the list come before page n.
Before(n) == (n - 1) * PageLimit

\* Nothing is collected twice over: what the loop holds fits in the pages it has
\* collected, and it has an answer only while it waits for no list.
HeldBounded ==
  /\ ~done => held <= Before(page)
  /\ "items" \in waiting \/ done => items = <<>>
  /\ done => waiting = {}
  /\ page = MaxPage => items = <<>>

Unseen == wanted \ (seen \cup ToSet(items))

\* A wanted message is in the list, and one the loop has not seen is on a page
\* it has not read.
Ahead ==
  /\ \A m \in wanted : \E k \in 1 .. Len(unread) : unread[k] = m
  /\ \A k \in 1 .. Len(unread) : unread[k] \in Unseen =>
       k > (IF "items" \in waiting THEN Before(page) ELSE Before(page + 1))

\* An answered count is the length of the list until the page is complete, and
\* then it still tells that something is left.
Counted ==
  /\ "count" \notin waiting /\ "items" \in waiting => total = Len(unread)
  /\ waiting = {} /\ ~done /\ Unseen # {} => total > Before(page + 1)
  /\ done => Unseen = {}

ScanInv ==
  /\ ListTyped /\ LoopTyped /\ HeldBounded
  /\ ~torn /\ ~shrunk => Ahead /\ Counted

-----------------------------------------------------------------------------
(* Pages, and what an insertion and a removal do to a list. *)

LEMMA Paging ==
  ASSUME NEW n \in Nat \ {0}
  PROVE  /\ Before(n) \in Nat /\ Before(n + 1) \in Nat
         /\ Before(n + 1) = Before(n) + PageLimit /\ Before(n + 1) = n * PageLimit
<1>1. PICK m \in Nat : n = m + 1
  <2>1. n - 1 \in Nat /\ n = (n - 1) + 1
    OBVIOUS
  <2>2. QED
    BY <2>1
<1>2. PageLimit \in Nat
  BY UnreadScanAssumption DEF UnreadScanAssumption
<1>3. n - 1 = m /\ (n + 1) - 1 = n
  BY <1>1
<1>4. m * PageLimit \in Nat /\ (m + 1) * PageLimit = m * PageLimit + PageLimit
  BY <1>2
<1>5. QED
  BY <1>1, <1>2, <1>3, <1>4 DEF Before

LEMMA PageBounds ==
  /\ PageLimit \in Nat \ {0} /\ MaxMsgs \in Nat /\ MaxPage \in Nat \ {0}
  /\ Before(MaxPage) >= MaxMsgs /\ Before(1) = 0
<1>1. /\ PageLimit \in Nat \ {0} /\ MaxMsgs \in Nat /\ MaxPage \in Nat
      /\ (MaxPage - 1) * PageLimit >= MaxMsgs
  BY UnreadScanAssumption DEF UnreadScanAssumption
<1>2. MaxPage # 0
  <2>1. (0 - 1) * PageLimit = 0 - PageLimit
    BY <1>1
  <2>2. QED
    BY <1>1, <2>1
<1>3. QED
  BY <1>1, <1>2 DEF Before

\* A page has what the list has at its places.
LEMMA PageOfList ==
  ASSUME NEW S, NEW list \in Seq(S), NEW n \in Nat \ {0}
  PROVE  /\ PageOf(list, n) \in Seq(S) /\ Len(PageOf(list, n)) <= PageLimit
         /\ \A k \in 1 .. Len(list) :
              k > Before(n) /\ k <= Before(n + 1) => list[k] \in ToSet(PageOf(list, n))
         /\ Len(list) <= Before(n) => PageOf(list, n) = <<>>
<1> DEFINE a == Before(n)
           b == Before(n + 1)
           last == IF b < Len(list) THEN b ELSE Len(list)
           pg == SubSeq(list, a + 1, last)
<1>1. a \in Nat /\ b = a + PageLimit /\ PageLimit \in Nat /\ Len(list) \in Nat
  <2>1. a \in Nat /\ b = a + PageLimit
    BY Paging
  <2>2. PageLimit \in Nat /\ Len(list) \in Nat
    BY PageBounds
  <2>3. QED
    BY <2>1, <2>2
<1>2. PageOf(list, n) = pg
  <2>1. b = n * PageLimit
    BY Paging
  <2>2. QED
    BY <2>1 DEF PageOf, Slice, Before
<1> HIDE DEF a, b
<1>3. last \in Nat /\ last <= Len(list) /\ last <= a + PageLimit
      /\ \A k \in 1 .. Len(list) : k <= b => k <= last
  BY <1>1
<1> HIDE DEF last
<1>4. \A i \in a + 1 .. last : list[i] \in S
  BY <1>1, <1>3, ElementOfSeq
<1>5. /\ pg \in Seq(S) /\ Len(pg) = IF a + 1 <= last THEN last - (a + 1) + 1 ELSE 0
      /\ \A i \in 1 .. last - (a + 1) + 1 : pg[i] = list[(a + 1) + i - 1]
  <2>1. a + 1 \in Int /\ last \in Int
    BY <1>1, <1>3
  <2>2. QED
    BY <1>4, <2>1, SubSeqProperties
<1>6. ASSUME NEW k \in 1 .. Len(list), k > a, k <= b PROVE list[k] \in ToSet(pg)
  <2>1. k <= last /\ k - a \in 1 .. last - (a + 1) + 1 /\ (a + 1) + (k - a) - 1 = k
    BY <1>1, <1>3, <1>6
  <2>2. pg[k - a] = list[k] /\ k - a \in 1 .. Len(pg)
    BY <1>1, <1>3, <1>5, <2>1
  <2>3. DOMAIN pg = 1 .. Len(pg)
    BY <1>5
  <2> HIDE DEF pg
  <2>4. QED
    BY <2>2, <2>3 DEF ToSet
<1>7. ASSUME Len(list) <= a PROVE pg = <<>>
  <2>1. last < a + 1 /\ a + 1 \in Int /\ last \in Int
    BY <1>1, <1>3, <1>7
  <2>2. QED
    BY <2>1, SubSeqEmpty
<1>8. Len(pg) <= PageLimit
  BY <1>1, <1>3, <1>5
<1> HIDE DEF pg
<1>9. QED
  BY <1>2, <1>5, <1>6, <1>7, <1>8 DEF a, b

LEMMA Members ==
  ASSUME NEW S, NEW s \in Seq(S)
  PROVE  ToSet(s) \subseteq S
<1>1. DOMAIN s = 1 .. Len(s) /\ \A i \in 1 .. Len(s) : s[i] \in S
  BY LenProperties, ElementOfSeq
<1>2. QED
  BY <1>1 DEF ToSet

LEMMA Inserted ==
  ASSUME NEW S, NEW list \in Seq(S), NEW e \in S, NEW i \in 1 .. Len(list) + 1
  PROVE  /\ InsertAt(list, i, e) \in Seq(S) /\ Len(InsertAt(list, i, e)) = Len(list) + 1
         /\ \A k \in 1 .. Len(list) + 1 :
              InsertAt(list, i, e)[k] =
                IF k < i THEN list[k] ELSE IF k = i THEN e ELSE list[k - 1]
<1> DEFINE s == SubSeq(list, 1, i - 1)
           t == SubSeq(list, i, Len(list))
           u == s \o <<e>>
<1>1. Len(list) \in Nat /\ i \in Int /\ i - 1 \in Int
  OBVIOUS
<1>2. \A k \in 1 .. Len(list) : list[k] \in S
  BY ElementOfSeq
<1>3. /\ s \in Seq(S) /\ Len(s) = i - 1 /\ \A k \in 1 .. i - 1 : s[k] = list[k]
  <2>1. \A k \in 1 .. i - 1 : list[k] \in S
    BY <1>1, <1>2
  <2>2. /\ s \in Seq(S) /\ Len(s) = IF 1 <= i - 1 THEN (i - 1) - 1 + 1 ELSE 0
        /\ \A k \in 1 .. (i - 1) - 1 + 1 : s[k] = list[1 + k - 1]
    BY <1>1, <2>1, SubSeqProperties
  <2> HIDE DEF s
  <2>3. QED
    BY <1>1, <2>2
<1>4. /\ t \in Seq(S) /\ Len(t) = Len(list) - i + 1
      /\ \A k \in 1 .. Len(list) - i + 1 : t[k] = list[i + k - 1]
  <2>1. \A k \in i .. Len(list) : list[k] \in S
    BY <1>1, <1>2
  <2>2. /\ t \in Seq(S) /\ Len(t) = IF i <= Len(list) THEN Len(list) - i + 1 ELSE 0
        /\ \A k \in 1 .. Len(list) - i + 1 : t[k] = list[i + k - 1]
    BY <1>1, <2>1, SubSeqProperties
  <2> HIDE DEF t
  <2>3. QED
    BY <1>1, <2>2
<1> HIDE DEF s, t
<1>5. <<e>> \in Seq(S) /\ Len(<<e>>) = 1 /\ <<e>>[1] = e
  OBVIOUS
<1>6. /\ u \in Seq(S) /\ Len(u) = i /\ u[i] = e /\ \A k \in 1 .. i - 1 : u[k] = list[k]
  <2>1. /\ u \in Seq(S) /\ Len(u) = Len(s) + Len(<<e>>)
        /\ \A k \in 1 .. Len(s) + Len(<<e>>) :
             u[k] = IF k <= Len(s) THEN s[k] ELSE <<e>>[k - Len(s)]
    BY <1>3, <1>5, ConcatProperties
  <2> HIDE DEF u
  <2>2. QED
    BY <1>1, <1>3, <1>5, <2>1
<1> HIDE DEF u
<1>7. /\ u \o t \in Seq(S) /\ Len(u \o t) = Len(u) + Len(t)
      /\ \A k \in 1 .. Len(u) + Len(t) :
           (u \o t)[k] = IF k <= Len(u) THEN u[k] ELSE t[k - Len(u)]
  BY <1>4, <1>6, ConcatProperties
<1>8. InsertAt(list, i, e) = u \o t
  BY DEF InsertAt, s, t, u
<1>9. ASSUME NEW k \in 1 .. Len(list) + 1
      PROVE  (u \o t)[k] = IF k < i THEN list[k] ELSE IF k = i THEN e ELSE list[k - 1]
  <2>1. (u \o t)[k] = IF k <= i THEN u[k] ELSE t[k - i]
    BY <1>1, <1>4, <1>6, <1>7
  <2>2. CASE k < i
    BY <1>1, <1>6, <2>1, <2>2
  <2>3. CASE k = i
    BY <1>1, <1>6, <2>1, <2>3
  <2>4. CASE k > i
    <3>1. k - i \in 1 .. Len(list) - i + 1 /\ i + (k - i) - 1 = k - 1
      BY <1>1, <2>4
    <3>2. QED
      BY <1>1, <1>4, <2>1, <2>4, <3>1
  <2>5. k < i \/ k = i \/ k > i
    BY <1>1
  <2>6. QED
    BY <2>2, <2>3, <2>4, <2>5, Zenon
<1>10. Len(u \o t) = Len(list) + 1
  BY <1>1, <1>4, <1>6, <1>7
<1> HIDE DEF u
<1>11. u \o t \in Seq(S)
  BY <1>7
<1>12. QED
  BY <1>8, <1>9, <1>10, <1>11

LEMMA Removed ==
  ASSUME NEW S, NEW list \in Seq(S), NEW i \in 1 .. Len(list)
  PROVE  RemoveAt(list, i) \in Seq(S) /\ Len(RemoveAt(list, i)) = Len(list) - 1
<1> DEFINE s == SubSeq(list, 1, i - 1)
           t == SubSeq(list, i + 1, Len(list))
<1>1. Len(list) \in Nat /\ i \in Int /\ i - 1 \in Int /\ i + 1 \in Int
  OBVIOUS
<1>2. \A k \in 1 .. Len(list) : list[k] \in S
  BY ElementOfSeq
<1>3. s \in Seq(S) /\ Len(s) = i - 1
  <2>1. \A k \in 1 .. i - 1 : list[k] \in S
    BY <1>1, <1>2
  <2>2. s \in Seq(S) /\ Len(s) = IF 1 <= i - 1 THEN (i - 1) - 1 + 1 ELSE 0
    BY <1>1, <2>1, SubSeqProperties
  <2> HIDE DEF s
  <2>3. QED
    BY <1>1, <2>2
<1>4. t \in Seq(S) /\ Len(t) = Len(list) - i
  <2>1. \A k \in i + 1 .. Len(list) : list[k] \in S
    BY <1>1, <1>2
  <2>2. t \in Seq(S) /\ Len(t) = IF i + 1 <= Len(list) THEN Len(list) - (i + 1) + 1 ELSE 0
    BY <1>1, <2>1, SubSeqProperties
  <2> HIDE DEF t
  <2>3. QED
    BY <1>1, <2>2
<1>5. RemoveAt(list, i) = s \o t
  BY DEF RemoveAt
<1> HIDE DEF s, t
<1>6. s \o t \in Seq(S) /\ Len(s \o t) = Len(s) + Len(t)
  BY <1>3, <1>4, ConcatProperties
<1>7. QED
  BY <1>1, <1>3, <1>4, <1>5, <1>6

-----------------------------------------------------------------------------
(* Every step keeps the invariant. *)

\* What there is to know about the state, in the open.
LEMMA ScanFacts ==
  ASSUME ScanInv
  PROVE  /\ unread \in Seq(1 .. posted) /\ Len(unread) \in Nat /\ Len(unread) <= MaxMsgs
         /\ unread \in Seq(1 .. MaxMsgs) /\ posted \in Nat /\ posted <= MaxMsgs
         /\ page \in Nat \ {0} /\ page <= MaxPage /\ MaxPage \in Nat /\ MaxMsgs \in Nat
         /\ Before(page) \in Nat /\ Before(page + 1) \in Nat
         /\ Before(page + 1) = Before(page) + PageLimit
         /\ held \in Nat /\ total \in Nat /\ Len(items) \in Nat /\ Len(items) <= PageLimit
<1>1. /\ posted \in 0 .. MaxMsgs /\ unread \in Seq(1 .. posted) /\ Len(unread) <= posted
      /\ page \in 1 .. MaxPage /\ items \in Seq(1 .. MaxMsgs) /\ Len(items) <= PageLimit
      /\ total \in 0 .. MaxMsgs /\ held \in Nat
  BY DEF ScanInv, ListTyped, LoopTyped
<1>2. MaxMsgs \in Nat /\ MaxPage \in Nat /\ PageLimit \in Nat
  BY PageBounds
<1>3. posted \in Nat /\ posted <= MaxMsgs /\ Len(unread) \in Nat /\ Len(unread) <= MaxMsgs
      /\ page \in Nat \ {0} /\ page <= MaxPage /\ total \in Nat /\ Len(items) \in Nat
  BY <1>1, <1>2
<1>4. unread \in Seq(1 .. MaxMsgs)
  <2>1. 1 .. posted \subseteq 1 .. MaxMsgs
    BY <1>2, <1>3
  <2>2. QED
    BY <1>1, <2>1, SeqMonotonic
<1>5. /\ Before(page) \in Nat /\ Before(page + 1) \in Nat
      /\ Before(page + 1) = Before(page) + PageLimit
  BY <1>3, Paging
<1>6. QED
  BY <1>1, <1>2, <1>3, <1>4, <1>5

LEMMA ListAnswersKeeps == ScanInv /\ ListAnswers => ScanInv'
<1> SUFFICES ASSUME ScanInv, ListAnswers PROVE ScanInv'
  OBVIOUS
<1> DEFINE pg == PageOf(unread, page)
<1>1. /\ "items" \in waiting /\ items' = pg /\ waiting' = waiting \ {"items"}
      /\ UNCHANGED <<unread, posted, page, total, held, seen, done, wanted, torn, shrunk>>
  BY DEF ListAnswers
<1>2. items = <<>> /\ ~done /\ LoopTyped /\ HeldBounded /\ ListTyped
  BY <1>1 DEF ScanInv, HeldBounded
<1>3. /\ pg \in Seq(1 .. MaxMsgs) /\ Len(pg) <= PageLimit
      /\ \A k \in 1 .. Len(unread) :
           k > Before(page) /\ k <= Before(page + 1) => unread[k] \in ToSet(pg)
      /\ Len(unread) <= Before(page) => pg = <<>>
  BY ScanFacts, PageOfList
<1> HIDE DEF pg
<1>4. ListTyped' /\ LoopTyped'
  BY <1>1, <1>2, <1>3 DEF ListTyped, LoopTyped
<1>5. HeldBounded'
  <2>1. page = MaxPage => pg = <<>>
    <3>1. Len(unread) <= MaxMsgs /\ MaxMsgs \in Nat /\ Len(unread) \in Nat
          /\ Before(page) \in Nat
      BY ScanFacts
    <3>2. page = MaxPage => MaxMsgs <= Before(page)
      BY PageBounds
    <3>3. QED
      BY <1>3, <3>1, <3>2
  <2>2. QED
    BY <1>1, <1>2, <2>1 DEF HeldBounded, Before
<1>6. ASSUME ~torn', ~shrunk' PROVE Ahead' /\ Counted'
  <2>1. Ahead /\ Counted
    BY <1>1, <1>6 DEF ScanInv
  <2>2. Unseen' \subseteq Unseen /\ \A m \in Unseen' : m \notin ToSet(pg)
    <3>1. Unseen = wanted \ seen
      BY <1>2 DEF Unseen, ToSet
    <3>2. Unseen' = wanted \ (seen \cup ToSet(pg))
      BY <1>1 DEF Unseen, ToSet
    <3>3. QED
      BY <3>1, <3>2
  <2>3. ASSUME NEW k \in 1 .. Len(unread), unread[k] \in Unseen'
        PROVE  k > Before(page + 1)
    <3>1. k > Before(page)
      BY <1>1, <2>1, <2>2, <2>3 DEF Ahead
    <3>2. unread[k] \notin ToSet(pg)
      BY <2>2, <2>3
    <3>3. QED
      BY <1>3, <3>1, <3>2, ScanFacts
  <2>4. \A m \in wanted : \E k \in 1 .. Len(unread) : unread[k] = m
    BY <2>1 DEF Ahead
  <2>5. Ahead'
    BY <1>1, <2>3, <2>4 DEF Ahead, Before
  <2>6. ASSUME waiting' = {}, NEW m \in Unseen' PROVE total > Before(page + 1)
    <3>1. "count" \notin waiting
      BY <1>1, <2>6
    <3>2. total = Len(unread)
      BY <1>1, <2>1, <3>1 DEF Counted
    <3>3. PICK k \in 1 .. Len(unread) : unread[k] = m
      BY <1>1, <2>4, <2>6 DEF Unseen
    <3>4. QED
      BY <2>3, <2>6, <3>2, <3>3, ScanFacts
  <2>7. Counted'
    <3>1. "items" \notin waiting' /\ ~done'
      BY <1>1, <1>2
    <3>2. waiting' = {} /\ Unseen' # {} => total' > Before(page' + 1)
      BY <1>1, <2>6
    <3>3. QED
      BY <3>1, <3>2 DEF Counted, Before
  <2>8. QED
    BY <2>5, <2>7
<1>7. QED
  BY <1>4, <1>5, <1>6 DEF ScanInv

LEMMA CountAnswersKeeps == ScanInv /\ CountAnswers => ScanInv'
<1> SUFFICES ASSUME ScanInv, CountAnswers PROVE ScanInv'
  OBVIOUS
<1>1. /\ "count" \in waiting /\ total' = Len(unread) /\ waiting' = waiting \ {"count"}
      /\ UNCHANGED <<unread, posted, page, items, held, seen, done, wanted, torn, shrunk>>
  BY DEF CountAnswers
<1>2. ~done /\ LoopTyped /\ HeldBounded /\ ListTyped
  BY <1>1 DEF ScanInv, HeldBounded
<1>3. ListTyped' /\ LoopTyped'
  BY <1>1, <1>2, ScanFacts DEF ListTyped, LoopTyped
<1>4. HeldBounded'
  BY <1>1, <1>2 DEF HeldBounded, Before
<1>5. ASSUME ~torn', ~shrunk' PROVE Ahead' /\ Counted'
  <2>1. Ahead
    BY <1>1, <1>5 DEF ScanInv
  <2>2. Unseen' = Unseen /\ (("items" \in waiting') <=> ("items" \in waiting))
    BY <1>1 DEF Unseen, ToSet
  <2>3. Ahead'
    BY <1>1, <2>1, <2>2 DEF Ahead, Before
  <2>4. ASSUME waiting' = {}, NEW m \in Unseen PROVE total' > Before(page + 1)
    <3>1. "items" \notin waiting
      BY <2>2, <2>4
    <3>2. PICK k \in 1 .. Len(unread) : unread[k] = m
      BY <2>1, <2>4 DEF Unseen, Ahead
    <3>3. k > Before(page + 1)
      BY <2>1, <2>4, <3>1, <3>2 DEF Ahead
    <3>4. QED
      BY <1>1, <3>2, <3>3, ScanFacts
  <2>5. Counted'
    <3>1. "items" \in waiting' => total' = Len(unread')
      BY <1>1
    <3>2. waiting' = {} /\ Unseen' # {} => total' > Before(page' + 1)
      BY <1>1, <2>2, <2>4
    <3>3. QED
      BY <1>1, <1>2, <3>1, <3>2 DEF Counted, Before
  <2>6. QED
    BY <2>3, <2>5
<1>6. QED
  BY <1>3, <1>4, <1>5 DEF ScanInv

LEMMA CollectKeeps == ScanInv /\ Collect => ScanInv'
<1> SUFFICES ASSUME ScanInv, Collect PROVE ScanInv'
  OBVIOUS
<1>1. /\ waiting = {} /\ ~done /\ held' = held + Len(items) /\ seen' = seen \cup ToSet(items)
      /\ items' = <<>> /\ total' = 0
      /\ UNCHANGED <<unread, posted, wanted, torn, shrunk>>
  BY DEF Collect
<1>2. \/ /\ held' >= total /\ done' = TRUE /\ page' = page /\ waiting' = waiting
      \/ /\ ~(held' >= total) /\ page' = (IF page < MaxPage THEN page + 1 ELSE MaxPage)
         /\ waiting' = Queries /\ done' = done
  BY DEF Collect, Enough
<1>3. ListTyped /\ LoopTyped /\ HeldBounded
  BY DEF ScanInv
<1>4. page' \in 1 .. MaxPage
  BY <1>2, ScanFacts
<1>5. ListTyped' /\ LoopTyped'
  <2>1. ToSet(items) \subseteq 1 .. MaxMsgs
    <3>1. items \in Seq(1 .. MaxMsgs)
      BY <1>3 DEF LoopTyped
    <3>2. QED
      BY <3>1, Members
  <2>2. /\ <<>> \in Seq(1 .. MaxMsgs) /\ Len(<<>>) = 0 /\ 0 \in 0 .. MaxMsgs
        /\ 0 <= PageLimit
    BY PageBounds
  <2>3. held' \in Nat
    BY <1>1, ScanFacts
  <2>4. done' \in BOOLEAN /\ waiting' \in SUBSET Queries
    BY <1>1, <1>2, <1>3 DEF LoopTyped
  <2>5. QED
    BY <1>1, <1>3, <1>4, <2>1, <2>2, <2>3, <2>4 DEF ListTyped, LoopTyped
<1>6. held' <= Before(page + 1)
  <2>1. held <= Before(page) /\ held' = held + Len(items)
    BY <1>1, <1>3 DEF HeldBounded
  <2>2. /\ held \in Nat /\ Len(items) \in Nat /\ Len(items) <= PageLimit
        /\ Before(page) \in Nat /\ Before(page + 1) = Before(page) + PageLimit
        /\ PageLimit \in Nat
    BY ScanFacts, PageBounds
  <2>3. QED
    BY <2>1, <2>2
<1>7. ~done' => Before(page' + 1) >= Before(page + 1) /\ Before(page') >= held'
                /\ (page < MaxPage => page' = page + 1)
  <2> SUFFICES ASSUME ~done'
               PROVE  Before(page' + 1) >= Before(page + 1) /\ Before(page') >= held'
                      /\ (page < MaxPage => page' = page + 1)
    OBVIOUS
  <2>1. page' = IF page < MaxPage THEN page + 1 ELSE MaxPage
    BY <1>2
  <2>2. CASE page < MaxPage
    <3>1. page' = page + 1
      BY <2>1, <2>2
    <3>2. page' \in Nat \ {0}
      BY <3>1, ScanFacts
    <3>3. Before(page' + 1) = Before(page') + PageLimit /\ Before(page') \in Nat
          /\ PageLimit \in Nat
      BY <3>2, Paging, PageBounds
    <3>4. Before(page') = Before(page + 1)
      BY <3>1
    <3>5. QED
      BY <1>1, <1>6, <3>1, <3>3, <3>4, ScanFacts
  <2>3. CASE ~(page < MaxPage)
    <3>1. page' = page /\ page = MaxPage
      BY <2>1, <2>3, ScanFacts
    <3>2. items = <<>> /\ held <= Before(page)
      BY <1>1, <1>3, <3>1 DEF HeldBounded
    <3>3. held' = held
      BY <1>1, <3>2, ScanFacts
    <3>4. Before(page' + 1) = Before(page + 1) /\ Before(page') = Before(page)
      BY <3>1
    <3>5. QED
      BY <2>3, <3>2, <3>3, <3>4, ScanFacts
  <2>4. QED
    BY <2>2, <2>3
<1>8. HeldBounded'
  <2>1. ~done' => held' <= Before(page')
    BY <1>1, <1>7, ScanFacts
  <2>2. done' => waiting' = {}
    BY <1>1, <1>2
  <2>3. (Before(page))' = Before(page')
    BY DEF Before
  <2>4. QED
    BY <1>1, <2>1, <2>2, <2>3 DEF HeldBounded
<1>9. ASSUME ~torn', ~shrunk' PROVE Ahead' /\ Counted'
  <2>1. Ahead /\ Counted
    BY <1>1, <1>9 DEF ScanInv
  <2>2. Unseen' = Unseen
    <3>1. ToSet(items') = {}
      BY <1>1 DEF ToSet
    <3>2. QED
      BY <1>1, <3>1 DEF Unseen
  <2>3. done' => Unseen = {}
    <3> SUFFICES ASSUME done', Unseen # {} PROVE FALSE
      OBVIOUS
    <3>1. total > Before(page + 1)
      BY <1>1, <2>1 DEF Counted
    <3>2. held' >= total
      BY <1>1, <1>2
    <3>3. held' \in Nat
      BY <1>1, ScanFacts
    <3>4. QED
      BY <1>6, <3>1, <3>2, <3>3, ScanFacts
  <2>4. \A k \in 1 .. Len(unread) : unread[k] \in Unseen => k > Before(page + 1)
    BY <1>1, <2>1 DEF Ahead
  <2>5. \A m \in wanted : \E k \in 1 .. Len(unread) : unread[k] = m
    BY <2>1 DEF Ahead
  <2>6. ASSUME NEW k \in 1 .. Len(unread), unread[k] \in Unseen
        PROVE  k > (IF "items" \in waiting' THEN Before(page') ELSE Before(page' + 1))
    <3>1. ~done' /\ "items" \in waiting'
      BY <1>2, <2>3, <2>6 DEF Queries
    <3>2. k > Before(page + 1)
      BY <2>4, <2>6
    <3>3. CASE page < MaxPage
      BY <1>7, <3>1, <3>2, <3>3
    <3>4. CASE ~(page < MaxPage)
      <4>1. page' = page
        BY <1>2, <3>1, <3>4, ScanFacts
      <4>2. QED
        BY <3>1, <3>2, <4>1, ScanFacts, PageBounds
    <3>5. QED
      BY <3>3, <3>4
  <2>7. Ahead'
    <3>1. (Before(page))' = Before(page') /\ (Before(page + 1))' = Before(page' + 1)
      BY DEF Before
    <3>2. QED
      BY <1>1, <2>2, <2>5, <2>6, <3>1 DEF Ahead
  <2>8. Counted'
    <3>1. waiting' = {} => done'
      BY <1>2 DEF Queries
    <3>2. "count" \notin waiting' => waiting' = {}
      BY <1>1, <1>2 DEF Queries
    <3>3. QED
      BY <2>2, <2>3, <3>1, <3>2 DEF Counted
  <2>9. QED
    BY <2>7, <2>8
<1>10. QED
  BY <1>5, <1>8, <1>9 DEF ScanInv

\* A message that arrives moves the others to later places only.
LEMMA ArriveKeeps == ScanInv /\ Arrive => ScanInv'
<1> SUFFICES ASSUME ScanInv, Arrive PROVE ScanInv'
  OBVIOUS
<1>1. /\ posted < MaxMsgs /\ ~done /\ posted' = posted + 1
      /\ torn' = (torn \/ waiting \notin {{}, Queries})
      /\ UNCHANGED <<page, waiting, items, total, held, seen, done, wanted, shrunk>>
  BY DEF Arrive, Tear
<1>2. PICK i \in 1 .. Len(unread) + 1 : unread' = InsertAt(unread, i, posted + 1)
  BY DEF Arrive
<1>3. ListTyped /\ LoopTyped /\ HeldBounded
  BY DEF ScanInv
<1>4. /\ unread' \in Seq(1 .. posted + 1) /\ Len(unread') = Len(unread) + 1
      /\ \A k \in 1 .. Len(unread) + 1 :
           unread'[k] = IF k < i THEN unread[k] ELSE IF k = i THEN posted + 1
                        ELSE unread[k - 1]
  <2>1. posted + 1 \in 1 .. posted + 1
    BY ScanFacts
  <2>2. unread \in Seq(1 .. posted + 1)
    <3>1. unread \in Seq(1 .. posted) /\ 1 .. posted \subseteq 1 .. posted + 1
      BY ScanFacts
    <3>2. QED
      BY <3>1, SeqMonotonic
  <2> DEFINE S == 1 .. posted + 1
             e == posted + 1
             grown == InsertAt(unread, i, e)
  <2>3. unread' = grown
    BY <1>2
  <2>4. unread \in Seq(S) /\ e \in S
    BY <2>1, <2>2
  <2> HIDE DEF S, e
  <2>5. /\ grown \in Seq(S) /\ Len(grown) = Len(unread) + 1
        /\ \A k \in 1 .. Len(unread) + 1 :
             grown[k] = IF k < i THEN unread[k] ELSE IF k = i THEN e ELSE unread[k - 1]
    BY <2>4, Inserted
  <2> HIDE DEF grown
  <2>6. QED
    BY <2>3, <2>5 DEF S, e
<1>5. Len(unread) \in Nat /\ i \in Nat /\ Before(page) \in Nat /\ Before(page + 1) \in Nat
  BY ScanFacts
<1>6. ListTyped' /\ LoopTyped'
  BY <1>1, <1>3, <1>4, ScanFacts DEF ListTyped, LoopTyped
<1>7. HeldBounded'
  BY <1>1, <1>3 DEF HeldBounded, Before
<1>8. ASSUME ~torn', ~shrunk' PROVE Ahead' /\ Counted'
  <2>1. Ahead /\ Counted /\ waiting \in {{}, Queries}
    BY <1>1, <1>8 DEF ScanInv
  <2>2. Unseen' = Unseen
    BY <1>1 DEF Unseen, ToSet
  <2>3. ASSUME NEW m \in wanted PROVE \E k \in 1 .. Len(unread') : unread'[k] = m
    <3>1. PICK k \in 1 .. Len(unread) : unread[k] = m
      BY <2>1, <2>3 DEF Ahead
    <3>2. CASE k < i
      BY <1>4, <1>5, <3>1, <3>2
    <3>3. CASE ~(k < i)
      <4>1. k + 1 \in 1 .. Len(unread) + 1 /\ ~(k + 1 < i) /\ k + 1 # i /\ (k + 1) - 1 = k
        BY <1>5, <3>3
      <4>2. QED
        BY <1>4, <3>1, <4>1
    <3>4. QED
      BY <3>2, <3>3
  <2>4. ASSUME NEW k \in 1 .. Len(unread'), unread'[k] \in Unseen
        PROVE  \E j \in 1 .. Len(unread) : j <= k /\ unread[j] = unread'[k]
    <3>1. unread'[k] # posted + 1
      <4>1. unread'[k] \in 1 .. posted
        BY <1>3, <2>4 DEF Unseen, LoopTyped
      <4>2. QED
        BY <4>1, ScanFacts
    <3>2. k \in 1 .. Len(unread) + 1 /\ k # i
      BY <1>4, <3>1
    <3>3. CASE k < i
      BY <1>4, <1>5, <3>2, <3>3
    <3>4. CASE ~(k < i)
      <4>1. k - 1 \in 1 .. Len(unread) /\ k - 1 <= k
        BY <1>5, <3>2, <3>4
      <4>2. QED
        BY <1>4, <3>2, <3>4, <4>1
    <3>5. QED
      BY <3>3, <3>4
  <2>5. ASSUME NEW k \in 1 .. Len(unread'), unread'[k] \in Unseen
        PROVE  k > (IF "items" \in waiting THEN Before(page) ELSE Before(page + 1))
    <3>1. PICK j \in 1 .. Len(unread) : j <= k /\ unread[j] = unread'[k]
      BY <2>4, <2>5
    <3>2. j > (IF "items" \in waiting THEN Before(page) ELSE Before(page + 1))
      BY <2>1, <2>5, <3>1 DEF Ahead
    <3>3. QED
      BY <1>4, <1>5, <3>1, <3>2
  <2>6. Ahead'
    BY <1>1, <2>2, <2>3, <2>5 DEF Ahead, Before
  <2>7. Counted'
    <3>1. "count" \notin waiting => waiting = {}
      BY <2>1 DEF Queries
    <3>2. QED
      BY <1>1, <2>1, <2>2, <3>1 DEF Counted, Before
  <2>8. QED
    BY <2>6, <2>7
<1>9. QED
  BY <1>6, <1>7, <1>8 DEF ScanInv

LEMMA VanishKeeps == ScanInv /\ Vanish => ScanInv'
<1> SUFFICES ASSUME ScanInv, Vanish PROVE ScanInv'
  OBVIOUS
<1>1. /\ shrunk' = TRUE /\ torn' = (torn \/ waiting \notin {{}, Queries})
      /\ UNCHANGED <<posted, page, waiting, items, total, held, seen, done, wanted>>
  BY DEF Vanish, Tear
<1>2. PICK i \in 1 .. Len(unread) : unread' = RemoveAt(unread, i)
  BY DEF Vanish
<1>3. ListTyped /\ LoopTyped /\ HeldBounded
  BY DEF ScanInv
<1>4. unread' \in Seq(1 .. posted) /\ Len(unread') = Len(unread) - 1
  BY <1>2, <1>3, Removed DEF ListTyped
<1>5. ListTyped'
  BY <1>1, <1>3, <1>4, ScanFacts DEF ListTyped
<1>6. LoopTyped'
  BY <1>1, <1>3 DEF LoopTyped
<1>7. HeldBounded'
  BY <1>1, <1>3 DEF HeldBounded, Before
<1>8. QED
  BY <1>1, <1>5, <1>6, <1>7 DEF ScanInv

-----------------------------------------------------------------------------
(* The theorems. *)

LEMMA InitScan == Init => ScanInv
<1> SUFFICES ASSUME Init PROVE ScanInv
  OBVIOUS
<1>1. /\ posted \in 0 .. MaxMsgs /\ unread = [i \in 1 .. posted |-> posted + 1 - i]
      /\ page = 1 /\ waiting = Queries /\ items = <<>> /\ total = 0 /\ held = 0
      /\ seen = {} /\ done = FALSE /\ wanted = 1 .. posted /\ torn = FALSE /\ shrunk = FALSE
  BY DEF Init
<1>2. MaxMsgs \in Nat /\ PageLimit \in Nat \ {0} /\ MaxPage \in Nat \ {0} /\ Before(1) = 0
  BY PageBounds
<1>3. posted \in Nat /\ posted <= MaxMsgs
  BY <1>1, <1>2
<1>4. unread \in Seq(1 .. posted) /\ Len(unread) = posted
  <2>1. unread \in [1 .. posted -> 1 .. posted]
    <3>1. \A i \in 1 .. posted : posted + 1 - i \in 1 .. posted
      BY <1>3
    <3>2. QED
      BY <1>1, <3>1, Zenon
  <2>2. unread \in Seq(1 .. posted)
    BY <1>3, <2>1, SeqDef
  <2>3. QED
    BY <1>3, <2>1, <2>2
<1>5. ListTyped
  BY <1>1, <1>3, <1>4 DEF ListTyped
<1>6. LoopTyped
  <2>1. items \in Seq(1 .. MaxMsgs) /\ Len(items) = 0
    BY <1>1
  <2>2. page \in 1 .. MaxPage /\ total \in 0 .. MaxMsgs /\ held \in Nat /\ 0 <= PageLimit
    BY <1>1, <1>2
  <2>3. /\ waiting \in SUBSET Queries /\ seen \subseteq 1 .. MaxMsgs
        /\ wanted \subseteq 1 .. posted
        /\ done \in BOOLEAN /\ torn \in BOOLEAN /\ shrunk \in BOOLEAN
    BY <1>1
  <2>4. QED
    BY <2>1, <2>2, <2>3 DEF LoopTyped
<1>7. HeldBounded
  BY <1>1, <1>2 DEF HeldBounded
<1>8. Ahead
  <2>1. ASSUME NEW m \in wanted PROVE \E k \in 1 .. Len(unread) : unread[k] = m
    <3>1. m \in 1 .. posted /\ posted + 1 - m \in 1 .. posted
      BY <1>1, <1>3, <2>1
    <3>2. unread[posted + 1 - m] = m
      BY <1>1, <1>3, <3>1
    <3>3. QED
      BY <1>4, <3>1, <3>2
  <2>2. \A k \in 1 .. Len(unread) : k > Before(page)
    BY <1>1, <1>2, <1>4
  <2>3. "items" \in waiting
    BY <1>1 DEF Queries
  <2>4. QED
    BY <2>1, <2>2, <2>3 DEF Ahead
<1>9. Counted
  BY <1>1 DEF Counted, Queries
<1>10. QED
  BY <1>5, <1>6, <1>7, <1>8, <1>9 DEF ScanInv

LEMMA StutterScan == ScanInv /\ UNCHANGED vars => ScanInv'
<1> SUFFICES ASSUME ScanInv, UNCHANGED vars PROVE ScanInv'
  OBVIOUS
<1>1. UNCHANGED <<unread, posted, page, waiting, items, total, held, seen, done, wanted,
                  torn, shrunk>>
  BY DEF vars
<1>2. Unseen' = Unseen
  BY <1>1 DEF Unseen, ToSet
<1>3. Ahead => Ahead'
  BY <1>1, <1>2 DEF Ahead, Before
<1>4. Counted => Counted'
  BY <1>1, <1>2 DEF Counted, Before
<1>5. ListTyped' /\ LoopTyped' /\ HeldBounded'
  BY <1>1 DEF ScanInv, ListTyped, LoopTyped, HeldBounded, Before
<1>6. QED
  BY <1>1, <1>3, <1>4, <1>5 DEF ScanInv

\* Wherever a message arrives between two answers or two pages, what the loop has
\* not seen is ahead of it, and its count says so.
THEOREM ScanInvariant == Spec => []ScanInv
<1>1. Init => ScanInv
  BY InitScan
<1>2. ScanInv /\ [Next]_vars => ScanInv'
  BY ListAnswersKeeps, CountAnswersKeeps, CollectKeeps, ArriveKeeps, VanishKeeps, StutterScan
     DEF Next, Scan
<1>3. QED
  BY <1>1, <1>2, PTL DEF Spec

\* The scan's counters and answers keep their types; no page is larger than
\* ADMIN_PAGE_LIMIT, and the list never outgrows the messages there have been.
THEOREM ScanTyped == Spec => []TypeOK
<1>1. ASSUME ScanInv PROVE TypeOK
  <2>1. /\ ListTyped /\ LoopTyped /\ unread \in Seq(1 .. MaxMsgs) /\ posted <= MaxMsgs
        /\ posted \in Nat /\ MaxMsgs \in Nat
    BY <1>1, ScanFacts DEF ScanInv
  <2>2. 1 .. posted \subseteq 1 .. MaxMsgs
    BY <2>1
  <2>3. QED
    BY <2>1, <2>2 DEF TypeOK, ListTyped, LoopTyped
<1>2. QED
  BY <1>1, ScanInvariant, PTL

\* The loop that ends has every message that was unread when it began, for any
\* page size, unless messages vanished meanwhile or a page's two answers disagree.
THEOREM ScanIsComplete == Spec => []NoneMissed
<1>1. ASSUME ScanInv PROVE NoneMissed
  <2> SUFFICES ASSUME done, ~torn, ~shrunk PROVE wanted \subseteq seen
    BY DEF NoneMissed
  <2>1. Unseen = {} /\ items = <<>>
    BY <1>1 DEF ScanInv, Counted, HeldBounded
  <2>2. ToSet(items) = {}
    BY <2>1 DEF ToSet
  <2>3. QED
    BY <2>1, <2>2 DEF Unseen
<1>2. QED
  BY <1>1, ScanInvariant, PTL
=============================================================================
