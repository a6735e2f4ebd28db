----------------------------- MODULE UnreadScan ------------------------------
(***************************************************************************)
(* The moderators' view of unread messages: for one agent,                 *)
(* findAllUnreadNotifications calls findMyNotifications page after page    *)
(* and stops when it holds as many messages as the last page's total       *)
(* (lib/data-access/notifications.ts).                                     *)
(*                                                                         *)
(* Each page runs two queries at once, the list and the count, outside any *)
(* transaction; they answer in either order, and messages are posted, read *)
(* and deleted around them.  The list is what the agent has unread at that *)
(* moment, latest first; which messages those are is Discussion's subject. *)
(* The agent takes part in at most NOTIFICATION_CHUNK_SIZE threads, so one *)
(* pair of queries covers them.                                            *)
(*                                                                         *)
(* wanted, torn and shrunk are history variables.                          *)
(***************************************************************************)
EXTENDS Naturals, Sequences, SequencesExt

CONSTANTS
  PageLimit,  \* ADMIN_PAGE_LIMIT
  MaxMsgs,    \* bound on the number of messages
  MaxPage     \* bound on the page counter: every page from it on is empty

ASSUME UnreadScanAssumption ==
  /\ PageLimit \in Nat \ {0} /\ MaxMsgs \in Nat /\ MaxPage \in Nat
  /\ (MaxPage - 1) * PageLimit >= MaxMsgs

VARIABLES
  unread,   \* the agent's unread messages, latest first
  posted,   \* how many messages there have been
  page,     \* the page being fetched
  waiting,  \* the queries of this page that have not answered
  items,    \* the answer of its list query
  total,    \* the answer of its count query
  held,     \* how many items the loop has collected, repetitions counted
  seen,     \* which messages those are
  done,     \* the loop has ended
  wanted,   \* the messages unread when the loop began
  torn,     \* the list changed between the two answers of one page
  shrunk    \* a message has been read or deleted since the loop began

vars == <<unread, posted, page, waiting, items, total, held, seen, done,
          wanted, torn, shrunk>>

Queries == {"items", "count"}

\* slice: the places from first to last that the list has.
Slice(list, first, last) ==
  SubSeq(list, first, IF last < Len(list) THEN last ELSE Len(list))

\* all.slice(skip, skip + limit)
PageOf(list, n) == Slice(list, (n - 1) * PageLimit + 1, n * PageLimit)

-----------------------------------------------------------------------------

ListAnswers ==
  /\ "items" \in waiting
  /\ items' = PageOf(unread, page)
  /\ waiting' = waiting \ {"items"}
  /\ UNCHANGED <<unread, posted, page, total, held, seen, done, wanted, torn, shrunk>>

CountAnswers ==
  /\ "count" \in waiting
  /\ total' = Len(unread)
  /\ waiting' = waiting \ {"count"}
  /\ UNCHANGED <<unread, posted, page, items, held, seen, done, wanted, torn, shrunk>>

\* Mutants: the loop wants more than there is; a full page is enough.
EnoughBeyond(n) == n > total
EnoughOnePage(n) == n >= total \/ n >= PageLimit

\* all.length >= res.total
Enough(n) == n >= total

\* The page is collected; the loop ends, or asks for the next one.
Collect ==
  /\ waiting = {} /\ ~done
  /\ held' = held + Len(items)
  /\ seen' = seen \cup ToSet(items)
  /\ IF Enough(held')
     THEN done' = TRUE /\ UNCHANGED <<page, waiting>>
     ELSE /\ page' = IF page < MaxPage THEN page + 1 ELSE MaxPage
          /\ waiting' = Queries
          /\ done' = done
  /\ items' = <<>> /\ total' = 0
  /\ UNCHANGED <<unread, posted, wanted, torn, shrunk>>

Tear == torn' = (torn \/ waiting \notin {{}, Queries})

\* A message becomes unread, wherever its createdAt places it.
Arrive ==
  /\ posted < MaxMsgs /\ ~done
  /\ posted' = posted + 1
  /\ \E i \in 1 .. Len(unread) + 1 : unread' = InsertAt(unread, i, posted + 1)
  /\ Tear
  /\ UNCHANGED <<page, waiting, items, total, held, seen, done, wanted, shrunk>>

\* One stops being unread: marked read, deleted, or its thread left or hidden.
Vanish ==
  /\ ~done
  /\ \E i \in 1 .. Len(unread) : unread' = RemoveAt(unread, i)
  /\ shrunk' = TRUE
  /\ Tear
  /\ UNCHANGED <<posted, page, waiting, items, total, held, seen, done, wanted>>

Init ==
  /\ posted \in 0 .. MaxMsgs
  /\ unread = [i \in 1 .. posted |-> posted + 1 - i]
  /\ page = 1 /\ waiting = Queries
  /\ items = <<>> /\ total = 0 /\ held = 0 /\ seen = {} /\ done = FALSE
  /\ wanted = 1 .. posted
  /\ torn = FALSE /\ shrunk = FALSE

Scan == ListAnswers \/ CountAnswers \/ Collect

Next == Scan \/ Arrive \/ Vanish

\* Queries answer and the loop goes on; nobody has to post or to read.
Spec == Init /\ [][Next]_vars /\ WF_vars(Scan)

-----------------------------------------------------------------------------
(* Properties. *)

TypeOK ==
  /\ posted \in 0 .. MaxMsgs
  /\ unread \in Seq(1 .. MaxMsgs) /\ Len(unread) <= posted
  /\ page \in 1 .. MaxPage /\ waiting \subseteq Queries
  /\ items \in Seq(1 .. MaxMsgs) /\ Len(items) <= PageLimit
  /\ total \in 0 .. MaxMsgs /\ held \in Nat
  /\ seen \subseteq 1 .. MaxMsgs /\ wanted \subseteq 1 .. MaxMsgs
  /\ {done, torn, shrunk} \subseteq BOOLEAN

\* Nothing is cut off: every message unread when the loop began is in its
\* result, whatever arrives between its pages, unless messages vanished
\* meanwhile or the list changed between the two queries of a page.
NoneMissed == done /\ ~torn /\ ~shrunk => wanted \subseteq seen

\* The loop ends, whatever arrives or vanishes between its pages, unless the
\* list changes between the two queries of a page.
EndsUnlessTorn == <>(done \/ torn)

\* The loop ends ("the queries per agent are ceil(unread/100) + 1", the comment
\* above AdminUnreadThread), although only finitely many messages ever arrive.
ScanEnds == <>done

=============================================================================
