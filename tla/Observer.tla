------------------------------- MODULE Observer --------------------------------
(***************************************************************************)
(* The observer page (public/observer/observer.js): a browser page that    *)
(* shows one thread of the forum and polls its messages.  The page is      *)
(* single-threaded: what runs up to an await, or after one, is a step;     *)
(* between the two anything may happen, and calls may be answered in any   *)
(* order.  The server (observer/observer-api.ts) reads the thread's        *)
(* messages at some moment of the call.                                    *)
(*                                                                         *)
(* A slot holds one call of the page.  A list is told apart by its thread  *)
(* and messages, as by the JSON the page compares.  The list of threads,   *)
(* the search box, the transcript, scrolling and the new-messages banner   *)
(* are left out: nothing here reads them.                                  *)
(***************************************************************************)
EXTENDS Naturals

CONSTANTS
  Threads,
  Nobody,      \* no thread
  Slots,       \* calls at a time
  MaxMsgs,     \* of every thread, a bound on the messages ever posted in it
  MaxFails     \* bound on the calls that fail

ASSUME ObserverAssumption ==
  /\ Nobody \notin Threads
  /\ MaxMsgs \in [Threads -> Nat] /\ MaxFails \in Nat

VARIABLES
  posted,     \* of every thread, how many messages were ever posted
  live,       \* and which of them are not deleted
  selected,   \* selectedThreadId
  header,     \* the thread in the header, Nobody when loading one failed
  polled,     \* the thread of messagePollTimer
  prev,       \* prevMessagesJson, Blank when it is empty
  timeline,   \* what messageTimeline shows
  tab,        \* currentTab
  ready,      \* activeTabInitialized.messages
  visible,    \* isPageVisible
  call,       \* the calls under way
  fails       \* how many failed

server == <<posted, live>>
view   == <<header, polled, prev, timeline>>
vars   == <<server, selected, view, tab, ready, visible, call, fails>>

Blank  == [thread |-> Nobody, msgs |-> {}]
Notice == [thread |-> Nobody, msgs |-> {0}]   \* "No messages yet", "Failed to load"

Free == [kind |-> "free", thread |-> Nobody, read |-> FALSE, msgs |-> {}]
Asks(kind, t) == [Free EXCEPT !.kind = kind, !.thread = t]
Sends(c, kind, t) == call[c] = Free /\ call' = [call EXCEPT ![c] = Asks(kind, t)]
Answered(c, kind) == call[c].kind = kind /\ call[c].read

-----------------------------------------------------------------------------
(* The page. *)

\* A click on another thread: selectThread, up to the await.
Select(c, t) ==
  /\ t # selected /\ selected' = t
  /\ ready' = FALSE
  /\ Sends(c, "detail", t)
  /\ UNCHANGED <<server, view, tab, visible, fails>>

\* loadMessagesForTab, in the slot of the call that was just answered.
LoadsMessages(c, t) ==
  call' = [call EXCEPT ![c] = IF tab = "messages" THEN Asks("list", t) ELSE Free]

\* Mutant: the interval of the thread before is not cleared.
ShowsStillPolling(c) ==
  /\ Answered(c, "detail")
  /\ header' = call[c].thread /\ prev' = Blank
  /\ polled' = IF polled = Nobody THEN call[c].thread ELSE polled
  /\ LoadsMessages(c, call[c].thread)
  /\ UNCHANGED <<server, selected, timeline, tab, ready, visible, fails>>

\* Mutant: prevMessagesJson is not reset.
ShowsRemembering(c) ==
  /\ Answered(c, "detail")
  /\ header' = call[c].thread /\ polled' = call[c].thread
  /\ LoadsMessages(c, call[c].thread)
  /\ UNCHANGED <<server, selected, prev, timeline, tab, ready, visible, fails>>

\* A detail arrives, for whatever thread was asked: renderDetail and
\* startMessagePolling.
Shows(c) ==
  /\ Answered(c, "detail")
  /\ header' = call[c].thread /\ polled' = call[c].thread
  /\ prev' = Blank
  /\ LoadsMessages(c, call[c].thread)
  /\ UNCHANGED <<server, selected, timeline, tab, ready, visible, fails>>

\* Mutant: like the transcript, the messages are loaded once.
PollUntilReady(c) ==
  /\ visible /\ tab = "messages" /\ polled # Nobody /\ ~ready
  /\ Sends(c, "list", polled)
  /\ UNCHANGED <<server, selected, view, tab, ready, visible, fails>>

\* The interval: on a visible page and the messages tab.
Poll(c) ==
  /\ visible /\ tab = "messages" /\ polled # Nobody
  /\ Sends(c, "list", polled)
  /\ UNCHANGED <<server, selected, view, tab, ready, visible, fails>>

\* renderMessages: an empty list replaces nothing that was shown, and a list
\* like the last is not drawn again.
Render(got) ==
  IF got.msgs = {}
  THEN /\ timeline' = IF prev = Blank THEN Notice ELSE timeline
       /\ UNCHANGED prev
  ELSE IF got = prev THEN UNCHANGED <<prev, timeline>>
  ELSE prev' = got /\ timeline' = got

\* A list arrives, for whatever thread was asked.
Draws(c) ==
  /\ Answered(c, "list")
  /\ Render([thread |-> call[c].thread, msgs |-> call[c].msgs])
  /\ ready' = TRUE
  /\ call' = [call EXCEPT ![c] = Free]
  /\ UNCHANGED <<server, selected, header, polled, tab, visible, fails>>

\* A call fails.  A list that fails leaves the page as it is; a detail that
\* fails replaces the header and the timeline, and nothing else.
Fails(c) ==
  /\ call[c] # Free /\ fails < MaxFails
  /\ fails' = fails + 1
  /\ call' = [call EXCEPT ![c] = Free]
  /\ IF call[c].kind = "detail" THEN header' = Nobody /\ timeline' = Notice
                                ELSE UNCHANGED <<header, timeline>>
  /\ UNCHANGED <<server, selected, polled, prev, tab, ready, visible>>

\* switchTab, also to the tab that is open.
SwitchTab(c, to) ==
  /\ tab' = to
  /\ IF to = "messages" /\ selected # Nobody /\ ~ready
     THEN Sends(c, "list", selected) ELSE UNCHANGED call
  /\ UNCHANGED <<server, selected, view, ready, visible, fails>>

\* handleVisibilityChange.
Hide ==
  /\ visible /\ visible' = FALSE
  /\ UNCHANGED <<server, selected, view, tab, ready, call, fails>>

Show(c) ==
  /\ ~visible /\ visible' = TRUE
  /\ IF selected # Nobody /\ tab = "messages"
     THEN Sends(c, "list", selected) ELSE UNCHANGED call
  /\ UNCHANGED <<server, selected, view, tab, ready, fails>>

-----------------------------------------------------------------------------
(* The server and the forum. *)

Reads(c) ==
  /\ call[c] # Free /\ ~call[c].read
  /\ call' = [call EXCEPT ![c].read = TRUE,
                          ![c].msgs = IF call[c].kind = "list" THEN live[call[c].thread] ELSE {}]
  /\ UNCHANGED <<server, selected, view, tab, ready, visible, fails>>

Post(t) ==
  /\ posted[t] < MaxMsgs[t]
  /\ posted' = [posted EXCEPT ![t] = @ + 1]
  /\ live' = [live EXCEPT ![t] = @ \cup {posted[t] + 1}]
  /\ UNCHANGED <<selected, view, tab, ready, visible, call, fails>>

Delete(t, m) ==
  /\ m \in live[t]
  /\ live' = [live EXCEPT ![t] = @ \ {m}]
  /\ UNCHANGED <<posted, selected, view, tab, ready, visible, call, fails>>

Init ==
  /\ posted = [t \in Threads |-> 0] /\ live = [t \in Threads |-> {}]
  /\ selected = Nobody /\ header = Nobody /\ polled = Nobody
  /\ prev = Blank /\ timeline = Blank
  /\ tab = "messages" /\ ready = FALSE /\ visible = TRUE
  /\ call = [c \in Slots |-> Free] /\ fails = 0

Next ==
  \/ \E c \in Slots :
       \/ \E t \in Threads : Select(c, t)
       \/ Shows(c) \/ Poll(c) \/ Draws(c) \/ Fails(c)
       \/ \E to \in {"messages", "transcript"} : SwitchTab(c, to)
       \/ Show(c)
       \/ Reads(c)
  \/ Hide
  \/ \E t \in Threads : Post(t) \/ \E m \in live[t] : Delete(t, m)

\* The interval fires, and a call is answered unless it fails; nothing is
\* expected of the reader of the page, or of the forum.
Fairness ==
  /\ WF_vars(\E c \in Slots : Poll(c))
  /\ \A c \in Slots : WF_vars(Reads(c)) /\ WF_vars(Shows(c) \/ Draws(c))

Spec == Init /\ [][Next]_vars /\ Fairness

-----------------------------------------------------------------------------
(* Properties. *)

\* The header and the poll are of one thread: however selections overlap and
\* whichever of their answers come late or fail, the page never keeps a thread's
\* header over another thread's poll.
HeaderIsPolled == header # Nobody => header = polled

\* Not drawing a list that is like the last is right: the last one drawn is what
\* the timeline still shows, unless loading another thread failed since.
SkippedIsShown == prev # Blank /\ header # Nobody => timeline = prev

\* While the page is watched and a thread with messages stays in its header, the
\* timeline comes to show the thread's messages, and no late answer of another
\* poll or of another thread stays in it.  (A thread that has no messages left
\* keeps what was shown: renderMessages ignores an empty list.)
TimelineCatchesUp ==
  \A t \in Threads : \A s \in (SUBSET (1 .. MaxMsgs[t])) \ {{}} :
    <>[](visible /\ tab = "messages" /\ header = t /\ live[t] = s)
      => <>[](timeline = [thread |-> t, msgs |-> s])
=============================================================================
