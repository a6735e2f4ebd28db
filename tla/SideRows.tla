------------------------------- MODULE SideRows -------------------------------
(***************************************************************************)
(* The rows around a thread that are written without the governance or the *)
(* message transaction: reactions (lib/data-access/reactions.ts), views    *)
(* (views.ts), mention facts and their read marks (routes/messages.ts,     *)
(* notification-store.ts), and the context that PATCH changes              *)
(* (routes/threads.ts).  Every handler reads the thread, then its own row, *)
(* then writes; others commit in between.  A slot holds one request; what  *)
(* it read is all it knows when it writes.                                 *)
(*                                                                         *)
(* There is one message to react to, one emoji and one caller who uses it: *)
(* the unique key of the reactions is per message, caller and emoji.  Each *)
(* post mentions the one Recipient.  net, counted, failed, shut and a      *)
(* slot's was are history.                                                 *)
(***************************************************************************)
EXTENDS Integers, FiniteSets

CONSTANTS
  Slots,       \* requests at a time
  Principals,  \* callers
  Recipient,   \* the principal that is mentioned
  Bound0,      \* a thread that was created for a workflow instance
  Free0,       \* a thread that was not
  Patches,     \* PATCH bodies: [type, id], "keep" for a field that is not there
  MaxPosts,    \* bound on the posts that end
  MaxRows      \* bound on the ids of reaction rows in use

ASSUME SideRowsAssumption ==
  /\ Recipient \in Principals /\ Bound0 # Free0 /\ IsFiniteSet(Slots)
  /\ MaxPosts \in Nat /\ MaxRows \in Nat /\ MaxRows > Cardinality(Slots)

VARIABLES
  status,   \* of the thread with the messages: open, closed, hidden
  live,     \* the message reacted to is not deleted
  row,      \* the id of the reaction row, 0 if there is none
  net,      \* reactions reported as added minus those reported as removed
  viewers,  \* the view rows
  viewCount,
  posts,    \* the posts that became messages, by the number of the attempt
  failed,   \* those whose poster was told that it failed
  facts,    \* the posts with a mention fact
  read,     \* the facts with a readAt
  counted,  \* how often batches reported a fact as marked by them
  ctx,      \* the contexts of the threads
  slot,
  shut      \* the posts under way during which the status has changed

reactionVars == <<live, row, net>>
viewVars == <<viewers, viewCount>>
factVars == <<posts, failed, facts, read, counted>>
vars == <<status, reactionVars, viewVars, factVars, ctx, slot, shut>>

Threads   == {Bound0, Free0}
NoContext == [type |-> "plain", id |-> "none"]
Idle == [st |-> "idle", who |-> Recipient, on |-> Free0, saw |-> 0,
         set |-> [type |-> "keep", id |-> "keep"], was |-> NoContext]
At(st) == [Idle EXCEPT !.st = st]

Takes(r, s) == slot[r].st = "idle" /\ slot' = [slot EXCEPT ![r] = s]
Goes(r, from, to) == slot[r].st = from /\ slot' = [slot EXCEPT ![r].st = to]
Ends(r, from) == slot[r].st = from /\ slot' = [slot EXCEPT ![r] = Idle]

Visible == status # "hidden"

-----------------------------------------------------------------------------
(* Reactions. *)

AddBegins(r) ==
  /\ Visible /\ Takes(r, At("addFind"))
  /\ UNCHANGED <<status, reactionVars, viewVars, factVars, ctx>>

\* The message must be live ...
AddFinds(r) ==
  /\ IF live THEN Goes(r, "addFind", "addDup") ELSE Ends(r, "addFind")
  /\ UNCHANGED <<status, reactionVars, viewVars, factVars, ctx>>

\* ... and the reaction new (409) ...
AddLooks(r) ==
  /\ IF row = 0 THEN Goes(r, "addDup", "add") ELSE Ends(r, "addDup")
  /\ UNCHANGED <<status, reactionVars, viewVars, factVars, ctx>>

Fresh == CHOOSE i \in 1 .. MaxRows : i # row /\ \A q \in Slots : slot[q].saw # i

\* Mutant: the unique key's refusal is taken for success.
AddUpserts(r) ==
  /\ Ends(r, "add")
  /\ row' = (IF row = 0 THEN Fresh ELSE row) /\ net' = net + 1
  /\ UNCHANGED <<status, live, viewVars, factVars, ctx>>

\* ... when it is inserted, too: the unique key decides (409).
Add(r) ==
  /\ Ends(r, "add")
  /\ IF row = 0 THEN row' = Fresh /\ net' = net + 1 ELSE UNCHANGED <<row, net>>
  /\ UNCHANGED <<status, live, viewVars, factVars, ctx>>

RemoveBegins(r) ==
  /\ Visible /\ Takes(r, At("removeFind"))
  /\ UNCHANGED <<status, reactionVars, viewVars, factVars, ctx>>

\* 404 if there is none.
RemoveFinds(r) ==
  /\ slot[r].st = "removeFind"
  /\ slot' = [slot EXCEPT ![r] = IF row = 0 THEN Idle ELSE [At("remove") EXCEPT !.saw = row]]
  /\ UNCHANGED <<status, reactionVars, viewVars, factVars, ctx>>

\* Mutant: by message, caller and emoji.
RemoveByKey(r) ==
  /\ Ends(r, "remove")
  /\ IF row # 0 THEN row' = 0 /\ net' = net - 1 ELSE UNCHANGED <<row, net>>
  /\ UNCHANGED <<status, live, viewVars, factVars, ctx>>

\* By id: an error (500) if another has removed it.
Remove(r) ==
  /\ Ends(r, "remove")
  /\ IF row = slot[r].saw THEN row' = 0 /\ net' = net - 1 ELSE UNCHANGED <<row, net>>
  /\ UNCHANGED <<status, live, viewVars, factVars, ctx>>

-----------------------------------------------------------------------------
(* Views: recordView, after the thread was answered. *)

ViewBegins(r, u) ==
  /\ Visible /\ Takes(r, [At("viewFind") EXCEPT !.who = u])
  /\ UNCHANGED <<status, reactionVars, viewVars, factVars, ctx>>

ViewFinds(r) ==
  /\ IF slot[r].who \in viewers THEN Ends(r, "viewFind") ELSE Goes(r, "viewFind", "view")
  /\ UNCHANGED <<status, reactionVars, viewVars, factVars, ctx>>

\* Mutant: insert and increment are not one transaction.
ViewCountsAnyway(r) ==
  /\ Ends(r, "view")
  /\ viewers' = viewers \cup {slot[r].who} /\ viewCount' = viewCount + 1
  /\ UNCHANGED <<status, reactionVars, factVars, ctx>>

\* The row and the count together; a row that is there meanwhile rolls back.
View(r) ==
  /\ Ends(r, "view")
  /\ IF slot[r].who \in viewers THEN UNCHANGED viewVars
     ELSE viewers' = viewers \cup {slot[r].who} /\ viewCount' = viewCount + 1
  /\ UNCHANGED <<status, reactionVars, factVars, ctx>>

-----------------------------------------------------------------------------
(* Messages with a mention, and the marks of the mentioned. *)

\* The numbers of posts that ended, or are under way.
Numbered == posts \cup failed \cup {slot[q].saw : q \in {p \in Slots : slot[p].st = "post"}}

\* Mutant: the status is not looked at.
PostBeginsAnyway(r) ==
  LET left == (1 .. MaxPosts) \ Numbered IN
  /\ left # {}
  /\ Takes(r, [At("post") EXCEPT !.saw = CHOOSE m \in left : TRUE])
  /\ UNCHANGED <<status, reactionVars, viewVars, factVars, ctx>>

PostBegins(r) ==
  LET left == (1 .. MaxPosts) \ Numbered IN
  /\ status = "open" /\ left # {}
  /\ Takes(r, [At("post") EXCEPT !.saw = CHOOSE m \in left : TRUE])
  /\ UNCHANGED <<status, reactionVars, viewVars, factVars, ctx>>

\* createMessage commits, whatever the thread has become.
Post(r) ==
  /\ Goes(r, "post", "notify")
  /\ posts' = posts \cup {slot[r].saw}
  /\ UNCHANGED <<status, reactionVars, viewVars, failed, facts, read, counted, ctx>>

\* The transaction fails, nothing was written, and the poster is told.
PostFails(r) ==
  /\ Ends(r, "post")
  /\ failed' = failed \cup {slot[r].saw}
  /\ UNCHANGED <<status, reactionVars, viewVars, posts, facts, read, counted, ctx>>

Notify(r) ==
  /\ Ends(r, "notify")
  /\ facts' = facts \cup {slot[r].saw}
  /\ UNCHANGED <<status, reactionVars, viewVars, posts, failed, read, counted, ctx>>

\* Mutant: the poster is told.
NotifyFailsPost(r) ==
  /\ Ends(r, "notify")
  /\ failed' = failed \cup {slot[r].saw}
  /\ UNCHANGED <<status, reactionVars, viewVars, posts, facts, read, counted, ctx>>

\* Logged; the post was a success.
NotifyFails(r) ==
  /\ Ends(r, "notify")
  /\ UNCHANGED <<status, reactionVars, viewVars, factVars, ctx>>

\* POST /notifications/:id/read: another's fact is not found.
MarkBegins(r, u, f) ==
  /\ f \in facts /\ u = Recipient /\ f \notin read
  /\ Takes(r, [At("mark") EXCEPT !.saw = f])
  /\ UNCHANGED <<status, reactionVars, viewVars, factVars, ctx>>

Mark(r) ==
  /\ Ends(r, "mark")
  /\ read' = read \cup {slot[r].saw}
  /\ UNCHANGED <<status, reactionVars, viewVars, posts, failed, facts, counted, ctx>>

Counts(fs) == counted' = [m \in 1 .. MaxPosts |-> counted[m] + IF m \in fs THEN 1 ELSE 0]

\* Mutant: facts that are read are marked again.
MarkAllAgain(u, fs) ==
  LET mine == {f \in fs \cap facts : u = Recipient} IN
  /\ \E f \in mine : counted[f] < 2
  /\ read' = read \cup mine /\ Counts(mine)
  /\ UNCHANGED <<status, reactionVars, viewVars, posts, failed, facts, ctx, slot>>

\* POST /notifications/read, one conditional update: the caller's own facts that
\* are unread; it reports how many.
MarkAll(u, fs) ==
  LET mine == {f \in (fs \cap facts) \ read : u = Recipient} IN
  /\ mine # {}
  /\ read' = read \cup mine /\ Counts(mine)
  /\ UNCHANGED <<status, reactionVars, viewVars, posts, failed, facts, ctx, slot>>

-----------------------------------------------------------------------------
(* PATCH of the context. *)

Workflow(c) == c.type = "wf" /\ c.id # "none"

\* Mutant: only the id is guarded.
DriftsById(c, p) == p.id \notin {"keep", c.id}

Drifts(c, p) == p.type \notin {"keep", c.type} \/ p.id \notin {"keep", c.id}

\* The thread is read and judged; 409 if the context of a workflow instance
\* would change ...
PatchBegins(r, t, p) ==
  /\ ~(ctx[t].type = "wf" /\ Drifts(ctx[t], p))
  /\ Takes(r, [At("patch") EXCEPT !.on = t, !.set = p, !.was = ctx[t]])
  /\ UNCHANGED <<status, reactionVars, viewVars, factVars, ctx>>

Patched(c, p) == [type |-> IF p.type = "keep" THEN c.type ELSE p.type,
                  id   |-> IF p.id   = "keep" THEN c.id   ELSE p.id]

\* ... and written as asked, unless the index has another thread there (500).
Patch(r) ==
  LET t == slot[r].on
      c == Patched(ctx[t], slot[r].set) IN
  /\ Ends(r, "patch")
  /\ ctx' = IF Workflow(c) /\ \E o \in Threads \ {t} : ctx[o] = c
            THEN ctx ELSE [ctx EXCEPT ![t] = c]
  /\ UNCHANGED <<status, reactionVars, viewVars, factVars>>

-----------------------------------------------------------------------------
(* Others: moderation, the deletion of the message, and a crash. *)

Moderate(s) ==
  /\ s # status /\ status' = s
  /\ UNCHANGED <<reactionVars, viewVars, factVars, ctx, slot>>

DeleteMessage ==
  /\ live /\ live' = FALSE
  /\ UNCHANGED <<status, row, net, viewVars, factVars, ctx, slot>>

\* The process dies under a request, which is never answered.
Crash(r) ==
  /\ slot[r].st # "idle" /\ slot' = [slot EXCEPT ![r] = Idle]
  /\ UNCHANGED <<status, reactionVars, viewVars, factVars, ctx>>

Init ==
  /\ status = "open" /\ live = TRUE
  /\ row = 0 /\ net = 0
  /\ viewers = {} /\ viewCount = 0
  /\ posts = {} /\ failed = {} /\ facts = {} /\ read = {}
  /\ counted = [m \in 1 .. MaxPosts |-> 0]
  /\ ctx = [t \in Threads |-> IF t = Bound0 THEN [type |-> "wf", id |-> "i1"]
                                           ELSE NoContext]
  /\ slot = [r \in Slots |-> Idle]
  /\ shut = {}

Step ==
  \/ \E r \in Slots :
       \/ AddBegins(r) \/ AddFinds(r) \/ AddLooks(r) \/ Add(r)
       \/ RemoveBegins(r) \/ RemoveFinds(r) \/ Remove(r)
       \/ (\E u \in Principals : ViewBegins(r, u)) \/ ViewFinds(r) \/ View(r)
       \/ PostBegins(r) \/ Post(r) \/ PostFails(r) \/ Notify(r) \/ NotifyFails(r)
       \/ (\E u \in Principals, f \in 1 .. MaxPosts : MarkBegins(r, u, f)) \/ Mark(r)
       \/ (\E t \in Threads, p \in Patches : PatchBegins(r, t, p)) \/ Patch(r)
       \/ Crash(r)
  \/ \E u \in Principals, fs \in SUBSET (1 .. MaxPosts) : MarkAll(u, fs)
  \/ \E s \in {"open", "closed", "hidden"} : Moderate(s)
  \/ DeleteMessage

Posting(s) == {r \in Slots : s[r].st = "post"}

Observe ==
  shut' = Posting(slot') \cap (shut \cup IF status' = status THEN {} ELSE Posting(slot))

Next == Step /\ Observe

Spec == Init /\ [][Next]_vars

-----------------------------------------------------------------------------
(* Properties. *)

Ids      == 1 .. MaxRows
Steps    == {"idle", "addFind", "addDup", "add", "removeFind", "remove", "viewFind",
             "view", "post", "notify", "mark", "patch"}
Contexts == [type: {p.type : p \in Patches} \cup {"wf", "plain"},
             id: {p.id : p \in Patches} \cup {"none", "i1"}]

\* Rows hold values of their columns, and a request carries what it read: the id
\* of a reaction, of a post that was committed, of a fact that exists.
TypeOK ==
  /\ status \in {"open", "closed", "hidden"} /\ live \in BOOLEAN
  /\ row \in Ids \cup {0} /\ net \in Int
  /\ viewers \subseteq Principals /\ viewCount \in Nat
  /\ posts \subseteq 1 .. MaxPosts /\ failed \subseteq 1 .. MaxPosts
  /\ facts \subseteq posts /\ read \subseteq facts
  /\ counted \in [1 .. MaxPosts -> Nat]
  /\ ctx \in [Threads -> Contexts]
  /\ slot \in [Slots -> [st: Steps, who: Principals, on: Threads, saw: Nat,
                         set: Patches \cup {[type |-> "keep", id |-> "keep"]},
                         was: Contexts]]
  /\ shut \subseteq Slots
  /\ \A r \in Slots :
       /\ slot[r].st = "remove" => slot[r].saw \in Ids
       /\ slot[r].st = "post"   => slot[r].saw \in 1 .. MaxPosts
       /\ slot[r].st = "notify" => slot[r].saw \in posts
       /\ slot[r].st = "mark"   => slot[r].saw \in facts

\* "Same agent on the same message counts once": however additions and removals
\* race, those reported as done add up to the row that is there, and a reaction
\* goes only at the hand of a removal that saw it: one that was removed and added
\* again stays, whoever still holds the first.
ReactionLedger ==
  [][/\ net' = IF row' = 0 THEN 0 ELSE 1
     /\ row # 0 /\ row' # row =>
          \E r \in Slots : /\ slot[r].st = "remove" /\ slot[r].saw = row
                           /\ slot'[r] = Idle]_vars

\* The cached viewCount counts every principal once, whatever races or fails.
ViewsCounted == viewCount = Cardinality(viewers)

\* "A fan-out failure must not fail the posted message": who is told that a post
\* failed finds no such message, and may send it again.
FailedMeansNone == failed \cap posts = {}

\* A message lands on a thread that is not open only under a poster who found it
\* open: the status has changed between the look and the insert.
PostsOpenUnlessRaced ==
  \A r \in Slots : slot[r].st = "post" /\ status # "open" => r \in shut

\* Expected of the code by CTR-GOV-CLOSE (close "MUST reject new ordinary messages
\* on the closed thread") and CTR-LIFE-002: it looks before the insert, not in it.
PostsOnlyOnOpen == [][posts' # posts => status = "open"]_vars

\* "Rows this call actually flipped": no two batches report the same fact.
MarkedOnce == \A f \in facts : counted[f] <= 1

\* "The canonical workflow-instance binding cannot drift": a thread created for
\* an instance keeps it, whatever patches race, and a thread bound later loses it
\* only to a patch that had read another context than the thread then has.
DriftsOnlyByRace ==
  [][/\ ctx'[Bound0] = ctx[Bound0]
     /\ \A t \in Threads : Workflow(ctx[t]) /\ ctx'[t] # ctx[t] =>
          \E r \in Slots : /\ slot[r].st = "patch" /\ slot[r].on = t
                           /\ slot[r].was # ctx[t] /\ slot'[r] = Idle]_vars

\* Expected of the code by CTR-FWIC-003: it never does.
BindingNeverDrifts == [][\A t \in Threads : Workflow(ctx[t]) => ctx'[t] = ctx[t]]_vars
=============================================================================
