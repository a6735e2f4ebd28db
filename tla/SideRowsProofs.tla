--------------------------- MODULE SideRowsProofs ----------------------------
(***************************************************************************)
(* Theorems about the rows around a thread, for any number of requests,    *)
(* callers, posts and patches.                                             *)
(*                                                                         *)
(* The argument.  What a request carries is what it read (TypeOK): a       *)
(* removal carries the id of a row, never 0, so it undoes exactly the      *)
(* insert of that row.  Ids of rows are new, because there are more of     *)
(* them than requests that remember one.  A patch was judged against the   *)
(* context it read; if the thread still has that one, it changes nothing   *)
(* of a workflow instance's.                                               *)
(* A post ends once, as a message or as a failure: no two posts under way  *)
(* are the same one, or one that has ended (AttemptsApart).  It began on   *)
(* an open thread, so on one that is not the status has changed since      *)
(* (BeganOpen).                                                            *)
(***************************************************************************)
EXTENDS SideRows, FiniteSetTheorems, TLAPS

\* A patch under way was accepted for the context it read; the binding of the
\* thread created for an instance is still the one any patch of it read.
PatchesJudged ==
  /\ ctx[Bound0] = [type |-> "wf", id |-> "i1"]
  /\ \A r \in Slots : slot[r].st = "patch" =>
       /\ ~(slot[r].was.type = "wf" /\ Drifts(slot[r].was, slot[r].set))
       /\ slot[r].on = Bound0 => slot[r].was = ctx[Bound0]

\* A fact that no batch or single mark has read was never counted.
UnreadUncounted ==
  \A f \in 1 .. MaxPosts : counted[f] <= 1 /\ (f \notin read => counted[f] = 0)

\* A post under way is neither one that is there nor one that failed, nor another.
AttemptsApart ==
  /\ FailedMeansNone
  /\ \A r \in Slots : slot[r].st = "post" =>
       /\ slot[r].saw \notin posts \cup failed
       /\ \A q \in Slots : slot[q].st = "post" /\ slot[q].saw = slot[r].saw => q = r

LedgerRight == net = IF row = 0 THEN 0 ELSE 1

Inv ==
  /\ TypeOK /\ LedgerRight
  /\ IsFiniteSet(viewers) /\ ViewsCounted
  /\ AttemptsApart /\ UnreadUncounted /\ PatchesJudged

Request == [st: Steps, who: Principals, on: Threads, saw: Nat,
            set: Patches \cup {[type |-> "keep", id |-> "keep"]}, was: Contexts]

LEMMA IdleTyped == Idle \in Request /\ NoContext \in Contexts
  BY SideRowsAssumption DEF Idle, Request, Steps, Threads, Contexts, NoContext

LEMMA InitInv == Init => Inv
<1> SUFFICES ASSUME Init PROVE Inv
  OBVIOUS
<1>1. TypeOK
  <2>1. ctx \in [Threads -> Contexts]
    BY DEF Init, Contexts, NoContext
  <2>2. slot \in [Slots -> Request]
    BY IdleTyped DEF Init
  <2>3. counted \in [1 .. MaxPosts -> Nat]
    BY DEF Init
  <2>4. \A r \in Slots : slot[r].st = "idle"
    BY DEF Init, Idle
  <2>5. QED
    BY <2>1, <2>2, <2>3, <2>4 DEF Init, TypeOK, Request, Ids
<1>2. IsFiniteSet(viewers) /\ ViewsCounted
  BY FS_EmptySet DEF Init, ViewsCounted
<1>3. LedgerRight /\ AttemptsApart /\ UnreadUncounted
  BY DEF Init, LedgerRight, AttemptsApart, FailedMeansNone, UnreadUncounted, Idle
<1>4. PatchesJudged
  BY SideRowsAssumption DEF Init, PatchesJudged, Idle, Threads
<1>5. QED
  BY <1>1, <1>2, <1>3, <1>4 DEF Inv

-----------------------------------------------------------------------------
(* Steps of a request through its handler. *)

\* What the table of requests may be after a step that takes, moves or ends one
\* without changing a row.
SlotSound ==
  /\ slot \in [Slots -> Request] /\ AttemptsApart
  /\ \A r \in Slots :
       /\ slot[r].st = "remove" => slot[r].saw \in Ids
       /\ slot[r].st = "post"   => slot[r].saw \in 1 .. MaxPosts
       /\ slot[r].st = "notify" => slot[r].saw \in posts
       /\ slot[r].st = "mark"   => slot[r].saw \in facts

rows == <<status, reactionVars, viewVars, factVars, ctx>>

LEMMA RowsKept ==
  ASSUME Inv, shut' \subseteq Slots, UNCHANGED rows, SlotSound', PatchesJudged'
  PROVE  Inv'
  BY DEF Inv, TypeOK, rows, reactionVars, viewVars, factVars, SlotSound, Request,
         LedgerRight, ViewsCounted, UnreadUncounted

LEMMA Taken ==
  ASSUME Inv, UNCHANGED <<posts, failed, facts, ctx>>, NEW r \in Slots, NEW s \in Request,
         Takes(r, s),
         s.st = "post"   => s.saw \in (1 .. MaxPosts) \ Numbered,
         s.st = "remove" => s.saw \in Ids,
         s.st = "notify" => s.saw \in posts,
         s.st = "mark"   => s.saw \in facts,
         s.st = "patch"  => /\ ~(s.was.type = "wf" /\ Drifts(s.was, s.set))
                            /\ s.on = Bound0 => s.was = ctx[Bound0]
  PROVE  SlotSound' /\ PatchesJudged'
<1>1. SlotSound'
  BY DEF Inv, TypeOK, Takes, SlotSound, Request, AttemptsApart, FailedMeansNone, Numbered
<1>2. PatchesJudged'
  BY DEF Inv, TypeOK, Takes, PatchesJudged, Request
<1>3. QED
  BY <1>1, <1>2

LEMMA Gone ==
  ASSUME Inv, UNCHANGED <<posts, failed, facts, ctx>>, NEW r \in Slots, NEW from,
         NEW to \in Steps, Goes(r, from, to),
         to \notin {"remove", "post", "notify", "mark", "patch"}
  PROVE  SlotSound' /\ PatchesJudged'
<1>1. slot \in [Slots -> Request]
  BY DEF Inv, TypeOK, Request
<1> DEFINE s == [slot[r] EXCEPT !.st = to]
<1>2. s \in Request /\ s.st = to
  BY <1>1 DEF Request
<1>3. slot' = [slot EXCEPT ![r] = s]
  BY DEF Goes
<1> HIDE DEF s
<1>4. QED
  BY <1>1, <1>2, <1>3 DEF SlotSound, PatchesJudged, Inv, TypeOK, AttemptsApart, FailedMeansNone

LEMMA Ended ==
  ASSUME Inv, UNCHANGED <<posts, failed, ctx>>, facts \subseteq facts', NEW r \in Slots,
         slot' = [slot EXCEPT ![r] = Idle]
  PROVE  SlotSound' /\ PatchesJudged'
<1>1. slot \in [Slots -> Request]
  BY DEF Inv, TypeOK, Request
<1>2. Idle.st = "idle"
  BY DEF Idle
<1>3. QED
  BY <1>1, <1>2, IdleTyped DEF SlotSound, PatchesJudged, Inv, TypeOK, AttemptsApart, FailedMeansNone

LEMMA StepsTyped ==
  ASSUME NEW st \in Steps
  PROVE  At(st) \in Request /\ At(st).st = st
  BY IdleTyped DEF At, Idle, Request

LEMMA QuietSteps ==
  ASSUME Inv, shut' \subseteq Slots, NEW r \in Slots,
         \/ AddBegins(r) \/ AddFinds(r) \/ AddLooks(r)
         \/ RemoveBegins(r) \/ RemoveFinds(r)
         \/ (\E u \in Principals : ViewBegins(r, u)) \/ ViewFinds(r)
         \/ PostBegins(r) \/ NotifyFails(r)
         \/ \E u \in Principals, f \in 1 .. MaxPosts : MarkBegins(r, u, f)
         \/ \E t \in Threads, p \in Patches : PatchBegins(r, t, p)
         \/ Crash(r)
  PROVE  Inv'
<1> SUFFICES UNCHANGED rows /\ SlotSound' /\ PatchesJudged'
  BY RowsKept
<1>0. /\ \A st \in {"addFind", "removeFind"} : st \in Steps
      /\ UNCHANGED rows => UNCHANGED <<posts, failed, facts, ctx>>
  BY DEF Steps, rows, factVars
<1> HIDE DEF rows
<1>1. ASSUME NEW st \in {"addFind", "removeFind"}, Takes(r, At(st)), UNCHANGED rows
      PROVE  SlotSound' /\ PatchesJudged'
  BY <1>0, <1>1, StepsTyped, Taken
<1>2. ASSUME UNCHANGED rows, slot' = [slot EXCEPT ![r] = Idle]
      PROVE  SlotSound' /\ PatchesJudged'
  BY <1>0, <1>2, Ended
<1>3. ASSUME UNCHANGED rows, NEW from, NEW to \in {"addDup", "add", "view"}, Goes(r, from, to)
      PROVE  SlotSound' /\ PatchesJudged'
  BY <1>0, <1>3, Gone DEF Steps
<1>4. CASE AddBegins(r) \/ RemoveBegins(r)
  BY <1>1, <1>4 DEF AddBegins, RemoveBegins, rows
<1>5. CASE AddFinds(r) \/ AddLooks(r) \/ ViewFinds(r)
  BY <1>2, <1>3, <1>5 DEF AddFinds, AddLooks, ViewFinds, rows, Ends
<1>6. CASE NotifyFails(r) \/ Crash(r)
  BY <1>2, <1>6 DEF NotifyFails, Crash, rows, Ends
<1>7. CASE RemoveFinds(r)
  <2>1. UNCHANGED rows /\ slot[r].st = "removeFind"
    BY <1>7 DEF RemoveFinds, rows
  <2>2. CASE row = 0
    BY <1>2, <1>7, <2>1, <2>2 DEF RemoveFinds
  <2>3. CASE row # 0
    <3> DEFINE s == [At("remove") EXCEPT !.saw = row]
    <3>1. row \in Ids /\ row \in Nat
      BY <2>3 DEF Inv, TypeOK, Ids
    <3>2. s \in Request /\ s.st = "remove" /\ s.saw = row
      BY <3>1, StepsTyped DEF Steps, Request
    <3>3. slot' = [slot EXCEPT ![r] = s]
      BY <1>7, <2>3 DEF RemoveFinds
    <3> HIDE DEF s
    <3>4. slot \in [Slots -> Request]
      BY DEF Inv, TypeOK, Request
    <3>5. QED
      BY <1>0, <2>1, <3>1, <3>2, <3>3, <3>4
         DEF SlotSound, PatchesJudged, Inv, TypeOK, AttemptsApart, FailedMeansNone
  <2>4. QED
    BY <2>2, <2>3
<1>8. ASSUME NEW u \in Principals, ViewBegins(r, u) PROVE SlotSound' /\ PatchesJudged'
  <2> DEFINE s == [At("viewFind") EXCEPT !.who = u]
  <2>1. s \in Request /\ s.st = "viewFind"
    BY StepsTyped DEF Steps, Request
  <2>2. Takes(r, s) /\ UNCHANGED rows
    BY <1>8 DEF ViewBegins, rows
  <2> HIDE DEF s
  <2>3. QED
    BY <1>0, <2>1, <2>2, Taken
<1>9. ASSUME NEW u \in Principals, NEW f \in 1 .. MaxPosts, MarkBegins(r, u, f)
      PROVE  SlotSound' /\ PatchesJudged'
  <2> DEFINE s == [At("mark") EXCEPT !.saw = f]
  <2>1. s \in Request /\ s.st = "mark" /\ s.saw = f
    BY StepsTyped, SideRowsAssumption DEF Steps, Request
  <2>2. Takes(r, s) /\ UNCHANGED rows /\ f \in facts
    BY <1>9 DEF MarkBegins, rows
  <2> HIDE DEF s
  <2>3. QED
    BY <1>0, <2>1, <2>2, Taken
<1>10. ASSUME NEW t \in Threads, NEW p \in Patches, PatchBegins(r, t, p)
       PROVE  SlotSound' /\ PatchesJudged'
  <2> DEFINE s == [At("patch") EXCEPT !.on = t, !.set = p, !.was = ctx[t]]
  <2>1. ctx[t] \in Contexts
    BY DEF Inv, TypeOK
  <2>2. /\ s \in Request /\ s.st = "patch"
        /\ s.on = t /\ s.set = p /\ s.was = ctx[t]
    BY <2>1, StepsTyped DEF Steps, Request
  <2>3. Takes(r, s) /\ UNCHANGED rows /\ ~(ctx[t].type = "wf" /\ Drifts(ctx[t], p))
    BY <1>10 DEF PatchBegins, rows
  <2> HIDE DEF s
  <2>4. QED
    BY <1>0, <2>2, <2>3, Taken
<1>11. CASE PostBegins(r)
  <2> DEFINE left == (1 .. MaxPosts) \ Numbered
             m    == CHOOSE k \in left : TRUE
             s    == [At("post") EXCEPT !.saw = m]
  <2>1. left # {} /\ Takes(r, s) /\ UNCHANGED rows
    BY <1>11 DEF PostBegins, rows
  <2>2. m \in (1 .. MaxPosts) \ Numbered
    BY <2>1
  <2> HIDE DEF m
  <2>3. s \in Request /\ s.st = "post" /\ s.saw = m
    BY <2>2, StepsTyped, SideRowsAssumption DEF Steps, Request
  <2> HIDE DEF s
  <2>4. QED
    BY <1>0, <2>1, <2>2, <2>3, Taken
<1>12. UNCHANGED rows
  BY DEF AddBegins, AddFinds, AddLooks, RemoveBegins, RemoveFinds, ViewBegins, ViewFinds,
         PostBegins, NotifyFails, MarkBegins, PatchBegins, Crash, rows
<1>13. QED
  BY <1>4, <1>5, <1>6, <1>7, <1>8, <1>9, <1>10, <1>11, <1>12

-----------------------------------------------------------------------------
(* The steps that write a row. *)

\* There is a new id whenever there is no row: the requests remember fewer ids
\* than there are.
LEMMA FreshIsNew ==
  ASSUME row = 0
  PROVE  Fresh \in Ids
<1> DEFINE saws == {slot[q].saw : q \in Slots}
<1>1. IsFiniteSet(Slots) /\ IsFiniteSet(saws) /\ Cardinality(saws) <= Cardinality(Slots)
  <2>1. IsFiniteSet(Slots)
    BY SideRowsAssumption
  <2> DEFINE f == [q \in Slots |-> slot[q].saw]
  <2>2. f \in Surjection(Slots, saws)
    BY DEF Surjection
  <2>3. QED
    BY <2>1, <2>2, FS_Surjection
<1>2. IsFiniteSet(Ids) /\ Cardinality(Ids) = MaxRows
  <2>1. MaxRows \in Nat
    BY SideRowsAssumption
  <2>2. /\ IsFiniteSet(1 .. MaxRows)
        /\ Cardinality(1 .. MaxRows) = IF 1 > MaxRows THEN 0 ELSE MaxRows - 1 + 1
    BY <2>1, FS_Interval
  <2>3. QED
    BY <2>1, <2>2 DEF Ids
<1>3. Cardinality(saws) \in Nat /\ Cardinality(Slots) \in Nat
  BY <1>1, FS_CardinalityType
<1>4. \E i \in Ids : i \notin saws
  <2>1. SUFFICES ASSUME Ids \subseteq saws PROVE FALSE
    OBVIOUS
  <2>2. Cardinality(Ids) <= Cardinality(saws)
    BY <1>1, <2>1, FS_Subset
  <2>3. QED
    BY <1>1, <1>2, <1>3, <2>2, SideRowsAssumption
<1>5. PICK i \in Ids : i # row /\ \A q \in Slots : slot[q].saw # i
  BY <1>4 DEF Ids
<1>6. QED
  BY <1>5 DEF Fresh, Ids

LEMMA ReactionSteps ==
  ASSUME Inv, shut' \subseteq Slots, NEW r \in Slots, Add(r) \/ Remove(r)
  PROVE  Inv'
<1>1. /\ slot' = [slot EXCEPT ![r] = Idle]
      /\ UNCHANGED <<status, live, viewVars, factVars, ctx>>
  BY DEF Add, Remove, Ends
<1>2. SlotSound' /\ PatchesJudged'
  BY <1>1, Ended DEF factVars
<1>3. row \in Ids \cup {0} /\ net \in Int /\ LedgerRight
  BY DEF Inv, TypeOK
<1>4. row' \in Ids \cup {0} /\ net' \in Int /\ LedgerRight'
  <2>1. CASE Add(r) /\ row = 0
    <3>1. row' \in Ids /\ net' = net + 1
      BY <2>1, FreshIsNew DEF Add
    <3>2. row' # 0 /\ net = 0
      BY <1>3, <2>1, <3>1 DEF Ids, LedgerRight
    <3>3. QED
      BY <3>1, <3>2 DEF LedgerRight
  <2>2. CASE Remove(r) /\ row = slot[r].saw
    <3>1. row # 0 /\ net = 1
      BY <1>3, <2>2 DEF Remove, Ends, Inv, TypeOK, Ids, LedgerRight
    <3>2. row' = 0 /\ net' = net - 1
      BY <2>2 DEF Remove
    <3>3. QED
      BY <3>1, <3>2 DEF LedgerRight
  <2>3. CASE UNCHANGED <<row, net>>
    BY <1>3, <2>3 DEF LedgerRight
  <2>4. QED
    BY <2>1, <2>2, <2>3 DEF Add, Remove
<1>5. QED
  BY <1>1, <1>2, <1>4 DEF Inv, TypeOK, viewVars, factVars, SlotSound, Request,
                          ViewsCounted, UnreadUncounted

LEMMA ViewStep ==
  ASSUME Inv, shut' \subseteq Slots, NEW r \in Slots, View(r)
  PROVE  Inv'
<1>1. /\ slot' = [slot EXCEPT ![r] = Idle]
      /\ UNCHANGED <<status, reactionVars, factVars, ctx>>
  BY DEF View, Ends
<1>2. SlotSound' /\ PatchesJudged'
  BY <1>1, Ended DEF factVars
<1>3. slot[r].who \in Principals
  BY DEF Inv, TypeOK
<1>4. /\ viewers' \subseteq Principals /\ viewCount' \in Nat
      /\ IsFiniteSet(viewers') /\ viewCount' = Cardinality(viewers')
  <2>1. CASE slot[r].who \in viewers
    BY <2>1 DEF View, viewVars, Inv, TypeOK, ViewsCounted
  <2>2. CASE slot[r].who \notin viewers
    <3>1. viewers' = viewers \cup {slot[r].who} /\ viewCount' = viewCount + 1
      BY <2>2 DEF View
    <3>2. IsFiniteSet(viewers') /\ Cardinality(viewers') = Cardinality(viewers) + 1
      BY <2>2, <3>1, FS_AddElement DEF Inv
    <3>3. QED
      BY <1>3, <3>1, <3>2 DEF Inv, TypeOK, ViewsCounted
  <2>3. QED
    BY <2>1, <2>2
<1>5. QED
  BY <1>1, <1>2, <1>4 DEF Inv, TypeOK, reactionVars, factVars, SlotSound, Request,
                          LedgerRight, ViewsCounted, UnreadUncounted

\* What a post may become: a message, or a failure the poster hears of.
LEMMA PostStep ==
  ASSUME Inv, shut' \subseteq Slots, NEW r \in Slots, Post(r)
  PROVE  Inv'
<1> DEFINE s == [slot[r] EXCEPT !.st = "notify"]
<1>1. /\ slot[r].st = "post"
      /\ slot' = [slot EXCEPT ![r] = s]
      /\ posts' = posts \cup {slot[r].saw}
      /\ UNCHANGED <<status, reactionVars, viewVars, failed, facts, read, counted, ctx>>
  BY DEF Post, Goes
<1>2. slot \in [Slots -> Request] /\ slot[r].saw \in 1 .. MaxPosts
  BY <1>1 DEF Inv, TypeOK, Request
<1>3. s \in Request /\ s.st = "notify" /\ s.saw = slot[r].saw
  BY <1>2 DEF Steps, Request
<1> HIDE DEF s
<1>4. AttemptsApart'
  BY <1>1, <1>2, <1>3 DEF Inv, AttemptsApart, FailedMeansNone
<1>5. SlotSound' /\ PatchesJudged'
  BY <1>1, <1>2, <1>3, <1>4 DEF SlotSound, PatchesJudged, Inv, TypeOK
<1>6. QED
  BY <1>1, <1>2, <1>5 DEF Inv, TypeOK, reactionVars, viewVars, SlotSound, Request,
                          LedgerRight, ViewsCounted, UnreadUncounted

LEMMA PostFailsStep ==
  ASSUME Inv, shut' \subseteq Slots, NEW r \in Slots, PostFails(r)
  PROVE  Inv'
<1>1. /\ slot[r].st = "post"
      /\ slot' = [slot EXCEPT ![r] = Idle]
      /\ failed' = failed \cup {slot[r].saw}
      /\ UNCHANGED <<status, reactionVars, viewVars, posts, facts, read, counted, ctx>>
  BY DEF PostFails, Ends
<1>2. slot \in [Slots -> Request] /\ slot[r].saw \in 1 .. MaxPosts
  BY <1>1 DEF Inv, TypeOK, Request
<1>3. Idle \in Request /\ Idle.st = "idle"
  BY IdleTyped DEF Idle
<1>4. AttemptsApart'
  BY <1>1, <1>2, <1>3 DEF Inv, AttemptsApart, FailedMeansNone
<1>5. SlotSound' /\ PatchesJudged'
  BY <1>1, <1>2, <1>3, <1>4 DEF SlotSound, PatchesJudged, Inv, TypeOK
<1>6. QED
  BY <1>1, <1>2, <1>5 DEF Inv, TypeOK, reactionVars, viewVars, SlotSound, Request,
                          LedgerRight, ViewsCounted, UnreadUncounted

LEMMA FactSteps ==
  ASSUME Inv, shut' \subseteq Slots, NEW r \in Slots, Notify(r) \/ Mark(r)
  PROVE  Inv'
<1>1. /\ slot' = [slot EXCEPT ![r] = Idle]
      /\ facts \subseteq facts' /\ facts' \subseteq posts
      /\ read \subseteq read' /\ read' \subseteq facts'
      /\ UNCHANGED <<status, reactionVars, viewVars, posts, failed, counted, ctx>>
  BY DEF Notify, Mark, Ends, Inv, TypeOK
<1>2. SlotSound' /\ PatchesJudged'
  BY <1>1, Ended
<1>3. QED
  BY <1>1, <1>2 DEF Inv, TypeOK, reactionVars, viewVars, SlotSound, Request,
                    LedgerRight, ViewsCounted, UnreadUncounted

LEMMA BatchStep ==
  ASSUME Inv, shut' \subseteq Slots, NEW u \in Principals, NEW fs \in SUBSET (1 .. MaxPosts), MarkAll(u, fs)
  PROVE  Inv'
<1> DEFINE mine == {f \in (fs \cap facts) \ read : u = Recipient}
<1>1. /\ mine \subseteq facts \ read
      /\ read' = read \cup mine /\ Counts(mine)
      /\ UNCHANGED <<status, reactionVars, viewVars, posts, failed, facts, ctx, slot>>
  BY DEF MarkAll
<1> HIDE DEF mine
<1>2. counted \in [1 .. MaxPosts -> Nat] /\ read \subseteq facts /\ UnreadUncounted
  BY DEF Inv, TypeOK
<1>3. read' \subseteq facts /\ counted' \in [1 .. MaxPosts -> Nat]
  BY <1>1, <1>2 DEF Counts
<1>4. UnreadUncounted'
  BY <1>1, <1>2 DEF Counts, UnreadUncounted
<1>5. AttemptsApart'
  BY <1>1 DEF Inv, AttemptsApart, FailedMeansNone
<1>6. QED
  BY <1>1, <1>3, <1>4, <1>5 DEF Inv, TypeOK, reactionVars, viewVars, Request,
                                LedgerRight, ViewsCounted, PatchesJudged

\* What a patch that is judged against the present context writes.
LEMMA JudgedKeeps ==
  ASSUME NEW c \in Contexts, NEW p, c.type = "wf", ~Drifts(c, p)
  PROVE  Patched(c, p) = c
  BY DEF Contexts, Drifts, Patched

LEMMA PatchStep ==
  ASSUME Inv, shut' \subseteq Slots, NEW r \in Slots, Patch(r)
  PROVE  /\ ctx' \in [Threads -> Contexts] /\ ctx'[Bound0] = ctx[Bound0]
         /\ \A t \in Threads : Workflow(ctx[t]) /\ ctx'[t] # ctx[t] =>
              slot[r].st = "patch" /\ slot[r].on = t /\ slot[r].was # ctx[t] /\ slot'[r] = Idle
         /\ Inv'
<1> DEFINE t == slot[r].on
           c == Patched(ctx[t], slot[r].set)
<1>1. /\ slot[r].st = "patch" /\ slot' = [slot EXCEPT ![r] = Idle]
      /\ ctx' = ctx \/ ctx' = [ctx EXCEPT ![t] = c]
      /\ UNCHANGED <<status, reactionVars, viewVars, factVars>>
  BY DEF Patch, Ends
<1>2. /\ t \in Threads /\ ctx \in [Threads -> Contexts] /\ slot'[r] = Idle
      /\ slot[r].set \in Patches \cup {[type |-> "keep", id |-> "keep"]}
  BY <1>1 DEF Inv, TypeOK
<1>3. c \in Contexts
  BY <1>2 DEF Patched, Contexts
<1>4. ~(slot[r].was.type = "wf" /\ Drifts(slot[r].was, slot[r].set))
  BY <1>1 DEF Inv, PatchesJudged
<1>5. ctx[t].type = "wf" /\ slot[r].was = ctx[t] => c = ctx[t]
  BY <1>2, <1>4, JudgedKeeps
<1>6. t = Bound0 => c = ctx[Bound0]
  BY <1>1, <1>5 DEF Inv, PatchesJudged
<1> HIDE DEF c, t
<1>7. ctx' \in [Threads -> Contexts] /\ ctx'[Bound0] = ctx[Bound0]
  <2>1. Bound0 \in Threads
    BY DEF Threads
  <2>2. CASE ctx' = ctx
    BY <1>2, <2>2
  <2>3. CASE ctx' = [ctx EXCEPT ![t] = c]
    BY <1>2, <1>3, <1>6, <2>1, <2>3
  <2>4. QED
    BY <1>1, <2>2, <2>3
<1>8. \A o \in Threads : Workflow(ctx[o]) /\ ctx'[o] # ctx[o] =>
        t = o /\ slot[r].was # ctx[o]
  BY <1>1, <1>2, <1>5 DEF Workflow
<1>9. SlotSound' /\ PatchesJudged'
  <2>1. slot \in [Slots -> Request] /\ Idle.st = "idle"
    BY DEF Inv, TypeOK, Request, Idle
  <2>2. QED
    BY <1>1, <1>7, <2>1, IdleTyped
       DEF SlotSound, PatchesJudged, Inv, TypeOK, factVars, AttemptsApart, FailedMeansNone
<1>10. Inv'
  BY <1>1, <1>7, <1>9 DEF Inv, TypeOK, reactionVars, viewVars, factVars, SlotSound, Request,
                          LedgerRight, ViewsCounted, UnreadUncounted
<1>11. QED
  BY <1>1, <1>2, <1>7, <1>8, <1>10 DEF t

LEMMA OtherSteps ==
  ASSUME Inv, shut' \subseteq Slots,
         \/ \E s \in {"open", "closed", "hidden"} : Moderate(s)
         \/ DeleteMessage \/ UNCHANGED vars
  PROVE  Inv'
<1>1. /\ status' \in {"open", "closed", "hidden"} /\ live' \in BOOLEAN
      /\ UNCHANGED <<row, net, viewVars, factVars, ctx, slot>>
  BY DEF Moderate, DeleteMessage, vars, reactionVars, Inv, TypeOK
<1>2. AttemptsApart'
  BY <1>1 DEF Inv, factVars, AttemptsApart, FailedMeansNone
<1>3. QED
  BY <1>1, <1>2 DEF Inv, TypeOK, viewVars, factVars, Request,
                    LedgerRight, ViewsCounted, UnreadUncounted, PatchesJudged

-----------------------------------------------------------------------------

LEMMA ShutTyped ==
  ASSUME Inv, [Next]_vars
  PROVE  shut' \subseteq Slots
  BY DEF Inv, TypeOK, Next, Observe, Posting, vars

LEMMA StepInv ==
  ASSUME Inv, [Next]_vars
  PROVE  Inv'
<1>1. ASSUME NEW r \in Slots, Add(r) \/ Remove(r) \/ View(r) \/ Post(r) \/ PostFails(r)
                              \/ Notify(r) \/ Mark(r) \/ Patch(r)
      PROVE  Inv'
  BY <1>1, ShutTyped, ReactionSteps, ViewStep, PostStep, PostFailsStep, FactSteps, PatchStep
<1>2. QED
  BY <1>1, ShutTyped, QuietSteps, BatchStep, OtherSteps DEF Next, Step

LEMMA Invariant == Spec => []Inv
<1>1. Inv /\ [Next]_vars => Inv'
  BY StepInv
<1>2. QED
  BY InitInv, <1>1, PTL DEF Spec

\* Requests carry what they read, and facts are of posts.
THEOREM TypeCorrect == Spec => []TypeOK
<1>1. Inv => TypeOK
  BY DEF Inv
<1>2. QED
  BY <1>1, Invariant, PTL

\* However additions and removals of a reaction race, those reported as done add
\* up to the row that is there, and only a removal that saw a row takes it.
THEOREM ReactionsAddUp == Spec => ReactionLedger
<1> DEFINE Sound == /\ net' = IF row' = 0 THEN 0 ELSE 1
                    /\ row # 0 /\ row' # row =>
                         \E r \in Slots : /\ slot[r].st = "remove" /\ slot[r].saw = row
                                          /\ slot'[r] = Idle
<1>1. ASSUME Inv, [Next]_vars PROVE Sound
  <2>1. net' = IF row' = 0 THEN 0 ELSE 1
    BY <1>1, StepInv DEF Inv, LedgerRight
  <2>2. ASSUME row # 0, row' # row
        PROVE  \E r \in Slots : Remove(r)
    BY <1>1, <2>2 DEF Next, Step, AddBegins, AddFinds, AddLooks, Add, RemoveBegins, RemoveFinds,
      ViewBegins, ViewFinds, View, PostBegins, Post, PostFails, Notify, NotifyFails, MarkBegins,
      Mark, PatchBegins, Patch, Crash, MarkAll, Moderate, DeleteMessage, reactionVars, vars
  <2>3. ASSUME NEW r \in Slots, Remove(r), row' # row
        PROVE  slot[r].st = "remove" /\ slot[r].saw = row /\ slot'[r] = Idle
    BY <1>1, <2>3 DEF Remove, Ends, Inv, TypeOK
  <2>4. QED
    BY <2>1, <2>2, <2>3
<1>2. Inv /\ [Next]_vars => [Sound]_vars
  BY <1>1
<1> HIDE DEF Sound
<1>3. Spec => [][Sound]_vars
  BY <1>2, Invariant, PTL DEF Spec
<1>4. QED
  BY <1>3 DEF ReactionLedger, Sound

\* The cached count of views is the number of those who viewed.
THEOREM ViewCountRight == Spec => []ViewsCounted
<1>1. Inv => ViewsCounted
  BY DEF Inv
<1>2. QED
  BY <1>1, Invariant, PTL

\* No poster of a message that is there was told that it failed.
THEOREM PostersToldRight == Spec => []FailedMeansNone
<1>1. Inv => FailedMeansNone
  BY DEF Inv, AttemptsApart
<1>2. QED
  BY <1>1, Invariant, PTL

\* A post begins where the thread is open.
LEMMA BeganOpen ==
  ASSUME Inv, [Next]_vars, NEW r \in Slots, slot'[r].st = "post", slot[r].st # "post"
  PROVE  status = "open" /\ status' = status
<1>1. slot \in [Slots -> Request] /\ Idle.st = "idle"
  BY DEF Inv, TypeOK, Request, Idle
<1>2. slot' # slot
  OBVIOUS
<1>3. ASSUME NEW q \in Slots, NEW s, s.st # "post", slot' = [slot EXCEPT ![q] = s]
      PROVE  FALSE
  BY <1>1, <1>3
<1>4. ASSUME NEW q \in Slots, NEW from, Ends(q, from) PROVE FALSE
  BY <1>1, <1>3, <1>4 DEF Ends
<1>5. ASSUME NEW q \in Slots, NEW from, NEW to, to # "post", Goes(q, from, to) PROVE FALSE
  <2> DEFINE s == [slot[q] EXCEPT !.st = to]
  <2>1. s.st = to /\ slot' = [slot EXCEPT ![q] = s]
    BY <1>1, <1>5 DEF Goes, Request
  <2> HIDE DEF s
  <2>2. QED
    BY <1>3, <1>5, <2>1
<1>6. ASSUME NEW q \in Slots, NEW s, s.st # "post", Takes(q, s) PROVE FALSE
  BY <1>3, <1>6 DEF Takes
<1>7. ASSUME NEW q \in Slots,
             AddBegins(q) \/ RemoveBegins(q) \/ \E u \in Principals : ViewBegins(q, u)
      PROVE  FALSE
  BY <1>6, <1>7 DEF AddBegins, RemoveBegins, ViewBegins, At, Idle
<1>8. ASSUME NEW q \in Slots,
             \/ \E u \in Principals, f \in 1 .. MaxPosts : MarkBegins(q, u, f)
             \/ \E t \in Threads, p \in Patches : PatchBegins(q, t, p)
      PROVE  FALSE
  BY <1>6, <1>8 DEF MarkBegins, PatchBegins, At, Idle
<1>9. ASSUME NEW q \in Slots,
             \/ AddFinds(q) \/ AddLooks(q) \/ Add(q) \/ Remove(q) \/ ViewFinds(q) \/ View(q)
             \/ Post(q) \/ PostFails(q) \/ Notify(q) \/ NotifyFails(q) \/ Mark(q) \/ Patch(q)
      PROVE  FALSE
  BY <1>4, <1>5, <1>9 DEF AddFinds, AddLooks, Add, Remove, ViewFinds, View, Post, PostFails,
    Notify, NotifyFails, Mark, Patch
<1>10. ASSUME NEW q \in Slots, RemoveFinds(q) \/ Crash(q) PROVE FALSE
  BY <1>1, <1>3, <1>10 DEF RemoveFinds, Crash, At, Idle
<1>11. ~UNCHANGED vars /\ ~DeleteMessage /\ ~(\E s \in {"open", "closed", "hidden"} : Moderate(s))
       /\ ~(\E u \in Principals, fs \in SUBSET (1 .. MaxPosts) : MarkAll(u, fs))
  BY <1>2 DEF vars, DeleteMessage, Moderate, MarkAll
<1>12. PICK q \in Slots : PostBegins(q)
  BY <1>7, <1>8, <1>9, <1>10, <1>11 DEF Next, Step
<1>13. QED
  BY <1>12 DEF PostBegins

\* Whoever posts to a thread that is not open found it open.
THEOREM PostersFoundItOpen == Spec => []PostsOpenUnlessRaced
<1>1. Init => PostsOpenUnlessRaced
  BY DEF Init, PostsOpenUnlessRaced
<1>2. ASSUME Inv, PostsOpenUnlessRaced, [Next]_vars, NEW r \in Slots,
             slot'[r].st = "post", status' # "open"
      PROVE  r \in shut'
  <2>1. slot[r].st = "post"
    BY <1>2, BeganOpen
  <2>2. CASE UNCHANGED vars
    BY <1>2, <2>1, <2>2 DEF vars, PostsOpenUnlessRaced
  <2>3. CASE Observe
    BY <1>2, <2>1, <2>3 DEF Observe, Posting, PostsOpenUnlessRaced
  <2>4. QED
    BY <1>2, <2>2, <2>3 DEF Next
<1>3. Inv /\ PostsOpenUnlessRaced /\ [Next]_vars => PostsOpenUnlessRaced'
  BY <1>2 DEF PostsOpenUnlessRaced
<1>4. QED
  BY <1>1, <1>3, Invariant, PTL DEF Spec

\* No two batches report the same fact as marked by them.
THEOREM BatchesDisjoint == Spec => []MarkedOnce
<1>1. Inv => MarkedOnce
  <2>1. Inv => facts \subseteq 1 .. MaxPosts
    BY DEF Inv, TypeOK
  <2>2. QED
    BY <2>1 DEF Inv, UnreadUncounted, MarkedOnce
<1>2. QED
  BY <1>1, Invariant, PTL

\* The thread created for a workflow instance keeps its binding, and one bound
\* later loses it only to a patch judged against another context.
THEOREM BindingDriftsOnlyByRace == Spec => DriftsOnlyByRace
<1> DEFINE Kept == /\ ctx'[Bound0] = ctx[Bound0]
                   /\ \A t \in Threads : Workflow(ctx[t]) /\ ctx'[t] # ctx[t] =>
                        \E r \in Slots : /\ slot[r].st = "patch" /\ slot[r].on = t
                                         /\ slot[r].was # ctx[t] /\ slot'[r] = Idle
<1>1. ASSUME Inv, [Next]_vars PROVE Kept \/ UNCHANGED vars
  <2>1. ASSUME NEW r \in Slots, Patch(r) PROVE Kept
    BY <1>1, <2>1, ShutTyped, PatchStep
  <2>2. ctx' = ctx => Kept
    OBVIOUS
  <2>3. ctx' # ctx => UNCHANGED vars \/ \E r \in Slots : Patch(r)
    BY <1>1 DEF Next, Step, AddBegins, AddFinds, AddLooks, Add, RemoveBegins, RemoveFinds, Remove,
      ViewBegins, ViewFinds, View, PostBegins, Post, PostFails, Notify, NotifyFails,
      MarkBegins, Mark, PatchBegins, Crash, MarkAll, Moderate, DeleteMessage
  <2>4. QED
    BY <2>1, <2>2, <2>3
<1>2. Inv /\ [Next]_vars => [Kept]_vars
  BY <1>1
<1> HIDE DEF Kept
<1>3. Spec => [][Kept]_vars
  BY <1>2, Invariant, PTL DEF Spec
<1>4. QED
  BY <1>3 DEF DriftsOnlyByRace, Kept
=============================================================================
