--------------------------- MODULE ObserverProofs ----------------------------
(***************************************************************************)
(* Theorems about the observer page, for any threads, any number of calls  *)
(* under way and any answers.  Both invariants are inductive as they       *)
(* stand: the page keeps them with each answer, whichever call it answers. *)
(***************************************************************************)
EXTENDS Observer, TLAPS

Inv == HeaderIsPolled /\ SkippedIsShown

LEMMA InitInv == Init => Inv
  BY DEF Init, Inv, HeaderIsPolled, SkippedIsShown

\* The steps that leave the page's view alone.
LEMMA ViewKept ==
  ASSUME Inv, UNCHANGED view
  PROVE  Inv'
  BY DEF Inv, HeaderIsPolled, SkippedIsShown, view

LEMMA StepInv ==
  ASSUME Inv, [Next]_vars
  PROVE  Inv'
<1>1. ASSUME NEW c \in Slots, NEW t \in Threads, Select(c, t) PROVE Inv'
  BY <1>1, ViewKept DEF Select
<1>2. ASSUME NEW c \in Slots, Shows(c) PROVE Inv'
  BY <1>2 DEF Shows, Inv, HeaderIsPolled, SkippedIsShown
<1>3. ASSUME NEW c \in Slots, Poll(c) PROVE Inv'
  BY <1>3, ViewKept DEF Poll
<1>4. ASSUME NEW c \in Slots, Draws(c) PROVE Inv'
  <2> DEFINE got == [thread |-> call[c].thread, msgs |-> call[c].msgs]
  <2>1. HeaderIsPolled' /\ header' = header
    BY <1>4 DEF Draws, Inv, HeaderIsPolled
  <2>2. Render(got)
    BY <1>4 DEF Draws
  <2>3. CASE got.msgs = {}
    BY <2>1, <2>2, <2>3 DEF Render, Inv, SkippedIsShown
  <2>4. CASE got.msgs # {} /\ got = prev
    BY <2>1, <2>2, <2>4 DEF Render, Inv, SkippedIsShown
  <2>5. CASE got.msgs # {} /\ got # prev
    BY <2>1, <2>2, <2>5 DEF Render, Inv, SkippedIsShown
  <2>6. QED
    BY <2>3, <2>4, <2>5
<1>5. ASSUME NEW c \in Slots, Fails(c) PROVE Inv'
  BY <1>5 DEF Fails, Inv, HeaderIsPolled, SkippedIsShown
<1>6. ASSUME NEW c \in Slots, NEW to \in {"messages", "transcript"}, SwitchTab(c, to)
      PROVE  Inv'
  BY <1>6, ViewKept DEF SwitchTab
<1>7. ASSUME NEW c \in Slots, Show(c) \/ Reads(c) PROVE Inv'
  BY <1>7, ViewKept DEF Show, Reads
<1>8. CASE Hide
  BY <1>8, ViewKept DEF Hide
<1>9. ASSUME NEW t \in Threads, Post(t) \/ \E m \in live[t] : Delete(t, m) PROVE Inv'
  BY <1>9, ViewKept DEF Post, Delete
<1>10. CASE UNCHANGED vars
  BY <1>10, ViewKept DEF vars
<1>11. QED
  BY <1>1, <1>2, <1>3, <1>4, <1>5, <1>6, <1>7, <1>8, <1>9, <1>10 DEF Next

-----------------------------------------------------------------------------

LEMMA Invariant == Spec => []Inv
<1>1. Init => Inv
  BY InitInv
<1>2. Inv /\ [Next]_vars => Inv'
  BY StepInv
<1>3. QED
  BY <1>1, <1>2, PTL DEF Spec

\* The header and the poll are of one thread, however selections overlap.
THEOREM OneThreadShown == Spec => []HeaderIsPolled
  BY Invariant, PTL DEF Inv

\* A list that is not drawn again is the one the timeline shows.
THEOREM SkippedDrawsShown == Spec => []SkippedIsShown
  BY Invariant, PTL DEF Inv
=============================================================================
