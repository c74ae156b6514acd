-------------------------- MODULE MouseLock_proofs --------------------------
(***************************************************************************)
(* The camera turns by what the hand moved and the pointer comes back to   *)
(* where the lock began: for any window, radius, steps of the hand, calls  *)
(* of the game and lengths of the two queues.                              *)
(*                                                                         *)
(* The two queues and the event handled last are read as one way of        *)
(* places.  An event that is posted moves from one queue to the other and  *)
(* the way stays; one that is handled shortens it at the front; a movement *)
(* of the pointer adds a place at its end.                                 *)
(***************************************************************************)
EXTENDS MouseLock, SequenceTheorems, TLAPS

Event == [delta : Int, at : Int, hand : Int]

\* The way of the events: the last one handled, those that wait, then X's motions.  Its
\* last place, and where the pointer and the hand were at place i.
Last == Len(events) + Len(motions)
At(i) == IF i = 0 THEN given.at
         ELSE IF i <= Len(events) THEN events[i].at ELSE motions[i - Len(events)].at
By(i) == IF i = 0 THEN given.hand
         ELSE IF i <= Len(events) THEN events[i].hand ELSE motions[i - Len(events)].hand

\* What the hand did not do until place i: the warps.
Offset(i) == At(i) - By(i)

Stepped(i) == By(i) - By(i - 1) \in Steps /\ At(i) - At(i - 1) = By(i) - By(i - 1)
Warped(i) == By(i) = By(i - 1) /\ At(i) # At(i - 1)

\* Each place is one step of the hand or one warp, and deltas are distances.
WayOK == ~compression =>
    /\ \A i \in 1..Len(events) : events[i].delta = At(i) - At(i - 1)
    /\ seen = At(Len(events))
    /\ pointer = At(Last) /\ hand = By(Last)
    /\ \A i \in 1..Last : Stepped(i) \/ Warped(i)

\* No step of the hand is taken for the warp.
Clear(warp) == warp # 0 /\ \A step \in Steps : ~Matches(step, warp)

\* While the lock holds there is no warp on the way, or the one whose event is to be dropped.
CameraOK == grabbed /\ ~compression /\ upset = {} =>
    /\ camera = given.hand - since
    /\ ~dropping => \A i \in 0..Last : Offset(i) = Offset(0)
    /\ dropping => /\ Clear(expected)
                   /\ \E p \in 1..Last : \A i \in 0..Last :
                          Offset(i) = IF i < p THEN Offset(0) ELSE Offset(0) + expected

\* Where the pointer will be back.
HomeOK ==
    /\ ~(grabbed /\ unlocking)
    /\ home # None =>
           /\ grabbed => home = frozen
           /\ unlocking => location # None /\ pointer - location = home - frozen
           /\ ~grabbed /\ ~unlocking => pointer = home

LockInv == TypeOK /\ HomeOK /\ WayOK /\ CameraOK

-------------------------------------------------------------------------------
(* The way and its places.                                                    *)

\* The way's types.
WayTypes == motions \in Seq(Motion) /\ events \in Seq(Event) /\ given \in Motion

\* The places have positions.
LEMMA Places ==
    ASSUME WayTypes
    PROVE  /\ Len(events) \in Nat /\ Len(motions) \in Nat /\ Last \in Nat /\ Len(events) \in 0..Last
           /\ \A i \in 0..Last : At(i) \in Int /\ By(i) \in Int /\ Offset(i) \in Int
           /\ \A i \in 1..Last : i - 1 \in 0..Last /\ i \in 0..Last
           /\ \A i \in 1..Len(events) : events[i] \in Event /\ events[i].delta \in Int
           /\ \A i \in 1..Len(motions) : motions[i] \in Motion
<1>1. Len(events) \in Nat /\ Len(motions) \in Nat
  BY LenProperties DEF WayTypes
<1>2. /\ \A i \in 1..Len(events) : events[i] \in Event
      /\ \A i \in 1..Len(motions) : motions[i] \in Motion
  BY ElementOfSeq DEF WayTypes
<1>3. \A i \in 1..Len(events) : events[i].at \in Int /\ events[i].hand \in Int /\ events[i].delta \in Int
  BY <1>2 DEF Event
<1>4. \A i \in 1..Len(motions) : motions[i].at \in Int /\ motions[i].hand \in Int
  BY <1>2 DEF Motion
<1>5. given.at \in Int /\ given.hand \in Int
  BY DEF WayTypes, Motion
<1>6. ASSUME NEW i \in 0..Last PROVE At(i) \in Int /\ By(i) \in Int
  <2>1. CASE i = 0
    BY <1>5, <2>1 DEF At, By
  <2>2. CASE i # 0 /\ i <= Len(events)
    <3>1. i \in 1..Len(events)
      BY <1>1, <2>2
    <3> QED
      BY <1>3, <2>2, <3>1 DEF At, By
  <2>3. CASE i # 0 /\ ~(i <= Len(events))
    <3>1. i - Len(events) \in 1..Len(motions)
      BY <1>1, <2>3 DEF Last
    <3> QED
      BY <1>4, <2>3, <3>1 DEF At, By
  <2> QED
    BY <2>1, <2>2, <2>3
<1> QED
  BY <1>1, <1>2, <1>3, <1>6 DEF Last, Offset

\* A place is added at the end.
LEMMA PlaceAdded ==
    ASSUME WayTypes, NEW to \in Int, NEW by \in Int,
           motions' = Append(motions, [at |-> to, hand |-> by]), UNCHANGED <<events, given>>
    PROVE  /\ WayTypes' /\ Last' = Last + 1
           /\ \A i \in 0..Last : At(i)' = At(i) /\ By(i)' = By(i)
           /\ At(Last)' = to /\ By(Last)' = by
<1>1. PICK m \in Motion : m = [at |-> to, hand |-> by]
  BY DEF Motion
<1>2. /\ motions' \in Seq(Motion) /\ Len(motions') = Len(motions) + 1
      /\ \A i \in 1..Len(motions) : motions'[i] = motions[i]
      /\ motions'[Len(motions) + 1] = m
  BY <1>1, AppendProperties DEF WayTypes
<1>3. WayTypes' /\ Last' = Last + 1
  BY <1>2, Places DEF WayTypes, Last
<1>4. ASSUME NEW i \in 0..Last PROVE At(i)' = At(i) /\ By(i)' = By(i)
  <2>1. CASE i <= Len(events)
    BY <2>1 DEF At, By
  <2>2. CASE ~(i <= Len(events))
    <3>1. i - Len(events) \in 1..Len(motions)
      BY <2>2, Places DEF Last
    <3> QED
      BY <1>2, <2>2, <3>1 DEF At, By
  <2> QED
    BY <2>1, <2>2
<1>5. At(Last)' = to /\ By(Last)' = by
  <2>1. Last' # 0 /\ ~(Last' <= Len(events')) /\ Last' - Len(events') = Len(motions) + 1
    BY <1>3, Places DEF Last
  <2>2. m.at = to /\ m.hand = by
    BY <1>1
  <2> QED
    BY <1>2, <2>1, <2>2 DEF At, By
<1> QED
  BY <1>3, <1>4, <1>5

\* An event is handled: the places move up.
LEMMA PlacesMoveUp ==
    ASSUME WayTypes, events # <<>>, events' = Tail(events), UNCHANGED motions,
           given' = [at |-> Head(events).at, hand |-> Head(events).hand]
    PROVE  /\ WayTypes' /\ Last \in Nat \ {0} /\ Last' = Last - 1
           /\ \A i \in 0..(Last - 1) : At(i)' = At(i + 1) /\ By(i)' = By(i + 1)
           /\ Len(events') = Len(events) - 1 /\ Len(events) \in 1..Last
           /\ \A i \in 1..Len(events') : events'[i] = events[i + 1]
           /\ Head(events) = events[1]
<1>1. Len(events) # 0
  BY EmptySeq, LenProperties DEF WayTypes
<1>2. /\ events' \in Seq(Event) /\ Len(events') = Len(events) - 1
      /\ \A i \in 1..Len(events') : events'[i] = events[i + 1]
      /\ Head(events) = events[1] /\ Head(events) \in Event
  BY <1>1, HeadTailProperties, LenProperties DEF WayTypes
<1>3. Last \in Nat \ {0} /\ Last' = Last - 1 /\ Len(events) \in 1..Last
  BY <1>1, <1>2, Places DEF Last
<1>4. Head(events).at \in Int /\ Head(events).hand \in Int
  BY <1>2 DEF Event
<1>5. WayTypes'
  BY <1>2, <1>4 DEF WayTypes, Motion
<1>6. ASSUME NEW i \in 0..(Last - 1) PROVE At(i)' = At(i + 1) /\ By(i)' = By(i + 1)
  <2>1. CASE i = 0
    <3>1. 1 <= Len(events)
      BY <1>1, Places
    <3>2. given'.at = events[1].at /\ given'.hand = events[1].hand
      BY <1>2
    <3> QED
      BY <2>1, <3>1, <3>2 DEF At, By
  <2>2. CASE i # 0 /\ i <= Len(events')
    <3>1. i \in 1..Len(events') /\ i + 1 # 0 /\ i + 1 <= Len(events)
      BY <1>2, <2>2, Places
    <3> QED
      BY <1>2, <2>2, <3>1 DEF At, By
  <2>3. CASE i # 0 /\ ~(i <= Len(events'))
    <3>1. i + 1 # 0 /\ ~(i + 1 <= Len(events)) /\ i + 1 - Len(events) = i - Len(events')
      BY <1>2, <2>3, Places
    <3> QED
      BY <2>3, <3>1 DEF At, By
  <2> QED
    BY <2>1, <2>2, <2>3
<1> QED
  BY <1>2, <1>3, <1>5, <1>6

\* An event is handled and the pointer is moved back: the places move up, one is added.
LEMMA PlacesTurn ==
    ASSUME WayTypes, events # <<>>, events' = Tail(events), NEW to \in Int, NEW by \in Int,
           motions' = Append(motions, [at |-> to, hand |-> by]),
           given' = [at |-> Head(events).at, hand |-> Head(events).hand]
    PROVE  /\ WayTypes' /\ Last \in Nat \ {0} /\ Last' = Last
           /\ \A i \in 0..(Last - 1) : At(i)' = At(i + 1) /\ By(i)' = By(i + 1)
           /\ At(Last)' = to /\ By(Last)' = by
           /\ Len(events') = Len(events) - 1 /\ Len(events) \in 1..Last
           /\ \A i \in 1..Len(events') : events'[i] = events[i + 1]
           /\ Head(events) = events[1]
<1>1. Len(events) # 0
  BY EmptySeq, LenProperties DEF WayTypes
<1>2. /\ events' \in Seq(Event) /\ Len(events') = Len(events) - 1
      /\ \A i \in 1..Len(events') : events'[i] = events[i + 1]
      /\ Head(events) = events[1] /\ Head(events) \in Event
  BY <1>1, HeadTailProperties, LenProperties DEF WayTypes
<1>3. PICK m \in Motion : m = [at |-> to, hand |-> by]
  BY DEF Motion
<1>4. /\ motions' \in Seq(Motion) /\ Len(motions') = Len(motions) + 1
      /\ \A i \in 1..Len(motions) : motions'[i] = motions[i]
      /\ motions'[Len(motions) + 1] = m
  BY <1>3, AppendProperties DEF WayTypes
<1>5. Last \in Nat \ {0} /\ Last' = Last /\ Len(events) \in 1..Last
  BY <1>1, <1>2, <1>4, Places DEF Last
<1>6. Head(events).at \in Int /\ Head(events).hand \in Int
  BY <1>2 DEF Event
<1>7. WayTypes'
  BY <1>2, <1>4, <1>6 DEF WayTypes, Motion
<1>8. ASSUME NEW i \in 0..(Last - 1) PROVE At(i)' = At(i + 1) /\ By(i)' = By(i + 1)
  <2>1. CASE i = 0
    <3>1. 1 <= Len(events)
      BY <1>1, Places
    <3>2. given'.at = events[1].at /\ given'.hand = events[1].hand
      BY <1>2
    <3> QED
      BY <2>1, <3>1, <3>2 DEF At, By
  <2>2. CASE i # 0 /\ i <= Len(events')
    <3>1. i \in 1..Len(events') /\ i + 1 # 0 /\ i + 1 <= Len(events)
      BY <1>2, <2>2, Places
    <3> QED
      BY <1>2, <2>2, <3>1 DEF At, By
  <2>3. CASE i # 0 /\ ~(i <= Len(events'))
    <3>1. i + 1 # 0 /\ ~(i + 1 <= Len(events)) /\ i + 1 - Len(events) = i - Len(events')
      BY <1>2, <2>3, Places
    <3>2. i - Len(events') \in 1..Len(motions)
      BY <1>2, <2>3, Places DEF Last
    <3> QED
      BY <1>4, <2>3, <3>1, <3>2 DEF At, By
  <2> QED
    BY <2>1, <2>2, <2>3
<1>9. At(Last)' = to /\ By(Last)' = by
  <2>1. Last' # 0 /\ ~(Last' <= Len(events')) /\ Last' - Len(events') = Len(motions) + 1
    BY <1>1, <1>2, <1>5, Places DEF Last
  <2>2. m.at = to /\ m.hand = by
    BY <1>3
  <2> QED
    BY <1>4, <2>1, <2>2 DEF At, By
<1> QED
  BY <1>2, <1>5, <1>7, <1>8, <1>9

\* An event is posted: it moves from one queue to the other.
LEMMA PlacesStay ==
    ASSUME WayTypes, motions # <<>>, motions' = Tail(motions), UNCHANGED given,
           NEW delta \in Int,
           events' = Append(events, [delta |-> delta, at |-> Head(motions).at, hand |-> Head(motions).hand])
    PROVE  /\ WayTypes' /\ Last' = Last
           /\ \A i \in 0..Last : At(i)' = At(i) /\ By(i)' = By(i)
           /\ Len(events') = Len(events) + 1 /\ Len(events') \in 1..Last
           /\ \A i \in 1..Len(events) : events'[i] = events[i]
           /\ events'[Len(events')].delta = delta
           /\ Head(motions).at = At(Len(events'))
<1>1. Len(motions) # 0
  BY EmptySeq, LenProperties DEF WayTypes
<1>2. /\ motions' \in Seq(Motion) /\ Len(motions') = Len(motions) - 1
      /\ \A i \in 1..Len(motions') : motions'[i] = motions[i + 1]
      /\ Head(motions) = motions[1] /\ Head(motions) \in Motion
  BY <1>1, HeadTailProperties, LenProperties DEF WayTypes
<1>3. Head(motions).at \in Int /\ Head(motions).hand \in Int
  BY <1>2 DEF Motion
<1>4. PICK e \in Event : e = [delta |-> delta, at |-> Head(motions).at, hand |-> Head(motions).hand]
  BY <1>3 DEF Event
<1>5. e.delta = delta /\ e.at = Head(motions).at /\ e.hand = Head(motions).hand
  BY <1>4
<1>6. /\ events' \in Seq(Event) /\ Len(events') = Len(events) + 1
      /\ \A i \in 1..Len(events) : events'[i] = events[i]
      /\ events'[Len(events) + 1] = e
  BY <1>4, AppendProperties DEF WayTypes
<1>7. WayTypes' /\ Last' = Last /\ Len(events') \in 1..Last
  BY <1>1, <1>2, <1>6, Places DEF WayTypes, Last
<1>8. ASSUME NEW i \in 0..Last PROVE At(i)' = At(i) /\ By(i)' = By(i)
  <2> DEFINE n == Len(events)
  <2>4. n \in Nat /\ Len(motions) \in Nat /\ i \in Int /\ Len(events') = n + 1
    BY <1>6, Places
  <2>1. CASE i <= Len(events)
    <3>1. i # 0 => i \in 1..Len(events)
      BY <2>1, Places
    <3>2. i <= Len(events')
      BY <2>1, <2>4
    <3> QED
      BY <1>6, <2>1, <3>1, <3>2 DEF At, By
  <2>2. CASE i = Len(events) + 1
    <3>1. i # 0 /\ ~(i <= Len(events)) /\ i <= Len(events') /\ i - Len(events) = 1
      BY <2>2, <2>4
    <3> QED
      BY <1>2, <1>5, <1>6, <2>2, <3>1 DEF At, By
  <2>3. CASE ~(i <= Len(events)) /\ i # Len(events) + 1
    <3>1. /\ i # 0 /\ ~(i <= Len(events')) /\ i - Len(events') \in 1..Len(motions')
          /\ i - Len(events') + 1 = i - Len(events)
      BY <1>2, <2>3, <2>4 DEF Last
    <3> QED
      BY <1>2, <2>3, <3>1 DEF At, By
  <2> QED
    BY <2>1, <2>2, <2>3
<1>9. Head(motions).at = At(Len(events'))
  <2>1. Len(events') # 0 /\ ~(Len(events') <= Len(events)) /\ Len(events') - Len(events) = 1
    BY <1>6, Places
  <2> QED
    BY <1>2, <2>1 DEF At
<1> QED
  BY <1>5, <1>6, <1>7, <1>8, <1>9
-------------------------------------------------------------------------------
(* The types.                                                                 *)

\* The types, and what is known of a state.
LEMMA TypeFacts ==
    ASSUME TypeOK
    PROVE  /\ WayTypes /\ pointer \in Int /\ seen \in Int /\ hand \in Int /\ since \in Int /\ camera \in Int
           /\ frozen \in Int /\ anchor \in Int /\ expected \in Int
           /\ given.at \in Int /\ given.hand \in Int
           /\ location \in Int \cup {None} /\ home \in Int \cup {None}
           /\ None \notin Int /\ Steps \subseteq Int /\ Targets \subseteq Int
BY LockAssumption DEF TypeOK, WayTypes, Event, Motion

\* What moving the pointer leaves.
LEMMA MovedTypes ==
    ASSUME WayTypes, NEW to \in Int, NEW by \in Int, Moved(to, by)
    PROVE  pointer' = to /\ pointer' \in Int /\ motions' \in Seq(Motion)
<1>1. [at |-> to, hand |-> by] \in Motion
  BY DEF Motion
<1> QED
  BY <1>1, AppendProperties DEF Moved, WayTypes

\* An anchor other than the place of the press is inside the window.
LEMMA AnchorInside ==
    ASSUME NEW at \in Int
    PROVE  /\ AnchorFor(at) \in Int
           /\ AnchorFor(at) # at =>
                  AnchorFor(at) \in {Width \div 2} \cup (Radius + 20)..(Width - Radius - 20)
<1>1. Width \in Nat /\ Radius \in Nat /\ Width \div 2 \in Int
  BY LockAssumption
<1> QED
  BY <1>1 DEF AnchorFor

\* One step, action by action.
LEMMA TypesKept == ASSUME TypeOK, [Next]_vars PROVE TypeOK'
<1> USE TypeFacts
<1>1. ASSUME NEW step \in Steps, MoveHand(step) PROVE TypeOK'
  <2>1. step \in Int /\ pointer + step \in Int /\ hand + step \in Int
    BY DEF TypeOK
  <2>2. pointer' \in Int /\ motions' \in Seq(Motion) /\ hand' \in Int
    BY <1>1, <2>1, MovedTypes DEF MoveHand
  <2>3. home' \in Int \cup {None} /\ moves' \in 0..MaxMoves
    BY <1>1, <2>1, LockAssumption DEF MoveHand, TypeOK
  <2> QED
    BY <1>1, <2>2, <2>3 DEF MoveHand, lockVars, seenVars, TypeOK
<1>2. CASE PostXEvent
  <2>1. motions' \in Seq(Motion) /\ Head(motions) \in Motion
    BY <1>2, HeadTailProperties, EmptySeq DEF PostXEvent, WayTypes
  <2>2. Head(motions).at \in Int /\ Head(motions).hand \in Int
    BY <2>1 DEF Motion
  <2>3. [delta |-> Head(motions).at - seen, at |-> Head(motions).at, hand |-> Head(motions).hand] \in Event
    BY <2>2 DEF Event
  <2>4. events' \in Seq(Event) /\ seen' \in Int
    <3>1. CASE UNCHANGED <<events, seen>>
      BY <3>1 DEF WayTypes
    <3>2. CASE /\ events' = Append(events, [delta |-> Head(motions).at - seen, at |-> Head(motions).at,
                                            hand |-> Head(motions).hand])
               /\ seen' = Head(motions).at
      <4> DEFINE e == [delta |-> Head(motions).at - seen, at |-> Head(motions).at,
                       hand |-> Head(motions).hand]
      <4>1. e \in Event
        BY <2>3
      <4>2. events' = Append(events, e)
        BY <3>2
      <4> HIDE DEF e
      <4> QED
        BY <2>2, <3>2, <4>1, <4>2, AppendProperties DEF WayTypes
    <3> QED
      BY <1>2, <3>1, <3>2 DEF PostXEvent
  <2> QED
    BY <1>2, <2>1, <2>4 DEF PostXEvent, lockVars, seenVars, counts, TypeOK, Event
<1>3. ASSUME events # <<>>, events' = Tail(events),
             given' = [at |-> Head(events).at, hand |-> Head(events).hand]
      PROVE  events' \in Seq(Event) /\ given' \in Motion /\ Head(events) \in Event /\ Head(events).at \in Int
             /\ Head(events).delta \in Int
  <2>1. events' \in Seq(Event) /\ Head(events) \in Event
    BY <1>3, HeadTailProperties, EmptySeq DEF WayTypes
  <2> QED
    BY <1>3, <2>1 DEF Event, Motion
<1>4. CASE HandleFreeMotion
  BY <1>3, <1>4 DEF HandleFreeMotion, lockVars, counts, TypeOK, Event
<1>5. CASE DropWarpMotion
  BY <1>3, <1>5 DEF DropWarpMotion, lockVars, counts, TypeOK, Event
<1>6. CASE TurnCamera
  <2>1. /\ events' \in Seq(Event) /\ given' \in Motion /\ Head(events).at \in Int
        /\ Head(events).delta \in Int
    BY <1>3, <1>6 DEF TurnCamera
  <2>2. camera' \in Int
    BY <1>6, <2>1 DEF TurnCamera
  <2> DEFINE back == anchor - Head(events).at
  <2>3. back \in Int
    BY <2>1
  <2>4. \/ UNCHANGED <<pointer, motions, expected, dropping, anchor_pending, upset>>
        \/ WarpPointerBy(back) /\ anchor_pending' = FALSE /\ upset' \subseteq upset \cup {"unclear"}
    BY <1>6 DEF TurnCamera
  <2> HIDE DEF back
  <2>5. /\ pointer' \in Int /\ motions' \in Seq(Motion) /\ expected' \in Int /\ dropping' \in BOOLEAN
        /\ anchor_pending' \in BOOLEAN /\ upset' \subseteq {"early", "unclear"}
        /\ anchor_pending' => anchor_pending
    <3>1. CASE UNCHANGED <<pointer, motions, expected, dropping, anchor_pending, upset>>
      BY <3>1 DEF TypeOK
    <3>2. CASE WarpPointerBy(back) /\ anchor_pending' = FALSE /\ upset' \subseteq upset \cup {"unclear"}
      <4>1. CASE back = 0
        BY <3>2, <4>1 DEF WarpPointerBy, TypeOK
      <4>2. CASE back # 0
        <5>1. pointer + back \in Int
          BY <2>3
        <5> QED
          BY <2>3, <3>2, <4>2, <5>1, MovedTypes DEF WarpPointerBy, TypeOK
      <4> QED
        BY <4>1, <4>2
    <3> QED
      BY <2>4, <3>1, <3>2
  <2> QED
    BY <1>6, <2>1, <2>2, <2>5 DEF TurnCamera, lockVars, counts, TypeOK, Event
<1>7. ASSUME NEW window \in BOOLEAN, Lock(window) PROVE TypeOK'
  <2>1. frozen' \in Int /\ home' \in Int \cup {None}
    BY <1>7 DEF Lock
  <2>2. /\ anchor' \in Int /\ anchor_pending' \in BOOLEAN
        /\ anchor_pending' => anchor' \in {Width \div 2} \cup (Radius + 20)..(Width - Radius - 20)
    BY <1>7, <2>1, AnchorInside DEF Lock
  <2>3. calls' \in 0..MaxCalls
    BY <1>7, LockAssumption DEF Lock, TypeOK
  <2>4. /\ grabbed' \in BOOLEAN /\ dropping' \in BOOLEAN /\ since' \in Int /\ camera' \in Int
        /\ upset' \subseteq {"early", "unclear"}
    <3>1. grabbed' = TRUE /\ dropping' = FALSE
      BY <1>7, Zenon DEF Lock
    <3>2. since' = given.hand /\ camera' = 0
      BY <1>7, Zenon DEF Lock
    <3>3. upset' = IF WarpInFlight THEN {"early"} ELSE {}
      BY <1>7, Zenon DEF Lock
    <3>4. grabbed' \in BOOLEAN /\ dropping' \in BOOLEAN
      BY <3>1, Zenon
    <3>5. since' \in Int /\ camera' \in Int
      BY <3>2
    <3> QED
      BY <3>3, <3>4, <3>5
  <2>5. UNCHANGED <<pointer, motions, seen, events, expected, pending_warp, unlocking,
                    location, compression, hand, given, moves>>
    BY <1>7 DEF Lock
  <2> QED
    BY <2>1, <2>2, <2>3, <2>4, <2>5 DEF TypeOK
<1>8. ASSUME NEW window \in BOOLEAN, Unlock(window) PROVE TypeOK'
  <2>1. calls' \in 0..MaxCalls
    BY <1>8, LockAssumption DEF Unlock, TypeOK
  <2>2. location' \in Int \cup {None} /\ home' \in Int \cup {None} /\ pending_warp' \in Int \cup {None}
    BY <1>8 DEF Unlock, PointerPosition
  <2>3. grabbed' \in BOOLEAN /\ dropping' \in BOOLEAN /\ unlocking' \in BOOLEAN /\ since' \in Int /\ camera' \in Int
    <3>1. grabbed' = FALSE /\ dropping' = FALSE /\ unlocking' = TRUE
      BY <1>8, Zenon DEF Unlock
    <3>2. since' = 0 /\ camera' = 0
      BY <1>8, Zenon DEF Unlock
    <3>3. grabbed' \in BOOLEAN /\ dropping' \in BOOLEAN /\ unlocking' \in BOOLEAN
      BY <3>1, Zenon
    <3>4. since' \in Int /\ camera' \in Int
      BY <3>2
    <3> QED
      BY <3>3, <3>4
  <2>4. UNCHANGED <<pointer, motions, seen, events, anchor_pending, expected, compression,
                    frozen, anchor, hand, given, upset, moves>>
    BY <1>8 DEF Unlock
  <2> QED
    BY <2>1, <2>2, <2>3, <2>4 DEF TypeOK
<1>9. CASE RestorePointer
  <2>1. pointer' \in Int /\ motions' \in Seq(Motion) /\ expected' \in Int
    <3>1. CASE location = None \/ location = frozen
      BY <1>9, <3>1 DEF RestorePointer, TypeOK
    <3>2. CASE ~(location = None \/ location = frozen)
      <4>1. pointer + frozen - location \in Int /\ frozen - location \in Int
        BY <3>2
      <4> QED
        BY <1>9, <3>2, <4>1, MovedTypes DEF RestorePointer
    <3> QED
      BY <3>1, <3>2
  <2> QED
    BY <1>9, <2>1 DEF RestorePointer, seenVars, counts, TypeOK
<1>10. ASSUME NEW to \in Targets, WarpCursor(to) PROVE TypeOK'
  <2>1. to \in Int
    OBVIOUS
  <2>2. pointer' \in Int /\ motions' \in Seq(Motion)
    BY <1>10, <2>1, MovedTypes DEF WarpCursor, TypeOK
  <2>3. pending_warp' \in Int \cup {None} /\ home' \in Int \cup {None}
    BY <1>10, <2>1 DEF WarpCursor, TypeOK
  <2>4. calls' \in 0..MaxCalls
    BY <1>10, LockAssumption DEF WarpCursor, TypeOK
  <2> QED
    BY <1>10, <2>2, <2>3, <2>4 DEF WarpCursor, lockVars, seenVars, TypeOK
<1>11. CASE UNCHANGED vars
  BY <1>11 DEF vars, lockVars, seenVars, counts, TypeOK
<1> QED
  BY <1>1, <1>2, <1>4, <1>5, <1>6, <1>7, <1>8, <1>9, <1>10, <1>11 DEF Next, Main, Game

\* At first.
LEMMA TypesBegin == Init => TypeOK
<1> SUFFICES ASSUME Init PROVE TypeOK
  OBVIOUS
<1>1. <<>> \in Seq(Motion) /\ <<>> \in Seq(Event)
  BY EmptySeq
<1>2. pointer \in Int /\ given \in Motion
  BY LockAssumption DEF Init, Motion
<1>3. motions = <<>> /\ events = <<>> /\ seen = pointer /\ home = None /\ pending_warp = None /\ location = None
  BY DEF Init
<1>4. /\ frozen = 0 /\ anchor = 0 /\ expected = 0 /\ hand = 0 /\ since = 0 /\ camera = 0
      /\ upset = {} /\ moves = 0 /\ calls = 0
  BY DEF Init
<1>5. /\ compression \in BOOLEAN /\ grabbed \in BOOLEAN /\ dropping \in BOOLEAN /\ unlocking \in BOOLEAN
      /\ anchor_pending \in BOOLEAN /\ ~anchor_pending
  BY DEF Init
<1>6. moves \in 0..MaxMoves /\ calls \in 0..MaxCalls
  BY <1>4, LockAssumption
<1> QED
  BY <1>1, <1>2, <1>3, <1>4, <1>5, <1>6 DEF TypeOK, Event

-------------------------------------------------------------------------------
(* Where the pointer returns to.                                              *)

\* One step, action by action.
LEMMA HomeKept == ASSUME TypeOK, HomeOK, [Next]_vars PROVE HomeOK'
<1> USE TypeFacts DEF HomeOK
<1>1. ASSUME NEW step \in Steps, MoveHand(step) PROVE HomeOK'
  <2>1. step \in Int /\ pointer' = pointer + step
    BY <1>1 DEF MoveHand, Moved
  <2> QED
    BY <1>1, <2>1 DEF MoveHand, lockVars
<1>2. CASE PostXEvent \/ HandleFreeMotion \/ DropWarpMotion
  BY <1>2 DEF PostXEvent, HandleFreeMotion, DropWarpMotion, lockVars
<1>3. CASE TurnCamera
  BY <1>3 DEF TurnCamera, lockVars
<1>4. ASSUME NEW window \in BOOLEAN, Lock(window) PROVE HomeOK'
  BY <1>4 DEF Lock
<1>5. ASSUME NEW window \in BOOLEAN, Unlock(window) PROVE HomeOK'
  BY <1>5 DEF Unlock, PointerPosition
<1>6. CASE RestorePointer
  <2>1. ~grabbed' /\ ~unlocking' /\ home' = home
    BY <1>6 DEF RestorePointer
  <2>2. ASSUME home # None PROVE pointer' = home
    <3>1. /\ location # None /\ pointer - location = home - frozen
          /\ home \in Int /\ location \in Int /\ pointer \in Int /\ frozen \in Int
      BY <1>6, <2>2 DEF RestorePointer
    <3>2. CASE location = frozen
      BY <1>6, <3>1, <3>2 DEF RestorePointer
    <3>3. CASE location # frozen
      <4>1. pointer' = pointer + frozen - location
        BY <1>6, <3>1, <3>3 DEF RestorePointer, Moved
      <4> QED
        BY <3>1, <4>1
    <3> QED
      BY <3>2, <3>3
  <2> QED
    BY <2>1, <2>2
<1>7. ASSUME NEW to \in Targets, WarpCursor(to) PROVE HomeOK'
  BY <1>7 DEF WarpCursor, lockVars
<1>8. CASE UNCHANGED vars
  BY <1>8 DEF vars, lockVars
<1> QED
  BY <1>1, <1>2, <1>3, <1>4, <1>5, <1>6, <1>7, <1>8 DEF Next, Main, Game

-------------------------------------------------------------------------------
(* The way.                                                                   *)

\* The queues stay.
LEMMA WayStays ==
    ASSUME WayOK, UNCHANGED <<pointer, motions, seen, events, given, hand, compression>>
    PROVE  WayOK'
BY DEF WayOK, Last, At, By, Stepped, Warped

\* A place is added: a step of the hand or a warp.
LEMMA WayGrows ==
    ASSUME TypeOK, WayOK, NEW to \in Int, NEW by \in Int, Moved(to, by), hand' = by,
           \/ by - hand \in Steps /\ to - pointer = by - hand
           \/ by = hand /\ to # pointer,
           UNCHANGED <<events, given, seen, compression>>
    PROVE  WayOK'
<1> SUFFICES ASSUME ~compression PROVE WayOK'
  BY DEF WayOK
<1>1. /\ Last' = Last + 1 /\ At(Last)' = to /\ By(Last)' = by
      /\ \A i \in 0..Last : At(i)' = At(i) /\ By(i)' = By(i)
  BY PlaceAdded, TypeFacts DEF Moved
<1>2. pointer' = to
  BY DEF Moved
<1>3. /\ Last \in Nat /\ Len(events) \in 0..Last
      /\ \A i \in 1..Last : i - 1 \in 0..Last /\ i \in 0..Last
  BY Places, TypeFacts
<1>4. /\ \A i \in 1..Len(events) : events[i].delta = At(i) - At(i - 1)
      /\ seen = At(Len(events)) /\ pointer = At(Last) /\ hand = By(Last)
      /\ \A i \in 1..Last : Stepped(i) \/ Warped(i)
  BY DEF WayOK
<1>5. \A i \in 1..Len(events) : events[i].delta = At(i)' - At(i - 1)'
  BY <1>1, <1>3, <1>4
<1>6. seen' = At(Len(events))'
  <2>1. (At(Len(events)))' = At(Len(events))
    BY <1>1, <1>3 DEF At
  <2> QED
    BY <1>4, <2>1
<1>7. ASSUME NEW i \in 1..Last' PROVE (Stepped(i) \/ Warped(i))'
  <2>1. CASE i \in 1..Last
    BY <1>1, <1>3, <1>4, <2>1 DEF Stepped, Warped
  <2>2. CASE i \notin 1..Last
    <3>1. i = Last' /\ i - 1 = Last /\ Last \in 0..Last
      BY <1>1, <1>3, <2>2
    <3>2. At(i)' = to /\ By(i)' = by
      BY <1>1, <3>1
    <3>3. At(i - 1)' = pointer /\ By(i - 1)' = hand
      BY <1>1, <1>4, <3>1
    <3> QED
      BY <3>2, <3>3 DEF Stepped, Warped
  <2> QED
    BY <2>1, <2>2
<1> QED
  BY <1>1, <1>2, <1>5, <1>6, <1>7 DEF WayOK

\* An event is handled, and perhaps the pointer is moved back by `back`.
LEMMA WayShortens ==
    ASSUME TypeOK, WayOK, events # <<>>, events' = Tail(events),
           given' = [at |-> Head(events).at, hand |-> Head(events).hand],
           NEW back \in Int,
           (UNCHANGED <<pointer, motions>>) \/ (back # 0 /\ Moved(pointer + back, hand)),
           UNCHANGED <<seen, hand, compression>>
    PROVE  WayOK'
<1> SUFFICES ASSUME ~compression PROVE WayOK'
  BY DEF WayOK
<1> USE TypeFacts
<1>1. /\ Last \in Nat \ {0} /\ Len(events') = Len(events) - 1 /\ Len(events) \in 1..Last
      /\ \A i \in 1..Len(events') : events'[i] = events[i + 1]
      /\ \A i \in 0..(Last - 1) : At(i)' = At(i + 1) /\ By(i)' = By(i + 1)
      /\ \/ Last' = Last - 1 /\ pointer' = pointer
         \/ /\ Last' = Last /\ pointer' = pointer + back /\ back # 0
            /\ At(Last)' = pointer + back /\ By(Last)' = hand
  <2>1. CASE UNCHANGED <<pointer, motions>>
    BY <2>1, PlacesMoveUp
  <2>2. CASE back # 0 /\ Moved(pointer + back, hand)
    <3>1. pointer + back \in Int
      OBVIOUS
    <3> QED
      BY <2>2, <3>1, PlacesTurn DEF Moved
  <2> QED
    BY <2>1, <2>2
<1>2. /\ \A i \in 1..Len(events) : events[i].delta = At(i) - At(i - 1)
      /\ seen = At(Len(events)) /\ pointer = At(Last) /\ hand = By(Last)
      /\ \A i \in 1..Last : Stepped(i) \/ Warped(i)
  BY DEF WayOK
<1>3. ASSUME NEW i \in 1..Len(events') PROVE events'[i].delta = At(i)' - At(i - 1)'
  <2>1. i \in 0..(Last - 1) /\ i - 1 \in 0..(Last - 1) /\ i + 1 \in 1..Len(events) /\ (i - 1) + 1 = i /\ (i + 1) - 1 = i
    BY <1>1
  <2>2. At(i)' = At(i + 1) /\ At(i - 1)' = At(i)
    BY <1>1, <2>1
  <2>3. events[i + 1].delta = At(i + 1) - At(i)
    BY <1>2, <2>1
  <2> QED
    BY <1>1, <2>2, <2>3
<1>4. seen' = At(Len(events))'
  <2>1. Len(events') \in 0..(Last - 1) /\ Len(events') + 1 = Len(events)
    BY <1>1
  <2>2. \A i \in 0..(Last - 1) : i = Len(events') => At(i)' = (At(Len(events)))'
    BY DEF At
  <2>3. (At(Len(events)))' = At(Len(events))
    BY <1>1, <2>1, <2>2
  <2> QED
    BY <1>2, <2>3
<1>5. pointer' = At(Last)' /\ hand' = By(Last)'
  <2>1. CASE Last' = Last - 1 /\ pointer' = pointer
    <3>1. Last - 1 \in 0..(Last - 1) /\ (Last - 1) + 1 = Last
      BY <1>1
    <3>2. \A i \in 0..(Last - 1) : i = Last' => At(i)' = (At(Last))' /\ By(i)' = (By(Last))'
      BY DEF At, By
    <3> QED
      BY <1>1, <1>2, <2>1, <3>1, <3>2
  <2>2. CASE Last' = Last /\ pointer' = pointer + back /\ At(Last)' = pointer + back /\ By(Last)' = hand
    BY <2>2
  <2> QED
    BY <1>1, <2>1, <2>2
<1>6. ASSUME NEW i \in 1..Last' PROVE (Stepped(i) \/ Warped(i))'
  <2>1. CASE i \in 1..(Last - 1)
    <3>1. i \in 0..(Last - 1) /\ i - 1 \in 0..(Last - 1) /\ i + 1 \in 1..Last /\ (i - 1) + 1 = i /\ (i + 1) - 1 = i
      BY <1>1, <2>1
    <3>2. /\ At(i)' = At(i + 1) /\ By(i)' = By(i + 1) /\ At(i - 1)' = At(i) /\ By(i - 1)' = By(i)
      BY <1>1, <3>1
    <3>3. Stepped(i + 1) \/ Warped(i + 1)
      BY <1>2, <3>1
    <3> QED
      BY <3>1, <3>2, <3>3 DEF Stepped, Warped
  <2>2. CASE i \notin 1..(Last - 1)
    <3>1. /\ Last' = Last /\ i = Last /\ back # 0
          /\ At(Last)' = pointer + back /\ By(Last)' = hand
      BY <1>1, <2>2
    <3>2. i - 1 \in 0..(Last - 1) /\ (i - 1) + 1 = Last
      BY <1>1, <3>1
    <3>3. At(i - 1)' = pointer /\ By(i - 1)' = hand
      BY <1>1, <1>2, <3>2
    <3>4. At(i)' = pointer + back /\ By(i)' = hand
      BY <3>1 DEF At, By
    <3> QED
      BY <3>1, <3>3, <3>4 DEF Warped
  <2> QED
    BY <2>1, <2>2
<1> QED
  BY <1>3, <1>4, <1>5, <1>6 DEF WayOK

\* Without compression every motion becomes an event: the way stays.
LEMMA WayPosted == ASSUME TypeOK, WayOK, PostXEvent PROVE WayOK'
<1> SUFFICES ASSUME ~compression PROVE WayOK'
  BY DEF WayOK, PostXEvent
<1> USE TypeFacts
<1> DEFINE delta == Head(motions).at - seen
<1>1. /\ motions # <<>> /\ motions' = Tail(motions) /\ seen' = Head(motions).at
      /\ events' = Append(events, [delta |-> delta, at |-> Head(motions).at, hand |-> Head(motions).hand])
      /\ UNCHANGED <<pointer, hand, given, compression>>
  BY DEF PostXEvent, seenVars
<1>2. delta \in Int
  <2>1. Head(motions) \in Motion
    BY <1>1, HeadTailProperties, EmptySeq DEF WayTypes
  <2> QED
    BY <2>1 DEF Motion
<1> HIDE DEF delta
<1>3. /\ Last' = Last
      /\ \A i \in 0..Last : At(i)' = At(i) /\ By(i)' = By(i)
      /\ Len(events') = Len(events) + 1 /\ Len(events') \in 1..Last
      /\ \A i \in 1..Len(events) : events'[i] = events[i]
      /\ events'[Len(events')].delta = delta
      /\ Head(motions).at = At(Len(events'))
  BY <1>1, <1>2, PlacesStay
<1>4. /\ \A i \in 1..Len(events) : events[i].delta = At(i) - At(i - 1)
      /\ seen = At(Len(events)) /\ pointer = At(Last) /\ hand = By(Last)
      /\ \A i \in 1..Last : Stepped(i) \/ Warped(i)
  BY DEF WayOK
<1>5. Last \in Nat /\ Len(events) \in Nat /\ \A i \in 1..Last : i - 1 \in 0..Last /\ i \in 0..Last
  BY Places
<1>6. ASSUME NEW i \in 1..Len(events') PROVE events'[i].delta = At(i)' - At(i - 1)'
  <2>4. i \in 0..Last /\ i - 1 \in 0..Last
    <3>1. PICK n \in 1..Last : n = Len(events')
      BY <1>3
    <3>2. i \in 1..Last
      BY <1>5, <3>1
    <3> QED
      BY <1>5, <3>2
  <2>1. At(i)' = At(i) /\ At(i - 1)' = At(i - 1)
    BY <1>3, <2>4
  <2>2. CASE i \in 1..Len(events)
    <3>1. events'[i] = events[i] /\ events[i].delta = At(i) - At(i - 1)
      BY <1>3, <1>4, <2>2
    <3> QED
      BY <2>1, <3>1
  <2>3. CASE i = Len(events')
    <3>1. i - 1 = Len(events)
      BY <1>3, <1>5, <2>3
    <3> QED
      BY <1>3, <1>4, <2>1, <2>3, <3>1 DEF delta
  <2>5. Len(events) \in Nat /\ Len(events') = Len(events) + 1
    BY <1>3, <1>5
  <2> QED
    BY <2>2, <2>3, <2>5
<1>7. seen' = At(Len(events))'
  <2>1. \A i \in 0..Last : i = Len(events') => At(i)' = (At(Len(events)))'
    BY DEF At
  <2>2. PICK i \in 0..Last : i = Len(events')
    BY <1>3, <1>5
  <2>3. seen' = At(i)
    BY <1>1, <1>3, <2>2
  <2> QED
    BY <1>3, <2>1, <2>2, <2>3
<1>8. pointer' = At(Last)' /\ hand' = By(Last)'
  <2>1. \A i \in 0..Last : i = Last' => At(i)' = (At(Last))' /\ By(i)' = (By(Last))'
    BY DEF At, By
  <2> QED
    BY <1>1, <1>3, <1>4, <1>5, <2>1
<1>9. ASSUME NEW i \in 1..Last' PROVE (Stepped(i) \/ Warped(i))'
  <2>1. i \in 0..Last /\ i - 1 \in 0..Last /\ (Stepped(i) \/ Warped(i))
    BY <1>3, <1>4, <1>5
  <2>2. At(i)' = At(i) /\ At(i - 1)' = At(i - 1) /\ By(i)' = By(i) /\ By(i - 1)' = By(i - 1)
    BY <1>3, <2>1
  <2> QED
    BY <2>1, <2>2 DEF Stepped, Warped
<1> QED
  BY <1>6, <1>7, <1>8, <1>9 DEF WayOK

\* One step, action by action.
LEMMA WayKept == ASSUME TypeOK, WayOK, [Next]_vars PROVE WayOK'
<1> USE TypeFacts
<1>1. ASSUME NEW step \in Steps, MoveHand(step) PROVE WayOK'
  <2>1. step \in Int /\ pointer + step \in Int /\ hand + step \in Int
    OBVIOUS
  <2>2. (hand + step) - hand = step /\ (pointer + step) - pointer = step
    BY <2>1
  <2>3. Moved(pointer + step, hand + step) /\ hand' = hand + step
        /\ UNCHANGED <<events, given, seen, compression>>
    BY <1>1 DEF MoveHand, seenVars
  <2> QED
    BY <2>1, <2>2, <2>3, WayGrows
<1>2. CASE PostXEvent
  BY <1>2, WayPosted
<1>3. CASE HandleFreeMotion \/ DropWarpMotion
  <2>1. /\ events # <<>> /\ events' = Tail(events)
        /\ given' = [at |-> Head(events).at, hand |-> Head(events).hand]
        /\ UNCHANGED <<pointer, motions, seen, hand, compression>>
    BY <1>3 DEF HandleFreeMotion, DropWarpMotion
  <2>2. 0 \in Int
    OBVIOUS
  <2> QED
    BY <2>1, <2>2, WayShortens
<1>4. CASE TurnCamera
  <2> DEFINE back == anchor - Head(events).at
  <2>1. /\ events # <<>> /\ events' = Tail(events)
        /\ given' = [at |-> Head(events).at, hand |-> Head(events).hand]
        /\ UNCHANGED <<seen, hand, compression>>
        /\ UNCHANGED <<pointer, motions>> \/ WarpPointerBy(back)
    BY <1>4 DEF TurnCamera
  <2>2. back \in Int
    <3>1. Head(events) \in Event
      BY <2>1, HeadTailProperties, EmptySeq DEF WayTypes
    <3> QED
      BY <3>1 DEF Event
  <2> HIDE DEF back
  <2>3. UNCHANGED <<pointer, motions>> \/ (back # 0 /\ Moved(pointer + back, hand))
    BY <2>1 DEF WarpPointerBy
  <2> QED
    BY <2>1, <2>2, <2>3, WayShortens
<1>5. ASSUME NEW window \in BOOLEAN, Lock(window) \/ Unlock(window) PROVE WayOK'
  BY <1>5, WayStays DEF Lock, Unlock
<1>6. CASE RestorePointer
  <2>1. hand' = hand /\ UNCHANGED <<events, given, seen, compression>>
    BY <1>6 DEF RestorePointer, seenVars
  <2>2. CASE location = None \/ location = frozen
    BY <1>6, <2>1, <2>2, WayStays DEF RestorePointer
  <2>3. CASE ~(location = None \/ location = frozen)
    <3>1. pointer + frozen - location \in Int /\ pointer + frozen - location # pointer
      BY <2>3
    <3>2. Moved(pointer + frozen - location, hand)
      BY <1>6, <2>3 DEF RestorePointer
    <3> QED
      BY <2>1, <3>1, <3>2, WayGrows
  <2> QED
    BY <2>2, <2>3
<1>7. ASSUME NEW to \in Targets, WarpCursor(to) PROVE WayOK'
  <2>1. hand' = hand /\ UNCHANGED <<events, given, seen, compression>> /\ to \in Int
    BY <1>7 DEF WarpCursor, seenVars
  <2>2. UNCHANGED <<pointer, motions>> \/ (to # pointer /\ Moved(to, hand))
    BY <1>7 DEF WarpCursor
  <2> QED
    BY <2>1, <2>2, WayGrows, WayStays
<1>8. CASE UNCHANGED vars
  BY <1>8, WayStays DEF vars, seenVars
<1> QED
  BY <1>1, <1>2, <1>3, <1>4, <1>5, <1>6, <1>7, <1>8 DEF Next, Main, Game

-------------------------------------------------------------------------------
(* The camera.                                                                *)

\* A warp is taken for itself.
LEMMA MatchesItself == ASSUME NEW warp \in Int PROVE Matches(warp, warp)
<1>1. warp - warp = 0 /\ 4 * 0 * 0 = 0
  BY DEF Matches
<1>2. warp * warp >= 0
  OBVIOUS
<1> QED
  BY <1>1, <1>2 DEF Matches

\* The places stay, and with them what the camera showed.
LEMMA CameraStays ==
    ASSUME TypeOK, CameraOK, Last' = Last, \A i \in 0..Last : At(i)' = At(i) /\ By(i)' = By(i),
           UNCHANGED <<given, since, camera, grabbed, dropping, expected, upset, compression>>
    PROVE  CameraOK'
<1>1. \A i \in 0..Last : Offset(i)' = Offset(i)
  BY DEF Offset
<1>2. Offset(0)' = Offset(0)
  BY <1>1, Places, TypeFacts
<1>3. Clear(expected)' <=> Clear(expected)
  BY DEF Clear, Matches
<1> QED
  BY <1>1, <1>2, <1>3 DEF CameraOK

\* The hand moves: the new place has the offset of the last one.
LEMMA CameraMoves ==
    ASSUME TypeOK, WayOK, CameraOK, NEW step \in Steps, MoveHand(step)
    PROVE  CameraOK'
<1> SUFFICES ASSUME grabbed, ~compression, upset = {} PROVE CameraOK'
  BY DEF MoveHand, lockVars, CameraOK
<1> USE TypeFacts
<1>1. /\ UNCHANGED <<given, since, camera, grabbed, dropping, expected, upset, compression>>
      /\ Moved(pointer + step, hand + step) /\ UNCHANGED events
  BY DEF MoveHand, lockVars, seenVars
<1>2. step \in Int /\ pointer + step \in Int /\ hand + step \in Int
  OBVIOUS
<1>3. /\ Last' = Last + 1 /\ At(Last)' = pointer + step /\ By(Last)' = hand + step
      /\ \A i \in 0..Last : At(i)' = At(i) /\ By(i)' = By(i)
  BY <1>1, <1>2, PlaceAdded DEF Moved
<1>4. Last \in Nat /\ pointer = At(Last) /\ hand = By(Last)
  BY Places DEF WayOK
<1>5. \A i \in 0..Last : Offset(i)' = Offset(i)
  BY <1>3 DEF Offset
<1>6. \A i \in 0..Last' : i \notin 0..Last => Offset(i)' = Offset(Last)
  <2> SUFFICES ASSUME NEW i \in 0..Last', i \notin 0..Last PROVE Offset(i)' = Offset(Last)
    OBVIOUS
  <2>1. i = Last'
    BY <1>3, <1>4
  <2>2. At(i)' = pointer + step /\ By(i)' = hand + step
    BY <1>3, <2>1
  <2> QED
    BY <1>2, <1>4, <2>2 DEF Offset
<1>7. Offset(0)' = Offset(0) /\ 0 \in 0..Last /\ Last \in 0..Last
  BY <1>4, <1>5
<1>8. Clear(expected)' <=> Clear(expected)
  BY <1>1 DEF Clear, Matches
<1>9. CASE ~dropping
  <2>1. \A i \in 0..Last : Offset(i) = Offset(0)
    BY <1>9 DEF CameraOK
  <2>2. \A i \in 0..Last' : Offset(i)' = Offset(0)
    BY <1>5, <1>6, <1>7, <2>1
  <2> QED
    BY <1>1, <1>7, <1>9, <2>2 DEF CameraOK
<1>10. CASE dropping
  <2>1. PICK p \in 1..Last : \A i \in 0..Last :
            Offset(i) = IF i < p THEN Offset(0) ELSE Offset(0) + expected
    BY <1>10 DEF CameraOK
  <2>2. p \in 1..Last' /\ ~(Last < p)
    BY <1>3, <1>4
  <2>3. ASSUME NEW i \in 0..Last'
        PROVE  Offset(i)' = IF i < p THEN Offset(0) ELSE Offset(0) + expected
    <3>1. CASE i \in 0..Last
      BY <1>5, <2>1, <3>1
    <3>2. CASE i \notin 0..Last
      <4>1. ~(i < p)
        BY <1>3, <1>4, <2>2, <3>2
      <4> QED
        BY <1>6, <1>7, <2>1, <2>2, <3>2, <4>1
    <3> QED
      BY <3>1, <3>2
  <2> QED
    BY <1>1, <1>7, <1>8, <1>10, <2>2, <2>3 DEF CameraOK
<1> QED
  BY <1>9, <1>10

\* What the first place that waits is: the warp, or a step of the hand.
LEMMA HeadIs ==
    ASSUME TypeOK, WayOK, CameraOK, grabbed, ~compression, upset = {}, events # <<>>
    PROVE  /\ Head(events).delta = At(1) - At(0) /\ Head(events).hand = By(1)
           /\ At(0) = given.at /\ By(0) = given.hand /\ 1 \in 1..Last
           /\ (dropping /\ Matches(Head(events).delta, expected)) =>
                  /\ By(1) = By(0)
                  /\ \A i \in 1..Last : Offset(i) = Offset(0) + expected
           /\ ~(dropping /\ Matches(Head(events).delta, expected)) =>
                  /\ At(1) - At(0) = By(1) - By(0) /\ Offset(1) = Offset(0)
                  /\ dropping => \E p \in 2..Last : \A i \in 0..Last :
                          Offset(i) = IF i < p THEN Offset(0) ELSE Offset(0) + expected
<1> USE TypeFacts
<1>1. Len(events) \in Nat \ {0} /\ 1 \in 1..Last /\ 0 \in 0..Last /\ 1 \in 0..Last /\ 1 \in 1..Len(events)
  <2>1. Len(events) # 0
    BY EmptySeq, LenProperties DEF WayTypes
  <2>2. Len(events) \in Nat /\ Last \in Nat /\ Len(events) \in 0..Last
    BY Places
  <2> QED
    BY <2>1, <2>2
<1>2. Head(events) = events[1]
  BY <1>1, HeadTailProperties DEF WayTypes
<1>3. /\ Head(events).delta = At(1) - At(0) /\ Head(events).hand = By(1)
      /\ At(0) = given.at /\ By(0) = given.hand
  <2>1. events[1].delta = At(1) - At(1 - 1)
    BY <1>1 DEF WayOK
  <2> QED
    BY <1>1, <1>2, <2>1 DEF At, By
<1>4. At(0) \in Int /\ At(1) \in Int /\ By(0) \in Int /\ By(1) \in Int
  BY <1>1, Places
<1>5. Stepped(1) \/ Warped(1)
  BY <1>1 DEF WayOK
<1>6. Stepped(1) => Offset(1) = Offset(0) /\ At(1) - At(0) \in Steps /\ At(1) - At(0) = By(1) - By(0)
  <2> SUFFICES ASSUME Stepped(1)
              PROVE  Offset(1) = Offset(0) /\ At(1) - At(0) \in Steps /\ At(1) - At(0) = By(1) - By(0)
    OBVIOUS
  <2>1. By(1) - By(1 - 1) \in Steps /\ At(1) - At(1 - 1) = By(1) - By(1 - 1) /\ 1 - 1 = 0
    BY DEF Stepped
  <2>2. By(1) - By(0) \in Steps /\ At(1) - At(0) = By(1) - By(0)
    BY <2>1
  <2>3. PICK a \in Int, b \in Int, c \in Int, d \in Int :
            a = At(1) /\ b = At(0) /\ c = By(1) /\ d = By(0)
    BY <1>4
  <2>4. a - b = c - d
    BY <2>2, <2>3
  <2>5. a - c = b - d
    BY <2>4
  <2>6. Offset(1) = Offset(0)
    BY <2>3, <2>5 DEF Offset
  <2> QED
    BY <2>2, <2>6
<1>7. Warped(1) => Offset(1) # Offset(0) /\ By(1) = By(0) /\ At(1) - At(0) = Offset(1) - Offset(0)
  <2> SUFFICES ASSUME Warped(1)
              PROVE  Offset(1) # Offset(0) /\ By(1) = By(0) /\ At(1) - At(0) = Offset(1) - Offset(0)
    OBVIOUS
  <2>1. By(1) = By(1 - 1) /\ At(1) # At(1 - 1) /\ 1 - 1 = 0
    BY DEF Warped
  <2>2. PICK a \in Int, b \in Int, c \in Int : a = At(1) /\ b = At(0) /\ c = By(1) /\ c = By(0)
    BY <1>4, <2>1
  <2>3. Offset(1) = a - c /\ Offset(0) = b - c
    BY <2>2 DEF Offset
  <2>4. a # b
    BY <2>1, <2>2
  <2>5. a - c # b - c /\ (a - c) - (b - c) = a - b
    BY <2>4
  <2> QED
    BY <2>2, <2>3, <2>5
<1>8. CASE ~dropping
  <2>1. Offset(1) = Offset(0)
    BY <1>1, <1>8 DEF CameraOK
  <2> QED
    BY <1>1, <1>3, <1>5, <1>6, <1>7, <1>8, <2>1
<1>9. CASE dropping
  <2>1. Clear(expected)
    BY <1>9 DEF CameraOK
  <2>2. PICK p \in 1..Last : \A i \in 0..Last :
            Offset(i) = IF i < p THEN Offset(0) ELSE Offset(0) + expected
    BY <1>9 DEF CameraOK
  <2>3. Offset(0) \in Int /\ p \in Int
    BY <1>1, Places
  <2>4. CASE p = 1
    <3>1. Offset(1) = Offset(0) + expected
      BY <1>1, <2>2, <2>4
    <3>2. ~Stepped(1)
      BY <1>6, <2>1, <2>3, <3>1 DEF Clear
    <3>3. Head(events).delta = expected
      BY <1>3, <1>5, <1>7, <2>3, <3>1, <3>2
    <3>4. Matches(Head(events).delta, expected)
      BY <3>3, MatchesItself
    <3>5. \A i \in 1..Last : i \in 0..Last /\ ~(i < p)
      BY <1>1, <2>4
    <3> QED
      BY <1>1, <1>3, <1>5, <1>7, <1>9, <2>2, <3>2, <3>4, <3>5
  <2>5. CASE p # 1
    <3>1. 1 < p /\ p \in 2..Last
      BY <2>3, <2>5
    <3>2. Offset(1) = Offset(0)
      BY <1>1, <2>2, <3>1
    <3>3. Stepped(1)
      BY <1>5, <1>7, <3>2
    <3>4. ~Matches(Head(events).delta, expected)
      BY <1>3, <1>6, <2>1, <3>3 DEF Clear
    <3> QED
      BY <1>1, <1>3, <1>6, <2>2, <3>1, <3>2, <3>3, <3>4
  <2> QED
    BY <2>4, <2>5
<1> QED
  BY <1>8, <1>9

\* The event of the warp is dropped: no warp is on the way any more.
LEMMA CameraDrops == ASSUME TypeOK, WayOK, CameraOK, DropWarpMotion PROVE CameraOK'
<1> SUFFICES ASSUME grabbed, ~compression, upset = {} PROVE CameraOK'
  BY DEF DropWarpMotion, lockVars, CameraOK
<1> USE TypeFacts
<1>1. /\ dropping /\ Matches(Head(events).delta, expected) /\ ~dropping'
      /\ events # <<>> /\ events' = Tail(events)
      /\ given' = [at |-> Head(events).at, hand |-> Head(events).hand]
      /\ UNCHANGED <<motions, since, camera, grabbed, upset, compression>>
  BY DEF DropWarpMotion, lockVars
<1>2. /\ By(1) = By(0) /\ By(0) = given.hand /\ Head(events).hand = By(1)
      /\ \A i \in 1..Last : Offset(i) = Offset(0) + expected
  BY <1>1, HeadIs
<1>3. /\ Last \in Nat \ {0} /\ Last' = Last - 1
      /\ \A i \in 0..(Last - 1) : At(i)' = At(i + 1) /\ By(i)' = By(i + 1)
  BY <1>1, PlacesMoveUp
<1>4. given'.hand = given.hand
  BY <1>1, <1>2
<1>5. \A i \in 0..Last' : Offset(i)' = Offset(0) + expected
  <2> SUFFICES ASSUME NEW i \in 0..Last' PROVE Offset(i)' = Offset(0) + expected
    OBVIOUS
  <2>1. i \in 0..(Last - 1) /\ i + 1 \in 1..Last
    BY <1>3
  <2>2. Offset(i)' = Offset(i + 1)
    BY <1>3, <2>1 DEF Offset
  <2> QED
    BY <1>2, <2>1, <2>2
<1>6. Offset(0)' = Offset(0) + expected
  BY <1>3, <1>5
<1>7. camera = given.hand - since
  BY DEF CameraOK
<1> QED
  BY <1>1, <1>4, <1>5, <1>6, <1>7 DEF CameraOK

\* Every other event turns the camera; the warp that may follow is the only one.
LEMMA CameraTurns == ASSUME TypeOK, WayOK, CameraOK, TurnCamera PROVE CameraOK'
<1> USE TypeFacts
<1> DEFINE back == anchor - Head(events).at
<1>1. /\ ~(dropping /\ Matches(Head(events).delta, expected))
      /\ events # <<>> /\ events' = Tail(events) /\ grabbed
      /\ given' = [at |-> Head(events).at, hand |-> Head(events).hand]
      /\ camera' = camera + Head(events).delta
      /\ UNCHANGED <<since, grabbed, compression>>
      /\ \/ UNCHANGED <<pointer, motions, expected, dropping, anchor_pending, upset>>
         \/ /\ ~dropping /\ WarpPointerBy(back)
            /\ upset' = IF \E step \in Steps : back # 0 /\ Matches(step, back)
                        THEN upset \cup {"unclear"} ELSE upset
  BY DEF TurnCamera, lockVars
<1>2. back \in Int
  <2>1. Head(events) \in Event
    BY <1>1, HeadTailProperties, EmptySeq DEF WayTypes
  <2> QED
    BY <2>1 DEF Event
<1> HIDE DEF back
<1> SUFFICES ASSUME ~compression, upset' = {} PROVE CameraOK'
  BY <1>1 DEF CameraOK
<1>3. upset = {}
  BY <1>1
<1>4. /\ Head(events).delta = At(1) - At(0) /\ Head(events).hand = By(1) /\ By(0) = given.hand
      /\ At(1) - At(0) = By(1) - By(0) /\ Offset(1) = Offset(0) /\ 1 \in 1..Last
      /\ dropping => \E p \in 2..Last : \A i \in 0..Last :
                         Offset(i) = IF i < p THEN Offset(0) ELSE Offset(0) + expected
  BY <1>1, <1>3, HeadIs
<1>5. camera' = given'.hand - since'
  <2>1. camera = given.hand - since
    BY <1>1, <1>3 DEF CameraOK
  <2>2. given'.hand = By(1) /\ since' = since /\ camera' = camera + (By(1) - given.hand)
    BY <1>1, <1>4
  <2>3. By(1) \in Int /\ 1 \in 0..Last
    BY <1>4, Places
  <2> QED
    BY <2>1, <2>2, <2>3
<1>6. CASE UNCHANGED <<motions, expected, dropping>>
  <2>1. /\ Last \in Nat \ {0} /\ Last' = Last - 1
        /\ \A i \in 0..(Last - 1) : At(i)' = At(i + 1) /\ By(i)' = By(i + 1)
    BY <1>1, <1>6, PlacesMoveUp
  <2>2. \A i \in 0..Last' : i + 1 \in 1..Last /\ i + 1 \in 0..Last /\ Offset(i)' = Offset(i + 1)
    <3> SUFFICES ASSUME NEW i \in 0..Last' PROVE i + 1 \in 1..Last /\ i + 1 \in 0..Last /\ Offset(i)' = Offset(i + 1)
      OBVIOUS
    <3>1. i \in 0..(Last - 1) /\ i + 1 \in 1..Last /\ i + 1 \in 0..Last
      BY <2>1
    <3> QED
      BY <2>1, <3>1 DEF Offset
  <2>3. Offset(0)' = Offset(0)
    <3>1. 0 \in 0..Last' /\ 0 + 1 = 1
      BY <2>1
    <3>2. Offset(0)' = Offset(0 + 1)
      BY <2>2, <3>1
    <3> QED
      BY <1>4, <3>1, <3>2
  <2>4. CASE ~dropping
    <3>1. \A i \in 0..Last' : Offset(i)' = Offset(0)
      BY <1>1, <1>3, <2>2, <2>4 DEF CameraOK
    <3> QED
      BY <1>1, <1>5, <1>6, <2>3, <2>4, <3>1 DEF CameraOK
  <2>5. CASE dropping
    <3>1. PICK p \in 2..Last : \A i \in 0..Last :
              Offset(i) = IF i < p THEN Offset(0) ELSE Offset(0) + expected
      BY <1>4, <2>5
    <3>2. p - 1 \in 1..Last' /\ \A i \in 0..Last' : i + 1 < p <=> i < p - 1
      BY <2>1
    <3>3. \A i \in 0..Last' :
              Offset(i)' = IF i < p - 1 THEN Offset(0) ELSE Offset(0) + expected
      BY <2>2, <3>1, <3>2
    <3>4. Clear(expected)'
      BY <1>1, <1>3, <1>6, <2>5 DEF CameraOK, Clear, Matches
    <3>5. \E q \in 1..Last' : \A i \in 0..Last' :
              Offset(i)' = IF i < q THEN Offset(0)' ELSE Offset(0)' + expected'
      BY <1>6, <2>3, <3>2, <3>3
    <3> QED
      BY <1>5, <1>6, <2>5, <3>4, <3>5 DEF CameraOK
  <2> QED
    BY <2>4, <2>5
<1>7. CASE /\ ~dropping /\ back # 0 /\ WarpPointerBy(back)
           /\ upset' = IF \E step \in Steps : back # 0 /\ Matches(step, back)
                       THEN upset \cup {"unclear"} ELSE upset
  <2>1. Moved(pointer + back, hand) /\ expected' = back /\ dropping' = TRUE /\ pointer + back \in Int
    BY <1>2, <1>7 DEF WarpPointerBy
  <2>2. /\ Last \in Nat \ {0} /\ Last' = Last
        /\ \A i \in 0..(Last - 1) : At(i)' = At(i + 1) /\ By(i)' = By(i + 1)
        /\ At(Last)' = pointer + back /\ By(Last)' = hand
    BY <1>1, <2>1, PlacesTurn DEF Moved
  <2>3. \A i \in 0..Last : Offset(i) = Offset(0)
    BY <1>1, <1>3, <1>7 DEF CameraOK
  <2>4. pointer - hand = Offset(0) /\ Offset(0) \in Int
    BY <2>2, <2>3, Places DEF WayOK, Offset
  <2>5. \A i \in 0..(Last - 1) : Offset(i)' = Offset(0)
    <3> SUFFICES ASSUME NEW i \in 0..(Last - 1) PROVE Offset(i)' = Offset(0)
      OBVIOUS
    <3>1. i + 1 \in 0..Last
      BY <2>2
    <3>2. Offset(i)' = Offset(i + 1)
      BY <2>2 DEF Offset
    <3> QED
      BY <2>3, <3>1, <3>2
  <2>6. Offset(0)' = Offset(0)
    BY <2>2, <2>5
  <2>7. ASSUME NEW i \in 0..Last'
        PROVE  Offset(i)' = IF i < Last THEN Offset(0)' ELSE Offset(0)' + expected'
    <3>1. CASE i < Last
      BY <2>2, <2>5, <2>6, <3>1
    <3>2. CASE ~(i < Last)
      <4>1. i = Last'
        BY <2>2, <3>2
      <4>2. At(i)' = pointer + back /\ By(i)' = hand
        BY <2>2, <4>1
      <4>3. (pointer + back) - hand = Offset(0) + back
        BY <1>2, <2>4
      <4> QED
        BY <2>1, <2>6, <3>2, <4>2, <4>3 DEF Offset
    <3> QED
      BY <3>1, <3>2
  <2>8. \E q \in 1..Last' : \A i \in 0..Last' :
            Offset(i)' = IF i < q THEN Offset(0)' ELSE Offset(0)' + expected'
    <3>1. Last \in 1..Last'
      BY <2>2
    <3> QED
      BY <2>7, <3>1
  <2>9. Clear(expected)'
    <3>1. \A step \in Steps : ~Matches(step, back)
      <4>1. "unclear" \notin upset'
        OBVIOUS
      <4> QED
        BY <1>7, <4>1
    <3> QED
      BY <1>7, <2>1, <3>1 DEF Clear, Matches
  <2> QED
    BY <1>5, <2>1, <2>8, <2>9 DEF CameraOK
<1> QED
  BY <1>1, <1>6, <1>7 DEF WarpPointerBy

\* One step, action by action.
LEMMA CameraKept == ASSUME TypeOK, HomeOK, WayOK, CameraOK, [Next]_vars PROVE CameraOK'
<1> USE TypeFacts
<1>1. ASSUME NEW step \in Steps, MoveHand(step) PROVE CameraOK'
  BY <1>1, CameraMoves
<1>2. CASE PostXEvent
  <2> SUFFICES ASSUME ~compression PROVE CameraOK'
    BY <1>2 DEF PostXEvent, CameraOK
  <2>1. PICK delta \in Int : delta = Head(motions).at - seen
    <3>1. Head(motions) \in Motion
      BY <1>2, HeadTailProperties, EmptySeq DEF PostXEvent, WayTypes
    <3> QED
      BY <3>1 DEF Motion
  <2>2. /\ motions # <<>> /\ motions' = Tail(motions)
        /\ events' = Append(events, [delta |-> delta, at |-> Head(motions).at, hand |-> Head(motions).hand])
        /\ UNCHANGED <<given, since, camera, grabbed, dropping, expected, upset, compression>>
    BY <1>2, <2>1 DEF PostXEvent, lockVars, seenVars
  <2>3. Last' = Last /\ \A i \in 0..Last : At(i)' = At(i) /\ By(i)' = By(i)
    BY <2>1, <2>2, PlacesStay
  <2> QED
    BY <2>2, <2>3, CameraStays
<1>3. CASE HandleFreeMotion
  BY <1>3 DEF HandleFreeMotion, lockVars, CameraOK
<1>4. CASE DropWarpMotion
  BY <1>4, CameraDrops
<1>5. CASE TurnCamera
  BY <1>5, CameraTurns
<1>6. ASSUME NEW window \in BOOLEAN, Lock(window) PROVE CameraOK'
  <2> SUFFICES ASSUME upset' = {} PROVE CameraOK'
    BY DEF CameraOK
  <2>1. /\ ~dropping' /\ since' = given.hand /\ camera' = 0
        /\ UNCHANGED <<motions, events, given>>
    BY <1>6 DEF Lock
  <2>2. ~WarpInFlight
    BY <1>6 DEF Lock
  <2>3. \A i \in 0..Last : Offset(i) = Offset(0)
    <3> SUFFICES ASSUME NEW i \in 0..Last, i # 0 PROVE Offset(i) = given.at - given.hand
      BY DEF Offset, At, By
    <3>1. /\ \A j \in DOMAIN events : events[j].at - events[j].hand = given.at - given.hand
          /\ \A j \in DOMAIN motions : motions[j].at - motions[j].hand = given.at - given.hand
      BY <2>2 DEF WarpInFlight
    <3>2. DOMAIN events = 1..Len(events) /\ DOMAIN motions = 1..Len(motions)
      BY LenProperties DEF WayTypes
    <3>3. CASE i <= Len(events)
      <4>1. i \in 1..Len(events)
        BY <3>3, Places
      <4> QED
        BY <3>1, <3>2, <3>3, <4>1 DEF Offset, At, By
    <3>4. CASE ~(i <= Len(events))
      <4>1. Len(events) \in Nat /\ Len(motions) \in Nat
        BY Places
      <4>2. i - Len(events) \in 1..Len(motions)
        BY <3>4, <4>1 DEF Last
      <4> QED
        BY <3>1, <3>2, <3>4, <4>2 DEF Offset, At, By
    <3> QED
      BY <3>3, <3>4
  <2>4. Last' = Last /\ \A i \in 0..Last : Offset(i)' = Offset(i)
    BY <2>1 DEF Last, Offset, At, By
  <2>5. 0 \in 0..Last
    BY Places
  <2>6. \A i \in 0..Last' : Offset(i)' = Offset(0)'
    BY <2>3, <2>4, <2>5
  <2>7. camera' = given'.hand - since'
    BY <2>1
  <2> QED
    BY <2>1, <2>6, <2>7 DEF CameraOK
<1>7. ASSUME NEW window \in BOOLEAN, Unlock(window) PROVE CameraOK'
  BY <1>7 DEF Unlock, CameraOK
<1>8. CASE RestorePointer
  BY <1>8 DEF RestorePointer, HomeOK, CameraOK
<1>9. ASSUME NEW to \in Targets, WarpCursor(to) PROVE CameraOK'
  <2>1. UNCHANGED <<events, given, since, camera, grabbed, dropping, expected, upset, compression>>
    BY <1>9 DEF WarpCursor, lockVars, seenVars
  <2>2. CASE grabbed
    <3>1. motions' = motions
      BY <1>9, <2>2 DEF WarpCursor
    <3>2. Last' = Last /\ \A i \in 0..Last : At(i)' = At(i) /\ By(i)' = By(i)
      BY <2>1, <3>1 DEF Last, At, By
    <3> QED
      BY <2>1, <3>2, CameraStays
  <2>3. CASE ~grabbed
    BY <2>1, <2>3 DEF CameraOK
  <2> QED
    BY <2>2, <2>3
<1>10. CASE UNCHANGED vars
  <2>1. UNCHANGED <<motions, events, given, since, camera, grabbed, dropping, expected, upset, compression>>
    BY <1>10 DEF vars, lockVars, seenVars
  <2>2. Last' = Last /\ \A i \in 0..Last : At(i)' = At(i) /\ By(i)' = By(i)
    BY <2>1 DEF Last, At, By
  <2> QED
    BY <2>1, <2>2, CameraStays
<1> QED
  BY <1>1, <1>2, <1>3, <1>4, <1>5, <1>6, <1>7, <1>8, <1>9, <1>10 DEF Next, Main, Game

-------------------------------------------------------------------------------
(* What holds of the lock.                                                    *)

\* The invariant of the lock: types, where the pointer returns to, what the queues hold and
\* how many warps are among them while the lock holds.
THEOREM LockInvariant == Spec => []LockInv
<1>1. Init => LockInv
  <2> SUFFICES ASSUME Init PROVE LockInv
    OBVIOUS
  <2>1. TypeOK
    BY TypesBegin
  <2>2. HomeOK /\ CameraOK
    BY DEF Init, HomeOK, CameraOK
  <2>3. /\ Len(events) = 0 /\ Len(motions) = 0
        /\ seen = pointer /\ hand = 0 /\ given.at = pointer /\ given.hand = 0
    BY EmptySeq DEF Init
  <2>4. WayOK
    BY <2>3 DEF WayOK, Last, At, By
  <2> QED
    BY <2>1, <2>2, <2>4 DEF LockInv
<1>2. LockInv /\ [Next]_vars => LockInv'
  BY TypesKept, HomeKept, WayKept, CameraKept DEF LockInv
<1> QED
  BY <1>1, <1>2, PTL DEF Spec

\* The state has its types, and an anchor still to be warped to lies well inside the window.
THEOREM TypeCorrect == Spec => []TypeOK
<1>1. LockInv => TypeOK
  BY DEF LockInv
<1> QED
  BY <1>1, LockInvariant, PTL

\* Without motion compression the camera turns by exactly what the hand moved, whatever
\* waits in the two queues.
THEOREM CameraExact == Spec => []CameraFollowsHand
<1>1. LockInv => CameraFollowsHand
  BY DEF LockInv, CameraOK, CameraFollowsHand
<1> QED
  BY <1>1, LockInvariant, PTL

\* After an unlock the pointer is where the lock began, but for what the hand moved since.
THEOREM PointerComesBack == Spec => []PointerReturns
<1>1. LockInv => PointerReturns
  BY DEF LockInv, HomeOK, PointerReturns
<1> QED
  BY <1>1, LockInvariant, PTL
===============================================================================
