------------------------------ MODULE MouseLock ------------------------------
(***************************************************************************)
(* The camera's mouse lock of libMacOBloxShims.m along one axis, in        *)
(* pixels: the hand and the shim's own warps move the X pointer; X queues  *)
(* a motion event for each; hooked_post_x_event merges some of them;       *)
(* Darling turns the rest into NSEvents whose delta is the distance to the *)
(* event before; hooked_app_send_event drops the one that only reflects a  *)
(* warp and hands the others to the game, whose camera turns by the delta. *)
(* The main thread does all of this and makes the game's calls; the hand   *)
(* moves whenever it likes.                                                *)
(*                                                                         *)
(* Every event also carries `hand`, the hand's movement until then: what   *)
(* the code cannot see and the properties compare the camera with.         *)
(***************************************************************************)
EXTENDS Integers, Sequences

CONSTANTS
    Width,        \* of the window
    Radius,       \* MACOBLOX_LOCK_RADIUS: drift allowed before the pointer is moved back
    MergeLimit,   \* the longest jump motion compression merges
    Starts,       \* where the pointer may be at first
    Steps,        \* what the hand may move at once
    Targets,      \* positions the game may warp the cursor to
    MaxMoves,     \* bound on the moves of the hand
    MaxCalls,     \* bound on the game's calls
    None          \* no position

ASSUME LockAssumption ==
    /\ Width \in Nat /\ Radius \in Nat /\ MergeLimit \in Nat
    /\ Starts \subseteq Int /\ Steps \subseteq Int /\ Targets \subseteq Int
    /\ MaxMoves \in Nat /\ MaxCalls \in Nat
    /\ None \notin Int

VARIABLES
    pointer,        \* the X pointer
    motions,        \* motion events in X's queue
    seen,           \* the position Darling computes the next delta from
    events,         \* NSEvents waiting for the application
    grabbed,        \* macoblox_pointer_grabbed
    frozen,         \* macoblox_frozen_window_location
    anchor,         \* macoblox_lock_anchor
    anchor_pending, \* macoblox_lock_anchor_pending
    dropping,       \* macoblox_drop_warp_motion
    expected,       \* macoblox_expected_warp_delta
    pending_warp,   \* macoblox_pending_warp_position, None without macoblox_pending_warp
    location,       \* unlocking: the pointer's position as read (None: no window)
    unlocking,      \* the unlock is between reading the pointer and moving it
    compression     \* MACOBLOX_NO_MOTION_COMPRESSION is not set

\* Observations: the hand and the game's view.
VARIABLES
    hand,           \* the hand's movement so far
    given,          \* position and hand of the last event handled
    since,          \* the hand in that event when the lock began
    camera,         \* the camera's turn since the lock began
    home,           \* where the lock began, moved on by the hand after it (None: unknown)
    upset,          \* what this lock met that the filter cannot tell from a warp
    moves, calls

lockVars == <<frozen, anchor, grabbed, unlocking, location>>
seenVars == <<given, since, camera>>
counts == <<moves, calls>>
vars == <<pointer, motions, seen, events, anchor_pending, dropping, expected,
          pending_warp, compression, lockVars, hand, seenVars, home,
          upset, counts>>

Magnitude(x) == IF x < 0 THEN -x ELSE x

Init ==
    /\ pointer \in Starts
    /\ motions = <<>> /\ seen = pointer /\ events = <<>>
    /\ compression \in BOOLEAN
    /\ grabbed = FALSE /\ frozen = 0 /\ anchor = 0 /\ anchor_pending = FALSE
    /\ dropping = FALSE /\ expected = 0
    /\ pending_warp = None /\ location = None /\ unlocking = FALSE
    /\ hand = 0 /\ given = [at |-> pointer, hand |-> 0] /\ since = 0 /\ camera = 0
    /\ home = None /\ upset = {}
    /\ moves = 0 /\ calls = 0

-----------------------------------------------------------------------------
(* The pointer: the hand, and XWarpPointer.                                *)

Moved(to, by) == /\ pointer' = to
                 /\ motions' = Append(motions, [at |-> to, hand |-> by])

MoveHand(step) ==
    /\ moves < MaxMoves
    /\ hand' = hand + step
    /\ Moved(pointer + step, hand + step)
    /\ home' = IF grabbed \/ home = None THEN home ELSE home + step
    /\ moves' = moves + 1
    /\ UNCHANGED <<seen, events, anchor_pending, dropping, expected, pending_warp,
                   compression, lockVars, seenVars, upset, calls>>

\* Mutant: the expected delta has the wrong sign.
WarpPointerByReversed(d) ==
    IF d = 0
    THEN UNCHANGED <<pointer, motions, expected, dropping>>
    ELSE Moved(pointer + d, hand) /\ expected' = -d /\ dropping' = TRUE

\* macoblox_warp_pointer_by: a relative warp; its motion event is to be dropped.
WarpPointerBy(d) ==
    IF d = 0
    THEN UNCHANGED <<pointer, motions, expected, dropping>>
    ELSE Moved(pointer + d, hand) /\ expected' = d /\ dropping' = TRUE

-----------------------------------------------------------------------------
(* X's events become NSEvents.                                             *)

\* hooked_post_x_event: a motion event is skipped when the next one is close to it;
\* otherwise Darling makes an NSEvent of it.
PostXEvent ==
    /\ motions # <<>> /\ ~unlocking
    /\ LET event == Head(motions)
           near == /\ compression /\ Len(motions) > 1
                   /\ Magnitude(motions[2].at - event.at) <= MergeLimit
       IN IF near
          THEN UNCHANGED <<events, seen>>
          ELSE /\ events' = Append(events, [delta |-> event.at - seen, at |-> event.at,
                                            hand |-> event.hand])
               /\ seen' = event.at
    /\ motions' = Tail(motions)
    /\ UNCHANGED <<pointer, anchor_pending, dropping, expected, pending_warp,
                   compression, lockVars, hand, seenVars, home, upset, counts>>

-----------------------------------------------------------------------------
(* The application handles an event.                                       *)

\* Mutant: the tolerance has the warp's sign.
MatchesForward(delta, warp) == 2 * Magnitude(delta - warp) < warp

\* An event taken for the warp's own: within half the warp (and two pixels) of it.
Matches(delta, warp) == 4 * (delta - warp) * (delta - warp) < warp * warp + 16

\* The pointer has to go back to the anchor.
Strayed(at) == anchor_pending \/ Magnitude(at - anchor) > Radius

\* A motion event outside the lock: the game looks at positions, not at deltas.
HandleFreeMotion ==
    /\ events # <<>> /\ ~grabbed /\ ~unlocking
    /\ given' = [at |-> Head(events).at, hand |-> Head(events).hand]
    /\ events' = Tail(events)
    /\ UNCHANGED <<pointer, motions, seen, anchor_pending, dropping, expected,
                   pending_warp, compression, lockVars, hand, since, camera,
                   home, upset, counts>>

\* macoblox_filter_locked_motion: the event that reflects the warp is dropped ...
DropWarpMotion ==
    /\ events # <<>> /\ grabbed
    /\ dropping /\ Matches(Head(events).delta, expected)
    /\ dropping' = FALSE
    /\ given' = [at |-> Head(events).at, hand |-> Head(events).hand]
    /\ events' = Tail(events)
    /\ UNCHANGED <<pointer, motions, seen, anchor_pending, expected, pending_warp,
                   compression, lockVars, hand, since, camera,
                   home, upset, counts>>

\* ... and every other one turns the camera, and may call for the next warp.
TurnCamera ==
    /\ events # <<>> /\ grabbed
    /\ ~(dropping /\ Matches(Head(events).delta, expected))
    /\ LET event == Head(events)
           back == anchor - event.at
       IN /\ IF ~dropping /\ Strayed(event.at)
             THEN /\ WarpPointerBy(back)
                  /\ anchor_pending' = FALSE
                  /\ upset' = IF \E step \in Steps : back # 0 /\ Matches(step, back)
                              THEN upset \cup {"unclear"} ELSE upset
             ELSE UNCHANGED <<pointer, motions, expected, dropping, anchor_pending, upset>>
          /\ camera' = camera + event.delta
          /\ given' = [at |-> event.at, hand |-> event.hand]
    /\ events' = Tail(events)
    /\ UNCHANGED <<seen, pending_warp, compression, lockVars, hand, since,
                   home, counts>>

-----------------------------------------------------------------------------
(* The game's calls.                                                       *)

\* Mutant: no room beyond the radius is left.
AnchorForBare(at) ==
    IF Width <= 2 * Radius THEN Width \div 2
    ELSE IF at < Radius THEN Radius
    ELSE IF at > Width - Radius THEN Width - Radius
    ELSE at

\* A press close to the window's edge moves the anchor inward.
AnchorFor(at) ==
    LET margin == Radius + 20 IN
    IF Width <= 2 * margin THEN Width \div 2
    ELSE IF at < margin THEN margin
    ELSE IF at > Width - margin THEN Width - margin
    ELSE at

\* A warp whose motion event is still to come.
WarpInFlight ==
    \E queue \in {motions, events} : \E i \in DOMAIN queue :
        queue[i].at - queue[i].hand # given.at - given.hand

\* CGAssociateMouseAndMouseCursorPosition(false), with a key or main window or without.
Lock(window) ==
    /\ ~grabbed /\ ~unlocking /\ calls < MaxCalls
    /\ grabbed' = TRUE
    /\ dropping' = FALSE
    /\ frozen' = IF window THEN pointer ELSE frozen
    /\ anchor' = IF window THEN AnchorFor(frozen') ELSE frozen'
    /\ anchor_pending' = (anchor' # frozen')
    /\ since' = given.hand /\ camera' = 0
    /\ home' = IF window THEN pointer ELSE None
    /\ upset' = IF WarpInFlight THEN {"early"} ELSE {}
    /\ calls' = calls + 1
    /\ UNCHANGED <<pointer, motions, seen, events, expected, pending_warp, unlocking,
                   location, compression, hand, given, moves>>

\* Mutant: the position comes from the last event instead of the pointer.
PointerPositionSeen == seen

\* mouseLocationOutsideOfEventStream, asked of the X server.
PointerPosition == pointer

\* CGAssociateMouseAndMouseCursorPosition(true): the pointer's position is read ...
Unlock(window) ==
    /\ grabbed /\ calls < MaxCalls
    /\ grabbed' = FALSE
    /\ dropping' = FALSE
    /\ pending_warp' = None
    /\ unlocking' = TRUE
    /\ calls' = calls + 1
    /\ location' = IF window THEN PointerPosition ELSE None
    /\ home' = IF window THEN home ELSE None
    /\ since' = 0 /\ camera' = 0
    /\ UNCHANGED <<pointer, motions, seen, events, anchor_pending, expected, compression,
                   frozen, anchor, hand, given, upset, moves>>

\* ... and the pointer goes back to where the lock began; its event is not dropped.
RestorePointer ==
    /\ unlocking
    /\ unlocking' = FALSE
    /\ location' = None
    /\ IF location = None \/ location = frozen
       THEN UNCHANGED <<pointer, motions, expected>>
       ELSE Moved(pointer + frozen - location, hand) /\ expected' = frozen - location
    /\ dropping' = FALSE
    /\ UNCHANGED <<seen, events, anchor_pending, pending_warp, compression, grabbed, frozen,
                   anchor, hand, seenVars, home, upset, counts>>

\* CGWarpMouseCursorPosition: during the lock only noted, where nothing reads it.
WarpCursor(to) ==
    /\ ~unlocking /\ calls < MaxCalls
    /\ IF grabbed
       THEN pending_warp' = to /\ UNCHANGED <<pointer, motions, home>>
       ELSE /\ IF to = pointer THEN UNCHANGED <<pointer, motions>> ELSE Moved(to, hand)
            /\ home' = None /\ UNCHANGED pending_warp
    /\ calls' = calls + 1
    /\ UNCHANGED <<seen, events, anchor_pending, dropping, expected, compression, lockVars,
                   hand, seenVars, upset, moves>>

-----------------------------------------------------------------------------
Main == PostXEvent \/ HandleFreeMotion \/ DropWarpMotion \/ TurnCamera \/ RestorePointer
Game == (\E window \in BOOLEAN : Lock(window) \/ Unlock(window)) \/ \E to \in Targets : WarpCursor(to)

Next == Main \/ Game \/ \E step \in Steps : MoveHand(step)

Spec == Init /\ [][Next]_vars

\* The main thread's run loop goes on; hand and game do as they like.
FairSpec == Spec /\ WF_vars(Main)

-----------------------------------------------------------------------------
Motion == [at : Int, hand : Int]

\* The state has its types: above all, an anchor that still has to be warped to lies
\* inside the window by more than the lock's radius (2424-2447).
TypeOK ==
    /\ pointer \in Int /\ seen \in Int
    /\ motions \in Seq(Motion) /\ events \in Seq([delta : Int, at : Int, hand : Int])
    /\ grabbed \in BOOLEAN /\ compression \in BOOLEAN
    /\ frozen \in Int /\ anchor \in Int
    /\ anchor_pending => anchor \in {Width \div 2} \cup (Radius + 20)..(Width - Radius - 20)
    /\ anchor_pending \in BOOLEAN /\ dropping \in BOOLEAN /\ expected \in Int
    /\ pending_warp \in Int \cup {None} /\ location \in Int \cup {None}
    /\ unlocking \in BOOLEAN
    /\ hand \in Int /\ given \in Motion /\ since \in Int /\ camera \in Int
    /\ home \in Int \cup {None} /\ upset \subseteq {"early", "unclear"}
    /\ moves \in 0..MaxMoves /\ calls \in 0..MaxCalls

\* Without motion compression the camera turns by exactly what the hand moved: no warp
\* reaches it and no movement is lost, however late the warps' events arrive, as long
\* as each warp differs enough from a step of the hand for Matches to tell them apart
\* and none was under way when the lock began (libMacOBloxShims.m:2526-2547).
CameraFollowsHand ==
    (grabbed /\ ~compression /\ upset = {}) => camera = given.hand - since

\* Without compression no warp stays unanswered: until its own event is recognised the
\* pointer is not moved back again (2535), and it would wander off for good.
WarpAnswered == (dropping /\ ~compression) ~> ~dropping

\* "Put the pointer back where the button was pressed" (2451): after an unlock it is
\* where the lock began, but for what the hand moved since, also while the unlock was
\* under way; none of the shim's warps leaves a trace.  Nor does a warp that the game
\* asked for during the lock: it is dropped (2454), although the comment at 2261-2262
\* says that it is "remembered and applied when the lock ends".  (The game must have
\* had a window at both ends.)
PointerReturns == (home # None /\ ~grabbed /\ ~unlocking) => pointer = home

\* "Jumps over 48 px (our warps) are never merged, the lock logic needs to see them
\* alone" (3473): an event that carries such a warp carries no movement of the hand.
WarpsSeenAlone ==
    \A i \in 1..(Len(events) - 1) :
        LET before == events[i]  after == events[i + 1]
            warped == (after.at - after.hand) - (before.at - before.hand)
        IN Magnitude(warped) > MergeLimit => after.hand = before.hand
=============================================================================
