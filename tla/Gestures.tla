------------------------------ MODULE Gestures ------------------------------
(***************************************************************************)
(* GestureHandler: which gesture the fingers on the canvas make.           *)
(*                                                                         *)
(* `state` is the set of gestures that are still possible, the bitmask of  *)
(* the code: all of them at rest, none in a dead end, one when the gesture *)
(* is known. Each handler is a function from the handler's state to its    *)
(* next one, with the gesture events it dispatches on the way.             *)
(*                                                                         *)
(* A finger moves along one line, which tells apart what the code does:    *)
(* not far enough, far enough, and in the same or the opposite direction.  *)
(* Of the clock, the code reads whether MULTITOUCH_TIMEOUT (age 1) and     *)
(* TAP_TIMEOUT (age 2) have passed since the first touch, and whether      *)
(* MULTITOUCH_TIMEOUT has passed since the first release.                  *)
(***************************************************************************)
EXTENDS Integers, Sequences, FiniteSets

CONSTANTS
    Fingers,         \* the touch identifiers
    Moves,           \* how far a finger may be from where it touched down
    MOVE_THRESHOLD,
    Start(_)         \* where on the canvas a finger touches down

Taps == {"onetap", "twotap", "threetap"}
TwoTouch == {"twodrag", "pinch"}
Kinds == Taps \cup TwoTouch \cup {"drag", "longpress"}

NoGesture == {}
Rest == [state |-> Kinds,          \* GH_INITSTATE
         tracked |-> <<>>,         \* touches in the order they began
         ignored |-> {},
         waiting |-> FALSE,        \* _waitingRelease
         age |-> 0,                \* since the first touch began
         releaseOld |-> FALSE,     \* long since the first release
         long |-> FALSE,           \* the longpress timer runs
         two |-> "null",           \* _twoTouchTimeoutId: "null", "runs" or "fired"
         events |-> <<>>]          \* dispatched by the last handler

Touches == [id : Fingers, active : BOOLEAN, by : Moves \cup {0}, angle : {0, 180}]
Abs(x) == IF x < 0 THEN -x ELSE x

Tracks(g, id) == \E i \in 1 .. Len(g.tracked) : g.tracked[i].id = id
Nth(g, id) == CHOOSE i \in 1 .. Len(g.tracked) : g.tracked[i].id = id
Active(g) == {g.tracked[i].id : i \in {i \in 1 .. Len(g.tracked) : g.tracked[i].active}}
Now(t) == Start(t.id) + t.by

\* For a tap every finger must be up as well.
HasDetectedGesture(g) ==
    /\ Cardinality(g.state) = 1
    /\ g.state \subseteq Taps => Active(g) = {}

----------------------------------------------------------------------------
(***************************************************************************)
(* The events.                                                             *)
(***************************************************************************)

SumOf(g, F(_)) ==
    LET sum[i \in 0 .. Len(g.tracked)] == IF i = 0 THEN 0 ELSE sum[i - 1] + F(g.tracked[i])
    IN sum[Len(g.tracked)]

PositionFirst(g) == LET F(t) == Start(t.id) IN SumOf(g, F) \div Len(g.tracked)
PositionLast(g) == SumOf(g, Now) \div Len(g.tracked)
TotalMovement(g) == LET F(t) == t.by IN SumOf(g, F)
AverageMovement(g) == TotalMovement(g) \div Len(g.tracked)
DistanceFirst(g) == Abs(Start(g.tracked[Len(g.tracked)].id) - Start(g.tracked[1].id))
DistanceLast(g) == Abs(Now(g.tracked[Len(g.tracked)]) - Now(g.tracked[1]))

PushEvent(g, type) ==
    LET kind == CHOOSE k \in g.state : TRUE
        event == [type |-> type, kind |-> kind,
                  pos |-> IF type = "gesturestart" \/ kind \in TwoTouch
                          THEN PositionFirst(g) ELSE PositionLast(g),
                  magnitude |-> CASE kind = "pinch" /\ type = "gesturestart" -> DistanceFirst(g)
                                  [] kind = "pinch" /\ type # "gesturestart" -> DistanceLast(g)
                                  [] kind = "twodrag" /\ type # "gesturestart" -> AverageMovement(g)
                                  [] OTHER -> 0]
    IN [g EXCEPT !.events = Append(@, event)]

----------------------------------------------------------------------------
(***************************************************************************)
(* The handlers.                                                           *)
(***************************************************************************)

TouchStart(g, id) ==
    LET ignore == [g EXCEPT !.ignored = @ \cup {id}]
        touch == [id |-> id, active |-> TRUE, by |-> 0, angle |-> 0]
        t == [g EXCEPT !.tracked = Append(@, touch)]
    IN IF HasDetectedGesture(g) \/ g.state = NoGesture THEN ignore
       ELSE IF g.tracked # <<>> /\ (g.age >= 1 \/ g.waiting) THEN [ignore EXCEPT !.state = NoGesture]
       ELSE CASE Len(t.tracked) = 1 -> [t EXCEPT !.long = TRUE, !.age = 0]
              [] Len(t.tracked) = 2 ->
                   [t EXCEPT !.state = @ \ {"onetap", "drag", "longpress"}, !.long = FALSE]
              [] Len(t.tracked) = 3 -> [t EXCEPT !.state = @ \ ({"twotap"} \cup TwoTouch)]
              [] OTHER -> [t EXCEPT !.state = NoGesture]

\* Two fingers, and this one moved far: pinch or two-finger drag?
TellTwoTouch(g, id) ==
    LET touch == g.tracked[Nth(g, id)]
        other == g.tracked[3 - Nth(g, id)]
        opposite == touch.angle # other.angle
    IN IF Abs(other.by) > MOVE_THRESHOLD
       THEN [g EXCEPT !.state = @ \ {IF opposite THEN "twodrag" ELSE "pinch"}, !.two = "null"]
       ELSE IF g.two = "null" THEN [g EXCEPT !.two = "runs"] ELSE g

TouchMove(g, id, by) ==
    LET touch == [g.tracked[Nth(g, id)] EXCEPT
                    !.by = by,
                    !.angle = CASE by > 0 -> 0 [] by < 0 -> 180 [] OTHER -> @]
        n == Len(g.tracked)
        m == [g EXCEPT !.tracked[Nth(g, id)] = touch]
        far == [m EXCEPT !.state = @ \ (Taps \cup {"longpress"}
                                         \cup (IF n # 1 THEN {"drag"} ELSE {})
                                         \cup (IF n # 2 THEN TwoTouch ELSE {})),
                         !.long = FALSE]
        told == IF n = 2 THEN TellTwoTouch(far, id) ELSE far
    IN CASE ~Tracks(g, id) -> g
         [] Tracks(g, id) /\ HasDetectedGesture(m) -> PushEvent(m, "gesturemove")
         [] Tracks(g, id) /\ ~HasDetectedGesture(m) /\ Abs(by) < MOVE_THRESHOLD -> m
         [] OTHER -> IF HasDetectedGesture(told)
                     THEN PushEvent(PushEvent(told, "gesturestart"), "gesturemove")
                     ELSE told

\* The first release, before a gesture is known: it can only be a tap now.
FirstRelease(g) ==
    IF HasDetectedGesture(g) THEN g
    ELSE LET s == [g EXCEPT !.state = @ \ ({"drag", "longpress"} \cup TwoTouch), !.long = FALSE]
             fewer == CASE Len(g.tracked) = 1 -> {"twotap", "threetap"}
                        [] Len(g.tracked) = 2 -> {"onetap", "threetap"}
                        [] OTHER -> {}
         IN IF g.waiting THEN s
            ELSE [s EXCEPT !.waiting = TRUE, !.releaseOld = FALSE, !.state = @ \ fewer]

KeepFingers(g, id) == [Rest EXCEPT !.events = g.events, !.two = g.two]   \* mutant: none is ignored
\* What is left of the gesture is ignored until every finger is up.
Finish(g, id) ==
    LET left == (g.ignored \cup Active(g)) \ {id}
        t == [g EXCEPT !.tracked = <<>>, !.ignored = left, !.state = NoGesture, !.age = 0]
    IN IF left = {} THEN [t EXCEPT !.state = Kinds, !.waiting = FALSE] ELSE t

EndNothing(g) == g                              \* mutant: a drag is not ended
EndGesture(g) == IF HasDetectedGesture(g) THEN PushEvent(g, "gestureend") ELSE g

TouchEnd(g, id) ==
    LET dropped == [g EXCEPT !.ignored = @ \ {id}]
        early == IF ~HasDetectedGesture(g) /\ g.two # "null"
                 THEN [g EXCEPT !.two = "null", !.state = NoGesture] ELSE g
        f == FirstRelease(early)
        slow == f.releaseOld \/ f.age = 2
        u == [f EXCEPT !.state = IF slow THEN NoGesture ELSE @, !.tracked[Nth(f, id)].active = FALSE]
        tap == IF HasDetectedGesture(u) THEN PushEvent(u, "gesturestart") ELSE u
    IN CASE id \in g.ignored ->
              IF dropped.ignored = {} /\ g.tracked = <<>>
              THEN [dropped EXCEPT !.state = Kinds, !.waiting = FALSE] ELSE dropped
         [] id \notin g.ignored /\ f.waiting ->
              IF ~HasDetectedGesture(u) /\ u.state # NoGesture THEN u
              ELSE Finish(EndGesture(tap), id)
         [] OTHER -> Finish(EndGesture(f), id)

\* With a gesture known it throws: nothing else happens then.
LongpressTimeout(g) ==
    LET t == [g EXCEPT !.long = FALSE]
    IN IF HasDetectedGesture(g) THEN t
       ELSE PushEvent([t EXCEPT !.state = {"longpress"}], "gesturestart")

\* The identifier of the timer is kept. It throws when no touch is tracked.
TwoTouchTimeout(g) ==
    LET fired == [g EXCEPT !.two = "fired"]
        pinch == Abs(TotalMovement(g)) < Len(g.tracked) * Abs(DistanceFirst(g) - DistanceLast(g))
        t == [fired EXCEPT !.state = {IF pinch THEN "pinch" ELSE "twodrag"}]
    IN IF g.tracked = <<>> THEN fired
       ELSE PushEvent(PushEvent(t, "gesturestart"), "gesturemove")
=============================================================================
