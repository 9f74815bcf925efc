------------------------------ MODULE Pointer ------------------------------
(***************************************************************************)
(* The pointer of the console: RFB's handlers of mouse, wheel and gesture  *)
(* events, and the buttons and position they give the VNC server.          *)
(*                                                                         *)
(* A gesture event is dispatched inside the touch handler that found it,   *)
(* so one step is the touch handler and the gesture handlers it calls.     *)
(* The connection is up and not view-only; every pointer message that is   *)
(* sent is processed in order. Positions are on one line of the canvas.    *)
(***************************************************************************)
EXTENDS Gestures

CONSTANTS
    Width,           \* of the canvas
    Places,          \* where the mouse goes, the canvas and beyond
    MaxButtons,      \* bound: mouse buttons down at once
    Scrolls,         \* how far one wheel event turns, in either direction
    dragThreshold, WHEEL_STEP, GESTURE_SENS, DOUBLE_TAP_THRESHOLD

ASSUME WidthAssumption == Width \in Nat \ {0}
ASSUME PlacesAssumption == Places \subseteq Int
ASSUME MaxButtonsAssumption == MaxButtons \in Nat
ASSUME ScrollsAssumption == Scrolls \subseteq Int
ASSUME ThresholdAssumption ==
    /\ MOVE_THRESHOLD \in Nat /\ dragThreshold \in Nat /\ DOUBLE_TAP_THRESHOLD \in Nat
    /\ WHEEL_STEP \in Nat \ {0} /\ GESTURE_SENS \in Nat \ {0}
ASSUME FingersAssumption == IsFiniteSet(Fingers)
ASSUME MovesAssumption == Moves \subseteq Int

VARIABLES
    device,      \* "mouse" or "touch"
    dragViewport,\* the setting: dragging moves the view
    extended,    \* the server takes the extended pointer event
    buttons,     \* the mouse buttons that are down
    g,           \* the GestureHandler
    fingers,     \* the fingers on the canvas
    p            \* RFB's pointer state and the server's, see Init

settings == <<device, dragViewport, extended>>
vars == <<settings, buttons, g, fingers, p>>

MouseButtons == 0 .. 4                       \* bits of MouseEvent.buttons
Bits == {"left", "middle", "right", "up", "down", "back", "forward"}
None == -1

Init ==
    /\ device \in {"mouse", "touch"} /\ dragViewport \in BOOLEAN
    /\ extended \in BOOLEAN /\ (extended => device = "mouse")     \* a tap has no extra button
    /\ buttons = {} /\ fingers = {} /\ g = Rest
    /\ p = [mask |-> {},                     \* _mouseButtonMask
            delayed |-> None,                \* _mousePos while _mouseMoveTimer is set
            recent |-> FALSE,                \* it is less than MOUSE_MOVE_DELAY since the last move
            dragging |-> FALSE, moved |-> FALSE, dragPos |-> 0,
            wheel |-> 0,                     \* _accumulatedWheelDelta
            magnitude |-> 0,                 \* _gestureLastMagnitude
            tapTime |-> "old",          \* _gestureLastTapTime: "old" or "recent"
            firstTap |-> [kind |-> "none", pos |-> 0],
            sentMask |-> {}, sentPos |-> 0,  \* the last message to the server,
            at |-> 0]                        \* where it was last told to point

----------------------------------------------------------------------------
(***************************************************************************)
(* What is sent.                                                           *)
(***************************************************************************)

Shift(x) == x                                    \* mutant: outside the canvas is not clipped
Clip(x) ==                                       \* clientToElement
    IF x \in 0 .. Width - 1 THEN x ELSE IF x < 0 THEN 0 ELSE Width - 1

ConvertButtonMask(down) ==
    {CASE b = 0 -> "left" [] b = 1 -> "right" [] b = 2 -> "middle"
       [] b = 3 -> "back" [] b = 4 -> "forward" : b \in down}

Extra == {"back", "forward"}

SendMouse(s, x, mask) ==
    [s EXCEPT !.sentMask = IF extended THEN mask ELSE mask \ Extra, !.sentPos = x]

FlushNothing(s, x) == s                          \* mutant: a delayed move survives a button event
FlushMouseMoveTimer(s, x) ==
    IF s.delayed # None THEN SendMouse([s EXCEPT !.delayed = None, !.at = x], x, s.mask) ELSE s

HandleMouseButton(s, x, mask) ==
    SendMouse([FlushMouseMoveTimer(s, x) EXCEPT !.mask = mask, !.at = x], x, mask)

HandleMouseMove(s, x) ==
    LET t == [s EXCEPT !.at = x]
    IN IF s.delayed = None /\ ~s.recent
       THEN [SendMouse(t, x, s.mask) EXCEPT !.recent = TRUE]
       ELSE [t EXCEPT !.delayed = x]

HandleDelayedMouseMove(s) ==
    SendMouse([s EXCEPT !.delayed = None], s.delayed, s.mask)

----------------------------------------------------------------------------
(***************************************************************************)
(* Mouse and wheel.                                                        *)
(***************************************************************************)

DragViewport(s, x) ==
    IF s.moved \/ Abs(s.dragPos - x) > dragThreshold
    THEN [s EXCEPT !.moved = TRUE, !.dragPos = x]
    ELSE s

HandleMouse(s, type, mask, x) ==
    LET down == type = "mousedown"
        grab == [FlushMouseMoveTimer(s, x) EXCEPT
                   !.dragging = TRUE, !.dragPos = x, !.moved = FALSE, !.mask = mask]
        drop == [s EXCEPT !.dragging = FALSE]
    IN CASE type = "mousemove" ->
              IF s.dragging THEN DragViewport(s, x) ELSE HandleMouseMove(s, x)
         [] type # "mousemove" /\ ~dragViewport -> HandleMouseButton(s, x, mask)
         [] type # "mousemove" /\ dragViewport /\ down /\ ~s.dragging -> grab
         [] OTHER -> IF s.moved THEN [drop EXCEPT !.mask = mask]
                     ELSE HandleMouseButton(SendMouse(drop, x, s.mask), x, mask)

\* One axis of the two, which are handled alike.
HandleWheel(s, x, mask, delta) ==
    LET total == s.wheel + delta
        step == HandleMouseButton(s, x, mask \cup {IF total < 0 THEN "up" ELSE "down"})
    IN IF Abs(total) < WHEEL_STEP THEN [s EXCEPT !.wheel = total]
       ELSE [HandleMouseButton(step, x, mask) EXCEPT !.wheel = 0]

----------------------------------------------------------------------------
(***************************************************************************)
(* Gestures.                                                               *)
(***************************************************************************)

TapButton(kind) ==
    CASE kind = "onetap" -> "left" [] kind = "twotap" -> "right" [] kind = "threetap" -> "middle"

HandleTapEvent(s, e) ==
    LET again == s.tapTime = "recent" /\ s.firstTap.kind = e.kind
        near == again /\ Abs(s.firstTap.pos - e.pos) < DOUBLE_TAP_THRESHOLD
        first == IF near THEN s.firstTap ELSE [kind |-> e.kind, pos |-> e.pos]
        x == Clip(first.pos)
        t == [s EXCEPT !.tapTime = "recent", !.firstTap = first]
    IN HandleMouseButton(HandleMouseButton(HandleMouseMove(t, x), x, {TapButton(e.kind)}), x, {})

\* As many wheel steps as the fingers moved since the last one.
Scroll(s, x, magnitude) ==
    LET gap == magnitude - s.magnitude
        steps == IF gap = 0 THEN 0 ELSE (Abs(gap) - 1) \div GESTURE_SENS
        press == HandleMouseButton(s, x, {IF gap > 0 THEN "up" ELSE "down"})
    IN IF steps = 0 THEN s
       ELSE [HandleMouseButton(press, x, {}) EXCEPT
               !.magnitude = @ + (IF gap > 0 THEN steps ELSE -steps) * GESTURE_SENS]

HandleGesture(s, e) ==
    LET x == Clip(e.pos)
        move == HandleMouseMove(s, x)
    IN CASE e.type = "gesturestart" /\ e.kind \in Taps -> HandleTapEvent(s, e)
         [] e.type = "gesturestart" /\ e.kind = "drag" ->
              IF dragViewport THEN [s EXCEPT !.moved = FALSE, !.dragging = TRUE, !.dragPos = x]
              ELSE HandleMouseButton(move, x, {"left"})
         [] e.type = "gesturestart" /\ e.kind = "longpress" ->
              IF dragViewport THEN [s EXCEPT !.moved = FALSE, !.dragPos = x]
              ELSE HandleMouseButton(move, x, {"right"})
         [] e.type = "gesturestart" /\ e.kind \in TwoTouch -> [move EXCEPT !.magnitude = e.magnitude]
         [] e.type = "gesturemove" /\ e.kind \in {"drag", "longpress"} ->
              IF dragViewport THEN DragViewport([s EXCEPT !.dragging = TRUE], x) ELSE move
         [] e.type = "gesturemove" /\ e.kind \in TwoTouch -> Scroll(move, x, e.magnitude)
         [] e.type = "gestureend" /\ e.kind \in TwoTouch -> [s EXCEPT !.magnitude = 0]   \* not read again
         [] e.type = "gestureend" /\ e.kind = "drag" ->
              IF dragViewport THEN [s EXCEPT !.dragging = FALSE, !.dragPos = 0] ELSE HandleMouseButton(move, x, {})
         [] e.type = "gestureend" /\ e.kind = "longpress" /\ ~s.moved ->
              IF dragViewport
              THEN [HandleMouseButton(HandleMouseButton(move, x, {"right"}), x, {}) EXCEPT !.dragging = FALSE]
              ELSE HandleMouseButton(move, x, {})
         [] OTHER -> s

----------------------------------------------------------------------------
(***************************************************************************)
(* Steps: the mouse.                                                       *)
(***************************************************************************)

\* The time since the last move is whatever the clock says at this step.
At(soon) == [p EXCEPT !.recent = soon]

Mouse(type, down, x) ==
    /\ buttons' = down
    /\ \E soon \in BOOLEAN :
         p' = [HandleMouse(At(soon), type, ConvertButtonMask(down), Clip(x)) EXCEPT !.recent = FALSE]
    /\ UNCHANGED <<settings, g, fingers>>

MouseMove(x) == device = "mouse" /\ Mouse("mousemove", buttons, x)

MouseDown(b, x) ==
    /\ device = "mouse" /\ b \in MouseButtons \ buttons /\ Cardinality(buttons) < MaxButtons
    /\ Mouse("mousedown", buttons \cup {b}, x)

MouseUp(b, x) ==
    /\ device = "mouse" /\ b \in buttons
    /\ Mouse("mouseup", buttons \ {b}, x)

Wheel(delta, x) ==
    /\ device = "mouse"
    /\ p' = HandleWheel(p, Clip(x), ConvertButtonMask(buttons), delta)
    /\ UNCHANGED <<settings, buttons, g, fingers>>

MouseMoveTimeout ==
    /\ p.delayed # None
    /\ p' = HandleDelayedMouseMove(p)
    /\ UNCHANGED <<settings, buttons, g, fingers>>

----------------------------------------------------------------------------
(***************************************************************************)
(* Steps: the fingers, and the clock the gestures are told apart by.       *)
(***************************************************************************)

\* The events are handled where they are dispatched, one after the other.
Handled(s, events) ==
    LET after[i \in 0 .. Len(events)] ==
          IF i = 0 THEN s ELSE HandleGesture(after[i - 1], events[i])
    IN after[Len(events)]

Gesture(next) ==
    /\ g' = [next EXCEPT !.events = <<>>]
    /\ \E soon \in BOOLEAN : p' = [Handled(At(soon), next.events) EXCEPT !.recent = FALSE]
    /\ UNCHANGED <<settings, buttons>>

TouchDown(f) ==
    /\ device = "touch" /\ f \in Fingers \ fingers
    /\ fingers' = fingers \cup {f}
    /\ Gesture(TouchStart(g, f))

TouchMoves(f, by) ==
    /\ f \in fingers
    /\ Gesture(TouchMove(g, f, by))
    /\ UNCHANGED fingers

TouchUp(f) ==
    /\ f \in fingers
    /\ fingers' = fingers \ {f}
    /\ Gesture(TouchEnd(g, f))

LongpressFires == g.long /\ g.age >= 1 /\ Gesture(LongpressTimeout(g)) /\ UNCHANGED fingers
TwoTouchFires == g.two = "runs" /\ Gesture(TwoTouchTimeout(g)) /\ UNCHANGED fingers

TimePasses ==
    /\ \/ g.tracked # <<>> /\ g.age < 2 /\ g' = [g EXCEPT !.age = @ + 1]
       \/ g.waiting /\ ~g.releaseOld /\ g' = [g EXCEPT !.releaseOld = TRUE]
    /\ UNCHANGED <<settings, buttons, fingers, p>>

TapTimePasses ==
    /\ p.tapTime = "recent"
    /\ p' = [p EXCEPT !.tapTime = "old", !.firstTap = [kind |-> "none", pos |-> 0]]
    /\ UNCHANGED <<settings, buttons, g, fingers>>

Next ==
    \/ \E x \in Places : MouseMove(x)
    \/ \E b \in MouseButtons, x \in Places : MouseDown(b, x) \/ MouseUp(b, x)
    \/ \E delta \in Scrolls, x \in Places : Wheel(delta, x)
    \/ MouseMoveTimeout
    \/ \E f \in Fingers : TouchDown(f) \/ TouchUp(f)
    \/ \E f \in Fingers, by \in Moves : TouchMoves(f, by)
    \/ LongpressFires
    \/ TwoTouchFires
    \/ TimePasses
    \/ TapTimePasses

Spec == Init /\ [][Next]_vars

----------------------------------------------------------------------------
(***************************************************************************)
(* Properties.                                                             *)
(***************************************************************************)

TypeOK ==
    /\ device \in {"mouse", "touch"} /\ dragViewport \in BOOLEAN /\ extended \in BOOLEAN
    /\ buttons \subseteq MouseButtons /\ fingers \subseteq Fingers
    /\ g.state \subseteq Kinds /\ g.ignored \subseteq Fingers
    /\ g.tracked \in Seq(Touches)
    /\ g.waiting \in BOOLEAN /\ g.long \in BOOLEAN /\ g.two \in {"null", "runs", "fired"}
    /\ p.mask \subseteq Bits /\ p.sentMask \subseteq Bits
    /\ {p.sentPos, p.at, p.dragPos} \subseteq 0 .. Width - 1
    /\ p.delayed \in {None} \cup 0 .. Width - 1

\* Every finger on the canvas is either tracked or ignored, and no other is:
\* no touch is forgotten while it is down, and none is waited for after it
\* was lifted. With all fingers up the next touch starts from nothing: no
\* gesture is ruled out, no release is waited for, no timer is left to fire.
FingersKnown ==
    /\ fingers = Active(g) \cup g.ignored
    /\ Active(g) \cap g.ignored = {}
    /\ fingers = {} => g.state = Kinds /\ g.tracked = <<>> /\ ~g.waiting /\ ~g.long /\ g.two # "runs"

\* With no finger down the server has no button down, after every order of
\* touches, timeouts, taps and drags; and its buttons are the mouse's, through
\* delayed moves and wheel steps. (Without the extension it cannot be told of
\* two. When the mouse drags the view, a wheel step or a second button sends
\* the button of the drag, and the release that ends the drag is not sent.)
NoStuckButton ==
    /\ device = "touch" /\ fingers = {} => p.sentMask = {} /\ p.mask = {}
    /\ device = "mouse" /\ ~dragViewport =>
         p.sentMask = ConvertButtonMask(buttons) \ (IF extended THEN {} ELSE Extra)

\* The server has the last position, or a move to it is waiting to be sent.
PositionKept == p.at \in {p.sentPos, p.delayed}

\* No gesture starts while another one holds a button at the server.
Starts(next) == \E i \in 1 .. Len(next.events) : next.events[i].type = "gesturestart"

OneHoldAtATime ==
    [][device = "touch" /\ p.sentMask # {} =>
         /\ \A f \in Fingers : TouchUp(f) => ~Starts(TouchEnd(g, f))
         /\ \A f \in Fingers, by \in Moves : TouchMoves(f, by) => ~Starts(TouchMove(g, f, by))
         /\ LongpressFires => ~Starts(LongpressTimeout(g))
         /\ TwoTouchFires => ~Starts(TwoTouchTimeout(g))]_vars
=============================================================================
