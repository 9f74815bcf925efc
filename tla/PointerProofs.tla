--------------------------- MODULE PointerProofs ----------------------------
(***************************************************************************)
(* Proofs that the GestureHandler forgets no finger and is at rest when    *)
(* all are up, and that what RFB makes of mouse and gestures leaves no     *)
(* button down at the server and no position unsent: for any number of     *)
(* fingers, moves and thresholds, any canvas and any number of buttons.    *)
(*                                                                         *)
(* Each handler of gesturehandler.js takes a state that satisfies Sound to *)
(* another one, and dispatches no event, one, or a start with one behind   *)
(* it (Follows). RFB handles them one by one: a held button belongs to a   *)
(* drag or long press that the handler still knows (Pointing).             *)
(***************************************************************************)
EXTENDS Pointer, FiniteSetTheorems, TLAPS

Fields == {"state", "tracked", "ignored", "waiting", "age", "releaseOld", "long", "two", "events"}

\* The fingers of a list of touches that are down.
Down(touches) == {touches[i].id : i \in {i \in 1 .. Len(touches) : touches[i].active}}

Typed(h) ==
    /\ DOMAIN h = Fields
    /\ h.state \subseteq Kinds /\ h.ignored \subseteq Fingers /\ h.tracked \in Seq(Touches)
    /\ h.waiting \in BOOLEAN /\ h.long \in BOOLEAN

Distinct(touches) ==
    \A i, j \in 1 .. Len(touches) : touches[i].id = touches[j].id => i = j

AllDown(touches) == \A i \in 1 .. Len(touches) : touches[i].active

Known(h, fs) ==
    /\ Distinct(h.tracked)
    /\ fs = Down(h.tracked) \cup h.ignored
    /\ Down(h.tracked) \cap h.ignored = {}
    /\ h.tracked # <<>> => Down(h.tracked) # {}

\* No touch is tracked: the handler is at rest, or waits for the ignored ones.
Between(h) ==
    h.tracked = <<>> =>
        /\ ~h.long /\ h.two # "runs"
        /\ h.ignored = {} => h.state = Kinds /\ ~h.waiting
        /\ h.ignored # {} => h.state = NoGesture

\* A release is waited for with at most one gesture left to be made.
Waits(h) ==
    /\ ~h.waiting => AllDown(h.tracked)
    /\ h.waiting => ~h.long
    /\ h.waiting /\ h.tracked # <<>> => h.state = {} \/ \E k \in Kinds : h.state = {k}

\* The longpress timer runs for one finger, the two-finger timer for gestures
\* of two fingers only, and they never run together.
Timers(h) ==
    /\ h.long => Len(h.tracked) = 1 /\ h.state \in {Kinds, {}} /\ h.two # "runs"
    /\ h.two = "runs" => h.state \in {{}, TwoTouch}

\* One gesture, or both of two fingers or neither.
Even(state) == (\E k \in Kinds : state = {k}) \/ ("twodrag" \in state <=> "pinch" \in state)

\* What is ruled out by the number of touches, in pairs for two fingers.
Possible(h) ==
    /\ Even(h.state)
    /\ Len(h.tracked) >= 2 => "onetap" \notin h.state
    /\ Len(h.tracked) >= 3 => "twotap" \notin h.state

Sound(h, fs) == Typed(h) /\ Known(h, fs) /\ Between(h) /\ Waits(h) /\ Timers(h) /\ Possible(h)

\* A drag or a long press is known and has not ended.
Holding == {"drag", "longpress"}
Holds(h) == (\E k \in Holding : h.state = {k}) /\ h.tracked # <<>> /\ ~h.waiting

\* RFB's side of it: what is sent is what the position and the buttons are.
Canvas == 0 .. Width - 1
PointerFields == {"mask", "delayed", "recent", "dragging", "moved", "dragPos", "wheel", "magnitude",
                  "tapTime", "firstTap", "sentMask", "sentPos", "at"}
Visible(mask) == IF extended THEN mask ELSE mask \ Extra

Shaped(s) ==
    /\ DOMAIN s = PointerFields
    /\ s.mask \subseteq Bits /\ s.sentMask \subseteq Bits
    /\ s.sentPos \in Canvas /\ s.at \in Canvas /\ s.dragPos \in Canvas
    /\ s.delayed = None \/ s.delayed \in Canvas

\* The last position was sent, or it is the one that waits.
Placed(s) == s.at = IF s.delayed = None THEN s.sentPos ELSE s.delayed
Still(s) == ~dragViewport => ~s.moved /\ ~s.dragging
Base(s) == Shaped(s) /\ Placed(s) /\ Still(s)
Sent(s) == s.sentMask = Visible(s.mask)

\* A finger holds a button only through a gesture whose end releases it.
Held(h, s) == s.mask # {} => Holds(h) /\ ~dragViewport

Settings ==
    /\ device \in {"mouse", "touch"} /\ dragViewport \in BOOLEAN /\ extended \in BOOLEAN
    /\ buttons \subseteq MouseButtons
Twos == {"null", "runs", "fired"}

Pointing ==
    /\ Settings /\ Base(p)
    /\ g.events = <<>> /\ g.two \in Twos
    /\ device = "touch" => Sent(p) /\ Held(g, p)
    /\ device = "mouse" =>
         /\ fingers = {}
         /\ ~dragViewport => Sent(p) /\ p.mask = ConvertButtonMask(buttons)

IInv == Sound(g, fingers) /\ Pointing

----------------------------------------------------------------------------
(***************************************************************************)
(* Gestures, events and lists of touches.                                  *)
(***************************************************************************)

LEMMA SingleIs ==
    ASSUME NEW S \in SUBSET Kinds
    PROVE  Cardinality(S) = 1 <=> \E k \in Kinds : S = {k}
<1>1. IsFiniteSet(Kinds)
  <2>1. \A x, y : IsFiniteSet({x} \cup {y})
      BY FS_Singleton, FS_Union
  <2>2. IsFiniteSet(TwoTouch) /\ IsFiniteSet({"drag", "longpress"}) /\ IsFiniteSet({"onetap", "twotap"})
    <3>1. TwoTouch = {"twodrag"} \cup {"pinch"} /\ IsFiniteSet({"twodrag"} \cup {"pinch"})
        BY <2>1 DEF TwoTouch
    <3>2. /\ {"drag", "longpress"} = {"drag"} \cup {"longpress"}
          /\ IsFiniteSet({"drag"} \cup {"longpress"})
        BY <2>1
    <3>3. /\ {"onetap", "twotap"} = {"onetap"} \cup {"twotap"}
          /\ IsFiniteSet({"onetap"} \cup {"twotap"})
        BY <2>1
    <3> QED
        BY <3>1, <3>2, <3>3
  <2>3. IsFiniteSet({"onetap", "twotap"} \cup {"threetap"})
      BY <2>2, FS_Singleton, FS_Union
  <2>4. {"onetap", "twotap"} \cup {"threetap"} = Taps
      BY DEF Taps
  <2> QED
      BY <2>2, <2>3, <2>4, FS_Union DEF Kinds
<1>2. IsFiniteSet(S)
    BY <1>1, FS_Subset
<1> QED
    BY <1>2, FS_Singleton

LEMMA DetectedIs ==
    ASSUME NEW h, h.state \subseteq Kinds
    PROVE  HasDetectedGesture(h) <=> /\ \E k \in Kinds : h.state = {k}
                                     /\ h.state \subseteq Taps => Down(h.tracked) = {}
BY SingleIs DEF HasDetectedGesture, Active, Down

\* Everything but the events.
Same(h, t) ==
    /\ DOMAIN t = Fields
    /\ t.state = h.state /\ t.tracked = h.tracked /\ t.ignored = h.ignored
    /\ t.waiting = h.waiting /\ t.long = h.long /\ t.two = h.two

LEMMA PushIs ==
    ASSUME NEW h, DOMAIN h = Fields, NEW type
    PROVE  Same(h, PushEvent(h, type))
BY DEF PushEvent, Same, Fields

LEMMA SameSound ==
    ASSUME NEW h, NEW t, NEW fs, Sound(h, fs), Same(h, t)
    PROVE  Sound(t, fs)
BY DEF Sound, Same, Typed, Known, Between, Waits, Timers, Possible

LEMMA DownIs ==
    ASSUME NEW touches \in Seq(Touches), NEW id
    PROVE  id \in Down(touches) <=>
             \E i \in 1 .. Len(touches) : touches[i].id = id /\ touches[i].active
BY DEF Down

LEMMA AppendIs ==
    ASSUME NEW touches \in Seq(Touches), NEW e \in Touches, e.active,
           AllDown(touches), Distinct(touches), e.id \notin Down(touches)
    PROVE  LET more == Append(touches, e)
           IN /\ more \in Seq(Touches) /\ Len(more) = Len(touches) + 1
              /\ AllDown(more) /\ Distinct(more) /\ Down(more) = Down(touches) \cup {e.id}
<1> DEFINE more == Append(touches, e)
<1>1. /\ more \in Seq(Touches) /\ Len(more) = Len(touches) + 1
      /\ \A i \in 1 .. Len(touches) : more[i] = touches[i]
      /\ more[Len(touches) + 1] = e /\ Len(touches) \in Nat
    OBVIOUS
<1> HIDE DEF more
<1>2. \A i \in 1 .. Len(more) : i \in 1 .. Len(touches) \/ i = Len(touches) + 1
    BY <1>1
<1>3. AllDown(more)
    BY <1>1, <1>2 DEF AllDown
<1>4. \A i \in 1 .. Len(touches) : touches[i].id # e.id
    BY DownIs DEF AllDown
<1>5. Distinct(more)
    BY <1>1, <1>2, <1>4 DEF Distinct
<1>6. \A i \in 1 .. Len(touches) : i \in 1 .. Len(more)
    BY <1>1
<1>7. Len(touches) + 1 \in 1 .. Len(more)
    BY <1>1
<1>8. \A id : id \in Down(more) <=> id \in Down(touches) \/ id = e.id
    BY <1>1, <1>2, <1>6, <1>7, DownIs
<1> QED
    BY <1>1, <1>3, <1>5, <1>8 DEF more

LEMMA UpdateIs ==
    ASSUME NEW touches \in Seq(Touches), Distinct(touches),
           NEW n \in 1 .. Len(touches), NEW e \in Touches, e.id = touches[n].id
    PROVE  LET new == [touches EXCEPT ![n] = e]
           IN /\ new \in Seq(Touches) /\ Len(new) = Len(touches) /\ Distinct(new)
              /\ e.active = touches[n].active =>
                   Down(new) = Down(touches) /\ (AllDown(touches) => AllDown(new))
              /\ ~e.active => Down(new) = Down(touches) \ {e.id}
<1> DEFINE new == [touches EXCEPT ![n] = e]
<1>1. /\ new \in Seq(Touches) /\ Len(new) = Len(touches) /\ new[n] = e
      /\ \A i \in 1 .. Len(touches) : i # n => new[i] = touches[i]
    OBVIOUS
<1> HIDE DEF new
<1>2. \A i \in 1 .. Len(touches) : new[i].id = touches[i].id
    BY <1>1
<1>3. Distinct(new)
    BY <1>1, <1>2 DEF Distinct
<1>4. ASSUME e.active = touches[n].active
      PROVE  Down(new) = Down(touches) /\ (AllDown(touches) => AllDown(new))
  <2>1. \A i \in 1 .. Len(touches) : new[i].active = touches[i].active
      BY <1>1, <1>4
  <2> QED
      BY <1>1, <1>2, <2>1 DEF Down, AllDown
<1>5. ASSUME ~e.active PROVE Down(new) = Down(touches) \ {e.id}
  <2>1. \A id : id \in Down(new) <=> id \in Down(touches) /\ id # e.id
      BY <1>1, <1>2, <1>5, DownIs DEF Distinct
  <2> QED
      BY <2>1
<1> QED
    BY <1>1, <1>3, <1>4, <1>5 DEF new

LEMMA NthIs ==
    ASSUME NEW h, h.tracked \in Seq(Touches), Distinct(h.tracked), NEW id \in Down(h.tracked)
    PROVE  LET n == Nth(h, id)
           IN /\ n \in 1 .. Len(h.tracked) /\ h.tracked[n].id = id /\ h.tracked[n].active
              /\ h.tracked[n] \in Touches /\ Tracks(h, id)
<1>1. PICK i \in 1 .. Len(h.tracked) : h.tracked[i].id = id /\ h.tracked[i].active
    BY DownIs
<1>2. Nth(h, id) \in 1 .. Len(h.tracked) /\ h.tracked[Nth(h, id)].id = id
    BY <1>1 DEF Nth
<1>3. Nth(h, id) = i
    BY <1>1, <1>2 DEF Distinct
<1> QED
    BY <1>1, <1>3 DEF Tracks

----------------------------------------------------------------------------
(***************************************************************************)
(* The handlers.                                                           *)
(***************************************************************************)

LEMMA TouchStartIs ==
    ASSUME NEW h, NEW fs, Sound(h, fs), NEW f \in Fingers, f \notin fs
    PROVE  Sound(TouchStart(h, f), fs \cup {f})
<1> DEFINE ignore == [h EXCEPT !.ignored = @ \cup {f}]
           dead == [ignore EXCEPT !.state = NoGesture]
           touch == [id |-> f, active |-> TRUE, by |-> 0, angle |-> 0]
           more == Append(h.tracked, touch)
           t == [h EXCEPT !.tracked = more]
<1>1. /\ DOMAIN h = Fields /\ h.state \subseteq Kinds /\ h.tracked \in Seq(Touches)
      /\ f \notin h.ignored /\ f \notin Down(h.tracked)
      /\ Typed(h) /\ Known(h, fs) /\ Between(h) /\ Waits(h) /\ Timers(h) /\ Possible(h)
    BY DEF Sound, Typed, Known
<1>2. CASE HasDetectedGesture(h) \/ h.state = NoGesture
  <2>1. TouchStart(h, f) = ignore
      BY <1>2 DEF TouchStart
  <2>2. /\ DOMAIN ignore = Fields /\ ignore.ignored = h.ignored \cup {f}
        /\ ignore.state = h.state /\ ignore.tracked = h.tracked /\ ignore.waiting = h.waiting
        /\ ignore.long = h.long /\ ignore.two = h.two
      BY <1>1 DEF Fields
  <2>3. h.tracked = <<>> => h.state = NoGesture
      BY <1>1, <1>2, DetectedIs DEF Between, Kinds, Taps
  <2> HIDE DEF ignore
  <2>4. Typed(ignore) /\ Known(ignore, fs \cup {f})
      BY <1>1, <2>2 DEF Typed, Known
  <2>5. Between(ignore)
      BY <1>1, <2>2, <2>3 DEF Between
  <2>6. Waits(ignore) /\ Timers(ignore) /\ Possible(ignore)
      BY <1>1, <2>2 DEF Waits, Timers, Possible
  <2> QED
      BY <2>1, <2>4, <2>5, <2>6 DEF Sound
<1>3. CASE /\ ~(HasDetectedGesture(h) \/ h.state = NoGesture)
           /\ h.tracked # <<>> /\ (h.age >= 1 \/ h.waiting)
  <2>1. TouchStart(h, f) = dead
      BY <1>3 DEF TouchStart
  <2>2. /\ DOMAIN dead = Fields /\ dead.ignored = h.ignored \cup {f}
        /\ dead.state = {} /\ dead.tracked = h.tracked /\ dead.waiting = h.waiting
        /\ dead.long = h.long /\ dead.two = h.two
      BY <1>1 DEF Fields, NoGesture
  <2> HIDE DEF dead, ignore
  <2>3. Typed(dead) /\ Known(dead, fs \cup {f})
      BY <1>1, <2>2 DEF Typed, Known
  <2>4. Between(dead) /\ Waits(dead) /\ Timers(dead) /\ Possible(dead)
      BY <1>1, <1>3, <2>2 DEF Between, Waits, Timers, Possible, Even
  <2> QED
      BY <2>1, <2>3, <2>4 DEF Sound
<1>4. CASE /\ ~(HasDetectedGesture(h) \/ h.state = NoGesture)
           /\ ~(h.tracked # <<>> /\ (h.age >= 1 \/ h.waiting))
  <2>1. AllDown(h.tracked) /\ ~h.waiting
    <3>1. CASE h.tracked = <<>>
        BY <1>1, <1>4, <3>1 DEF Between, AllDown
    <3>2. CASE h.tracked # <<>>
        BY <1>1, <1>4, <3>2 DEF Waits
    <3> QED
        BY <3>1, <3>2
  <2>2. touch \in Touches /\ touch.active /\ touch.id = f
      BY DEF Touches
  <2> HIDE DEF touch
  <2>3. /\ more \in Seq(Touches) /\ Len(more) = Len(h.tracked) + 1 /\ Len(h.tracked) \in Nat
        /\ AllDown(more) /\ Distinct(more) /\ Down(more) = Down(h.tracked) \cup {f}
      BY <1>1, <2>1, <2>2, AppendIs DEF Known
  <2>3a. /\ Len(more) = 1 => Len(h.tracked) = 0
         /\ Len(more) = 3 => Len(h.tracked) = 2
         /\ Len(more) # 2 => Len(h.tracked) # 1
    <3>1. \A m, n : m = n + 1 /\ n \in Nat =>
             (m = 1 => n = 0) /\ (m = 3 => n = 2) /\ (m # 2 => n # 1)
        OBVIOUS
    <3> QED
        BY <2>3, <3>1, Zenon
  <2>4. more # <<>> /\ (Len(h.tracked) = 0 => h.tracked = <<>>)
    <3>1. h.tracked \in Seq(Touches)
        BY <1>1
    <3> QED
        BY <3>1
  <2> HIDE DEF more
  <2>5. /\ DOMAIN t = Fields /\ t.tracked = more /\ t.ignored = h.ignored
        /\ t.state = h.state /\ t.waiting = h.waiting /\ t.long = h.long /\ t.two = h.two
      BY <1>1 DEF Fields
  <2>6. \A u : /\ DOMAIN u = Fields /\ u.tracked = more /\ u.ignored = h.ignored
               /\ u.waiting = h.waiting
               /\ u.state \subseteq Kinds /\ (u.long = h.long \/ u.long \in BOOLEAN)
               => Typed(u) /\ Known(u, fs \cup {f}) /\ Between(u)
      BY <1>1, <2>3, <2>4 DEF Typed, Known, Between
  <2> DEFINE one == [t EXCEPT !.long = TRUE, !.age = 0]
             two == [t EXCEPT !.state = @ \ {"onetap", "drag", "longpress"}, !.long = FALSE]
             three == [t EXCEPT !.state = @ \ ({"twotap"} \cup TwoTouch)]
             four == [t EXCEPT !.state = NoGesture]
  <2>7. TouchStart(h, f) = CASE Len(t.tracked) = 1 -> one [] Len(t.tracked) = 2 -> two
                             [] Len(t.tracked) = 3 -> three [] OTHER -> four
      BY <1>4 DEF TouchStart, more, touch
  <2> HIDE DEF t
  <2>8. CASE Len(more) = 1
    <3>1. /\ DOMAIN one = Fields /\ one.tracked = more /\ one.ignored = h.ignored
          /\ one.state = h.state /\ one.waiting = h.waiting /\ one.long = TRUE /\ one.two = h.two
        BY <2>5 DEF Fields
    <3>2. TouchStart(h, f) = one
        BY <2>5, <2>7, <2>8
    <3> HIDE DEF one
    <3>3. h.tracked = <<>>
      <4>1. Len(h.tracked) = 0
          BY <2>3a, <2>8
      <4> QED
          BY <2>4, <4>1
    <3>4. h.state = Kinds /\ h.two # "runs"
        BY <1>1, <1>4, <3>3 DEF Between, NoGesture
    <3>5. Waits(one)
        BY <2>1, <2>3, <3>1 DEF Waits
    <3>6. Timers(one)
        BY <2>8, <3>1, <3>4 DEF Timers
    <3>7. Possible(one)
      <4>1. "twodrag" \in Kinds /\ "pinch" \in Kinds
          BY DEF Kinds, TwoTouch
      <4>2. ~(Len(one.tracked) >= 2) /\ ~(Len(one.tracked) >= 3)
          BY <2>8, <3>1
      <4> QED
          BY <3>1, <3>4, <4>1, <4>2 DEF Possible, Even
    <3> QED
        BY <1>1, <2>6, <3>1, <3>2, <3>5, <3>6, <3>7 DEF Sound
  <2>9. CASE Len(more) = 2
    <3>1. /\ DOMAIN two = Fields /\ two.tracked = more /\ two.ignored = h.ignored
          /\ two.state = h.state \ {"onetap", "drag", "longpress"}
          /\ two.waiting = h.waiting /\ two.long = FALSE /\ two.two = h.two
        BY <2>5 DEF Fields
    <3>2. TouchStart(h, f) = two
        BY <2>5, <2>7, <2>9
    <3> HIDE DEF two
    <3>3. Waits(two)
        BY <2>1, <2>3, <3>1 DEF Waits
    <3>4. Timers(two)
        BY <1>1, <3>1 DEF Timers, TwoTouch
    <3>5. Possible(two)
      <4>1. CASE \E k \in Kinds : h.state = {k}
          BY <1>1, <1>4, <2>9, <3>1, <4>1 DEF Possible, Even
      <4>2. CASE ~(\E k \in Kinds : h.state = {k})
        <5>1. "twodrag" \in two.state <=> "pinch" \in two.state
            BY <1>1, <3>1, <4>2 DEF Possible, Even
        <5>2. Len(two.tracked) = 2 /\ "onetap" \notin two.state
            BY <2>9, <3>1
        <5> QED
            BY <5>1, <5>2 DEF Possible, Even
      <4> QED
          BY <4>1, <4>2
    <3> QED
        BY <1>1, <2>6, <3>1, <3>2, <3>3, <3>4, <3>5 DEF Sound
  <2>10. CASE Len(more) = 3
    <3>1. /\ DOMAIN three = Fields /\ three.tracked = more /\ three.ignored = h.ignored
          /\ three.state = h.state \ ({"twotap"} \cup TwoTouch)
          /\ three.waiting = h.waiting /\ three.long = h.long /\ three.two = h.two
        BY <2>5 DEF Fields
    <3>2. TouchStart(h, f) = three
        BY <2>5, <2>7, <2>10
    <3> HIDE DEF three
    <3>3. Waits(three)
        BY <2>1, <2>3, <3>1 DEF Waits
    <3>4. Len(h.tracked) = 2
        BY <2>3a, <2>10
    <3>5. Timers(three)
        BY <1>1, <3>1, <3>4 DEF Timers
    <3>6. Possible(three)
      <4>1. "twodrag" \notin three.state /\ "pinch" \notin three.state
          BY <3>1 DEF TwoTouch
      <4>2. "onetap" \notin three.state /\ "twotap" \notin three.state
          BY <1>1, <3>1, <3>4 DEF Possible
      <4> QED
          BY <4>1, <4>2 DEF Possible, Even
    <3> QED
        BY <1>1, <2>6, <3>1, <3>2, <3>3, <3>5, <3>6 DEF Sound
  <2>11. CASE Len(more) \notin {1, 2, 3}
    <3>1. /\ DOMAIN four = Fields /\ four.tracked = more /\ four.ignored = h.ignored
          /\ four.state = {}
          /\ four.waiting = h.waiting /\ four.long = h.long /\ four.two = h.two
        BY <2>5 DEF Fields, NoGesture
    <3>2. TouchStart(h, f) = four
        BY <2>5, <2>7, <2>11
    <3> HIDE DEF four
    <3>3. Waits(four) /\ Possible(four)
        BY <2>1, <2>3, <3>1 DEF Waits, Possible, Even
    <3>4. Timers(four)
      <4>1. Len(more) # 1
          BY <2>11
      <4>2. ~h.long
        <5>1. CASE h.tracked = <<>>
            BY <1>1, <5>1 DEF Between
        <5>2. CASE h.tracked # <<>>
          <6>1. Len(h.tracked) # 1
              BY <2>3a, <2>11
          <6> QED
              BY <1>1, <6>1 DEF Timers
        <5> QED
            BY <5>1, <5>2
      <4> QED
          BY <1>1, <3>1, <4>2 DEF Timers
    <3> QED
        BY <1>1, <2>6, <3>1, <3>2, <3>3, <3>4 DEF Sound
  <2> QED
      BY <2>8, <2>9, <2>10, <2>11
<1> QED
    BY <1>2, <1>3, <1>4

\* Fewer gestures are possible, and the longpress timer is stopped.
LEMMA NarrowIs ==
    ASSUME NEW h, NEW fs, Sound(h, fs), h.tracked # <<>>, NEW t,
           DOMAIN t = Fields, t.tracked = h.tracked, t.ignored = h.ignored,
           t.waiting = h.waiting, t.state \subseteq h.state, t.long = FALSE,
           t.two = "runs" => t.state \in {{}, TwoTouch}, Even(t.state)
    PROVE  Sound(t, fs)
<1>1. Typed(t) /\ Known(t, fs) /\ Between(t)
    BY DEF Sound, Typed, Known, Between
<1>2. Waits(t)
  <2>1. /\ h.waiting => h.state = {} \/ \E k \in Kinds : h.state = {k}
        /\ ~h.waiting => AllDown(h.tracked)
      BY DEF Sound, Waits
  <2>2. h.waiting => t.state = {} \/ \E k \in Kinds : t.state = {k}
      BY <2>1
  <2> QED
      BY <2>1, <2>2 DEF Waits
<1>3. Timers(t)
    BY DEF Timers
<1>4. Possible(t)
    BY DEF Sound, Possible
<1> QED
    BY <1>1, <1>2, <1>3, <1>4 DEF Sound

\* A touch moved, nothing else.
LEMMA MovedIs ==
    ASSUME NEW h, NEW fs, Sound(h, fs), NEW t,
           DOMAIN t = Fields, t.ignored = h.ignored, t.state = h.state,
           t.waiting = h.waiting, t.long = h.long, t.two = h.two,
           t.tracked \in Seq(Touches), h.tracked # <<>>, t.tracked # <<>>,
           Len(t.tracked) = Len(h.tracked), Distinct(t.tracked),
           Down(t.tracked) = Down(h.tracked), AllDown(h.tracked) => AllDown(t.tracked)
    PROVE  Sound(t, fs)
<1>1. Typed(t) /\ Known(t, fs) /\ Between(t)
    BY DEF Sound, Typed, Known, Between
<1>2. Waits(t) /\ Timers(t) /\ Possible(t)
    BY DEF Sound, Waits, Timers, Possible
<1> QED
    BY <1>1, <1>2 DEF Sound

\* Far enough for a gesture: what stays possible of more than one finger.
FarState(state, n) ==
    state \ (Taps \cup {"longpress"} \cup (IF n # 1 THEN {"drag"} ELSE {})
                                    \cup (IF n # 2 THEN TwoTouch ELSE {}))
NoSingle(state) == ~(\E k \in Kinds \ Taps : state = {k})

LEMMA FarIs ==
    ASSUME NEW state, state \subseteq Kinds, Even(state), NEW n, NoSingle(state),
           NEW far, far = FarState(state, n)
    PROVE  /\ Even(far) /\ far \subseteq state
           /\ n = 2 => far \in {{}, TwoTouch}
           /\ state \in {{}, TwoTouch} => far \in {{}, TwoTouch}
<1>1. CASE n # 2
  <2>1. "twodrag" \notin far /\ "pinch" \notin far
      BY <1>1 DEF TwoTouch, FarState
  <2>2. state \in {{}, TwoTouch} => far = {}
      BY <1>1 DEF FarState
  <2> QED
      BY <1>1, <2>1, <2>2 DEF Even, FarState
<1>2. CASE n = 2
  <2>1. far = state \cap TwoTouch
    <3>1. far = state \ (Taps \cup {"longpress", "drag"})
        BY <1>2 DEF FarState
    <3>2. Kinds = Taps \cup {"longpress", "drag"} \cup TwoTouch
        BY DEF Kinds
    <3>3. TwoTouch \cap (Taps \cup {"longpress", "drag"}) = {}
        BY DEF Taps, TwoTouch
    <3> HIDE DEF Taps, TwoTouch, Kinds
    <3> QED
        BY <3>1, <3>2, <3>3
  <2>2. "twodrag" \in state <=> "pinch" \in state
    <3>1. CASE \E k \in Kinds : state = {k}
      <4>1. PICK k \in Taps : state = {k}
          BY <3>1 DEF NoSingle
      <4> QED
          BY <4>1 DEF Taps
    <3>2. CASE ~(\E k \in Kinds : state = {k})
        BY <3>2 DEF Even
    <3> QED
        BY <3>1, <3>2
  <2>3. far = {} \/ far = TwoTouch
      BY <2>1, <2>2 DEF TwoTouch
  <2> QED
      BY <1>2, <2>1, <2>2, <2>3 DEF Even, TwoTouch
<1> QED
    BY <1>1, <1>2

BothOrNone(state) == state = {} \/ state = TwoTouch

LEMMA TellTwoTouchIs ==
    ASSUME NEW h, NEW fs, Sound(h, fs), h.tracked # <<>>, h.long = FALSE, NEW id,
           BothOrNone(h.state)
    PROVE  Sound(TellTwoTouch(h, id), fs)
<1> DEFINE other == h.tracked[3 - Nth(h, id)]
           opposite == h.tracked[Nth(h, id)].angle # other.angle
           x == IF opposite THEN "twodrag" ELSE "pinch"
           told == [h EXCEPT !.state = @ \ {x}, !.two = "null"]
           runs == [h EXCEPT !.two = "runs"]
           isFar == Abs(other.by) > MOVE_THRESHOLD
<1>1. TellTwoTouch(h, id) = IF isFar THEN told ELSE IF h.two = "null" THEN runs ELSE h
    BY DEF TellTwoTouch
<1>2. x \in TwoTouch /\ DOMAIN h = Fields
    BY DEF TwoTouch, Sound, Typed
<1> HIDE DEF x, isFar, opposite, other
<1>3. Sound(told, fs)
  <2>1. /\ DOMAIN told = Fields /\ told.tracked = h.tracked /\ told.ignored = h.ignored
        /\ told.waiting = h.waiting /\ told.long = FALSE /\ told.two = "null"
        /\ told.state = h.state \ {x}
      BY <1>2 DEF Fields
  <2> HIDE DEF told
  <2>2. CASE h.state = {}
    <3>1. told.state = {}
        BY <2>1, <2>2
    <3> QED
        BY <2>1, <3>1, NarrowIs DEF Even
  <2>3. CASE h.state = TwoTouch
    <3>1. told.state \in {{"twodrag"}, {"pinch"}} /\ told.state \subseteq h.state
        BY <1>2, <2>1, <2>3 DEF TwoTouch
    <3>2. Even(told.state)
        BY <3>1 DEF Even, Kinds, TwoTouch
    <3> QED
        BY <2>1, <3>1, <3>2, NarrowIs
  <2> QED
      BY <2>2, <2>3 DEF BothOrNone
<1>4. Sound(runs, fs)
  <2>1. /\ DOMAIN runs = Fields /\ runs.tracked = h.tracked /\ runs.ignored = h.ignored
        /\ runs.waiting = h.waiting /\ runs.long = FALSE /\ runs.state = h.state
      BY <1>2 DEF Fields
  <2> HIDE DEF runs
  <2>2. Even(h.state) /\ (runs.two = "runs" => h.state \in {{}, TwoTouch})
      BY DEF Sound, Possible, BothOrNone
  <2> QED
      BY <2>1, <2>2, NarrowIs
<1> QED
    BY <1>1, <1>3, <1>4

LEMMA TouchMoveIs ==
    ASSUME NEW h, NEW fs, Sound(h, fs), NEW f \in Fingers, NEW by \in Moves
    PROVE  Sound(TouchMove(h, f, by), fs)
<1> DEFINE n == Nth(h, f)
           size == Len(h.tracked)
           touch == [h.tracked[n] EXCEPT
                       !.by = by, !.angle = CASE by > 0 -> 0 [] by < 0 -> 180 [] OTHER -> @]
           m == [h EXCEPT !.tracked[n] = touch]
           far == [m EXCEPT !.state = @ \ (Taps \cup {"longpress"}
                                              \cup (IF size # 1 THEN {"drag"} ELSE {})
                                              \cup (IF size # 2 THEN TwoTouch ELSE {})),
                            !.long = FALSE]
           told == IF size = 2 THEN TellTwoTouch(far, f) ELSE far
           once == PushEvent(told, "gesturestart")
<1>1. SUFFICES ASSUME Tracks(h, f) PROVE Sound(TouchMove(h, f, by), fs)
    BY DEF TouchMove
<1>2. /\ DOMAIN h = Fields /\ h.tracked \in Seq(Touches) /\ Distinct(h.tracked)
      /\ h.state \subseteq Kinds /\ (h.tracked # <<>> => Down(h.tracked) # {})
    BY DEF Sound, Typed, Known
<1>3. n \in 1 .. size /\ h.tracked[n].id = f
    BY <1>1 DEF Tracks, Nth
<1>4. h.tracked[n] \in Touches /\ h.tracked # <<>>
    BY <1>2, <1>3
<1>5. TouchMove(h, f, by) \in {PushEvent(m, "gesturemove"), m, told, PushEvent(once, "gesturemove")}
      /\ (~HasDetectedGesture(m) \/ TouchMove(h, f, by) = PushEvent(m, "gesturemove"))
    BY <1>1 DEF TouchMove
<1> HIDE DEF n
<1>6. touch \in Touches /\ touch.id = h.tracked[n].id /\ touch.active = h.tracked[n].active
  <2>1. by \in Int
      BY MovesAssumption
  <2> DEFINE turned == CASE by > 0 -> 0 [] by < 0 -> 180 [] OTHER -> h.tracked[n].angle
  <2>2. turned \in {0, 180}
    <3>1. h.tracked[n].angle \in {0, 180}
        BY <1>4 DEF Touches
    <3> QED
        BY <2>1, <3>1
  <2>3. touch = [h.tracked[n] EXCEPT !.by = by, !.angle = turned]
      OBVIOUS
  <2> HIDE DEF turned, touch
  <2> QED
      BY <1>4, <2>2, <2>3 DEF Touches
<1> HIDE DEF touch
<1>7. /\ DOMAIN m = Fields /\ m.tracked = [h.tracked EXCEPT ![n] = touch]
      /\ m.ignored = h.ignored /\ m.state = h.state
      /\ m.waiting = h.waiting /\ m.long = h.long /\ m.two = h.two
    BY <1>2 DEF Fields
<1> HIDE DEF m
<1>8. /\ m.tracked \in Seq(Touches) /\ Len(m.tracked) = size /\ Distinct(m.tracked)
      /\ Down(m.tracked) = Down(h.tracked) /\ (AllDown(h.tracked) => AllDown(m.tracked))
    BY <1>2, <1>3, <1>6, <1>7, UpdateIs
<1>9. m.tracked # <<>>
    BY <1>3, <1>8
<1>10. Sound(m, fs)
    BY <1>2, <1>4, <1>7, <1>8, <1>9, MovedIs
<1>11. CASE HasDetectedGesture(m)
  <2>1. Sound(PushEvent(m, "gesturemove"), fs)
      BY <1>7, <1>10, PushIs, SameSound
  <2> QED
      BY <1>5, <1>11, <2>1
<1>12. CASE ~HasDetectedGesture(m)
  <2>1. NoSingle(m.state)
      BY <1>2, <1>7, <1>12, DetectedIs DEF NoSingle
  <2>2. /\ DOMAIN far = Fields /\ far.tracked = m.tracked /\ far.ignored = m.ignored
        /\ far.waiting = m.waiting /\ far.long = FALSE /\ far.two = m.two
        /\ far.state = FarState(m.state, size)
      BY <1>7 DEF Fields, FarState
  <2> HIDE DEF far, size
  <2>3. Even(m.state) /\ (m.two = "runs" => m.state \in {{}, TwoTouch})
      BY <1>10 DEF Sound, Possible, Timers
  <2>4. /\ Even(far.state) /\ far.state \subseteq m.state
        /\ size = 2 => far.state \in {{}, TwoTouch}
        /\ m.state \in {{}, TwoTouch} => far.state \in {{}, TwoTouch}
      BY <1>2, <1>7, <2>1, <2>2, <2>3, FarIs
  <2>5. Sound(far, fs)
      BY <1>9, <1>10, <2>2, <2>3, <2>4, NarrowIs
  <2>6. Sound(told, fs)
    <3>1. CASE size = 2
      <4>1. far.tracked # <<>> /\ far.long = FALSE /\ BothOrNone(far.state)
          BY <1>9, <2>2, <2>4, <3>1 DEF BothOrNone
      <4>2. Sound(TellTwoTouch(far, f), fs)
          BY <2>5, <4>1, TellTwoTouchIs
      <4> QED
          BY <3>1, <4>2
    <3>2. CASE size # 2
        BY <2>5, <3>2
    <3> QED
        BY <3>1, <3>2
  <2> HIDE DEF told
  <2>7. DOMAIN told = Fields
      BY <2>6 DEF Sound, Typed
  <2>8. Sound(once, fs) /\ DOMAIN once = Fields
      BY <2>6, <2>7, PushIs, SameSound DEF Same
  <2> HIDE DEF once
  <2>9. Sound(PushEvent(once, "gesturemove"), fs)
      BY <2>8, PushIs, SameSound
  <2>10. Sound(PushEvent(m, "gesturemove"), fs)
      BY <1>7, <1>10, PushIs, SameSound
  <2> QED
      BY <1>5, <1>10, <2>6, <2>9, <2>10
<1> QED
    BY <1>11, <1>12

LEMMA FinishIs ==
    ASSUME NEW h, DOMAIN h = Fields, h.tracked \in Seq(Touches), h.ignored \subseteq Fingers,
           h.waiting = TRUE \/ h.waiting = FALSE, h.long = FALSE, h.two # "runs", NEW f,
           NEW fs, fs = (h.ignored \cup Down(h.tracked)) \ {f}
    PROVE  Sound(Finish(h, f), fs)
<1> DEFINE t == [h EXCEPT !.tracked = <<>>, !.ignored = fs, !.state = NoGesture, !.age = 0]
           rest == [t EXCEPT !.state = Kinds, !.waiting = FALSE]
<1>1. Finish(h, f) = IF fs = {} THEN rest ELSE t
    BY DEF Finish, Active, Down
<1>2. fs \subseteq Fingers
  <2>1. \A id \in Down(h.tracked) : id \in Fingers
    <3>1. \A i \in 1 .. Len(h.tracked) : h.tracked[i] \in Touches
        OBVIOUS
    <3>2. \A i \in 1 .. Len(h.tracked) : h.tracked[i].id \in Fingers
        BY <3>1 DEF Touches
    <3> QED
        BY <3>2, DownIs
  <2> QED
      BY <2>1
<1>3. Down(<<>>) = {} /\ Distinct(<<>>) /\ AllDown(<<>>) /\ <<>> \in Seq(Touches) /\ Len(<<>>) = 0
    BY DEF Down, Distinct, AllDown
<1>4. /\ DOMAIN t = Fields /\ t.tracked = <<>> /\ t.ignored = fs /\ t.state = {}
      /\ t.waiting = h.waiting /\ t.long = FALSE /\ t.two = h.two
    BY DEF Fields, NoGesture
<1> HIDE DEF t
<1>5. /\ DOMAIN rest = Fields /\ rest.tracked = <<>> /\ rest.ignored = fs /\ rest.state = Kinds
      /\ rest.waiting = FALSE /\ rest.long = FALSE /\ rest.two = h.two
    BY <1>4 DEF Fields
<1> HIDE DEF rest
<1>6. \A u : /\ DOMAIN u = Fields /\ u.tracked = <<>> /\ u.ignored = fs /\ u.long = FALSE
             /\ u.two = h.two /\ (u.waiting = TRUE \/ u.waiting = FALSE)
             /\ \/ u.state = Kinds /\ fs = {} /\ u.waiting = FALSE
                \/ u.state = {} /\ fs # {}
             => Sound(u, fs)
  <2> SUFFICES
        ASSUME NEW u, DOMAIN u = Fields, u.tracked = <<>>, u.ignored = fs, u.long = FALSE,
               u.two = h.two, u.waiting = TRUE \/ u.waiting = FALSE,
               \/ u.state = Kinds /\ fs = {} /\ u.waiting = FALSE
               \/ u.state = {} /\ fs # {}
        PROVE  Sound(u, fs)
      OBVIOUS
  <2>1. Typed(u) /\ Known(u, fs)
      BY <1>2, <1>3 DEF Typed, Known
  <2>2. Between(u)
      BY DEF Between, NoGesture
  <2>3. Waits(u) /\ Timers(u)
      BY <1>3 DEF Waits, Timers
  <2>4. Possible(u)
    <3>1. "twodrag" \in Kinds /\ "pinch" \in Kinds
        BY DEF Kinds, TwoTouch
    <3> QED
        BY <1>3, <3>1 DEF Possible, Even
  <2> QED
      BY <2>1, <2>2, <2>3, <2>4 DEF Sound
<1> QED
    BY <1>1, <1>4, <1>5, <1>6

\* A release is waited for, with one tap still possible.
OneTapLeft(state) == state = {} \/ \E k \in Kinds : state = {k}

LEMMA FirstReleaseIs ==
    ASSUME NEW h, NEW fs, Sound(h, fs), h.tracked # <<>>, NEW early,
           \/ early = h /\ (HasDetectedGesture(h) \/ h.two = "null")
           \/ early = [h EXCEPT !.two = "null", !.state = NoGesture]
    PROVE  LET f == FirstRelease(early)
           IN /\ DOMAIN f = Fields /\ f.tracked = h.tracked /\ f.ignored = h.ignored
              /\ f.state \subseteq h.state /\ f.long = FALSE /\ f.two # "runs"
              /\ f.waiting = TRUE \/ f.waiting = FALSE
              /\ f.waiting => OneTapLeft(f.state)
<1>1. /\ DOMAIN h = Fields /\ h.state \subseteq Kinds /\ h.tracked \in Seq(Touches)
      /\ h.waiting \in BOOLEAN /\ h.long \in BOOLEAN
      /\ Waits(h) /\ Timers(h) /\ Possible(h)
    BY DEF Sound, Typed
<1>2. /\ DOMAIN early = Fields /\ early.tracked = h.tracked /\ early.ignored = h.ignored
      /\ early.waiting = h.waiting /\ early.long = h.long
      /\ early.state \in {h.state, {}} /\ (early.two = "null" \/ early = h)
    BY <1>1 DEF Fields, NoGesture
<1>3. CASE HasDetectedGesture(early)
  <2>1. FirstRelease(early) = early
      BY <1>3 DEF FirstRelease
  <2>2. PICK k \in Kinds : early.state = {k}
      BY <1>1, <1>2, <1>3, DetectedIs
  <2>3. h.state = {k}
      BY <1>2, <2>2
  <2>4. h.state \notin {{}, Kinds, TwoTouch}
    <3>1. "onetap" \in Kinds /\ "twotap" \in Kinds
        BY DEF Kinds, Taps
    <3>2. "twodrag" \in TwoTouch /\ "pinch" \in TwoTouch
        BY DEF TwoTouch
    <3>3. h.state # Kinds
        BY <2>3, <3>1
    <3>4. h.state # TwoTouch
        BY <2>3, <3>2
    <3> QED
        BY <2>3, <3>3, <3>4
  <2>5. h.long = FALSE /\ h.two # "runs"
      BY <1>1, <2>4 DEF Timers
  <2> QED
      BY <1>1, <1>2, <2>1, <2>2, <2>3, <2>5 DEF OneTapLeft
<1>4. CASE ~HasDetectedGesture(early)
  <2> DEFINE not == {"drag", "longpress"} \cup TwoTouch
             fewer == CASE Len(early.tracked) = 1 -> {"twotap", "threetap"}
                        [] Len(early.tracked) = 2 -> {"onetap", "threetap"}
                        [] OTHER -> {}
             s == [early EXCEPT !.state = @ \ not, !.long = FALSE]
             first == [s EXCEPT !.waiting = TRUE, !.releaseOld = FALSE, !.state = @ \ fewer]
  <2>1. FirstRelease(early) = IF early.waiting THEN s ELSE first
      BY <1>4 DEF FirstRelease
  <2>2. early.two = "null"
    <3>1. CASE early = h /\ (HasDetectedGesture(h) \/ h.two = "null")
        BY <1>4, <3>1
    <3>2. CASE early = [h EXCEPT !.two = "null", !.state = NoGesture]
        BY <1>1, <3>2 DEF Fields
    <3> QED
        BY <3>1, <3>2
  <2>3. fewer = CASE Len(h.tracked) = 1 -> {"twotap", "threetap"}
                  [] Len(h.tracked) = 2 -> {"onetap", "threetap"}
                  [] OTHER -> {}
      BY <1>2
  <2> HIDE DEF not, fewer
  <2>4. /\ DOMAIN s = Fields /\ s.tracked = h.tracked /\ s.ignored = h.ignored
        /\ s.state = early.state \ not /\ s.waiting = h.waiting /\ s.long = FALSE
        /\ s.two = "null"
      BY <1>2, <2>2 DEF Fields
  <2> HIDE DEF s
  <2>5. /\ DOMAIN first = Fields /\ first.tracked = h.tracked /\ first.ignored = h.ignored
        /\ first.state = (early.state \ not) \ fewer /\ first.waiting = TRUE /\ first.long = FALSE
        /\ first.two = "null"
      BY <2>4 DEF Fields
  <2> HIDE DEF first
  <2>6. CASE h.waiting
    <3>1. OneTapLeft(h.state)
        BY <1>1, <2>6 DEF Waits, OneTapLeft
    <3>2. OneTapLeft(s.state)
        BY <1>2, <2>4, <3>1 DEF OneTapLeft
    <3> QED
        BY <1>2, <2>1, <2>4, <2>6, <3>2
  <2>7. CASE ~h.waiting
    <3>1. first.state \subseteq h.state \ not
        BY <1>2, <2>5
    <3>2. h.state \ not \subseteq {"onetap", "twotap", "threetap"}
        BY <1>1 DEF not, Kinds, Taps
    <3>3. \E k \in Kinds : first.state \subseteq {k}
      <4>1. CASE Len(h.tracked) = 1
        <5>1. first.state \subseteq {"onetap"}
            BY <2>3, <2>5, <3>1, <3>2, <4>1
        <5> QED
            BY <5>1 DEF Kinds, Taps
      <4>2. CASE Len(h.tracked) = 2
        <5>1. first.state \subseteq {"twotap"}
            BY <2>3, <2>5, <3>1, <3>2, <4>2
        <5> QED
            BY <5>1 DEF Kinds, Taps
      <4>3. CASE Len(h.tracked) \notin {1, 2}
        <5>1. Len(h.tracked) >= 2 /\ Len(h.tracked) >= 3
          <6>1. Len(h.tracked) \in Nat /\ Len(h.tracked) # 0
              BY <1>1
          <6>2. \A n : n \in Nat /\ n # 0 /\ n \notin {1, 2} => n >= 2 /\ n >= 3
              OBVIOUS
          <6> QED
              BY <4>3, <6>1, <6>2, Zenon
        <5>2. first.state \subseteq {"threetap"}
            BY <1>1, <3>1, <3>2, <5>1 DEF Possible
        <5> QED
            BY <5>2 DEF Kinds, Taps
      <4> QED
          BY <4>1, <4>2, <4>3
    <3>4. OneTapLeft(first.state)
        BY <3>3 DEF OneTapLeft
    <3> QED
        BY <1>2, <2>1, <2>5, <2>7, <3>1, <3>4
  <2> QED
      BY <2>6, <2>7
<1> QED
    BY <1>3, <1>4

LEMMA TouchEndIs ==
    ASSUME NEW h, NEW fs, Sound(h, fs), NEW id \in Fingers, id \in fs
    PROVE  Sound(TouchEnd(h, id), fs \ {id})
<1>1. /\ DOMAIN h = Fields /\ h.state \subseteq Kinds /\ h.tracked \in Seq(Touches)
      /\ h.ignored \subseteq Fingers
      /\ Typed(h) /\ Known(h, fs) /\ Between(h) /\ Waits(h) /\ Timers(h) /\ Possible(h)
    BY DEF Sound, Typed
<1>2. fs = Down(h.tracked) \cup h.ignored /\ Down(h.tracked) \cap h.ignored = {}
    BY <1>1 DEF Known
<1>3. CASE id \in h.ignored
  <2> DEFINE dropped == [h EXCEPT !.ignored = @ \ {id}]
             rest == [dropped EXCEPT !.state = Kinds, !.waiting = FALSE]
  <2>1. TouchEnd(h, id) = IF dropped.ignored = {} /\ h.tracked = <<>> THEN rest ELSE dropped
      BY <1>3 DEF TouchEnd
  <2>2. /\ DOMAIN dropped = Fields /\ dropped.tracked = h.tracked
        /\ dropped.ignored = h.ignored \ {id} /\ dropped.state = h.state
        /\ dropped.waiting = h.waiting /\ dropped.long = h.long /\ dropped.two = h.two
      BY <1>1 DEF Fields
  <2> HIDE DEF dropped
  <2>3. /\ DOMAIN rest = Fields /\ rest.tracked = h.tracked
        /\ rest.ignored = h.ignored \ {id} /\ rest.state = Kinds
        /\ rest.waiting = FALSE /\ rest.long = h.long /\ rest.two = h.two
      BY <2>2 DEF Fields
  <2> HIDE DEF rest
  <2>4. CASE h.ignored \ {id} = {} /\ h.tracked = <<>>
    <3>1. Typed(rest) /\ Known(rest, fs \ {id})
        BY <1>1, <1>2, <1>3, <2>3 DEF Typed, Known
    <3>2. ~rest.long /\ rest.two # "runs"
        BY <1>1, <2>3, <2>4 DEF Between
    <3>3. Between(rest) /\ Timers(rest)
        BY <2>3, <2>4, <3>2 DEF Between, Timers
    <3>4. Len(h.tracked) = 0 /\ AllDown(h.tracked)
        BY <2>4 DEF AllDown
    <3>5. Waits(rest)
        BY <2>3, <3>4 DEF Waits
    <3>6. "twodrag" \in Kinds /\ "pinch" \in Kinds
        BY DEF Kinds, TwoTouch
    <3>7. Possible(rest)
        BY <2>3, <3>4, <3>6 DEF Possible, Even
    <3> QED
        BY <2>1, <2>2, <2>4, <3>1, <3>3, <3>5, <3>7 DEF Sound
  <2>5. CASE ~(h.ignored \ {id} = {} /\ h.tracked = <<>>)
    <3>1. Typed(dropped) /\ Known(dropped, fs \ {id})
        BY <1>1, <1>2, <1>3, <2>2 DEF Typed, Known
    <3>2. Between(dropped)
        BY <1>1, <1>3, <2>2, <2>5 DEF Between
    <3>3. Waits(dropped) /\ Timers(dropped) /\ Possible(dropped)
        BY <1>1, <2>2 DEF Waits, Timers, Possible
    <3> QED
        BY <2>1, <2>2, <2>5, <3>1, <3>2, <3>3 DEF Sound
  <2> QED
      BY <2>4, <2>5
<1>4. CASE id \notin h.ignored
  <2> DEFINE early == IF ~HasDetectedGesture(h) /\ h.two # "null"
                      THEN [h EXCEPT !.two = "null", !.state = NoGesture] ELSE h
             f == FirstRelease(early)
             n == Nth(f, id)
             slow == f.releaseOld \/ f.age = 2
             u == [f EXCEPT !.state = IF slow THEN NoGesture ELSE @, !.tracked[n].active = FALSE]
             tap == IF HasDetectedGesture(u) THEN PushEvent(u, "gesturestart") ELSE u
  <2>1. TouchEnd(h, id) =
          IF f.waiting THEN IF ~HasDetectedGesture(u) /\ u.state # NoGesture THEN u
                            ELSE Finish(EndGesture(tap), id)
          ELSE Finish(EndGesture(f), id)
      BY <1>4 DEF TouchEnd
  <2>2. id \in Down(h.tracked)
      BY <1>2, <1>4
  <2>3. h.tracked # <<>>
      BY <2>2 DEF Down
  <2>4. \/ early = h /\ (HasDetectedGesture(h) \/ h.two = "null")
        \/ early = [h EXCEPT !.two = "null", !.state = NoGesture]
      OBVIOUS
  <2> HIDE DEF early
  <2>5. /\ DOMAIN f = Fields /\ f.tracked = h.tracked /\ f.ignored = h.ignored
        /\ f.state \subseteq h.state /\ f.long = FALSE /\ f.two # "runs"
        /\ f.waiting = TRUE \/ f.waiting = FALSE
        /\ f.waiting => OneTapLeft(f.state)
      BY <2>3, <2>4, FirstReleaseIs
  <2> HIDE DEF f
  <2>6. /\ n \in 1 .. Len(h.tracked) /\ h.tracked[n].id = id /\ h.tracked[n] \in Touches
      BY <1>1, <2>2, <2>5, NthIs DEF Known
  <2> HIDE DEF n, slow
  <2> DEFINE lifted == [h.tracked[n] EXCEPT !.active = FALSE]
  <2>7. lifted \in Touches /\ lifted.id = h.tracked[n].id /\ ~lifted.active
      BY <2>6 DEF Touches
  <2>8. /\ DOMAIN u = Fields /\ u.tracked = [h.tracked EXCEPT ![n] = lifted]
        /\ u.ignored = h.ignored /\ u.state \in {{}, f.state} /\ u.waiting = f.waiting
        /\ u.long = FALSE /\ u.two = f.two
      BY <2>5 DEF Fields, NoGesture
  <2> HIDE DEF u, lifted
  <2>9. /\ u.tracked \in Seq(Touches) /\ Len(u.tracked) = Len(h.tracked) /\ Distinct(u.tracked)
        /\ Down(u.tracked) = Down(h.tracked) \ {id}
      BY <1>1, <2>6, <2>7, <2>8, UpdateIs DEF Known
  <2>10. \A v, w : /\ DOMAIN v = Fields /\ w \in {v, PushEvent(v, "gesturestart")}
                   => Same(v, w) /\ Same(v, EndGesture(w))
      BY PushIs DEF Same, EndGesture
  <2>11. CASE f.waiting /\ ~HasDetectedGesture(u) /\ u.state # NoGesture
    <3>1. PICK k \in Kinds : u.state = {k}
        BY <2>5, <2>8, <2>11 DEF OneTapLeft, NoGesture
    <3>2. Down(u.tracked) # {} /\ k \in Taps
        BY <2>11, <3>1, DetectedIs
    <3>3. Typed(u) /\ Known(u, fs \ {id})
        BY <1>1, <1>2, <1>4, <2>5, <2>8, <2>9, <3>2 DEF Typed, Known
    <3>4. Between(u)
        BY <3>2 DEF Between, Down
    <3>5. Waits(u) /\ Timers(u)
        BY <2>5, <2>8, <2>11, <3>1 DEF Waits, Timers
    <3>6. Possible(u)
        BY <1>1, <2>5, <2>8, <2>9, <3>1 DEF Possible, Even
    <3> QED
        BY <2>1, <2>11, <3>3, <3>4, <3>5, <3>6 DEF Sound
  <2>12. CASE f.waiting /\ ~(~HasDetectedGesture(u) /\ u.state # NoGesture)
    <3> DEFINE e == EndGesture(tap)
    <3>1. Same(u, e)
        BY <2>8, <2>10
    <3>2. TouchEnd(h, id) = Finish(e, id)
        BY <2>1, <2>12
    <3> HIDE DEF e
    <3>3. /\ e.tracked = u.tracked /\ e.ignored = u.ignored /\ e.waiting = u.waiting
          /\ e.long = u.long /\ e.two = u.two /\ DOMAIN e = Fields
        BY <3>1 DEF Same
    <3>4. e.tracked \in Seq(Touches)
        BY <1>1, <2>5, <2>8, <2>9, <3>3 DEF Typed
    <3>5. e.ignored \subseteq Fingers
        BY <1>1, <2>5, <2>8, <3>3 DEF Typed
    <3>6. e.waiting = TRUE \/ e.waiting = FALSE
        BY <2>5, <2>8, <3>3
    <3>7. e.long = FALSE /\ e.two # "runs"
        BY <2>5, <2>8, <3>3
    <3>8. fs \ {id} = (e.ignored \cup Down(e.tracked)) \ {id}
        BY <1>1, <1>2, <2>5, <2>8, <2>9, <3>3
    <3>9. Sound(Finish(e, id), fs \ {id})
        BY <3>3, <3>4, <3>5, <3>6, <3>7, <3>8, FinishIs
    <3> QED
        BY <3>2, <3>9
  <2>13. CASE ~f.waiting
    <3> DEFINE e == EndGesture(f)
    <3>1. Same(f, e)
        BY <2>5, <2>10
    <3>2. TouchEnd(h, id) = Finish(e, id)
        BY <2>1, <2>13
    <3> HIDE DEF e
    <3>3. /\ e.tracked = f.tracked /\ e.ignored = f.ignored /\ e.waiting = f.waiting
          /\ e.long = f.long /\ e.two = f.two /\ DOMAIN e = Fields
        BY <3>1 DEF Same
    <3>4. e.tracked \in Seq(Touches)
        BY <1>1, <2>5, <3>3 DEF Typed
    <3>5. e.ignored \subseteq Fingers
        BY <1>1, <2>5, <3>3 DEF Typed
    <3>6. e.waiting = TRUE \/ e.waiting = FALSE
        BY <2>5, <3>3
    <3>7. e.long = FALSE /\ e.two # "runs"
        BY <2>5, <3>3
    <3>8. fs \ {id} = (e.ignored \cup Down(e.tracked)) \ {id}
        BY <1>1, <1>2, <2>5, <3>3
    <3>9. Sound(Finish(e, id), fs \ {id})
        BY <3>3, <3>4, <3>5, <3>6, <3>7, <3>8, FinishIs
    <3> QED
        BY <3>2, <3>9
  <2> QED
      BY <2>11, <2>12, <2>13
<1> QED
    BY <1>3, <1>4

LEMMA LongpressTimeoutIs ==
    ASSUME NEW h, NEW fs, Sound(h, fs), h.long
    PROVE  Sound(LongpressTimeout(h), fs)
<1> DEFINE t == [h EXCEPT !.long = FALSE]
           u == [t EXCEPT !.state = {"longpress"}]
<1>1. /\ DOMAIN h = Fields /\ h.state \subseteq Kinds
      /\ Typed(h) /\ Known(h, fs) /\ Between(h) /\ Waits(h) /\ Timers(h) /\ Possible(h)
    BY DEF Sound, Typed
<1>2. h.tracked # <<>> /\ Len(h.tracked) = 1 /\ h.two # "runs" /\ h.waiting = FALSE
  <2>1. h.waiting \in BOOLEAN
      BY <1>1 DEF Typed
  <2> QED
      BY <1>1, <2>1 DEF Between, Waits, Timers
<1>3. LongpressTimeout(h) = IF HasDetectedGesture(h) THEN t ELSE PushEvent(u, "gesturestart")
    BY DEF LongpressTimeout
<1>4. /\ DOMAIN t = Fields /\ t.state = h.state /\ t.tracked = h.tracked
      /\ t.ignored = h.ignored /\ t.waiting = FALSE /\ t.long = FALSE /\ t.two = h.two
    BY <1>1, <1>2 DEF Fields
<1> HIDE DEF t
<1>5. /\ DOMAIN u = Fields /\ u.state = {"longpress"} /\ u.tracked = h.tracked
      /\ u.ignored = h.ignored /\ u.waiting = FALSE /\ u.long = FALSE /\ u.two = h.two
    BY <1>4 DEF Fields
<1> HIDE DEF u
<1>6. Sound(t, fs)
  <2>1. Even(t.state)
      BY <1>1, <1>4 DEF Possible
  <2> QED
      BY <1>2, <1>4, <2>1, NarrowIs
<1>7. Sound(u, fs)
  <2>1. Typed(u) /\ Known(u, fs) /\ Between(u)
      BY <1>1, <1>2, <1>5 DEF Typed, Known, Between, Kinds
  <2>2. Waits(u) /\ Timers(u)
      BY <1>1, <1>2, <1>5 DEF Waits, Timers
  <2>3. Possible(u)
      BY <1>5 DEF Possible, Even
  <2> QED
      BY <2>1, <2>2, <2>3 DEF Sound
<1>8. Sound(PushEvent(u, "gesturestart"), fs)
    BY <1>5, <1>7, PushIs, SameSound
<1> QED
    BY <1>3, <1>6, <1>8

LEMMA TwoTouchTimeoutIs ==
    ASSUME NEW h, NEW fs, Sound(h, fs), h.two = "runs"
    PROVE  Sound(TwoTouchTimeout(h), fs)
<1> DEFINE kind == IF Abs(TotalMovement(h))
                        < Len(h.tracked) * Abs(DistanceFirst(h) - DistanceLast(h))
                   THEN "pinch" ELSE "twodrag"
           fired == [h EXCEPT !.two = "fired"]
           t == [fired EXCEPT !.state = {kind}]
           once == PushEvent(t, "gesturestart")
<1>1. /\ DOMAIN h = Fields /\ h.state \subseteq Kinds
      /\ Typed(h) /\ Known(h, fs) /\ Between(h) /\ Waits(h) /\ Timers(h) /\ Possible(h)
    BY DEF Sound, Typed
<1>2. h.tracked # <<>> /\ h.long = FALSE
  <2>1. h.long \in BOOLEAN
      BY <1>1 DEF Typed
  <2> QED
      BY <1>1, <2>1 DEF Between, Timers
<1>3. TwoTouchTimeout(h) = PushEvent(once, "gesturemove")
    BY <1>2 DEF TwoTouchTimeout
<1>4. kind \in TwoTouch
    BY DEF TwoTouch
<1> HIDE DEF kind
<1>5. /\ DOMAIN t = Fields /\ t.state = {kind} /\ t.tracked = h.tracked
      /\ t.ignored = h.ignored /\ t.waiting = h.waiting /\ t.long = FALSE /\ t.two = "fired"
    BY <1>1, <1>2 DEF Fields
<1> HIDE DEF t
<1>6. kind \in Kinds /\ kind \notin {"onetap", "twotap"}
    BY <1>4 DEF Kinds, TwoTouch
<1>7. Typed(t) /\ Known(t, fs) /\ Between(t)
    BY <1>1, <1>2, <1>5, <1>6 DEF Typed, Known, Between
<1>8. Waits(t) /\ Timers(t) /\ Possible(t)
    BY <1>1, <1>5, <1>6 DEF Waits, Timers, Possible, Even
<1>9. Sound(t, fs)
    BY <1>7, <1>8 DEF Sound
<1>10. Sound(once, fs) /\ DOMAIN once = Fields
    BY <1>5, <1>9, PushIs, SameSound DEF Same
<1> HIDE DEF once
<1> QED
    BY <1>3, <1>10, PushIs, SameSound

----------------------------------------------------------------------------
(***************************************************************************)
(* RFB: what the server is sent.                                           *)
(***************************************************************************)

LEMMA ClipIs == \A x : Clip(x) \in Canvas
<1>1. 0 \in Canvas /\ Width - 1 \in Canvas
    BY WidthAssumption DEF Canvas
<1> QED
    BY <1>1 DEF Clip, Canvas

LEMMA NoneIs == None \notin Canvas
BY DEF None, Canvas

\* A button event leaves nothing waiting, and the server as it says: even
\* where the last position was not sent.
LEMMA ButtonFrom ==
    ASSUME NEW s, Shaped(s), Still(s), NEW x \in Canvas, NEW mask \in SUBSET Bits
    PROVE  LET t == HandleMouseButton(s, x, mask)
           IN Base(t) /\ Sent(t) /\ t.mask = mask /\ t.moved = s.moved
<1> DEFINE flushed == FlushMouseMoveTimer(s, x)
           pressed == [flushed EXCEPT !.mask = mask, !.at = x]
           t == SendMouse(pressed, x, mask)
<1>1. DOMAIN s = PointerFields /\ s.dragPos \in Canvas
    BY DEF Shaped
<1>2. /\ DOMAIN flushed = PointerFields /\ flushed.delayed = None
      /\ flushed.dragging = s.dragging /\ flushed.moved = s.moved /\ flushed.dragPos = s.dragPos
    BY <1>1 DEF FlushMouseMoveTimer, SendMouse, PointerFields
<1> HIDE DEF flushed
<1>3. /\ DOMAIN pressed = PointerFields /\ pressed.delayed = None
      /\ pressed.dragging = s.dragging /\ pressed.moved = s.moved /\ pressed.dragPos = s.dragPos
      /\ pressed.mask = mask /\ pressed.at = x
    BY <1>2 DEF PointerFields
<1> HIDE DEF pressed
<1>4. /\ DOMAIN t = PointerFields /\ t.delayed = None
      /\ t.dragging = s.dragging /\ t.moved = s.moved /\ t.dragPos = s.dragPos
      /\ t.mask = mask /\ t.at = x /\ t.sentPos = x /\ t.sentMask = Visible(mask)
    BY <1>3 DEF SendMouse, PointerFields, Visible
<1>5. HandleMouseButton(s, x, mask) = t
    BY DEF HandleMouseButton, flushed, pressed
<1> HIDE DEF t
<1>6. Visible(mask) \subseteq Bits
    BY DEF Visible
<1>7. Shaped(t) /\ Placed(t)
    BY <1>1, <1>4, <1>6 DEF Shaped, Placed
<1>8. Still(t) /\ Sent(t)
    BY <1>4 DEF Still, Sent
<1> QED
    BY <1>4, <1>5, <1>7, <1>8 DEF Base

LEMMA ButtonIs ==
    ASSUME NEW s, Base(s), NEW x \in Canvas, NEW mask \in SUBSET Bits
    PROVE  LET t == HandleMouseButton(s, x, mask)
           IN Base(t) /\ Sent(t) /\ t.mask = mask /\ t.moved = s.moved
BY ButtonFrom DEF Base

LEMMA MoveIs ==
    ASSUME NEW s, Base(s), NEW x \in Canvas
    PROVE  LET t == HandleMouseMove(s, x)
           IN /\ Base(t) /\ t.mask = s.mask /\ t.moved = s.moved
              /\ Sent(s) => Sent(t)
<1> DEFINE there == [s EXCEPT !.at = x]
           sent == [SendMouse(there, x, s.mask) EXCEPT !.recent = TRUE]
           waits == [there EXCEPT !.delayed = x]
<1>1. /\ DOMAIN s = PointerFields /\ s.dragPos \in Canvas /\ s.sentPos \in Canvas
      /\ s.mask \subseteq Bits /\ s.sentMask \subseteq Bits
    BY DEF Base, Shaped
<1>2. /\ DOMAIN there = PointerFields /\ there.at = x
      /\ there.mask = s.mask /\ there.sentMask = s.sentMask /\ there.sentPos = s.sentPos
      /\ there.delayed = s.delayed
      /\ there.dragging = s.dragging /\ there.moved = s.moved /\ there.dragPos = s.dragPos
    BY <1>1 DEF PointerFields
<1>3. HandleMouseMove(s, x) = IF s.delayed = None /\ ~s.recent THEN sent ELSE waits
    BY DEF HandleMouseMove
<1> HIDE DEF there
<1>4. /\ DOMAIN sent = PointerFields /\ sent.at = x /\ sent.sentPos = x
      /\ sent.mask = s.mask /\ sent.sentMask = Visible(s.mask) /\ sent.delayed = s.delayed
      /\ sent.dragging = s.dragging /\ sent.moved = s.moved /\ sent.dragPos = s.dragPos
    BY <1>2 DEF SendMouse, PointerFields, Visible
<1>5. /\ DOMAIN waits = PointerFields /\ waits.at = x /\ waits.delayed = x
      /\ waits.mask = s.mask /\ waits.sentMask = s.sentMask /\ waits.sentPos = s.sentPos
      /\ waits.dragging = s.dragging /\ waits.moved = s.moved /\ waits.dragPos = s.dragPos
    BY <1>2 DEF PointerFields
<1> HIDE DEF sent, waits
<1>6. CASE s.delayed = None /\ ~s.recent
  <2>1. Visible(s.mask) \subseteq Bits
      BY <1>1 DEF Visible
  <2>2. Base(sent)
      BY <1>1, <1>4, <1>6, <2>1 DEF Base, Shaped, Placed, Still
  <2> QED
      BY <1>3, <1>4, <1>6, <2>2 DEF Sent
<1>7. CASE ~(s.delayed = None /\ ~s.recent)
  <2>1. Base(waits)
      BY <1>1, <1>5, NoneIs DEF Base, Shaped, Placed, Still
  <2> QED
      BY <1>3, <1>5, <1>7, <2>1 DEF Sent
<1> QED
    BY <1>6, <1>7

\* Fields the pointer's invariants do not read, or the drag of the view.
LEMMA ElseIs ==
    ASSUME NEW s, Base(s), NEW t, DOMAIN t = PointerFields,
           t.mask = s.mask, t.sentMask = s.sentMask, t.sentPos = s.sentPos,
           t.at = s.at, t.delayed = s.delayed, t.dragPos \in Canvas,
           ~dragViewport => ~t.moved /\ ~t.dragging
    PROVE  Base(t) /\ (Sent(s) => Sent(t))
BY DEF Base, Shaped, Placed, Still, Sent

LEMMA DragIs ==
    ASSUME NEW s, Base(s), dragViewport, NEW x \in Canvas
    PROVE  LET t == DragViewport(s, x)
           IN Base(t) /\ t.mask = s.mask /\ (Sent(s) => Sent(t))
<1> DEFINE moved == [s EXCEPT !.moved = TRUE, !.dragPos = x]
<1>1. DOMAIN s = PointerFields
    BY DEF Base, Shaped
<1>2. /\ DOMAIN moved = PointerFields /\ moved.dragPos = x
      /\ moved.mask = s.mask /\ moved.sentMask = s.sentMask /\ moved.sentPos = s.sentPos
      /\ moved.at = s.at /\ moved.delayed = s.delayed
    BY <1>1 DEF PointerFields
<1>3. DragViewport(s, x) \in {s, moved}
    BY DEF DragViewport
<1> HIDE DEF moved
<1>4. Base(moved) /\ (Sent(s) => Sent(moved))
    BY <1>2, ElseIs
<1> QED
    BY <1>2, <1>3, <1>4

LEMMA TapIs ==
    ASSUME NEW s, Base(s), Sent(s), NEW e, e.kind \in Taps
    PROVE  LET t == HandleTapEvent(s, e) IN Base(t) /\ Sent(t) /\ t.mask = {}
<1> DEFINE again == s.tapTime = "recent" /\ s.firstTap.kind = e.kind
           near == again /\ Abs(s.firstTap.pos - e.pos) < DOUBLE_TAP_THRESHOLD
           first == IF near THEN s.firstTap ELSE [kind |-> e.kind, pos |-> e.pos]
           x == Clip(first.pos)
           t == [s EXCEPT !.tapTime = "recent", !.firstTap = first]
           move == HandleMouseMove(t, x)
           press == HandleMouseButton(move, x, {TapButton(e.kind)})
<1>1. x \in Canvas
    BY ClipIs
<1>2. HandleTapEvent(s, e) = HandleMouseButton(press, x, {})
    BY DEF HandleTapEvent
<1> HIDE DEF first, x
<1>3. Base(t)
  <2>1. DOMAIN s = PointerFields /\ s.dragPos \in Canvas /\ (~dragViewport => ~s.moved /\ ~s.dragging)
      BY DEF Base, Shaped, Still
  <2>2. /\ DOMAIN t = PointerFields /\ t.dragPos = s.dragPos
        /\ t.mask = s.mask /\ t.sentMask = s.sentMask /\ t.sentPos = s.sentPos
        /\ t.at = s.at /\ t.delayed = s.delayed /\ t.moved = s.moved /\ t.dragging = s.dragging
      BY <2>1 DEF PointerFields
  <2> HIDE DEF t
  <2> QED
      BY <2>1, <2>2, ElseIs
<1>4. Base(move)
    BY <1>1, <1>3, MoveIs
<1>5. {TapButton(e.kind)} \in SUBSET Bits
    BY DEF TapButton, Taps, Bits
<1>6. Base(press)
    BY <1>1, <1>4, <1>5, ButtonIs
<1> HIDE DEF press
<1> QED
    BY <1>1, <1>2, <1>6, ButtonIs

LEMMA ScrollIs ==
    ASSUME NEW s, Base(s), Sent(s), s.mask = {}, NEW x \in Canvas, NEW magnitude
    PROVE  LET t == Scroll(s, x, magnitude) IN Base(t) /\ Sent(t) /\ t.mask = {}
<1> DEFINE gap == magnitude - s.magnitude
           steps == IF gap = 0 THEN 0 ELSE (Abs(gap) - 1) \div GESTURE_SENS
           button == IF gap > 0 THEN "up" ELSE "down"
           press == HandleMouseButton(s, x, {button})
           done == HandleMouseButton(press, x, {})
           many == (IF gap > 0 THEN steps ELSE -steps) * GESTURE_SENS
           t == [done EXCEPT !.magnitude = @ + many]
<1>1. Scroll(s, x, magnitude) = IF steps = 0 THEN s ELSE t
    BY DEF Scroll
<1>2. {button} \in SUBSET Bits
    BY DEF Bits
<1> HIDE DEF steps, button, many
<1>3. Base(press)
    BY <1>2, ButtonIs
<1> HIDE DEF press
<1>4. Base(done) /\ Sent(done) /\ done.mask = {}
    BY <1>3, ButtonIs
<1> HIDE DEF done
<1>5. Base(t) /\ Sent(t) /\ t.mask = {}
  <2>1. DOMAIN done = PointerFields /\ done.dragPos \in Canvas
        /\ (~dragViewport => ~done.moved /\ ~done.dragging)
      BY <1>4 DEF Base, Shaped, Still
  <2>2. /\ DOMAIN t = PointerFields /\ t.dragPos = done.dragPos
        /\ t.mask = done.mask /\ t.sentMask = done.sentMask /\ t.sentPos = done.sentPos
        /\ t.at = done.at /\ t.delayed = done.delayed
        /\ t.moved = done.moved /\ t.dragging = done.dragging
      BY <2>1 DEF PointerFields
  <2> HIDE DEF t
  <2> QED
      BY <1>4, <2>1, <2>2, ElseIs
<1> QED
    BY <1>1, <1>5

LEMMA RecentIs ==
    ASSUME NEW s, Base(s), NEW soon
    PROVE  LET t == [s EXCEPT !.recent = soon]
           IN Base(t) /\ t.mask = s.mask /\ (Sent(s) => Sent(t))
<1> DEFINE t == [s EXCEPT !.recent = soon]
<1>1. DOMAIN s = PointerFields /\ s.dragPos \in Canvas /\ (~dragViewport => ~s.moved /\ ~s.dragging)
    BY DEF Base, Shaped, Still
<1>2. /\ DOMAIN t = PointerFields /\ t.dragPos = s.dragPos
      /\ t.mask = s.mask /\ t.sentMask = s.sentMask /\ t.sentPos = s.sentPos
      /\ t.at = s.at /\ t.delayed = s.delayed /\ t.moved = s.moved /\ t.dragging = s.dragging
    BY <1>1 DEF PointerFields
<1> HIDE DEF t
<1>3. Base(t) /\ (Sent(s) => Sent(t))
    BY <1>1, <1>2, ElseIs
<1> QED
    BY <1>2, <1>3 DEF t

LEMMA FlushIs ==
    ASSUME NEW s, Base(s), NEW x \in Canvas
    PROVE  Base(FlushMouseMoveTimer(s, x))
<1> DEFINE there == [s EXCEPT !.delayed = None, !.at = x]
           t == SendMouse(there, x, s.mask)
<1>1. /\ DOMAIN s = PointerFields /\ s.mask \subseteq Bits /\ s.dragPos \in Canvas
      /\ (~dragViewport => ~s.moved /\ ~s.dragging)
    BY DEF Base, Shaped, Still
<1>2. FlushMouseMoveTimer(s, x) \in {s, t}
    BY DEF FlushMouseMoveTimer
<1>3. /\ DOMAIN there = PointerFields /\ there.delayed = None /\ there.at = x
      /\ there.mask = s.mask /\ there.dragPos = s.dragPos
      /\ there.moved = s.moved /\ there.dragging = s.dragging
    BY <1>1 DEF PointerFields
<1> HIDE DEF there
<1>4. /\ DOMAIN t = PointerFields /\ t.delayed = None /\ t.at = x /\ t.sentPos = x
      /\ t.mask = s.mask /\ t.sentMask = Visible(s.mask) /\ t.dragPos = s.dragPos
      /\ t.moved = s.moved /\ t.dragging = s.dragging
    BY <1>3 DEF SendMouse, PointerFields, Visible
<1> HIDE DEF t
<1>5. Visible(s.mask) \subseteq Bits
    BY <1>1 DEF Visible
<1>6. Base(t)
    BY <1>1, <1>4, <1>5 DEF Base, Shaped, Placed, Still
<1> QED
    BY <1>2, <1>6

\* Unless the mouse drags the view, the server has the buttons of the event.
LEMMA MouseIs ==
    ASSUME NEW s, Base(s), NEW type, NEW mask \in SUBSET Bits, NEW x \in Canvas,
           ~dragViewport /\ type = "mousemove" => Sent(s) /\ s.mask = mask
    PROVE  LET t == HandleMouse(s, type, mask, x)
           IN Base(t) /\ (~dragViewport => Sent(t) /\ t.mask = mask)
<1> DEFINE flushed == FlushMouseMoveTimer(s, x)
           grab == [flushed EXCEPT !.dragging = TRUE, !.dragPos = x, !.moved = FALSE, !.mask = mask]
           drop == [s EXCEPT !.dragging = FALSE]
           quiet == [drop EXCEPT !.mask = mask]
           shown == SendMouse(drop, x, s.mask)
<1>1. /\ DOMAIN s = PointerFields /\ s.mask \subseteq Bits /\ s.dragPos \in Canvas
      /\ s.sentMask \subseteq Bits /\ s.sentPos \in Canvas /\ s.at \in Canvas
      /\ s.delayed = None \/ s.delayed \in Canvas
      /\ Placed(s) /\ (~dragViewport => ~s.moved /\ ~s.dragging)
    BY DEF Base, Shaped, Still
<1>2. CASE type = "mousemove" /\ s.dragging
  <2>1. HandleMouse(s, type, mask, x) = DragViewport(s, x)
      BY <1>2 DEF HandleMouse
  <2> QED
      BY <1>1, <1>2, <2>1, DragIs
<1>3. CASE type = "mousemove" /\ ~s.dragging
  <2>1. HandleMouse(s, type, mask, x) = HandleMouseMove(s, x)
      BY <1>3 DEF HandleMouse
  <2> QED
      BY <1>3, <2>1, MoveIs
<1>4. CASE type # "mousemove" /\ ~dragViewport
  <2>1. HandleMouse(s, type, mask, x) = HandleMouseButton(s, x, mask)
      BY <1>4 DEF HandleMouse
  <2> QED
      BY <2>1, ButtonIs
<1>5. CASE type = "mousedown" /\ dragViewport /\ ~s.dragging
  <2>1. HandleMouse(s, type, mask, x) = grab
      BY <1>5 DEF HandleMouse
  <2>2. Base(flushed)
      BY FlushIs
  <2> HIDE DEF flushed
  <2>3. /\ DOMAIN flushed = PointerFields /\ Placed(flushed)
        /\ flushed.sentMask \subseteq Bits /\ flushed.sentPos \in Canvas /\ flushed.at \in Canvas
        /\ flushed.delayed = None \/ flushed.delayed \in Canvas
      BY <2>2 DEF Base, Shaped
  <2>4. /\ DOMAIN grab = PointerFields /\ grab.dragPos = x /\ grab.mask = mask
        /\ grab.sentMask = flushed.sentMask /\ grab.sentPos = flushed.sentPos
        /\ grab.at = flushed.at /\ grab.delayed = flushed.delayed
      BY <2>3 DEF PointerFields
  <2> HIDE DEF grab
  <2>5. Base(grab)
      BY <1>5, <2>3, <2>4 DEF Base, Shaped, Placed, Still
  <2> QED
      BY <1>5, <2>1, <2>5
<1>6. CASE type # "mousemove" /\ dragViewport /\ ~(type = "mousedown" /\ ~s.dragging)
  <2>1. HandleMouse(s, type, mask, x) = IF s.moved THEN quiet ELSE HandleMouseButton(shown, x, mask)
      BY <1>6 DEF HandleMouse
  <2>2. /\ DOMAIN drop = PointerFields /\ drop.dragPos = s.dragPos /\ drop.mask = s.mask
        /\ drop.sentMask = s.sentMask /\ drop.sentPos = s.sentPos
        /\ drop.at = s.at /\ drop.delayed = s.delayed
      BY <1>1 DEF PointerFields
  <2> HIDE DEF drop
  <2>3. /\ DOMAIN quiet = PointerFields /\ quiet.dragPos = s.dragPos /\ quiet.mask = mask
        /\ quiet.sentMask = s.sentMask /\ quiet.sentPos = s.sentPos
        /\ quiet.at = s.at /\ quiet.delayed = s.delayed
      BY <2>2 DEF PointerFields
  <2> HIDE DEF quiet
  <2>4. Base(quiet)
      BY <1>1, <1>6, <2>3 DEF Base, Shaped, Placed, Still
  <2>5. /\ DOMAIN shown = PointerFields /\ shown.dragPos = s.dragPos /\ shown.mask = s.mask
        /\ shown.sentMask = Visible(s.mask) /\ shown.sentPos = x
        /\ shown.at = s.at /\ shown.delayed = s.delayed
      BY <2>2 DEF SendMouse, PointerFields, Visible
  <2> HIDE DEF shown
  <2>6. Visible(s.mask) \subseteq Bits
      BY <1>1 DEF Visible
  <2>7. Shaped(shown) /\ Still(shown)
      BY <1>1, <1>6, <2>5, <2>6 DEF Shaped, Still
  <2>8. Base(HandleMouseButton(shown, x, mask))
      BY <2>7, ButtonFrom
  <2> QED
      BY <1>6, <2>1, <2>4, <2>8
<1> QED
    BY <1>2, <1>3, <1>4, <1>5, <1>6

LEMMA WheelIs ==
    ASSUME NEW s, Base(s), NEW x \in Canvas, NEW mask \in SUBSET Bits, NEW delta,
           ~dragViewport => Sent(s) /\ s.mask = mask
    PROVE  LET t == HandleWheel(s, x, mask, delta)
           IN Base(t) /\ (~dragViewport => Sent(t) /\ t.mask = mask)
<1> DEFINE total == s.wheel + delta
           turned == [s EXCEPT !.wheel = total]
           button == IF total < 0 THEN "up" ELSE "down"
           step == HandleMouseButton(s, x, mask \cup {button})
           back == HandleMouseButton(step, x, mask)
           done == [back EXCEPT !.wheel = 0]
<1>1. HandleWheel(s, x, mask, delta) \in {turned, done}
    BY DEF HandleWheel
<1>2. mask \cup {button} \in SUBSET Bits
    BY DEF Bits
<1> HIDE DEF total, button
<1>3. Base(step)
    BY <1>2, ButtonIs
<1> HIDE DEF step
<1>4. Base(back) /\ Sent(back) /\ back.mask = mask
    BY <1>3, ButtonIs
<1> HIDE DEF back
<1>5. ASSUME NEW r, Base(r), NEW w
      PROVE  /\ Base([r EXCEPT !.wheel = w]) /\ [r EXCEPT !.wheel = w].mask = r.mask
             /\ Sent(r) => Sent([r EXCEPT !.wheel = w])
  <2> DEFINE t == [r EXCEPT !.wheel = w]
  <2>1. DOMAIN r = PointerFields /\ r.dragPos \in Canvas /\ (~dragViewport => ~r.moved /\ ~r.dragging)
      BY <1>5 DEF Base, Shaped, Still
  <2>2. /\ DOMAIN t = PointerFields /\ t.dragPos = r.dragPos
        /\ t.mask = r.mask /\ t.sentMask = r.sentMask /\ t.sentPos = r.sentPos
        /\ t.at = r.at /\ t.delayed = r.delayed /\ t.moved = r.moved /\ t.dragging = r.dragging
      BY <2>1 DEF PointerFields
  <2> HIDE DEF t
  <2>3. Base(t) /\ (Sent(r) => Sent(t))
      BY <1>5, <2>1, <2>2, ElseIs
  <2> QED
      BY <2>2, <2>3 DEF t
<1>6. Base(turned) /\ turned.mask = s.mask /\ (Sent(s) => Sent(turned))
    BY <1>5
<1>7. Base(done) /\ done.mask = mask /\ Sent(done)
    BY <1>4, <1>5
<1> QED
    BY <1>1, <1>6, <1>7

LEMMA DelayedIs ==
    ASSUME NEW s, Base(s), s.delayed # None
    PROVE  LET t == HandleDelayedMouseMove(s) IN Base(t) /\ Sent(t) /\ t.mask = s.mask
<1> DEFINE clear == [s EXCEPT !.delayed = None]
           t == SendMouse(clear, s.delayed, s.mask)
<1>1. /\ DOMAIN s = PointerFields /\ s.mask \subseteq Bits /\ s.dragPos \in Canvas
      /\ s.at = s.delayed /\ s.delayed \in Canvas
      /\ (~dragViewport => ~s.moved /\ ~s.dragging)
    BY DEF Base, Shaped, Placed, Still
<1>2. /\ DOMAIN clear = PointerFields /\ clear.delayed = None /\ clear.at = s.at
      /\ clear.mask = s.mask /\ clear.dragPos = s.dragPos
      /\ clear.moved = s.moved /\ clear.dragging = s.dragging
    BY <1>1 DEF PointerFields
<1> HIDE DEF clear
<1>3. /\ DOMAIN t = PointerFields /\ t.delayed = None /\ t.at = s.at /\ t.sentPos = s.delayed
      /\ t.mask = s.mask /\ t.sentMask = Visible(s.mask) /\ t.dragPos = s.dragPos
      /\ t.moved = s.moved /\ t.dragging = s.dragging
    BY <1>2 DEF SendMouse, PointerFields, Visible
<1>4. HandleDelayedMouseMove(s) = t
    BY DEF HandleDelayedMouseMove, clear
<1> HIDE DEF t
<1>5. Visible(s.mask) \subseteq Bits
    BY <1>1 DEF Visible
<1>6. Base(t) /\ Sent(t)
    BY <1>1, <1>3, <1>5 DEF Base, Shaped, Placed, Still, Sent
<1> QED
    BY <1>3, <1>4, <1>6

\* An event of a gesture, and what the GestureHandler may say of it.
Is(e, type, kind) == e.type = type /\ e.kind = kind

LEMMA StartIs ==
    ASSUME NEW s, Base(s), Sent(s), s.mask = {}, NEW k \in Kinds, NEW e, Is(e, "gesturestart", k)
    PROVE  LET t == HandleGesture(s, e)
           IN Base(t) /\ Sent(t) /\ (t.mask # {} => k \in Holding /\ ~dragViewport)
<1> DEFINE x == Clip(e.pos)
           move == HandleMouseMove(s, x)
           seen == [move EXCEPT !.magnitude = e.magnitude]
           grab == [s EXCEPT !.moved = FALSE, !.dragging = TRUE, !.dragPos = x]
           hold == [s EXCEPT !.moved = FALSE, !.dragPos = x]
<1>1. x \in Canvas /\ e.type = "gesturestart" /\ e.kind = k
    BY ClipIs DEF Is
<1> HIDE DEF x
<1>2. DOMAIN s = PointerFields /\ Still(s)
    BY DEF Base, Shaped
<1>3. Base(move) /\ Sent(move) /\ move.mask = {}
    BY <1>1, MoveIs
<1> HIDE DEF move
<1>4. CASE k \in Taps
  <2>1. HandleGesture(s, e) = HandleTapEvent(s, e)
      BY <1>1, <1>4 DEF HandleGesture, Taps, TwoTouch
  <2> QED
      BY <1>1, <1>4, <2>1, TapIs
<1>5. CASE k \in TwoTouch
  <2>1. HandleGesture(s, e) = seen
      BY <1>1, <1>5 DEF HandleGesture, TwoTouch, Taps, move, x
  <2>2. DOMAIN move = PointerFields /\ move.dragPos \in Canvas
        /\ (~dragViewport => ~move.moved /\ ~move.dragging)
      BY <1>3 DEF Base, Shaped, Still
  <2>3. /\ DOMAIN seen = PointerFields /\ seen.dragPos = move.dragPos
        /\ seen.mask = move.mask /\ seen.sentMask = move.sentMask /\ seen.sentPos = move.sentPos
        /\ seen.at = move.at /\ seen.delayed = move.delayed
        /\ seen.moved = move.moved /\ seen.dragging = move.dragging
      BY <2>2 DEF PointerFields
  <2> HIDE DEF seen
  <2>4. Base(seen) /\ Sent(seen)
      BY <1>3, <2>2, <2>3, ElseIs
  <2> QED
      BY <1>3, <2>1, <2>3, <2>4
<1>6. CASE k = "drag" /\ dragViewport
  <2>1. HandleGesture(s, e) = grab
      BY <1>1, <1>6 DEF HandleGesture, Taps, TwoTouch, x
  <2>2. /\ DOMAIN grab = PointerFields /\ grab.dragPos = x
        /\ grab.mask = s.mask /\ grab.sentMask = s.sentMask /\ grab.sentPos = s.sentPos
        /\ grab.at = s.at /\ grab.delayed = s.delayed
      BY <1>2 DEF PointerFields
  <2> HIDE DEF grab
  <2>3. Base(grab) /\ Sent(grab)
      BY <1>1, <1>6, <2>2, ElseIs
  <2> QED
      BY <2>1, <2>2, <2>3
<1>7. CASE k = "longpress" /\ dragViewport
  <2>1. HandleGesture(s, e) = hold
      BY <1>1, <1>7 DEF HandleGesture, Taps, TwoTouch, x
  <2>2. /\ DOMAIN hold = PointerFields /\ hold.dragPos = x
        /\ hold.mask = s.mask /\ hold.sentMask = s.sentMask /\ hold.sentPos = s.sentPos
        /\ hold.at = s.at /\ hold.delayed = s.delayed
      BY <1>2 DEF PointerFields
  <2> HIDE DEF hold
  <2>3. Base(hold) /\ Sent(hold)
      BY <1>1, <1>7, <2>2, ElseIs
  <2> QED
      BY <2>1, <2>2, <2>3
<1>8. CASE k \in Holding /\ ~dragViewport
  <2>1. PICK b \in {"left", "right"} : HandleGesture(s, e) = HandleMouseButton(move, x, {b})
      BY <1>1, <1>8 DEF HandleGesture, Taps, TwoTouch, Holding, move, x
  <2>2. {b} \in SUBSET Bits
      BY DEF Bits
  <2> QED
      BY <1>1, <1>3, <1>8, <2>1, <2>2, ButtonIs
<1> QED
    BY <1>4, <1>5, <1>6, <1>7, <1>8 DEF Kinds, Holding

LEMMA MovesIs ==
    ASSUME NEW s, Base(s), Sent(s), NEW k \in Kinds, s.mask = {} \/ k \in Holding,
           NEW e, Is(e, "gesturemove", k)
    PROVE  LET t == HandleGesture(s, e) IN Base(t) /\ Sent(t) /\ t.mask = s.mask
<1> DEFINE x == Clip(e.pos)
           move == HandleMouseMove(s, x)
           drags == [s EXCEPT !.dragging = TRUE]
<1>1. x \in Canvas /\ e.type = "gesturemove" /\ e.kind = k
    BY ClipIs DEF Is
<1> HIDE DEF x
<1>2. Base(move) /\ Sent(move) /\ move.mask = s.mask
    BY <1>1, MoveIs
<1> HIDE DEF move
<1>3. CASE k \in Taps
  <2>1. HandleGesture(s, e) = s
      BY <1>1, <1>3 DEF HandleGesture, Taps, TwoTouch
  <2> QED
      BY <2>1
<1>4. CASE k \in TwoTouch
  <2>1. HandleGesture(s, e) = Scroll(move, x, e.magnitude) /\ s.mask = {}
      BY <1>1, <1>4 DEF HandleGesture, TwoTouch, Holding, move, x
  <2> QED
      BY <1>1, <1>2, <2>1, ScrollIs
<1>5. CASE k \in Holding /\ ~dragViewport
  <2>1. HandleGesture(s, e) = move
      BY <1>1, <1>5 DEF HandleGesture, Taps, TwoTouch, Holding, move, x
  <2> QED
      BY <1>2, <2>1
<1>6. CASE k \in Holding /\ dragViewport
  <2>1. HandleGesture(s, e) = DragViewport(drags, x)
      BY <1>1, <1>6 DEF HandleGesture, Taps, TwoTouch, Holding, x
  <2>2. DOMAIN s = PointerFields /\ s.dragPos \in Canvas
      BY DEF Base, Shaped
  <2>3. /\ DOMAIN drags = PointerFields /\ drags.dragPos = s.dragPos
        /\ drags.mask = s.mask /\ drags.sentMask = s.sentMask /\ drags.sentPos = s.sentPos
        /\ drags.at = s.at /\ drags.delayed = s.delayed
      BY <2>2 DEF PointerFields
  <2> HIDE DEF drags
  <2>4. Base(drags) /\ Sent(drags)
      BY <1>6, <2>2, <2>3, ElseIs
  <2> QED
      BY <1>1, <1>6, <2>1, <2>3, <2>4, DragIs
<1> QED
    BY <1>3, <1>4, <1>5, <1>6 DEF Kinds, Holding

LEMMA EndIs ==
    ASSUME NEW s, Base(s), Sent(s), NEW k \in Kinds, s.mask = {} \/ k \in Holding,
           s.mask # {} => ~dragViewport, NEW e, Is(e, "gestureend", k)
    PROVE  LET t == HandleGesture(s, e) IN Base(t) /\ Sent(t) /\ t.mask = {}
<1> DEFINE x == Clip(e.pos)
           move == HandleMouseMove(s, x)
           zero == [s EXCEPT !.magnitude = 0]
           drop == [s EXCEPT !.dragging = FALSE, !.dragPos = 0]
           press == HandleMouseButton(move, x, {"right"})
           click == HandleMouseButton(press, x, {})
           clicked == [click EXCEPT !.dragging = FALSE]
<1>1. /\ x \in Canvas /\ e.type = "gestureend" /\ e.kind = k
      /\ {} \in SUBSET Bits /\ {"right"} \in SUBSET Bits /\ 0 \in Canvas
    BY ClipIs, WidthAssumption DEF Is, Bits, Canvas
<1> HIDE DEF x
<1>2. Base(move)
    BY <1>1, MoveIs
<1> HIDE DEF move
<1>3. Base(HandleMouseButton(move, x, {})) /\ Sent(HandleMouseButton(move, x, {}))
      /\ HandleMouseButton(move, x, {}).mask = {}
    BY <1>1, <1>2, ButtonIs
<1>4. /\ DOMAIN s = PointerFields /\ s.dragPos \in Canvas
      /\ ~dragViewport => ~s.moved /\ ~s.dragging
    BY DEF Base, Shaped, Still
<1>5. CASE k \in Taps \/ (k = "longpress" /\ s.moved)
  <2>1. HandleGesture(s, e) = s
      BY <1>1, <1>5 DEF HandleGesture, Taps, TwoTouch
  <2>2. s.mask = {}
      BY <1>4, <1>5 DEF Taps, Holding
  <2> QED
      BY <2>1, <2>2
<1>6. CASE k \in TwoTouch
  <2>1. HandleGesture(s, e) = zero
      BY <1>1, <1>6 DEF HandleGesture, TwoTouch
  <2>2. /\ DOMAIN zero = PointerFields /\ zero.dragPos = s.dragPos
        /\ zero.mask = s.mask /\ zero.sentMask = s.sentMask /\ zero.sentPos = s.sentPos
        /\ zero.at = s.at /\ zero.delayed = s.delayed
        /\ zero.moved = s.moved /\ zero.dragging = s.dragging
      BY <1>4 DEF PointerFields
  <2> HIDE DEF zero
  <2>3. Base(zero) /\ Sent(zero) /\ s.mask = {}
      BY <1>4, <1>6, <2>2, ElseIs DEF TwoTouch, Holding
  <2> QED
      BY <2>1, <2>2, <2>3
<1>7. CASE k = "drag" /\ dragViewport
  <2>1. HandleGesture(s, e) = drop
      BY <1>1, <1>7 DEF HandleGesture, TwoTouch
  <2>2. /\ DOMAIN drop = PointerFields /\ drop.dragPos = 0
        /\ drop.mask = s.mask /\ drop.sentMask = s.sentMask /\ drop.sentPos = s.sentPos
        /\ drop.at = s.at /\ drop.delayed = s.delayed
      BY <1>4 DEF PointerFields
  <2> HIDE DEF drop
  <2>3. Base(drop) /\ Sent(drop)
      BY <1>1, <1>7, <2>2, ElseIs
  <2> QED
      BY <1>7, <2>1, <2>2, <2>3
<1>8. CASE k \in Holding /\ ~dragViewport
  <2>1. HandleGesture(s, e) = HandleMouseButton(move, x, {})
      BY <1>1, <1>4, <1>8 DEF HandleGesture, TwoTouch, Holding, move, x
  <2> QED
      BY <1>3, <2>1
<1>9. CASE k = "longpress" /\ ~s.moved /\ dragViewport
  <2>1. HandleGesture(s, e) = clicked
      BY <1>1, <1>9 DEF HandleGesture, TwoTouch, move, x
  <2>2. Base(press)
      BY <1>1, <1>2, ButtonIs
  <2> HIDE DEF press
  <2>3. Base(click) /\ Sent(click) /\ click.mask = {}
      BY <1>1, <2>2, ButtonIs
  <2> HIDE DEF click
  <2>4. DOMAIN click = PointerFields /\ click.dragPos \in Canvas
      BY <2>3 DEF Base, Shaped
  <2>5. /\ DOMAIN clicked = PointerFields /\ clicked.dragPos = click.dragPos
        /\ clicked.mask = click.mask /\ clicked.sentMask = click.sentMask
        /\ clicked.sentPos = click.sentPos
        /\ clicked.at = click.at /\ clicked.delayed = click.delayed
      BY <2>4 DEF PointerFields
  <2> HIDE DEF clicked
  <2>6. Base(clicked) /\ Sent(clicked)
      BY <1>9, <2>3, <2>4, <2>5, ElseIs
  <2> QED
      BY <2>1, <2>3, <2>5, <2>6
<1> QED
    BY <1>5, <1>6, <1>7, <1>8, <1>9 DEF Kinds, Holding

\* The list of events as the three lengths that a handler dispatches.
Rec(after, s, events) ==
    after = [i \in 0 .. Len(events) |-> IF i = 0 THEN s ELSE HandleGesture(after[i - 1], events[i])]

LEMMA HandledDef ==
    ASSUME NEW s, NEW events, NEW w, Rec(w, s, events)
    PROVE  \E after : Rec(after, s, events) /\ Handled(s, events) = after[Len(events)]
<1> DEFINE c == CHOOSE after : Rec(after, s, events)
<1>1. Rec(c, s, events)
    BY Zenon
<1>2. Handled(s, events) = c[Len(events)]
    BY DEF Handled, Rec
<1> QED
    BY <1>1, <1>2

LEMMA HandledNone ==
    ASSUME NEW s
    PROVE  Handled(s, <<>>) = s
<1>1. Rec([i \in 0 .. 0 |-> s], s, <<>>)
    BY DEF Rec
<1>2. PICK after : Rec(after, s, <<>>) /\ Handled(s, <<>>) = after[Len(<<>>)]
    BY <1>1, HandledDef
<1> QED
    BY <1>2 DEF Rec

One(h, e) == h.events = <<e>>
Both(h, e, d) == h.events = <<e, d>>

LEMMA HandledOne ==
    ASSUME NEW s, NEW next, NEW e, One(next, e)
    PROVE  Handled(s, next.events) = HandleGesture(s, e)
<1> DEFINE one == HandleGesture(s, e)
           w == [i \in 0 .. 1 |-> IF i = 0 THEN s ELSE one]
<1>1. Rec(w, s, <<e>>)
    BY DEF Rec
<1>2. PICK after : Rec(after, s, <<e>>) /\ Handled(s, <<e>>) = after[Len(<<e>>)]
    BY <1>1, HandledDef
<1>3. after[0] = s
    BY <1>2 DEF Rec
<1>4. after[1] = HandleGesture(after[0], e)
    BY <1>2 DEF Rec
<1>5. Handled(s, <<e>>) = after[1]
    BY <1>2
<1> QED
    BY <1>3, <1>4, <1>5 DEF One

LEMMA HandledBoth ==
    ASSUME NEW s, NEW next, NEW e, NEW d, Both(next, e, d)
    PROVE  Handled(s, next.events) = HandleGesture(HandleGesture(s, e), d)
<1> DEFINE one == HandleGesture(s, e)
           two == HandleGesture(one, d)
           w == [i \in 0 .. 2 |-> IF i = 0 THEN s ELSE IF i = 1 THEN one ELSE two]
<1>1. Rec(w, s, <<e, d>>)
    BY DEF Rec
<1>2. PICK after : Rec(after, s, <<e, d>>) /\ Handled(s, <<e, d>>) = after[Len(<<e, d>>)]
    BY <1>1, HandledDef
<1>3. after[0] = s /\ after[1] = HandleGesture(after[0], e)
    BY <1>2 DEF Rec
<1>4. after[2] = HandleGesture(after[1], d)
    BY <1>2 DEF Rec
<1>5. Len(<<e, d>>) = 2
    OBVIOUS
<1>6. Handled(s, next.events) = after[2]
    BY <1>2, <1>5, Zenon DEF Both
<1> QED
    BY <1>3, <1>4, <1>6

----------------------------------------------------------------------------
(***************************************************************************)
(* The events that each handler dispatches: a drag or a long press goes on *)
(* without a word, moves or ends; only when neither is known may another   *)
(* gesture begin, and a drag or long press that began is still known.      *)
(***************************************************************************)

Quiet(h, t) == t.events = <<>> /\ (Holds(h) => Holds(t))

Goes(h, t) == \E k, e :
    k \in Kinds /\ One(t, e) /\ Is(e, "gesturemove", k) /\ h.state = {k} /\ (Holds(h) => Holds(t))

Ends(h, t) == \E k, e :
    k \in Kinds /\ One(t, e) /\ Is(e, "gestureend", k) /\ (Holds(h) => h.state = {k})

\* A start of kind k dispatched alone, or with one more event behind it.
Alone(next, e, k) == One(next, e) /\ (k \in Holding => Holds(next))

Then(next, e, d, k) ==
    /\ Both(next, e, d)
    /\ \/ Is(d, "gesturemove", k) /\ (k \in Holding => Holds(next))
       \/ Is(d, "gestureend", k)

Begins(h, t) == ~Holds(h) /\ \E k, e :
    k \in Kinds /\ Is(e, "gesturestart", k) /\ (Alone(t, e, k) \/ \E d : Then(t, e, d, k))

Follows(h, t) == t.two \in Twos /\ (Quiet(h, t) \/ Goes(h, t) \/ Ends(h, t) \/ Begins(h, t))

LEMMA PairIs ==
    ASSUME NEW e, NEW d
    PROVE  Append(<<e>>, d) = <<e, d>>
<1> DEFINE a == Append(<<e>>, d)
           b == <<e, d>>
<1>1. <<e>> \in Seq({e, d}) /\ Len(<<e>>) = 1
    OBVIOUS
<1>2. a \in Seq({e, d}) /\ Len(a) = 2 /\ a[1] = e /\ a[2] = d
    BY <1>1
<1>3. b \in Seq({e, d}) /\ Len(b) = 2
    OBVIOUS
<1>4. \A i \in 1 .. 2 : b[i] = a[i]
    BY <1>2
<1>5. a = [i \in 1 .. 2 |-> a[i]] /\ b = [i \in 1 .. 2 |-> b[i]]
    BY <1>2, <1>3
<1> QED
    BY <1>4, <1>5

\* The event of a known gesture, dispatched first or after another one.
LEMMA PushOf ==
    ASSUME NEW h, DOMAIN h = Fields, NEW k, h.state = {k}, NEW type
    PROVE  \E e : Is(e, type, k) /\ PushEvent(h, type).events = Append(h.events, e)
<1> DEFINE kind == CHOOSE j \in h.state : TRUE
           pos == IF type = "gesturestart" \/ kind \in TwoTouch THEN PositionFirst(h) ELSE PositionLast(h)
           magnitude == CASE kind = "pinch" /\ type = "gesturestart" -> DistanceFirst(h)
                          [] kind = "pinch" /\ type # "gesturestart" -> DistanceLast(h)
                          [] kind = "twodrag" /\ type # "gesturestart" -> AverageMovement(h)
                          [] OTHER -> 0
           event == [type |-> type, kind |-> kind, pos |-> pos, magnitude |-> magnitude]
<1>1. PushEvent(h, type) = [h EXCEPT !.events = Append(@, event)]
    BY DEF PushEvent
<1>2. kind = k
    OBVIOUS
<1> HIDE DEF kind, pos, magnitude
<1>3. Is(event, type, k)
    BY <1>2 DEF Is
<1> HIDE DEF event
<1>4. PushEvent(h, type).events = Append(h.events, event)
    BY <1>1 DEF Fields
<1> QED
    BY <1>3, <1>4

LEMMA PushFirst ==
    ASSUME NEW h, DOMAIN h = Fields, h.events = <<>>, NEW k, h.state = {k}, NEW type
    PROVE  \E e : Is(e, type, k) /\ One(PushEvent(h, type), e)
<1>1. PICK e : Is(e, type, k) /\ PushEvent(h, type).events = Append(<<>>, e)
    BY PushOf
<1>2. Append(<<>>, e) = <<e>>
    OBVIOUS
<1> QED
    BY <1>1, <1>2 DEF One

LEMMA PushSecond ==
    ASSUME NEW h, DOMAIN h = Fields, NEW k, h.state = {k}, NEW type, NEW e, One(h, e)
    PROVE  \E d : Is(d, type, k) /\ Both(PushEvent(h, type), e, d)
<1>1. PICK d : Is(d, type, k) /\ PushEvent(h, type).events = Append(h.events, d)
    BY PushOf
<1>2. h.events = <<e>>
    BY DEF One
<1> QED
    BY <1>1, <1>2, PairIs DEF Both

LEMMA HoldsIs ==
    ASSUME NEW h, h.state \subseteq Kinds, Holds(h)
    PROVE  HasDetectedGesture(h)
<1>1. PICK k \in Holding : h.state = {k}
    BY DEF Holds
<1>2. k \in Kinds /\ k \notin Taps
    BY DEF Holding, Kinds, Taps
<1> QED
    BY <1>1, <1>2, DetectedIs

LEMMA SameHolds ==
    ASSUME NEW h, NEW t, Same(h, t)
    PROVE  Holds(t) <=> Holds(h)
BY DEF Same, Holds

LEMMA TouchStartFollows ==
    ASSUME NEW h, NEW fs, Sound(h, fs), h.events = <<>>, h.two \in Twos, NEW f
    PROVE  Follows(h, TouchStart(h, f))
<1> DEFINE ignore == [h EXCEPT !.ignored = @ \cup {f}]
           r == TouchStart(h, f)
<1>1. DOMAIN h = Fields /\ h.state \subseteq Kinds
    BY DEF Sound, Typed
<1>2. r.events = <<>> /\ r.two = h.two
    BY <1>1 DEF TouchStart, Fields
<1>3. ASSUME Holds(h) PROVE Holds(r)
  <2>1. r = ignore
      BY <1>1, <1>3, HoldsIs DEF TouchStart
  <2>2. ignore.state = h.state /\ ignore.tracked = h.tracked /\ ignore.waiting = h.waiting
      BY <1>1 DEF Fields
  <2> QED
      BY <1>3, <2>1, <2>2 DEF Holds
<1> QED
    BY <1>2, <1>3 DEF Follows, Quiet

LEMMA TellTwoTouchFollows ==
    ASSUME NEW h, DOMAIN h = Fields, h.two \in Twos, NEW id
    PROVE  LET t == TellTwoTouch(h, id)
           IN /\ DOMAIN t = Fields /\ t.tracked = h.tracked /\ t.waiting = h.waiting
              /\ t.events = h.events /\ t.state \subseteq h.state /\ t.two \in Twos
<1> DEFINE other == h.tracked[3 - Nth(h, id)]
           x == IF h.tracked[Nth(h, id)].angle # other.angle THEN "twodrag" ELSE "pinch"
           told == [h EXCEPT !.state = @ \ {x}, !.two = "null"]
           runs == [h EXCEPT !.two = "runs"]
<1>1. TellTwoTouch(h, id) \in {told, runs, h}
    BY DEF TellTwoTouch
<1> HIDE DEF x
<1>2. /\ DOMAIN told = Fields /\ told.tracked = h.tracked /\ told.waiting = h.waiting
      /\ told.events = h.events /\ told.state \subseteq h.state /\ told.two \in Twos
    BY DEF Fields, Twos
<1>3. /\ DOMAIN runs = Fields /\ runs.tracked = h.tracked /\ runs.waiting = h.waiting
      /\ runs.events = h.events /\ runs.state = h.state /\ runs.two \in Twos
    BY DEF Fields, Twos
<1> HIDE DEF told, runs
<1> QED
    BY <1>1, <1>2, <1>3

LEMMA TouchMoveFollows ==
    ASSUME NEW h, NEW fs, Sound(h, fs), h.events = <<>>, h.two \in Twos, NEW f, NEW by
    PROVE  Follows(h, TouchMove(h, f, by))
<1> DEFINE n == Nth(h, f)
           size == Len(h.tracked)
           touch == [h.tracked[n] EXCEPT
                       !.by = by, !.angle = CASE by > 0 -> 0 [] by < 0 -> 180 [] OTHER -> @]
           m == [h EXCEPT !.tracked[n] = touch]
           far == [m EXCEPT !.state = @ \ (Taps \cup {"longpress"}
                                              \cup (IF size # 1 THEN {"drag"} ELSE {})
                                              \cup (IF size # 2 THEN TwoTouch ELSE {})),
                            !.long = FALSE]
           told == IF size = 2 THEN TellTwoTouch(far, f) ELSE far
           once == PushEvent(told, "gesturestart")
<1>1. CASE ~Tracks(h, f)
  <2>1. TouchMove(h, f, by) = h
      BY <1>1 DEF TouchMove
  <2> QED
      BY <2>1 DEF Follows, Quiet
<1>2. CASE Tracks(h, f)
  <2>1. /\ DOMAIN h = Fields /\ h.tracked \in Seq(Touches) /\ h.state \subseteq Kinds
        /\ Waits(h)
      BY DEF Sound, Typed
  <2>2. \/ HasDetectedGesture(m) /\ TouchMove(h, f, by) = PushEvent(m, "gesturemove")
        \/ ~HasDetectedGesture(m) /\ TouchMove(h, f, by) = m
        \/ /\ ~HasDetectedGesture(m)
           /\ TouchMove(h, f, by) = IF HasDetectedGesture(told) THEN PushEvent(once, "gesturemove")
                                    ELSE told
      BY <1>2 DEF TouchMove
  <2>3. n \in 1 .. size
      BY <1>2 DEF Tracks, Nth
  <2> HIDE DEF n, touch
  <2>4. /\ DOMAIN m = Fields /\ m.tracked = [h.tracked EXCEPT ![n] = touch]
        /\ m.state = h.state /\ m.waiting = h.waiting /\ m.two = h.two /\ m.events = <<>>
      BY <2>1 DEF Fields
  <2>5. h.tracked # <<>> /\ m.tracked # <<>>
    <3>1. DOMAIN m.tracked = 1 .. size /\ size \in Nat /\ DOMAIN h.tracked = 1 .. size
        BY <2>1, <2>4
    <3>2. 1 .. size # {}
        BY <2>3
    <3>3. DOMAIN <<>> = {}
        OBVIOUS
    <3> QED
        BY <3>1, <3>2, <3>3
  <2> HIDE DEF m
  <2>6. Holds(h) <=> Holds(m)
      BY <2>4, <2>5 DEF Holds
  <2>7. CASE HasDetectedGesture(m)
    <3>1. PICK k \in Kinds : m.state = {k}
        BY <2>1, <2>4, <2>7, DetectedIs
    <3>2. PICK e : Is(e, "gesturemove", k) /\ One(PushEvent(m, "gesturemove"), e)
        BY <2>4, <3>1, PushFirst
    <3>3. Same(m, PushEvent(m, "gesturemove"))
        BY <2>4, PushIs
    <3>4. Goes(h, PushEvent(m, "gesturemove"))
        BY <2>4, <2>6, <3>1, <3>2, <3>3, SameHolds DEF Goes
    <3>5. TouchMove(h, f, by) = PushEvent(m, "gesturemove")
        BY <2>2, <2>7
    <3> QED
        BY <2>4, <3>3, <3>4, <3>5 DEF Follows, Same
  <2>8. ASSUME ~HasDetectedGesture(m) PROVE ~Holds(h) /\ ~Holds(m)
      BY <2>1, <2>4, <2>6, <2>8, HoldsIs
  <2>9. CASE ~HasDetectedGesture(m) /\ TouchMove(h, f, by) = m
      BY <2>4, <2>6, <2>9 DEF Follows, Quiet
  <2>10. CASE /\ ~HasDetectedGesture(m)
              /\ TouchMove(h, f, by) = IF HasDetectedGesture(told) THEN PushEvent(once, "gesturemove")
                                       ELSE told
    <3>1. /\ DOMAIN far = Fields /\ far.tracked = m.tracked /\ far.waiting = m.waiting
          /\ far.two = m.two /\ far.events = m.events /\ far.state = FarState(m.state, size)
        BY <2>4 DEF Fields, FarState
    <3> HIDE DEF far, size
    <3>2. /\ DOMAIN told = Fields /\ told.tracked = m.tracked /\ told.waiting = m.waiting
          /\ told.two \in Twos /\ told.events = <<>> /\ told.state \subseteq far.state
        BY <2>4, <3>1, TellTwoTouchFollows
    <3> HIDE DEF told
    <3>3. told.state \subseteq m.state \ (Taps \cup {"longpress"})
        BY <3>1, <3>2 DEF FarState
    <3>4. ~Holds(h)
        BY <2>8, <2>10
    <3>5. CASE ~HasDetectedGesture(told)
        BY <2>10, <3>2, <3>4, <3>5 DEF Follows, Quiet
    <3>6. CASE HasDetectedGesture(told)
      <4>1. PICK k \in Kinds : told.state = {k}
          BY <2>1, <2>4, <3>3, <3>6, DetectedIs
      <4>2. PICK e : Is(e, "gesturestart", k) /\ One(once, e)
          BY <3>2, <4>1, PushFirst
      <4>3. Same(told, once)
          BY <3>2, PushIs
      <4>4. DOMAIN once = Fields /\ once.state = {k}
          BY <4>1, <4>3 DEF Same
      <4> HIDE DEF once
      <4>5. PICK d : Is(d, "gesturemove", k) /\ Both(PushEvent(once, "gesturemove"), e, d)
          BY <4>2, <4>4, PushSecond
      <4>6. Same(once, PushEvent(once, "gesturemove"))
          BY <4>4, PushIs
      <4>7. ~m.waiting
        <5>1. SUFFICES ASSUME m.waiting PROVE FALSE
            OBVIOUS
        <5>2. PICK j \in Kinds : m.state = {j}
            BY <2>1, <2>4, <2>5, <3>3, <4>1, <5>1 DEF Waits
        <5>3. j = k /\ k \notin Taps
            BY <3>3, <4>1, <5>2
        <5> QED
            BY <2>1, <2>4, <2>10, <5>2, <5>3, DetectedIs
      <4>8. k \in Holding => Holds(told)
          BY <2>5, <3>2, <4>1, <4>7 DEF Holds
      <4>9. k \in Holding => Holds(PushEvent(once, "gesturemove"))
          BY <4>3, <4>6, <4>8, SameHolds
      <4>10. Begins(h, PushEvent(once, "gesturemove"))
          BY <3>4, <4>2, <4>5, <4>9 DEF Begins, Then
      <4> QED
          BY <2>10, <3>2, <3>6, <4>3, <4>6, <4>10 DEF Follows, Same
    <3> QED
        BY <3>5, <3>6
  <2> QED
      BY <2>2, <2>7, <2>9, <2>10
<1> QED
    BY <1>1, <1>2

LEMMA FinishFollows ==
    ASSUME NEW h, DOMAIN h = Fields, NEW id
    PROVE  LET t == Finish(h, id) IN t.events = h.events /\ t.two = h.two
BY DEF Finish, Fields

LEMMA FirstReleaseFollows ==
    ASSUME NEW h, DOMAIN h = Fields
    PROVE  LET t == FirstRelease(h) IN t.events = h.events /\ t.two = h.two
BY DEF FirstRelease, Fields

LEMMA TouchEndFollows ==
    ASSUME NEW h, NEW fs, Sound(h, fs), h.events = <<>>, h.two \in Twos, NEW id \in fs
    PROVE  Follows(h, TouchEnd(h, id))
<1>1. /\ DOMAIN h = Fields /\ h.state \subseteq Kinds /\ h.tracked \in Seq(Touches)
      /\ Known(h, fs)
    BY DEF Sound, Typed
<1>2. CASE id \in h.ignored
  <2> DEFINE dropped == [h EXCEPT !.ignored = @ \ {id}]
             rest == [dropped EXCEPT !.state = Kinds, !.waiting = FALSE]
  <2>1. TouchEnd(h, id) = IF dropped.ignored = {} /\ h.tracked = <<>> THEN rest ELSE dropped
      BY <1>2 DEF TouchEnd
  <2>2. /\ DOMAIN dropped = Fields /\ dropped.tracked = h.tracked /\ dropped.state = h.state
        /\ dropped.waiting = h.waiting /\ dropped.events = <<>> /\ dropped.two = h.two
      BY <1>1 DEF Fields
  <2> HIDE DEF dropped
  <2>3. rest.events = <<>> /\ rest.two = h.two
      BY <2>2 DEF Fields
  <2> HIDE DEF rest
  <2>4. Quiet(h, TouchEnd(h, id))
      BY <2>1, <2>2, <2>3 DEF Quiet, Holds
  <2> QED
      BY <2>1, <2>2, <2>3, <2>4 DEF Follows
<1>3. CASE id \notin h.ignored
  <2> DEFINE early == IF ~HasDetectedGesture(h) /\ h.two # "null"
                      THEN [h EXCEPT !.two = "null", !.state = NoGesture] ELSE h
             f == FirstRelease(early)
             n == Nth(f, id)
             slow == f.releaseOld \/ f.age = 2
             u == [f EXCEPT !.state = IF slow THEN NoGesture ELSE @, !.tracked[n].active = FALSE]
             tap == IF HasDetectedGesture(u) THEN PushEvent(u, "gesturestart") ELSE u
  <2>1. TouchEnd(h, id) =
          IF f.waiting THEN IF ~HasDetectedGesture(u) /\ u.state # NoGesture THEN u
                            ELSE Finish(EndGesture(tap), id)
          ELSE Finish(EndGesture(f), id)
      BY <1>3 DEF TouchEnd
  <2>2. id \in Down(h.tracked) /\ h.tracked # <<>>
      BY <1>1, <1>3 DEF Known, Down
  <2>3. \/ early = h /\ (HasDetectedGesture(h) \/ h.two = "null")
        \/ early = [h EXCEPT !.two = "null", !.state = NoGesture]
      OBVIOUS
  <2>4. DOMAIN early = Fields /\ early.events = <<>> /\ early.two \in Twos
      BY <1>1 DEF Fields, Twos
  <2>5. HasDetectedGesture(h) => f = h
      BY DEF FirstRelease
  <2> HIDE DEF early
  <2>6. /\ DOMAIN f = Fields /\ f.tracked = h.tracked /\ f.ignored = h.ignored
        /\ f.state \subseteq h.state /\ f.long = FALSE /\ f.two # "runs"
        /\ f.waiting = TRUE \/ f.waiting = FALSE
        /\ f.waiting => OneTapLeft(f.state)
    <3>1. h.tracked # <<>>
        BY <2>2
    <3> QED
        BY <2>3, <3>1, FirstReleaseIs, Zenon
  <2>7. f.events = <<>> /\ f.two \in Twos
      BY <2>4, FirstReleaseFollows
  <2>8. Holds(h) => f = h /\ ~f.waiting /\ HasDetectedGesture(f)
      BY <1>1, <2>5, HoldsIs DEF Holds
  <2> HIDE DEF f, n, slow
  <2>9. CASE ~f.waiting
    <3> DEFINE e == EndGesture(f)
    <3>1. TouchEnd(h, id) = Finish(e, id)
        BY <2>1, <2>9
    <3>2. CASE ~HasDetectedGesture(f)
      <4>1. e = f
          BY <3>2 DEF EndGesture
      <4> QED
          BY <2>6, <2>7, <2>8, <3>1, <3>2, <4>1, FinishFollows DEF Follows, Quiet
    <3>3. CASE HasDetectedGesture(f)
      <4>1. PICK k \in Kinds : f.state = {k}
          BY <1>1, <2>6, <3>3, DetectedIs
      <4>2. e = PushEvent(f, "gestureend")
          BY <3>3 DEF EndGesture
      <4>3. PICK d : Is(d, "gestureend", k) /\ One(e, d)
          BY <2>6, <2>7, <4>1, <4>2, PushFirst
      <4>4. DOMAIN e = Fields /\ e.two = f.two
          BY <2>6, <4>2, PushIs DEF Same
      <4> HIDE DEF e
      <4>5. One(Finish(e, id), d) /\ Finish(e, id).two \in Twos
          BY <2>7, <4>3, <4>4, FinishFollows DEF One
      <4>6. Ends(h, Finish(e, id))
          BY <2>8, <4>1, <4>3, <4>5 DEF Ends
      <4> QED
          BY <3>1, <4>5, <4>6 DEF Follows
    <3> QED
        BY <3>2, <3>3
  <2>10. CASE f.waiting
    <3>1. ~Holds(h)
        BY <2>8, <2>10
    <3>2. /\ DOMAIN u = Fields /\ u.events = <<>> /\ u.two \in Twos
          /\ u.state \subseteq Kinds
        BY <1>1, <2>6, <2>7 DEF Fields, NoGesture
    <3> HIDE DEF u
    <3>3. CASE ~HasDetectedGesture(u) /\ u.state # NoGesture
        BY <2>1, <2>10, <3>1, <3>2, <3>3 DEF Follows, Quiet
    <3>4. CASE ~HasDetectedGesture(u) /\ u.state = NoGesture
      <4>1. EndGesture(tap) = u
          BY <3>4 DEF EndGesture
      <4>2. TouchEnd(h, id) = Finish(u, id)
          BY <2>1, <2>10, <3>4, <4>1
      <4> QED
          BY <3>1, <3>2, <4>2, FinishFollows DEF Follows, Quiet
    <3>5. CASE HasDetectedGesture(u)
      <4> DEFINE once == PushEvent(u, "gesturestart")
                 e == PushEvent(once, "gestureend")
      <4>1. PICK k \in Kinds : u.state = {k}
          BY <3>2, <3>5, DetectedIs
      <4>2. PICK d : Is(d, "gesturestart", k) /\ One(once, d)
          BY <3>2, <4>1, PushFirst
      <4>3. Same(u, once)
          BY <3>2, PushIs
      <4>4. HasDetectedGesture(once)
          BY <3>5, <4>3 DEF HasDetectedGesture, Active, Same
      <4>5. EndGesture(tap) = e
          BY <3>5, <4>4 DEF EndGesture
      <4>6. DOMAIN once = Fields /\ once.state = {k} /\ once.two = u.two
          BY <4>1, <4>3 DEF Same
      <4> HIDE DEF once
      <4>7. PICK b : Is(b, "gestureend", k) /\ Both(e, d, b)
          BY <4>2, <4>6, PushSecond
      <4>8. DOMAIN e = Fields /\ e.two = once.two
          BY <4>6, PushIs DEF Same
      <4>9. TouchEnd(h, id) = Finish(e, id)
          BY <2>1, <2>10, <3>5, <4>5
      <4> HIDE DEF e
      <4>10. Both(Finish(e, id), d, b) /\ Finish(e, id).two \in Twos
          BY <3>2, <4>6, <4>7, <4>8, FinishFollows DEF Both
      <4>11. Begins(h, Finish(e, id))
          BY <3>1, <4>2, <4>7, <4>10 DEF Begins, Then
      <4> QED
          BY <4>9, <4>10, <4>11 DEF Follows
    <3> QED
        BY <3>3, <3>4, <3>5
  <2> QED
      BY <2>9, <2>10
<1> QED
    BY <1>2, <1>3

LEMMA LongpressTimeoutFollows ==
    ASSUME NEW h, NEW fs, Sound(h, fs), h.events = <<>>, h.two \in Twos, h.long
    PROVE  Follows(h, LongpressTimeout(h))
<1> DEFINE t == [h EXCEPT !.long = FALSE]
           u == [t EXCEPT !.state = {"longpress"}]
           r == PushEvent(u, "gesturestart")
<1>1. DOMAIN h = Fields /\ h.state \subseteq Kinds
    BY DEF Sound, Typed
<1>2. h.tracked # <<>> /\ ~h.waiting
    BY DEF Sound, Between, Waits
<1>3. LongpressTimeout(h) = IF HasDetectedGesture(h) THEN t ELSE r
    BY DEF LongpressTimeout
<1>4. /\ DOMAIN t = Fields /\ t.state = h.state /\ t.tracked = h.tracked
      /\ t.waiting = h.waiting /\ t.two = h.two /\ t.events = <<>>
    BY <1>1 DEF Fields
<1> HIDE DEF t
<1>5. /\ DOMAIN u = Fields /\ u.state = {"longpress"} /\ u.tracked = h.tracked
      /\ u.waiting = h.waiting /\ u.two = h.two /\ u.events = <<>>
    BY <1>4 DEF Fields
<1> HIDE DEF u
<1>6. CASE HasDetectedGesture(h)
    BY <1>3, <1>4, <1>6 DEF Follows, Quiet, Holds
<1>7. CASE ~HasDetectedGesture(h)
  <2>1. ~Holds(h)
      BY <1>1, <1>7, HoldsIs
  <2>2. PICK e : Is(e, "gesturestart", "longpress") /\ One(r, e)
      BY <1>5, PushFirst
  <2>3. Same(u, r)
      BY <1>5, PushIs
  <2> HIDE DEF r
  <2>4. Holds(r)
      BY <1>2, <1>5, <2>3 DEF Holds, Holding, Same
  <2>5. Begins(h, r)
      BY <2>1, <2>2, <2>4 DEF Begins, Alone, Kinds
  <2>6. r.two \in Twos
      BY <1>5, <2>3 DEF Same
  <2> QED
      BY <1>3, <1>7, <2>5, <2>6 DEF Follows
<1> QED
    BY <1>6, <1>7

LEMMA TwoTouchTimeoutFollows ==
    ASSUME NEW h, NEW fs, Sound(h, fs), h.events = <<>>, h.two = "runs"
    PROVE  Follows(h, TwoTouchTimeout(h))
<1> DEFINE kind == IF Abs(TotalMovement(h))
                        < Len(h.tracked) * Abs(DistanceFirst(h) - DistanceLast(h))
                   THEN "pinch" ELSE "twodrag"
           fired == [h EXCEPT !.two = "fired"]
           t == [fired EXCEPT !.state = {kind}]
           once == PushEvent(t, "gesturestart")
           r == PushEvent(once, "gesturemove")
<1>1. DOMAIN h = Fields /\ h.tracked # <<>> /\ h.state \in {{}, TwoTouch}
    BY DEF Sound, Typed, Between, Timers
<1>2. TwoTouchTimeout(h) = r
    BY <1>1 DEF TwoTouchTimeout
<1>3. kind \in Kinds /\ kind \notin Holding
    BY DEF Kinds, TwoTouch, Holding
<1> HIDE DEF kind
<1>4. DOMAIN t = Fields /\ t.state = {kind} /\ t.two = "fired" /\ t.events = <<>>
    BY <1>1 DEF Fields
<1> HIDE DEF t
<1>5. ~Holds(h)
    BY <1>1 DEF Holds, TwoTouch
<1>6. PICK e : Is(e, "gesturestart", kind) /\ One(once, e)
    BY <1>4, PushFirst
<1>7. DOMAIN once = Fields /\ once.state = {kind} /\ once.two = "fired"
    BY <1>4, PushIs DEF Same
<1> HIDE DEF once
<1>8. PICK d : Is(d, "gesturemove", kind) /\ Both(r, e, d)
    BY <1>6, <1>7, PushSecond
<1>9. r.two \in Twos
    BY <1>7, PushIs DEF Same, Twos
<1> HIDE DEF r
<1>10. Begins(h, r)
    BY <1>3, <1>5, <1>6, <1>8 DEF Begins, Then
<1> QED
    BY <1>2, <1>9, <1>10 DEF Follows

----------------------------------------------------------------------------
(***************************************************************************)
(* The steps.                                                              *)
(***************************************************************************)

LEMMA GestureIs ==
    ASSUME NEW next, NEW fs, Sound(next, fs), Gesture(next)
    PROVE  Sound(g', fs)
<1>1. DOMAIN next = Fields /\ g' = [next EXCEPT !.events = <<>>]
    BY DEF Sound, Typed, Gesture
<1>2. Same(next, g')
    BY <1>1 DEF Same, Fields
<1> QED
    BY <1>2, SameSound

LEMMA InitSound == Init => Sound(g, fingers)
<1> SUFFICES ASSUME Init PROVE Sound(Rest, {})
    BY DEF Init
<1>1. /\ DOMAIN Rest = Fields /\ Rest.state = Kinds /\ Rest.tracked = <<>> /\ Rest.ignored = {}
      /\ Rest.waiting = FALSE /\ Rest.long = FALSE /\ Rest.two = "null"
    BY DEF Rest, Fields
<1>2. Down(<<>>) = {} /\ Distinct(<<>>) /\ AllDown(<<>>) /\ <<>> \in Seq(Touches) /\ Len(<<>>) = 0
    BY DEF Down, Distinct, AllDown
<1>3. Typed(Rest) /\ Known(Rest, {}) /\ Between(Rest) /\ Waits(Rest) /\ Timers(Rest)
    BY <1>1, <1>2 DEF Typed, Known, Between, Waits, Timers
<1>4. "twodrag" \in Kinds /\ "pinch" \in Kinds
    BY DEF Kinds, TwoTouch
<1>5. Possible(Rest)
    BY <1>1, <1>2, <1>4 DEF Possible, Even
<1> QED
    BY <1>3, <1>5 DEF Sound

LEMMA NextSound ==
    ASSUME Sound(g, fingers), [Next]_vars
    PROVE  Sound(g', fingers')
<1>1. ASSUME NEW f \in Fingers, TouchDown(f) PROVE Sound(g', fingers')
    BY <1>1, TouchStartIs, GestureIs DEF TouchDown
<1>2. ASSUME NEW f \in Fingers, TouchUp(f) PROVE Sound(g', fingers')
    BY <1>2, TouchEndIs, GestureIs DEF TouchUp
<1>3. ASSUME NEW f \in Fingers, NEW by \in Moves, TouchMoves(f, by) PROVE Sound(g', fingers')
    BY <1>3, TouchMoveIs, GestureIs DEF TouchMoves
<1>4. ASSUME LongpressFires PROVE Sound(g', fingers')
    BY <1>4, LongpressTimeoutIs, GestureIs DEF LongpressFires
<1>5. ASSUME TwoTouchFires PROVE Sound(g', fingers')
    BY <1>5, TwoTouchTimeoutIs, GestureIs DEF TwoTouchFires
<1>6. ASSUME TimePasses PROVE Sound(g', fingers')
  <2>1. DOMAIN g = Fields
      BY DEF Sound, Typed
  <2>2. Same(g, g')
      BY <1>6, <2>1 DEF TimePasses, Same, Fields
  <2> QED
      BY <1>6, <2>2, SameSound DEF TimePasses
<1>7. ASSUME UNCHANGED <<g, fingers>> PROVE Sound(g', fingers')
    BY <1>7
<1>8. ASSUME NEW type, NEW down, NEW x, Mouse(type, down, x) PROVE UNCHANGED <<g, fingers>>
    BY <1>8 DEF Mouse
<1>9. CASE Next
  <2>1. ASSUME NEW x \in Places, MouseMove(x) PROVE UNCHANGED <<g, fingers>>
      BY <1>8, <2>1 DEF MouseMove
  <2>2. ASSUME NEW b \in MouseButtons, NEW x \in Places, MouseDown(b, x) \/ MouseUp(b, x)
        PROVE  UNCHANGED <<g, fingers>>
      BY <1>8, <2>2 DEF MouseDown, MouseUp
  <2>3. ASSUME NEW delta \in Scrolls, NEW x \in Places, Wheel(delta, x)
        PROVE  UNCHANGED <<g, fingers>>
      BY <2>3 DEF Wheel
  <2>4. ASSUME MouseMoveTimeout \/ TapTimePasses PROVE UNCHANGED <<g, fingers>>
      BY <2>4 DEF MouseMoveTimeout, TapTimePasses
  <2> QED
      BY <1>1, <1>2, <1>3, <1>4, <1>5, <1>6, <1>7, <1>9, <2>1, <2>2, <2>3, <2>4 DEF Next
<1> QED
    BY <1>7, <1>9 DEF vars

----------------------------------------------------------------------------
(***************************************************************************)
(* Both sides together.                                                    *)
(***************************************************************************)

\* A touch handler's events reach RFB before anything else happens.
LEMMA FollowedIs ==
    ASSUME NEW h, NEW s, NEW next, Base(s), Sent(s), Held(h, s), Follows(h, next)
    PROVE  LET t == Handled(s, next.events)
           IN Base(t) /\ Sent(t) /\ Held(next, t)
<1> DEFINE t == Handled(s, next.events)
<1>1. ASSUME s.mask # {}, NEW k, h.state = {k} PROVE k \in Holding /\ Holds(h) /\ ~dragViewport
    BY <1>1 DEF Held, Holds
<1>2. ASSUME ~Holds(h) PROVE s.mask = {}
    BY <1>2 DEF Held
<1>3. CASE Quiet(h, next)
  <2>1. t = s
      BY <1>3, HandledNone DEF Quiet
  <2> QED
      BY <1>3, <2>1 DEF Quiet, Held
<1>4. CASE Goes(h, next)
  <2>1. PICK k, e : k \in Kinds /\ One(next, e) /\ Is(e, "gesturemove", k) /\ h.state = {k}
                              /\ (Holds(h) => Holds(next))
      BY <1>4 DEF Goes
  <2>2. t = HandleGesture(s, e)
      BY <2>1, HandledOne
  <2>3. s.mask = {} \/ k \in Holding
      BY <1>1, <2>1
  <2>4. Base(t) /\ Sent(t) /\ t.mask = s.mask
      BY <2>1, <2>2, <2>3, MovesIs
  <2> QED
      BY <2>1, <2>4 DEF Held
<1>5. CASE Ends(h, next)
  <2>1. PICK k, e : k \in Kinds /\ One(next, e) /\ Is(e, "gestureend", k) /\ (Holds(h) => h.state = {k})
      BY <1>5 DEF Ends
  <2>2. t = HandleGesture(s, e)
      BY <2>1, HandledOne
  <2>3. (s.mask = {} \/ k \in Holding) /\ (s.mask # {} => ~dragViewport)
      BY <1>1, <1>2, <2>1
  <2>4. Base(t) /\ Sent(t) /\ t.mask = {}
      BY <2>1, <2>2, <2>3, EndIs
  <2> QED
      BY <2>4 DEF Held
<1>6. CASE Begins(h, next)
  <2>1. PICK k, e :
          k \in Kinds /\ Is(e, "gesturestart", k) /\ (Alone(next, e, k) \/ \E d : Then(next, e, d, k))
      BY <1>6 DEF Begins
  <2> DEFINE u == HandleGesture(s, e)
  <2>2. Base(u) /\ Sent(u) /\ k \in Kinds /\ (u.mask # {} => k \in Holding /\ ~dragViewport)
      BY <1>2, <1>6, <2>1, StartIs DEF Begins
  <2>3. ASSUME One(next, e), k \in Holding => Holds(next)
        PROVE  Base(t) /\ Sent(t) /\ Held(next, t)
    <3>1. t = u
        BY <2>3, HandledOne
    <3> QED
        BY <2>2, <2>3, <3>1 DEF Held
  <2>4. ASSUME NEW d, Both(next, e, d) PROVE t = HandleGesture(u, d)
      BY <2>4, HandledBoth
  <2> HIDE DEF u, t
  <2>5. ASSUME NEW d, Both(next, e, d), Is(d, "gesturemove", k), k \in Holding => Holds(next)
        PROVE  Base(t) /\ Sent(t) /\ Held(next, t)
    <3>1. Base(t) /\ Sent(t) /\ t.mask = u.mask
        BY <2>2, <2>4, <2>5, MovesIs
    <3> QED
        BY <2>2, <2>5, <3>1 DEF Held
  <2>6. ASSUME NEW d, Both(next, e, d), Is(d, "gestureend", k)
        PROVE  Base(t) /\ Sent(t) /\ Held(next, t)
    <3>1. Base(t) /\ Sent(t) /\ t.mask = {}
        BY <2>2, <2>4, <2>6, EndIs
    <3> QED
        BY <3>1 DEF Held
  <2>7. CASE Alone(next, e, k)
      BY <2>3, <2>7 DEF Alone, t
  <2>8. ASSUME NEW d, Then(next, e, d, k) PROVE Base(t) /\ Sent(t) /\ Held(next, t)
    <3>1. Both(next, e, d)
        BY <2>8 DEF Then
    <3>2. CASE Is(d, "gesturemove", k) /\ (k \in Holding => Holds(next))
        BY <2>5, <3>1, <3>2
    <3>3. CASE Is(d, "gestureend", k)
        BY <2>6, <3>1, <3>3
    <3> QED
        BY <2>8, <3>2, <3>3 DEF Then
  <2>9. CASE \E d : Then(next, e, d, k)
      BY <2>8, <2>9 DEF t
  <2> QED
      BY <2>1, <2>7, <2>9
<1> QED
    BY <1>3, <1>4, <1>5, <1>6 DEF Follows

LEMMA GesturePoints ==
    ASSUME NEW fs, NEW next, Sound(next, fs), Pointing, device = "touch",
           Follows(g, next), Gesture(next)
    PROVE  Base(p') /\ Sent(p') /\ Held(g', p') /\ g'.events = <<>> /\ g'.two \in Twos
<1>1. PICK soon \in BOOLEAN : p' = [Handled(At(soon), next.events) EXCEPT !.recent = FALSE]
    BY DEF Gesture
<1>2. DOMAIN next = Fields /\ g' = [next EXCEPT !.events = <<>>] /\ next.two \in Twos
    BY DEF Sound, Typed, Gesture, Follows
<1>3. Base(p) /\ Sent(p) /\ Held(g, p)
    BY DEF Pointing
<1>4. Base(At(soon)) /\ Sent(At(soon)) /\ Held(g, At(soon))
    BY <1>3, RecentIs DEF At, Held
<1> DEFINE t == Handled(At(soon), next.events)
<1>5. Base(t) /\ Sent(t) /\ Held(next, t)
    BY <1>4, FollowedIs
<1> HIDE DEF t
<1>6. Base(p') /\ Sent(p') /\ p'.mask = t.mask
    BY <1>1, <1>5, RecentIs DEF t
<1>7. Same(next, g') /\ g'.events = <<>>
    BY <1>2 DEF Same, Fields
<1>8. Held(g', p')
    BY <1>5, <1>6, <1>7, SameHolds DEF Held
<1> QED
    BY <1>2, <1>6, <1>7, <1>8 DEF Same

LEMMA InitPoints == Init => Pointing
<1> SUFFICES ASSUME Init PROVE Pointing
    OBVIOUS
<1>1. /\ DOMAIN p = PointerFields /\ p.mask = {} /\ p.sentMask = {} /\ p.sentPos = 0 /\ p.at = 0
      /\ p.dragPos = 0 /\ p.delayed = None /\ ~p.moved /\ ~p.dragging
  <2>1. p = [mask |-> {}, delayed |-> None, recent |-> FALSE, dragging |-> FALSE, moved |-> FALSE,
             dragPos |-> 0, wheel |-> 0, magnitude |-> 0, tapTime |-> "old",
             firstTap |-> [kind |-> "none", pos |-> 0], sentMask |-> {}, sentPos |-> 0, at |-> 0]
      BY Zenon DEF Init
  <2>2. DOMAIN p = PointerFields
      BY <2>1 DEF PointerFields
  <2>3. p.mask = {} /\ p.sentMask = {}
      BY <2>1, Zenon
  <2>4. p.sentPos = 0 /\ p.at = 0 /\ p.dragPos = 0 /\ p.delayed = None
      BY <2>1, Zenon
  <2>5. p.moved = FALSE /\ p.dragging = FALSE
      BY <2>1, Zenon
  <2> QED
      BY <2>2, <2>3, <2>4, <2>5
<1>2. 0 \in Canvas
    BY WidthAssumption DEF Canvas
<1>3. Base(p)
    BY <1>1, <1>2 DEF Base, Shaped, Placed, Still
<1>4. Sent(p) /\ Held(g, p)
    BY <1>1 DEF Sent, Held, Visible
<1>5. g = Rest /\ Settings /\ fingers = {} /\ buttons = {}
    BY Zenon DEF Init, Settings
<1>6. g.events = <<>> /\ g.two \in Twos
    BY <1>5 DEF Rest, Twos
<1>7. ConvertButtonMask(buttons) = {}
    BY <1>5, Zenon DEF ConvertButtonMask
<1> QED
    BY <1>1, <1>3, <1>4, <1>5, <1>6, <1>7 DEF Pointing

LEMMA ConvertIs ==
    ASSUME NEW down, down \subseteq MouseButtons
    PROVE  ConvertButtonMask(down) \in SUBSET Bits
BY DEF ConvertButtonMask, MouseButtons, Bits

\* What a step of the mouse has to leave behind, in the state after it.
MouseDone ==
    /\ Base(p') /\ UNCHANGED <<settings, g, fingers>> /\ buttons' \subseteq MouseButtons
    /\ ~dragViewport => Sent(p') /\ p'.mask = ConvertButtonMask(buttons')

LEMMA MousePoints ==
    ASSUME Pointing, device = "mouse", NEW type, NEW down, down \subseteq MouseButtons, NEW x,
           type = "mousemove" => down = buttons, Mouse(type, down, x)
    PROVE  MouseDone
<1>1. PICK soon \in BOOLEAN :
        p' = [HandleMouse(At(soon), type, ConvertButtonMask(down), Clip(x)) EXCEPT !.recent = FALSE]
    BY DEF Mouse
<1> DEFINE mask == ConvertButtonMask(down)
           t == HandleMouse(At(soon), type, mask, Clip(x))
<1>2. Base(p) /\ (~dragViewport => Sent(p) /\ p.mask = ConvertButtonMask(buttons))
    BY DEF Pointing
<1>3. Base(At(soon)) /\ At(soon).mask = p.mask /\ (~dragViewport => Sent(At(soon)))
    BY <1>2, RecentIs DEF At
<1>4. mask \in SUBSET Bits /\ Clip(x) \in Canvas
    BY ConvertIs, ClipIs
<1>5. ~dragViewport /\ type = "mousemove" => Sent(At(soon)) /\ At(soon).mask = mask
    BY <1>2, <1>3
<1>6. p' = [t EXCEPT !.recent = FALSE]
    BY <1>1
<1> HIDE DEF mask
<1>7. Base(t) /\ (~dragViewport => Sent(t) /\ t.mask = mask)
    BY <1>3, <1>4, <1>5, MouseIs
<1> HIDE DEF t
<1>8. Base(p') /\ (~dragViewport => Sent(p') /\ p'.mask = mask)
    BY <1>6, <1>7, RecentIs
<1> QED
    BY <1>8 DEF MouseDone, Mouse, mask

LEMMA DonePoints ==
    ASSUME Pointing, device = "mouse", MouseDone
    PROVE  Pointing'
<1>1. UNCHANGED <<device, dragViewport, extended, g, fingers>>
    BY DEF MouseDone, settings
<1>2. Settings'
    BY <1>1 DEF Pointing, Settings, MouseDone
<1>3. Base(p)' /\ (~dragViewport' => Sent(p)' /\ p'.mask = ConvertButtonMask(buttons)')
    BY <1>1 DEF MouseDone, Base, Shaped, Placed, Still, Sent, Visible, ConvertButtonMask
<1> QED
    BY <1>1, <1>2, <1>3 DEF Pointing

LEMMA TouchPoints ==
    ASSUME Pointing, device = "touch", UNCHANGED <<settings, buttons>>,
           Base(p'), Sent(p'), Held(g', p'), g'.events = <<>>, g'.two \in Twos
    PROVE  Pointing'
<1>1. UNCHANGED <<device, dragViewport, extended, buttons>>
    BY DEF settings
<1>2. Settings'
    BY <1>1 DEF Pointing, Settings
<1>3. Base(p)' /\ Sent(p)' /\ Held(g, p)'
    BY <1>1 DEF Base, Shaped, Placed, Still, Sent, Visible, Held, Holds
<1> QED
    BY <1>1, <1>2, <1>3 DEF Pointing

\* The timer of a move that waits, and the time between two taps.
LEMMA PointerTimePoints ==
    ASSUME Pointing, MouseMoveTimeout \/ TapTimePasses
    PROVE  Pointing'
<1>1. UNCHANGED <<settings, buttons, g, fingers>>
    BY DEF MouseMoveTimeout, TapTimePasses
<1>2. Base(p) /\ g.events = <<>> /\ g.two \in Twos /\ device \in {"mouse", "touch"}
      /\ buttons \subseteq MouseButtons
    BY DEF Pointing, Settings
<1>3. Base(p') /\ p'.mask = p.mask /\ (Sent(p) => Sent(p'))
  <2>1. CASE MouseMoveTimeout
      BY <1>2, <2>1, DelayedIs DEF MouseMoveTimeout
  <2>2. CASE TapTimePasses
    <3> DEFINE t == [p EXCEPT !.tapTime = "old", !.firstTap = [kind |-> "none", pos |-> 0]]
    <3>1. DOMAIN p = PointerFields /\ p.dragPos \in Canvas
          /\ (~dragViewport => ~p.moved /\ ~p.dragging)
        BY <1>2 DEF Base, Shaped, Still
    <3>2. /\ DOMAIN t = PointerFields /\ t.dragPos = p.dragPos
          /\ t.mask = p.mask /\ t.sentMask = p.sentMask /\ t.sentPos = p.sentPos
          /\ t.at = p.at /\ t.delayed = p.delayed /\ t.moved = p.moved /\ t.dragging = p.dragging
        BY <3>1 DEF PointerFields
    <3> HIDE DEF t
    <3>3. Base(t) /\ (Sent(p) => Sent(t))
        BY <1>2, <3>1, <3>2, ElseIs
    <3> QED
        BY <2>2, <3>2, <3>3 DEF TapTimePasses, t
  <2> QED
      BY <2>1, <2>2
<1>4. CASE device = "touch"
  <2>1. Sent(p') /\ Held(g', p')
      BY <1>1, <1>3, <1>4 DEF Pointing, Held
  <2> QED
      BY <1>1, <1>2, <1>3, <1>4, <2>1, TouchPoints
<1>5. CASE device = "mouse"
  <2>1. MouseDone
      BY <1>1, <1>2, <1>3, <1>5 DEF Pointing, MouseDone
  <2> QED
      BY <1>5, <2>1, DonePoints
<1> QED
    BY <1>2, <1>4, <1>5

\* With a mouse no finger is down, and no timer of the gestures runs.
LEMMA MouseRests ==
    ASSUME Sound(g, fingers), Pointing, device = "mouse"
    PROVE  fingers = {} /\ g.tracked = <<>> /\ ~g.long /\ g.two # "runs" /\ ~g.waiting
<1>1. fingers = {}
    BY DEF Pointing
<1>2. g.tracked = <<>> /\ g.ignored = {}
    BY <1>1 DEF Sound, Known
<1> QED
    BY <1>1, <1>2 DEF Sound, Between

LEMMA NextPoints ==
    ASSUME Sound(g, fingers), Pointing, [Next]_vars
    PROVE  Pointing'
<1>1. /\ g.events = <<>> /\ g.two \in Twos /\ device \in {"mouse", "touch"}
      /\ buttons \subseteq MouseButtons /\ Base(p)
    BY DEF Pointing, Settings
<1>2. ASSUME device = "mouse" PROVE fingers = {} /\ g.tracked = <<>> /\ ~g.long /\ g.two # "runs" /\ ~g.waiting
    BY <1>2, MouseRests
<1>3. ASSUME NEW next, NEW fs, Sound(next, fs), device = "touch", Follows(g, next), Gesture(next)
      PROVE  Pointing'
  <2>1. UNCHANGED <<settings, buttons>>
      BY <1>3 DEF Gesture
  <2> QED
      BY <1>3, <2>1, GesturePoints, TouchPoints
<1>4. ASSUME NEW x \in Places, MouseMove(x) PROVE Pointing'
    BY <1>1, <1>4, MousePoints, DonePoints DEF MouseMove
<1>5. ASSUME NEW b \in MouseButtons, NEW x \in Places, MouseDown(b, x) PROVE Pointing'
  <2>1. buttons \cup {b} \subseteq MouseButtons /\ device = "mouse" /\ Mouse("mousedown", buttons \cup {b}, x)
      BY <1>1, <1>5 DEF MouseDown
  <2> QED
      BY <2>1, MousePoints, DonePoints
<1>6. ASSUME NEW b \in MouseButtons, NEW x \in Places, MouseUp(b, x) PROVE Pointing'
  <2>1. buttons \ {b} \subseteq MouseButtons /\ device = "mouse" /\ Mouse("mouseup", buttons \ {b}, x)
      BY <1>1, <1>6 DEF MouseUp
  <2> QED
      BY <2>1, MousePoints, DonePoints
<1>7. ASSUME NEW delta \in Scrolls, NEW x \in Places, Wheel(delta, x) PROVE Pointing'
  <2> DEFINE mask == ConvertButtonMask(buttons)
  <2>1. /\ device = "mouse" /\ p' = HandleWheel(p, Clip(x), mask, delta)
        /\ UNCHANGED <<settings, buttons, g, fingers>>
      BY <1>7 DEF Wheel
  <2>2. mask \in SUBSET Bits /\ Clip(x) \in Canvas /\ (~dragViewport => Sent(p) /\ p.mask = mask)
      BY <1>1, <2>1, ConvertIs, ClipIs DEF Pointing
  <2>3. mask = ConvertButtonMask(buttons')
      BY <2>1
  <2> HIDE DEF mask
  <2>4. Base(p') /\ (~dragViewport => Sent(p') /\ p'.mask = mask)
      BY <1>1, <2>1, <2>2, WheelIs
  <2>5. MouseDone
      BY <1>1, <2>1, <2>3, <2>4 DEF MouseDone
  <2> QED
      BY <2>1, <2>5, DonePoints
<1>8. ASSUME NEW f \in Fingers, TouchDown(f) PROVE Pointing'
  <2>1. Sound(TouchStart(g, f), fingers \cup {f}) /\ Follows(g, TouchStart(g, f))
      BY <1>1, <1>8, TouchStartIs, TouchStartFollows DEF TouchDown
  <2> QED
      BY <1>3, <1>8, <2>1 DEF TouchDown
<1>9. ASSUME NEW f \in Fingers, TouchUp(f) PROVE Pointing'
  <2>1. Sound(TouchEnd(g, f), fingers \ {f}) /\ Follows(g, TouchEnd(g, f))
      BY <1>1, <1>9, TouchEndIs, TouchEndFollows DEF TouchUp
  <2>2. device = "touch"
      BY <1>1, <1>2, <1>9 DEF TouchUp
  <2> QED
      BY <1>3, <1>9, <2>1, <2>2 DEF TouchUp
<1>10. ASSUME NEW f \in Fingers, NEW by \in Moves, TouchMoves(f, by) PROVE Pointing'
  <2>1. Sound(TouchMove(g, f, by), fingers) /\ Follows(g, TouchMove(g, f, by))
      BY <1>1, <1>10, TouchMoveIs, TouchMoveFollows DEF TouchMoves
  <2>2. device = "touch"
      BY <1>1, <1>2, <1>10 DEF TouchMoves
  <2> QED
      BY <1>3, <1>10, <2>1, <2>2 DEF TouchMoves
<1>11. ASSUME LongpressFires PROVE Pointing'
  <2>1. Sound(LongpressTimeout(g), fingers) /\ Follows(g, LongpressTimeout(g))
      BY <1>1, <1>11, LongpressTimeoutIs, LongpressTimeoutFollows DEF LongpressFires
  <2>2. device = "touch"
      BY <1>1, <1>2, <1>11 DEF LongpressFires
  <2> QED
      BY <1>3, <1>11, <2>1, <2>2 DEF LongpressFires
<1>12. ASSUME TwoTouchFires PROVE Pointing'
  <2>1. Sound(TwoTouchTimeout(g), fingers) /\ Follows(g, TwoTouchTimeout(g))
      BY <1>1, <1>12, TwoTouchTimeoutIs, TwoTouchTimeoutFollows DEF TwoTouchFires
  <2>2. device = "touch"
      BY <1>1, <1>2, <1>12 DEF TwoTouchFires
  <2> QED
      BY <1>3, <1>12, <2>1, <2>2 DEF TwoTouchFires
<1>13. ASSUME TimePasses PROVE Pointing'
  <2>1. DOMAIN g = Fields
      BY DEF Sound, Typed
  <2>2. /\ Same(g, g') /\ g'.events = <<>> /\ UNCHANGED <<settings, buttons, fingers, p>>
      BY <1>1, <1>13, <2>1 DEF TimePasses, Same, Fields
  <2>3. device = "touch"
      BY <1>1, <1>2, <1>13 DEF TimePasses
  <2>4. Base(p') /\ Sent(p') /\ Held(g', p')
      BY <2>2, <2>3, SameHolds DEF Pointing, Held
  <2> QED
      BY <1>1, <2>2, <2>3, <2>4, TouchPoints DEF Same
<1>14. CASE UNCHANGED vars
    BY <1>14 DEF vars, settings, Pointing, Settings, Base, Shaped, Placed, Still, Sent, Visible, Held,
                 Holds, ConvertButtonMask
<1> QED
    BY <1>4, <1>5, <1>6, <1>7, <1>8, <1>9, <1>10, <1>11, <1>12, <1>13, <1>14, PointerTimePoints DEF Next

LEMMA InitInv == Init => IInv
BY InitSound, InitPoints DEF IInv

LEMMA NextInv == IInv /\ [Next]_vars => IInv'
<1> SUFFICES ASSUME IInv, [Next]_vars PROVE IInv'
    OBVIOUS
<1>1. Sound(g', fingers') /\ Pointing'
    BY NextSound, NextPoints DEF IInv
<1> QED
    BY <1>1 DEF IInv

----------------------------------------------------------------------------
(***************************************************************************)
(* The properties.                                                         *)
(***************************************************************************)

LEMMA SoundKnows == IInv => FingersKnown
<1> SUFFICES ASSUME Sound(g, fingers) PROVE FingersKnown
    BY DEF IInv
<1>1. Active(g) = Down(g.tracked)
    BY DEF Active, Down
<1>2. Typed(g) /\ Known(g, fingers) /\ Between(g)
    BY DEF Sound
<1>3. ASSUME fingers = {} PROVE g.tracked = <<>> /\ g.ignored = {}
    BY <1>2, <1>3 DEF Known
<1> QED
    BY <1>1, <1>2, <1>3 DEF Known, Between, FingersKnown

LEMMA InvTypes == IInv => TypeOK
<1> SUFFICES ASSUME IInv PROVE TypeOK
    OBVIOUS
<1>1. fingers \subseteq Fingers
  <2>1. g.tracked \in Seq(Touches) /\ g.ignored \subseteq Fingers
      BY DEF IInv, Sound, Typed
  <2>2. \A i \in 1 .. Len(g.tracked) : g.tracked[i].id \in Fingers
    <3>1. \A i \in 1 .. Len(g.tracked) : g.tracked[i] \in Touches
        BY <2>1
    <3>2. \A t \in Touches : t.id \in Fingers
        BY DEF Touches
    <3> QED
        BY <3>1, <3>2
  <2>3. Down(g.tracked) \subseteq Fingers
      BY <2>2 DEF Down
  <2> QED
      BY <2>1, <2>3 DEF IInv, Sound, Known
<1>2. g.state \subseteq Kinds /\ g.ignored \subseteq Fingers /\ g.tracked \in Seq(Touches)
      /\ g.waiting \in BOOLEAN /\ g.long \in BOOLEAN
    BY DEF IInv, Sound, Typed
<1>3. Settings /\ Shaped(p) /\ g.two \in Twos
    BY DEF IInv, Pointing, Base
<1> QED
    BY <1>1, <1>2, <1>3 DEF TypeOK, Settings, Shaped, Twos, Canvas

LEMMA InvReleases == IInv => NoStuckButton
<1> SUFFICES ASSUME IInv PROVE NoStuckButton
    OBVIOUS
<1>1. ASSUME device = "touch", fingers = {} PROVE p.sentMask = {} /\ p.mask = {}
  <2>1. g.tracked = <<>>
      BY <1>1 DEF IInv, Sound, Known
  <2>2. p.mask = {} /\ Sent(p)
      BY <1>1, <2>1 DEF IInv, Pointing, Held, Holds
  <2> QED
      BY <2>2 DEF Sent, Visible
<1>2. ASSUME device = "mouse", ~dragViewport
      PROVE  p.sentMask = ConvertButtonMask(buttons) \ (IF extended THEN {} ELSE Extra)
  <2>1. Sent(p) /\ p.mask = ConvertButtonMask(buttons)
      BY <1>2 DEF IInv, Pointing
  <2>2. Visible(p.mask) = p.mask \ (IF extended THEN {} ELSE Extra)
      BY DEF Visible
  <2> QED
      BY <2>1, <2>2 DEF Sent
<1> QED
    BY <1>1, <1>2 DEF NoStuckButton

LEMMA InvPlaces == IInv => PositionKept
BY DEF IInv, Pointing, Base, Placed, PositionKept

\* A handler that is called while a drag or a long press is known starts none.
LEMMA StartsNone ==
    ASSUME NEW h, NEW t, Holds(h), Follows(h, t)
    PROVE  ~Starts(t)
<1>1. \A e : Len(<<e>>) = 1 /\ <<e>>[1] = e
    OBVIOUS
<1>2. CASE Quiet(h, t)
    BY <1>2 DEF Quiet, Starts
<1>3. ASSUME NEW e, NEW k, One(t, e), Is(e, "gesturemove", k) \/ Is(e, "gestureend", k)
      PROVE  ~Starts(t)
    BY <1>1, <1>3 DEF One, Is, Starts
<1> QED
    BY <1>2, <1>3 DEF Follows, Goes, Ends, Begins

LEMMA StepHoldsOne ==
    ASSUME IInv, [Next]_vars, device = "touch", p.sentMask # {}
    PROVE  /\ \A f \in Fingers : TouchUp(f) => ~Starts(TouchEnd(g, f))
           /\ \A f \in Fingers, by \in Moves : TouchMoves(f, by) => ~Starts(TouchMove(g, f, by))
           /\ LongpressFires => ~Starts(LongpressTimeout(g))
           /\ TwoTouchFires => ~Starts(TwoTouchTimeout(g))
<1>1. Sound(g, fingers) /\ g.events = <<>> /\ g.two \in Twos /\ Sent(p) /\ Held(g, p)
    BY DEF IInv, Pointing
<1>2. p.mask # {}
    BY <1>1 DEF Sent, Visible
<1>3. Holds(g)
    BY <1>1, <1>2 DEF Held
<1>4. ASSUME NEW f \in Fingers, TouchUp(f) PROVE ~Starts(TouchEnd(g, f))
    BY <1>1, <1>3, <1>4, TouchEndFollows, StartsNone DEF TouchUp
<1>5. ASSUME NEW f \in Fingers, NEW by \in Moves PROVE ~Starts(TouchMove(g, f, by))
    BY <1>1, <1>3, TouchMoveFollows, StartsNone
<1>6. ASSUME LongpressFires PROVE ~Starts(LongpressTimeout(g))
    BY <1>1, <1>3, <1>6, LongpressTimeoutFollows, StartsNone DEF LongpressFires
<1>7. ASSUME TwoTouchFires PROVE ~Starts(TwoTouchTimeout(g))
    BY <1>1, <1>3, <1>7, TwoTouchTimeoutFollows, StartsNone DEF TwoTouchFires
<1> QED
    BY <1>4, <1>5, <1>6, <1>7

\* Everything is of its type: above all, every position that is sent is on the
\* canvas, wherever the mouse or the fingers are.
THEOREM TypeCorrect == Spec => []TypeOK
<1> QED
    BY InitInv, NextInv, InvTypes, PTL DEF Spec

\* Every finger on the canvas is tracked or ignored, and with all of them up
\* the next touch starts from nothing: for any number of fingers, moves and
\* thresholds, in every order of touches and timeouts.
THEOREM FingersAreKnown == Spec => []FingersKnown
<1> QED
    BY InitInv, NextInv, SoundKnows, PTL DEF Spec

\* No button stays down at the server: after any touches, timeouts and
\* gestures the fingers hold none once they are up, and the mouse's are those
\* that are down on it.
THEOREM ButtonsReleased == Spec => []NoStuckButton
<1> QED
    BY InitInv, NextInv, InvReleases, PTL DEF Spec

\* The server has the last position, or the timer that will send it runs.
THEOREM PositionIsKept == Spec => []PositionKept
<1> QED
    BY InitInv, NextInv, InvPlaces, PTL DEF Spec

\* While a drag or a long press holds a button, no handler starts a gesture.
THEOREM HeldOneByOne == Spec => OneHoldAtATime
<1> DEFINE OneHold ==
             device = "touch" /\ p.sentMask # {} =>
               /\ \A f \in Fingers : TouchUp(f) => ~Starts(TouchEnd(g, f))
               /\ \A f \in Fingers, by \in Moves : TouchMoves(f, by) => ~Starts(TouchMove(g, f, by))
               /\ LongpressFires => ~Starts(LongpressTimeout(g))
               /\ TwoTouchFires => ~Starts(TwoTouchTimeout(g))
<1>1. IInv /\ [Next]_vars => [OneHold]_vars
  <2>1. SUFFICES ASSUME IInv, [Next]_vars PROVE OneHold
      OBVIOUS
  <2> QED
      BY <2>1, StepHoldsOne
<1>2. Spec => [][OneHold]_vars
  <2> HIDE DEF OneHold
  <2> QED
      BY <1>1, InitInv, NextInv, PTL DEF Spec
<1> QED
    BY <1>2 DEF OneHoldAtATime
=============================================================================
