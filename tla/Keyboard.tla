------------------------------ MODULE Keyboard ------------------------------
(***************************************************************************)
(* Keyboard, and the part of RFB that sends its keys: from the browser's   *)
(* key events to the keys that are down, and the locks that are on, at     *)
(* the VNC server.                                                         *)
(*                                                                         *)
(* A handler runs to completion, so each is a function from the client's   *)
(* state to its next one: `c` below is the Keyboard object, the RFB fields *)
(* it goes through and, as every event that is sent is processed in order, *)
(* the server's keys. What may come between two handlers is everything     *)
(* else: the AltGr timer, a lock report of the server, focus moving away,  *)
(* the view-only switch, the Ctrl-Alt-Del button, a pinch.                 *)
(*                                                                         *)
(* Keysyms and codes are named, one of each kind the code treats           *)
(* differently; the lookup tables behind them are not modelled.            *)
(***************************************************************************)
EXTENDS Naturals, Sequences, FiniteSets

CONSTANTS
    Keys,        \* platform -> the physical keys of its keyboard
    MaxHeld,     \* bound: keys held down at once
    MaxLeds,     \* bound: lock reports on their way from the server
    Reported,    \* bound: platform -> the locks the server reports
    MaxStrays    \* bound: keys let go of, or dropped, out of the client's sight

Platforms == {"windows", "mac", "other", "legacy"}
Locks == {"CapsLock", "NumLock"}
Shifts == {"ShiftLeft", "ShiftRight"}
Codes == {"ControlLeft", "AltRight", "MetaLeft", "KeyA", "Lang1", "Platform65",
          "Unidentified"} \cup Locks \cup Shifts
Physical == Codes \ {"Platform65"}

ASSUME KeysAssumption == Keys \in [Platforms -> SUBSET Physical]
ASSUME MaxHeldAssumption == MaxHeld \in Nat
ASSUME MaxLedsAssumption == MaxLeds \in Nat
ASSUME MaxStraysAssumption == MaxStrays \in Nat
ASSUME ReportedAssumption == Reported \in [Platforms -> SUBSET Locks]

Up == "up"         \* _keyDownList has no such code
None == "null"     \* no keysym, or a lock whose state is not known

Keysyms == {"Control_L", "Alt_L", "Alt_R", "Super_L", "Mode_switch", "ISO_Level3_Shift",
            "Caps_Lock", "Num_Lock", "Shift_L", "Shift_R", "a", "A", "Delete", "Romaji"}
ServerKeys == Keysyms \cup Codes \cup {"AltLeft"}     \* AltLeft: of the button only

VARIABLES
    platform,    \* the operating system, or "legacy": a browser without event codes
    extended,    \* the server takes QEMU extended key events
    held,        \* the keys that are physically down
    focus,       \* "canvas", "page" (elsewhere in the frame) or "away"
    fake,        \* the fake Ctrl of AltGr: "none", "first" (AltRight follows) or "made"
    muted,       \* keys pressed with meta down: macOS never reports their release
    local,       \* lock -> "on" or "off" on the user's own keyboard
    strayed,     \* keys released while the canvas did not listen
    leds,        \* the server's lock reports on their way
    c            \* the client's and the server's keys, see Init

environment == <<platform, extended>>
vars == <<environment, held, focus, fake, muted, local, strayed, leds, c>>

Lock == [Locks -> {"on", "off"}]
Flip(v) == IF v = "on" THEN "off" ELSE "on"

Init ==
    /\ platform \in Platforms
    /\ extended \in BOOLEAN
    /\ held = {} /\ focus = "canvas" /\ fake = "none" /\ muted = {} /\ strayed = {}
    /\ leds = <<>>
    /\ local = [l \in Locks |-> "off"]
    /\ c = [list |-> [k \in Codes |-> Up],          \* _keyDownList
            armed |-> FALSE,                        \* _altGrArmed
            viewOnly |-> FALSE,
            known |-> [l \in Locks |-> None],       \* _remoteCapsLock, _remoteNumLock
            down |-> {},                            \* at the server: keys,
            lock |-> [l \in Locks |-> IF l = "NumLock" THEN "on" ELSE "off"], \* locks,
            report |-> TRUE,                        \* a report it owes,
            lost |-> {}]                            \* keys whose release was dropped

----------------------------------------------------------------------------
(***************************************************************************)
(* RFB: what is sent for a key, and what the server makes of it.           *)
(***************************************************************************)

\* XtScancode knows the codes that name a physical key.
HasScancode(code) == code \notin {"Platform65", "Unidentified"}

ByCode(code) == extended /\ HasScancode(code)
AtServer(keysym, code) == IF ByCode(code) THEN code ELSE keysym

LockKey(l) == IF l = "CapsLock" THEN "Caps_Lock" ELSE "Num_Lock"

ServerGets(s, key, down) ==
    LET hit == {l \in Locks : key \in {l, LockKey(l)} /\ key \notin s.down}
    IN IF down
       THEN [s EXCEPT !.down = @ \cup {key}, !.report = @ \/ hit # {},
                      !.lock = [l \in Locks |-> IF l \in hit THEN Flip(@[l]) ELSE @[l]]]
       ELSE [s EXCEPT !.down = @ \ {key}, !.lost = @ \ {key}]

SendKey(s, keysym, code, down) ==
    IF s.viewOnly \/ (~ByCode(code) /\ keysym = None)
    THEN s
    ELSE ServerGets(s, AtServer(keysym, code), down)

\* One press of the lock key when the server is known to differ.
SyncLock(s, l, code, state, down) ==
    LET t == IF code = l /\ down THEN [s EXCEPT !.known[l] = None] ELSE s
        pressed == SendKey(SendKey(t, LockKey(l), l, TRUE), LockKey(l), l, FALSE)
    IN IF down /\ t.known[l] # None /\ state # None /\ t.known[l] # state
       THEN [pressed EXCEPT !.known[l] = None]
       ELSE t

SyncCapsLockOnly(s, keysym, code, down, locks) ==              \* mutant: NumLock left alone
    SendKey(SyncLock(s, "CapsLock", code, locks["CapsLock"], down), keysym, code, down)
HandleKeyEvent(s, keysym, code, down, locks) ==
    SendKey(SyncLock(SyncLock(s, "CapsLock", code, locks["CapsLock"], down),
                     "NumLock", code, locks["NumLock"], down),
            keysym, code, down)

----------------------------------------------------------------------------
(***************************************************************************)
(* Keyboard.                                                               *)
(***************************************************************************)

Unknown == [l \in Locks |-> None]           \* numlock and capslock left out of a call

SendKeyEvent(s, keysym, code, down, locks) ==
    IF down
    THEN HandleKeyEvent([s EXCEPT !.list[code] = keysym], keysym, code, TRUE, locks)
    ELSE IF s.list[code] = Up THEN s
    ELSE HandleKeyEvent([s EXCEPT !.list[code] = Up], keysym, code, FALSE, locks)

Click(s, keysym, code, locks) ==
    SendKeyEvent(SendKeyEvent(s, keysym, code, TRUE, locks), keysym, code, FALSE, locks)

InterruptAltGrSequence(s) ==
    IF s.armed
    THEN SendKeyEvent([s EXCEPT !.armed = FALSE], "Control_L", "ControlLeft", TRUE, Unknown)
    ELSE s

\* An event has the legacy fields only on a browser without KeyboardEvent.code.
GetKeycode(e) ==
    CASE e.code = "OSLeft" -> "MetaLeft"
      [] e.code \notin {"", "OSLeft"} -> e.code
      [] e.code = "" /\ e.vk = "ShiftLeft" /\ e.location = 2 -> "ShiftRight"
      [] OTHER -> IF e.vk # "" THEN e.vk ELSE "Unidentified"

\* A key without a code of its own gets one made of its character.
GetKeyCode(e) ==
    LET code == GetKeycode(e)
    IN IF code = "Unidentified" /\ e.printable THEN "Platform65" ELSE code

\* macOS: Alt behaves as AltGr, Super as Alt.
Shuffle(keysym) ==
    CASE keysym = "Super_L" -> "Alt_L"
      [] keysym = "Alt_L" -> "Mode_switch"
      [] keysym = "Alt_R" -> "ISO_Level3_Shift"
      [] OTHER -> keysym

EndAltGrSilently(s, e, code) == [s EXCEPT !.armed = FALSE]    \* mutant: the Ctrl is forgotten
EndAltGr(s, e, code) ==
    IF s.armed /\ ~(code = "AltRight" /\ e.quick)
    THEN SendKeyEvent([s EXCEPT !.armed = FALSE], "Control_L", "ControlLeft", TRUE, e.locks)
    ELSE [s EXCEPT !.armed = FALSE]

KeysymNow(s, e, code) == e.keysym           \* mutant: a repeated key takes the keysym of now
KeysymFor(s, e, code) ==
    LET sym == IF s.armed /\ code = "AltRight" /\ e.quick THEN "ISO_Level3_Shift" ELSE e.keysym
    IN IF s.list[code] # Up THEN s.list[code]
       ELSE IF platform = "mac" THEN Shuffle(sym) ELSE sym

KeyDownHandler(s, e) ==
    LET code == GetKeyCode(e)
        keysym == KeysymFor(s, e, code)
        t == EndAltGr(s, e, code)
    IN IF code = "Unidentified"
       THEN IF e.keysym = None THEN t ELSE Click(t, e.keysym, code, e.locks)
       ELSE IF \/ platform = "mac" /\ e.meta /\ code # "MetaLeft"
               \/ platform = "windows" /\ keysym = "Romaji"
       THEN Click(t, keysym, code, e.locks)
       ELSE IF platform = "mac" /\ code = "CapsLock"
       THEN Click(t, "Caps_Lock", code, e.locks)
       ELSE IF platform = "windows" /\ code = "ControlLeft" /\ t.list[code] = Up
       THEN [t EXCEPT !.armed = TRUE]
       ELSE SendKeyEvent(t, keysym, code, TRUE, e.locks)

KeyUpAlone(s, e) ==                         \* mutant: one Shift's release leaves the other down
    LET t == InterruptAltGrSequence(s)
        code == GetKeyCode(e)
    IN SendKeyEvent(t, t.list[code], code, FALSE, Unknown)
KeyUpHandler(s, e) ==
    LET code == GetKeyCode(e)
        t == InterruptAltGrSequence(s)
        up(r, k) == SendKeyEvent(r, r.list[k], k, FALSE, Unknown)
    IN IF platform = "mac" /\ code = "CapsLock" THEN Click(t, "Caps_Lock", code, Unknown)
       ELSE IF platform = "windows" /\ code \in Shifts
       THEN up(up(up(t, code), "ShiftRight"), "ShiftLeft")
       ELSE up(t, code)

\* What the keys of _keyDownList were sent as.
Tracked(s) == {AtServer(s.list[k], k) : k \in {k \in Codes : s.list[k] # Up}}

\* The order of the releases makes no difference to the server.
AllKeysUp(s) ==
    LET t == InterruptAltGrSequence(s)
        sent == Tracked(t)
    IN [t EXCEPT !.list = [k \in Codes |-> Up],
                 !.down = IF t.viewOnly THEN @ ELSE @ \ sent,
                 !.lost = IF t.viewOnly THEN @ ELSE @ \ sent]

----------------------------------------------------------------------------
(***************************************************************************)
(* The user, the browser and the operating system. Which events a platform *)
(* leaves out or makes up is what the comments of keyboard.js say of it.   *)
(***************************************************************************)

Listening == focus = "canvas" /\ ~c.viewOnly      \* grab() and ungrab()

Typed == IF "AltRight" \in held THEN None         \* a dead key
         ELSE IF (held \cap Shifts # {}) # (local["CapsLock"] = "on") THEN "A" ELSE "a"

KeysymOf(k) ==                                    \* getKeysym
    CASE k \in {"KeyA", "Unidentified"} -> Typed
      [] k \in Locks -> LockKey(k)
      [] k = "ControlLeft" -> "Control_L"
      [] k = "AltRight" -> "Alt_R"
      [] k = "MetaLeft" -> "Super_L"
      [] k = "ShiftLeft" -> "Shift_L"
      [] k = "ShiftRight" -> "Shift_R"
      [] k = "Lang1" -> "Romaji"

Event(k, locks, quick) ==
    [code |-> IF platform = "legacy" \/ k = "Unidentified" THEN "" ELSE IF k = "MetaLeft" THEN "OSLeft" ELSE k,
     vk |-> IF k \in {"KeyA", "Unidentified"} THEN ""
            ELSE IF k \in Shifts THEN "ShiftLeft" ELSE k,
     location |-> IF k = "ShiftRight" THEN 2 ELSE 1,
     printable |-> k = "KeyA",
     keysym |-> KeysymOf(k),
     locks |-> IF platform = "mac" THEN [locks EXCEPT !["NumLock"] = None] ELSE locks,
     meta |-> "MetaLeft" \in held \cup {k},
     quick |-> quick]

Press(k, quick) ==
    LET now == IF k \in Locks THEN [local EXCEPT ![k] = Flip(@)] ELSE local
        e == Event(k, now, quick)
    IN /\ held' = held \cup {k}
       /\ local' = now
       /\ muted' = IF platform = "mac" /\ "MetaLeft" \in held THEN muted \cup {k} ELSE muted
       /\ c' = IF ~Listening THEN c
               ELSE IF platform = "mac" /\ k = "CapsLock" /\ now[k] = "off"
               THEN KeyUpHandler(c, e)
               ELSE KeyDownHandler(c, e)
       /\ UNCHANGED <<environment, focus, strayed, leds>>

PressKey(k, quick) ==
    /\ fake # "first"
    /\ focus = "canvas"              \* bound: what is typed elsewhere is not followed
    /\ k \in Keys[platform] \ held
    /\ Cardinality(held) < MaxHeld
    /\ Press(k, quick)
    /\ UNCHANGED fake

\* AltGr on Windows: Ctrl first, unless it is down already, and at once AltRight.
FakeCtrl ==
    /\ focus = "canvas" /\ platform = "windows" /\ fake = "none" /\ "AltRight" \in Keys[platform] \ held
    /\ "ControlLeft" \notin held /\ Cardinality(held) < MaxHeld
    /\ fake' = "first"
    /\ c' = IF Listening THEN KeyDownHandler(c, Event("ControlLeft", local, FALSE)) ELSE c
    /\ UNCHANGED <<environment, held, focus, muted, local, strayed, leds>>

AltGrFollows ==
    /\ fake = "first"
    /\ Press("AltRight", TRUE)
    /\ fake' = "made"

Repeat(k) ==
    /\ fake # "first"
    /\ k \in held \ (muted \cup Locks)
    /\ Listening
    /\ c' = KeyDownHandler(c, Event(k, local, FALSE))
    /\ UNCHANGED <<environment, held, focus, fake, muted, local, strayed, leds>>

\* Keys whose release the platform does not report.
Silent(k) ==
    \/ platform = "windows" /\ k = "Lang1"
    \/ platform = "windows" /\ k \in Shifts /\ Shifts \subseteq held
    \/ platform = "mac" /\ k \in muted \cup {"CapsLock"}

ReleaseKey(k) ==
    /\ fake # "first"
    /\ k \in held
    /\ held' = held \ {k}
    /\ muted' = muted \ {k}
    /\ strayed' = IF Silent(k) /\ Listening THEN strayed
                  ELSE IF Listening THEN strayed \ {k}
                  ELSE strayed \cup {k} \cup (IF k = "AltRight" /\ fake = "made" THEN {"ControlLeft"} ELSE {})
    /\ LET s == IF k = "AltRight" /\ fake = "made" THEN KeyUpHandler(c, Event("ControlLeft", local, FALSE)) ELSE c
       IN c' = IF Silent(k) \/ ~Listening THEN c ELSE KeyUpHandler(s, Event(k, local, FALSE))
    /\ fake' = IF k = "AltRight" THEN "none" ELSE fake
    /\ UNCHANGED <<environment, focus, local, leds>>

\* The 100 ms of _altGrTimeout are over; the fake Ctrl never is that late.
AltGrTimeout ==
    /\ c.armed /\ fake # "first"
    /\ c' = InterruptAltGrSequence(c)
    /\ UNCHANGED <<environment, held, focus, fake, muted, local, strayed, leds>>

WindowBlur ==
    /\ focus # "away"
    /\ focus' = "away"
    /\ c' = IF c.viewOnly THEN c ELSE AllKeysUp(c)
    /\ strayed' = IF c.viewOnly THEN strayed ELSE {}
    /\ UNCHANGED <<environment, held, fake, muted, local, leds>>

\* Focus comes back, or moves between the canvas and the rest of the frame.
FocusMoves ==
    /\ \/ focus # "canvas" /\ focus' = "canvas"
       \/ focus = "canvas" /\ Cardinality(held \cup strayed) <= MaxStrays /\ focus' = "page"
    /\ UNCHANGED <<environment, held, fake, muted, local, strayed, leds, c>>

SetViewOnly(v) ==
    /\ v # c.viewOnly
    /\ v => Cardinality(c.down \cup c.lost) <= MaxStrays
    /\ LET s == [c EXCEPT !.viewOnly = v]
       IN c' = IF v THEN [AllKeysUp(s) EXCEPT !.lost = s.down] ELSE s
    /\ strayed' = IF v THEN {} ELSE strayed
    /\ UNCHANGED <<environment, held, focus, fake, muted, local, leds>>

\* The button works wherever the focus is.
SendCtrlAltDel ==
    /\ ~c.viewOnly
    /\ LET ctrl == SendKey(c, "Control_L", "ControlLeft", TRUE)
           alt == SendKey(ctrl, "Alt_L", "AltLeft", TRUE)
           del == SendKey(SendKey(alt, "Delete", "Delete", TRUE), "Delete", "Delete", FALSE)
       IN c' = SendKey(SendKey(del, "Alt_L", "AltLeft", FALSE), "Control_L", "ControlLeft", FALSE)
    /\ UNCHANGED <<environment, held, focus, fake, muted, local, strayed, leds>>

\* A pinch gesture zooms with Ctrl and the wheel; it leaves the locks out of
\* its calls, which is "undefined" there and not null.
Undefined == [l \in Locks |-> "undefined"]

PinchZoom ==
    /\ \E zooms \in BOOLEAN :
         LET ctrl == IF zooms THEN HandleKeyEvent(c, "Control_L", "ControlLeft", TRUE, Undefined) ELSE c
         IN c' = HandleKeyEvent(ctrl, "Control_L", "ControlLeft", FALSE, Undefined)
    /\ UNCHANGED <<environment, held, focus, fake, muted, local, strayed, leds>>

----------------------------------------------------------------------------
(***************************************************************************)
(* The server reports its locks, and changes them of its own accord.       *)
(***************************************************************************)

ServerReports ==
    /\ Reported[platform] # {}
    /\ c.report /\ Len(leds) < MaxLeds
    /\ leds' = Append(leds, c.lock)
    /\ c' = [c EXCEPT !.report = FALSE]
    /\ UNCHANGED <<environment, held, focus, fake, muted, local, strayed>>

ServerToggles(l) ==
    /\ c' = [c EXCEPT !.lock[l] = Flip(@), !.report = TRUE]
    /\ UNCHANGED <<environment, held, focus, fake, muted, local, strayed, leds>>

LearnLocks(s, led) ==
    [s EXCEPT !.known = [l \in Locks |-> IF l \in Reported[platform] THEN led[l] ELSE None]]

HandleLedEvent ==
    /\ leds # <<>>
    /\ c' = LearnLocks(c, Head(leds))
    /\ leds' = Tail(leds)
    /\ UNCHANGED <<environment, held, focus, fake, muted, local, strayed>>

Next ==
    \/ \E k \in Codes, quick \in BOOLEAN : PressKey(k, quick)
    \/ FakeCtrl
    \/ AltGrFollows
    \/ \E k \in Codes : Repeat(k)
    \/ \E k \in Codes : ReleaseKey(k)
    \/ AltGrTimeout
    \/ WindowBlur
    \/ FocusMoves
    \/ \E v \in BOOLEAN : SetViewOnly(v)
    \/ SendCtrlAltDel
    \/ PinchZoom
    \/ ServerReports
    \/ \E l \in Reported[platform] : ServerToggles(l)
    \/ HandleLedEvent

Spec == Init /\ [][Next]_vars

----------------------------------------------------------------------------
(***************************************************************************)
(* Properties.                                                             *)
(***************************************************************************)

Client == [list : [Codes -> Keysyms \cup {Up, None}], armed : BOOLEAN, viewOnly : BOOLEAN,
           known : [Locks -> {"on", "off", None}], down : SUBSET ServerKeys,
           lock : Lock, report : BOOLEAN, lost : SUBSET ServerKeys]

TypeOK ==
    /\ platform \in Platforms /\ extended \in BOOLEAN
    /\ held \subseteq Physical /\ muted \subseteq Codes /\ strayed \subseteq Codes
    /\ focus \in {"canvas", "page", "away"} /\ fake \in {"none", "first", "made"}
    /\ local \in Lock /\ leds \in Seq(Lock)
    /\ c \in Client

\* What is down at the server is in _keyDownList under the name it was
\* pressed with, so that its release will reach it: whatever the key would be
\* called by now, whatever was made up or merged on the way. (The keys down
\* when view-only is switched on are lost: the setter's releases are dropped.)
DownIsTracked == c.down \subseteq Tracked(c) \cup c.lost

\* A Ctrl that is held back is not in the list yet.
HeldBack == c.armed => c.list["ControlLeft"] = Up

\* What is only ever clicked never stays in the list: a click under another
\* name would leave the first one down.
ClickedAreUp ==
    /\ c.list["Unidentified"] = Up
    /\ platform = "mac" => c.list["CapsLock"] = Up

\* The four together are inductive.
Inv == TypeOK /\ DownIsTracked /\ HeldBack /\ ClickedAreUp

\* With no key physically down, or the window without the focus, none is down
\* at the server: across the keys Windows and macOS never report released, a
\* delayed Ctrl, a repeated key, a blur at any point of these. (Keys released
\* while something else in the frame had the focus are never heard of:
\* strayed.)
NothingStuck ==
    \/ held = {} /\ strayed = {} /\ ~c.armed
    \/ focus = "away"
    => c.down \subseteq c.lost

\* A letter typed when the client knows the server's locks reaches a server
\* whose locks are those of the user's keyboard (macOS does not tell NumLock).
TypedInSync ==
    [][\A l \in Locks :
         /\ \E quick \in BOOLEAN : PressKey("KeyA", quick)
         /\ Listening /\ leds = <<>> /\ ~c.report /\ c.known[l] # None /\ ~c.armed
         /\ ~(platform = "mac" /\ l = "NumLock") /\ c.down \cap {l, LockKey(l)} = {}
         => c'.lock[l] = local[l]]_vars

\* A Ctrl held back as the possible start of AltGr is down at the server
\* before the next letter is.
CtrlBeforeLetter ==
    [][c.armed /\ Listening /\ (\E quick \in BOOLEAN : PressKey("KeyA", quick))
       => AtServer("Control_L", "ControlLeft") \in c'.down]_vars
=============================================================================
