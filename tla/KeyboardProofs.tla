--------------------------- MODULE KeyboardProofs ---------------------------
(***************************************************************************)
(* Proof that Keyboard loses track of no key, for any keyboards, bounds    *)
(* and reported locks. A handler is a function from state to state, so     *)
(* most of the proof is about these: what a call sends, it also notes in   *)
(* or takes out of _keyDownList, under one name for as long as the key is  *)
(* down.                                                                   *)
(***************************************************************************)
(* Proof that Keyboard loses track of no key, leaves no key down at the    *)
(* server, and brings the user's locks and a held-back Ctrl to the server  *)
(* before a letter; for any keyboards, bounds and reported locks. A        *)
(* handler is a function from state to state, so most of the proof is      *)
(* about these: what a call sends, it also notes in or takes out of        *)
(* _keyDownList, under one name for as long as the key is down.            *)
(***************************************************************************)
EXTENDS Keyboard, TLAPS

Named == Keysyms \cup {None}
Sent  == Codes \cup {"AltLeft", "Delete"}      \* the codes of SendKey's callers

ExtendedOK == extended \in BOOLEAN

\* Keys are sent.
Takes(s) == ~s.viewOnly

Put(list, code, keysym) == [list EXCEPT ![code] = keysym]

Covered(s) == s.down \subseteq Tracked(s) \cup s.lost

\* The handlers' invariant, between two of them.
Safe(s) ==
    /\ s \in Client /\ Covered(s)
    /\ s.armed => s.list["ControlLeft"] = Up
    /\ s.list["Unidentified"] = Up
    /\ platform = "mac" => s.list["CapsLock"] = Up

\* Sending touches neither the list nor the switches.
SameList(s, t) == t.list = s.list /\ t.armed = s.armed /\ t.viewOnly = s.viewOnly

\* No key is down that was not, and none was forgotten as lost.
Shrinks(s, t) == \A x \in t.down : x \in s.down /\ (x \in s.lost => x \in t.lost)

Quiet(s, t) == s.viewOnly => t.down = s.down /\ t.lost = s.lost

LEMMA ServerGetsIs ==
    ASSUME NEW s \in Client, NEW key \in ServerKeys, NEW down \in BOOLEAN
    PROVE  LET t == ServerGets(s, key, down)
           IN /\ t \in Client /\ SameList(s, t) /\ t.known = s.known
              /\ down => t.down = s.down \cup {key} /\ t.lost = s.lost
              /\ ~down => t.down = s.down \ {key} /\ t.lost = s.lost \ {key}
<1> DEFINE hit == {l \in Locks : key \in {l, LockKey(l)} /\ key \notin s.down}
           flipped == [l \in Locks |-> IF l \in hit THEN Flip(s.lock[l]) ELSE s.lock[l]]
<1>1. flipped \in Lock
    BY DEF Lock, Flip, Client
<1>2. CASE down
  <2>1. ServerGets(s, key, down) =
            [s EXCEPT !.down = @ \cup {key}, !.report = @ \/ hit # {}, !.lock = flipped]
      BY <1>2 DEF ServerGets
  <2>2. (s.report \/ hit # {}) \in BOOLEAN /\ s.down \cup {key} \in SUBSET ServerKeys
      BY DEF Client
  <2> HIDE DEF hit, flipped
  <2> QED
      BY <1>1, <1>2, <2>1, <2>2 DEF SameList, Client
<1>3. CASE ~down
    BY <1>3 DEF ServerGets, SameList, Client
<1> QED
    BY <1>2, <1>3

LEMMA SendKeyIs ==
    ASSUME ExtendedOK, NEW s \in Client, NEW keysym \in Named, NEW code \in Sent,
           NEW down \in BOOLEAN
    PROVE  LET t == SendKey(s, keysym, code, down)
               key == AtServer(keysym, code)
           IN /\ t \in Client /\ SameList(s, t) /\ t.known = s.known
              /\ s.viewOnly => t = s
              /\ down => t.down \subseteq s.down \cup {key} /\ t.lost = s.lost
              /\ ~down /\ ~s.viewOnly => t.down = s.down \ {key} /\ t.lost = s.lost \ {key}
<1> DEFINE key == AtServer(keysym, code)
<1>1. CASE s.viewOnly \/ (~ByCode(code) /\ keysym = None)
  <2>1. SendKey(s, keysym, code, down) = s
      BY <1>1 DEF SendKey
  <2>2. ~s.viewOnly => key = None
      BY <1>1 DEF AtServer
  <2>3. None \notin s.down /\ None \notin s.lost
      BY DEF Client, ServerKeys, Keysyms, Codes, Locks, Shifts, None
  <2>4. ~s.viewOnly => s.down = s.down \ {key} /\ s.lost = s.lost \ {key}
      BY <2>2, <2>3
  <2> HIDE DEF key
  <2> QED
      BY <2>1, <2>4 DEF SameList, key
<1>2. CASE ~(s.viewOnly \/ (~ByCode(code) /\ keysym = None))
  <2>1. SendKey(s, keysym, code, down) = ServerGets(s, key, down)
      BY <1>2 DEF SendKey
  <2>2. key \in ServerKeys
      BY <1>2 DEF AtServer, ServerKeys, Named, Sent, Keysyms
  <2> DEFINE t == ServerGets(s, key, down)
  <2> HIDE DEF key
  <2>3. /\ t \in Client /\ SameList(s, t) /\ t.known = s.known
        /\ down => t.down = s.down \cup {key} /\ t.lost = s.lost
        /\ ~down => t.down = s.down \ {key} /\ t.lost = s.lost \ {key}
      BY <2>2, ServerGetsIs
  <2> HIDE DEF t
  <2>4. /\ t \in Client /\ SameList(s, t) /\ t.known = s.known
        /\ s.viewOnly => t = s
        /\ down => t.down \subseteq s.down \cup {key} /\ t.lost = s.lost
        /\ ~down /\ ~s.viewOnly => t.down = s.down \ {key} /\ t.lost = s.lost \ {key}
      BY <1>2, <2>3
  <2> QED
      BY <2>1, <2>4 DEF key, t
<1> QED
    BY <1>1, <1>2

LEMMA PressIs ==
    ASSUME ExtendedOK, NEW s \in Client, NEW keysym \in Named, NEW code \in Sent
    PROVE  LET t == SendKey(SendKey(s, keysym, code, TRUE), keysym, code, FALSE)
           IN t \in Client /\ SameList(s, t) /\ Shrinks(s, t) /\ Quiet(s, t)
<1> DEFINE key == AtServer(keysym, code)
           t1 == SendKey(s, keysym, code, TRUE)
           t2 == SendKey(t1, keysym, code, FALSE)
<1>1. /\ t1 \in Client /\ SameList(s, t1)
      /\ s.viewOnly => t1 = s
      /\ t1.down \subseteq s.down \cup {key} /\ t1.lost = s.lost
    BY SendKeyIs
<1> HIDE DEF t1
<1>2. /\ t2 \in Client /\ SameList(t1, t2)
      /\ t1.viewOnly => t2 = t1
      /\ ~t1.viewOnly => t2.down = t1.down \ {key} /\ t2.lost = t1.lost \ {key}
    BY <1>1, SendKeyIs
<1> HIDE DEF t2, key
<1>3. SameList(s, t2) /\ Shrinks(s, t2) /\ Quiet(s, t2)
    BY <1>1, <1>2 DEF SameList, Shrinks, Quiet
<1> QED
    BY <1>2, <1>3 DEF t1, t2

----------------------------------------------------------------------------
(***************************************************************************)
(* A key event, and the presses of lock keys in front of it.               *)
(***************************************************************************)

LEMMA SyncLockIs ==
    ASSUME ExtendedOK, NEW s \in Client, NEW l \in Locks, NEW code \in Codes,
           NEW state, NEW down \in BOOLEAN
    PROVE  LET t == SyncLock(s, l, code, state, down)
           IN t \in Client /\ SameList(s, t) /\ Shrinks(s, t) /\ Quiet(s, t)
<1> DEFINE r == IF code = l /\ down THEN [s EXCEPT !.known[l] = None] ELSE s
           t2 == SendKey(SendKey(r, LockKey(l), l, TRUE), LockKey(l), l, FALSE)
<1>1. r \in Client /\ SameList(s, r) /\ r.down = s.down /\ r.lost = s.lost
    BY DEF Client, SameList
<1>2. LockKey(l) \in Named /\ l \in Sent
    BY DEF LockKey, Named, Keysyms, Sent, Codes
<1> HIDE DEF r
<1>4. t2 \in Client /\ SameList(r, t2) /\ Shrinks(r, t2) /\ Quiet(r, t2)
    BY <1>1, <1>2, PressIs
<1> HIDE DEF t2
<1>5. SameList(s, t2) /\ Shrinks(s, t2) /\ Quiet(s, t2)
    BY <1>1, <1>4 DEF SameList, Shrinks, Quiet
<1>6. Shrinks(s, r) /\ Quiet(s, r)
    BY <1>1 DEF Shrinks, Quiet
<1>7. [t2 EXCEPT !.known[l] = None] \in Client
    BY <1>4 DEF Client
<1>8. LET u == [t2 EXCEPT !.known[l] = None]
      IN SameList(t2, u) /\ u.down = t2.down /\ u.lost = t2.lost
    BY <1>4 DEF Client, SameList
<1>9. \/ SyncLock(s, l, code, state, down) = r
      \/ SyncLock(s, l, code, state, down) = [t2 EXCEPT !.known[l] = None]
    BY DEF SyncLock, r, t2
<1> QED
    BY <1>1, <1>5, <1>6, <1>7, <1>8, <1>9 DEF SameList, Shrinks, Quiet

LEMMA HandleKeyEventIs ==
    ASSUME ExtendedOK, NEW s \in Client, NEW keysym \in Named, NEW code \in Codes,
           NEW down \in BOOLEAN, NEW locks
    PROVE  LET t == HandleKeyEvent(s, keysym, code, down, locks)
               key == AtServer(keysym, code)
           IN /\ t \in Client /\ SameList(s, t) /\ Quiet(s, t)
              /\ \A x \in t.down : x = key \/ (x \in s.down /\ (x \in s.lost => x \in t.lost))
              /\ ~down => Shrinks(s, t)
              /\ ~down /\ ~s.viewOnly => key \notin t.down
<1> DEFINE s1 == SyncLock(s, "CapsLock", code, locks["CapsLock"], down)
           s2 == SyncLock(s1, "NumLock", code, locks["NumLock"], down)
           key == AtServer(keysym, code)
           t == SendKey(s2, keysym, code, down)
<1>1. s1 \in Client /\ SameList(s, s1) /\ Shrinks(s, s1) /\ Quiet(s, s1)
    BY SyncLockIs DEF Locks
<1> HIDE DEF s1
<1>2. s2 \in Client /\ SameList(s1, s2) /\ Shrinks(s1, s2) /\ Quiet(s1, s2)
    BY <1>1, SyncLockIs DEF Locks
<1> HIDE DEF s2, key
<1>3. /\ t \in Client /\ SameList(s2, t)
      /\ s2.viewOnly => t = s2
      /\ down => t.down \subseteq s2.down \cup {key} /\ t.lost = s2.lost
      /\ ~down /\ ~s2.viewOnly => t.down = s2.down \ {key} /\ t.lost = s2.lost \ {key}
    BY <1>2, SendKeyIs DEF key, Sent
<1>4. HandleKeyEvent(s, keysym, code, down, locks) = t
    BY DEF HandleKeyEvent, t, s2, s1
<1> HIDE DEF t
<1>5. SameList(s, s2) /\ Shrinks(s, s2) /\ Quiet(s, s2)
    BY <1>1, <1>2 DEF SameList, Shrinks, Quiet
<1>6. SameList(s, t) /\ Quiet(s, t)
    BY <1>3, <1>5 DEF SameList, Quiet
<1>7. CASE down
    BY <1>3, <1>4, <1>5, <1>6, <1>7 DEF Shrinks, key
<1>8. CASE ~down
  <2>1. Shrinks(s, t) /\ (~s.viewOnly => key \notin t.down)
      BY <1>3, <1>5, <1>8 DEF Shrinks, SameList
  <2> QED
      BY <1>3, <1>4, <1>6, <1>8, <2>1 DEF Shrinks, key
<1> QED
    BY <1>7, <1>8

----------------------------------------------------------------------------
(***************************************************************************)
(* The list of keys that are down.                                         *)
(***************************************************************************)

\* A key that is down is sent down again only under its name.
LEMMA SendsDown ==
    ASSUME NEW s \in Client, NEW keysym \in Named, NEW code \in Codes, NEW locks,
           ExtendedOK, Covered(s), s.list[code] = Up \/ s.list[code] = keysym
    PROVE  LET t == SendKeyEvent(s, keysym, code, TRUE, locks)
           IN /\ t \in Client /\ Covered(t) /\ Quiet(s, t)
              /\ t.list = Put(s.list, code, keysym)
              /\ t.armed = s.armed /\ t.viewOnly = s.viewOnly
<1> DEFINE r == [s EXCEPT !.list[code] = keysym]
           t == HandleKeyEvent(r, keysym, code, TRUE, locks)
           key == AtServer(keysym, code)
<1>1. /\ r \in Client /\ r.list = Put(s.list, code, keysym)
      /\ r.down = s.down /\ r.lost = s.lost /\ r.armed = s.armed /\ r.viewOnly = s.viewOnly
    BY DEF Client, Named, Put
<1>2. keysym # Up
    BY DEF Named, Keysyms, None, Up
<1>3. Tracked(s) \cup {key} \subseteq Tracked(r)
  <2>1. \A k \in Codes : s.list[k] # Up => r.list[k] = s.list[k]
      BY <1>1 DEF Client, Put
  <2>2. r.list[code] = keysym
      BY <1>1 DEF Client, Put
  <2> HIDE DEF r
  <2> QED
      BY <1>2, <2>1, <2>2 DEF Tracked
<1> HIDE DEF r, key
<1>4. /\ t \in Client /\ SameList(r, t) /\ Quiet(r, t)
      /\ \A x \in t.down : x = key \/ (x \in r.down /\ (x \in r.lost => x \in t.lost))
    BY <1>1, HandleKeyEventIs DEF key
<1>5. SendKeyEvent(s, keysym, code, TRUE, locks) = t
    BY DEF SendKeyEvent, r, t
<1> HIDE DEF t
<1>6. Tracked(t) = Tracked(r)
    BY <1>4 DEF Tracked, SameList
<1>7. Covered(t)
    BY <1>1, <1>3, <1>4, <1>6 DEF Covered
<1> QED
    BY <1>1, <1>4, <1>5, <1>7 DEF SameList, Quiet

\* The release goes out under the name of the press, and is the last of the key.
LEMMA SendsUp ==
    ASSUME NEW s \in Client, NEW keysym \in Named \cup {Up}, NEW code \in Codes, NEW locks,
           ExtendedOK, Covered(s), Takes(s), s.list[code] = Up \/ s.list[code] = keysym
    PROVE  LET t == SendKeyEvent(s, keysym, code, FALSE, locks)
           IN /\ t \in Client /\ Covered(t)
              /\ t.list = Put(s.list, code, Up)
              /\ t.armed = s.armed /\ t.viewOnly = s.viewOnly
<1>1. CASE s.list[code] = Up
  <2>1. SendKeyEvent(s, keysym, code, FALSE, locks) = s
      BY <1>1 DEF SendKeyEvent
  <2>2. s.list = Put(s.list, code, Up)
      BY <1>1 DEF Client, Put
  <2> QED
      BY <2>1, <2>2
<1>2. CASE s.list[code] # Up
  <2> DEFINE r == [s EXCEPT !.list[code] = Up]
             t == HandleKeyEvent(r, keysym, code, FALSE, locks)
             key == AtServer(keysym, code)
  <2>1. /\ r \in Client /\ r.list = Put(s.list, code, Up)
        /\ r.down = s.down /\ r.lost = s.lost /\ r.armed = s.armed /\ r.viewOnly = s.viewOnly
      BY DEF Client, Put
  <2>2. keysym \in Named /\ keysym = s.list[code]
      BY <1>2 DEF Client, Named
  <2>3. Tracked(s) \subseteq Tracked(r) \cup {key}
    <3>1. \A k \in Codes : k # code => r.list[k] = s.list[k]
        BY <2>1 DEF Client, Put
    <3> HIDE DEF r
    <3> QED
        BY <2>2, <3>1 DEF Tracked
  <2> HIDE DEF r, key
  <2>4. /\ t \in Client /\ SameList(r, t) /\ Shrinks(r, t) /\ key \notin t.down
      BY <2>1, <2>2, HandleKeyEventIs DEF key, Takes
  <2>5. SendKeyEvent(s, keysym, code, FALSE, locks) = t
      BY <1>2 DEF SendKeyEvent, r, t
  <2> HIDE DEF t
  <2>6. Tracked(t) = Tracked(r)
      BY <2>4 DEF Tracked, SameList
  <2>7. Covered(t)
      BY <2>1, <2>3, <2>4, <2>6 DEF Covered, Shrinks
  <2> QED
      BY <2>1, <2>4, <2>5, <2>7 DEF SameList
<1> QED
    BY <1>1, <1>2

LEMMA Clicks ==
    ASSUME NEW s \in Client, NEW keysym \in Named, NEW code \in Codes, NEW locks,
           ExtendedOK, Covered(s), Takes(s), s.list[code] = Up \/ s.list[code] = keysym
    PROVE  LET t == Click(s, keysym, code, locks)
           IN /\ t \in Client /\ Covered(t)
              /\ t.list = Put(s.list, code, Up)
              /\ t.armed = s.armed /\ t.viewOnly = s.viewOnly
<1> DEFINE r == SendKeyEvent(s, keysym, code, TRUE, locks)
           t == SendKeyEvent(r, keysym, code, FALSE, locks)
<1>1. /\ r \in Client /\ Covered(r) /\ r.list = Put(s.list, code, keysym)
      /\ r.armed = s.armed /\ r.viewOnly = s.viewOnly
    BY SendsDown, ZenonT(60)
<1> HIDE DEF r
<1>2. (r.list[code] = Up \/ r.list[code] = keysym) /\ Takes(r)
    BY <1>1 DEF Client, Put, Takes
<1>3. /\ t \in Client /\ Covered(t) /\ t.list = Put(r.list, code, Up)
      /\ t.armed = r.armed /\ t.viewOnly = r.viewOnly
  <2>1. keysym \in Named \cup {Up}
      OBVIOUS
  <2> QED
      BY <1>1, <1>2, <2>1, SendsUp, ZenonT(60)
<1>4. Click(s, keysym, code, locks) = t
    BY DEF Click, r, t
<1> HIDE DEF t
<1>5. Put(r.list, code, Up) = Put(s.list, code, Up)
    BY <1>1 DEF Client, Put
<1> QED
    BY <1>1, <1>3, <1>4, <1>5

----------------------------------------------------------------------------
(***************************************************************************)
(* The handlers.                                                           *)
(***************************************************************************)

LEMMA PutIs ==
    ASSUME NEW s \in Client, NEW code \in Codes, NEW v
    PROVE  /\ Put(s.list, code, v)[code] = v
           /\ \A k \in Codes : k # code => Put(s.list, code, v)[k] = s.list[k]
  BY DEF Client, Put

\* A list entry changed, of a key that may stay down: the rest of Safe is kept.
LEMMA StillSafe ==
    ASSUME NEW s, NEW t \in Client, NEW code \in Codes, NEW v, Safe(s), Covered(t),
           t.list = Put(s.list, code, v), ~t.armed,
           v = Up \/ (code # "Unidentified" /\ ~(platform = "mac" /\ code = "CapsLock"))
    PROVE  Safe(t)
<1>1. s \in Client
    BY DEF Safe
<1>2. "Unidentified" \in Codes /\ "CapsLock" \in Codes
    BY DEF Codes, Locks
<1>3. t.list["Unidentified"] = Up
  <2>1. CASE code = "Unidentified"
      BY <1>1, <2>1, PutIs
  <2>2. CASE code # "Unidentified"
    <3>1. t.list["Unidentified"] = s.list["Unidentified"]
        BY <1>1, <1>2, <2>2 DEF Put, Client
    <3> QED
        BY <3>1 DEF Safe
  <2> QED
      BY <2>1, <2>2
<1>4. platform = "mac" => t.list["CapsLock"] = Up
  <2>1. CASE code = "CapsLock"
      BY <1>1, <2>1, PutIs
  <2>2. CASE code # "CapsLock"
    <3>1. t.list["CapsLock"] = s.list["CapsLock"]
        BY <1>1, <1>2, <2>2 DEF Put, Client
    <3> QED
        BY <3>1 DEF Safe
  <2> QED
      BY <2>1, <2>2
<1> QED
    BY <1>3, <1>4 DEF Safe

LEMMA Disarmed ==
    ASSUME NEW s, Safe(s)
    PROVE  LET t == [s EXCEPT !.armed = FALSE]
           IN /\ t \in Client /\ Safe(t) /\ ~t.armed
              /\ t.list = s.list /\ t.viewOnly = s.viewOnly /\ t.down = s.down /\ t.lost = s.lost
<1> DEFINE t == [s EXCEPT !.armed = FALSE]
<1>1. /\ t \in Client /\ ~t.armed /\ t.list = s.list /\ t.viewOnly = s.viewOnly
      /\ t.down = s.down /\ t.lost = s.lost
    BY DEF Safe, Client
<1> HIDE DEF t
<1>2. Covered(t)
    BY <1>1 DEF Safe, Covered, Tracked
<1>3. Safe(t)
    BY <1>1, <1>2 DEF Safe
<1> QED
    BY <1>1, <1>3 DEF t

\* The Ctrl that was held back is sent now.
LEMMA CtrlSent ==
    ASSUME ExtendedOK, NEW s, Safe(s), s.armed, NEW locks
    PROVE  LET t == SendKeyEvent([s EXCEPT !.armed = FALSE], "Control_L", "ControlLeft", TRUE, locks)
           IN /\ t \in Client /\ Safe(t) /\ Quiet(s, t) /\ ~t.armed /\ t.viewOnly = s.viewOnly
              /\ t.list = Put(s.list, "ControlLeft", "Control_L")
<1> DEFINE r == [s EXCEPT !.armed = FALSE]
           t == SendKeyEvent(r, "Control_L", "ControlLeft", TRUE, locks)
<1>1. /\ r \in Client /\ Safe(r) /\ ~r.armed
      /\ r.list = s.list /\ r.viewOnly = s.viewOnly /\ r.down = s.down /\ r.lost = s.lost
    BY Disarmed
<1> HIDE DEF r
<1>2. "Control_L" \in Named /\ "ControlLeft" \in Codes
    BY DEF Named, Keysyms, Codes
<1>3. Covered(r) /\ (r.list["ControlLeft"] = Up \/ r.list["ControlLeft"] = "Control_L")
    BY <1>1 DEF Safe
<1>4. /\ t \in Client /\ Covered(t) /\ Quiet(r, t)
      /\ t.list = Put(r.list, "ControlLeft", "Control_L")
      /\ t.armed = r.armed /\ t.viewOnly = r.viewOnly
    BY <1>1, <1>2, <1>3, SendsDown
<1> HIDE DEF t
<1>5. Quiet(s, t) /\ ~t.armed
    BY <1>1, <1>4 DEF Quiet
<1>6. Safe(t)
    BY <1>1, <1>2, <1>4, <1>5, StillSafe
<1> QED
    BY <1>1, <1>4, <1>5, <1>6 DEF t, r

LEMMA Interrupts ==
    ASSUME ExtendedOK, NEW s, Safe(s)
    PROVE  LET t == InterruptAltGrSequence(s)
           IN t \in Client /\ Safe(t) /\ Quiet(s, t) /\ ~t.armed /\ t.viewOnly = s.viewOnly
<1>1. CASE s.armed
  <2>1. InterruptAltGrSequence(s) =
            SendKeyEvent([s EXCEPT !.armed = FALSE], "Control_L", "ControlLeft", TRUE, Unknown)
      BY <1>1 DEF InterruptAltGrSequence
  <2> QED
      BY <1>1, <2>1, CtrlSent
<1>2. CASE ~s.armed
    BY <1>2 DEF InterruptAltGrSequence, Safe, Quiet
<1> QED
    BY <1>1, <1>2

LEMMA Ends ==
    ASSUME ExtendedOK, NEW s, Safe(s), NEW e, NEW code
    PROVE  LET t == EndAltGr(s, e, code)
           IN /\ t \in Client /\ Safe(t) /\ ~t.armed /\ t.viewOnly = s.viewOnly
              /\ \/ t.list = s.list
                 \/ s.armed /\ t.list = Put(s.list, "ControlLeft", "Control_L")
<1>1. CASE s.armed /\ ~(code = "AltRight" /\ e.quick)
    BY <1>1, CtrlSent DEF EndAltGr
<1>2. CASE ~(s.armed /\ ~(code = "AltRight" /\ e.quick))
    BY <1>2, Disarmed DEF EndAltGr
<1> QED
    BY <1>1, <1>2

\* Of a key event the handlers need no more than this.
EventOK(e) ==
    /\ e.keysym \in Named
    /\ GetKeyCode(e) \in Codes
    /\ GetKeyCode(e) = "ControlLeft" => e.keysym = "Control_L"

\* A key keeps the name it was pressed with: also the Ctrl that was just sent.
LEMMA Names ==
    ASSUME ExtendedOK, NEW s, Safe(s), NEW e, EventOK(e)
    PROVE  LET code == GetKeyCode(e)
               keysym == KeysymFor(s, e, code)
               t == EndAltGr(s, e, code)
           IN keysym \in Named /\ (t.list[code] = Up \/ t.list[code] = keysym)
<1> DEFINE code == GetKeyCode(e)
           keysym == KeysymFor(s, e, code)
           t == EndAltGr(s, e, code)
<1>1. s \in Client /\ code \in Codes /\ e.keysym \in Named
    BY DEF Safe, EventOK
<1>2. code = "ControlLeft" => e.keysym = "Control_L"
    BY DEF EventOK
<1> HIDE DEF code
<1>3. \/ t.list = s.list
      \/ s.armed /\ t.list = Put(s.list, "ControlLeft", "Control_L")
    BY Ends
<1> HIDE DEF t
<1>4. keysym \in Named
  <2>1. CASE s.list[code] # Up
      BY <1>1, <2>1 DEF KeysymFor, Client, Named
  <2>2. CASE s.list[code] = Up
      BY <1>1, <2>2 DEF KeysymFor, Shuffle, Named, Keysyms
  <2> QED
      BY <2>1, <2>2
<1>5. s.list[code] = Up \/ s.list[code] = keysym
    BY DEF KeysymFor
<1>6. s.armed /\ code = "ControlLeft" => keysym = "Control_L"
    BY <1>2 DEF Safe, KeysymFor, Shuffle
<1>7. CASE t.list = s.list
    BY <1>4, <1>5, <1>7 DEF code, t
<1>8. CASE s.armed /\ t.list = Put(s.list, "ControlLeft", "Control_L")
  <2>1. "ControlLeft" \in Codes
      BY DEF Codes
  <2>2. CASE code = "ControlLeft"
    <3>1. t.list[code] = "Control_L"
        BY <1>1, <1>8, <2>2 DEF Put, Client
    <3> QED
        BY <1>4, <1>6, <1>8, <2>2, <3>1 DEF code, t
  <2>3. CASE code # "ControlLeft"
    <3>1. t.list[code] = s.list[code]
        BY <1>1, <1>8, <2>1, <2>3 DEF Put, Client
    <3> QED
        BY <1>4, <1>5, <3>1 DEF code, t
  <2> QED
      BY <2>2, <2>3
<1> QED
    BY <1>3, <1>7, <1>8

LEMMA ClickSafe ==
    ASSUME ExtendedOK, NEW s \in Client, Safe(s), Takes(s), ~s.armed, NEW keysym \in Named,
           NEW code \in Codes, NEW locks, s.list[code] = Up \/ s.list[code] = keysym
    PROVE  LET t == Click(s, keysym, code, locks) IN Safe(t) /\ t.viewOnly = s.viewOnly
<1> DEFINE t == Click(s, keysym, code, locks)
<1>1. Covered(s)
    BY DEF Safe
<1>2. /\ t \in Client /\ Covered(t) /\ t.list = Put(s.list, code, Up)
      /\ t.armed = s.armed /\ t.viewOnly = s.viewOnly
    BY <1>1, Clicks
<1> HIDE DEF t
<1>3. ~t.armed
    BY <1>2
<1>4. Safe(t)
    BY <1>2, <1>3, StillSafe
<1> QED
    BY <1>2, <1>4 DEF t

LEMMA KeyDownSafe ==
    ASSUME ExtendedOK, NEW s, Safe(s), Takes(s), NEW e, EventOK(e)
    PROVE  LET t == KeyDownHandler(s, e) IN Safe(t) /\ t.viewOnly = s.viewOnly
<1> DEFINE code == GetKeyCode(e)
           keysym == KeysymFor(s, e, code)
           t == EndAltGr(s, e, code)
           u == KeyDownHandler(s, e)
<1>1. keysym \in Named /\ (t.list[code] = Up \/ t.list[code] = keysym)
    BY Names
<1>2. code \in Codes /\ e.keysym \in Named
    BY DEF EventOK
<1>3. t \in Client /\ Safe(t) /\ ~t.armed /\ t.viewOnly = s.viewOnly
    BY Ends
<1>4. \/ u = t
      \/ code = "Unidentified" /\ u = Click(t, e.keysym, code, e.locks)
      \/ u = Click(t, keysym, code, e.locks)
      \/ platform = "mac" /\ code = "CapsLock" /\ u = Click(t, "Caps_Lock", code, e.locks)
      \/ code = "ControlLeft" /\ t.list[code] = Up /\ u = [t EXCEPT !.armed = TRUE]
      \/ /\ code # "Unidentified" /\ ~(platform = "mac" /\ code = "CapsLock")
         /\ u = SendKeyEvent(t, keysym, code, TRUE, e.locks)
    BY DEF KeyDownHandler
<1> HIDE DEF code, keysym, t, u
<1>5. Takes(t)
    BY <1>3 DEF Takes
<1>6. CASE u = t
    BY <1>3, <1>6 DEF u
<1>7. CASE code = "Unidentified" /\ u = Click(t, e.keysym, code, e.locks)
  <2>1. t.list[code] = Up \/ t.list[code] = e.keysym
      BY <1>3, <1>7 DEF Safe
  <2>2. Safe(u) /\ u.viewOnly = t.viewOnly
      BY <1>2, <1>3, <1>5, <1>7, <2>1, ClickSafe
  <2> QED
      BY <1>3, <2>2 DEF u
<1>8. CASE u = Click(t, keysym, code, e.locks)
  <2>1. Safe(u) /\ u.viewOnly = t.viewOnly
      BY <1>1, <1>2, <1>3, <1>5, <1>8, ClickSafe
  <2> QED
      BY <1>3, <2>1 DEF u
<1>9. CASE platform = "mac" /\ code = "CapsLock" /\ u = Click(t, "Caps_Lock", code, e.locks)
  <2>1. "Caps_Lock" \in Named /\ (t.list[code] = Up \/ t.list[code] = "Caps_Lock")
      BY <1>3, <1>9 DEF Safe, Named, Keysyms
  <2>2. Safe(u) /\ u.viewOnly = t.viewOnly
      BY <1>2, <1>3, <1>5, <1>9, <2>1, ClickSafe
  <2> QED
      BY <1>3, <2>2 DEF u
<1>10. CASE code = "ControlLeft" /\ t.list[code] = Up /\ u = [t EXCEPT !.armed = TRUE]
  <2>1. /\ u \in Client /\ u.list = t.list /\ u.down = t.down /\ u.lost = t.lost
        /\ u.viewOnly = t.viewOnly
      BY <1>3, <1>10 DEF Client
  <2>2. Covered(u)
      BY <1>3, <2>1 DEF Safe, Covered, Tracked
  <2>3. /\ u.list["Unidentified"] = Up /\ u.list["ControlLeft"] = Up
        /\ platform = "mac" => u.list["CapsLock"] = Up
    <3>1. /\ t.list["Unidentified"] = Up
          /\ platform = "mac" => t.list["CapsLock"] = Up
        BY <1>3 DEF Safe
    <3> QED
        BY <1>10, <2>1, <3>1
  <2>4. Safe(u)
      BY <2>1, <2>2, <2>3 DEF Safe
  <2> QED
    <3>1. u.viewOnly = s.viewOnly
        BY <1>3, <2>1
    <3> QED
        BY <2>4, <3>1 DEF u
<1>11. CASE /\ code # "Unidentified" /\ ~(platform = "mac" /\ code = "CapsLock")
            /\ u = SendKeyEvent(t, keysym, code, TRUE, e.locks)
  <2>1. Covered(t)
      BY <1>3 DEF Safe
  <2>2. /\ u \in Client /\ Covered(u) /\ u.list = Put(t.list, code, keysym)
        /\ u.armed = t.armed /\ u.viewOnly = t.viewOnly
      BY <1>1, <1>2, <1>3, <1>11, <2>1, SendsDown, ZenonT(40)
  <2>3. ~u.armed
      BY <1>3, <2>2
  <2>4. Safe(u)
      BY <1>2, <1>3, <1>11, <2>2, <2>3, StillSafe
  <2> QED
      BY <1>3, <2>2, <2>4 DEF u
<1> QED
    BY <1>4, <1>6, <1>7, <1>8, <1>9, <1>10, <1>11

LEMMA UpSafe ==
    ASSUME ExtendedOK, NEW s \in Client, Safe(s), Takes(s), ~s.armed, NEW code \in Codes
    PROVE  LET t == SendKeyEvent(s, s.list[code], code, FALSE, Unknown)
           IN t \in Client /\ Safe(t) /\ Takes(t) /\ ~t.armed /\ t.viewOnly = s.viewOnly
<1> DEFINE v == s.list[code]
           t == SendKeyEvent(s, v, code, FALSE, Unknown)
<1>1. v \in Named \cup {Up}
    BY DEF Client, Named
<1>2. Covered(s) /\ (s.list[code] = Up \/ s.list[code] = v)
    BY DEF Safe
<1> HIDE DEF v
<1>3. /\ t \in Client /\ Covered(t) /\ t.list = Put(s.list, code, Up)
      /\ t.armed = s.armed /\ t.viewOnly = s.viewOnly
    BY <1>1, <1>2, SendsUp
<1> HIDE DEF t
<1>4. ~t.armed /\ Takes(t)
    BY <1>3 DEF Takes
<1>5. Safe(t)
    BY <1>3, <1>4, StillSafe
<1> QED
    BY <1>3, <1>4, <1>5 DEF t, v

LEMMA KeyUpSafe ==
    ASSUME ExtendedOK, NEW s, Safe(s), Takes(s), NEW e, EventOK(e)
    PROVE  LET t == KeyUpHandler(s, e) IN Safe(t) /\ t.viewOnly = s.viewOnly
<1> DEFINE up(r, k) == SendKeyEvent(r, r.list[k], k, FALSE, Unknown)
           code == GetKeyCode(e)
           t == InterruptAltGrSequence(s)
           u == KeyUpHandler(s, e)
           t1 == up(t, code)
           t2 == up(t1, "ShiftRight")
           t3 == up(t2, "ShiftLeft")
<1>1. t \in Client /\ Safe(t) /\ ~t.armed /\ t.viewOnly = s.viewOnly
    BY Interrupts
<1>2. code \in Codes /\ "ShiftRight" \in Codes /\ "ShiftLeft" \in Codes
    BY DEF EventOK, Codes, Shifts
<1>3. \/ platform = "mac" /\ code = "CapsLock" /\ u = Click(t, "Caps_Lock", code, Unknown)
      \/ u = t1
      \/ u = t3
    BY DEF KeyUpHandler
<1> HIDE DEF t, u, code
<1>4. Takes(t)
    BY <1>1 DEF Takes
<1>5. t1 \in Client /\ Safe(t1) /\ Takes(t1) /\ ~t1.armed /\ t1.viewOnly = t.viewOnly
    BY <1>1, <1>2, <1>4, UpSafe
<1> HIDE DEF t1
<1>6. t2 \in Client /\ Safe(t2) /\ Takes(t2) /\ ~t2.armed /\ t2.viewOnly = t1.viewOnly
    BY <1>2, <1>5, UpSafe
<1> HIDE DEF t2
<1>7. Safe(t3) /\ t3.viewOnly = t2.viewOnly
    BY <1>2, <1>6, UpSafe
<1> HIDE DEF t3
<1>8. CASE platform = "mac" /\ code = "CapsLock" /\ u = Click(t, "Caps_Lock", code, Unknown)
  <2>1. "Caps_Lock" \in Named /\ (t.list[code] = Up \/ t.list[code] = "Caps_Lock")
      BY <1>1, <1>8 DEF Safe, Named, Keysyms
  <2>2. Safe(u) /\ u.viewOnly = t.viewOnly
      BY <1>1, <1>2, <1>4, <1>8, <2>1, ClickSafe
  <2> QED
      BY <1>1, <2>2 DEF u
<1>9. CASE u = t1
    BY <1>1, <1>5, <1>9 DEF u
<1>10. CASE u = t3
    BY <1>1, <1>5, <1>6, <1>7, <1>10 DEF u
<1> QED
    BY <1>3, <1>8, <1>9, <1>10

\* Every key of the list is released, unless nothing is sent any more.
LEMMA AllUp ==
    ASSUME ExtendedOK, NEW s, Safe(s)
    PROVE  LET t == AllKeysUp(s)
           IN /\ t \in Client /\ ~t.armed /\ t.viewOnly = s.viewOnly
              /\ \A k \in Codes : t.list[k] = Up
              /\ ~s.viewOnly => t.down \subseteq t.lost
              /\ Quiet(s, t)
<1> DEFINE r == InterruptAltGrSequence(s)
           none == [k \in Codes |-> Up]
           down == IF r.viewOnly THEN r.down ELSE r.down \ Tracked(r)
           lost == IF r.viewOnly THEN r.lost ELSE r.lost \ Tracked(r)
           t == [r EXCEPT !.list = none, !.down = down, !.lost = lost]
<1>1. r \in Client /\ Safe(r) /\ Quiet(s, r) /\ ~r.armed /\ r.viewOnly = s.viewOnly
    BY Interrupts
<1>2. AllKeysUp(s) = t
    BY DEF AllKeysUp
<1> HIDE DEF r
<1>3. down \in SUBSET ServerKeys /\ lost \in SUBSET ServerKeys
    BY <1>1 DEF Client
<1>4. ~r.viewOnly => down \subseteq lost
    BY <1>1 DEF Safe, Covered
<1>5. r.viewOnly => down = r.down /\ lost = r.lost
    OBVIOUS
<1>6. none \in [Codes -> Keysyms \cup {Up, None}] /\ \A k \in Codes : none[k] = Up
    OBVIOUS
<1> HIDE DEF down, lost, none
<1>7. /\ t \in Client /\ t.list = none /\ t.down = down /\ t.lost = lost
      /\ t.armed = r.armed /\ t.viewOnly = r.viewOnly
    BY <1>1, <1>3, <1>6 DEF Client
<1> HIDE DEF t
<1> QED
    BY <1>1, <1>2, <1>4, <1>5, <1>6, <1>7 DEF Quiet

LEMMA AllUpSafe ==
    ASSUME NEW s \in Client, ~s.armed, \A k \in Codes : s.list[k] = Up, s.down \subseteq s.lost
    PROVE  Safe(s)
  BY DEF Safe, Covered, Codes, Locks

----------------------------------------------------------------------------
(***************************************************************************)
(* The steps.                                                              *)
(***************************************************************************)

\* The code that a key's events are given.
CodeOf(k) == IF platform = "legacy" /\ k = "KeyA" THEN "Platform65" ELSE k

LEMMA EventIsOK ==
    ASSUME NEW k \in Physical, NEW locks, NEW quick
    PROVE  LET e == Event(k, locks, quick)
           IN /\ EventOK(e) /\ GetKeyCode(e) = CodeOf(k) /\ e.keysym = KeysymOf(k)
              /\ e.meta = ("MetaLeft" \in held \cup {k})
<1> DEFINE e == Event(k, locks, quick)
<1>1. Typed \in Named
    BY DEF Typed, Named, Keysyms
<1>2. KeysymOf(k) \in Named
    BY <1>1 DEF KeysymOf, Physical, Codes, Locks, Shifts, LockKey, Named, Keysyms
<1>3. /\ e.keysym = KeysymOf(k) /\ e.printable = (k = "KeyA")
      /\ e.code = IF platform = "legacy" \/ k = "Unidentified" THEN ""
                  ELSE IF k = "MetaLeft" THEN "OSLeft" ELSE k
      /\ e.vk = IF k \in {"KeyA", "Unidentified"} THEN "" ELSE IF k \in Shifts THEN "ShiftLeft" ELSE k
      /\ e.location = IF k = "ShiftRight" THEN 2 ELSE 1
    BY DEF Event
<1>7. e.meta = ("MetaLeft" \in held \cup {k})
    BY Zenon DEF Event
<1> HIDE DEF e
<1>4. GetKeyCode(e) = IF platform = "legacy" /\ k = "KeyA" THEN "Platform65" ELSE k
  <2>1. GetKeycode(e) = IF platform = "legacy" /\ k = "KeyA" THEN "Unidentified" ELSE k
    <3>1. CASE platform # "legacy" /\ k # "Unidentified"
      <4>1. CASE k = "MetaLeft"
          BY <1>3, <3>1, <4>1 DEF GetKeycode
      <4>2. CASE k # "MetaLeft"
        <5>1. e.code = k /\ k \notin {"", "OSLeft"}
            BY <1>3, <3>1, <4>2 DEF Physical, Codes, Locks, Shifts
        <5> QED
            BY <3>1, <5>1 DEF GetKeycode
      <4> QED
          BY <4>1, <4>2
    <3>2. CASE platform = "legacy" \/ k = "Unidentified"
      <4>1. e.code = ""
          BY <1>3, <3>2
      <4>2. CASE k \in {"KeyA", "Unidentified"}
          BY <1>3, <3>2, <4>1, <4>2 DEF GetKeycode
      <4>3. CASE k \in Shifts
        <5>1. e.vk = "ShiftLeft" /\ k \in {"ShiftLeft", "ShiftRight"}
            BY <1>3, <4>3 DEF Shifts
        <5>2. CASE k = "ShiftRight"
            BY <1>3, <4>1, <5>1, <5>2 DEF GetKeycode
        <5>3. CASE k = "ShiftLeft"
          <6>1. e.location # 2
            <7>1. e.location = 1
                BY <1>3, <5>3
            <7> QED
                BY <7>1
          <6>2. e.code = "" /\ e.vk # "" /\ e.vk = "ShiftLeft"
              BY <4>1, <5>1
          <6>3. GetKeycode(e) = "ShiftLeft"
              BY <6>1, <6>2 DEF GetKeycode
          <6> QED
              BY <5>3, <6>3
        <5> QED
            BY <5>1, <5>2, <5>3
      <4>4. CASE k \notin {"KeyA", "Unidentified"} \cup Shifts
        <5>1. e.vk = k /\ k # "" /\ k # "ShiftLeft" /\ e.location = 1
            BY <1>3, <4>4 DEF Physical, Codes, Locks, Shifts
        <5> QED
            BY <3>2, <4>1, <4>4, <5>1 DEF GetKeycode
      <4> QED
          BY <4>2, <4>3, <4>4
    <3> QED
        BY <3>1, <3>2
  <2> QED
      BY <1>3, <2>1 DEF GetKeyCode
<1>5. GetKeyCode(e) \in Codes
    BY <1>4 DEF Physical, Codes
<1>6. GetKeyCode(e) = "ControlLeft" => e.keysym = "Control_L"
    BY <1>3, <1>4 DEF KeysymOf, Locks
<1> QED
    BY <1>2, <1>3, <1>4, <1>5, <1>6, <1>7 DEF EventOK, CodeOf, e

LEMMA SameSafe ==
    ASSUME NEW s, NEW t \in Client, Safe(s), SameList(s, t), Shrinks(s, t)
    PROVE  Safe(t)
<1>1. Covered(t)
    BY DEF Safe, Covered, SameList, Shrinks, Tracked
<1> QED
    BY <1>1 DEF Safe, SameList

\* What the steps start from and have to restore.
LEMMA InvIs == Inv => TypeOK /\ Safe(c) /\ c \in Client /\ ExtendedOK
  BY DEF Inv, TypeOK, Safe, DownIsTracked, Covered, HeldBack, ClickedAreUp, ExtendedOK

\* The types of all but c.
Others ==
    /\ platform \in Platforms /\ extended \in BOOLEAN
    /\ held \subseteq Physical /\ muted \subseteq Codes /\ strayed \subseteq Codes
    /\ focus \in {"canvas", "page", "away"} /\ fake \in {"none", "first", "made"}
    /\ local \in Lock /\ leds \in Seq(Lock)

LEMMA IsInv ==
    ASSUME UNCHANGED environment, Others', Safe(c')
    PROVE  Inv'
<1>1. TypeOK'
    BY DEF Others, Safe, TypeOK
<1>2. Tracked(c)' = Tracked(c')
    BY DEF environment, Tracked, AtServer, ByCode, HasScancode
<1>3. DownIsTracked' /\ HeldBack' /\ ClickedAreUp'
    BY <1>2 DEF Safe, Covered, DownIsTracked, HeldBack, ClickedAreUp, environment
<1> QED
    BY <1>1, <1>3 DEF Inv

LEMMA InitInv == Init => Inv
<1> SUFFICES ASSUME Init PROVE Inv
    OBVIOUS
<1>1. c \in Client /\ c.down = {} /\ ~c.armed /\ \A k \in Codes : c.list[k] = Up
    BY DEF Init, Client, Lock
<1>2. DownIsTracked /\ HeldBack /\ ClickedAreUp
    BY <1>1 DEF DownIsTracked, HeldBack, ClickedAreUp, Codes, Locks
<1>3. TypeOK
    BY <1>1 DEF Init, TypeOK, Lock
<1> QED
    BY <1>2, <1>3 DEF Inv

\* What a key event leaves of the client, whether it is listened to or not.
LEMMA EventSafe ==
    ASSUME Inv, NEW k \in Physical, NEW locks, NEW quick, Listening
    PROVE  /\ Safe(KeyDownHandler(c, Event(k, locks, quick)))
           /\ Safe(KeyUpHandler(c, Event(k, locks, quick)))
           /\ KeyUpHandler(c, Event(k, locks, quick)).viewOnly = c.viewOnly
  BY InvIs, EventIsOK, KeyDownSafe, KeyUpSafe DEF Listening, Takes

LEMMA PressInv ==
    ASSUME Inv, NEW k \in Physical, NEW quick \in BOOLEAN, Press(k, quick),
           fake' \in {"none", "first", "made"}
    PROVE  Inv'
<1>1. TypeOK /\ Safe(c)
    BY InvIs
<1>2. UNCHANGED environment /\ Others'
  <2>1. Physical \subseteq Codes /\ local' \in Lock
      BY <1>1 DEF Press, TypeOK, Lock, Flip, Physical
  <2> QED
      BY <1>1, <2>1 DEF Press, TypeOK, Others, environment
<1>3. \/ c' = c
      \/ Listening /\ \E locks : \/ c' = KeyDownHandler(c, Event(k, locks, quick))
                                 \/ c' = KeyUpHandler(c, Event(k, locks, quick))
    BY DEF Press
<1>4. Safe(c')
    BY <1>1, <1>3, EventSafe
<1> QED
    BY <1>2, <1>4, IsInv

LEMMA ReleaseInv ==
    ASSUME Inv, NEW k \in Codes, ReleaseKey(k)
    PROVE  Inv'
<1> DEFINE ctrl == Event("ControlLeft", local, FALSE)
           s == IF k = "AltRight" /\ fake = "made" THEN KeyUpHandler(c, ctrl) ELSE c
<1>1. TypeOK /\ Safe(c) /\ ExtendedOK /\ k \in Physical /\ "ControlLeft" \in Physical
    BY InvIs DEF ReleaseKey, TypeOK, Physical, Codes
<1>2. UNCHANGED environment /\ Others'
    BY <1>1 DEF ReleaseKey, TypeOK, Others, environment, Codes
<1>3. c' = c \/ (Listening /\ c' = KeyUpHandler(s, Event(k, local, FALSE)))
    BY DEF ReleaseKey
<1>4. CASE Listening /\ c' = KeyUpHandler(s, Event(k, local, FALSE))
  <2>1. Safe(s) /\ s.viewOnly = c.viewOnly
      BY <1>1, <1>4, EventSafe
  <2> HIDE DEF s
  <2>2. Takes(s)
      BY <1>4, <2>1 DEF Takes, Listening
  <2>3. Safe(c')
      BY <1>1, <1>4, <2>1, <2>2, EventIsOK, KeyUpSafe
  <2> QED
      BY <1>2, <2>3, IsInv
<1> QED
    BY <1>1, <1>2, <1>3, <1>4, IsInv

LEMMA ViewOnlyInv ==
    ASSUME Inv, NEW v \in BOOLEAN, SetViewOnly(v)
    PROVE  Inv'
<1> DEFINE s == [c EXCEPT !.viewOnly = v]
           r == AllKeysUp(s)
           t == [r EXCEPT !.lost = s.down]
<1>1. TypeOK /\ Safe(c) /\ c \in Client /\ ExtendedOK
    BY InvIs
<1>2. UNCHANGED environment /\ Others'
    BY <1>1 DEF SetViewOnly, TypeOK, Others, environment
<1>3. /\ s \in Client /\ SameList([c EXCEPT !.viewOnly = v], s) /\ s.viewOnly = v
      /\ s.list = c.list /\ s.armed = c.armed /\ s.down = c.down /\ s.lost = c.lost
    BY <1>1 DEF Client, SameList
<1>4. c' = IF v THEN t ELSE s
    BY DEF SetViewOnly
<1> HIDE DEF s
<1>5. Safe(s)
  <2>1. Covered(s)
      BY <1>1, <1>3 DEF Safe, Covered, Tracked
  <2> QED
      BY <1>1, <1>3, <2>1 DEF Safe
<1>6. CASE v
  <2>1. /\ r \in Client /\ ~r.armed /\ \A k \in Codes : r.list[k] = Up
        /\ Quiet(s, r)
      BY <1>1, <1>5, AllUp
  <2> HIDE DEF r
  <2>2. /\ t \in Client /\ t.down = r.down /\ t.lost = s.down
        /\ t.list = r.list /\ t.armed = r.armed
      BY <1>3, <2>1 DEF Client
  <2> HIDE DEF t
  <2>3. t.down \subseteq t.lost
      BY <1>3, <1>6, <2>1, <2>2 DEF Quiet
  <2>4. Safe(t)
      BY <2>1, <2>2, <2>3, AllUpSafe
  <2> QED
      BY <1>2, <1>4, <1>6, <2>4, IsInv
<1>7. CASE ~v
    BY <1>2, <1>4, <1>5, <1>7, IsInv
<1> QED
    BY <1>6, <1>7

LEMMA BlurInv == Inv /\ WindowBlur => Inv'
<1> SUFFICES ASSUME Inv, WindowBlur PROVE Inv'
    OBVIOUS
<1>1. TypeOK /\ Safe(c) /\ ExtendedOK
    BY InvIs
<1>2. UNCHANGED environment /\ Others'
    BY <1>1 DEF WindowBlur, TypeOK, Others, environment
<1>3. CASE c.viewOnly
    BY <1>1, <1>2, <1>3, IsInv DEF WindowBlur
<1>4. CASE ~c.viewOnly
  <2> DEFINE t == AllKeysUp(c)
  <2>1. c' = t
      BY <1>4 DEF WindowBlur
  <2>2. t \in Client /\ ~t.armed /\ (\A k \in Codes : t.list[k] = Up) /\ t.down \subseteq t.lost
      BY <1>1, <1>4, AllUp
  <2> HIDE DEF t
  <2>3. Safe(t)
      BY <2>2, AllUpSafe
  <2> QED
      BY <1>2, <2>1, <2>3, IsInv
<1> QED
    BY <1>3, <1>4

LEMMA HoldIs ==
    ASSUME ExtendedOK, NEW s \in Client, NEW keysym \in Named, NEW code \in Sent
    PROVE  LET t == SendKey(s, keysym, code, TRUE)
           IN /\ t \in Client /\ SameList(s, t)
              /\ t.down \subseteq s.down \cup {AtServer(keysym, code)} /\ t.lost = s.lost
  BY SendKeyIs

\* The button's keys go up in the end, all three.
LEMMA ButtonInv == Inv /\ SendCtrlAltDel => Inv' /\ SameList(c, c')
<1> SUFFICES ASSUME Inv, SendCtrlAltDel PROVE Inv' /\ SameList(c, c')
    OBVIOUS
<1> DEFINE ctrl == AtServer("Control_L", "ControlLeft")
           alt == AtServer("Alt_L", "AltLeft")
           t1 == SendKey(c, "Control_L", "ControlLeft", TRUE)
           t2 == SendKey(t1, "Alt_L", "AltLeft", TRUE)
           t3 == SendKey(SendKey(t2, "Delete", "Delete", TRUE), "Delete", "Delete", FALSE)
           t4 == SendKey(t3, "Alt_L", "AltLeft", FALSE)
           t5 == SendKey(t4, "Control_L", "ControlLeft", FALSE)
<1>1. TypeOK /\ Safe(c) /\ c \in Client /\ ExtendedOK /\ ~c.viewOnly
    BY InvIs DEF SendCtrlAltDel
<1>2. UNCHANGED environment /\ Others' /\ c' = t5
    BY <1>1 DEF SendCtrlAltDel, TypeOK, Others, environment
<1>3. /\ "Control_L" \in Named /\ "Alt_L" \in Named /\ "Delete" \in Named
      /\ "ControlLeft" \in Sent /\ "AltLeft" \in Sent /\ "Delete" \in Sent
    BY DEF Named, Keysyms, Sent, Codes
<1>4. t1 \in Client /\ SameList(c, t1) /\ t1.down \subseteq c.down \cup {ctrl} /\ t1.lost = c.lost
    BY <1>1, <1>3, HoldIs
<1> HIDE DEF t1
<1>5. t2 \in Client /\ SameList(t1, t2) /\ t2.down \subseteq t1.down \cup {alt} /\ t2.lost = t1.lost
    BY <1>1, <1>3, <1>4, HoldIs
<1> HIDE DEF t2
<1>6. t3 \in Client /\ SameList(t2, t3) /\ Shrinks(t2, t3)
    BY <1>1, <1>3, <1>5, PressIs
<1> HIDE DEF t3
<1>7. ~t3.viewOnly
    BY <1>1, <1>4, <1>5, <1>6 DEF SameList
<1>8. /\ t4 \in Client /\ SameList(t3, t4)
      /\ t4.down = t3.down \ {alt} /\ t4.lost = t3.lost \ {alt}
    BY <1>1, <1>3, <1>6, <1>7, SendKeyIs
<1> HIDE DEF t4
<1>9. ~t4.viewOnly
    BY <1>7, <1>8 DEF SameList
<1>10. /\ t5 \in Client /\ SameList(t4, t5)
       /\ t5.down = t4.down \ {ctrl} /\ t5.lost = t4.lost \ {ctrl}
    BY <1>1, <1>3, <1>8, <1>9, SendKeyIs
<1> HIDE DEF t5, ctrl, alt
<1>11. Shrinks(c, t5)
    BY <1>4, <1>5, <1>6, <1>8, <1>10 DEF Shrinks
<1>12. SameList(c, t5)
    BY <1>4, <1>5, <1>6, <1>8, <1>10 DEF SameList
<1>13. Safe(t5)
    BY <1>1, <1>10, <1>11, <1>12, SameSafe
<1> QED
    BY <1>2, <1>12, <1>13, IsInv

\* A pinch releases the Ctrl it pressed, and one of the user's with it.
LEMMA PinchInv == Inv /\ PinchZoom => Inv' /\ SameList(c, c')
<1> SUFFICES ASSUME Inv, PinchZoom PROVE Inv' /\ SameList(c, c')
    OBVIOUS
<1> DEFINE key == AtServer("Control_L", "ControlLeft")
           r == HandleKeyEvent(c, "Control_L", "ControlLeft", TRUE, Undefined)
           t(z) == HandleKeyEvent(IF z THEN r ELSE c, "Control_L", "ControlLeft", FALSE, Undefined)
<1>1. TypeOK /\ Safe(c) /\ c \in Client /\ ExtendedOK
    BY InvIs
<1>2. UNCHANGED environment /\ Others'
    BY <1>1 DEF PinchZoom, TypeOK, Others, environment
<1>3. PICK z \in BOOLEAN : c' = t(z)
    BY DEF PinchZoom
<1>4. "Control_L" \in Named /\ "ControlLeft" \in Codes
    BY DEF Named, Keysyms, Codes
<1>5. /\ r \in Client /\ SameList(c, r) /\ Quiet(c, r)
      /\ \A x \in r.down : x = key \/ (x \in c.down /\ (x \in c.lost => x \in r.lost))
    BY <1>1, <1>4, HandleKeyEventIs
<1> HIDE DEF r
<1> DEFINE s == IF z THEN r ELSE c
           u == HandleKeyEvent(s, "Control_L", "ControlLeft", FALSE, Undefined)
<1>6. /\ s \in Client /\ SameList(c, s) /\ Quiet(c, s)
      /\ \A x \in s.down : x = key \/ (x \in c.down /\ (x \in c.lost => x \in s.lost))
    BY <1>1, <1>5 DEF SameList, Quiet
<1>7. c' = u
    BY <1>3
<1> HIDE DEF s
<1>8. /\ u \in Client /\ SameList(s, u) /\ Quiet(s, u) /\ Shrinks(s, u)
      /\ ~s.viewOnly => key \notin u.down
    BY <1>1, <1>4, <1>6, HandleKeyEventIs
<1> HIDE DEF u, key
<1>9. SameList(c, u)
    BY <1>6, <1>8 DEF SameList
<1>10. Shrinks(c, u)
    BY <1>6, <1>8 DEF Shrinks, SameList, Quiet
<1>11. Safe(u)
    BY <1>1, <1>8, <1>9, <1>10, SameSafe
<1> QED
    BY <1>2, <1>7, <1>9, <1>11, IsInv

\* The locks and what is known of them are no part of the list.
LEMMA LocksInv ==
    Inv /\ (ServerReports \/ HandleLedEvent \/ \E l \in Reported[platform] : ServerToggles(l))
        => Inv' /\ SameList(c, c')
<1> SUFFICES ASSUME Inv, ServerReports \/ HandleLedEvent \/ \E l \in Reported[platform] : ServerToggles(l)
             PROVE Inv' /\ SameList(c, c')
    OBVIOUS
<1>1. TypeOK /\ Safe(c) /\ c \in Client
    BY InvIs
<1>2. UNCHANGED environment
    BY DEF ServerReports, HandleLedEvent, ServerToggles, environment
<1>3. ASSUME c' \in Client, SameList(c, c'), c'.down = c.down, c'.lost = c.lost
      PROVE  Safe(c')
    BY <1>1, <1>3, SameSafe DEF Shrinks
<1>4. CASE ServerReports
  <2>1. Others'
    <3>1. Append(leds, c.lock) \in Seq(Lock)
        BY <1>1 DEF TypeOK, Client
    <3> QED
        BY <1>1, <1>4, <3>1 DEF ServerReports, TypeOK, Others, environment
  <2>2. c' \in Client /\ SameList(c, c') /\ c'.down = c.down /\ c'.lost = c.lost
      BY <1>1, <1>4 DEF ServerReports, SameList, Client
  <2> QED
      BY <1>2, <1>3, <2>1, <2>2, IsInv
<1>5. CASE HandleLedEvent
  <2>1. Head(leds) \in Lock /\ Tail(leds) \in Seq(Lock)
      BY <1>1, <1>5 DEF HandleLedEvent, TypeOK
  <2>2. Others'
      BY <1>1, <1>5, <2>1 DEF HandleLedEvent, TypeOK, Others, environment
  <2> DEFINE known == [l \in Locks |-> IF l \in Reported[platform] THEN Head(leds)[l] ELSE None]
  <2>3. known \in [Locks -> {"on", "off", None}]
      BY <2>1 DEF Lock
  <2>4. c' = [c EXCEPT !.known = known]
      BY <1>5 DEF HandleLedEvent, LearnLocks
  <2> HIDE DEF known
  <2>5. c' \in Client /\ SameList(c, c') /\ c'.down = c.down /\ c'.lost = c.lost
      BY <1>1, <2>3, <2>4 DEF SameList, Client
  <2> QED
      BY <1>2, <1>3, <2>2, <2>5, IsInv
<1>6. ASSUME NEW l \in Reported[platform], ServerToggles(l) PROVE Inv' /\ SameList(c, c')
  <2>1. Others'
      BY <1>1, <1>6 DEF ServerToggles, TypeOK, Others, environment
  <2>2. l \in Locks
      BY <1>1, ReportedAssumption DEF TypeOK
  <2> DEFINE lock == [c.lock EXCEPT ![l] = Flip(@)]
  <2>3. lock \in Lock
      BY <1>1, <2>2 DEF Lock, Flip, Client
  <2>4. c' = [c EXCEPT !.lock = lock, !.report = TRUE]
      BY <1>1, <1>6, <2>2 DEF ServerToggles, Client
  <2> HIDE DEF lock
  <2>5. c' \in Client /\ SameList(c, c') /\ c'.down = c.down /\ c'.lost = c.lost
      BY <1>1, <2>3, <2>4 DEF SameList, Client
  <2> QED
      BY <1>2, <1>3, <2>1, <2>5, IsInv
<1> QED
    BY <1>4, <1>5, <1>6

LEMMA NextInv == Inv /\ [Next]_vars => Inv'
<1> SUFFICES ASSUME Inv, [Next]_vars PROVE Inv'
    OBVIOUS
<1>1. TypeOK /\ Safe(c) /\ ExtendedOK
    BY InvIs
<1>2. "ControlLeft" \in Physical /\ "AltRight" \in Physical
    BY DEF Physical, Codes
<1>3. ASSUME NEW k \in Codes, NEW quick \in BOOLEAN, PressKey(k, quick) PROVE Inv'
  <2>1. k \in Physical /\ fake' \in {"none", "first", "made"}
      BY <1>1, <1>3, KeysAssumption DEF PressKey, TypeOK
  <2> QED
      BY <1>3, <2>1, PressInv DEF PressKey
<1>4. CASE FakeCtrl
  <2>1. UNCHANGED environment /\ Others'
      BY <1>1, <1>4 DEF FakeCtrl, TypeOK, Others, environment
  <2>2. Safe(c')
      BY <1>1, <1>2, <1>4, EventSafe DEF FakeCtrl
  <2> QED
      BY <2>1, <2>2, IsInv
<1>5. CASE AltGrFollows
    BY <1>2, <1>5, PressInv DEF AltGrFollows
<1>6. ASSUME NEW k \in Codes, Repeat(k) PROVE Inv'
  <2>1. UNCHANGED environment /\ Others' /\ k \in Physical
      BY <1>1, <1>6 DEF Repeat, TypeOK, Others, environment
  <2>2. Safe(c')
      BY <1>6, <2>1, EventSafe DEF Repeat
  <2> QED
      BY <2>1, <2>2, IsInv
<1>7. ASSUME NEW k \in Codes, ReleaseKey(k) PROVE Inv'
    BY <1>7, ReleaseInv
<1>8. CASE AltGrTimeout
  <2>1. UNCHANGED environment /\ Others'
      BY <1>1, <1>8 DEF AltGrTimeout, TypeOK, Others, environment
  <2>2. Safe(c')
      BY <1>1, <1>8, Interrupts DEF AltGrTimeout
  <2> QED
      BY <2>1, <2>2, IsInv
<1>9. CASE WindowBlur
    BY <1>9, BlurInv
<1>10. CASE FocusMoves
  <2>1. UNCHANGED environment /\ Others' /\ c' = c
      BY <1>1, <1>10 DEF FocusMoves, TypeOK, Others, environment
  <2> QED
      BY <1>1, <2>1, IsInv
<1>11. ASSUME NEW v \in BOOLEAN, SetViewOnly(v) PROVE Inv'
    BY <1>11, ViewOnlyInv
<1>12. CASE SendCtrlAltDel
    BY <1>12, ButtonInv
<1>13. CASE PinchZoom
    BY <1>13, PinchInv
<1>14. CASE ServerReports \/ HandleLedEvent \/ \E l \in Reported[platform] : ServerToggles(l)
    BY <1>14, LocksInv
<1>15. CASE UNCHANGED vars
  <2>1. UNCHANGED environment /\ Others' /\ c' = c
      BY <1>1, <1>15 DEF vars, TypeOK, Others, environment
  <2> QED
      BY <1>1, <2>1, IsInv
<1> QED
    BY <1>3, <1>4, <1>5, <1>6, <1>7, <1>8, <1>9, <1>10, <1>11, <1>12, <1>13, <1>14, <1>15 DEF Next

\* Whatever a keyboard, its platform and the server do, a key that is down at
\* the server is in _keyDownList under the name it was sent with, or was lost
\* when view-only was switched on: the release of it will be the right one.
THEOREM KeysAreTracked == Spec => []Inv
<1> QED
    BY InitInv, NextInv, PTL DEF Spec

----------------------------------------------------------------------------
(***************************************************************************)
(* No key stays down: whatever is listed is a key that the user holds, or  *)
(* has let go of unheard, or the Ctrl that Windows made up.                *)
(***************************************************************************)

On(s, k) == s.list[k] # Up

AllOff(s) == ~s.armed /\ \A k \in Codes : ~On(s, k)

Known == held \cup strayed \cup (IF fake = "made" THEN {"ControlLeft"} ELSE {})

\* On Windows the release of one Shift may be that of both.
Stands(k, code) == CodeOf(k) = code \/ (platform = "windows" /\ {k, code} \subseteq Shifts)

Listed == \A code \in Codes : On(c, code) => \E k \in Known : Stands(k, code)

CtrlWaits ==
    c.armed => platform = "windows" /\ ("ControlLeft" \in held \cup strayed \/ fake # "none")

Resting == c.viewOnly \/ focus = "away" => AllOff(c)

Faked ==
    /\ fake # "none" => platform = "windows"
    /\ fake = "made" => "AltRight" \in held

\* Keys whose release nobody hears of are not in the list.
Unheard ==
    /\ platform = "windows" => ~On(c, "Lang1")
    /\ muted # {} => platform = "mac"
    /\ muted \subseteq held
    /\ \A k \in muted : ~On(c, k)

KInv == Listed /\ CtrlWaits /\ Resting /\ Faked /\ Unheard

LEMMA OnPut ==
    ASSUME NEW s \in Client, NEW t, NEW code \in Codes, NEW v, t.list = Put(s.list, code, v)
    PROVE  /\ \A k \in Codes : On(t, k) => On(s, k) \/ (k = code /\ v # Up)
           /\ v = Up => ~On(t, code)
  BY PutIs DEF On

\* A handler leaves in the list what was there, the Ctrl that was held back,
\* and a key's press.
LEMMA KeyDownLists ==
    ASSUME ExtendedOK, NEW s, Safe(s), Takes(s), NEW e, EventOK(e)
    PROVE  LET code == GetKeyCode(e)
               u == KeyDownHandler(s, e)
           IN /\ \A k \in Codes : On(u, k) => \/ On(s, k)
                                              \/ k = "ControlLeft" /\ s.armed
                                              \/ k = code /\ ~(platform = "windows" /\ k = "ControlLeft")
              /\ u.armed => platform = "windows" /\ code = "ControlLeft"
              /\ platform = "mac" /\ e.meta /\ code # "MetaLeft" => ~On(u, code)
              /\ platform = "windows" /\ code = "Lang1" /\ e.keysym = "Romaji" /\ ~On(s, code)
                   => ~On(u, code)
<1> DEFINE code == GetKeyCode(e)
           keysym == KeysymFor(s, e, code)
           t == EndAltGr(s, e, code)
           u == KeyDownHandler(s, e)
           clicked(v) == v \in Named /\ (t.list[code] = Up \/ t.list[code] = v)
                         /\ u = Click(t, v, code, e.locks)
<1>1. keysym \in Named /\ (t.list[code] = Up \/ t.list[code] = keysym)
    BY Names
<1>2. code \in Codes /\ e.keysym \in Named /\ "ControlLeft" \in Codes
    BY DEF EventOK, Codes
<1>3. /\ t \in Client /\ Safe(t) /\ ~t.armed /\ t.viewOnly = s.viewOnly
      /\ \/ t.list = s.list
         \/ s.armed /\ t.list = Put(s.list, "ControlLeft", "Control_L")
    BY Ends
<1>4. s \in Client /\ Covered(t) /\ t.list["Unidentified"] = Up
    BY <1>3 DEF Safe
<1>5. "Caps_Lock" \in Named /\ (platform = "mac" => t.list["CapsLock"] = Up)
    BY <1>3 DEF Safe, Named, Keysyms
<1>6. platform = "windows" /\ code = "Lang1" /\ e.keysym = "Romaji" /\ ~On(s, code)
        => keysym = "Romaji"
    BY DEF KeysymFor, On
<1>7. \/ u = t /\ code = "Unidentified"
      \/ \E v : clicked(v)
      \/ platform = "windows" /\ code = "ControlLeft" /\ u = [t EXCEPT !.armed = TRUE]
      \/ /\ u = SendKeyEvent(t, keysym, code, TRUE, e.locks)
         /\ ~(platform = "mac" /\ e.meta /\ code # "MetaLeft")
         /\ ~(platform = "windows" /\ keysym = "Romaji")
         /\ ~(platform = "windows" /\ code = "ControlLeft" /\ t.list[code] = Up)
    BY <1>1, <1>2, <1>4, <1>5 DEF KeyDownHandler
<1>8. \A k \in Codes : On(t, k) => On(s, k) \/ (k = "ControlLeft" /\ s.armed)
    BY <1>2, <1>3, <1>4, OnPut DEF On
<1> DEFINE Goal == /\ \A k \in Codes : On(u, k) => \/ On(s, k)
                                                   \/ k = "ControlLeft" /\ s.armed
                                                   \/ k = code /\ ~(platform = "windows" /\ k = "ControlLeft")
                   /\ u.armed => platform = "windows" /\ code = "ControlLeft"
                   /\ platform = "mac" /\ e.meta /\ code # "MetaLeft" => ~On(u, code)
                   /\ platform = "windows" /\ code = "Lang1" /\ e.keysym = "Romaji" /\ ~On(s, code)
                        => ~On(u, code)
<1> HIDE DEF t, u, keysym, code
<1>9. ASSUME u = t /\ code = "Unidentified" PROVE Goal
  <2>1. ~On(u, code)
      BY <1>4, <1>9 DEF On
  <2> QED
      BY <1>3, <1>8, <1>9, <2>1
<1>10. ASSUME NEW v, clicked(v) PROVE Goal
  <2>1. v \in Named /\ (t.list[code] = Up \/ t.list[code] = v) /\ u = Click(t, v, code, e.locks)
      BY <1>10
  <2>2. Takes(t)
      BY <1>3 DEF Takes
  <2>3. u \in Client /\ u.list = Put(t.list, code, Up) /\ u.armed = t.armed
      BY <1>2, <1>3, <1>4, <2>1, <2>2, Clicks
  <2>4. ~On(u, code) /\ \A k \in Codes : On(u, k) => On(t, k)
      BY <1>2, <1>3, <2>3, OnPut
  <2> QED
      BY <1>3, <1>8, <2>3, <2>4
<1>11. ASSUME platform = "windows" /\ code = "ControlLeft" /\ u = [t EXCEPT !.armed = TRUE]
       PROVE  Goal
  <2>1. u.list = t.list
      BY <1>3, <1>11 DEF Client
  <2>2. \A k \in Codes : On(u, k) => On(t, k)
      BY <2>1 DEF On
  <2> QED
      BY <1>8, <1>11, <2>2
<1>12. ASSUME /\ u = SendKeyEvent(t, keysym, code, TRUE, e.locks)
              /\ ~(platform = "mac" /\ e.meta /\ code # "MetaLeft")
              /\ ~(platform = "windows" /\ keysym = "Romaji")
              /\ ~(platform = "windows" /\ code = "ControlLeft" /\ t.list[code] = Up)
       PROVE  Goal
  <2>1. /\ u \in Client /\ Covered(u) /\ u.list = Put(t.list, code, keysym)
        /\ u.armed = t.armed /\ u.viewOnly = t.viewOnly
    <3>1. u = SendKeyEvent(t, keysym, code, TRUE, e.locks)
        BY <1>12
    <3>2. t \in Client /\ Covered(t)
        BY <1>3, <1>4
    <3>3. t.list[code] = Up \/ t.list[code] = keysym
        BY <1>1
    <3>4. keysym \in Named /\ code \in Codes
        BY <1>1, <1>2
    <3> QED
        BY Zenon, <3>1, <3>2, <3>3, <3>4, SendsDown
  <2>2. \A k \in Codes : On(u, k) => On(t, k) \/ k = code
      BY <1>2, <1>3, <2>1, OnPut
  <2>3. platform = "windows" /\ code = "ControlLeft" => On(t, code)
      BY <1>12 DEF On
  <2> QED
      BY <1>3, <1>6, <1>8, <1>12, <2>1, <2>2, <2>3
<1> QED
    BY <1>7, <1>9, <1>10, <1>11, <1>12 DEF Goal, u, code

LEMMA InterruptLists ==
    ASSUME ExtendedOK, NEW s, Safe(s)
    PROVE  LET t == InterruptAltGrSequence(s)
           IN \A k \in Codes : On(t, k) => On(s, k) \/ (k = "ControlLeft" /\ s.armed)
<1>1. s \in Client /\ "ControlLeft" \in Codes
    BY DEF Safe, Codes
<1>2. CASE s.armed
  <2> DEFINE t == InterruptAltGrSequence(s)
  <2>1. t.list = Put(s.list, "ControlLeft", "Control_L")
      BY <1>2, CtrlSent DEF InterruptAltGrSequence
  <2> HIDE DEF t
  <2> QED
      BY <1>1, <1>2, <2>1, OnPut DEF t
<1>3. CASE ~s.armed
    BY <1>3 DEF InterruptAltGrSequence
<1> QED
    BY <1>2, <1>3

LEMMA UpLists ==
    ASSUME ExtendedOK, NEW s \in Client, Safe(s), Takes(s), ~s.armed, NEW code \in Codes
    PROVE  LET t == SendKeyEvent(s, s.list[code], code, FALSE, Unknown)
           IN ~On(t, code) /\ \A k \in Codes : On(t, k) => On(s, k)
<1> DEFINE v == s.list[code]
           t == SendKeyEvent(s, v, code, FALSE, Unknown)
<1>1. v \in Named \cup {Up} /\ Covered(s) /\ (s.list[code] = Up \/ s.list[code] = v)
    BY DEF Client, Named, Safe
<1> HIDE DEF v
<1>2. t.list = Put(s.list, code, Up)
    BY <1>1, SendsUp
<1> HIDE DEF t
<1>3. ~On(t, code) /\ \A k \in Codes : On(t, k) => On(s, k)
    BY <1>2, OnPut
<1> QED
    BY <1>3 DEF t, v

LEMMA KeyUpLists ==
    ASSUME ExtendedOK, NEW s, Safe(s), Takes(s), NEW e, EventOK(e)
    PROVE  LET code == GetKeyCode(e)
               u == KeyUpHandler(s, e)
           IN /\ \A k \in Codes : On(u, k) => On(s, k) \/ (k = "ControlLeft" /\ s.armed)
              /\ ~u.armed /\ ~On(u, code)
              /\ platform = "windows" /\ code \in Shifts => \A k \in Shifts : ~On(u, k)
<1> DEFINE up(r, k) == SendKeyEvent(r, r.list[k], k, FALSE, Unknown)
           code == GetKeyCode(e)
           t == InterruptAltGrSequence(s)
           u == KeyUpHandler(s, e)
           t1 == up(t, code)
           t2 == up(t1, "ShiftRight")
           t3 == up(t2, "ShiftLeft")
<1>1. t \in Client /\ Safe(t) /\ ~t.armed /\ t.viewOnly = s.viewOnly
    BY Interrupts
<1>2. \A k \in Codes : On(t, k) => On(s, k) \/ (k = "ControlLeft" /\ s.armed)
    BY InterruptLists
<1>3. code \in Codes /\ Shifts = {"ShiftLeft", "ShiftRight"} /\ Shifts \subseteq Codes
    BY DEF EventOK, Codes, Shifts
<1>4. \/ platform = "mac" /\ code = "CapsLock" /\ u = Click(t, "Caps_Lock", code, Unknown)
      \/ u = t1 /\ ~(platform = "windows" /\ code \in Shifts)
      \/ u = t3
    BY DEF KeyUpHandler
<1> HIDE DEF t, u, code
<1>5. Takes(t) /\ Covered(t)
    BY <1>1 DEF Takes, Safe
<1>6. t1 \in Client /\ Safe(t1) /\ Takes(t1) /\ ~t1.armed
    BY <1>1, <1>3, <1>5, UpSafe
<1>7. ~On(t1, code) /\ \A k \in Codes : On(t1, k) => On(t, k)
    BY <1>1, <1>3, <1>5, UpLists
<1> HIDE DEF t1
<1>8. t2 \in Client /\ Safe(t2) /\ Takes(t2) /\ ~t2.armed
    BY <1>3, <1>6, UpSafe
<1>9. ~On(t2, "ShiftRight") /\ \A k \in Codes : On(t2, k) => On(t1, k)
    BY <1>3, <1>6, UpLists
<1> HIDE DEF t2
<1>10. ~t3.armed
    BY <1>3, <1>8, UpSafe
<1>11. ~On(t3, "ShiftLeft") /\ \A k \in Codes : On(t3, k) => On(t2, k)
    BY <1>3, <1>8, UpLists
<1> HIDE DEF t3
<1>12. CASE platform = "mac" /\ code = "CapsLock" /\ u = Click(t, "Caps_Lock", code, Unknown)
  <2>1. "Caps_Lock" \in Named /\ (t.list[code] = Up \/ t.list[code] = "Caps_Lock")
      BY <1>1, <1>12 DEF Safe, Named, Keysyms
  <2>2. u.list = Put(t.list, code, Up) /\ u.armed = t.armed
      BY <1>1, <1>3, <1>5, <1>12, <2>1, Clicks
  <2>3. ~On(u, code) /\ \A k \in Codes : On(u, k) => On(t, k)
      BY <1>1, <1>3, <2>2, OnPut
  <2> QED
      BY <1>1, <1>2, <1>12, <2>2, <2>3 DEF u, code
<1>13. CASE u = t1 /\ ~(platform = "windows" /\ code \in Shifts)
    BY <1>2, <1>6, <1>7, <1>13 DEF u, code
<1>14. CASE u = t3
    BY <1>2, <1>3, <1>7, <1>9, <1>10, <1>11, <1>14 DEF u, code
<1> QED
    BY <1>4, <1>12, <1>13, <1>14

----------------------------------------------------------------------------

\* Steps that touch neither the list nor the user's keys.
LEMMA SameKnown ==
    ASSUME KInv, SameList(c, c'), UNCHANGED <<platform, held, focus, fake, muted, strayed>>
    PROVE  KInv'
<1>1. Listed' /\ CtrlWaits'
    BY DEF KInv, Listed, CtrlWaits, SameList, On, Known, Stands, CodeOf
<1>2. Resting' /\ Faked' /\ Unheard'
    BY DEF KInv, Resting, AllOff, Faked, Unheard, SameList, On
<1> QED
    BY <1>1, <1>2 DEF KInv

\* With nothing in the list all that matters is what Windows makes up.
LEMMA OffKnown ==
    ASSUME TypeOK, KInv, AllOff(c'), Faked', UNCHANGED platform,
           muted' \subseteq held', muted' \subseteq Codes, muted' # {} => platform = "mac"
    PROVE  KInv'
<1>1. "Lang1" \in Codes
    BY DEF Codes
<1>2. Listed' /\ CtrlWaits' /\ Resting' /\ Unheard'
    BY <1>1 DEF Listed, CtrlWaits, Resting, Unheard, AllOff, On
<1> QED
    BY <1>2 DEF KInv

\* The Ctrl that is held back stands for one that is still known.
LEMMA CtrlKnown ==
    ASSUME KInv, c.armed, UNCHANGED platform, held \subseteq held', strayed \subseteq strayed',
           fake' = "made" \/ (fake' = fake /\ fake # "first" /\ TypeOK) \/ fake = "none"
    PROVE  "ControlLeft" \in Known' /\ platform = "windows"
<1>1. platform = "windows" /\ ("ControlLeft" \in held \cup strayed \/ fake # "none")
    BY DEF KInv, CtrlWaits
<1>2. TypeOK /\ fake # "none" /\ fake # "first" => fake = "made"
    BY DEF TypeOK
<1> QED
    BY <1>1, <1>2 DEF Known

LEMMA StillListed ==
    ASSUME KInv, UNCHANGED platform, Known \subseteq Known',
           \A code \in Codes : On(c', code) => On(c, code) \/ \E k \in Known' : CodeOf(k) = code
    PROVE  Listed'
<1> SUFFICES ASSUME NEW code \in Codes, On(c', code) PROVE \E k \in Known' : Stands(k, code)'
    BY DEF Listed, On
<1>1. CASE On(c, code)
    BY <1>1 DEF KInv, Listed, Stands, CodeOf
<1>2. CASE \E k \in Known' : CodeOf(k) = code
    BY <1>2 DEF Stands, CodeOf
<1> QED
    BY <1>1, <1>2

LEMMA PressKnown ==
    ASSUME Inv, KInv, NEW k \in Physical, NEW quick \in BOOLEAN, Press(k, quick), focus = "canvas" \/ fake = "first",
           \/ fake # "first" /\ fake' = fake /\ k \notin held
           \/ fake = "first" /\ fake' = "made" /\ k = "AltRight"
    PROVE  KInv'
<1> DEFINE now == IF k \in Locks THEN [local EXCEPT ![k] = Flip(@)] ELSE local
           e == Event(k, now, quick)
<1>1. TypeOK /\ Safe(c) /\ c \in Client /\ ExtendedOK /\ Codes = Physical \cup {"Platform65"}
    BY InvIs DEF Physical, Codes, Locks, Shifts
<1>2. /\ held' = held \cup {k} /\ UNCHANGED <<platform, focus, strayed>>
      /\ muted' = IF platform = "mac" /\ "MetaLeft" \in held THEN muted \cup {k} ELSE muted
      /\ c' = IF ~Listening THEN c
              ELSE IF platform = "mac" /\ k = "CapsLock" /\ now[k] = "off" THEN KeyUpHandler(c, e)
              ELSE KeyDownHandler(c, e)
    BY DEF Press, environment
<1>3. EventOK(e) /\ GetKeyCode(e) = CodeOf(k) /\ e.keysym = KeysymOf(k)
      /\ e.meta = ("MetaLeft" \in held \cup {k})
    BY EventIsOK
<1> HIDE DEF e, now
<1>4. /\ Known \subseteq Known' /\ CodeOf(k) \in Codes /\ k \in Known'
      /\ fake = "first" => platform = "windows"
      /\ c.armed => "ControlLeft" \in Known' /\ platform = "windows" /\ CodeOf("ControlLeft") = "ControlLeft"
    BY <1>1, <1>2, CtrlKnown DEF Known, CodeOf, KInv, Faked
<1>5. Faked'
    BY <1>2 DEF KInv, Faked
<1>6. /\ muted' # {} => platform = "mac" /\ muted' \subseteq held'
      /\ \A j \in muted' : j \in muted \/ (j = k /\ platform = "mac" /\ "MetaLeft" \in held)
    BY <1>2 DEF KInv, Unheard
<1>7. platform = "mac" => CodeOf(k) = k /\ k \notin muted
    BY <1>4 DEF CodeOf, KInv, Unheard
<1>8. CASE ~Listening
  <2>1. c' = c /\ (platform = "mac" => AllOff(c))
      BY <1>2, <1>4, <1>8 DEF Listening, KInv, Resting
  <2>2. Listed'
      BY <1>2, <1>4, <2>1, StillListed
  <2>3. CtrlWaits' /\ Resting'
      BY <1>2, <2>1 DEF KInv, CtrlWaits, Resting
  <2>4. Unheard'
      BY <1>1, <1>2, <1>6, <2>1 DEF KInv, Unheard, AllOff
  <2> QED
      BY <1>5, <2>2, <2>3, <2>4 DEF KInv
<1>9. CASE Listening
  <2>1. Takes(c) /\ ~(c.viewOnly \/ focus = "away")
      BY <1>9 DEF Listening, Takes
  <2>2. CASE c' = KeyUpHandler(c, e) /\ platform = "mac"
    <3>1. /\ c'.viewOnly = c.viewOnly /\ ~c'.armed
          /\ \A x \in Codes : On(c', x) => On(c, x) \/ (x = "ControlLeft" /\ c.armed)
        BY <1>1, <1>3, <2>1, <2>2, KeyUpSafe, KeyUpLists
    <3>2. ~On(c', k)
        BY <1>1, <1>3, <1>7, <2>1, <2>2, KeyUpLists
    <3>3. Listed'
        BY <1>2, <1>4, <3>1, StillListed
    <3>4. CtrlWaits' /\ Resting'
        BY <1>2, <2>1, <3>1 DEF CtrlWaits, Resting
    <3>5. Unheard'
      <4>1. \A j \in muted' : ~On(c', j)
          BY <1>1, <1>4, <1>6, <2>2, <3>1, <3>2 DEF KInv, Unheard, TypeOK
      <4> QED
          BY <1>2, <1>6, <2>2, <4>1 DEF KInv, Unheard, On
    <3> QED
        BY <1>5, <3>3, <3>4, <3>5 DEF KInv
  <2>3. CASE c' = KeyDownHandler(c, e)
    <3>1. /\ c'.viewOnly = c.viewOnly
          /\ \A x \in Codes : On(c', x) => On(c, x) \/ (x = "ControlLeft" /\ c.armed) \/ x = CodeOf(k)
          /\ c'.armed => platform = "windows" /\ CodeOf(k) = "ControlLeft"
          /\ platform = "mac" /\ e.meta /\ CodeOf(k) # "MetaLeft" => ~On(c', CodeOf(k))
          /\ platform = "windows" /\ CodeOf(k) = "Lang1" /\ e.keysym = "Romaji" /\ ~On(c, CodeOf(k))
               => ~On(c', CodeOf(k))
        BY <1>1, <1>3, <2>1, <2>3, KeyDownSafe, KeyDownLists
    <3>2. Listed'
        BY <1>2, <1>4, <3>1, StillListed
    <3>3. CtrlWaits'
        BY <1>2, <3>1 DEF CtrlWaits, CodeOf
    <3>4. Resting'
        BY <1>2, <2>1, <3>1 DEF Resting
    <3>5. \A j \in muted' : ~On(c', j)
      <4>1. ASSUME NEW j \in muted', j \in muted PROVE ~On(c', j)
        <5>1. ~On(c, j) /\ j # k /\ platform = "mac" /\ j \in Codes /\ ~c.armed
            BY <1>1, <1>4, <1>6, <1>7, <4>1 DEF KInv, Unheard, TypeOK
        <5> QED
            BY <1>7, <3>1, <5>1
      <4>2. ASSUME NEW j \in muted', j \notin muted PROVE ~On(c', j)
        <5>1. j = k /\ platform = "mac" /\ "MetaLeft" \in held
            BY <1>6, <4>2
        <5>2. k # "MetaLeft" /\ e.meta
            BY <1>3, <1>4, <5>1
        <5> QED
            BY <1>7, <3>1, <5>1, <5>2
      <4> QED
          BY <4>1, <4>2
    <3>6. platform = "windows" => ~On(c', "Lang1")
      <4>1. SUFFICES ASSUME platform = "windows" PROVE ~On(c', "Lang1")
          OBVIOUS
      <4>2. ~On(c, "Lang1") /\ CodeOf(k) = k
          BY <4>1 DEF KInv, Unheard, CodeOf
      <4>3. k = "Lang1" => e.keysym = "Romaji"
          BY <1>3 DEF KeysymOf, Locks
      <4> QED
          BY <1>1, <3>1, <4>1, <4>2, <4>3 DEF Codes
    <3>7. Unheard'
        BY <1>2, <1>6, <3>5, <3>6 DEF Unheard, On
    <3> QED
        BY <1>5, <3>2, <3>3, <3>4, <3>7 DEF KInv
  <2> QED
      BY <1>2, <1>9, <2>2, <2>3
<1> QED
    BY <1>8, <1>9

\* Windows announces an AltGr: if its Ctrl is held back it is the next to come.
LEMMA FakeCtrlKnown == Inv /\ KInv /\ FakeCtrl => KInv'
<1> SUFFICES ASSUME Inv, KInv, FakeCtrl PROVE KInv'
    OBVIOUS
<1> DEFINE e == Event("ControlLeft", local, FALSE)
<1>1. TypeOK /\ Safe(c) /\ ExtendedOK
    BY InvIs
<1>2. /\ UNCHANGED <<platform, held, focus, muted, strayed>> /\ platform = "windows"
      /\ fake = "none" /\ fake' = "first" /\ c' = IF Listening THEN KeyDownHandler(c, e) ELSE c
    BY DEF FakeCtrl, environment
<1>3. "ControlLeft" \in Physical /\ CodeOf("ControlLeft") = "ControlLeft"
    BY DEF Physical, Codes, CodeOf
<1>4. EventOK(e) /\ GetKeyCode(e) = "ControlLeft"
    BY <1>3, EventIsOK
<1> HIDE DEF e
<1>5. Known \subseteq Known' /\ Faked'
    BY <1>2 DEF Known, Faked
<1>6. CASE ~Listening
  <2>1. Listed'
      BY <1>2, <1>5, <1>6, StillListed
  <2>2. CtrlWaits' /\ Resting' /\ Unheard'
      BY <1>2, <1>6 DEF KInv, CtrlWaits, Resting, Unheard
  <2> QED
      BY <1>5, <2>1, <2>2 DEF KInv
<1>7. CASE Listening
  <2>1. Takes(c) /\ ~(c.viewOnly \/ focus = "away") /\ c' = KeyDownHandler(c, e)
      BY <1>2, <1>7 DEF Listening, Takes
  <2>2. /\ c'.viewOnly = c.viewOnly
        /\ \A x \in Codes : On(c', x) => On(c, x) \/ (x = "ControlLeft" /\ c.armed)
      BY <1>1, <1>2, <1>4, <2>1, KeyDownSafe, KeyDownLists
  <2>3. c.armed => "ControlLeft" \in Known'
      BY <1>2, CtrlKnown
  <2>4. Listed'
      BY <1>2, <1>3, <1>5, <2>2, <2>3, StillListed
  <2>5. CtrlWaits' /\ Resting'
      BY <1>2, <2>1, <2>2 DEF CtrlWaits, Resting
  <2>6. ~On(c', "Lang1") /\ muted = {}
      BY <1>2, <2>2 DEF KInv, Unheard, Codes
  <2>7. Unheard'
      BY <1>2, <2>6 DEF Unheard, On
  <2> QED
      BY <1>5, <2>4, <2>5, <2>7 DEF KInv
<1> QED
    BY <1>6, <1>7

LEMMA RepeatKnown ==
    ASSUME Inv, KInv, NEW k \in Codes, Repeat(k)
    PROVE  KInv'
<1> DEFINE e == Event(k, local, FALSE)
<1>1. TypeOK /\ Safe(c) /\ ExtendedOK
    BY InvIs
<1>2. /\ UNCHANGED <<platform, held, focus, fake, muted, strayed>>
      /\ Listening /\ fake # "first" /\ k \in held /\ k \notin muted /\ k \in Physical
      /\ c' = KeyDownHandler(c, e)
    BY <1>1 DEF Repeat, environment, TypeOK
<1>3. EventOK(e) /\ GetKeyCode(e) = CodeOf(k) /\ e.keysym = KeysymOf(k)
    BY <1>2, EventIsOK
<1> HIDE DEF e
<1>4. Known \subseteq Known' /\ Faked' /\ k \in Known'
    BY <1>2 DEF Known, KInv, Faked
<1>5. Takes(c) /\ ~(c.viewOnly \/ focus = "away")
    BY <1>2 DEF Listening, Takes
<1>6. /\ c'.viewOnly = c.viewOnly
      /\ \A x \in Codes : On(c', x) => On(c, x) \/ (x = "ControlLeft" /\ c.armed) \/ x = CodeOf(k)
      /\ c'.armed => platform = "windows" /\ CodeOf(k) = "ControlLeft"
      /\ platform = "windows" /\ CodeOf(k) = "Lang1" /\ e.keysym = "Romaji" /\ ~On(c, CodeOf(k))
           => ~On(c', CodeOf(k))
    BY <1>1, <1>2, <1>3, <1>5, KeyDownSafe, KeyDownLists
<1>7. c.armed => "ControlLeft" \in Known' /\ platform = "windows" /\ CodeOf("ControlLeft") = "ControlLeft"
    BY <1>1, <1>2, CtrlKnown DEF CodeOf
<1>8. Listed'
    BY <1>2, <1>4, <1>6, <1>7, StillListed
<1>9. CtrlWaits' /\ Resting'
    BY <1>2, <1>5, <1>6 DEF CtrlWaits, Resting, CodeOf
<1>10. ASSUME NEW j \in muted PROVE ~On(c', j)
  <2>1. ~On(c, j) /\ platform = "mac" /\ j # k /\ j \in Codes
      BY <1>1, <1>2 DEF KInv, Unheard, TypeOK
  <2> QED
      BY <1>6, <1>7, <2>1 DEF CodeOf
<1>11. platform = "windows" => ~On(c', "Lang1")
  <2>1. SUFFICES ASSUME platform = "windows" PROVE ~On(c', "Lang1")
      OBVIOUS
  <2>2. ~On(c, "Lang1") /\ CodeOf(k) = k
      BY <2>1 DEF KInv, Unheard, CodeOf
  <2>3. k = "Lang1" => e.keysym = "Romaji"
      BY <1>3 DEF KeysymOf, Locks
  <2> QED
      BY <1>6, <2>1, <2>2, <2>3 DEF Codes
<1>12. Unheard'
    BY <1>2, <1>10, <1>11 DEF KInv, Unheard, On
<1> QED
    BY <1>4, <1>8, <1>9, <1>12 DEF KInv

\* A release that is not reported is of a key that was not listed, or of a Shift
\* with the other one still down.
LEMMA ReleaseKnown ==
    ASSUME Inv, KInv, NEW k \in Codes, ReleaseKey(k)
    PROVE  KInv'
<1> DEFINE ctrl == Event("ControlLeft", local, FALSE)
           made == k = "AltRight" /\ fake = "made"
           s == IF made THEN KeyUpHandler(c, ctrl) ELSE c
           e == Event(k, local, FALSE)
<1>1. TypeOK /\ Safe(c) /\ c \in Client /\ ExtendedOK
    BY InvIs
<1>2. /\ UNCHANGED <<platform, focus>> /\ fake # "first"
      /\ k \in held /\ held' = held \ {k} /\ muted' = muted \ {k}
      /\ fake' = IF k = "AltRight" THEN "none" ELSE fake
    BY DEF ReleaseKey, environment
<1>3. strayed' = IF Silent(k) /\ Listening THEN strayed
                 ELSE IF Listening THEN strayed \ {k}
                 ELSE strayed \cup {k} \cup (IF made THEN {"ControlLeft"} ELSE {})
    BY DEF ReleaseKey
<1>4. c' = IF Silent(k) \/ ~Listening THEN c ELSE KeyUpHandler(s, e)
    BY DEF ReleaseKey
<1>5. k \in Physical /\ "ControlLeft" \in Physical
    BY <1>1, <1>2 DEF TypeOK, Physical, Codes
<1>6. /\ EventOK(e) /\ GetKeyCode(e) = CodeOf(k)
      /\ EventOK(ctrl) /\ GetKeyCode(ctrl) = CodeOf("ControlLeft")
    BY <1>5, EventIsOK
<1> HIDE DEF e, ctrl, s
<1>7. Faked' /\ muted' \subseteq held' /\ (muted' # {} => platform = "mac")
    BY <1>2 DEF KInv, Faked, Unheard
<1>8. \A x \in Known : x \in Known' \/ x = k \/ (x = "ControlLeft" /\ made)
    BY <1>2, <1>3 DEF Known
<1>9. CASE ~Listening
  <2>1. c' = c /\ Known \subseteq Known'
      BY <1>2, <1>3, <1>4, <1>8, <1>9 DEF Known
  <2>2. Listed'
      BY <1>2, <2>1, StillListed
  <2>3. CtrlWaits'
      BY <1>1, <1>2, <1>3, <1>9, <2>1 DEF KInv, CtrlWaits, TypeOK
  <2>4. Resting' /\ Unheard'
      BY <1>2, <1>7, <2>1 DEF KInv, Resting, Unheard
  <2> QED
      BY <1>7, <2>2, <2>3, <2>4 DEF KInv
<1>10. CASE Listening /\ Silent(k)
  <2>1. c' = c /\ strayed' = strayed /\ ~made
    <3>1. Silent(k) => ~made
        BY DEF Silent, Shifts, KInv, Faked
    <3> QED
        BY <1>3, <1>4, <1>10, <3>1
  <2>2. ASSUME NEW code \in Codes, On(c, code) PROVE \E x \in Known' : Stands(x, code)
    <3>1. PICK x \in Known : Stands(x, code)
        BY <2>2 DEF KInv, Listed
    <3>2. CASE x # k
        BY <1>8, <2>1, <3>1, <3>2
    <3>3. CASE x = k /\ platform = "windows" /\ k = "Lang1"
        BY <2>2, <3>1, <3>3 DEF Stands, CodeOf, Shifts, KInv, Unheard
    <3>4. CASE x = k /\ platform = "windows" /\ k \in Shifts /\ Shifts \subseteq held
      <4>1. PICK y \in Shifts : y # k
          BY DEF Shifts
      <4>2. code \in Shifts
          BY <3>1, <3>4 DEF Stands, CodeOf
      <4> QED
          BY <1>2, <3>4, <4>1, <4>2 DEF Known, Stands
    <3>5. CASE x = k /\ platform = "mac" /\ k \in muted \cup {"CapsLock"}
      <4>1. code = k
          BY <3>1, <3>5 DEF Stands, CodeOf
      <4>2. ~On(c, "CapsLock")
          BY <1>1, <3>5 DEF Safe, On
      <4> QED
          BY <2>2, <3>5, <4>1, <4>2 DEF KInv, Unheard
    <3> QED
        BY <1>10, <3>2, <3>3, <3>4, <3>5 DEF Silent
  <2>3. Listed'
      BY <1>2, <2>1, <2>2 DEF Listed, Stands, CodeOf
  <2>4. CtrlWaits'
    <3>1. k # "ControlLeft" \/ ~c.armed
        BY <1>10 DEF Silent, Shifts, KInv, CtrlWaits
    <3>2. k = "AltRight" => ~c.armed
        BY <1>10 DEF Silent, Shifts, KInv, CtrlWaits
    <3> QED
        BY <1>2, <2>1, <3>1, <3>2 DEF KInv, CtrlWaits
  <2>5. Resting' /\ Unheard'
      BY <1>2, <1>7, <2>1 DEF KInv, Resting, Unheard
  <2> QED
      BY <1>7, <2>3, <2>4, <2>5 DEF KInv
<1>11. CASE Listening /\ ~Silent(k)
  <2>1. Takes(c) /\ ~(c.viewOnly \/ focus = "away") /\ c' = KeyUpHandler(s, e)
      BY <1>4, <1>11 DEF Listening, Takes
  <2>2. /\ Safe(s) /\ Takes(s) /\ s.viewOnly = c.viewOnly
        /\ \A x \in Codes : On(s, x) => On(c, x) \/ (x = "ControlLeft" /\ c.armed)
        /\ made => ~s.armed /\ ~On(s, "ControlLeft")
    <3>1. CASE made
      <4>1. s = KeyUpHandler(c, ctrl) /\ CodeOf("ControlLeft") = "ControlLeft"
          BY <3>1 DEF s, CodeOf
      <4> QED
          BY <1>1, <1>6, <2>1, <4>1, KeyUpSafe, KeyUpLists DEF Takes
    <3>2. CASE ~made
        BY <1>1, <2>1, <3>2 DEF s
    <3> QED
        BY <3>1, <3>2
  <2>3. ~made => s = c
      BY DEF s
  <2>4. /\ c'.viewOnly = c.viewOnly /\ ~c'.armed /\ ~On(c', CodeOf(k))
        /\ \A x \in Codes : On(c', x) => On(s, x) \/ (x = "ControlLeft" /\ s.armed)
        /\ platform = "windows" /\ CodeOf(k) \in Shifts => \A x \in Shifts : ~On(c', x)
      BY <1>1, <1>6, <2>1, <2>2, KeyUpSafe, KeyUpLists
  <2>5. ASSUME NEW code \in Codes, On(c', code) PROVE \E x \in Known' : Stands(x, code)
    <3>1. code # CodeOf(k) /\ ~(made /\ code = "ControlLeft")
        BY <2>2, <2>4, <2>5
    <3>2. ~(platform = "windows" /\ k \in Shifts /\ code \in Shifts)
        BY <2>4, <2>5 DEF CodeOf
    <3>3. PICK x \in Known : Stands(x, code)
      <4>1. CASE On(c, code)
          BY <4>1 DEF KInv, Listed
      <4>2. CASE code = "ControlLeft" /\ c.armed
        <5>1. platform = "windows" /\ "ControlLeft" \in Known
            BY <1>1, <1>2, <4>2 DEF KInv, CtrlWaits, Known, TypeOK
        <5> QED
            BY <4>2, <5>1 DEF Stands, CodeOf
      <4> QED
          BY <2>2, <2>3, <2>4, <2>5, <4>1, <4>2
    <3>4. x # k
        BY <3>1, <3>2, <3>3 DEF Stands
    <3>5. ~(x = "ControlLeft" /\ made)
        BY <3>1, <3>3 DEF Stands, CodeOf, Shifts
    <3> QED
        BY <1>8, <3>3, <3>4, <3>5
  <2>6. Listed'
      BY <1>2, <2>5 DEF Listed, Stands, CodeOf, On
  <2>7. CtrlWaits' /\ Resting'
      BY <1>2, <2>1, <2>4 DEF CtrlWaits, Resting
  <2>8. Unheard'
    <3>1. ~c.armed \/ platform = "windows"
        BY DEF KInv, CtrlWaits
    <3>2. \A x \in Codes : On(c', x) => On(c, x) \/ (x = "ControlLeft" /\ c.armed)
        BY <2>2, <2>3, <2>4
    <3>3. platform = "windows" => ~On(c', "Lang1")
        BY <3>2 DEF KInv, Unheard, Codes
    <3>4. \A j \in muted' : ~On(c', j)
        BY <1>1, <1>2, <3>1, <3>2 DEF KInv, Unheard, TypeOK
    <3> QED
        BY <1>2, <1>7, <3>3, <3>4 DEF Unheard, On
  <2> QED
      BY <1>7, <2>6, <2>7, <2>8 DEF KInv
<1> QED
    BY <1>9, <1>10, <1>11

LEMMA TimeoutKnown == Inv /\ KInv /\ AltGrTimeout => KInv'
<1> SUFFICES ASSUME Inv, KInv, AltGrTimeout PROVE KInv'
    OBVIOUS
<1>1. TypeOK /\ Safe(c) /\ ExtendedOK
    BY InvIs
<1>2. /\ UNCHANGED <<platform, held, focus, fake, muted, strayed>> /\ fake # "first" /\ c.armed
      /\ c' = InterruptAltGrSequence(c)
    BY DEF AltGrTimeout, environment
<1>3. /\ ~c'.armed /\ c'.viewOnly = c.viewOnly
      /\ \A x \in Codes : On(c', x) => On(c, x) \/ x = "ControlLeft"
    BY <1>1, <1>2, Interrupts, InterruptLists
<1>4. "ControlLeft" \in Known' /\ platform = "windows" /\ CodeOf("ControlLeft") = "ControlLeft"
    BY <1>1, <1>2, CtrlKnown DEF CodeOf
<1>5. Listed'
    BY <1>2, <1>3, <1>4, StillListed DEF Known
<1>6. CtrlWaits' /\ Resting'
    BY <1>2, <1>3 DEF KInv, CtrlWaits, Resting, AllOff
<1>7. Faked' /\ Unheard'
    BY <1>2, <1>3, <1>4 DEF KInv, Faked, Unheard, On, Codes
<1> QED
    BY <1>5, <1>6, <1>7 DEF KInv

LEMMA BlurKnown == Inv /\ KInv /\ WindowBlur => KInv'
<1> SUFFICES ASSUME Inv, KInv, WindowBlur PROVE KInv'
    OBVIOUS
<1>1. TypeOK /\ Safe(c) /\ ExtendedOK
    BY InvIs
<1>2. UNCHANGED <<platform, held, fake, muted>> /\ c' = IF c.viewOnly THEN c ELSE AllKeysUp(c)
    BY DEF WindowBlur, environment
<1>3. AllOff(c')
    BY <1>1, <1>2, AllUp DEF KInv, Resting, AllOff, On
<1>4. Faked' /\ muted' \subseteq held' /\ muted' \subseteq Codes /\ (muted' # {} => platform = "mac")
    BY <1>1, <1>2 DEF KInv, Faked, Unheard, TypeOK
<1> QED
    BY <1>1, <1>2, <1>3, <1>4, OffKnown

LEMMA ViewOnlyKnown ==
    ASSUME Inv, KInv, NEW v \in BOOLEAN, SetViewOnly(v)
    PROVE  KInv'
<1> DEFINE s == [c EXCEPT !.viewOnly = v]
           r == AllKeysUp(s)
<1>1. TypeOK /\ Safe(c) /\ c \in Client /\ ExtendedOK
    BY InvIs
<1>2. /\ UNCHANGED <<platform, held, fake, muted>> /\ v # c.viewOnly
      /\ c' = IF v THEN [r EXCEPT !.lost = s.down] ELSE s
    BY DEF SetViewOnly, environment
<1>3. /\ s \in Client /\ s.list = c.list /\ s.armed = c.armed /\ s.down = c.down /\ s.lost = c.lost
    BY <1>1 DEF Client
<1> HIDE DEF s
<1>4. Safe(s)
    BY <1>1, <1>3 DEF Safe, Covered, Tracked
<1>5. r \in Client /\ ~r.armed /\ \A k \in Codes : r.list[k] = Up
    BY <1>1, <1>4, AllUp
<1> HIDE DEF r
<1>6. AllOff(c')
  <2>1. CASE v
    <3>1. c'.list = r.list /\ c'.armed = r.armed
        BY <1>2, <1>5, <2>1 DEF Client
    <3> QED
        BY <1>5, <3>1 DEF AllOff, On
  <2>2. CASE ~v
    <3>1. c.viewOnly /\ c' = s
        BY <1>1, <1>2, <2>2 DEF Client
    <3> QED
        BY <1>3, <3>1 DEF KInv, Resting, AllOff, On
  <2> QED
      BY <2>1, <2>2
<1>7. Faked' /\ muted' \subseteq held' /\ muted' \subseteq Codes /\ (muted' # {} => platform = "mac")
    BY <1>1, <1>2 DEF KInv, Faked, Unheard, TypeOK
<1> QED
    BY <1>1, <1>2, <1>6, <1>7, OffKnown

LEMMA InitKnown == Init => KInv
<1> SUFFICES ASSUME Init PROVE KInv
    OBVIOUS
<1>1. ~c.armed /\ ~c.viewOnly /\ \A k \in Codes : ~On(c, k)
    BY DEF Init, On
<1>2. "Lang1" \in Codes /\ held = {} /\ fake = "none" /\ muted = {} /\ focus = "canvas"
    BY DEF Init, Codes
<1> QED
    BY <1>1, <1>2 DEF KInv, Listed, CtrlWaits, Resting, Faked, Unheard

LEMMA NextKnown == Inv /\ KInv /\ [Next]_vars => KInv'
<1> SUFFICES ASSUME Inv, KInv, [Next]_vars PROVE KInv'
    OBVIOUS
<1>1. TypeOK
    BY InvIs
<1>2. ASSUME NEW k \in Codes, NEW quick \in BOOLEAN, PressKey(k, quick) PROVE KInv'
  <2>1. k \in Physical /\ fake # "first" /\ fake' = fake /\ k \notin held /\ focus = "canvas"
      BY <1>1, <1>2, KeysAssumption DEF PressKey, TypeOK
  <2> QED
      BY <1>2, <2>1, PressKnown DEF PressKey
<1>3. CASE FakeCtrl
    BY <1>3, FakeCtrlKnown
<1>4. CASE AltGrFollows
    BY <1>4, PressKnown DEF AltGrFollows, Physical, Codes
<1>5. ASSUME NEW k \in Codes, Repeat(k) PROVE KInv'
    BY <1>5, RepeatKnown
<1>6. ASSUME NEW k \in Codes, ReleaseKey(k) PROVE KInv'
    BY <1>6, ReleaseKnown
<1>7. CASE AltGrTimeout
    BY <1>7, TimeoutKnown
<1>8. CASE WindowBlur
    BY <1>8, BlurKnown
<1>9. CASE FocusMoves
  <2>1. UNCHANGED <<platform, held, fake, muted, strayed, c>> /\ focus' # "away"
      BY <1>9 DEF FocusMoves, environment
  <2> QED
      BY <2>1 DEF KInv, Listed, CtrlWaits, Resting, Faked, Unheard, Known, Stands, CodeOf
<1>10. ASSUME NEW v \in BOOLEAN, SetViewOnly(v) PROVE KInv'
    BY <1>10, ViewOnlyKnown
<1>11. CASE SendCtrlAltDel \/ PinchZoom
  <2>1. UNCHANGED <<platform, held, focus, fake, muted, strayed>>
      BY <1>11 DEF SendCtrlAltDel, PinchZoom, environment
  <2> QED
      BY <1>11, <2>1, ButtonInv, PinchInv, SameKnown
<1>12. CASE ServerReports \/ HandleLedEvent \/ \E l \in Reported[platform] : ServerToggles(l)
  <2>1. UNCHANGED <<platform, held, focus, fake, muted, strayed>>
      BY <1>12 DEF ServerReports, HandleLedEvent, ServerToggles, environment
  <2> QED
      BY <1>12, <2>1, LocksInv, SameKnown
<1>13. CASE UNCHANGED vars
  <2>1. UNCHANGED <<platform, held, focus, fake, muted, strayed>> /\ SameList(c, c')
      BY <1>13 DEF vars, environment, SameList
  <2> QED
      BY <2>1, SameKnown
<1> QED
    BY <1>2, <1>3, <1>4, <1>5, <1>6, <1>7, <1>8, <1>9, <1>10, <1>11, <1>12, <1>13 DEF Next

\* Nothing that is still listed is unaccounted for once the user's hands are off.
LEMMA RestReleases == Inv /\ KInv => NothingStuck
<1> SUFFICES ASSUME Inv, KInv,
                    \/ held = {} /\ strayed = {} /\ ~c.armed
                    \/ focus = "away"
             PROVE  c.down \subseteq c.lost
    BY DEF NothingStuck
<1>1. \A code \in Codes : ~On(c, code)
  <2>1. CASE focus = "away"
      BY <2>1 DEF KInv, Resting, AllOff
  <2>2. CASE held = {} /\ strayed = {} /\ ~c.armed
    <3>1. Known = {}
        BY <2>2 DEF KInv, Faked, Known
    <3> QED
        BY <3>1 DEF KInv, Listed
  <2> QED
      BY <2>1, <2>2
<1>2. Tracked(c) = {}
    BY <1>1 DEF Tracked, On
<1> QED
    BY <1>2 DEF Inv, DownIsTracked

\* With no key physically down, or the window without the focus, none is down at
\* the server: on any keyboard, however many keys are held at once.
THEOREM NothingStaysDown == Spec => []NothingStuck
<1>1. Init => Inv /\ KInv
    BY InitInv, InitKnown
<1>2. Inv /\ KInv /\ [Next]_vars => (Inv /\ KInv)'
    BY NextInv, NextKnown
<1> QED
    BY <1>1, <1>2, RestReleases, PTL DEF Spec

----------------------------------------------------------------------------
(***************************************************************************)
(* The locks: what the client knows of the server's is true unless a       *)
(* report is still to come, so a letter's event corrects them.             *)
(***************************************************************************)

\* What a lock key is at the server.
KeysOf(l) == {l, LockKey(l)}

\* The server owes a report of what it changed; the client only forgets.
Reports(s, t) ==
    /\ s.report => t.report
    /\ ~t.report => t.lock = s.lock
    /\ \A l \in Locks : t.known[l] = None \/ t.known[l] = s.known[l]

LEMMA ReportsChain ==
    ASSUME NEW s, NEW t, NEW u, Reports(s, t), Reports(t, u)
    PROVE  Reports(s, u)
  BY DEF Reports

LEMMA KeysOfIs == "Caps_Lock" \in KeysOf("CapsLock") /\ KeysOf("CapsLock") \cap KeysOf("NumLock") = {}
  BY DEF KeysOf, LockKey

LEMMA ServerGetsLocks ==
    ASSUME NEW s \in Client, NEW key \in ServerKeys, NEW down \in BOOLEAN
    PROVE  LET t == ServerGets(s, key, down)
           IN /\ Reports(s, t)
              /\ \A l \in Locks : t.lock[l] = IF down /\ key \in KeysOf(l) /\ key \notin s.down
                                              THEN Flip(s.lock[l]) ELSE s.lock[l]
<1> DEFINE hit == {l \in Locks : key \in {l, LockKey(l)} /\ key \notin s.down}
           flipped == [l \in Locks |-> IF l \in hit THEN Flip(s.lock[l]) ELSE s.lock[l]]
           t == ServerGets(s, key, down)
<1>1. CASE down
  <2>1. t = [s EXCEPT !.down = @ \cup {key}, !.report = @ \/ hit # {}, !.lock = flipped]
      BY <1>1 DEF ServerGets
  <2>2. hit = {} => flipped = s.lock
      BY DEF Client, Lock
  <2>3. \A l \in Locks : flipped[l] = IF key \in KeysOf(l) /\ key \notin s.down
                                      THEN Flip(s.lock[l]) ELSE s.lock[l]
      BY DEF KeysOf
  <2> HIDE DEF hit, flipped, t
  <2>4. t.report = (s.report \/ hit # {}) /\ t.lock = flipped /\ t.known = s.known
      BY <2>1 DEF Client
  <2> QED
      BY <1>1, <2>2, <2>3, <2>4 DEF Reports, t
<1>2. CASE ~down
  <2>1. t = [s EXCEPT !.down = @ \ {key}, !.lost = @ \ {key}]
      BY <1>2 DEF ServerGets
  <2> HIDE DEF t
  <2>2. t.report = s.report /\ t.lock = s.lock /\ t.known = s.known
      BY <2>1 DEF Client
  <2> QED
      BY <1>2, <2>2 DEF Reports, t
<1> QED
    BY <1>1, <1>2

LEMMA SendKeyLocks ==
    ASSUME ExtendedOK, NEW s \in Client, NEW keysym \in Named, NEW code \in Sent,
           NEW down \in BOOLEAN
    PROVE  LET t == SendKey(s, keysym, code, down)
               key == AtServer(keysym, code)
           IN /\ t \in Client /\ Reports(s, t) /\ t.known = s.known
              /\ \A l \in Locks : (~down \/ key \notin KeysOf(l)) => t.lock[l] = s.lock[l]
              /\ ~s.viewOnly /\ down /\ keysym # None => 
                   \A l \in Locks : key \in KeysOf(l) /\ key \notin s.down => t.lock[l] = Flip(s.lock[l])
<1> DEFINE t == SendKey(s, keysym, code, down)
           key == AtServer(keysym, code)
<1>1. t \in Client /\ t.known = s.known
    BY SendKeyIs
<1>2. CASE t = s /\ (s.viewOnly \/ keysym = None)
    BY <1>1, <1>2 DEF Reports
<1>3. CASE t = ServerGets(s, key, down) /\ key \in ServerKeys
  <2> HIDE DEF key
  <2>1. /\ Reports(s, t)
        /\ \A l \in Locks : t.lock[l] = IF down /\ key \in KeysOf(l) /\ key \notin s.down
                                        THEN Flip(s.lock[l]) ELSE s.lock[l]
      BY <1>3, ServerGetsLocks
  <2> QED
      BY <1>1, <2>1 DEF key
<1>4. \/ t = s /\ (s.viewOnly \/ keysym = None)
      \/ t = ServerGets(s, key, down) /\ key \in ServerKeys
    BY DEF SendKey, AtServer, ServerKeys, Named, Sent, Keysyms
<1> QED
    BY <1>2, <1>3, <1>4

\* A lock key pressed and released: its lock is flipped, and no other.
LEMMA PressLocks ==
    ASSUME ExtendedOK, NEW s \in Client, NEW l \in Locks
    PROVE  LET t == SendKey(SendKey(s, LockKey(l), l, TRUE), LockKey(l), l, FALSE)
           IN /\ t \in Client /\ Reports(s, t) /\ t.known = s.known
              /\ \A m \in Locks \ {l} : t.lock[m] = s.lock[m]
              /\ ~s.viewOnly /\ s.down \cap KeysOf(l) = {} => t.lock[l] = Flip(s.lock[l])
<1> DEFINE key == AtServer(LockKey(l), l)
           t1 == SendKey(s, LockKey(l), l, TRUE)
           t == SendKey(t1, LockKey(l), l, FALSE)
<1>1. LockKey(l) \in Named /\ l \in Sent /\ LockKey(l) # None
    BY DEF LockKey, Named, Keysyms, Sent, Codes, None
<1>2. key \in KeysOf(l) /\ \A m \in Locks \ {l} : key \notin KeysOf(m)
    BY DEF AtServer, KeysOf, LockKey, Locks
<1>3. /\ t1 \in Client /\ Reports(s, t1) /\ t1.known = s.known
      /\ \A m \in Locks : key \notin KeysOf(m) => t1.lock[m] = s.lock[m]
      /\ ~s.viewOnly => \A m \in Locks : key \in KeysOf(m) /\ key \notin s.down => t1.lock[m] = Flip(s.lock[m])
    BY <1>1, SendKeyLocks
<1> HIDE DEF t1, key
<1>4. /\ t \in Client /\ Reports(t1, t) /\ t.known = t1.known
      /\ \A m \in Locks : t.lock[m] = t1.lock[m]
    BY <1>1, <1>3, SendKeyLocks
<1> HIDE DEF t
<1>5. Reports(s, t)
    BY <1>3, <1>4, ReportsChain
<1> QED
    BY <1>2, <1>3, <1>4, <1>5 DEF t, t1

\* What is known of lock l is true, and its key is not down.
Knows(s, l) == s.known[l] # None /\ s.known[l] = s.lock[l] /\ s.down \cap KeysOf(l) = {}

LEMMA SyncLockLocks ==
    ASSUME ExtendedOK, NEW s \in Client, NEW l \in Locks, NEW code \in Codes,
           NEW state, NEW down \in BOOLEAN
    PROVE  LET t == SyncLock(s, l, code, state, down)
           IN /\ t \in Client /\ Reports(s, t)
              /\ \A m \in Locks \ {l} : t.lock[m] = s.lock[m] /\ (Knows(s, m) => Knows(t, m))
              /\ Takes(s) /\ Knows(s, l) /\ down /\ code # l /\ state \in {"on", "off"}
                   => t.lock[l] = state
<1> DEFINE r == IF code = l /\ down THEN [s EXCEPT !.known[l] = None] ELSE s
           p == SendKey(SendKey(r, LockKey(l), l, TRUE), LockKey(l), l, FALSE)
           q == [p EXCEPT !.known[l] = None]
           t == SyncLock(s, l, code, state, down)
<1>1. /\ r \in Client /\ Reports(s, r) /\ r.lock = s.lock /\ r.down = s.down /\ r.viewOnly = s.viewOnly
      /\ \A m \in Locks \ {l} : r.known[m] = s.known[m]
      /\ code # l => r = s
    BY DEF Client, Reports
<1>2. t = IF down /\ r.known[l] # None /\ state # None /\ r.known[l] # state THEN q ELSE r
    BY DEF SyncLock
<1>3. t \in Client /\ Shrinks(s, t)
    BY SyncLockIs
<1> HIDE DEF r
<1>4. /\ p \in Client /\ Reports(r, p) /\ p.known = r.known
      /\ \A m \in Locks \ {l} : p.lock[m] = r.lock[m]
      /\ ~r.viewOnly /\ r.down \cap KeysOf(l) = {} => p.lock[l] = Flip(r.lock[l])
    BY <1>1, PressLocks
<1> HIDE DEF p
<1>5. /\ q.lock = p.lock /\ q.report = p.report /\ q.known[l] = None
      /\ \A m \in Locks \ {l} : q.known[m] = p.known[m]
    BY <1>4 DEF Client
<1> HIDE DEF q, t
<1>6. Reports(s, q)
  <2>1. Reports(s, p)
      BY <1>1, <1>4, ReportsChain
  <2> QED
      BY <1>4, <1>5, <2>1 DEF Reports
<1>7. t = r \/ t = q
    BY <1>2
<1>8. Reports(s, t)
    BY <1>1, <1>6, <1>7
<1>9. ASSUME NEW m \in Locks \ {l}
      PROVE  t.lock[m] = s.lock[m] /\ (Knows(s, m) => Knows(t, m))
  <2>1. t.lock[m] = s.lock[m] /\ t.known[m] = s.known[m]
      BY <1>1, <1>4, <1>5, <1>7
  <2>2. s.down \cap KeysOf(m) = {} => t.down \cap KeysOf(m) = {}
      BY <1>3 DEF Shrinks
  <2> QED
      BY <2>1, <2>2 DEF Knows
<1>10. ASSUME Takes(s), Knows(s, l), down, code # l, state \in {"on", "off"}
       PROVE  t.lock[l] = state
  <2>1. r = s /\ s.lock[l] \in {"on", "off"} /\ r.known[l] # None /\ state # None
      BY <1>1, <1>10 DEF Client, Lock, Knows, None
  <2>2. CASE r.known[l] = state
      BY <1>2, <1>10, <2>1, <2>2 DEF Knows
  <2>3. CASE r.known[l] # state
    <3>1. t = q
        BY <1>2, <1>10, <2>1, <2>3
    <3>2. q.lock[l] = Flip(s.lock[l])
        BY <1>4, <1>5, <1>10, <2>1 DEF Knows, Takes
    <3>3. Flip(s.lock[l]) = state
        BY <1>10, <2>1, <2>3 DEF Flip, Knows
    <3> QED
        BY <3>1, <3>2, <3>3
  <2> QED
      BY <2>2, <2>3
<1> QED
    BY <1>3, <1>8, <1>9, <1>10 DEF t

LEMMA HandleKeyEventLocks ==
    ASSUME ExtendedOK, NEW s \in Client, NEW keysym \in Named, NEW code \in Codes,
           NEW down \in BOOLEAN, NEW locks
    PROVE  LET t == HandleKeyEvent(s, keysym, code, down, locks)
           IN /\ t \in Client /\ Reports(s, t)
              /\ \A l \in Locks : ~down => t.lock[l] = s.lock[l]
              /\ \A l \in Locks : /\ Takes(s) /\ Knows(s, l) /\ down /\ code \notin Locks
                                  /\ locks[l] \in {"on", "off"} /\ AtServer(keysym, code) \notin KeysOf(l)
                                  => t.lock[l] = locks[l]
<1> DEFINE s1 == SyncLock(s, "CapsLock", code, locks["CapsLock"], down)
           s2 == SyncLock(s1, "NumLock", code, locks["NumLock"], down)
           key == AtServer(keysym, code)
           t == SendKey(s2, keysym, code, down)
<1>1. "CapsLock" \in Locks /\ "NumLock" \in Locks /\ code \in Sent
      /\ Locks \ {"CapsLock"} = {"NumLock"} /\ Locks \ {"NumLock"} = {"CapsLock"}
    BY DEF Locks, Sent
<1>2. /\ s1 \in Client /\ Reports(s, s1)
      /\ s1.lock["NumLock"] = s.lock["NumLock"] /\ (Knows(s, "NumLock") => Knows(s1, "NumLock"))
      /\ Takes(s) /\ Knows(s, "CapsLock") /\ down /\ code # "CapsLock" /\ locks["CapsLock"] \in {"on", "off"}
           => s1.lock["CapsLock"] = locks["CapsLock"]
    BY <1>1, SyncLockLocks
<1>3. SameList(s, s1) /\ (~down => s1 = s)
  <2>1. ~down => s1 = s
      BY DEF SyncLock
  <2>2. SameList(s, s1)
      BY <1>1, SyncLockIs
  <2> QED
      BY <2>1, <2>2
<1> HIDE DEF s1
<1>4. /\ s2 \in Client /\ Reports(s1, s2)
      /\ s2.lock["CapsLock"] = s1.lock["CapsLock"]
      /\ Takes(s1) /\ Knows(s1, "NumLock") /\ down /\ code # "NumLock" /\ locks["NumLock"] \in {"on", "off"}
           => s2.lock["NumLock"] = locks["NumLock"]
    BY <1>1, <1>2, SyncLockLocks
<1>5. ~down => s2 = s1
    BY DEF SyncLock
<1> HIDE DEF s2, key
<1>6. /\ t \in Client /\ Reports(s2, t)
      /\ \A l \in Locks : (~down \/ key \notin KeysOf(l)) => t.lock[l] = s2.lock[l]
    BY <1>1, <1>4, SendKeyLocks DEF key
<1>7. HandleKeyEvent(s, keysym, code, down, locks) = t
    BY DEF HandleKeyEvent, t, s2, s1
<1> HIDE DEF t
<1>8. Reports(s, t)
    BY <1>2, <1>4, <1>6, ReportsChain
<1>9. ASSUME NEW l \in Locks, Takes(s), Knows(s, l), down, code \notin Locks,
             locks[l] \in {"on", "off"}, key \notin KeysOf(l)
      PROVE  t.lock[l] = locks[l]
  <2>1. CASE l = "CapsLock"
      BY <1>1, <1>2, <1>4, <1>6, <1>9, <2>1
  <2>2. CASE l = "NumLock"
    <3>1. Takes(s1)
        BY <1>3, <1>9 DEF SameList, Takes
    <3> QED
        BY <1>1, <1>2, <1>4, <1>6, <1>9, <2>2, <3>1
  <2> QED
      BY <1>1, <2>1, <2>2
<1> QED
    BY <1>3, <1>5, <1>6, <1>7, <1>8, <1>9 DEF key

\* A letter is listed under no other name than a letter's.
Letters == {"KeyA", "Platform65"}
LetterNames == {Up, None, "a", "A"}
Lettered(s) == \A k \in Letters : s.list[k] \in LetterNames

\* The reports on their way end with the locks as they are, or one more is owed.
LocksKnown ==
    c.report \/ (IF leds = <<>> THEN \A l \in Locks : c.known[l] = None \/ c.known[l] = c.lock[l]
                 ELSE leds[Len(leds)] = c.lock)

LInv == LocksKnown /\ Lettered(c)

LEMMA SendKeyEventReports ==
    ASSUME ExtendedOK, NEW s \in Client, NEW keysym \in Named \cup {Up}, NEW code \in Codes,
           NEW down \in BOOLEAN, NEW locks, keysym = Up => ~down /\ s.list[code] = Up
    PROVE  LET t == SendKeyEvent(s, keysym, code, down, locks)
           IN t \in Client /\ Reports(s, t) /\ t.list = IF down THEN Put(s.list, code, keysym) ELSE Put(s.list, code, Up)
<1> DEFINE v == IF down THEN keysym ELSE Up
           r == [s EXCEPT !.list[code] = v]
           t == SendKeyEvent(s, keysym, code, down, locks)
           h == HandleKeyEvent(r, keysym, code, down, locks)
<1>1. /\ r \in Client /\ r.list = Put(s.list, code, v)
      /\ r.report = s.report /\ r.lock = s.lock /\ r.known = s.known
    BY DEF Client, Named, Put
<1>2. \/ t = h /\ keysym \in Named
      \/ ~down /\ s.list[code] = Up /\ t = s
    BY DEF SendKeyEvent
<1> HIDE DEF r, t
<1>3. CASE t = h /\ keysym \in Named
  <2>1. h \in Client /\ Reports(r, h) /\ SameList(r, h)
      BY <1>1, <1>3, HandleKeyEventLocks, HandleKeyEventIs
  <2> HIDE DEF h
  <2> QED
      BY <1>1, <1>3, <2>1 DEF Reports, SameList, t
<1>4. CASE ~down /\ s.list[code] = Up /\ t = s
  <2>1. s.list = Put(s.list, code, Up)
      BY <1>4 DEF Client, Put
  <2> QED
      BY <1>4, <2>1 DEF Reports, t
<1> QED
    BY <1>2, <1>3, <1>4

LEMMA ClickReports ==
    ASSUME ExtendedOK, NEW s \in Client, NEW keysym \in Named, NEW code \in Codes, NEW locks
    PROVE  LET t == Click(s, keysym, code, locks)
           IN t \in Client /\ Reports(s, t) /\ t.list = Put(s.list, code, Up)
<1> DEFINE r == SendKeyEvent(s, keysym, code, TRUE, locks)
           t == SendKeyEvent(r, keysym, code, FALSE, locks)
<1>1. keysym \in Named \cup {Up} /\ keysym # Up
    BY DEF Named, Keysyms, None, Up
<1>2. r \in Client /\ Reports(s, r) /\ r.list = Put(s.list, code, keysym)
    BY <1>1, SendKeyEventReports
<1> HIDE DEF r
<1>3. t \in Client /\ Reports(r, t) /\ t.list = Put(r.list, code, Up)
    BY <1>1, <1>2, SendKeyEventReports
<1>4. Put(r.list, code, Up) = Put(s.list, code, Up)
    BY <1>2 DEF Client, Put
<1>5. Click(s, keysym, code, locks) = t
    BY DEF Click, t, r
<1> HIDE DEF t
<1> QED
    BY <1>2, <1>3, <1>4, <1>5, ReportsChain

LEMMA DisarmedReports ==
    ASSUME NEW s \in Client, NEW v \in BOOLEAN
    PROVE  LET t == [s EXCEPT !.armed = v]
           IN t \in Client /\ Reports(s, t) /\ t.list = s.list
  BY DEF Client, Reports

\* What the two ends of the AltGr sequence do.
LEMMA EndsReports ==
    ASSUME ExtendedOK, NEW s \in Client, NEW e, NEW code
    PROVE  /\ LET t == EndAltGr(s, e, code)
              IN t \in Client /\ Reports(s, t) /\ \A k \in Letters : t.list[k] = s.list[k]
           /\ LET t == InterruptAltGrSequence(s)
              IN t \in Client /\ Reports(s, t) /\ \A k \in Letters : t.list[k] = s.list[k]
<1> DEFINE r == [s EXCEPT !.armed = FALSE]
           t(locks) == SendKeyEvent(r, "Control_L", "ControlLeft", TRUE, locks)
<1>1. r \in Client /\ Reports(s, r) /\ r.list = s.list
    BY DisarmedReports
<1>2. "Control_L" \in Named \cup {Up} /\ "Control_L" # Up /\ "ControlLeft" \in Codes
      /\ Letters \subseteq Codes \ {"ControlLeft"}
    BY DEF Named, Keysyms, Up, Codes, Letters
<1>3. ASSUME NEW locks
      PROVE  t(locks) \in Client /\ Reports(s, t(locks)) /\ \A k \in Letters : t(locks).list[k] = s.list[k]
  <2> DEFINE u == t(locks)
  <2> HIDE DEF r
  <2>1. u \in Client /\ Reports(r, u) /\ u.list = Put(r.list, "ControlLeft", "Control_L")
    <3>1. r \in Client
        BY <1>1
    <3> QED
        BY <1>2, <3>1, SendKeyEventReports, ZenonT(40)
  <2> HIDE DEF u
  <2>2. ASSUME NEW k \in Letters PROVE u.list[k] = s.list[k]
    <3>1. k \in Codes /\ k # "ControlLeft"
        BY <1>2
    <3>2. DOMAIN r.list = Codes
        BY <1>1 DEF Client
    <3>3. u.list[k] = r.list[k]
        BY <2>1, <3>1, <3>2 DEF Put
    <3> QED
        BY <1>1, <3>3
  <2> QED
      BY <1>1, <2>1, <2>2, ReportsChain DEF u
<1> HIDE DEF t
<1>4. EndAltGr(s, e, code) = t(e.locks) \/ EndAltGr(s, e, code) = r
    BY DEF EndAltGr, t
<1>5. InterruptAltGrSequence(s) = t(Unknown) \/ InterruptAltGrSequence(s) = s
    BY DEF InterruptAltGrSequence, t
<1>6. Reports(s, s)
    BY DEF Reports
<1> HIDE DEF r
<1> QED
    BY <1>1, <1>3, <1>4, <1>5, <1>6

LEMMA KeyDownReports ==
    ASSUME ExtendedOK, NEW s \in Client, NEW e, EventOK(e), Lettered(s),
           GetKeyCode(e) \in Letters => e.keysym \in {None, "a", "A"}
    PROVE  LET u == KeyDownHandler(s, e) IN Reports(s, u) /\ Lettered(u)
<1> DEFINE code == GetKeyCode(e)
           keysym == KeysymFor(s, e, code)
           t == EndAltGr(s, e, code)
           u == KeyDownHandler(s, e)
<1>1. code \in Codes /\ e.keysym \in Named /\ "Caps_Lock" \in Named
    BY DEF EventOK, Named, Keysyms
<1> HIDE DEF code
<1>2. keysym \in Named
  <2>1. CASE s.list[code] # Up
      BY <1>1, <2>1 DEF KeysymFor, Client, Named
  <2>2. CASE s.list[code] = Up
      BY <1>1, <2>2 DEF KeysymFor, Shuffle, Named, Keysyms
  <2> QED
      BY <2>1, <2>2
<1>3. code \in Letters => keysym \in LetterNames
  <2>1. CASE s.list[code] # Up
      BY <2>1 DEF KeysymFor, Lettered
  <2>2. CASE s.list[code] = Up
      BY <2>2 DEF KeysymFor, Shuffle, Letters, LetterNames, None, code
  <2> QED
      BY <2>1, <2>2
<1> HIDE DEF keysym
<1>4. t \in Client /\ Reports(s, t) /\ \A k \in Letters : t.list[k] = s.list[k]
    BY EndsReports
<1>5. Lettered(t)
    BY <1>4 DEF Lettered
<1>6. \/ u = t
      \/ \E v \in Named : u = Click(t, v, code, e.locks)
      \/ u = [t EXCEPT !.armed = TRUE]
      \/ u = SendKeyEvent(t, keysym, code, TRUE, e.locks)
    BY <1>1, <1>2 DEF KeyDownHandler, code, keysym
<1> HIDE DEF t, u
<1>7. ASSUME NEW v, u.list = Put(t.list, code, v), v = Up \/ v = keysym
      PROVE  Lettered(u)
  <2>1. Letters \subseteq Codes /\ Up \in LetterNames
      BY DEF Letters, LetterNames, Codes
  <2>2. \A k \in Codes : u.list[k] = IF k = code THEN v ELSE t.list[k]
      BY <1>1, <1>4, <1>7 DEF Put, Client
  <2> QED
      BY <1>3, <1>5, <1>7, <2>1, <2>2 DEF Lettered
<1>8. CASE u = t
    BY <1>4, <1>5, <1>8 DEF u
<1>9. ASSUME NEW v \in Named, u = Click(t, v, code, e.locks) PROVE Reports(s, u) /\ Lettered(u)
  <2>1. Reports(t, u) /\ u.list = Put(t.list, code, Up)
      BY <1>1, <1>4, <1>9, ClickReports
  <2> QED
      BY <1>4, <1>7, <2>1, ReportsChain
<1>10. CASE u = [t EXCEPT !.armed = TRUE]
  <2>1. Reports(t, u) /\ u.list = t.list
      BY <1>4, <1>10, DisarmedReports
  <2> QED
      BY <1>4, <1>5, <2>1, ReportsChain DEF Lettered, u
<1>11. CASE u = SendKeyEvent(t, keysym, code, TRUE, e.locks)
  <2>1. keysym \in Named \cup {Up} /\ keysym # Up
      BY <1>2 DEF Named, Keysyms, None, Up
  <2>2. Reports(t, u) /\ u.list = Put(t.list, code, keysym)
      BY <1>1, <1>4, <1>11, <2>1, SendKeyEventReports
  <2> QED
      BY <1>4, <1>7, <2>2, ReportsChain DEF u
<1> QED
    BY <1>6, <1>8, <1>9, <1>10, <1>11 DEF u

LEMMA UpReports ==
    ASSUME ExtendedOK, NEW s \in Client, Lettered(s), NEW code \in Codes
    PROVE  LET t == SendKeyEvent(s, s.list[code], code, FALSE, Unknown)
           IN t \in Client /\ Reports(s, t) /\ Lettered(t)
<1> DEFINE v == s.list[code]
           t == SendKeyEvent(s, v, code, FALSE, Unknown)
<1>1. v \in Named \cup {Up} /\ (v = Up => s.list[code] = Up)
    BY DEF Client, Named
<1> HIDE DEF v
<1>2. t \in Client /\ Reports(s, t) /\ t.list = Put(s.list, code, Up)
    BY <1>1, SendKeyEventReports, ZenonT(60)
<1> HIDE DEF t
<1>3. Lettered(t)
  <2>1. Letters \subseteq Codes /\ Up \in LetterNames
      BY DEF Letters, LetterNames, Codes
  <2> QED
      BY <1>2, <2>1 DEF Lettered, Put, Client
<1> QED
    BY <1>2, <1>3 DEF t, v

LEMMA KeyUpReports ==
    ASSUME ExtendedOK, NEW s \in Client, NEW e, EventOK(e), Lettered(s)
    PROVE  LET u == KeyUpHandler(s, e) IN u \in Client /\ Reports(s, u) /\ Lettered(u)
<1> DEFINE up(r, k) == SendKeyEvent(r, r.list[k], k, FALSE, Unknown)
           code == GetKeyCode(e)
           t == InterruptAltGrSequence(s)
           u == KeyUpHandler(s, e)
           t1 == up(t, code)
           t2 == up(t1, "ShiftRight")
           t3 == up(t2, "ShiftLeft")
<1>1. t \in Client /\ Reports(s, t) /\ Lettered(t)
    BY EndsReports DEF Lettered
<1>2. code \in Codes /\ "ShiftRight" \in Codes /\ "ShiftLeft" \in Codes /\ "Caps_Lock" \in Named
    BY DEF EventOK, Codes, Shifts, Named, Keysyms
<1>3. \/ u = Click(t, "Caps_Lock", code, Unknown)
      \/ u = t1
      \/ u = t3
    BY DEF KeyUpHandler
<1> HIDE DEF t, u, code
<1>4. t1 \in Client /\ Reports(t, t1) /\ Lettered(t1)
    BY <1>1, <1>2, UpReports
<1> HIDE DEF t1
<1>5. t2 \in Client /\ Reports(t1, t2) /\ Lettered(t2)
    BY <1>2, <1>4, UpReports
<1> HIDE DEF t2
<1>6. t3 \in Client /\ Reports(t2, t3) /\ Lettered(t3)
    BY <1>2, <1>5, UpReports
<1> HIDE DEF t3
<1>7. Reports(s, t1) /\ Reports(s, t3)
    BY <1>1, <1>4, <1>5, <1>6, ReportsChain
<1>8. CASE u = Click(t, "Caps_Lock", code, Unknown)
  <2>1. u \in Client /\ Reports(t, u) /\ u.list = Put(t.list, code, Up)
      BY <1>1, <1>2, <1>8, ClickReports
  <2>2. Letters \subseteq Codes /\ Up \in LetterNames
      BY DEF Letters, LetterNames, Codes
  <2>3. Lettered(u)
      BY <1>1, <1>2, <2>1, <2>2 DEF Lettered, Put, Client
  <2> QED
      BY <1>1, <2>1, <2>3, ReportsChain DEF u
<1> QED
    BY <1>3, <1>4, <1>6, <1>7, <1>8 DEF u

\* Nothing is on its way but what was: the client's locks decide.
LEMMA ReportsKnown ==
    ASSUME LInv, UNCHANGED leds, Reports(c, c'), Lettered(c')
    PROVE  LInv'
  BY DEF LInv, LocksKnown, Reports

LEMMA AllUpReports ==
    ASSUME ExtendedOK, NEW s \in Client
    PROVE  Reports(s, AllKeysUp(s)) /\ Lettered(AllKeysUp(s)) /\ AllKeysUp(s) \in Client
<1> DEFINE r == InterruptAltGrSequence(s)
           none == [k \in Codes |-> Up]
           down == IF r.viewOnly THEN r.down ELSE r.down \ Tracked(r)
           lost == IF r.viewOnly THEN r.lost ELSE r.lost \ Tracked(r)
           t == [r EXCEPT !.list = none, !.down = down, !.lost = lost]
<1>1. r \in Client /\ Reports(s, r)
    BY EndsReports
<1>2. AllKeysUp(s) = t
    BY DEF AllKeysUp
<1> HIDE DEF r
<1>3. down \in SUBSET ServerKeys /\ lost \in SUBSET ServerKeys
    BY <1>1 DEF Client
<1>4. none \in [Codes -> Keysyms \cup {Up, None}] /\ \A k \in Codes : none[k] = Up
    OBVIOUS
<1> HIDE DEF down, lost, none
<1>5. /\ t \in Client /\ t.list = none /\ t.report = r.report /\ t.lock = r.lock /\ t.known = r.known
    BY <1>1, <1>3, <1>4 DEF Client
<1> HIDE DEF t
<1>6. Reports(s, t)
    BY <1>1, <1>5 DEF Reports
<1>7. Lettered(t)
    BY <1>4, <1>5 DEF Lettered, Letters, LetterNames, Codes
<1> QED
    BY <1>2, <1>5, <1>6, <1>7

LEMMA LetterEvent ==
    ASSUME NEW k \in Physical, NEW locks, NEW quick
    PROVE  LET e == Event(k, locks, quick)
           IN EventOK(e) /\ (GetKeyCode(e) \in Letters => e.keysym \in {None, "a", "A"})
<1> DEFINE e == Event(k, locks, quick)
<1>1. EventOK(e) /\ GetKeyCode(e) = CodeOf(k) /\ e.keysym = KeysymOf(k)
    BY EventIsOK
<1> HIDE DEF e
<1>2. CodeOf(k) \in Letters => k = "KeyA"
    BY DEF CodeOf, Letters, Physical
<1>3. k = "KeyA" => KeysymOf(k) \in {None, "a", "A"}
    BY DEF KeysymOf, Typed, Locks
<1> QED
    BY <1>1, <1>2, <1>3 DEF e

\* A sequence that has nothing after its head is its head.
LEMMA LastOne ==
    ASSUME NEW S, NEW q \in Seq(S), q # <<>>, Tail(q) = <<>>
    PROVE  Len(q) = 1 /\ Head(q) = q[1]
<1>1. Len(q) \in Nat \ {0}
    OBVIOUS
<1>2. Len(Tail(q)) = Len(q) - 1
    BY <1>1
<1>3. Len(<<>>) = 0
    OBVIOUS
<1>4. Len(Tail(q)) = 0
    BY Zenon, <1>3
<1> QED
    BY <1>1, <1>2, <1>4

\* A key's event.
LEMMA EventReports ==
    ASSUME Inv, LInv, NEW k \in Physical, NEW locks, NEW quick
    PROVE  LET e == Event(k, locks, quick)
           IN /\ Reports(c, KeyDownHandler(c, e)) /\ Lettered(KeyDownHandler(c, e))
              /\ Reports(c, KeyUpHandler(c, e)) /\ Lettered(KeyUpHandler(c, e))
              /\ KeyUpHandler(c, e) \in Client
<1> DEFINE e == Event(k, locks, quick)
<1>1. c \in Client /\ ExtendedOK /\ Lettered(c)
    BY InvIs DEF LInv
<1>2. EventOK(e) /\ (GetKeyCode(e) \in Letters => e.keysym \in {None, "a", "A"})
    BY LetterEvent
<1> HIDE DEF e
<1>3. Reports(c, KeyDownHandler(c, e)) /\ Lettered(KeyDownHandler(c, e))
    BY <1>1, <1>2, KeyDownReports
<1>4. Reports(c, KeyUpHandler(c, e)) /\ Lettered(KeyUpHandler(c, e)) /\ KeyUpHandler(c, e) \in Client
    BY <1>1, <1>2, KeyUpReports
<1> QED
    BY <1>3, <1>4 DEF e

LEMMA SameReports == LInv => Reports(c, c) /\ Lettered(c)
  BY DEF LInv, Reports

LEMMA ReleaseLocks ==
    ASSUME Inv, LInv, NEW k \in Codes, ReleaseKey(k)
    PROVE  LInv'
<1> DEFINE ctrl == Event("ControlLeft", local, FALSE)
           s == IF k = "AltRight" /\ fake = "made" THEN KeyUpHandler(c, ctrl) ELSE c
           e == Event(k, local, FALSE)
<1>1. k \in Physical /\ "ControlLeft" \in Physical /\ c \in Client /\ ExtendedOK
    BY InvIs DEF ReleaseKey, TypeOK, Physical, Codes
<1>2. leds' = leds /\ (c' = c \/ c' = KeyUpHandler(s, e))
    BY DEF ReleaseKey
<1>3. s \in Client /\ Reports(c, s) /\ Lettered(s)
    BY <1>1, EventReports, SameReports
<1> HIDE DEF s
<1>4. EventOK(e)
    BY <1>1, LetterEvent
<1> HIDE DEF e
<1>5. Reports(s, KeyUpHandler(s, e)) /\ Lettered(KeyUpHandler(s, e))
    BY <1>1, <1>3, <1>4, KeyUpReports
<1>6. Reports(c, c') /\ Lettered(c')
    BY <1>2, <1>3, <1>5, ReportsChain, SameReports
<1> QED
    BY <1>2, <1>6, ReportsKnown

LEMMA ViewOnlyLocks ==
    ASSUME Inv, LInv, NEW v \in BOOLEAN, SetViewOnly(v)
    PROVE  LInv'
<1> DEFINE s == [c EXCEPT !.viewOnly = v]
           r == AllKeysUp(s)
<1>1. c \in Client /\ ExtendedOK
    BY InvIs
<1>2. leds' = leds /\ c' = IF v THEN [r EXCEPT !.lost = s.down] ELSE s
    BY DEF SetViewOnly
<1>3. /\ s \in Client /\ s.list = c.list /\ s.report = c.report /\ s.lock = c.lock /\ s.known = c.known
    BY <1>1 DEF Client
<1> HIDE DEF s
<1>4. Reports(c, s) /\ Lettered(s)
    BY <1>3 DEF LInv, Lettered, Reports
<1>5. Reports(s, r) /\ Lettered(r) /\ r \in Client
    BY <1>1, <1>3, AllUpReports
<1> HIDE DEF r
<1>6. CASE v
  <2>1. /\ c'.list = r.list /\ c'.report = r.report /\ c'.lock = r.lock /\ c'.known = r.known
      BY <1>2, <1>5, <1>6 DEF Client
  <2>2. Reports(r, c') /\ Lettered(c')
      BY <1>5, <2>1 DEF Reports, Lettered
  <2> QED
      BY <1>2, <1>4, <1>5, <2>2, ReportsChain, ReportsKnown
<1>7. CASE ~v
    BY <1>2, <1>4, <1>7, ReportsKnown
<1> QED
    BY <1>6, <1>7

LEMMA ButtonLocks == Inv /\ LInv /\ SendCtrlAltDel => LInv'
<1> SUFFICES ASSUME Inv, LInv, SendCtrlAltDel PROVE LInv'
    OBVIOUS
<1> DEFINE t1 == SendKey(c, "Control_L", "ControlLeft", TRUE)
           t2 == SendKey(t1, "Alt_L", "AltLeft", TRUE)
           t3 == SendKey(t2, "Delete", "Delete", TRUE)
           t4 == SendKey(t3, "Delete", "Delete", FALSE)
           t5 == SendKey(t4, "Alt_L", "AltLeft", FALSE)
           t6 == SendKey(t5, "Control_L", "ControlLeft", FALSE)
<1>1. c \in Client /\ ExtendedOK /\ SameList(c, c') /\ leds' = leds /\ c' = t6
    BY InvIs, ButtonInv DEF SendCtrlAltDel
<1>2. /\ "Control_L" \in Named /\ "Alt_L" \in Named /\ "Delete" \in Named
      /\ "ControlLeft" \in Sent /\ "AltLeft" \in Sent /\ "Delete" \in Sent
    BY DEF Named, Keysyms, Sent, Codes
<1>3. t1 \in Client /\ Reports(c, t1)
    BY <1>1, <1>2, SendKeyLocks
<1> HIDE DEF t1
<1>4. t2 \in Client /\ Reports(t1, t2)
    BY <1>1, <1>2, <1>3, SendKeyLocks
<1> HIDE DEF t2
<1>5. t3 \in Client /\ Reports(t2, t3)
    BY <1>1, <1>2, <1>4, SendKeyLocks
<1> HIDE DEF t3
<1>6. t4 \in Client /\ Reports(t3, t4)
    BY <1>1, <1>2, <1>5, SendKeyLocks
<1> HIDE DEF t4
<1>7. t5 \in Client /\ Reports(t4, t5)
    BY <1>1, <1>2, <1>6, SendKeyLocks
<1> HIDE DEF t5
<1>8. t6 \in Client /\ Reports(t5, t6)
    BY <1>1, <1>2, <1>7, SendKeyLocks
<1> HIDE DEF t6
<1>9. Reports(c, t6)
    BY <1>3, <1>4, <1>5, <1>6, <1>7, <1>8, ReportsChain
<1>10. Lettered(c')
    BY <1>1 DEF LInv, Lettered, SameList
<1> QED
    BY <1>1, <1>9, <1>10, ReportsKnown

LEMMA PinchLocks == Inv /\ LInv /\ PinchZoom => LInv'
<1> SUFFICES ASSUME Inv, LInv, PinchZoom PROVE LInv'
    OBVIOUS
<1> DEFINE r == HandleKeyEvent(c, "Control_L", "ControlLeft", TRUE, Undefined)
           t(s) == HandleKeyEvent(s, "Control_L", "ControlLeft", FALSE, Undefined)
<1>1. c \in Client /\ ExtendedOK /\ SameList(c, c') /\ leds' = leds
    BY InvIs, PinchInv DEF PinchZoom
<1>2. c' = t(r) \/ c' = t(c)
    BY DEF PinchZoom
<1>3. "Control_L" \in Named /\ "ControlLeft" \in Codes
    BY DEF Named, Keysyms, Codes
<1>4. r \in Client /\ Reports(c, r)
    BY <1>1, <1>3, HandleKeyEventLocks
<1> HIDE DEF r
<1>5. ASSUME NEW s \in Client PROVE Reports(s, t(s))
    BY <1>1, <1>3, HandleKeyEventLocks
<1> HIDE DEF t
<1>6. Reports(c, c')
    BY <1>1, <1>2, <1>4, <1>5, ReportsChain
<1>7. Lettered(c')
    BY <1>1 DEF LInv, Lettered, SameList
<1> QED
    BY <1>1, <1>6, <1>7, ReportsKnown

LEMMA ReportedLocks ==
    Inv /\ LInv /\ (ServerReports \/ HandleLedEvent \/ \E l \in Reported[platform] : ServerToggles(l)) => LInv'
<1> SUFFICES ASSUME Inv, LInv, ServerReports \/ HandleLedEvent \/ \E l \in Reported[platform] : ServerToggles(l)
             PROVE LInv'
    OBVIOUS
<1>1. TypeOK /\ c \in Client /\ SameList(c, c')
    BY InvIs, LocksInv
<1>2. Lettered(c')
    BY <1>1 DEF LInv, Lettered, SameList
<1>3. CASE ServerReports
  <2>1. leds' = Append(leds, c.lock) /\ c'.lock = c.lock /\ leds \in Seq(Lock) /\ c.lock \in Lock
      BY <1>1, <1>3 DEF ServerReports, Client, TypeOK
  <2>2. leds' # <<>> /\ leds'[Len(leds')] = c.lock
      BY <2>1
  <2> QED
      BY <1>2, <2>1, <2>2 DEF LInv, LocksKnown
<1>4. CASE HandleLedEvent
  <2> DEFINE known == [l \in Locks |-> IF l \in Reported[platform] THEN Head(leds)[l] ELSE None]
  <2>1. c' = [c EXCEPT !.known = known] /\ leds' = Tail(leds) /\ leds # <<>> /\ leds \in Seq(Lock)
      BY <1>1, <1>4 DEF HandleLedEvent, LearnLocks, TypeOK
  <2>2. \A l \in Locks : known[l] = None \/ known[l] = Head(leds)[l]
      OBVIOUS
  <2> HIDE DEF known
  <2>3. c'.known = known /\ c'.lock = c.lock /\ c'.report = c.report
      BY <1>1, <2>1 DEF Client
  <2>4. c.report \/ leds[Len(leds)] = c.lock
      BY <2>1 DEF LInv, LocksKnown
  <2>5. CASE leds' = <<>>
    <3>2. Len(leds) = 1 /\ Head(leds) = leds[1]
        BY <2>1, <2>5, LastOne
    <3> QED
        BY <1>2, <2>2, <2>3, <2>4, <2>5, <3>2 DEF LInv, LocksKnown
  <2>6. CASE leds' # <<>>
    <3>1. leds'[Len(leds')] = leds[Len(leds)]
        BY <2>1, <2>6
    <3> QED
        BY <1>2, <2>3, <2>4, <2>6, <3>1 DEF LInv, LocksKnown
  <2> QED
      BY <2>5, <2>6
<1>5. ASSUME NEW l \in Reported[platform], ServerToggles(l) PROVE LInv'
  <2>1. c'.report
      BY <1>1, <1>5 DEF ServerToggles, Client
  <2> QED
      BY <1>2, <2>1 DEF LInv, LocksKnown
<1> QED
    BY <1>3, <1>4, <1>5

LEMMA InitLocks == Init => LInv
  BY DEF Init, LInv, LocksKnown, Lettered, Letters, LetterNames, Codes

LEMMA NextLocks == Inv /\ LInv /\ [Next]_vars => LInv'
<1> SUFFICES ASSUME Inv, LInv, [Next]_vars PROVE LInv'
    OBVIOUS
<1>1. TypeOK /\ c \in Client /\ ExtendedOK /\ "AltRight" \in Physical /\ "ControlLeft" \in Physical
    BY InvIs DEF Physical, Codes
<1>2. ASSUME NEW k \in Physical, NEW quick \in BOOLEAN, Press(k, quick) PROVE LInv'
  <2>1. /\ leds' = leds
        /\ \/ c' = c
           \/ \E locks : \/ c' = KeyUpHandler(c, Event(k, locks, quick))
                         \/ c' = KeyDownHandler(c, Event(k, locks, quick))
      BY <1>2 DEF Press
  <2>2. Reports(c, c') /\ Lettered(c')
      BY <2>1, EventReports, SameReports
  <2> QED
      BY <2>1, <2>2, ReportsKnown
<1>3. ASSUME NEW k \in Codes, NEW quick \in BOOLEAN, PressKey(k, quick) PROVE LInv'
    BY <1>1, <1>2, <1>3, KeysAssumption DEF PressKey, TypeOK
<1>4. CASE FakeCtrl
    BY <1>1, <1>4, EventReports, SameReports, ReportsKnown DEF FakeCtrl
<1>5. CASE AltGrFollows
    BY <1>1, <1>2, <1>5 DEF AltGrFollows
<1>6. ASSUME NEW k \in Codes, Repeat(k) PROVE LInv'
    BY <1>1, <1>6, EventReports, ReportsKnown DEF Repeat, TypeOK
<1>7. ASSUME NEW k \in Codes, ReleaseKey(k) PROVE LInv'
    BY <1>7, ReleaseLocks
<1>8. CASE AltGrTimeout
  <2>1. leds' = leds /\ c' = InterruptAltGrSequence(c)
      BY <1>8 DEF AltGrTimeout
  <2>2. Reports(c, c') /\ Lettered(c')
      BY <1>1, <2>1, EndsReports DEF LInv, Lettered
  <2> QED
      BY <2>1, <2>2, ReportsKnown
<1>9. CASE WindowBlur
    BY <1>1, <1>9, AllUpReports, SameReports, ReportsKnown DEF WindowBlur
<1>10. CASE FocusMoves
    BY <1>10, SameReports, ReportsKnown DEF FocusMoves
<1>11. ASSUME NEW v \in BOOLEAN, SetViewOnly(v) PROVE LInv'
    BY <1>11, ViewOnlyLocks
<1>12. CASE SendCtrlAltDel \/ PinchZoom
    BY <1>12, ButtonLocks, PinchLocks
<1>13. CASE ServerReports \/ HandleLedEvent \/ \E l \in Reported[platform] : ServerToggles(l)
    BY <1>13, ReportedLocks
<1>14. CASE UNCHANGED vars
    BY <1>14, SameReports, ReportsKnown DEF vars
<1> QED
    BY <1>3, <1>4, <1>5, <1>6, <1>7, <1>8, <1>9, <1>10, <1>11, <1>12, <1>13, <1>14 DEF Next

\* A press brings a lock to where the event has it, unless it is the lock's own; a
\* release leaves the locks alone.
Syncs(s, keysym, code, down, locks, l) ==
    LET t == HandleKeyEvent(s, keysym, code, down, locks)
    IN /\ t \in Client
       /\ ~down => t.lock[l] = s.lock[l]
       /\ /\ Takes(s) /\ Knows(s, l) /\ down /\ code \notin Locks
          /\ locks[l] \in {"on", "off"} /\ AtServer(keysym, code) \notin KeysOf(l)
          => t.lock[l] = locks[l]

LEMMA KeySyncs ==
    ASSUME ExtendedOK, NEW s \in Client, NEW keysym \in Named, NEW code \in Codes,
           NEW down \in BOOLEAN, NEW locks, NEW l \in Locks
    PROVE  Syncs(s, keysym, code, down, locks, l)
    BY HandleKeyEventLocks DEF Syncs

\* A letter's event brings the locks of the user's keyboard with it.
LEMMA LetterSyncs ==
    ASSUME Inv, LInv, NEW l \in Locks, NEW quick \in BOOLEAN, PressKey("KeyA", quick), Listening,
           leds = <<>>, ~c.report, c.known[l] # None, ~c.armed,
           ~(platform = "mac" /\ l = "NumLock"), c.down \cap {l, LockKey(l)} = {}
    PROVE  c'.lock[l] = local[l]
<1> DEFINE e == Event("KeyA", local, quick)
           code == GetKeyCode(e)
           keysym == KeysymFor(c, e, code)
           t == EndAltGr(c, e, code)
           h == HandleKeyEvent([t EXCEPT !.list[code] = keysym], keysym, code, TRUE, e.locks)
           r == SendKeyEvent(t, keysym, code, TRUE, e.locks)
           u == SendKeyEvent(r, keysym, code, FALSE, e.locks)
<1>1. TypeOK /\ c \in Client /\ ExtendedOK /\ Lettered(c) /\ "KeyA" \in Physical /\ Letters \subseteq Codes
    BY InvIs DEF LInv, Physical, Codes, Letters
<1>2. c' = KeyDownHandler(c, e)
    BY DEF PressKey, Press, Locks
<1>3. EventOK(e) /\ code \in Letters /\ e.keysym \in {None, "a", "A"}
  <2>1. EventOK(e) /\ code = CodeOf("KeyA")
      BY <1>1, EventIsOK
  <2>2. EventOK(e) /\ (code \in Letters => e.keysym \in {None, "a", "A"})
      BY <1>1, LetterEvent
  <2> HIDE DEF code, e
  <2> QED
      BY <2>1, <2>2 DEF CodeOf, Letters
<1>4. e.locks[l] = local[l] /\ local[l] \in {"on", "off"}
  <2>1. e.locks = IF platform = "mac" THEN [local EXCEPT !["NumLock"] = None] ELSE local
      BY Zenon DEF Event
  <2> HIDE DEF e
  <2> QED
      BY <1>1, <2>1 DEF TypeOK, Lock
<1>5. c' = r \/ c' = u
  <2>1. code # "Unidentified" /\ code # "ControlLeft" /\ code # "CapsLock"
      BY <1>3 DEF Letters
  <2> HIDE DEF code, e, t
  <2> QED
      BY <1>2, <2>1 DEF KeyDownHandler, Click, code, t
<1> HIDE DEF e
<1>6. /\ t \in Client /\ t.list = c.list /\ t.known = c.known /\ t.lock = c.lock /\ t.down = c.down
      /\ t.viewOnly = c.viewOnly
    BY <1>1 DEF EndAltGr, Client
<1>7. keysym \in Named \cap LetterNames /\ keysym # Up
  <2> HIDE DEF code
  <2>1. CASE c.list[code] # Up
      BY <1>1, <1>3, <2>1 DEF KeysymFor, Lettered, Client, Named
  <2>2. CASE c.list[code] = Up
      BY <1>3, <2>2 DEF KeysymFor, Shuffle, Letters, LetterNames, None, Named, Keysyms, Up
  <2> QED
      BY <2>1, <2>2
<1> HIDE DEF code, keysym, t
<1> DEFINE v == [t EXCEPT !.list[code] = keysym]
<1>8. /\ v \in Client /\ v.known = c.known /\ v.lock = c.lock /\ v.down = c.down
      /\ v.viewOnly = c.viewOnly
    BY <1>1, <1>3, <1>6, <1>7 DEF Client, Named
<1>9. r = h
    BY DEF SendKeyEvent, r, h
<1> HIDE DEF v
<1>10. Takes(v) /\ Knows(v, l)
    BY <1>8 DEF Listening, Takes, Knows, KeysOf, LInv, LocksKnown
<1>11. code \notin Locks /\ AtServer(keysym, code) \notin KeysOf(l)
    BY <1>3, <1>7 DEF AtServer, Letters, LetterNames, Locks, KeysOf, LockKey, None, Up
<1>12. h \in Client /\ h.lock[l] = local[l]
  <2> DEFINE locks == e.locks
  <2>1. h = HandleKeyEvent(v, keysym, code, TRUE, locks)
      BY DEF h, v
  <2>2. keysym \in Named /\ code \in Codes /\ TRUE \in BOOLEAN
      BY <1>1, <1>3, <1>7
  <2>3. locks[l] \in {"on", "off"} /\ locks[l] = local[l]
      BY <1>4
  <2> HIDE DEF h, locks
  <2>4. Syncs(v, keysym, code, TRUE, locks, l)
      BY Zenon, <1>1, <1>8, <2>2, KeySyncs
  <2> QED
      BY <1>10, <1>11, <2>1, <2>3, <2>4 DEF Syncs
<1> HIDE DEF h, r
<1>13. u.lock[l] = r.lock[l]
  <2> DEFINE w == [r EXCEPT !.list[code] = Up]
  <2>1. u = r \/ u = HandleKeyEvent(w, keysym, code, FALSE, e.locks)
      BY DEF SendKeyEvent
  <2>2. w \in Client /\ w.lock = r.lock
      BY <1>9, <1>12 DEF Client
  <2>3. keysym \in Named /\ code \in Codes /\ FALSE \in BOOLEAN
      BY <1>1, <1>3, <1>7
  <2> DEFINE locks == e.locks
  <2> HIDE DEF w, u, locks
  <2>4. Syncs(w, keysym, code, FALSE, locks, l)
      BY Zenon, <1>1, <2>2, <2>3, KeySyncs
  <2> QED
      BY <2>1, <2>2, <2>4 DEF Syncs, locks
<1> QED
    BY <1>5, <1>9, <1>12, <1>13

----------------------------------------------------------------------------
(***************************************************************************)
(* The Ctrl that is held back goes out before the letter it may belong to. *)
(***************************************************************************)

Ctrl == AtServer("Control_L", "ControlLeft")

LEMMA ServerGetsKeeps ==
    ASSUME ExtendedOK, NEW s \in Client, NEW keysym \in Named, NEW code \in Sent, NEW down \in BOOLEAN
    PROVE  LET t == SendKey(s, keysym, code, down)
               key == AtServer(keysym, code)
           IN /\ Ctrl \in s.down /\ (down \/ key # Ctrl) => Ctrl \in t.down
              /\ Takes(s) /\ down /\ keysym # None => key \in t.down
<1> DEFINE t == SendKey(s, keysym, code, down)
           key == AtServer(keysym, code)
<1>1. \/ t = s /\ (s.viewOnly \/ keysym = None)
      \/ t = ServerGets(s, key, down) /\ key \in ServerKeys
    BY DEF SendKey, AtServer, ServerKeys, Named, Sent, Keysyms
<1> HIDE DEF key
<1>2. CASE t = s /\ (s.viewOnly \/ keysym = None)
    BY <1>2 DEF Takes, key
<1>3. CASE t = ServerGets(s, key, down) /\ key \in ServerKeys
  <2>1. /\ down => t.down = s.down \cup {key}
        /\ ~down => t.down = s.down \ {key}
      BY <1>3, ServerGetsIs
  <2> QED
      BY <2>1 DEF key
<1> QED
    BY <1>1, <1>2, <1>3

LEMMA SyncLockKeeps ==
    ASSUME ExtendedOK, NEW s \in Client, NEW l \in Locks, NEW code \in Codes,
           NEW state, NEW down \in BOOLEAN, Ctrl \in s.down
    PROVE  Ctrl \in SyncLock(s, l, code, state, down).down
<1> DEFINE r == IF code = l /\ down THEN [s EXCEPT !.known[l] = None] ELSE s
           t1 == SendKey(r, LockKey(l), l, TRUE)
           t2 == SendKey(t1, LockKey(l), l, FALSE)
<1>1. r \in Client /\ r.down = s.down
    BY DEF Client
<1>2. LockKey(l) \in Named /\ l \in Sent /\ AtServer(LockKey(l), l) # Ctrl
    BY DEF LockKey, Named, Keysyms, Sent, Codes, AtServer, Ctrl, ByCode, HasScancode, Locks
<1>3. \/ SyncLock(s, l, code, state, down) = r
      \/ SyncLock(s, l, code, state, down) = [t2 EXCEPT !.known[l] = None]
    BY DEF SyncLock
<1> HIDE DEF r
<1>4. t1 \in Client /\ Ctrl \in t1.down
    BY <1>1, <1>2, SendKeyIs, ServerGetsKeeps
<1> HIDE DEF t1
<1>5. t2 \in Client /\ Ctrl \in t2.down
    BY <1>2, <1>4, SendKeyIs, ServerGetsKeeps
<1> HIDE DEF t2
<1>6. [t2 EXCEPT !.known[l] = None].down = t2.down
    BY <1>5 DEF Client
<1> QED
    BY <1>1, <1>3, <1>5, <1>6

LEMMA HandleKeyEventKeeps ==
    ASSUME ExtendedOK, NEW s \in Client, NEW keysym \in Named, NEW code \in Codes,
           NEW down \in BOOLEAN, NEW locks
    PROVE  LET t == HandleKeyEvent(s, keysym, code, down, locks)
               key == AtServer(keysym, code)
           IN /\ Ctrl \in s.down /\ (down \/ key # Ctrl) => Ctrl \in t.down
              /\ Takes(s) /\ down /\ keysym # None => key \in t.down
<1> DEFINE s1 == SyncLock(s, "CapsLock", code, locks["CapsLock"], down)
           s2 == SyncLock(s1, "NumLock", code, locks["NumLock"], down)
<1>1. "CapsLock" \in Locks /\ "NumLock" \in Locks /\ code \in Sent
    BY DEF Locks, Sent
<1>2. s1 \in Client /\ SameList(s, s1) /\ (Ctrl \in s.down => Ctrl \in s1.down)
    BY <1>1, SyncLockIs, SyncLockKeeps
<1> HIDE DEF s1
<1>3. s2 \in Client /\ SameList(s1, s2) /\ (Ctrl \in s1.down => Ctrl \in s2.down)
    BY <1>1, <1>2, SyncLockIs, SyncLockKeeps
<1> HIDE DEF s2
<1>4. HandleKeyEvent(s, keysym, code, down, locks) = SendKey(s2, keysym, code, down)
    BY DEF HandleKeyEvent, s2, s1
<1>5. Takes(s) => Takes(s2)
    BY <1>2, <1>3 DEF Takes, SameList
<1> QED
    BY <1>1, <1>2, <1>3, <1>4, <1>5, ServerGetsKeeps

LEMMA SendKeyEventKeeps ==
    ASSUME ExtendedOK, NEW s \in Client, NEW keysym \in Named, NEW code \in Codes,
           NEW down \in BOOLEAN, NEW locks
    PROVE  LET t == SendKeyEvent(s, keysym, code, down, locks)
               key == AtServer(keysym, code)
           IN /\ Ctrl \in s.down /\ (down \/ key # Ctrl) => Ctrl \in t.down
              /\ Takes(s) /\ down /\ keysym # None => key \in t.down
<1> DEFINE v == IF down THEN keysym ELSE Up
           r == [s EXCEPT !.list[code] = v]
           t == SendKeyEvent(s, keysym, code, down, locks)
           h == HandleKeyEvent(r, keysym, code, down, locks)
<1>1. r \in Client /\ r.down = s.down /\ r.viewOnly = s.viewOnly
    BY DEF Client, Named
<1>2. t = h \/ (t = s /\ ~down)
    BY DEF SendKeyEvent
<1> HIDE DEF r, t
<1>3. /\ Ctrl \in r.down /\ (down \/ AtServer(keysym, code) # Ctrl) => Ctrl \in h.down
      /\ Takes(r) /\ down /\ keysym # None => AtServer(keysym, code) \in h.down
    BY <1>1, HandleKeyEventKeeps
<1> HIDE DEF h
<1> QED
    BY <1>1, <1>2, <1>3 DEF Takes, t

LEMMA CtrlFirst ==
    ASSUME Inv, KInv, c.armed, Listening, NEW quick \in BOOLEAN, PressKey("KeyA", quick)
    PROVE  Ctrl \in c'.down
<1> DEFINE e == Event("KeyA", local, quick)
           code == GetKeyCode(e)
           keysym == KeysymFor(c, e, code)
           t == EndAltGr(c, e, code)
           b == [c EXCEPT !.armed = FALSE]
           r == SendKeyEvent(t, keysym, code, TRUE, e.locks)
           u == SendKeyEvent(r, keysym, code, FALSE, e.locks)
<1>1. TypeOK /\ c \in Client /\ ExtendedOK /\ Safe(c) /\ platform = "windows" /\ ~c.viewOnly
      /\ "KeyA" \in Physical
    BY InvIs DEF KInv, CtrlWaits, Listening, Physical, Codes
<1>2. c' = KeyDownHandler(c, e)
    BY DEF PressKey, Press, Locks
<1>3. EventOK(e) /\ code = "KeyA"
    BY <1>1, EventIsOK DEF CodeOf
<1>4. keysym \in Named /\ code \in Codes
    BY <1>1, <1>3, Names DEF EventOK
<1> HIDE DEF e, keysym, code
<1>5. b \in Client /\ Takes(b)
    BY <1>1 DEF Client, Takes
<1>6. t = SendKeyEvent(b, "Control_L", "ControlLeft", TRUE, e.locks)
    BY <1>3 DEF EndAltGr
<1> HIDE DEF b
<1>7. "Control_L" \in Named /\ "Control_L" # None /\ "ControlLeft" \in Codes
    BY DEF Named, Keysyms, None, Codes
<1>8. t \in Client /\ Ctrl \in t.down
  <2>1. "Control_L" \in Named \cup {Up} /\ "Control_L" # Up
      BY DEF Named, Keysyms, Up
  <2>2. t \in Client
    <3>1. ExtendedOK /\ b \in Client
        BY <1>1, <1>5
    <3>2. SendKeyEvent(b, "Control_L", "ControlLeft", TRUE, e.locks) \in Client
        BY <1>7, <2>1, <3>1, SendKeyEventReports
    <3> QED
        BY <1>6, <3>2
  <2>3. Ctrl \in t.down
      BY <1>1, <1>5, <1>6, <1>7, SendKeyEventKeeps DEF Ctrl
  <2> QED
      BY <2>2, <2>3
<1>9. c' = r \/ (c' = u /\ keysym = "Romaji")
    BY <1>1, <1>2, <1>3 DEF KeyDownHandler, Click, code, keysym
<1> HIDE DEF t
<1>10. r \in Client
  <2>1. keysym \in Named \cup {Up} /\ keysym # Up
      BY <1>4 DEF Named, Keysyms, None, Up
  <2> QED
      BY <1>1, <1>4, <1>8, <2>1, SendKeyEventReports
<1>11. Ctrl \in r.down
    BY <1>1, <1>4, <1>8, SendKeyEventKeeps
<1> HIDE DEF r
<1>12. keysym = "Romaji" => Ctrl \in u.down
  <2>1. keysym = "Romaji" => AtServer(keysym, code) # Ctrl
      BY <1>3 DEF AtServer, Ctrl, ByCode, HasScancode
  <2> QED
      BY <1>1, <1>4, <1>10, <1>11, <2>1, SendKeyEventKeeps
<1> QED
    BY <1>9, <1>11, <1>12

\* A letter typed while the client knows the server's locks reaches a server
\* with the user's locks: on every platform, whatever was sent before.
THEOREM LettersInSync == Spec => TypedInSync
<1> DEFINE A == \A l \in Locks :
             /\ \E quick \in BOOLEAN : PressKey("KeyA", quick)
             /\ Listening /\ leds = <<>> /\ ~c.report /\ c.known[l] # None /\ ~c.armed
             /\ ~(platform = "mac" /\ l = "NumLock") /\ c.down \cap {l, LockKey(l)} = {}
             => c'.lock[l] = local[l]
<1>1. Init => Inv /\ LInv
    BY InitInv, InitLocks
<1>2. Inv /\ LInv /\ [Next]_vars => (Inv /\ LInv)'
    BY NextInv, NextLocks
<1>3. Inv /\ LInv /\ [Next]_vars => [A]_vars
    BY LetterSyncs
<1>4. Spec => [][A]_vars
  <2> HIDE DEF A
  <2> QED
      BY <1>1, <1>2, <1>3, PTL DEF Spec
<1> QED
    BY <1>4 DEF TypedInSync

\* A Ctrl held back as the start of AltGr is down at the server before the
\* letter that ends the wait.
THEOREM CtrlGoesFirst == Spec => CtrlBeforeLetter
<1> DEFINE A == c.armed /\ Listening /\ (\E quick \in BOOLEAN : PressKey("KeyA", quick))
                  => AtServer("Control_L", "ControlLeft") \in c'.down
<1>1. Init => Inv /\ KInv
    BY InitInv, InitKnown
<1>2. Inv /\ KInv /\ [Next]_vars => (Inv /\ KInv)'
    BY NextInv, NextKnown
<1>3. Inv /\ KInv /\ [Next]_vars => [A]_vars
    BY CtrlFirst DEF Ctrl
<1>4. Spec => [][A]_vars
  <2> HIDE DEF A
  <2> QED
      BY <1>1, <1>2, <1>3, PTL DEF Spec
<1> QED
    BY <1>4 DEF CtrlBeforeLetter
=============================================================================
