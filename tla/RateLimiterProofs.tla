------------------------- MODULE RateLimiterProofs -------------------------
(***************************************************************************)
(* Proofs about RateLimiter, for any finite set of circuits and any limit. *)
(*                                                                         *)
(* A counter that loses updates only falls behind: together with the calls *)
(* that are about to increment it, it never exceeds the grants made in its *)
(* window. This holds of the value a call has loaded as well, which is why *)
(* a stale store cannot break it.                                          *)
(*                                                                         *)
(* While no two calls overlap the counter is exact, windows begin a whole  *)
(* window apart, and the limit holds: the second part.                     *)
(***************************************************************************)
EXTENDS RateLimiter, FiniteSetTheorems, TLAPS

\* The grants of a window, and the calls that still have to count theirs.
GrantsOf(o) == {i \in DOMAIN grants : grants[i].ref = o}
Pending(o) == {c \in Circuits : pc[c] \in {"load", "store"} /\ attempts[c] = o}

Counted ==
    \A o \in DOMAIN infos :
        infos[o].count + Cardinality(Pending(o)) <= Cardinality(GrantsOf(o))

LoadedIsCounted ==
    \A c \in Circuits : pc[c] = "store" =>
        loaded[c] + Cardinality(Pending(attempts[c])) <= Cardinality(GrantsOf(attempts[c]))

\* Times: windows start in the past, and what happens in one happens after its start.
Dated ==
    /\ \A o \in DOMAIN infos : infos[o].start <= now
    /\ \A i \in DOMAIN grants : /\ grants[i].ref \in DOMAIN infos
                                /\ infos[grants[i].ref].start <= grants[i].at
    /\ \A c \in Circuits : /\ stamp[c] <= now
                           /\ pc[c] \in {"load", "store", "set"} => attempts[c] # 0
                           /\ pc[c] = "test" /\ attempts[c] # 0 =>
                                  infos[attempts[c]].start <= stamp[c]

CInv == TypeOK /\ Dated /\ Counted /\ LoadedIsCounted

LEMMA FinitePending == ASSUME NEW o PROVE IsFiniteSet(Pending(o)) /\ Cardinality(Pending(o)) \in Nat
  BY CircuitAssumption, FS_Subset, FS_CardinalityType DEF Pending

LEMMA FiniteGrants ==
    ASSUME TypeOK, NEW o PROVE IsFiniteSet(GrantsOf(o)) /\ Cardinality(GrantsOf(o)) \in Nat
<1>1. DOMAIN grants = 1 .. Len(grants) /\ Len(grants) \in Nat
  BY DEF TypeOK
<1>2. IsFiniteSet(1 .. Len(grants))
  BY <1>1, FS_Interval
<1> QED BY <1>1, <1>2, FS_Subset, FS_CardinalityType DEF GrantsOf

LEMMA AppendIsOneMore ==
    ASSUME NEW S, NEW s \in Seq(S), NEW e \in S
    PROVE  /\ Append(s, e) \in Seq(S)
           /\ Len(Append(s, e)) = Len(s) + 1
           /\ DOMAIN Append(s, e) = DOMAIN s \cup {Len(s) + 1}
           /\ Len(s) + 1 \notin DOMAIN s
           /\ \A i \in DOMAIN s : Append(s, e)[i] = s[i]
           /\ Append(s, e)[Len(s) + 1] = e
  OBVIOUS

\* The types, for the steps below.
LEMMA Types ==
    ASSUME TypeOK
    PROVE  /\ now \in Nat /\ Len(infos) \in Nat /\ Len(grants) \in Nat
           /\ DOMAIN infos = 1 .. Len(infos) /\ DOMAIN grants = 1 .. Len(grants)
           /\ \A o \in DOMAIN infos : infos[o] \in Info
           /\ \A i \in DOMAIN grants : grants[i] \in GrantRecord
           /\ \A c \in Circuits : /\ attempts[c] \in 0 .. Len(infos)
                                  /\ stamp[c] \in Nat /\ loaded[c] \in Nat
<1>1. infos \in Seq(Info) /\ grants \in Seq(GrantRecord)
  BY DEF TypeOK
<1>2. /\ DOMAIN infos = 1 .. Len(infos) /\ Len(infos) \in Nat
      /\ \A o \in DOMAIN infos : infos[o] \in Info
  BY <1>1
<1>3. /\ DOMAIN grants = 1 .. Len(grants) /\ Len(grants) \in Nat
      /\ \A i \in DOMAIN grants : grants[i] \in GrantRecord
  BY <1>1
<1> QED BY <1>2, <1>3 DEF TypeOK

\* One more grant.
LEMMA AppendedGrant ==
    ASSUME TypeOK, NEW o \in Nat \ {0}, NEW c \in Circuits, Grant(o, c)
    PROVE  /\ grants' \in Seq(GrantRecord)
           /\ DOMAIN grants' = DOMAIN grants \cup {Len(grants) + 1}
           /\ Len(grants) + 1 \notin DOMAIN grants
           /\ \A i \in DOMAIN grants : grants'[i] = grants[i]
           /\ grants'[Len(grants) + 1] = [ref |-> o, at |-> stamp[c]]
<1> DEFINE e == [ref |-> o, at |-> stamp[c]]
<1>1. e \in GrantRecord /\ grants \in Seq(GrantRecord)
  BY DEF TypeOK, GrantRecord
<1>2. grants' = Append(grants, e)
  BY DEF Grant
<1> QED BY ONLY <1>1, <1>2, AppendIsOneMore

LEMMA GrantCounts ==
    ASSUME TypeOK, NEW o \in Nat \ {0}, NEW c \in Circuits, Grant(o, c)
    PROVE  /\ Cardinality(GrantsOf(o)') = Cardinality(GrantsOf(o)) + 1
           /\ \A p : p # o => GrantsOf(p)' = GrantsOf(p)
<1>0. PICK n : /\ DOMAIN grants' = DOMAIN grants \cup {n} /\ n \notin DOMAIN grants
               /\ \A i \in DOMAIN grants : grants'[i] = grants[i]
               /\ grants'[n].ref = o
  <2>1. [ref |-> o, at |-> stamp[c]].ref = o
    OBVIOUS
  <2> QED BY <2>1, AppendedGrant
<1>1. GrantsOf(o)' = GrantsOf(o) \cup {n} /\ n \notin GrantsOf(o)
  BY <1>0 DEF GrantsOf
<1>2. \A p : p # o => GrantsOf(p)' = GrantsOf(p)
  BY <1>0 DEF GrantsOf
<1> QED BY <1>1, <1>2, FiniteGrants, FS_AddElement

LEMMA CachedType == ASSUME TypeOK PROVE Cached \in 0 .. Len(infos)
  BY DEF TypeOK, Cached

LEMMA InitInv == Init => CInv
<1> SUFFICES ASSUME Init PROVE CInv
  OBVIOUS
<1>1. TypeOK
  <2>1. infos \in Seq(Info) /\ Len(infos) = 0 /\ grants \in Seq(GrantRecord)
    BY DEF Init
  <2>2. entry \in [ref : 0 .. Len(infos), expires : Nat]
    BY <2>1 DEF Init
  <2> QED BY <2>1, <2>2 DEF Init, TypeOK
<1>2. DOMAIN infos = {} /\ DOMAIN grants = {}
  BY DEF Init
<1>3. Dated /\ Counted /\ LoadedIsCounted
  BY <1>2 DEF Init, Dated, Counted, LoadedIsCounted
<1> QED BY <1>1, <1>3 DEF CInv

\* StartWindow's new window, and what CacheSet and Return store.
LEMMA StartedTypes ==
    ASSUME TypeOK, NEW c \in Circuits, StartWindow(c)
    PROVE  /\ infos' \in Seq(Info) /\ Len(infos') = Len(infos) + 1
           /\ DOMAIN infos' = DOMAIN infos \cup {Len(infos) + 1}
           /\ Len(infos) + 1 \notin DOMAIN infos
           /\ \A o \in DOMAIN infos : infos'[o] = infos[o]
           /\ infos'[Len(infos) + 1] = [count |-> 1, start |-> stamp[c]]
<1>1. [count |-> 1, start |-> stamp[c]] \in Info /\ infos \in Seq(Info)
  BY DEF TypeOK, Info
<1>2. infos' = Append(infos, [count |-> 1, start |-> stamp[c]])
  BY DEF StartWindow, First
<1> QED BY ONLY <1>1, <1>2, AppendIsOneMore

\* CountStores changes one counter.
LEMMA StoredTypes ==
    ASSUME TypeOK, Dated, NEW c \in Circuits, CountStores(c)
    PROVE  /\ infos' \in Seq(Info) /\ Len(infos') = Len(infos) /\ DOMAIN infos' = DOMAIN infos
           /\ attempts[c] \in DOMAIN infos
           /\ infos'[attempts[c]] = [count |-> loaded[c] + 1, start |-> infos[attempts[c]].start]
           /\ \A o \in DOMAIN infos : o # attempts[c] => infos'[o] = infos[o]
<1>1. infos \in Seq(Info) /\ loaded[c] \in Nat /\ attempts[c] \in DOMAIN infos
  BY Types DEF TypeOK, Dated, CountStores
<1>2. infos' = [infos EXCEPT ![attempts[c]].count = loaded[c] + 1]
  BY DEF CountStores
<1>3. infos[attempts[c]] \in Info
  BY <1>1
<1>4. infos'[attempts[c]] = [count |-> loaded[c] + 1, start |-> infos[attempts[c]].start]
  BY <1>1, <1>2, <1>3 DEF Info
<1>5. DOMAIN infos' = DOMAIN infos /\ \A o \in DOMAIN infos : o # attempts[c] => infos'[o] = infos[o]
  BY <1>2
<1>6. infos'[attempts[c]] \in Info
  BY <1>1, <1>3, <1>4 DEF Info
<1>7. \A o \in DOMAIN infos : infos'[o] \in Info
  BY <1>1, <1>5, <1>6
<1>8. infos' \in Seq(Info) /\ Len(infos') = Len(infos)
  <2>1. DOMAIN infos = 1 .. Len(infos) /\ Len(infos) \in Nat
    BY <1>1
  <2>2. infos' = [o \in 1 .. Len(infos) |-> infos'[o]]
    BY <1>2, <2>1
  <2> DEFINE f == [o \in 1 .. Len(infos) |-> infos'[o]]
  <2>3. f \in Seq(Info) /\ Len(f) = Len(infos)
    BY <1>7, <2>1
  <2> QED BY <2>2, <2>3
<1> QED BY <1>1, <1>4, <1>5, <1>8

LEMMA NextType == ASSUME TypeOK, Dated, [Next]_vars PROVE TypeOK'
<1>0. Window \in Nat /\ maxAttempts \in Nat
  BY LimitAssumption
<1>1. CASE Tick
  BY <1>1 DEF TypeOK, Tick, callVars
<1>2. CASE UNCHANGED vars
  BY <1>2 DEF TypeOK, vars, callVars
<1>3. ASSUME NEW c \in Circuits, Check(c) \/ ShowRefusal(c) \/ LoadPage(c) PROVE TypeOK'
  <2>1. CASE CheckReads(c)
    <3>1. overlapped' \in BOOLEAN
      BY <2>1, Zenon DEF CheckReads, TypeOK
    <3> QED BY <2>1, <3>1, CachedType DEF TypeOK, CheckReads, Goto
  <2>2. CASE CheckClock(c)
    BY <2>2 DEF TypeOK, CheckClock, Goto
  <2>3. CASE StartWindow(c)
    <3>1. Len(infos) \in Nat /\ now \in Nat /\ Len(infos') = Len(infos) + 1 /\ infos' \in Seq(Info)
      BY <2>3, Types, StartedTypes
    <3>2. grants' \in Seq(GrantRecord)
      <4>1. Grant(Len(infos) + 1, c) /\ Len(infos) + 1 \in Nat \ {0}
        BY <2>3, <3>1 DEF StartWindow
      <4> QED BY <4>1, AppendedGrant
    <3>3. entry' \in [ref : 0 .. Len(infos'), expires : Nat]
      BY <1>0, <2>3, <3>1 DEF StartWindow, CacheSet
    <3>4. pc' \in [Circuits -> {"idle", "clock", "test", "load", "store", "set", "refused"}]
      BY <2>3 DEF TypeOK, StartWindow, Return, Goto
    <3>5. attempts' = [attempts EXCEPT ![c] = 0] /\ 0 \in 0 .. Len(infos')
      BY <2>3, <3>1 DEF StartWindow, Return
    <3>6. attempts' \in [Circuits -> 0 .. Len(infos')]
      <4>1. attempts \in [Circuits -> 0 .. Len(infos')]
        BY <3>1 DEF TypeOK
      <4> QED BY <3>5, <4>1
    <3>7. stamp' \in [Circuits -> Nat] /\ loaded' \in [Circuits -> Nat]
      BY <2>3 DEF TypeOK, StartWindow, Return
    <3>8. now' \in Nat /\ cooldown' \in [Circuits -> BOOLEAN] /\ overlapped' \in BOOLEAN
      BY <2>3, Zenon DEF TypeOK, StartWindow
    <3> QED BY <3>1, <3>2, <3>3, <3>4, <3>6, <3>7, <3>8 DEF TypeOK
  <2>4. CASE Refuse(c)
    BY <2>4 DEF TypeOK, Refuse, Goto
  <2>5. CASE Admit(c)
    <3>1. attempts[c] \in Nat \ {0}
      BY <2>5, Types DEF Admit, InWindow
    <3>2. grants' \in Seq(GrantRecord)
      BY <2>5, <3>1, AppendedGrant DEF Admit
    <3> QED BY <2>5, <3>2 DEF TypeOK, Admit, Goto
  <2>6. CASE CountLoads(c)
    <3>1. attempts[c] \in DOMAIN infos
      BY <2>6, Types DEF CountLoads, Dated
    <3>2. infos[attempts[c]].count \in Nat
      BY <3>1, Types DEF Info
    <3> QED BY <2>6, <3>2 DEF TypeOK, CountLoads, Goto
  <2>7. CASE CountStores(c)
    <3>1. infos' \in Seq(Info) /\ Len(infos') = Len(infos)
      BY <2>7, StoredTypes
    <3> QED BY <2>7, <3>1 DEF TypeOK, CountStores, Goto
  <2>8. CASE CheckSets(c)
    <3>1. attempts[c] \in 0 .. Len(infos) /\ now + Window \in Nat
      BY <1>0, Types
    <3>2. entry' \in [ref : 0 .. Len(infos), expires : Nat]
      BY <2>8, <3>1 DEF CheckSets, CacheSet
    <3> QED BY <2>8, <3>2 DEF TypeOK, CheckSets, Return, Goto
  <2>9. Remaining \in BOOLEAN
    BY Zenon DEF Remaining
  <2>10. CASE ShowRefusal(c)
    BY <2>9, <2>10 DEF TypeOK, ShowRefusal, Return, Goto
  <2>11. CASE LoadPage(c)
    BY <2>9, <2>11 DEF TypeOK, LoadPage, callVars
  <2> QED BY <1>3, <2>1, <2>2, <2>3, <2>4, <2>5, <2>6, <2>7, <2>8, <2>10, <2>11 DEF Check
<1> QED BY <1>1, <1>2, <1>3 DEF Next

\* What no step changes: a window keeps its start, and the clock does not go back.
LEMMA StartsKept ==
    ASSUME TypeOK, Dated, [Next]_vars
    PROVE  /\ DOMAIN infos \subseteq DOMAIN infos' /\ now <= now'
           /\ \A o \in DOMAIN infos : infos'[o].start = infos[o].start
<1>0. now \in Nat
  BY Types
<1>1. CASE UNCHANGED infos /\ (Tick \/ UNCHANGED now)
  BY <1>0, <1>1 DEF Tick
<1>2. ASSUME NEW c \in Circuits, StartWindow(c) PROVE UNCHANGED now /\ DOMAIN infos \subseteq DOMAIN infos'
                                   /\ \A o \in DOMAIN infos : infos'[o].start = infos[o].start
  BY <1>2, StartedTypes DEF StartWindow
<1>3. ASSUME NEW c \in Circuits, CountStores(c) PROVE UNCHANGED now /\ DOMAIN infos \subseteq DOMAIN infos'
                                   /\ \A o \in DOMAIN infos : infos'[o].start = infos[o].start
  <2>1. UNCHANGED now /\ DOMAIN infos' = DOMAIN infos
    BY <1>3, StoredTypes DEF CountStores
  <2>2. ASSUME NEW o \in DOMAIN infos PROVE infos'[o].start = infos[o].start
    <3>1. CASE o = attempts[c]
      <4>1. infos'[attempts[c]] = [count |-> loaded[c] + 1, start |-> infos[attempts[c]].start]
        BY <1>3, StoredTypes
      <4> QED BY <3>1, <4>1
    <3>2. CASE o # attempts[c]
      BY <1>3, <3>2, StoredTypes
    <3> QED BY <3>1, <3>2
  <2> QED BY <2>1, <2>2
<1>4. \/ UNCHANGED infos /\ (Tick \/ UNCHANGED now)
      \/ \E c \in Circuits : StartWindow(c) \/ CountStores(c)
  BY DEF Next, Check, vars, callVars, Tick, CheckReads, CheckClock, Refuse, Admit, CountLoads,
         CheckSets, ShowRefusal, LoadPage
<1> QED BY <1>0, <1>1, <1>2, <1>3, <1>4

\* A grant belongs to a window that had begun when its call read the time.
LEMMA GrantsDated ==
    ASSUME TypeOK, Dated, [Next]_vars
    PROVE  (\A i \in DOMAIN grants : /\ grants[i].ref \in DOMAIN infos
                                     /\ infos[grants[i].ref].start <= grants[i].at)'
<1>0. /\ DOMAIN infos \subseteq DOMAIN infos'
      /\ \A o \in DOMAIN infos : infos'[o].start = infos[o].start
  BY StartsKept
<1>1. CASE UNCHANGED grants
  BY <1>0, <1>1 DEF Dated
<1>2. ASSUME NEW c \in Circuits, NEW o \in DOMAIN infos', Grant(o, c), o \in Nat \ {0}, infos'[o].start <= stamp[c]
      PROVE  \A i \in DOMAIN grants' : /\ grants'[i].ref \in DOMAIN infos'
                                       /\ infos'[grants'[i].ref].start <= grants'[i].at
  <2> SUFFICES ASSUME NEW i \in DOMAIN grants'
               PROVE  grants'[i].ref \in DOMAIN infos' /\ infos'[grants'[i].ref].start <= grants'[i].at
    OBVIOUS
  <2>1. CASE i \in DOMAIN grants
    BY <1>0, <1>2, <2>1, AppendedGrant DEF Dated
  <2>2. CASE i = Len(grants) + 1
    <3>1. grants'[i] = [ref |-> o, at |-> stamp[c]]
      BY <1>2, <2>2, AppendedGrant
    <3> QED BY <1>2, <3>1
  <2> QED BY <1>2, <2>1, <2>2, AppendedGrant
<1>3. ASSUME NEW c \in Circuits, StartWindow(c)
      PROVE  LET o == Len(infos) + 1 IN o \in DOMAIN infos' /\ Grant(o, c) /\ o \in Nat \ {0} /\ infos'[o].start <= stamp[c]
  BY <1>3, StartedTypes, Types DEF StartWindow
<1>4. ASSUME NEW c \in Circuits, Admit(c)
      PROVE  LET o == attempts[c] IN o \in DOMAIN infos' /\ Grant(o, c) /\ o \in Nat \ {0} /\ infos'[o].start <= stamp[c]
  BY <1>0, <1>4, Types DEF Admit, Dated, InWindow
<1>5. UNCHANGED grants \/ \E c \in Circuits : StartWindow(c) \/ Admit(c)
  BY DEF Next, Check, vars, callVars, Tick, CheckReads, CheckClock, Refuse, CountLoads, CountStores,
         CheckSets, ShowRefusal, LoadPage
<1> QED BY <1>1, <1>2, <1>3, <1>4, <1>5

LEMMA NextDated == ASSUME TypeOK, Dated, [Next]_vars PROVE Dated'
<1>0. /\ DOMAIN infos \subseteq DOMAIN infos' /\ now <= now'
      /\ \A o \in DOMAIN infos : infos'[o].start = infos[o].start
  BY StartsKept
<1>1. TypeOK'
  BY NextType
<1>2. now \in Nat /\ now' \in Nat
  BY <1>1, Types DEF TypeOK
<1>3. ASSUME NEW o \in DOMAIN infos' PROVE infos'[o].start <= now'
  <2>1. CASE o \in DOMAIN infos
    <3>1. infos[o].start \in Nat /\ infos[o].start <= now
      BY <2>1, Types DEF Info, Dated
    <3> QED BY <1>0, <1>2, <2>1, <3>1
  <2>2. CASE o \notin DOMAIN infos
    <3>1. PICK c \in Circuits : StartWindow(c)
      <4>1. UNCHANGED infos \/ \E c \in Circuits : StartWindow(c) \/ CountStores(c)
        BY DEF Next, Check, vars, callVars, Tick, CheckReads, CheckClock, Refuse, Admit, CountLoads,
               CheckSets, ShowRefusal, LoadPage
      <4> QED BY <2>2, <4>1, StoredTypes
    <3>2. o = Len(infos) + 1 /\ infos'[Len(infos) + 1] = [count |-> 1, start |-> stamp[c]]
      BY <2>2, <3>1, StartedTypes
    <3> QED BY <1>0, <1>2, <3>2, Types DEF Dated
  <2> QED BY <2>1, <2>2
<1>4. ASSUME NEW c \in Circuits
      PROVE  /\ stamp'[c] <= now'
             /\ pc'[c] \in {"load", "store", "set"} => attempts'[c] # 0
             /\ pc'[c] = "test" /\ attempts'[c] # 0 => infos'[attempts'[c]].start <= stamp'[c]
  <2>0. /\ stamp[c] \in Nat /\ stamp[c] <= now /\ 0 <= now' /\ stamp[c] <= now'
        /\ attempts[c] # 0 => attempts[c] \in DOMAIN infos
    BY <1>0, <1>2, Types DEF Dated
  <2>1. CASE pc'[c] = pc[c] /\ attempts'[c] = attempts[c] /\ stamp'[c] = stamp[c]
    BY <1>0, <2>0, <2>1 DEF Dated
  <2>2. CASE CheckClock(c)
    <3>1. /\ stamp'[c] = now /\ now' = now /\ pc'[c] = "test" /\ attempts'[c] = attempts[c]
          /\ infos' = infos
      BY <2>2 DEF CheckClock, Goto, TypeOK
    <3> QED BY <1>2, <2>0, <3>1 DEF Dated
  <2>3. CASE CheckReads(c)
    <3>1. stamp'[c] = stamp[c] /\ pc'[c] = "clock"
      BY <2>3 DEF CheckReads, Goto, TypeOK
    <3> QED BY <2>0, <3>1
  <2>4. CASE Admit(c)
    <3>1. stamp'[c] = stamp[c] /\ pc'[c] = "load" /\ attempts'[c] = attempts[c] /\ attempts[c] # 0
      BY <2>4 DEF Admit, Goto, TypeOK, InWindow
    <3> QED BY <2>0, <3>1
  <2>5. CASE CountLoads(c) \/ CountStores(c) \/ Refuse(c)
    <3>1. /\ stamp'[c] = stamp[c] /\ pc'[c] \in {"store", "set", "refused"} /\ attempts'[c] = attempts[c]
          /\ pc'[c] # "refused" => attempts[c] # 0
      BY <2>5 DEF CountLoads, CountStores, Refuse, Goto, TypeOK, Dated
    <3> QED BY <2>0, <3>1
  <2>6. CASE Return(c)
    <3>1. stamp'[c] = 0 /\ pc'[c] = "idle"
      BY <2>6 DEF Return, Goto, TypeOK
    <3> QED BY <2>0, <3>1
  <2>7. ASSUME NEW d \in Circuits, Check(d) \/ ShowRefusal(d) \/ LoadPage(d), d # c
        PROVE  pc'[c] = pc[c] /\ attempts'[c] = attempts[c] /\ stamp'[c] = stamp[c]
    BY <2>7 DEF TypeOK, Check, callVars, CheckReads, CheckClock, StartWindow, Refuse, Admit, CountLoads,
               CountStores, CheckSets, ShowRefusal, LoadPage, Return, Goto
  <2>8. ASSUME Check(c) \/ ShowRefusal(c) \/ LoadPage(c)
        PROVE  \/ CheckClock(c) \/ CheckReads(c) \/ Admit(c) \/ CountLoads(c) \/ CountStores(c)
               \/ Refuse(c) \/ Return(c)
               \/ pc'[c] = pc[c] /\ attempts'[c] = attempts[c] /\ stamp'[c] = stamp[c]
    BY <2>8 DEF Check, StartWindow, CheckSets, ShowRefusal, LoadPage, callVars
  <2>9. Tick \/ UNCHANGED vars => pc' = pc /\ attempts' = attempts /\ stamp' = stamp
    BY DEF Tick, vars, callVars
  <2> QED BY <2>1, <2>2, <2>3, <2>4, <2>5, <2>6, <2>7, <2>8, <2>9 DEF Next
<1> QED BY <1>3, <1>4, GrantsDated DEF Dated

\* Steps that neither grant nor count.
LEMMA QuietCounted ==
    ASSUME CInv, UNCHANGED <<infos, grants>>,
           \A o : Pending(o)' = Pending(o),
           \A c \in Circuits : pc'[c] = "store" =>
               /\ attempts'[c] = attempts[c]
               /\ \/ pc[c] = "store" /\ loaded'[c] = loaded[c]
                  \/ attempts[c] \in DOMAIN infos /\ loaded'[c] = infos[attempts[c]].count
    PROVE  Counted' /\ LoadedIsCounted'
<1>1. \A o : GrantsOf(o)' = GrantsOf(o)
  BY DEF GrantsOf
<1> QED BY <1>1 DEF CInv, Counted, LoadedIsCounted

\* A new window: one grant, counted already, and no call increments it yet.
LEMMA StartedCounted ==
    ASSUME CInv, NEW c \in Circuits, StartWindow(c) PROVE Counted' /\ LoadedIsCounted'
<1> PICK n : n = Len(infos) + 1
  OBVIOUS
<1>0. TypeOK /\ Dated /\ n \in Nat \ {0} /\ n \notin DOMAIN infos
  BY Types, StartedTypes DEF CInv
<1>1. Grant(n, c)
  BY DEF StartWindow
<1>2. /\ Cardinality(GrantsOf(n)') = Cardinality(GrantsOf(n)) + 1
      /\ \A o : o # n => GrantsOf(o)' = GrantsOf(o)
  BY <1>0, <1>1, GrantCounts
<1>3. /\ pc' = [pc EXCEPT ![c] = "idle"] /\ pc[c] = "test"
      /\ attempts' = [attempts EXCEPT ![c] = 0] /\ loaded' = [loaded EXCEPT ![c] = 0]
  BY DEF StartWindow, Return, Goto
<1>4. \A o : Pending(o)' = Pending(o)
  BY <1>0, <1>3 DEF Pending, TypeOK
<1>5. ASSUME NEW o \in DOMAIN infos'
      PROVE  infos'[o].count + Cardinality(Pending(o)') <= Cardinality(GrantsOf(o)')
  <2>1. CASE o = n
    <3>1. \A d \in Circuits : attempts[d] # n
      BY <1>0, Types
    <3>2. Pending(o) = {}
      BY <2>1, <3>1 DEF Pending
    <3>3. Cardinality(Pending(o)') = 0
      BY <1>4, <3>2, FS_EmptySet
    <3>4. infos'[n] = [count |-> 1, start |-> stamp[c]]
      BY <1>0, StartedTypes
    <3>5. infos'[o].count = 1
      BY <2>1, <3>4
    <3>6. Cardinality(GrantsOf(n)) \in Nat
      BY <1>0, FiniteGrants
    <3> QED BY <1>2, <2>1, <3>3, <3>5, <3>6
  <2>2. CASE o # n
    <3>1. o \in DOMAIN infos /\ infos'[o] = infos[o]
      BY <1>0, <2>2, StartedTypes
    <3> QED BY <1>2, <1>4, <2>2, <3>1 DEF CInv, Counted
  <2> QED BY <2>1, <2>2
<1>6. ASSUME NEW d \in Circuits, pc'[d] = "store"
      PROVE  loaded'[d] + Cardinality(Pending(attempts[d])') <= Cardinality(GrantsOf(attempts[d])')
  <2>1. pc[d] = "store" /\ attempts'[d] = attempts[d] /\ loaded'[d] = loaded[d]
    BY <1>0, <1>3, <1>6 DEF TypeOK
  <2>2. attempts[d] # n
    BY <1>0, Types
  <2>3. loaded[d] + Cardinality(Pending(attempts[d])) <= Cardinality(GrantsOf(attempts[d]))
    BY <2>1 DEF CInv, LoadedIsCounted
  <2> QED BY <1>2, <1>4, <2>1, <2>2, <2>3
<1> QED BY <1>5, <1>6 DEF Counted, LoadedIsCounted

\* An admitted call: one grant, and one call that has to count it.
LEMMA AdmittedCounted ==
    ASSUME CInv, NEW c \in Circuits, Admit(c) PROVE Counted' /\ LoadedIsCounted'
<1> PICK a : a = attempts[c]
  OBVIOUS
<1>0. TypeOK /\ Dated /\ a \in Nat \ {0}
  BY Types DEF CInv, Admit, InWindow
<1>1. /\ Cardinality(GrantsOf(a)') = Cardinality(GrantsOf(a)) + 1
      /\ \A o : o # a => GrantsOf(o)' = GrantsOf(o)
  BY <1>0, GrantCounts DEF Admit
<1>2. /\ pc' = [pc EXCEPT ![c] = "load"] /\ pc[c] = "test"
      /\ attempts' = attempts /\ loaded' = loaded /\ infos' = infos
  BY DEF Admit, Goto
<1>3. /\ Pending(a)' = Pending(a) \cup {c} /\ c \notin Pending(a)
      /\ \A o : o # a => Pending(o)' = Pending(o)
  BY <1>0, <1>2 DEF Pending, TypeOK
<1>4. Cardinality(Pending(a)') = Cardinality(Pending(a)) + 1
  BY <1>3, FinitePending, FS_AddElement
<1>5. Cardinality(Pending(a)) \in Nat /\ Cardinality(GrantsOf(a)) \in Nat
  BY <1>0, FinitePending, FiniteGrants
<1>6. ASSUME NEW o, NEW k \in Nat, k + Cardinality(Pending(o)) <= Cardinality(GrantsOf(o))
      PROVE  k + Cardinality(Pending(o)') <= Cardinality(GrantsOf(o)')
  BY <1>1, <1>3, <1>4, <1>5, <1>6
<1>7. ASSUME NEW o \in DOMAIN infos'
      PROVE  infos'[o].count + Cardinality(Pending(o)') <= Cardinality(GrantsOf(o)')
  <2>1. o \in DOMAIN infos /\ infos'[o].count = infos[o].count /\ infos[o].count \in Nat
    BY <1>0, <1>2, Types DEF Info
  <2>2. infos[o].count + Cardinality(Pending(o)) <= Cardinality(GrantsOf(o))
    BY <2>1 DEF CInv, Counted
  <2> QED BY <1>6, <2>1, <2>2
<1>8. ASSUME NEW d \in Circuits, pc'[d] = "store"
      PROVE  loaded'[d] + Cardinality(Pending(attempts[d])') <= Cardinality(GrantsOf(attempts[d])')
  <2>1. pc[d] = "store" /\ attempts'[d] = attempts[d] /\ loaded'[d] = loaded[d] /\ loaded[d] \in Nat
    BY <1>0, <1>2, <1>8 DEF TypeOK
  <2>2. loaded[d] + Cardinality(Pending(attempts[d])) <= Cardinality(GrantsOf(attempts[d]))
    BY <2>1 DEF CInv, LoadedIsCounted
  <2> QED BY <1>6, <2>1, <2>2
<1> QED BY <1>7, <1>8 DEF Counted, LoadedIsCounted

\* A store adds one to what was loaded, and one call less is pending.
LEMMA StoredCounted ==
    ASSUME CInv, NEW c \in Circuits, CountStores(c) PROVE Counted' /\ LoadedIsCounted'
<1> PICK a : a = attempts[c]
  OBVIOUS
<1>0. TypeOK /\ Dated /\ a \in DOMAIN infos /\ loaded[c] \in Nat
  BY Types, StoredTypes DEF CInv
<1>1. \A o : GrantsOf(o)' = GrantsOf(o)
  BY DEF CountStores, GrantsOf
<1>2. /\ pc' = [pc EXCEPT ![c] = "set"] /\ pc[c] = "store" /\ attempts' = attempts /\ loaded' = loaded
  BY DEF CountStores, Goto
<1>3. /\ Pending(a)' = Pending(a) \ {c} /\ c \in Pending(a)
      /\ \A o : o # a => Pending(o)' = Pending(o)
  BY <1>0, <1>2 DEF Pending, TypeOK
<1>4. /\ Cardinality(Pending(a)') = Cardinality(Pending(a)) - 1
      /\ Cardinality(Pending(a)) \in Nat /\ Cardinality(GrantsOf(a)) \in Nat
  BY <1>0, <1>3, FinitePending, FiniteGrants, FS_RemoveElement
<1>5. ASSUME NEW o \in DOMAIN infos'
      PROVE  infos'[o].count + Cardinality(Pending(o)') <= Cardinality(GrantsOf(o)')
  <2>1. CASE o = a
    <3>1. infos'[a] = [count |-> loaded[c] + 1, start |-> infos[a].start]
      BY <1>0, StoredTypes
    <3>2. infos'[o].count = loaded[c] + 1
      BY <2>1, <3>1
    <3>3. loaded[c] + Cardinality(Pending(a)) <= Cardinality(GrantsOf(a))
      BY <1>2 DEF CInv, LoadedIsCounted
    <3> QED BY <1>0, <1>1, <1>4, <2>1, <3>2, <3>3
  <2>2. CASE o # a
    <3>1. o \in DOMAIN infos /\ infos'[o] = infos[o]
      BY <1>0, <2>2, StoredTypes
    <3> QED BY <1>1, <1>3, <2>2, <3>1 DEF CInv, Counted
  <2> QED BY <2>1, <2>2
<1>6. ASSUME NEW d \in Circuits, pc'[d] = "store"
      PROVE  loaded'[d] + Cardinality(Pending(attempts[d])') <= Cardinality(GrantsOf(attempts[d])')
  <2>1. pc[d] = "store" /\ attempts'[d] = attempts[d] /\ loaded'[d] = loaded[d] /\ loaded[d] \in Nat
    BY <1>0, <1>2, <1>6 DEF TypeOK
  <2>2. loaded[d] + Cardinality(Pending(attempts[d])) <= Cardinality(GrantsOf(attempts[d]))
    BY <2>1 DEF CInv, LoadedIsCounted
  <2>3. CASE attempts[d] = a
    BY <1>1, <1>4, <2>1, <2>2, <2>3
  <2>4. CASE attempts[d] # a
    BY <1>1, <1>3, <2>1, <2>2, <2>4
  <2> QED BY <2>3, <2>4
<1> QED BY <1>5, <1>6 DEF Counted, LoadedIsCounted

LEMMA NextCounted == ASSUME CInv, [Next]_vars PROVE Counted' /\ LoadedIsCounted'
<1>1. CASE Tick \/ UNCHANGED vars
  <2>1. UNCHANGED <<infos, grants, pc, attempts, loaded>>
    BY <1>1 DEF Tick, vars, callVars
  <2>2. \A o : Pending(o)' = Pending(o)
    BY <2>1 DEF Pending
  <2> QED BY <2>1, <2>2, QuietCounted
<1>2. ASSUME NEW c \in Circuits,
             CheckReads(c) \/ CheckClock(c) \/ Refuse(c) \/ CountLoads(c) \/ CheckSets(c)
                \/ ShowRefusal(c) \/ LoadPage(c)
      PROVE  Counted' /\ LoadedIsCounted'
  <2>0. TypeOK /\ Dated
    BY DEF CInv
  <2>1. UNCHANGED <<infos, grants>>
    BY <1>2 DEF CheckReads, CheckClock, Refuse, CountLoads, CheckSets, ShowRefusal, LoadPage
  <2>2. \A o : Pending(o)' = Pending(o)
    BY <1>2, <2>0 DEF Pending, TypeOK, callVars, CheckReads, CheckClock, Refuse, CountLoads, CheckSets,
                      ShowRefusal, LoadPage, Return, Goto
  <2>3. ASSUME NEW d \in Circuits, pc'[d] = "store"
        PROVE  /\ attempts'[d] = attempts[d]
               /\ \/ pc[d] = "store" /\ loaded'[d] = loaded[d]
                  \/ attempts[d] \in DOMAIN infos /\ loaded'[d] = infos[attempts[d]].count
    <3>1. CASE CountLoads(c)
      BY <2>0, <2>3, <3>1, Types DEF TypeOK, CountLoads, Goto, Dated
    <3>2. CASE ~CountLoads(c)
      BY <1>2, <2>0, <2>3, <3>2 DEF TypeOK, callVars, CheckReads, CheckClock, Refuse, CheckSets,
                                    ShowRefusal, LoadPage, Return, Goto
    <3> QED BY <3>1, <3>2
  <2> QED BY <2>1, <2>2, <2>3, QuietCounted
<1> QED BY <1>1, <1>2, StartedCounted, AdmittedCounted, StoredCounted DEF Next, Check

LEMMA Invariant == Spec => []CInv
<1>1. CInv /\ [Next]_vars => CInv'
  BY NextType, NextDated, NextCounted DEF CInv
<1> QED BY InitInv, <1>1, PTL DEF Spec

----------------------------------------------------------------------------
\* Every variable keeps its type, for any number of circuits and any limit.
THEOREM TypeCorrect == Spec => []TypeOK
<1>1. CInv => TypeOK
  BY DEF CInv
<1> QED BY Invariant, <1>1, PTL

\* The counter that refuses a call is covered by the grants of its window, and
\* those lie within one window of the call: losing updates never refuses a call
\* that had attempts left.
LEMMA RefusalEarned ==
    ASSUME CInv, NEW c \in Circuits, Refuse(c)
    PROVE  Cardinality({i \in DOMAIN grants : grants[i].at + Window >= stamp[c]}) >= maxAttempts
<1> DEFINE Recent == {i \in DOMAIN grants : grants[i].at + Window >= stamp[c]}
<1> PICK a : a = attempts[c]
  OBVIOUS
<1>0. TypeOK /\ Dated /\ maxAttempts \in Nat /\ Window \in Nat
  BY LimitAssumption DEF CInv
<1>1. /\ a \in DOMAIN infos /\ infos[a].count \in Nat /\ infos[a].start \in Nat
      /\ stamp[c] <= infos[a].start + Window /\ infos[a].count >= maxAttempts
  BY <1>0, Types DEF Refuse, InWindow, AtLimit, Info
<1>2. Cardinality(GrantsOf(a)) >= maxAttempts
  <2>1. infos[a].count + Cardinality(Pending(a)) <= Cardinality(GrantsOf(a))
    BY <1>1 DEF CInv, Counted
  <2>2. Cardinality(Pending(a)) \in Nat /\ Cardinality(GrantsOf(a)) \in Nat
    BY <1>0, FinitePending, FiniteGrants
  <2> QED BY <1>0, <1>1, <2>1, <2>2
<1>3. GrantsOf(a) \subseteq Recent
  <2> SUFFICES ASSUME NEW i \in GrantsOf(a) PROVE i \in Recent
    OBVIOUS
  <2>1. i \in DOMAIN grants /\ infos[a].start <= grants[i].at /\ grants[i].at \in Nat
    BY <1>0, Types DEF GrantsOf, Dated, GrantRecord
  <2>2. stamp[c] \in Nat
    BY <1>0, Types
  <2> QED BY <1>0, <1>1, <2>1, <2>2
<1>4. IsFiniteSet(Recent)
  <2>1. DOMAIN grants = 1 .. Len(grants) /\ Len(grants) \in Nat
    BY <1>0, Types
  <2>2. IsFiniteSet(1 .. Len(grants)) /\ Recent \subseteq 1 .. Len(grants)
    BY <2>1, FS_Interval
  <2> QED BY <2>2, FS_Subset
<1>5. Cardinality(GrantsOf(a)) <= Cardinality(Recent) /\ Cardinality(Recent) \in Nat
  BY <1>3, <1>4, FS_Subset, FS_CardinalityType
<1>6. Cardinality(GrantsOf(a)) \in Nat
  BY <1>0, FiniteGrants
<1> QED BY <1>0, <1>2, <1>5, <1>6

\* Every refusal was earned by maxAttempts grants of the last window, whatever
\* the interleaving of the circuits' calls.
THEOREM RefusalsEarned == Spec => RefusalsAreEarned
<1>1. CInv => (\A c \in Circuits : Refuse(c) =>
          Cardinality({i \in DOMAIN grants : grants[i].at + Window >= stamp[c]}) >= maxAttempts)
  BY RefusalEarned
<1> QED BY Invariant, <1>1, PTL DEF RefusalsAreEarned

----------------------------------------------------------------------------
(***************************************************************************)
(* Calls that do not overlap. Then at most one call is under way, the      *)
(* cache refers to the newest window, and the counter of that window is    *)
(* exact: no window grants more than maxAttempts, and windows begin at     *)
(* least one window apart.                                                 *)
(***************************************************************************)

Alone == \A c, d \in Circuits : pc[c] # "idle" /\ pc[d] # "idle" => c = d

\* The newest window, and what a call has found out about it.
Newest == Len(infos)
Over(t) == Newest # 0 => t >= infos[Newest].start + Window

OneEntry == entry.ref = Newest /\ Over(entry.expires)

Held ==
    \A c \in Circuits :
        /\ pc[c] # "idle" => attempts[c] \in {0, Newest}
        /\ pc[c] = "clock" /\ attempts[c] = 0 => Over(now)
        /\ pc[c] = "test" /\ attempts[c] = 0 => Over(stamp[c])
        /\ pc[c] = "store" => loaded[c] = infos[Newest].count

\* Nothing was granted after the time the call under way has read.
Past ==
    /\ \A i \in DOMAIN grants : grants[i].at <= now
    /\ \A c \in Circuits : pc[c] = "test" => \A i \in DOMAIN grants : grants[i].at <= stamp[c]

\* Windows begin one window apart, each after the grants of the earlier ones.
Apart ==
    /\ \A o, p \in DOMAIN infos : o < p => infos[o].start + Window <= infos[p].start
    /\ \A o \in DOMAIN infos : \A i \in DOMAIN grants :
           grants[i].ref < o => grants[i].at <= infos[o].start

\* The grants of the newest window are the last ones, as many as were counted,
\* the one of a call that has not stored its increment yet included.
Unstored == \E c \in Circuits : pc[c] \in {"load", "store"}
LastOnes(n) ==
    /\ n <= maxAttempts
    /\ \A i \in DOMAIN grants : grants[i].ref = Newest => Len(grants) < i + n

Exact == Newest # 0 => LastOnes(infos[Newest].count + IF Unstored THEN 1 ELSE 0)

FewPerWindow ==
    \A i \in DOMAIN grants : i + maxAttempts \in DOMAIN grants =>
        grants[i].ref < grants[i + maxAttempts].ref

Sequential == Alone /\ OneEntry /\ Held /\ Past /\ Apart /\ Exact /\ FewPerWindow
Orderly == ~overlapped => Sequential

LEMMA InitOrderly == Init => Orderly
<1> SUFFICES ASSUME Init PROVE Sequential
  BY DEF Orderly
<1>1. Len(infos) = 0 /\ DOMAIN infos = {} /\ DOMAIN grants = {} /\ entry.ref = 0
  BY DEF Init
<1>2. \A c \in Circuits : pc[c] = "idle"
  BY DEF Init
<1> QED BY <1>1, <1>2 DEF Sequential, Alone, OneEntry, Over, Newest, Held, Past, Apart, Exact, FewPerWindow

\* What a step that starts or ends nothing leaves as it was.
LEMMA SameWindows ==
    ASSUME Apart, FewPerWindow, UNCHANGED <<infos, grants>> PROVE Apart' /\ FewPerWindow'
  BY DEF Apart, FewPerWindow

LEMMA SameExact ==
    ASSUME Exact, UNCHANGED <<infos, grants>>, Unstored' <=> Unstored PROVE Exact'
<1>1. (IF Unstored' THEN 1 ELSE 0) = (IF Unstored THEN 1 ELSE 0)
  OBVIOUS
<1> QED BY <1>1 DEF Exact, LastOnes, Newest

\* One call is under way: the circuit's steps are the only ones of a call.
LEMMA OthersIdle ==
    ASSUME Alone, NEW c \in Circuits, pc[c] # "idle"
    PROVE  \A d \in Circuits : d # c => pc[d] = "idle"
  BY DEF Alone

\* A call begins while none is under way; it misses the cache only when the
\* newest window is over.
LEMMA ReadsOrderly ==
    ASSUME TypeOK, Sequential, NEW c \in Circuits, CheckReads(c), ~overlapped'
    PROVE  Sequential'
<1>0. \A d \in Circuits : pc[d] = "idle"
  BY DEF CheckReads
<1>1. /\ UNCHANGED <<now, infos, entry, stamp, loaded, grants>>
      /\ pc'[c] = "clock" /\ attempts'[c] = Cached
      /\ \A d \in Circuits : d # c => pc'[d] = "idle"
  BY <1>0 DEF CheckReads, Goto, TypeOK
<1>2. Alone'
  BY <1>1 DEF Alone
<1>3. OneEntry'
  BY <1>1 DEF Sequential, OneEntry, Over, Newest
<1>4. Cached \in {0, Newest} /\ (Cached = 0 => Over(now))
  <2>1. /\ now \in Nat /\ entry.expires \in Nat /\ Newest \in Nat /\ Window \in Nat
        /\ Newest # 0 => infos[Newest].start \in Nat
    BY Types, LimitAssumption, SMTT(30) DEF TypeOK, Newest, Info
  <2> QED BY <2>1 DEF Cached, Sequential, OneEntry, Over
<1>5. Held'
  BY <1>1, <1>4 DEF Held, Over, Newest
<1>6. Past'
  BY <1>1 DEF Sequential, Past
<1>7. ~Unstored /\ ~Unstored'
  BY <1>0, <1>1 DEF Unstored
<1> QED BY <1>1, <1>2, <1>3, <1>5, <1>6, <1>7, SameWindows, SameExact DEF Sequential

LEMMA ClockOrderly ==
    ASSUME TypeOK, Sequential, NEW c \in Circuits, CheckClock(c) PROVE Sequential'
<1>0. pc[c] = "clock" /\ \A d \in Circuits : d # c => pc[d] = "idle"
  BY OthersIdle DEF CheckClock, Sequential
<1>1. /\ UNCHANGED <<now, infos, entry, attempts, loaded, grants>>
      /\ pc'[c] = "test" /\ stamp'[c] = now
      /\ \A d \in Circuits : d # c => pc'[d] = "idle"
  BY <1>0 DEF CheckClock, Goto, TypeOK
<1>2. Alone' /\ OneEntry'
  BY <1>1 DEF Alone, Sequential, OneEntry, Over, Newest
<1>3. Held'
  BY <1>0, <1>1 DEF Sequential, Held, Over, Newest
<1>4. Past'
  BY <1>1 DEF Sequential, Past
<1>5. ~Unstored /\ ~Unstored'
  BY <1>0, <1>1 DEF Unstored
<1> QED BY <1>1, <1>2, <1>3, <1>4, <1>5, SameWindows, SameExact DEF Sequential

\* The call that starts a window found the newest one over.
LEMMA StartOrderly ==
    ASSUME CInv, Sequential, NEW c \in Circuits, StartWindow(c) PROVE Sequential'
<1> DEFINE o == Len(infos) + 1
<1>0. TypeOK /\ Dated /\ pc[c] = "test" /\ \A d \in Circuits : d # c => pc[d] = "idle"
  BY OthersIdle DEF StartWindow, Sequential, CInv
<1>1. /\ now' = now /\ entry' = [ref |-> o, expires |-> now + Window]
      /\ \A d \in Circuits : pc'[d] = "idle"
  BY <1>0 DEF StartWindow, CacheSet, Return, Goto, TypeOK
<1>2. /\ now \in Nat /\ stamp[c] \in Nat /\ stamp[c] <= now /\ Window \in Nat /\ maxAttempts \in Nat \ {0}
      /\ Newest \in Nat /\ Newest = Len(infos) /\ o \in Nat \ {0} /\ Len(grants) \in Nat
      /\ DOMAIN infos = 1 .. Len(infos) /\ DOMAIN grants = 1 .. Len(grants)
      /\ \A p \in DOMAIN infos : infos[p].start \in Nat
      /\ \A i \in DOMAIN grants : grants[i].at \in Nat /\ grants[i].ref \in DOMAIN infos
  BY <1>0, Types, LimitAssumption DEF Info, GrantRecord, Newest, Dated
<1>3. /\ Len(infos') = o /\ DOMAIN infos' = DOMAIN infos \cup {o}
      /\ \A p \in DOMAIN infos : infos'[p] = infos[p]
      /\ infos'[o].count = 1 /\ infos'[o].start = stamp[c]
  <2>1. infos'[o] = [count |-> 1, start |-> stamp[c]]
    BY <1>0, StartedTypes
  <2>2. infos'[o].count = 1 /\ infos'[o].start = stamp[c]
    BY <2>1
  <2> QED BY <1>0, <2>2, StartedTypes
<1>4. Grant(o, c)
  BY DEF StartWindow
<1>5. /\ DOMAIN grants' = DOMAIN grants \cup {Len(grants) + 1}
      /\ \A i \in DOMAIN grants : grants'[i] = grants[i]
      /\ grants'[Len(grants) + 1].ref = o /\ grants'[Len(grants) + 1].at = stamp[c]
      /\ Len(grants') = Len(grants) + 1
  <2>1. [ref |-> o, at |-> stamp[c]].ref = o /\ [ref |-> o, at |-> stamp[c]].at = stamp[c]
    OBVIOUS
  <2>2. Len(grants') = Len(grants) + 1
    BY <1>4 DEF Grant, TypeOK
  <2> QED BY <1>0, <1>2, <1>4, <2>1, <2>2, AppendedGrant
<1>6. Newest # 0 => Newest \in DOMAIN infos /\ infos[Newest].start + Window <= stamp[c]
  <2>1. attempts[c] \in {0, Newest} /\ (attempts[c] = 0 => Over(stamp[c]))
    BY <1>0 DEF Sequential, Held
  <2>2. attempts[c] # 0 => infos[attempts[c]].start + Window < stamp[c]
    <3> SUFFICES ASSUME attempts[c] # 0 PROVE infos[attempts[c]].start + Window < stamp[c]
      OBVIOUS
    <3>1. attempts[c] = Newest /\ infos[Newest].start \in Nat
      BY <1>2, <2>1
    <3>2. ~(stamp[c] <= infos[attempts[c]].start + Window)
      BY DEF StartWindow, InWindow
    <3>3. Window \in Nat /\ stamp[c] \in Nat
      BY <1>2
    <3> QED BY ONLY <3>1, <3>2, <3>3
  <2>3. Newest # 0 => Newest \in DOMAIN infos
    BY <1>2
  <2> QED BY <1>2, <2>1, <2>2, <2>3 DEF Over
<1>7. Alone' /\ Held'
  BY <1>1 DEF Alone, Held
<1>8. OneEntry'
  <2>1. entry'.ref = o /\ entry'.expires = now + Window
    BY <1>1
  <2> QED BY <1>2, <1>3, <2>1 DEF OneEntry, Over, Newest
<1>9. \A i \in DOMAIN grants : grants[i].at <= stamp[c]
  BY <1>0 DEF Sequential, Past
<1>10. Past'
  BY <1>1, <1>2, <1>5, <1>9 DEF Past
<1>11. Apart'
  <2>1. ASSUME NEW p \in DOMAIN infos', NEW q \in DOMAIN infos', p < q
        PROVE  infos'[p].start + Window <= infos'[q].start
    <3>1. CASE q \in DOMAIN infos
      BY <1>2, <1>3, <2>1, <3>1 DEF Sequential, Apart
    <3>2. CASE q = o
      <4>1. p \in DOMAIN infos /\ p <= Newest /\ Newest # 0
        BY <1>2, <1>3, <2>1, <3>2
      <4>2. infos[p].start <= infos[Newest].start
        <5>1. CASE p = Newest
          BY <1>2, <4>1, <5>1
        <5>2. CASE p # Newest
          <6>1. p < Newest /\ Newest \in DOMAIN infos
            BY <1>2, <1>6, <4>1, <5>2
          <6>2. infos[p].start + Window <= infos[Newest].start
            BY <4>1, <6>1 DEF Sequential, Apart
          <6>3. infos[p].start \in Nat /\ infos[Newest].start \in Nat
            BY <1>2, <4>1, <6>1
          <6>4. Window \in Nat
            BY <1>2
          <6> QED BY ONLY <6>2, <6>3, <6>4
        <5> QED BY <5>1, <5>2
      <4> QED BY <1>2, <1>3, <1>6, <3>2, <4>1, <4>2
    <3> QED BY <1>3, <3>1, <3>2
  <2>2. ASSUME NEW q \in DOMAIN infos', NEW i \in DOMAIN grants', grants'[i].ref < q
        PROVE  grants'[i].at <= infos'[q].start
    <3>1. CASE i \in DOMAIN grants /\ q \in DOMAIN infos
      BY <1>3, <1>5, <2>2, <3>1 DEF Sequential, Apart
    <3>2. CASE i \in DOMAIN grants /\ q = o
      BY <1>3, <1>5, <1>9, <3>2
    <3>3. CASE i = Len(grants) + 1
      BY <1>2, <1>3, <1>5, <2>2, <3>3
    <3> QED BY <1>3, <1>5, <3>1, <3>2, <3>3
  <2> QED BY <2>1, <2>2 DEF Apart
<1>12. Exact'
  <2>1. ~Unstored'
    BY <1>1 DEF Unstored
  <2>2. \A i \in DOMAIN grants' : grants'[i].ref = o => Len(grants') < i + 1
    <3> SUFFICES ASSUME NEW i \in DOMAIN grants', grants'[i].ref = o PROVE i = Len(grants) + 1
      BY <1>2, <1>5
    <3> QED BY <1>2, <1>5
  <2>3. infos'[o].count + (IF Unstored' THEN 1 ELSE 0) = 1
    BY <1>3, <2>1
  <2>4. LastOnes(1)'
    BY <1>2, <1>3, <2>2 DEF LastOnes, Newest
  <2> QED BY <1>3, <2>3, <2>4 DEF Exact, Newest, LastOnes
<1>13. FewPerWindow'
  <2> SUFFICES ASSUME NEW i \in DOMAIN grants', i + maxAttempts \in DOMAIN grants'
               PROVE  grants'[i].ref < grants'[i + maxAttempts].ref
    BY DEF FewPerWindow
  <2>1. i \in DOMAIN grants
    BY <1>2, <1>5
  <2>2. CASE i + maxAttempts \in DOMAIN grants
    BY <1>5, <2>1, <2>2 DEF Sequential, FewPerWindow
  <2>3. CASE i + maxAttempts = Len(grants) + 1
    <3>1. grants'[i].ref \in DOMAIN infos
      BY <1>2, <1>5, <2>1
    <3> QED BY <1>2, <1>5, <2>3, <3>1
  <2> QED BY <1>5, <2>2, <2>3
<1> QED BY <1>7, <1>8, <1>10, <1>11, <1>12, <1>13 DEF Sequential

\* A call that is let through finds the counter below the limit, and with no
\* other call under way the counter is the number of grants.
LEMMA AdmitOrderly ==
    ASSUME CInv, Sequential, NEW c \in Circuits, Admit(c) PROVE Sequential'
<1> DEFINE o == attempts[c]
<1>0. TypeOK /\ Dated /\ pc[c] = "test" /\ \A d \in Circuits : d # c => pc[d] = "idle"
  BY OthersIdle DEF Admit, Sequential, CInv
<1>1. /\ UNCHANGED <<now, infos, entry, attempts, stamp, loaded>>
      /\ pc'[c] = "load" /\ \A d \in Circuits : d # c => pc'[d] = "idle"
  BY <1>0 DEF Admit, Goto, TypeOK
<1>2. /\ now \in Nat /\ stamp[c] \in Nat /\ stamp[c] <= now /\ maxAttempts \in Nat \ {0}
      /\ Len(grants) \in Nat /\ DOMAIN infos = 1 .. Newest /\ DOMAIN grants = 1 .. Len(grants)
      /\ Newest \in Nat
      /\ \A i \in DOMAIN grants : grants[i].ref \in DOMAIN infos
  BY <1>0, Types, LimitAssumption DEF Newest, Dated
<1>3. o = Newest /\ o # 0 /\ o \in DOMAIN infos /\ infos[o].count \in Nat /\ infos[o].count < maxAttempts
  <2>1. o \in {0, Newest} /\ o # 0
    BY <1>0 DEF Sequential, Held, Admit, InWindow
  <2>2. o \in DOMAIN infos /\ infos[o].count \in Nat
    BY <1>0, <1>2, <2>1, Types DEF Info
  <2>3. ~(infos[o].count >= maxAttempts)
    BY DEF Admit, AtLimit
  <2> QED BY <1>2, <2>1, <2>2, <2>3
<1>4. /\ DOMAIN grants' = DOMAIN grants \cup {Len(grants) + 1}
      /\ \A i \in DOMAIN grants : grants'[i] = grants[i]
      /\ grants'[Len(grants) + 1].ref = o /\ grants'[Len(grants) + 1].at = stamp[c]
      /\ Len(grants') = Len(grants) + 1
  <2>1. [ref |-> o, at |-> stamp[c]].ref = o /\ [ref |-> o, at |-> stamp[c]].at = stamp[c]
    OBVIOUS
  <2>2. Len(grants') = Len(grants) + 1
    BY DEF Admit, Grant, TypeOK
  <2>3. Grant(o, c) /\ o \in Nat \ {0}
    BY <1>2, <1>3 DEF Admit
  <2> QED BY <1>0, <2>1, <2>2, <2>3, AppendedGrant
<1>5. Alone' /\ OneEntry'
  BY <1>1 DEF Alone, Sequential, OneEntry, Over, Newest
<1>6. Held'
  BY <1>0, <1>1 DEF Sequential, Held, Newest
<1>7. Past'
  <2>1. \A d \in Circuits : pc'[d] # "test"
    BY <1>1
  <2>2. \A i \in DOMAIN grants : grants[i].at <= now
    BY DEF Sequential, Past
  <2> QED BY <1>1, <1>2, <1>4, <2>1, <2>2 DEF Past
<1>8. Apart'
  <2>1. ASSUME NEW q \in DOMAIN infos, NEW i \in DOMAIN grants', grants'[i].ref < q
        PROVE  grants'[i].at <= infos[q].start
    <3>1. CASE i \in DOMAIN grants
      BY <1>4, <2>1, <3>1 DEF Sequential, Apart
    <3>2. CASE i = Len(grants) + 1
      BY <1>2, <1>3, <1>4, <2>1, <3>2
    <3> QED BY <1>4, <3>1, <3>2
  <2>2. \A p, q \in DOMAIN infos : p < q => infos[p].start + Window <= infos[q].start
    BY DEF Sequential, Apart
  <2> QED BY <1>1, <2>1, <2>2 DEF Apart
<1>9. \A i \in DOMAIN grants : grants[i].ref = o => Len(grants) < i + infos[o].count
  <2>1. ~Unstored
    BY <1>0 DEF Unstored
  <2>2. infos[o].count + (IF Unstored THEN 1 ELSE 0) = infos[o].count
    BY <1>3, <2>1
  <2> QED BY <1>3, <2>2 DEF Sequential, Exact, LastOnes
<1>10. Exact'
  <2>1. Unstored'
    BY <1>1 DEF Unstored
  <2>2. \A i \in DOMAIN grants' : grants'[i].ref = o => Len(grants') < i + (infos[o].count + 1)
    <3> SUFFICES ASSUME NEW i \in DOMAIN grants', grants'[i].ref = o
                 PROVE  Len(grants') < i + (infos[o].count + 1)
      OBVIOUS
    <3>1. CASE i \in DOMAIN grants
      <4>1. Len(grants) < i + infos[o].count /\ i \in Nat
        BY <1>2, <1>4, <1>9, <3>1
      <4> QED BY <1>2, <1>3, <1>4, <4>1
    <3>2. CASE i = Len(grants) + 1
      BY <1>2, <1>3, <1>4, <3>2
    <3> QED BY <1>4, <3>1, <3>2
  <2>3. infos'[Newest'].count + (IF Unstored' THEN 1 ELSE 0) = infos[o].count + 1
    BY <1>1, <1>3, <2>1 DEF Newest
  <2>4. LastOnes(infos[o].count + 1)'
    BY <1>1, <1>2, <1>3, <2>2 DEF LastOnes, Newest
  <2> QED BY <1>1, <2>3, <2>4 DEF Exact, Newest, LastOnes
<1>11. FewPerWindow'
  <2> SUFFICES ASSUME NEW i \in DOMAIN grants', i + maxAttempts \in DOMAIN grants'
               PROVE  grants'[i].ref < grants'[i + maxAttempts].ref
    BY DEF FewPerWindow
  <2>1. i \in DOMAIN grants /\ i \in Nat
    BY <1>2, <1>4
  <2>2. CASE i + maxAttempts \in DOMAIN grants
    BY <1>4, <2>1, <2>2 DEF Sequential, FewPerWindow
  <2>3. CASE i + maxAttempts = Len(grants) + 1
    <3>1. grants'[i].ref = grants[i].ref /\ grants[i].ref \in DOMAIN infos
      BY <1>2, <1>4, <2>1
    <3>2. grants[i].ref # o
      <4>1. ~(Len(grants) < i + infos[o].count)
        BY <1>2, <1>3, <2>1, <2>3
      <4> QED BY <1>9, <2>1, <4>1
    <3> QED BY <1>2, <1>3, <1>4, <2>3, <3>1, <3>2
  <2> QED BY <1>4, <2>2, <2>3
<1> QED BY <1>5, <1>6, <1>7, <1>8, <1>10, <1>11 DEF Sequential

LEMMA LoadOrderly ==
    ASSUME TypeOK, Dated, Sequential, NEW c \in Circuits, CountLoads(c) PROVE Sequential'
<1>0. pc[c] = "load" /\ attempts[c] # 0 /\ \A d \in Circuits : d # c => pc[d] = "idle"
  BY OthersIdle DEF CountLoads, Sequential, Dated
<1>1. /\ UNCHANGED <<now, infos, entry, attempts, stamp, grants>>
      /\ pc'[c] = "store" /\ loaded'[c] = infos[attempts[c]].count
      /\ \A d \in Circuits : d # c => pc'[d] = "idle"
  BY <1>0 DEF CountLoads, Goto, TypeOK
<1>2. attempts[c] = Newest
  BY <1>0 DEF Sequential, Held
<1>3. Alone' /\ OneEntry'
  BY <1>1 DEF Alone, Sequential, OneEntry, Over, Newest
<1>4. Held'
  BY <1>1, <1>2 DEF Held, Newest
<1>5. Past'
  BY <1>1 DEF Sequential, Past
<1>6. Unstored /\ Unstored'
  BY <1>0, <1>1 DEF Unstored
<1> QED BY <1>1, <1>3, <1>4, <1>5, <1>6, SameWindows, SameExact DEF Sequential

\* The value stored is the counter's plus one, as nobody else changes it.
LEMMA StoreOrderly ==
    ASSUME TypeOK, Dated, Sequential, NEW c \in Circuits, CountStores(c) PROVE Sequential'
<1> DEFINE o == attempts[c]
<1>0. pc[c] = "store" /\ o # 0 /\ \A d \in Circuits : d # c => pc[d] = "idle"
  BY OthersIdle DEF CountStores, Sequential, Dated
<1>1. /\ UNCHANGED <<now, entry, attempts, stamp, loaded, grants>>
      /\ pc'[c] = "set" /\ \A d \in Circuits : d # c => pc'[d] = "idle"
  BY <1>0 DEF CountStores, Goto, TypeOK
<1>2. o = Newest /\ loaded[c] = infos[Newest].count /\ Newest \in DOMAIN infos /\ infos[Newest].count \in Nat
  <2>1. o = Newest /\ loaded[c] = infos[Newest].count
    BY <1>0 DEF Sequential, Held
  <2>2. Newest \in DOMAIN infos
    BY <1>0, <2>1, Types DEF Newest
  <2> QED BY <2>1, <2>2, Types DEF Info
<1>3. /\ DOMAIN infos' = DOMAIN infos /\ Newest' = Newest
      /\ infos'[Newest].count = infos[Newest].count + 1
      /\ \A p \in DOMAIN infos : infos'[p].start = infos[p].start
  <2>1. infos'[o] = [count |-> loaded[c] + 1, start |-> infos[o].start]
    BY StoredTypes
  <2>2. infos'[o].count = loaded[c] + 1 /\ infos'[o].start = infos[o].start
    BY <2>1
  <2>3. \A p \in DOMAIN infos : p # o => infos'[p] = infos[p]
    BY StoredTypes
  <2>4. \A p \in DOMAIN infos : infos'[p].start = infos[p].start
    BY <2>2, <2>3
  <2> QED BY <1>2, <2>2, <2>4, StoredTypes DEF Newest
<1>4. Alone'
  BY <1>1 DEF Alone
<1>5. OneEntry'
  BY <1>1, <1>2, <1>3 DEF Sequential, OneEntry, Over
<1>6. Held'
  BY <1>0, <1>1, <1>2, <1>3 DEF Held
<1>7. Past'
  BY <1>1 DEF Sequential, Past
<1>8. Apart'
  BY <1>1, <1>3 DEF Sequential, Apart
<1>9. FewPerWindow'
  BY <1>1 DEF Sequential, FewPerWindow
<1>10. Exact'
  <2>1. Unstored /\ ~Unstored'
    BY <1>0, <1>1 DEF Unstored
  <2>2. infos[Newest].count + (IF Unstored THEN 1 ELSE 0) = infos[Newest].count + 1
    BY <2>1
  <2>3. LastOnes(infos[Newest].count + 1)
    BY <1>0, <1>2, <2>2 DEF Sequential, Exact
  <2>4. infos'[Newest'].count + (IF Unstored' THEN 1 ELSE 0) = infos[Newest].count + 1
    BY <1>2, <1>3, <2>1
  <2>5. /\ infos[Newest].count + 1 <= maxAttempts
        /\ \A i \in DOMAIN grants' : grants'[i].ref = Newest' => Len(grants') < i + (infos[Newest].count + 1)
    BY <1>1, <1>3, <2>3 DEF LastOnes
  <2> QED BY <2>4, <2>5 DEF Exact, LastOnes
<1> QED BY <1>4, <1>5, <1>6, <1>7, <1>8, <1>9, <1>10 DEF Sequential

\* The call puts the newest window back into the cache, and returns.
LEMMA SetOrderly ==
    ASSUME TypeOK, Dated, Sequential, NEW c \in Circuits, CheckSets(c) PROVE Sequential'
<1>0. pc[c] = "set" /\ attempts[c] # 0 /\ \A d \in Circuits : d # c => pc[d] = "idle"
  BY OthersIdle DEF CheckSets, Sequential, Dated
<1>1. /\ UNCHANGED <<now, infos, grants>> /\ entry' = [ref |-> attempts[c], expires |-> now + Window]
      /\ \A d \in Circuits : pc'[d] = "idle"
  BY <1>0 DEF CheckSets, CacheSet, Return, Goto, TypeOK
<1>2. attempts[c] = Newest
  BY <1>0 DEF Sequential, Held
<1>3. OneEntry'
  <2>1. entry'.ref = Newest' /\ entry'.expires = now + Window
    BY <1>1, <1>2 DEF Newest
  <2>2. infos[Newest].start \in Nat /\ infos[Newest].start <= now /\ now \in Nat /\ Window \in Nat
    <3>1. Newest \in DOMAIN infos
      BY <1>0, <1>2, Types DEF Newest
    <3> QED BY <3>1, Types, LimitAssumption DEF Info, Dated
  <2>3. now + Window >= infos[Newest].start + Window
    BY ONLY <2>2
  <2> QED BY <1>1, <2>1, <2>3 DEF OneEntry, Over, Newest
<1>4. Alone' /\ Held' /\ Past'
  BY <1>1 DEF Alone, Held, Sequential, Past
<1>5. ~Unstored /\ ~Unstored'
  BY <1>0, <1>1 DEF Unstored
<1> QED BY <1>1, <1>3, <1>4, <1>5, SameWindows, SameExact DEF Sequential

\* Steps of the pages, a refusal, and steps of nobody.
LEMMA RefuseOrderly ==
    ASSUME TypeOK, Sequential, NEW c \in Circuits, Refuse(c) \/ ShowRefusal(c) \/ LoadPage(c)
    PROVE  Sequential'
<1>1. /\ UNCHANGED <<now, infos, entry, grants>>
      /\ \A d \in Circuits :
           \/ pc'[d] = pc[d] /\ attempts'[d] = attempts[d] /\ stamp'[d] = stamp[d] /\ loaded'[d] = loaded[d]
           \/ pc[d] = "test" /\ pc'[d] = "refused" /\ attempts'[d] = attempts[d]
           \/ pc[d] = "refused" /\ pc'[d] = "idle"
  BY DEF Refuse, ShowRefusal, LoadPage, Return, Goto, callVars, TypeOK
<1>2. Alone' /\ OneEntry'
  BY <1>1 DEF Alone, Sequential, OneEntry, Over, Newest
<1>3. Held'
  BY <1>1 DEF Sequential, Held, Over, Newest
<1>4. Past'
  BY <1>1 DEF Sequential, Past
<1>5. Unstored' <=> Unstored
  BY <1>1 DEF Unstored
<1> QED BY <1>1, <1>2, <1>3, <1>4, <1>5, SameWindows, SameExact DEF Sequential

LEMMA QuietOrderly ==
    ASSUME TypeOK, Sequential, Tick \/ UNCHANGED vars PROVE Sequential'
<1>1. UNCHANGED <<infos, entry, pc, attempts, stamp, loaded, grants>>
  BY DEF Tick, vars, callVars
<1>2. now' \in {now, now + 1} /\ now \in Nat
  BY Types DEF Tick, vars
<1>3. Alone' /\ OneEntry'
  BY <1>1 DEF Alone, Sequential, OneEntry, Over, Newest
<1>4. Held'
  <2>1. Over(now) => Over(now')
    <3>1. Newest # 0 => infos[Newest].start \in Nat
      BY Types DEF Newest, Info
    <3> QED BY <1>2, <3>1, LimitAssumption DEF Over
  <2>2. Newest' = Newest /\ infos' = infos
    BY <1>1 DEF Newest
  <2>3. Over(now)' <=> Over(now')
    BY <2>2 DEF Over
  <2> QED BY <1>1, <2>1, <2>2, <2>3 DEF Sequential, Held, Over
<1>5. Past'
  <2>1. \A i \in DOMAIN grants : grants[i].at \in Nat /\ grants[i].at <= now
    BY Types DEF Sequential, Past, GrantRecord
  <2> QED BY <1>1, <1>2, <2>1 DEF Sequential, Past
<1>6. Unstored' <=> Unstored
  BY <1>1 DEF Unstored
<1> QED BY <1>1, <1>3, <1>4, <1>5, <1>6, SameWindows, SameExact DEF Sequential

LEMMA NextOrderly == ASSUME CInv, Orderly, [Next]_vars PROVE Orderly'
<1> SUFFICES ASSUME ~overlapped' PROVE Sequential'
  BY DEF Orderly
<1>1. ~overlapped
  BY DEF Next, Check, vars, callVars, Tick, CheckReads, CheckClock, StartWindow, Refuse, Admit, CountLoads,
         CountStores, CheckSets, ShowRefusal, LoadPage
<1>2. Sequential /\ TypeOK /\ Dated
  BY <1>1 DEF Orderly, CInv
<1>3. ASSUME NEW c \in Circuits, Check(c) \/ ShowRefusal(c) \/ LoadPage(c) PROVE Sequential'
  BY <1>2, <1>3, ReadsOrderly, ClockOrderly, StartOrderly, RefuseOrderly, AdmitOrderly, LoadOrderly,
     StoreOrderly, SetOrderly DEF Check
<1>4. CASE Tick \/ UNCHANGED vars
  BY <1>2, <1>4, QuietOrderly
<1> QED BY <1>3, <1>4 DEF Next

LEMMA OrderlyInvariant == Spec => [](CInv /\ Orderly)
<1>1. (CInv /\ Orderly) /\ [Next]_vars => Orderly'
  BY NextOrderly
<1> QED BY Invariant, InitOrderly, <1>1, PTL DEF Spec

\* Of 2 * maxAttempts + 1 grants the first, the middle and the last belong to
\* three windows: the first came before the second window began, and the third
\* began one window after that.
LEMMA WindowsHold == ASSUME CInv, Orderly PROVE LimitHolds
<1> SUFFICES ASSUME ~overlapped, NEW i \in DOMAIN grants, i + 2 * maxAttempts \in DOMAIN grants
             PROVE  grants[i + 2 * maxAttempts].at >= grants[i].at + Window
  BY DEF LimitHolds
<1> DEFINE j == i + maxAttempts
           k == i + 2 * maxAttempts
<1>0. /\ TypeOK /\ Dated /\ Sequential
      /\ maxAttempts \in Nat /\ Window \in Nat /\ Len(grants) \in Nat /\ DOMAIN grants = 1 .. Len(grants)
  BY LimitAssumption, Types DEF CInv, Orderly
<1>1. j \in DOMAIN grants /\ k = j + maxAttempts
  BY <1>0
<1>2. grants[i].ref < grants[j].ref /\ grants[j].ref < grants[k].ref
  BY <1>0, <1>1 DEF Sequential, FewPerWindow
<1> DEFINE q == grants[j].ref
           r == grants[k].ref
<1>3. /\ q \in DOMAIN infos /\ r \in DOMAIN infos /\ infos[r].start <= grants[k].at
      /\ infos[q].start \in Nat /\ infos[r].start \in Nat
      /\ grants[i].at \in Nat /\ grants[k].at \in Nat
  BY <1>0, <1>1, Types DEF Dated, Info, GrantRecord
<1>4. grants[i].at <= infos[q].start /\ infos[q].start + Window <= infos[r].start
  BY <1>0, <1>2, <1>3 DEF Sequential, Apart
<1>5. Window \in Nat
  BY <1>0
<1> QED BY ONLY <1>3, <1>4, <1>5

\* As long as calls do not overlap, at most 2 * maxAttempts calls are granted in
\* any stretch of time shorter than a window.
THEOREM LimitKept == Spec => []LimitHolds
<1> QED BY OrderlyInvariant, WindowsHold, PTL
=============================================================================
