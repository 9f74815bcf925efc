---------------------------- MODULE RateLimiter ----------------------------
(***************************************************************************)
(* RateLimitingService for one user and operation, and the pages that ask  *)
(* it before each power action. The cache holds a reference to a mutable   *)
(* RateLimitInfo; the user's circuits run on different threads, and no     *)
(* lock orders their reads and writes of the cache and of the counter.     *)
(*                                                                         *)
(* A window is identified by the RateLimitInfo that counts it: its place   *)
(* in infos. One tick is the resolution of the clock.                      *)
(***************************************************************************)
EXTENDS Naturals, Sequences, FiniteSets

CONSTANTS
    Circuits,     \* the user's circuits
    maxAttempts,  \* grants per window
    Window,       \* its length, also the lifetime of a cache entry
    MaxTime,      \* bound: the clock
    MaxGrants     \* bound: grants after which no new check begins

ASSUME LimitAssumption == maxAttempts \in Nat \ {0} /\ Window \in Nat \ {0}
ASSUME BoundAssumption == MaxTime \in Nat /\ MaxGrants \in Nat
ASSUME CircuitAssumption == IsFiniteSet(Circuits)

VARIABLES
    now,         \* the clock
    infos,       \* every RateLimitInfo: Count and WindowStart
    entry,       \* the cache entry: the info it refers to (0: none) and its expiry
    pc,          \* circuit -> where its call of CheckRateLimitAsync stands
    attempts,    \* circuit -> the info it read from the cache, 0: none
    stamp,       \* circuit -> the time it read
    loaded,      \* circuit -> the Count it is about to increment
    cooldown,    \* circuit -> whether its page shows a cooldown
    grants,      \* history: the window and the time of each grant, in order
    overlapped   \* history: two calls were under way at the same time

callVars == <<pc, attempts, stamp, loaded>>
vars == <<now, infos, entry, callVars, cooldown, grants, overlapped>>

Init ==
    /\ now = 0
    /\ infos = <<>>
    /\ entry = [ref |-> 0, expires |-> 0]
    /\ pc = [c \in Circuits |-> "idle"]
    /\ attempts = [c \in Circuits |-> 0]
    /\ stamp = [c \in Circuits |-> 0]
    /\ loaded = [c \in Circuits |-> 0]
    /\ cooldown = [c \in Circuits |-> FALSE]
    /\ grants = <<>>
    /\ overlapped = FALSE

Goto(c, where) == pc' = [pc EXCEPT ![c] = where]

\* MemoryCache drops an entry when its lifetime is over.
Cached == IF entry.ref # 0 /\ now < entry.expires THEN entry.ref ELSE 0

\* cache.Set(cacheKey, info, windowSpan)
CacheSet(o) == entry' = [ref |-> o, expires |-> now + Window]

\* The call returns, and its locals are gone.
Return(c) ==
    /\ Goto(c, "idle")
    /\ attempts' = [attempts EXCEPT ![c] = 0]
    /\ stamp' = [stamp EXCEPT ![c] = 0]
    /\ loaded' = [loaded EXCEPT ![c] = 0]

Grant(o, c) == grants' = Append(grants, [ref |-> o, at |-> stamp[c]])

----------------------------------------------------------------------------
(***************************************************************************)
(* CheckRateLimitAsync.                                                    *)
(***************************************************************************)

\* A button that is enabled is clicked; the call reads the cache.
CheckReads(c) ==
    /\ pc[c] = "idle" /\ ~cooldown[c]
    /\ Len(grants) < MaxGrants
    /\ attempts' = [attempts EXCEPT ![c] = Cached]
    /\ overlapped' = (overlapped \/ \E d \in Circuits : pc[d] # "idle")
    /\ Goto(c, "clock")
    /\ UNCHANGED <<now, infos, entry, stamp, loaded, cooldown, grants>>

CheckClock(c) ==
    /\ pc[c] = "clock"
    /\ stamp' = [stamp EXCEPT ![c] = now]
    /\ Goto(c, "test")
    /\ UNCHANGED <<now, infos, entry, attempts, loaded, cooldown, grants, overlapped>>

InWindowForever(c) == attempts[c] # 0            \* mutant: an old window is not reset
InWindow(c) == attempts[c] # 0 /\ stamp[c] <= infos[attempts[c]].start + Window

First == 1

\* First attempt, or the window is over.
StartWindow(c) ==
    LET o == Len(infos) + 1 IN
    /\ pc[c] = "test" /\ ~InWindow(c)
    /\ infos' = Append(infos, [count |-> First, start |-> stamp[c]])
    /\ CacheSet(o)
    /\ Grant(o, c)
    /\ Return(c)
    /\ UNCHANGED <<now, cooldown, overlapped>>

AtLimitExceeded(c) == infos[attempts[c]].count > maxAttempts     \* mutant: > for >=
AtLimit(c) == infos[attempts[c]].count >= maxAttempts

Refuse(c) ==
    /\ pc[c] = "test" /\ InWindow(c) /\ AtLimit(c)
    /\ Goto(c, "refused")
    /\ UNCHANGED <<now, infos, entry, attempts, stamp, loaded, cooldown, grants, overlapped>>

\* From here on the call returns true.
Admit(c) ==
    /\ pc[c] = "test" /\ InWindow(c) /\ ~AtLimit(c)
    /\ Grant(attempts[c], c)
    /\ Goto(c, "load")
    /\ UNCHANGED <<now, infos, entry, attempts, stamp, loaded, cooldown, overlapped>>

\* attempts.Count++ is a load and a store.
CountLoads(c) ==
    /\ pc[c] = "load"
    /\ loaded' = [loaded EXCEPT ![c] = infos[attempts[c]].count]
    /\ Goto(c, "store")
    /\ UNCHANGED <<now, infos, entry, attempts, stamp, cooldown, grants, overlapped>>

CountStores(c) ==
    /\ pc[c] = "store"
    /\ infos' = [infos EXCEPT ![attempts[c]].count = loaded[c] + 1]
    /\ Goto(c, "set")
    /\ UNCHANGED <<now, entry, attempts, stamp, loaded, cooldown, grants, overlapped>>

CheckSets(c) ==
    /\ pc[c] = "set"
    /\ CacheSet(attempts[c])
    /\ Return(c)
    /\ UNCHANGED <<now, infos, cooldown, grants, overlapped>>

----------------------------------------------------------------------------
(***************************************************************************)
(* The pages: GetRemainingCooldownAsync when the page is loaded and after  *)
(* a refusal. A cooldown disables the page's buttons until it is reloaded. *)
(***************************************************************************)

Remaining == Cached # 0 /\ now < infos[Cached].start + Window

ShowRefusal(c) ==
    /\ pc[c] = "refused"
    /\ cooldown' = [cooldown EXCEPT ![c] = Remaining]
    /\ Return(c)
    /\ UNCHANGED <<now, infos, entry, grants, overlapped>>

LoadPage(c) ==
    /\ pc[c] = "idle"
    /\ cooldown' = [cooldown EXCEPT ![c] = Remaining]
    /\ UNCHANGED <<now, infos, entry, callVars, grants, overlapped>>

Tick ==
    /\ now < MaxTime
    /\ now' = now + 1
    /\ UNCHANGED <<infos, entry, callVars, cooldown, grants, overlapped>>

Check(c) ==
    \/ CheckReads(c) \/ CheckClock(c) \/ StartWindow(c) \/ Refuse(c) \/ Admit(c)
    \/ CountLoads(c) \/ CountStores(c) \/ CheckSets(c)

Next == Tick \/ \E c \in Circuits : Check(c) \/ ShowRefusal(c) \/ LoadPage(c)

Spec == Init /\ [][Next]_vars

----------------------------------------------------------------------------
(***************************************************************************)
(* Properties.                                                             *)
(***************************************************************************)

Info == [count : Nat \ {0}, start : Nat]
GrantRecord == [ref : Nat \ {0}, at : Nat]

\* Every variable keeps its type.
TypeOK ==
    /\ now \in Nat
    /\ infos \in Seq(Info)
    /\ entry \in [ref : 0 .. Len(infos), expires : Nat]
    /\ pc \in [Circuits -> {"idle", "clock", "test", "load", "store", "set", "refused"}]
    /\ attempts \in [Circuits -> 0 .. Len(infos)]
    /\ stamp \in [Circuits -> Nat]
    /\ loaded \in [Circuits -> Nat]
    /\ cooldown \in [Circuits -> BOOLEAN]
    /\ grants \in Seq(GrantRecord)
    /\ overlapped \in BOOLEAN

\* Whatever the threads do to the counter, a refused call was preceded by
\* maxAttempts granted ones since one window before the time it read: lost
\* updates and entries put back in the cache only let more calls through.
RefusalsAreEarned ==
    [][\A c \in Circuits : Refuse(c) =>
          Cardinality({i \in DOMAIN grants : grants[i].at + Window >= stamp[c]}) >= maxAttempts]_vars

\* As long as calls do not overlap, 2 * maxAttempts + 1 grants take at least one
\* window: windows do not slide, so two of them may meet, but never three.
LimitHolds ==
    ~overlapped =>
        \A i \in DOMAIN grants : i + 2 * maxAttempts \in DOMAIN grants =>
            grants[i + 2 * maxAttempts].at >= grants[i].at + Window
=============================================================================
