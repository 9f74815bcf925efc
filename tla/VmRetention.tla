---------------------------- MODULE VmRetention ----------------------------
(***************************************************************************)
(* What the portal promises about the life of a VM record: a VM that is    *)
(* disabled ("scheduled for deletion") is not removed by the portal before *)
(* the grace period has passed, and a record becomes deleted only then.    *)
(* The promise does not hold for a record reactivated under a clean-up     *)
(* that is running: the clean-up may still expire it.                      *)
(***************************************************************************)
EXTENDS Naturals

CONSTANTS Keys, Grace, None

VARIABLES
    life,    \* key -> "none", "active", "scheduled" or "deleted"
    age,     \* key -> ticks since it was disabled, at most Grace + 1, or None
    purged,  \* the keys whose last VM the portal has removed
    clash    \* the records reactivated while a clean-up is running

vars == <<life, age, purged, clash>>

Lapsed(k) == age[k] # None /\ age[k] > Grace

Init ==
    /\ life = [k \in Keys |-> "none"]
    /\ age = [k \in Keys |-> None]
    /\ purged = {} /\ clash = {}

Becomes(k, state, ticks) == life'[k] = state /\ age'[k] = ticks

Stay(k) == Becomes(k, life[k], age[k])
Track(k) == life[k] = "none" /\ \/ Becomes(k, "active", None)
                                \/ \E a \in {0, 1} : Becomes(k, "scheduled", a)

\* Disabled now, or a tick ago by a save that failed then.
Disable(k) ==
    /\ life[k] # "none"
    /\ \E a \in {0, 1} : /\ age[k] = None \/ age[k] <= a
                         /\ Becomes(k, IF life[k] = "deleted" THEN "deleted" ELSE "scheduled", a)

Reactivate(k) == life[k] # "none" /\ Becomes(k, "active", None)

\* The page worked on an old copy and writes one of the two columns only.
HalfReactivate(k) ==
    /\ life[k] = "deleted"
    /\ \/ Becomes(k, "deleted", None)
       \/ age[k] # None /\ Becomes(k, "scheduled", age[k])

Expire(k) == /\ (life[k] = "scheduled" /\ Lapsed(k)) \/ k \in clash
             /\ Becomes(k, "deleted", age[k])

\* One save may move several records; a VM goes only after its grace period.
Step ==
    /\ \A k \in Keys : \/ Stay(k) \/ Track(k) \/ Disable(k)
                       \/ Reactivate(k) \/ HalfReactivate(k) \/ Expire(k)
    /\ \A k \in purged' \ purged : Lapsed(k) \/ k \in clash
    /\ \A k \in clash' \ clash : age[k] # None /\ age'[k] = None

Tick ==
    /\ age' = [k \in Keys |-> IF age[k] = None \/ age[k] = Grace + 1 THEN age[k] ELSE age[k] + 1]
    /\ UNCHANGED <<life, purged, clash>>

Next == Step \/ Tick

Spec == Init /\ [][Next]_vars
=============================================================================
