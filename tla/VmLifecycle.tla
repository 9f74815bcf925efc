---------------------------- MODULE VmLifecycle ----------------------------
(***************************************************************************)
(* The life of a VM record: a user's page disables it, the inventory sync  *)
(* deletes the VM from Proxmox once the grace period has passed, and the   *)
(* create and import pages bring records (back) to life.                   *)
(*                                                                         *)
(* Three kinds of process share the Vms table:                             *)
(*   - the background sync (VmInventorySyncService), one iteration at a    *)
(*     time, which decides on rows it read at the start of the iteration;  *)
(*   - the Blazor circuits, each with ONE DbContext for all its pages: a   *)
(*     row once read stays tracked with the values of that first read, and *)
(*     SaveChanges writes only the columns that differ from them;          *)
(*   - Proxmox itself, where VMs are cloned, removed, moved and created    *)
(*     without the portal.                                                 *)
(*                                                                         *)
(* A stamp (DisabledAt) is represented by its age in ticks, saturated at   *)
(* Grace + 1: the code only ever asks whether it is older than the grace   *)
(* period.                                                                 *)
(***************************************************************************)
EXTENDS Naturals, FiniteSets

CONSTANTS
    Keys,       \* (Node, VMID) pairs: the unique index of the Vms table
    Circuits,   \* Blazor circuits: a signed-in user's browser tab
    Admins,     \* circuits that can open the admin pages
    Grace,      \* the 30 days of grace, in ticks
    Faults,     \* what may happen around the portal, a subset of FaultKinds
    None        \* no row, no stamp, no key

FaultKinds ==
    { "reuse",    \* cluster/nextid hands out a VMID that has a row, or is about to
      "start",    \* somebody starts the VM, disabled or not: no page looks at that
      "foreign",  \* an operator creates a VM directly in Proxmox
      "remove",   \* an operator removes a VM directly in Proxmox
      "away",     \* a VM leaves its node, or its node is not listed, and returns
      "fail",     \* a call to Proxmox or to the database fails
      "crash" }   \* the portal process restarts

ASSUME GraceAssumption  == Grace \in Nat \ {0}
ASSUME NoneAssumption   == None \notin Nat \cup Keys \cup [disabled : BOOLEAN, at : Nat \cup {None}, deleted : BOOLEAN]
ASSUME CircuitAssumption == Admins \subseteq Circuits /\ "sync" \notin Circuits
ASSUME FaultAssumption  == Faults \subseteq FaultKinds

VARIABLES
    db,       \* the Vms table: key -> row, or None
    pve,      \* Proxmox: key -> "none", "here" (and stopped), "running", or
              \* "away" (alive, but not listed at this key)
    tracked,  \* circuit -> key -> the row as its DbContext tracks it, or None
    op,       \* circuit -> the handler it is running and the key it works on
    phase,    \* where the sync iteration stands
    seen,     \* the non-deleted rows the iteration read
    listed,   \* the keys of the iteration's Proxmox listing
    todo,     \* the keys whose VM the iteration has still to delete
    marked,   \* the keys it will mark as deleted, in memory so far
    late,     \* the handlers and iterations a tick has already overtaken
    since,    \* history: age of the row's current spell as disabled, or None
    cause,    \* history: key -> why its row disables its present VM, "asked" if so
    purged,   \* history: the keys whose last VM the sync has removed
    renewed   \* history: the rows reactivated while the iteration is running

syncVars == <<phase, seen, listed, todo, marked>>
vars == <<db, pve, tracked, op, syncVars, late, since, cause, purged, renewed>>

----------------------------------------------------------------------------

Ages  == 0 .. (Grace + 1)
Stamp == Ages \cup {None}
Row   == [disabled : BOOLEAN, at : Stamp, deleted : BOOLEAN]

CauseKinds ==
    { "none",        \* it does not
      "asked",       \* a page was asked to delete the VM
      "imported",    \* an administrator imported it
      "missed",      \* the sync did not find it where its row says
      "inherited" }  \* it came to a key that had a row, not reactivated since

Idle  == [pc |-> "idle", key |-> None]
Older(a) == IF a = None \/ a = Grace + 1 THEN a ELSE a + 1

\* now - DisabledAt > deleteGrace, with DisabledAt.HasValue
PastGraceInclusive(a) == a # None /\ a >= Grace      \* mutant: >= for >
PastGraceNever(a) == a # None /\ a > Grace + 1        \* mutant: one tick too many
PastGrace(a) == a # None /\ a = Grace + 1

\* A column of a tracked entity is written only when the new value differs
\* from the tracked one; otherwise the stored value stays.
Column(trackedValue, newValue, stored) ==
    IF trackedValue = newValue THEN stored ELSE newValue

\* The assignments of the handlers to a row, as entities or as stored columns.
DisablingFirst(r, dis, at) ==                          \* mutant: a stamp is kept
    [r EXCEPT !.disabled = dis, !.at = IF @ = None THEN at ELSE @]
Disabling(r, dis, at) == [r EXCEPT !.disabled = dis, !.at = at]
Deleting(r) == [r EXCEPT !.deleted = TRUE]
Activating(r, dis, del) == [r EXCEPT !.disabled = dis, !.deleted = del]

\* Store a table and keep the history of how long each row has been disabled,
\* counted from the assignment where that came begun[k] ticks before the save.
StoreBegun(table, begun) ==
    /\ db' = table
    /\ since' = [k \in Keys |->
                    IF table[k] = None THEN None
                    ELSE IF ~table[k].disabled THEN None
                    ELSE IF since[k] = None THEN begun[k]
                    ELSE IF since[k] < begun[k] THEN begun[k] ELSE since[k]]

Store(table) == StoreBegun(table, [k \in Keys |-> 0])

StoreRow(k, row, at) ==
    StoreBegun([db EXCEPT ![k] = row], [j \in Keys |-> IF j = k THEN at ELSE 0])

Because(k, why) == IF cause[k] = "asked" THEN "asked" ELSE why

InFlight == {c \in Circuits : op[c].pc \in {"cloned", "update", "insert", "importing", "unsaved"}}
                \cup (IF phase = "idle" THEN {} ELSE {"sync"})

\* The age of a stamp that handler c assigned before a save that failed.
Waited(c) == IF c \in late THEN 1 ELSE 0

Init ==
    /\ db = [k \in Keys |-> None]
    /\ pve \in [Keys -> {"none", "here"}]
    /\ ("foreign" \notin Faults => pve = [k \in Keys |-> "none"])
    /\ tracked = [c \in Circuits |-> [k \in Keys |-> None]]
    /\ op = [c \in Circuits |-> Idle]
    /\ phase = "idle"
    /\ seen = [k \in Keys |-> None]
    /\ listed = {} /\ todo = {} /\ marked = {} /\ late = {}
    /\ since = [k \in Keys |-> None]
    /\ cause = [k \in Keys |-> "none"]
    /\ purged = {} /\ renewed = {}

----------------------------------------------------------------------------
(***************************************************************************)
(* The sync: VmInventorySyncService.SyncAsync, once per interval.          *)
(***************************************************************************)

\* The iteration is over, by its end or by an exception: the scope and the
\* tracked rows go, and nothing of what was not saved remains.
SyncEnds ==
    /\ phase' = "idle"
    /\ seen' = [k \in Keys |-> None]
    /\ listed' = {} /\ todo' = {} /\ marked' = {} /\ renewed' = {}
    /\ late' = late \ {"sync"}

\* _db.Vms.Where(v => !v.IsDeleted).ToListAsync()
SyncRead ==
    /\ phase = "idle"
    /\ phase' = "list"
    /\ seen' = [k \in Keys |-> IF db[k] = None THEN None
                               ELSE IF db[k].deleted THEN None ELSE db[k]]
    /\ UNCHANGED <<db, pve, tracked, op, listed, todo, marked, late, since, cause, purged, renewed>>

\* ListVmsAsync, and the rows SyncDisabledVmsDeletionAsync handles without a
\* call: a row past its grace period that is not listed is marked at once.
ExpiredEnabled == {k \in Keys : seen[k] # None /\ PastGrace(seen[k].at)}  \* mutant
ExpiredUnaged == {k \in Keys : seen[k] # None /\ seen[k].disabled}  \* mutant
Expired == {k \in Keys : /\ seen[k] # None
                         /\ seen[k].disabled
                         /\ PastGrace(seen[k].at)}

SyncList ==
    /\ phase = "list"
    /\ phase' = "purge"
    /\ listed' = {k \in Keys : pve[k] \in {"here", "running"}}
    /\ todo' = Expired \cap listed'
    /\ marked' = Expired \ listed'
    /\ UNCHANGED <<db, pve, tracked, op, seen, late, since, cause, purged, renewed>>

\* Proxmox removes a VM that is at its place and stopped.
Removes(k) ==
    /\ pve[k] = "here"
    /\ pve' = [pve EXCEPT ![k] = "none"]
    /\ purged' = purged \cup {k}

\* DeleteVmAsync returned, or failed with "does not exist".
SyncDelete(k) ==
    /\ phase = "purge" /\ k \in todo
    /\ \/ Removes(k)
       \/ pve[k] \in {"none", "away"} /\ UNCHANGED <<pve, purged>>
    /\ todo' = todo \ {k}
    /\ marked' = marked \cup {k}
    /\ UNCHANGED <<db, tracked, op, phase, seen, listed, late, since, cause, renewed>>

\* Another HttpRequestException: the row is skipped. Proxmox refuses to remove
\* a running VM, and a request may have been carried out although its answer
\* was lost.
SyncDeleteRejected(k) ==
    /\ phase = "purge" /\ k \in todo
    /\ \/ (pve[k] = "running" \/ "fail" \in Faults) /\ UNCHANGED <<pve, purged>>
       \/ "fail" \in Faults /\ Removes(k)
    /\ todo' = todo \ {k}
    /\ UNCHANGED <<db, tracked, op, phase, seen, listed, marked, late, since, cause, renewed>>

\* Save IsDeleted of the marked rows, if any; the other columns of those rows
\* keep what is stored.
SyncSaveDeleted ==
    /\ phase = "purge" /\ todo = {}
    /\ phase' = "missing"
    /\ Store([k \in Keys |-> IF k \in marked THEN Deleting(db[k]) ELSE db[k]])
    /\ UNCHANGED <<pve, tracked, op, seen, listed, todo, marked, late, cause, purged, renewed>>

\* SyncMissingProxmoxVmsAsync, by the rows as read: an enabled row that was
\* not listed is disabled, a disabled one past its grace is marked deleted.
Missing(k) == seen[k] # None /\ k \notin listed

SyncMissing ==
    /\ phase = "missing"
    /\ Store([k \in Keys |->
         IF Missing(k) /\ ~seen[k].disabled
            THEN Disabling(db[k], TRUE, 0)
         ELSE IF Missing(k) /\ k \notin marked /\ PastGrace(seen[k].at)
            THEN Deleting(db[k])
         ELSE db[k]])
    /\ cause' = [k \in Keys |-> IF Missing(k) /\ ~seen[k].disabled
                                   THEN Because(k, "missed") ELSE cause[k]]
    /\ SyncEnds
    /\ UNCHANGED <<pve, tracked, op, purged>>

\* Any other exception ends the iteration; the call under way may still have
\* been carried out.
SyncAbort ==
    /\ "fail" \in Faults
    /\ phase # "idle"
    /\ UNCHANGED <<pve, purged>> \/ \E k \in todo : Removes(k)
    /\ SyncEnds
    /\ UNCHANGED <<db, tracked, op, since, cause>>

----------------------------------------------------------------------------
(***************************************************************************)
(* The pages. They share the circuit's DbContext.                          *)
(***************************************************************************)

Busy(c, pc, k) == op' = [op EXCEPT ![c] = [pc |-> pc, key |-> k]]
Done(c) == op' = [op EXCEPT ![c] = Idle] /\ late' = late \ {c}

\* The unique index refused an insert. The row stays in the DbContext as added,
\* so every later save of this circuit fails in the same way.
Refused(c) ==
    /\ op' = [op EXCEPT ![c].pc = "stuck"]
    /\ late' = late \ {c}
    /\ UNCHANGED <<db, since, tracked>>

\* A query returns the tracked entity, with its old values, when there is one.
Query(c, k) == IF tracked[c][k] = None THEN db[k] ELSE tracked[c][k]

\* MyVms, VmDetails and Admin/Vms load rows.
View(c, k) ==
    /\ op[c].pc \in {"idle", "unsaved"}
    /\ db[k] # None
    /\ tracked[c][k] = None
    /\ tracked' = [tracked EXCEPT ![c][k] = db[k]]
    /\ UNCHANGED <<db, pve, op, syncVars, late, since, cause, purged, renewed>>

\* IsDisabled and DisabledAt, set at ticks ago on the tracked entity, are saved.
SaveDisabled(c, k, at) ==
    /\ StoreRow(k, Disabling(db[k], Column(tracked[c][k].disabled, TRUE, db[k].disabled), at), at)
    /\ tracked' = [tracked EXCEPT ![c][k] = Disabling(@, TRUE, at)]
    /\ cause' = [cause EXCEPT ![k] = "asked"]
    /\ UNCHANGED <<pve, syncVars, purged, renewed>>

\* Set the two columns and save, and log the event, which saves again. If both
\* saves fail the user is told so, but the entity stays modified in the
\* DbContext, for whatever the circuit saves next.
Disable(c, k) ==
    \/ SaveDisabled(c, k, 0) /\ UNCHANGED <<op, late>>
    \/ /\ "fail" \in Faults
       /\ Busy(c, "unsaved", k)
       /\ UNCHANGED <<db, pve, tracked, syncVars, late, since, cause, purged, renewed>>

LaterSave(c) ==
    /\ op[c].pc = "unsaved"
    /\ SaveDisabled(c, op[c].key, Waited(c))
    /\ Done(c)

\* VmDetails: the button is off once the page's row says disabled.
UserDelete(c, k) ==
    /\ op[c] = Idle
    /\ tracked[c][k] # None
    /\ ~tracked[c][k].disabled
    /\ Disable(c, k)

\* Admin/Vms: no such condition.
AdminDelete(c, k) ==
    /\ c \in Admins
    /\ op[c] = Idle
    /\ tracked[c][k] # None
    /\ Disable(c, k)

BeingCreated(k) == \E c \in Circuits : op[c].pc \in {"cloned", "update", "insert"} /\ op[c].key = k

\* A new VM comes to a key.
Appears(k) ==
    /\ pve[k] = "none"
    /\ pve' = [pve EXCEPT ![k] = "here"]
    /\ cause' = [cause EXCEPT ![k] = IF db[k] = None THEN "none" ELSE "inherited"]
    /\ purged' = purged \ {k}

\* MyVmsNew: cluster/nextid picks a VMID no VM of the cluster has, and the
\* clone is there as soon as Proxmox accepts it.
CreateClone(c, k) ==
    /\ op[c].pc \in {"idle", "stuck"}
    /\ "reuse" \in Faults \/ (db[k] = None /\ ~BeingCreated(k))
    /\ Appears(k)
    /\ \/ op[c] = Idle /\ Busy(c, "cloned", k)
       \* The answer was lost, or the row cannot be saved: reported as failed.
       \/ ("fail" \in Faults \/ op[c].pc = "stuck") /\ op' = op
    /\ UNCHANGED <<db, tracked, syncVars, late, since, renewed>>

\* SingleOrDefaultAsync by (Node, VmId): an update of the row found, or an insert.
CreateLookup(c) ==
    /\ op[c].pc = "cloned"
    /\ LET k == op[c].key IN
         /\ tracked' = [tracked EXCEPT ![c][k] = IF db[k] = None THEN None ELSE Query(c, k)]
         /\ Busy(c, IF db[k] = None THEN "insert" ELSE "update", k)
    /\ UNCHANGED <<db, pve, syncVars, late, since, cause, purged, renewed>>

\* Reactivate the row: IsDeleted and IsDisabled become false, as seen from the
\* tracked entity; DisabledAt keeps its old value.
CreateUpdate(c) ==
    /\ op[c].pc = "update"
    /\ LET k == op[c].key
           e == tracked[c][k]
       IN /\ StoreRow(k, Activating(db[k], Column(e.disabled, FALSE, db[k].disabled),
                                         Column(e.deleted, FALSE, db[k].deleted)), 0)
          /\ tracked' = [tracked EXCEPT ![c][k] = Activating(@, FALSE, FALSE)]
          /\ cause' = IF db'[k].disabled THEN cause ELSE [cause EXCEPT ![k] = "none"]
          /\ renewed' = IF phase # "idle" /\ db[k].disabled /\ ~db'[k].disabled
                           THEN renewed \cup {k} ELSE renewed
    /\ Done(c)
    /\ UNCHANGED <<pve, syncVars, purged>>

NewRow(dis, at) == [disabled |-> dis, at |-> at, deleted |-> FALSE]

\* Insert the row, unless one with the same (Node, VmId) came first.
CreateInsert(c) ==
    /\ op[c].pc = "insert"
    /\ LET k == op[c].key IN
         \/ /\ db[k] = None
            /\ StoreRow(k, NewRow(FALSE, None), 0)
            /\ tracked' = [tracked EXCEPT ![c][k] = NewRow(FALSE, None)]
            /\ Done(c)
         \/ db[k] # None /\ Refused(c)
    /\ UNCHANGED <<pve, syncVars, cause, purged, renewed>>

\* ProxmoxVms lists the VMs without a row, deleted rows included.
ImportShow(c, k) ==
    /\ c \in Admins
    /\ op[c] = Idle
    /\ db[k] = None /\ pve[k] \in {"here", "running"}
    /\ tracked' = [tracked EXCEPT ![c] = [j \in Keys |-> Query(c, j)]]
    /\ Busy(c, "shown", k)
    /\ UNCHANGED <<db, pve, syncVars, late, since, cause, purged, renewed>>

\* "Re-check that we still don't have this VM in DB"
ImportCheck(c) ==
    /\ op[c].pc = "shown"
    /\ IF db[op[c].key] = None THEN Busy(c, "importing", op[c].key) /\ late' = late
                               ELSE Done(c)
    /\ UNCHANGED <<db, pve, tracked, syncVars, since, cause, purged, renewed>>

\* Insert as a disabled row, then LoadDataAsync reads every row again; a failure
\* leaves that out, and if it was the save's, a later save inserts the row.
ImportInsert(c) ==
    /\ op[c].pc = "importing"
    /\ LET k == op[c].key IN
         \/ /\ db[k] = None
            /\ \E at \in {0, Waited(c)} :
                 /\ at = 0 \/ "fail" \in Faults
                 /\ StoreRow(k, NewRow(TRUE, at), at)
                 /\ \/ tracked' = [tracked EXCEPT ![c] =
                                     [j \in Keys |-> IF j = k THEN NewRow(TRUE, at) ELSE Query(c, j)]]
                    \/ "fail" \in Faults /\ tracked' = [tracked EXCEPT ![c][k] = NewRow(TRUE, at)]
            /\ cause' = [cause EXCEPT ![k] = Because(k, "imported")]
            /\ Done(c)
         \/ db[k] # None /\ Refused(c) /\ cause' = cause
    /\ UNCHANGED <<pve, syncVars, purged, renewed>>

\* A handler ends with an exception before its save. When the save itself
\* fails, the entity stays in the DbContext and a later save stores it: to the
\* table, the same handler taking its time.
HandlerFails(c) ==
    /\ "fail" \in Faults
    /\ op[c].pc \in {"cloned", "update", "insert", "shown", "importing"}
    /\ Done(c)
    /\ UNCHANGED <<db, pve, tracked, syncVars, since, cause, purged, renewed>>

\* The user leaves: the circuit and its DbContext are disposed.
CloseCircuit(c) ==
    /\ op[c].pc \in {"idle", "shown", "stuck", "unsaved"}
    /\ op[c].pc = "stuck" \/ tracked[c] # [k \in Keys |-> None]
    /\ tracked' = [tracked EXCEPT ![c] = [k \in Keys |-> None]]
    /\ Done(c)
    /\ UNCHANGED <<db, pve, syncVars, since, cause, purged, renewed>>

----------------------------------------------------------------------------
(***************************************************************************)
(* Proxmox without the portal, time, and restarts.                         *)
(***************************************************************************)

\* Everything but Proxmox and what the history says of its VMs.
Unaware == <<db, tracked, op, syncVars, late, since, renewed>>

ForeignCreate(k) ==
    /\ "foreign" \in Faults
    /\ Appears(k)
    /\ UNCHANGED Unaware

ForeignRemove(k) ==
    /\ "remove" \in Faults
    /\ pve[k] # "none"
    /\ pve' = [pve EXCEPT ![k] = "none"]
    /\ UNCHANGED <<Unaware, cause, purged>>

PowerOn(k) ==
    /\ "start" \in Faults
    /\ pve[k] = "here"
    /\ pve' = [pve EXCEPT ![k] = "running"]
    /\ UNCHANGED <<Unaware, cause, purged>>

PowerOff(k) ==
    /\ pve[k] = "running"
    /\ pve' = [pve EXCEPT ![k] = "here"]
    /\ UNCHANGED <<Unaware, cause, purged>>

Leave(k) ==
    /\ "away" \in Faults
    /\ pve[k] \in {"here", "running"}
    /\ pve' = [pve EXCEPT ![k] = "away"]
    /\ UNCHANGED <<Unaware, cause, purged>>

Return(k) ==
    /\ pve[k] = "away"
    /\ pve' = [pve EXCEPT ![k] = "here"]
    /\ UNCHANGED <<Unaware, cause, purged>>

AgeRow(r) == IF r = None THEN None ELSE [r EXCEPT !.at = Older(@)]

\* A tick is a fraction 1/Grace of the grace period. No handler and no sync
\* iteration lasts that long, nor does a circuit go on so long without a save,
\* so at most one tick falls within each.
Tick ==
    /\ late = {}
    /\ late' = InFlight
    /\ db' = [k \in Keys |-> AgeRow(db[k])]
    /\ seen' = [k \in Keys |-> AgeRow(seen[k])]
    /\ tracked' = [c \in Circuits |-> [k \in Keys |-> AgeRow(tracked[c][k])]]
    /\ since' = [k \in Keys |-> Older(since[k])]
    /\ UNCHANGED <<pve, op, phase, listed, todo, marked, cause, purged, renewed>>

\* The process stops: circuits and the iteration are gone, the rest remains.
Crash ==
    /\ "crash" \in Faults
    /\ phase' = "idle"
    /\ seen' = [k \in Keys |-> None]
    /\ listed' = {} /\ todo' = {} /\ marked' = {} /\ late' = {} /\ renewed' = {}
    /\ tracked' = [c \in Circuits |-> [k \in Keys |-> None]]
    /\ op' = [c \in Circuits |-> Idle]
    /\ UNCHANGED <<db, pve, since, cause, purged>>

----------------------------------------------------------------------------

SyncStep ==
    \/ SyncRead \/ SyncList \/ SyncSaveDeleted \/ SyncMissing \/ SyncAbort
    \/ \E k \in Keys : SyncDelete(k) \/ SyncDeleteRejected(k)

PageStep(c) ==
    \/ \E k \in Keys : View(c, k) \/ UserDelete(c, k) \/ AdminDelete(c, k)
                        \/ CreateClone(c, k) \/ ImportShow(c, k)
    \/ CreateLookup(c) \/ CreateUpdate(c) \/ CreateInsert(c)
    \/ ImportCheck(c) \/ ImportInsert(c) \/ LaterSave(c) \/ HandlerFails(c) \/ CloseCircuit(c)

EnvironmentStep ==
    \/ \E k \in Keys : \/ ForeignCreate(k) \/ ForeignRemove(k)
                        \/ PowerOn(k) \/ PowerOff(k) \/ Leave(k) \/ Return(k)
    \/ Tick \/ Crash

Next == SyncStep \/ (\E c \in Circuits : PageStep(c)) \/ EnvironmentStep

Spec == Init /\ [][Next]_vars

\* The loop of VmInventorySyncBackgroundService never stops and catches every
\* exception, the calls of an iteration return, with or without success,
\* handlers run to their end, and time passes.
Fairness ==
    /\ WF_vars(SyncRead) /\ WF_vars(SyncList)
    /\ \A k \in Keys : WF_vars(SyncDelete(k) \/ SyncDeleteRejected(k))
    /\ WF_vars(SyncSaveDeleted) /\ WF_vars(SyncMissing)
    /\ SF_vars(Tick)
    /\ \A c \in Circuits : WF_vars(CreateLookup(c) \/ CreateUpdate(c) \/ CreateInsert(c)
                                     \/ ImportInsert(c) \/ LaterSave(c))

FairSpec == Spec /\ Fairness

----------------------------------------------------------------------------
(***************************************************************************)
(* Properties.                                                             *)
(***************************************************************************)

RowOrNone == Row \cup {None}
OpState == [pc : {"idle", "cloned", "update", "insert", "shown", "importing", "stuck", "unsaved"},
            key : Keys \cup {None}]

\* Every variable keeps its type.
TypeOK ==
    /\ db \in [Keys -> RowOrNone]
    /\ pve \in [Keys -> {"none", "here", "running", "away"}]
    /\ tracked \in [Circuits -> [Keys -> RowOrNone]]
    /\ op \in [Circuits -> OpState]
    /\ phase \in {"idle", "list", "purge", "missing"}
    /\ seen \in [Keys -> RowOrNone]
    /\ listed \subseteq Keys /\ todo \subseteq Keys /\ marked \subseteq Keys
    /\ late \subseteq Circuits \cup {"sync"}
    /\ since \in [Keys -> Stamp]
    /\ cause \in [Keys -> CauseKinds]
    /\ purged \subseteq Keys /\ renewed \subseteq Keys

\* DisabledAt of a disabled row never predates the moment the row was disabled,
\* whichever of the pages and the sync wrote which of the two columns, and when
\* their saves succeeded: a stamp left over from an earlier spell would cut the
\* grace period short.
StampIsFresh ==
    \A k \in Keys : since[k] # None => db[k].at # None /\ db[k].at <= since[k]

\* The sync takes a VM out of Proxmox only if its row has by then been disabled
\* without interruption for longer than the grace period. The exception is a
\* row that a create handler reactivated while the iteration was running.
PurgeAfterGrace ==
    [][\A k \in purged' \ purged :
          k \in renewed \/ (since[k] # None /\ since[k] > Grace)]_vars

\* The record's life as VmRetention promises it.
lives == [k \in Keys |-> IF db[k] = None THEN "none"
                         ELSE IF db[k].deleted THEN "deleted"
                         ELSE IF db[k].disabled THEN "scheduled" ELSE "active"]

Retention == INSTANCE VmRetention WITH life <- lives, age <- since, clash <- renewed

\* The pages, the sync and Proxmox together implement VmRetention, whatever
\* fails and whichever VMIDs are reused.
RetentionSpec == Retention!Spec

\* There is no other way to lose a VM than these: somebody asked for it on a
\* page, an administrator imported it, the sync missed it at some listing, it
\* came to a key whose old row nobody reactivated, or its row was reactivated
\* while the iteration that removes it was running.
RemovalHasCause ==
    [][\A k \in purged' \ purged : cause[k] # "none" \/ k \in renewed]_vars

\* What can fail: the iteration before its deletions are saved, or the removal
\* of a VM that is not running.
Fails ==
    \/ phase \in {"list", "purge"} /\ (SyncAbort \/ Crash)
    \/ \E k \in Keys : SyncDeleteRejected(k) /\ pve[k] # "running"

\* Once Proxmox and the database have stopped failing, no row stays for good
\* past its grace period without being deleted, whatever failed before and
\* whichever VMs come and go. The one way out is a VM that is running time and
\* again: Proxmox refuses to remove it, and nothing stops it.
LapsedIsDeleted ==
    <>[][~Fails]_vars =>
        \A k \in Keys :
           []<>~(lives[k] = "scheduled" /\ db[k].at = Grace + 1 /\ pve[k] # "running")

=============================================================================
