------------------------------ MODULE VmUptime ------------------------------
(***************************************************************************)
(* Status and uptime of one VM record. The sync writes Status together     *)
(* with LastStatusChangeAt and TotalRunTimeSeconds, from the row it read   *)
(* at the start of its iteration; the pages write Status alone,            *)
(* Admin/Vms at once, VmDetails with whatever save comes next.             *)
(*                                                                         *)
(* Time starts when the row is inserted. "Stopped" stands for every known  *)
(* status but Running: the code tells only Running and Unknown apart.      *)
(***************************************************************************)
EXTENDS Naturals, UptimeRecord

CONSTANTS
    Circuits,   \* Blazor circuits, each with one DbContext
    Faults,     \* a subset of FaultKinds
    MaxTime,    \* bound: the clock
    None

FaultKinds ==
    { "refresh",   \* the status is refreshed on Admin/Vms or VmDetails
      "reuse",     \* the create page reactivates the row for a new VM
      "odd",       \* Proxmox reports a status the portal does not know
      "absent",    \* the VM is not in the listing
      "fail" }     \* a call or an iteration fails

Powers == {"Running", "Stopped"}
Statuses == Powers \cup {"Unknown"}

ASSUME TimeAssumption  == MaxTime \in Nat
ASSUME FaultAssumption == Faults \subseteq FaultKinds
ASSUME NoneAssumption  == None \notin Statuses \cup {"list", "details"} \cup Nat

VARIABLES
    power,     \* the VM's status in Proxmox
    tracked,   \* circuit -> its entity's Status and the value it would compare with
    answer,    \* circuit -> the page that asked for the status and the answer
    phase,     \* where the sync iteration stands
    seen,      \* the row as the iteration read it
    listed     \* the status it found in the listing

syncVars == <<phase, seen, listed>>
vars == <<now, power, row, tracked, answer, syncVars>>

Untracked == [status |-> None, saved |-> None]
NoAnswer  == [page |-> None, status |-> None]
Entity(s) == [status |-> s, saved |-> s]

\* What GetVmStatusAsync and ListVmsAsync make of the reported status.
Readings == {power} \cup (IF "odd" \in Faults THEN {"Unknown"} ELSE {})

\* A row is inserted by the create page, or by the import page without a stamp.
Init ==
    /\ now = 0
    /\ power \in Powers
    /\ row \in [status : {"Stopped"}, at : {0}, total : {0}]
                  \cup [status : Readings, at : {None}, total : {0}]
    /\ tracked = [c \in Circuits |-> Untracked]
    /\ answer = [c \in Circuits |-> NoAnswer]
    /\ phase = "idle"
    /\ seen = row
    /\ listed = None

----------------------------------------------------------------------------
(***************************************************************************)
(* The sync.                                                               *)
(***************************************************************************)

SyncRead ==
    /\ phase = "idle"
    /\ phase' = "list"
    /\ seen' = row
    /\ UNCHANGED <<now, power, row, tracked, answer, listed>>

SyncList ==
    /\ phase = "list"
    /\ phase' = "status"
    /\ listed' \in Readings \cup (IF "absent" \in Faults THEN {None} ELSE {})
    /\ UNCHANGED <<now, power, row, tracked, answer, seen>>

\* The time the row has been Running, when it leaves that status.
ElapsedFromBirth(r) == IF r.status = "Running" /\ r.at # None THEN now ELSE 0   \* mutant
Elapsed(r) == IF r.status = "Running" /\ r.at # None THEN now - r.at ELSE 0

NewTotalAssigned(r) == Elapsed(r)                          \* mutant: = for +=
NewTotal(r) == r.total + Elapsed(r)

StatusChangedKnown == listed \notin {None, seen.status} /\ seen.status # "Unknown"  \* mutant
StatusChanged == listed \notin {None, "Unknown", seen.status}

\* SyncNameAndStatusAsync: all three columns, from the row as it was read.
SyncStatus ==
    /\ phase = "status"
    /\ phase' = "idle"
    /\ row' = IF StatusChanged
                 THEN [status |-> listed, at |-> now, total |-> NewTotal(seen)]
                 ELSE row
    /\ seen' = row'
    /\ listed' = None
    /\ UNCHANGED <<now, power, tracked, answer>>

SyncAborts ==
    /\ "fail" \in Faults
    /\ phase # "idle"
    /\ phase' = "idle"
    /\ seen' = row
    /\ listed' = None
    /\ UNCHANGED <<now, power, row, tracked, answer>>

----------------------------------------------------------------------------
(***************************************************************************)
(* The pages.                                                              *)
(***************************************************************************)

\* SaveChanges writes Status when the entity's value differs from the saved one.
Saved(c, s) == IF s = tracked[c].saved THEN row ELSE [row EXCEPT !.status = s]

View(c) ==
    /\ tracked[c] = Untracked
    /\ tracked' = [tracked EXCEPT ![c] = Entity(row.status)]
    /\ UNCHANGED <<now, power, row, answer, syncVars>>

\* GetVmStatusAsync, up to the answer.
RefreshAsks(c) ==
    /\ "refresh" \in Faults
    /\ tracked[c] # Untracked
    /\ answer[c] = NoAnswer
    /\ \E r \in Readings, page \in {"list", "details"} :
          answer' = [answer EXCEPT ![c] = [page |-> page, status |-> r]]
    /\ UNCHANGED <<now, power, row, tracked, syncVars>>

\* Refresh All of Admin/Vms assigns the status and saves.
RefreshSaves(c) ==
    /\ answer[c].page = "list"
    /\ row' = Saved(c, answer[c].status)
    /\ tracked' = [tracked EXCEPT ![c] = Entity(answer[c].status)]
    /\ answer' = [answer EXCEPT ![c] = NoAnswer]
    /\ UNCHANGED <<now, power, syncVars>>

\* VmDetails assigns it only.
RefreshShows(c) ==
    /\ answer[c].page = "details"
    /\ tracked' = [tracked EXCEPT ![c].status = answer[c].status]
    /\ answer' = [answer EXCEPT ![c] = NoAnswer]
    /\ UNCHANGED <<now, power, row, syncVars>>

\* Any later save of the circuit, by a security event at the latest.
LogSaves(c) ==
    /\ tracked[c].status # tracked[c].saved
    /\ row' = Saved(c, tracked[c].status)
    /\ tracked' = [tracked EXCEPT ![c] = Entity(tracked[c].status)]
    /\ UNCHANGED <<now, power, answer, syncVars>>

RefreshFails(c) ==
    /\ "fail" \in Faults
    /\ answer[c] # NoAnswer
    /\ answer' = [answer EXCEPT ![c] = NoAnswer]
    /\ UNCHANGED <<now, power, row, tracked, syncVars>>

\* MyVmsNew finds the row of an earlier VM with the same key: the total stays.
CreateUpdate(c) ==
    /\ "reuse" \in Faults
    /\ power' = "Stopped"
    /\ row' = [(IF tracked[c].saved = "Stopped" THEN row ELSE [row EXCEPT !.status = "Stopped"])
                  EXCEPT !.at = now]
    /\ tracked' = [tracked EXCEPT ![c] = Entity("Stopped")]
    /\ UNCHANGED <<now, answer, syncVars>>

CloseCircuit(c) ==
    /\ tracked[c] # Untracked
    /\ tracked' = [tracked EXCEPT ![c] = Untracked]
    /\ answer' = [answer EXCEPT ![c] = NoAnswer]
    /\ UNCHANGED <<now, power, row, syncVars>>

----------------------------------------------------------------------------

\* The VM is started or stopped: by its user, by Proxmox or from a page.
PowerChanges ==
    /\ power' \in Powers \ {power}
    /\ UNCHANGED <<now, row, tracked, answer, syncVars>>

Tick ==
    /\ now < MaxTime
    /\ now' = now + 1
    /\ UNCHANGED <<power, row, tracked, answer, syncVars>>

SyncStep == SyncRead \/ SyncList \/ SyncStatus \/ SyncAborts

PageStep(c) ==
    \/ View(c) \/ RefreshAsks(c) \/ RefreshSaves(c) \/ RefreshShows(c) \/ LogSaves(c)
    \/ RefreshFails(c) \/ CreateUpdate(c) \/ CloseCircuit(c)

Next == SyncStep \/ (\E c \in Circuits : PageStep(c)) \/ PowerChanges \/ Tick

Spec == Init /\ [][Next]_vars

\* The sync's loop goes on, and does not for ever fail or miss the VM.
Fairness ==
    /\ WF_vars(SyncStep)
    /\ SF_vars(SyncList /\ listed' = power)
    /\ SF_vars(SyncStatus /\ listed \in Powers)

FairSpec == Spec /\ Fairness

----------------------------------------------------------------------------
(***************************************************************************)
(* Properties, with those of UptimeRecord.                                 *)
(***************************************************************************)

RowType == [status : Statuses, at : Nat \cup {None}, total : Nat]

\* Every variable keeps its type.
TypeOK ==
    /\ now \in Nat
    /\ power \in Powers
    /\ row \in RowType
    /\ tracked \in [Circuits -> [status : Statuses \cup {None}, saved : Statuses \cup {None}]]
    /\ answer \in [Circuits -> [page : {"list", "details", None}, status : Statuses \cup {None}]]
    /\ phase \in {"idle", "list", "status"}
    /\ seen \in RowType
    /\ listed \in Statuses \cup {None}

\* If the VM stays as it is, the record shows it again and again: a stale or
\* unknown status a page has written does not last.
StatusSettles ==
    \A s \in Powers : <>[](power = s) => []<>(row.status = s)
=============================================================================
