------------------------------ MODULE VmPages ------------------------------
(***************************************************************************)
(* The pages of one circuit for one VM: a list page (MyVms, Admin/Vms) or  *)
(* the details page (VmDetails), one at a time. Handlers run on the        *)
(* circuit's dispatcher, one step from await to await, and share the       *)
(* tracked entity; a handler goes on when its page has been left, with the *)
(* fields of that page, which nobody sees any more.                        *)
(*                                                                         *)
(* The list pages' delayed refresh is a ContinueWith: it runs on a thread  *)
(* of the pool, where StateHasChanged throws unless a render is pending.   *)
(***************************************************************************)
EXTENDS Naturals, FiniteSets

CONSTANTS
    Clicks,   \* handlers that may be under way at a time
    Timer     \* the details page's refresh loop

Powers == {"Running", "Stopped"}
Tasks == Clicks \cup {Timer}

ASSUME TaskAssumption == IsFiniteSet(Clicks) /\ Timer \notin Clicks

VARIABLES
    power,    \* the VM's status in Proxmox
    status,   \* Status of the tracked entity
    page,     \* the page shown
    busy,     \* its _operationInProgress or _busy
    shown,    \* busy as last rendered: the buttons are disabled
    can,      \* the status its buttons were enabled for (VmDetails)
    opening,  \* _consoleOpening
    session,  \* _currentConsoleSessionId is set
    task,     \* task -> its handler, await, page still shown, answer
    raced     \* history: a click or a delayed refresh has overtaken a rendering

pageVars == <<page, opening, session>>
vars == <<power, status, busy, shown, can, pageVars, task, raced>>

Idle == [kind |-> "idle", at |-> "end", live |-> FALSE, answer |-> "Stopped"]
Handler(kind, at) == [kind |-> kind, at |-> at, live |-> TRUE, answer |-> "Stopped"]

Init ==
    /\ power \in Powers /\ status \in Powers
    /\ page = "list"
    /\ busy = FALSE /\ shown = FALSE
    /\ can = status
    /\ opening = FALSE /\ session = FALSE
    /\ task = [t \in Tasks |-> Idle]
    /\ raced = FALSE

----------------------------------------------------------------------------
(***************************************************************************)
(* Steps of handlers.                                                      *)
(***************************************************************************)

Free(t) == task[t].kind = "idle"
At(t, kinds, at) == task[t].kind \in kinds /\ task[t].at = at
Begins(t, kind, at) == task' = [task EXCEPT ![t] = Handler(kind, at)]
Awaits(t, at) == task' = [task EXCEPT ![t].at = at]
Ends(t) == task' = [task EXCEPT ![t] = Idle]

\* The handler of a page that has been left writes fields nobody reads.
SetBusy(t, value) ==
    IF task[t].live THEN busy' = value /\ shown' = value ELSE UNCHANGED <<busy, shown>>

Confirming == \E t \in Tasks : task[t].at = "confirm"

\* A click that the browser sent before it showed the disabled button or the dialog.
Clicked == raced' = (raced \/ shown \/ Confirming)

----------------------------------------------------------------------------
(***************************************************************************)
(* The list pages.                                                         *)
(***************************************************************************)

\* ExecuteVmOperationAsync, up to the call.
Operate(t) ==
    /\ page = "list" /\ Free(t) /\ ~busy
    /\ busy' = TRUE /\ shown' = TRUE
    /\ Begins(t, "operation", "call")
    /\ Clicked
    /\ UNCHANGED <<power, status, can, pageVars>>

\* The call's answer; a VM may follow the request, at once or later.
OperationDone(t) ==
    /\ At(t, {"operation"}, "call")
    /\ power' \in Powers
    /\ SetBusy(t, FALSE)
    /\ task' = [task EXCEPT ![t].kind = "delayed", ![t].at = "sleep"]
    /\ UNCHANGED <<status, can, pageVars, raced>>

OperationFails(t) ==
    /\ At(t, {"operation"}, "call")
    /\ power' \in Powers
    /\ SetBusy(t, FALSE)
    /\ Ends(t)
    /\ UNCHANGED <<status, can, pageVars, raced>>

\* Task.Delay(3000).ContinueWith: the flag is set, then StateHasChanged throws,
\* outside the try. Nothing is rendered.
DelayedThrows(t) ==
    /\ At(t, {"delayed"}, "sleep")
    /\ task[t].live /\ ~busy
    /\ busy' = TRUE
    /\ Ends(t)
    /\ UNCHANGED <<power, status, shown, can, pageVars, raced>>

\* The page is busy (a page that has been left may be or not).
DelayedReturns(t) ==
    /\ At(t, {"delayed"}, "sleep")
    /\ busy \/ ~task[t].live
    /\ Ends(t)
    /\ UNCHANGED <<power, status, busy, shown, can, pageVars, raced>>

\* A render is pending, and StateHasChanged has nothing to do.
DelayedAsks(t) ==
    /\ At(t, {"delayed"}, "sleep")
    /\ ~busy \/ ~task[t].live
    /\ busy' = (busy \/ task[t].live)
    /\ Awaits(t, "ask")
    /\ raced' = TRUE
    /\ UNCHANGED <<power, status, shown, can, pageVars>>

\* Admin/Vms only: RefreshAllVmsAsync does not look at the flag.
RefreshAll(t) ==
    /\ page = "list" /\ Free(t)
    /\ busy' = TRUE /\ shown' = TRUE
    /\ Begins(t, "refreshAll", "ask")
    /\ Clicked
    /\ UNCHANGED <<power, status, can, pageVars>>

----------------------------------------------------------------------------
(***************************************************************************)
(* The details page.                                                       *)
(***************************************************************************)

\* ExecuteVmAction, up to the call, and UpdateResourcesAsync.
Act(t) ==
    /\ page = "details" /\ Free(t) /\ ~busy
    /\ busy' = TRUE /\ shown' = TRUE
    /\ \E kind \in {"action", "update"} : Begins(t, kind, "call")
    /\ Clicked
    /\ UNCHANGED <<power, status, can, pageVars>>

ActionDone(t) ==
    /\ At(t, {"action"}, "call")
    /\ power' \in Powers
    /\ Awaits(t, "sleep")
    /\ UNCHANGED <<status, busy, shown, can, pageVars, raced>>

CallEnds(t) ==
    /\ At(t, {"action", "update"}, "call")
    /\ power' \in (IF task[t].kind = "action" THEN Powers ELSE {power})
    /\ SetBusy(t, FALSE)
    /\ Ends(t)
    /\ UNCHANGED <<status, can, pageVars, raced>>

\* Task.Delay(1000) is over: RefreshStatusInternalAsync(true).
ActionRefreshes(t) ==
    /\ At(t, {"action"}, "sleep")
    /\ SetBusy(t, TRUE)
    /\ Awaits(t, "ask")
    /\ UNCHANGED <<power, status, can, pageVars, raced>>

\* The refresh button: RefreshStatusInternalAsync(true) does not look at the flag.
Refresh(t) ==
    /\ page = "details" /\ Free(t)
    /\ busy' = TRUE /\ shown' = TRUE
    /\ Begins(t, "refresh", "ask")
    /\ Clicked
    /\ UNCHANGED <<power, status, can, pageVars>>

MayRefreshRunning == ~opening /\ ~session /\ status = "Running"   \* mutant
MayRefresh == ~opening /\ ~session

\* A tick of StartStatusRefreshLoop: RefreshStatusInternalAsync(false).
Tick ==
    /\ page = "details" /\ Free(Timer) /\ MayRefresh
    /\ Begins(Timer, "periodic", "ask")
    /\ UNCHANGED <<power, status, busy, shown, can, pageVars, raced>>

----------------------------------------------------------------------------
(***************************************************************************)
(* GetVmStatusAsync: the answer is Proxmox's at one moment and is applied  *)
(* at a later one.                                                         *)
(***************************************************************************)

Reading == power

Answer(t) ==
    /\ task[t].at = "ask"
    /\ task' = [task EXCEPT ![t].at = "answer", ![t].answer = Reading]
    /\ UNCHANGED <<power, status, busy, shown, can, pageVars, raced>>

\* UpdateActionAvailability is called by the details page when the status differs.
Availability(t) ==
    IF task[t].live /\ page = "details" /\ status # task[t].answer THEN task[t].answer ELSE can

\* Every handler but the periodic one clears the flag when it ends.
ReleaseAlways(t) == SetBusy(t, FALSE)                     \* mutant: the periodic one too
ReleaseAction(t) ==                                       \* mutant: not after the button
    IF task[t].kind \in {"periodic", "refresh"} THEN UNCHANGED <<busy, shown>> ELSE SetBusy(t, FALSE)
Release(t) ==
    CASE task[t].kind = "periodic" -> UNCHANGED <<busy, shown>>
      [] task[t].kind = "delayed"  -> /\ busy' = (busy /\ ~task[t].live)
                                      /\ UNCHANGED shown
      [] OTHER -> SetBusy(t, FALSE)

Apply(t) ==
    /\ task[t].at = "answer"
    /\ status' = task[t].answer
    /\ can' = Availability(t)
    /\ Release(t)
    /\ Ends(t)
    /\ UNCHANGED <<power, pageVars, raced>>

AskFails(t) ==
    /\ task[t].at = "ask"
    /\ Release(t)
    /\ Ends(t)
    /\ UNCHANGED <<power, status, can, pageVars, raced>>

----------------------------------------------------------------------------
(***************************************************************************)
(* Deleting, the console, navigation.                                      *)
(***************************************************************************)

\* DeleteVmAsync of both pages: the flag is tested before the confirm dialog and
\* set after it, without another test.
Delete(t) ==
    /\ Free(t) /\ ~busy
    /\ Begins(t, "delete", "confirm")
    /\ Clicked
    /\ UNCHANGED <<power, status, busy, shown, can, pageVars>>

DeleteDeclined(t) ==
    /\ At(t, {"delete"}, "confirm")
    /\ Ends(t)
    /\ UNCHANGED <<power, status, busy, shown, can, pageVars, raced>>

\* The list page saves and is done; the details page waits for Task.Delay(1500).
DeleteConfirmed(t) ==
    /\ At(t, {"delete"}, "confirm") /\ task[t].live
    /\ \/ page = "list" /\ SetBusy(t, FALSE) /\ Ends(t)
       \/ page = "details" /\ SetBusy(t, TRUE) /\ Awaits(t, "sleep")
       \/ page = "details" /\ SetBusy(t, FALSE) /\ Ends(t)      \* the save failed
    /\ UNCHANGED <<power, status, can, pageVars, raced>>

\* A page is opened: new fields, and the handlers of the old page go on. The
\* browser does nothing while its dialog is open.
Open(p, running) ==
    /\ ~Confirming
    /\ page' = p
    /\ busy' = FALSE /\ shown' = FALSE
    /\ can' = status
    /\ opening' = FALSE /\ session' = FALSE
    /\ task' = [t \in Tasks |-> IF t \in running THEN [task[t] EXCEPT !.live = FALSE] ELSE Idle]

\* Nav.NavigateTo("/my-vms"), wherever the user is by then.
DeleteLeaves(t) ==
    /\ At(t, {"delete"}, "sleep")
    /\ Open("list", Tasks \ {t})
    /\ UNCHANGED <<power, status, raced>>

Navigate ==
    /\ Open(IF page = "list" THEN "details" ELSE "list", Tasks)
    /\ UNCHANGED <<power, status, raced>>

\* OpenConsoleAsync, for a VM that is shown as running.
OpenConsole(t) ==
    /\ page = "details" /\ Free(t) /\ ~opening /\ status = "Running"
    /\ opening' = TRUE
    /\ Begins(t, "console", "call")
    /\ UNCHANGED <<power, status, busy, shown, can, page, session, raced>>

\* The session is created, or it is not.
ConsoleOpened(t) ==
    /\ At(t, {"console"}, "call")
    /\ \/ session' = (session \/ task[t].live)
       \/ UNCHANGED session
    /\ opening' = (opening /\ ~task[t].live)
    /\ Ends(t)
    /\ UNCHANGED <<power, status, busy, shown, can, page, raced>>

\* The VM starts or stops.
PowerChanges ==
    /\ power' \in Powers \ {power}
    /\ UNCHANGED <<status, busy, shown, can, pageVars, task, raced>>

\* A message disappears: the page is rendered again.
Rerender ==
    /\ shown' = busy
    /\ UNCHANGED <<power, status, busy, can, pageVars, task, raced>>

----------------------------------------------------------------------------

Click(t) ==
    \/ Operate(t) \/ RefreshAll(t) \/ Act(t) \/ Refresh(t) \/ Delete(t) \/ OpenConsole(t)

Continue(t) ==
    \/ OperationDone(t) \/ OperationFails(t)
    \/ DelayedThrows(t) \/ DelayedReturns(t) \/ DelayedAsks(t)
    \/ ActionDone(t) \/ CallEnds(t) \/ ActionRefreshes(t)
    \/ Apply(t) \/ DeleteLeaves(t) \/ ConsoleOpened(t)

Next ==
    \/ Tick \/ Navigate \/ PowerChanges \/ Rerender
    \/ \E t \in Clicks : Click(t)
    \/ \E t \in Tasks : Continue(t) \/ Answer(t) \/ AskFails(t) \/ DeleteDeclined(t) \/ DeleteConfirmed(t)

Spec == Init /\ [][Next]_vars

\* Handlers go on, the loop ticks, and Proxmox does not fail for ever.
Fairness ==
    /\ WF_vars(Tick)
    /\ \A t \in Tasks : WF_vars(Continue(t)) /\ SF_vars(Answer(t))

FairSpec == Spec /\ Fairness

----------------------------------------------------------------------------
(***************************************************************************)
(* Properties.                                                             *)
(***************************************************************************)

Kinds == { "idle", "operation", "delayed", "refreshAll", "action", "update", "refresh",
           "periodic", "delete", "console" }
Stages == {"end", "call", "sleep", "ask", "answer", "confirm"}
TaskRecord == [kind : Kinds, at : Stages, live : BOOLEAN, answer : Powers]

\* Every variable keeps its type.
TypeOK ==
    /\ power \in Powers /\ status \in Powers /\ can \in Powers
    /\ page \in {"list", "details"}
    /\ busy \in BOOLEAN /\ shown \in BOOLEAN
    /\ opening \in BOOLEAN /\ session \in BOOLEAN
    /\ raced \in BOOLEAN
    /\ task \in [Tasks -> TaskRecord]

Holds(t) ==
    /\ task[t].live
    /\ task[t].kind \in {"action", "update", "refresh"} \/ At(t, {"delete"}, "sleep")

\* However handlers overlap and fail, a details page that is busy has a handler
\* under way that will clear the flag.
NeverStuck == page = "details" /\ busy => \E t \in Tasks : Holds(t)

\* As long as nothing overtakes the rendering of a disabled button, a page sends one
\* command at a time to the VM, although some handlers clear another one's flag.
OneCommand ==
    ~raced => Cardinality({t \in Clicks : task[t].live /\ task[t].at = "call" /\ task[t].kind # "console"}) <= 1

\* A details page without a console shows, in the end, a status that no longer
\* changes, whatever answers were still on their way.
PageFollows ==
    \A s \in Powers :
        <>[](power = s /\ page = "details" /\ ~opening /\ ~session) => <>[](status = s)

=============================================================================
