--------------------------- MODULE VmPagesProofs ---------------------------
(***************************************************************************)
(* Proofs about VmPages, for any number of handlers under way, and about   *)
(* VmUptime, the accounting of the status that the pages write.            *)
(***************************************************************************)
EXTENDS VmPages, UptimeRecord, FiniteSetTheorems, TLAPS

\* The handlers that will clear the flag of the page that is shown.
Front(t) ==
    /\ task[t].live
    /\ \/ task[t].kind \in {"operation", "refreshAll", "action", "update", "refresh"}
       \/ task[t].kind = "delete" /\ task[t].at = "sleep"

\* Which awaits a handler has, and on which page it runs.
StagedAt(t) ==
    /\ task[t].at = "end" <=> task[t].kind = "idle"
    /\ task[t].at = "confirm" => task[t].live /\ task[t].kind = "delete"
    /\ task[t].at = "call" => task[t].kind \in {"operation", "action", "update", "console"}
    /\ task[t].at \in {"ask", "answer"} =>
           task[t].kind \in {"delayed", "refreshAll", "action", "refresh", "periodic"}
    /\ task[t].kind \in {"action", "update", "refresh", "periodic"} /\ task[t].live => page = "details"
    /\ task[t].kind \in {"operation", "delayed", "refreshAll"} /\ task[t].live => page = "list"
    /\ task[t].kind = "delete" /\ task[t].at = "sleep" /\ task[t].live => page = "details"

Staged == \A t \in Tasks : StagedAt(t)

\* While nothing races a rendering: one handler owns the flag, and the buttons show it.
Unraced ==
    ~raced =>
        /\ \A t \in Tasks : /\ Front(t) => busy /\ shown /\ ~Confirming
                            /\ task[t].kind = "delayed" => task[t].at = "sleep"
        /\ \A t, u \in Tasks : Front(t) /\ Front(u) => t = u
        /\ \A t, u \in Tasks : task[t].at = "confirm" /\ task[u].at = "confirm" => t = u

PInv == TypeOK /\ Staged /\ NeverStuck /\ Unraced

\* What happens to the handlers' records.
LEMMA BeginsTask ==
    ASSUME TypeOK, NEW t \in Tasks, NEW kind \in Kinds, NEW at \in Stages, Begins(t, kind, at)
    PROVE  /\ task' \in [Tasks -> TaskRecord]
           /\ task'[t].kind = kind /\ task'[t].at = at /\ task'[t].live
           /\ \A u \in Tasks : u # t => task'[u] = task[u]
<1>1. Handler(kind, at) \in TaskRecord
  BY DEF Handler, TaskRecord, Powers
<1> QED BY <1>1 DEF TypeOK, Begins, Handler

LEMMA EndsTask ==
    ASSUME TypeOK, NEW t \in Tasks, Ends(t)
    PROVE  /\ task' \in [Tasks -> TaskRecord]
           /\ task'[t] = Idle /\ ~Idle.live /\ Idle.kind = "idle" /\ Idle.at = "end"
           /\ \A u \in Tasks : u # t => task'[u] = task[u]
<1>1. Idle \in TaskRecord
  BY DEF Idle, TaskRecord, Kinds, Stages, Powers
<1> QED BY <1>1 DEF TypeOK, Ends, Idle

LEMMA OperationDoneTask ==
    ASSUME TypeOK, NEW t \in Tasks, OperationDone(t)
    PROVE  /\ task' \in [Tasks -> TaskRecord]
           /\ task'[t].kind = "delayed" /\ task'[t].at = "sleep" /\ task'[t].live = task[t].live
           /\ \A u \in Tasks : u # t => task'[u] = task[u]
<1>1. task[t] \in TaskRecord /\ task \in [Tasks -> TaskRecord]
  BY DEF TypeOK
<1>2. task' = [task EXCEPT ![t].kind = "delayed", ![t].at = "sleep"]
  BY DEF OperationDone
<1>3. /\ task'[t] = [[task[t] EXCEPT !.kind = "delayed"] EXCEPT !.at = "sleep"]
      /\ \A u \in Tasks : u # t => task'[u] = task[u]
  BY <1>1, <1>2
<1>4. /\ task'[t] \in TaskRecord
      /\ task'[t].kind = "delayed" /\ task'[t].at = "sleep" /\ task'[t].live = task[t].live
  BY <1>1, <1>3 DEF TaskRecord, Kinds, Stages
<1>5. DOMAIN task' = Tasks /\ task' = [u \in Tasks |-> task'[u]]
  BY <1>1, <1>2
<1> QED BY <1>1, <1>3, <1>4, <1>5

LEMMA AnswerTask ==
    ASSUME TypeOK, NEW t \in Tasks, Answer(t)
    PROVE  /\ task' \in [Tasks -> TaskRecord]
           /\ task'[t].kind = task[t].kind /\ task'[t].at = "answer" /\ task'[t].live = task[t].live
           /\ \A u \in Tasks : u # t => task'[u] = task[u]
<1>1. task[t] \in TaskRecord /\ task \in [Tasks -> TaskRecord] /\ power \in Powers
  BY DEF TypeOK
<1>2. task' = [task EXCEPT ![t].at = "answer", ![t].answer = power]
  BY DEF Answer, Reading
<1>3. /\ task'[t] = [[task[t] EXCEPT !.at = "answer"] EXCEPT !.answer = power]
      /\ \A u \in Tasks : u # t => task'[u] = task[u]
  BY <1>1, <1>2
<1>4. /\ task'[t] \in TaskRecord
      /\ task'[t].kind = task[t].kind /\ task'[t].at = "answer" /\ task'[t].live = task[t].live
  BY <1>1, <1>3 DEF TaskRecord, Stages
<1>5. DOMAIN task' = Tasks /\ task' = [u \in Tasks |-> task'[u]]
  BY <1>1, <1>2
<1> QED BY <1>1, <1>3, <1>4, <1>5

LEMMA AwaitsTask ==
    ASSUME TypeOK, NEW t \in Tasks, NEW at \in Stages, Awaits(t, at)
    PROVE  /\ task' \in [Tasks -> TaskRecord]
           /\ task'[t].kind = task[t].kind /\ task'[t].at = at /\ task'[t].live = task[t].live
           /\ \A u \in Tasks : u # t => task'[u] = task[u]
<1>1. task[t] \in TaskRecord /\ task \in [Tasks -> TaskRecord]
  BY DEF TypeOK
<1>2. task[t].kind \in Kinds /\ task[t].answer \in Powers
  BY <1>1 DEF TaskRecord
<1>3. task'[t] = [task[t] EXCEPT !.at = at] /\ \A u \in Tasks : u # t => task'[u] = task[u]
  BY <1>1 DEF Awaits
<1>4. /\ task'[t] \in TaskRecord
      /\ task'[t].kind = task[t].kind /\ task'[t].at = at /\ task'[t].live = task[t].live
  BY <1>1, <1>3 DEF TaskRecord
<1>5. DOMAIN task' = Tasks /\ task' = [u \in Tasks |-> task'[u]]
  BY <1>1 DEF Awaits
<1> QED BY <1>1, <1>3, <1>4, <1>5

LEMMA OpenedTask ==
    ASSUME TypeOK, NEW p, NEW running, Open(p, running)
    PROVE  /\ task' \in [Tasks -> TaskRecord]
           /\ \A u \in Tasks : \/ task'[u] = Idle
                               \/ /\ task'[u].kind = task[u].kind /\ task'[u].at = task[u].at
                                  /\ ~task'[u].live
<1>0. Idle \in TaskRecord /\ task \in [Tasks -> TaskRecord]
  BY DEF TypeOK, Idle, TaskRecord, Kinds, Stages, Powers
<1>1. task' = [u \in Tasks |-> IF u \in running THEN [task[u] EXCEPT !.live = FALSE] ELSE Idle]
  BY DEF Open
<1>2. ASSUME NEW u \in Tasks
      PROVE  /\ [task[u] EXCEPT !.live = FALSE] \in TaskRecord
             /\ [task[u] EXCEPT !.live = FALSE].kind = task[u].kind
             /\ [task[u] EXCEPT !.live = FALSE].at = task[u].at
             /\ ~[task[u] EXCEPT !.live = FALSE].live
  <2>1. task[u] \in TaskRecord
    BY <1>0
  <2> QED BY <2>1 DEF TaskRecord
<1> QED BY <1>0, <1>1, <1>2

LEMMA NextType == ASSUME TypeOK, [Next]_vars PROVE TypeOK'
<1>0. Clicks \subseteq Tasks /\ Timer \in Tasks /\ Confirming \in BOOLEAN
  BY Zenon DEF Tasks, Confirming
<1>1. CASE UNCHANGED vars
  BY <1>1 DEF TypeOK, vars, pageVars
<1>2. CASE PowerChanges \/ Rerender
  BY <1>2 DEF TypeOK, PowerChanges, Rerender, pageVars
<1>3. CASE Tick
  <2>1. task' \in [Tasks -> TaskRecord]
    BY <1>0, <1>3, BeginsTask DEF Tick, Kinds, Stages
  <2> QED BY <1>3, <2>1 DEF TypeOK, Tick, pageVars
<1>4. ASSUME NEW p \in {"list", "details"}, NEW running, Open(p, running), UNCHANGED <<power, status, raced>>
      PROVE  TypeOK'
  <2>2. task' \in [Tasks -> TaskRecord]
    BY <1>4, OpenedTask
  <2> QED BY <1>4, <2>2 DEF Open, TypeOK
<1>5. CASE Navigate
  BY <1>4, <1>5 DEF Navigate
<1>6. ASSUME NEW t \in Clicks, Click(t) PROVE TypeOK'
  <2>1. PICK kind \in Kinds, at \in Stages : Begins(t, kind, at)
    BY <1>6 DEF Click, Operate, RefreshAll, Act, Refresh, Delete, OpenConsole, Kinds, Stages
  <2>2. task' \in [Tasks -> TaskRecord]
    BY <1>0, <2>1, BeginsTask
  <2>3. raced' \in BOOLEAN
    BY <1>0, <1>6 DEF TypeOK, Click, Operate, RefreshAll, Act, Refresh, Delete, OpenConsole, Clicked
  <2> QED BY <1>6, <2>2, <2>3 DEF TypeOK, Click, Operate, RefreshAll, Act, Refresh, Delete, OpenConsole, pageVars
<1>7. ASSUME NEW t \in Tasks, Continue(t) PROVE TypeOK'
  <2>0. Ends(t) => task' \in [Tasks -> TaskRecord]
    BY EndsTask
  <2>1. CASE OperationDone(t)
    BY <2>1, OperationDoneTask DEF TypeOK, OperationDone, pageVars, SetBusy
  <2>2. CASE OperationFails(t)
    BY <2>0, <2>2 DEF TypeOK, OperationFails, pageVars, SetBusy
  <2>3. CASE DelayedThrows(t) \/ DelayedReturns(t)
    BY <2>0, <2>3 DEF TypeOK, DelayedThrows, DelayedReturns, pageVars
  <2>4. CASE DelayedAsks(t)
    <3>1. task' \in [Tasks -> TaskRecord]
      BY <2>4, AwaitsTask DEF DelayedAsks, Stages
    <3>2. busy' \in BOOLEAN
      BY <2>4, Zenon DEF DelayedAsks, TypeOK
    <3> QED BY <2>4, <3>1, <3>2 DEF TypeOK, DelayedAsks, pageVars
  <2>5. CASE ActionDone(t) \/ ActionRefreshes(t)
    <3>1. task' \in [Tasks -> TaskRecord]
      BY <2>5, AwaitsTask DEF ActionDone, ActionRefreshes, Stages
    <3> QED BY <2>5, <3>1 DEF TypeOK, ActionDone, ActionRefreshes, SetBusy, pageVars
  <2>6. CASE CallEnds(t)
    BY <2>0, <2>6 DEF TypeOK, CallEnds, SetBusy, pageVars
  <2>7. CASE Apply(t)
    <3>1. task[t].answer \in Powers /\ can' \in Powers
      BY <2>7 DEF TypeOK, TaskRecord, Apply, Availability
    <3>2. busy' \in BOOLEAN /\ shown' \in BOOLEAN
      BY <2>7 DEF TypeOK, Apply, Release, SetBusy
    <3> QED BY <2>0, <2>7, <3>1, <3>2 DEF TypeOK, Apply, pageVars
  <2>8. CASE DeleteLeaves(t)
    BY <1>4, <2>8 DEF DeleteLeaves
  <2>9. CASE ConsoleOpened(t)
    <3>1. session' \in BOOLEAN /\ opening' \in BOOLEAN
      BY <2>9, Zenon DEF ConsoleOpened, TypeOK
    <3> QED BY <2>0, <2>9, <3>1 DEF TypeOK, ConsoleOpened
  <2> QED BY <1>7, <2>1, <2>2, <2>3, <2>4, <2>5, <2>6, <2>7, <2>8, <2>9 DEF Continue
<1>8. ASSUME NEW t \in Tasks, Answer(t) \/ AskFails(t) \/ DeleteDeclined(t) \/ DeleteConfirmed(t) PROVE TypeOK'
  <2>1. CASE Answer(t)
    BY <2>1, AnswerTask DEF TypeOK, Answer, pageVars
  <2>2. CASE AskFails(t)
    <3>2. busy' \in BOOLEAN /\ shown' \in BOOLEAN
      BY <2>2 DEF TypeOK, AskFails, Release, SetBusy
    <3> QED BY <2>2, <3>2, EndsTask DEF TypeOK, AskFails, pageVars
  <2>3. CASE DeleteDeclined(t)
    BY <2>3, EndsTask DEF TypeOK, DeleteDeclined, pageVars
  <2>4. CASE DeleteConfirmed(t)
    <3>1. task' \in [Tasks -> TaskRecord]
      BY <2>4, EndsTask, AwaitsTask DEF DeleteConfirmed, Stages
    <3> QED BY <2>4, <3>1 DEF TypeOK, DeleteConfirmed, SetBusy, pageVars
  <2> QED BY <1>8, <2>1, <2>2, <2>3, <2>4
<1> QED BY <1>1, <1>2, <1>3, <1>5, <1>6, <1>7, <1>8 DEF Next

LEMMA InitInv == Init => PInv
<1> SUFFICES ASSUME Init PROVE PInv
  OBVIOUS
<1>1. /\ \A t \in Tasks : task[t].kind = "idle" /\ task[t].at = "end" /\ ~task[t].live
      /\ task \in [Tasks -> TaskRecord]
  BY DEF Init, Idle, TaskRecord, Kinds, Stages, Powers
<1>2. TypeOK /\ NeverStuck
  BY <1>1 DEF Init, TypeOK, NeverStuck
<1>3. Staged /\ Unraced
  BY <1>1 DEF Staged, StagedAt, Unraced, Front
<1> QED BY <1>2, <1>3 DEF PInv

\* A click that begins a handler.
LEMMA ClickKeeps ==
    ASSUME PInv, NEW t \in Clicks, Click(t)
    PROVE  Staged' /\ NeverStuck' /\ Unraced'
<1>0. t \in Tasks /\ TypeOK /\ task[t].kind = "idle"
  BY DEF Tasks, PInv, Click, Operate, RefreshAll, Act, Refresh, Delete, OpenConsole, Free
<1>1. PICK kind \in Kinds, stage \in Stages :
          /\ Begins(t, kind, stage)
          /\ \/ /\ <<kind, stage>> \in {<<"operation", "call">>, <<"refreshAll", "ask">>}
                /\ page = "list" /\ busy' /\ shown' /\ Clicked
             \/ /\ <<kind, stage>> \in {<<"action", "call">>, <<"update", "call">>, <<"refresh", "ask">>}
                /\ page = "details" /\ busy' /\ shown' /\ Clicked
             \/ kind = "delete" /\ stage = "confirm" /\ ~busy /\ UNCHANGED <<busy, shown>> /\ Clicked
             \/ kind = "console" /\ stage = "call" /\ UNCHANGED <<busy, shown, raced>>
  BY DEF Click, Operate, RefreshAll, Act, Refresh, Delete, OpenConsole, Kinds, Stages
<1>2. UNCHANGED <<page, can, status>>
  BY DEF Click, Operate, RefreshAll, Act, Refresh, Delete, OpenConsole, pageVars
<1>3. /\ task'[t].kind = kind /\ task'[t].at = stage /\ task'[t].live
      /\ \A u \in Tasks : u # t => task'[u] = task[u]
  BY <1>0, <1>1, BeginsTask
<1>4. Staged'
  BY <1>0, <1>1, <1>2, <1>3 DEF Staged, StagedAt, PInv
<1>5. NeverStuck'
  BY <1>0, <1>1, <1>2, <1>3 DEF NeverStuck, Holds, At, PInv
<1>6. Unraced'
  <2> SUFFICES ASSUME ~raced' PROVE
        /\ \A u \in Tasks : /\ Front(u)' => busy' /\ shown' /\ ~Confirming'
                            /\ task'[u].kind = "delayed" => task'[u].at = "sleep"
        /\ \A u, v \in Tasks : Front(u)' /\ Front(v)' => u = v
        /\ \A u, v \in Tasks : task'[u].at = "confirm" /\ task'[v].at = "confirm" => u = v
    BY DEF Unraced
  <2>1. ~raced /\ (kind # "console" => ~shown /\ ~Confirming)
    <3>1. Clicked => ~raced /\ ~shown /\ ~Confirming
      BY Zenon DEF Clicked
    <3> QED BY <1>1, <3>1
  <2>2. /\ \A u \in Tasks : /\ Front(u) => busy /\ shown /\ ~Confirming
                            /\ task[u].kind = "delayed" => task[u].at = "sleep"
        /\ \A u, v \in Tasks : Front(u) /\ Front(v) => u = v
        /\ \A u, v \in Tasks : task[u].at = "confirm" /\ task[v].at = "confirm" => u = v
    BY <2>1 DEF Unraced, PInv
  <2>3. \A u \in Tasks : u # t => (Front(u)' <=> Front(u))
    BY <1>3 DEF Front
  <2>4. Front(t)' <=> kind \notin {"delete", "console"}
    BY <1>1, <1>3 DEF Front
  <2>5. kind # "console" => \A u \in Tasks : task[u].at # "confirm" /\ ~Front(u)
    BY <2>1, <2>2 DEF Confirming
  <2>6. \A u \in Tasks : task'[u].kind = "delayed" => task'[u].at = "sleep"
    BY <1>1, <1>3, <2>2
  <2>7. CASE kind = "console"
    <3>1. ~Confirming => ~Confirming'
      BY <1>1, <1>3, <2>7 DEF Confirming
    <3> QED BY <1>1, <1>3, <2>2, <2>3, <2>4, <2>6, <2>7, <3>1
  <2>8. CASE kind = "delete"
    BY <1>3, <2>3, <2>4, <2>5, <2>6, <2>8
  <2>9. CASE kind \notin {"delete", "console"}
    <3>1. ~Confirming'
      BY <1>1, <1>3, <2>5, <2>9 DEF Confirming
    <3> QED BY <1>1, <1>3, <2>3, <2>4, <2>5, <2>6, <2>9, <3>1
  <2> QED BY <2>7, <2>8, <2>9
<1> QED BY <1>4, <1>5, <1>6

\* A page is opened.
LEMMA OpenKeeps ==
    ASSUME PInv, NEW p \in {"list", "details"}, NEW running, Open(p, running),
           UNCHANGED <<status, raced>>
    PROVE  Staged' /\ NeverStuck' /\ Unraced'
<1>0. TypeOK /\ ~Confirming
  BY DEF PInv, Open
<1>1. ~busy'
  BY DEF Open
<1>2. \A u \in Tasks : \/ task'[u] = Idle
                       \/ /\ task'[u].kind = task[u].kind /\ task'[u].at = task[u].at
                          /\ ~task'[u].live
  BY <1>0, OpenedTask
<1>3. Idle.kind = "idle" /\ Idle.at = "end" /\ ~Idle.live
  BY DEF Idle
<1>4. Staged'
  BY <1>0, <1>2, <1>3 DEF Staged, StagedAt, Confirming, PInv
<1>5. NeverStuck'
  BY <1>1 DEF NeverStuck
<1>6. Unraced'
  <2>1. ~Confirming'
    BY <1>0, <1>2, <1>3 DEF Confirming
  <2>2. \A u \in Tasks : ~Front(u)'
    BY <1>2, <1>3 DEF Front
  <2>3. ~raced => \A u \in Tasks : task'[u].kind = "delayed" => task'[u].at = "sleep"
    BY <1>2, <1>3 DEF Unraced, PInv
  <2> QED BY <2>1, <2>2, <2>3 DEF Unraced, Confirming
<1> QED BY <1>4, <1>5, <1>6

\* A step of one handler that is under way: what Unraced asks of it.
LEMMA StepUnraced ==
    ASSUME PInv, NEW t \in Tasks,
           \A u \in Tasks : u # t => task'[u] = task[u],
           ~raced' => ~raced,
           Front(t)' => Front(t) \/ task[t].at = "confirm",
           task'[t].at # "confirm",
           ~raced' /\ task'[t].kind = "delayed" => task'[t].at = "sleep",
           \/ UNCHANGED <<busy, shown>>
           \/ busy' /\ UNCHANGED shown
           \/ busy' /\ shown'
           \/ Front(t) /\ ~Front(t)'
           \/ task[t].at = "confirm" /\ ~Front(t)',
           task[t].at = "confirm" /\ Front(t)' => busy' /\ shown'
    PROVE  Unraced'
<1> SUFFICES ASSUME ~raced' PROVE
        /\ \A u \in Tasks : /\ Front(u)' => busy' /\ shown' /\ ~Confirming'
                            /\ task'[u].kind = "delayed" => task'[u].at = "sleep"
        /\ \A u, v \in Tasks : Front(u)' /\ Front(v)' => u = v
        /\ \A u, v \in Tasks : task'[u].at = "confirm" /\ task'[v].at = "confirm" => u = v
  BY DEF Unraced
<1>2. /\ \A u \in Tasks : /\ Front(u) => busy /\ shown /\ ~Confirming
                          /\ task[u].kind = "delayed" => task[u].at = "sleep"
      /\ \A u, v \in Tasks : Front(u) /\ Front(v) => u = v
      /\ \A u, v \in Tasks : task[u].at = "confirm" /\ task[v].at = "confirm" => u = v
  BY DEF Unraced, PInv
<1>3. \A u \in Tasks : u # t => (Front(u)' <=> Front(u))
  BY DEF Front
<1>4. task[t].at = "confirm" => (\A u \in Tasks : ~Front(u)) /\ ~Confirming'
  BY <1>2 DEF Confirming
<1>5. ~Confirming => ~Confirming'
  BY DEF Confirming
<1>6. CASE task[t].at = "confirm"
  BY <1>2, <1>3, <1>4, <1>6
<1>7. CASE task[t].at # "confirm"
  <2>1. ASSUME NEW u \in Tasks, Front(u)' PROVE Front(u) /\ ~Confirming'
    BY <1>2, <1>3, <1>5, <1>7, <2>1
  <2>2. ASSUME NEW u \in Tasks, Front(u)' PROVE busy' /\ shown'
    BY <1>2, <1>3, <1>7, <2>1, <2>2
  <2> QED BY <1>2, <2>1, <2>2
<1> QED BY <1>6, <1>7

\* The handlers that a step leaves alone keep their awaits as long as the page stays.
LEMMA OthersStaged ==
    ASSUME PInv, NEW t \in Tasks,
           \A u \in Tasks : u # t => task'[u] = task[u],
           page' = page
    PROVE  \A u \in Tasks : u # t => StagedAt(u)'
<1> SUFFICES ASSUME NEW u \in Tasks, u # t PROVE StagedAt(u)'
  OBVIOUS
<1>1. StagedAt(u)
  BY DEF PInv, Staged
<1>2. task'[u] = task[u]
  OBVIOUS
<1> QED BY <1>1, <1>2 DEF StagedAt

\* The steps of a handler that is under way.
LEMMA OperationDoneKeeps ==
    ASSUME PInv, NEW t \in Tasks, OperationDone(t)
    PROVE  Staged' /\ NeverStuck' /\ Unraced'
<1>0. TypeOK
  BY DEF PInv
<1>1. /\ task'[t].kind = "delayed" /\ task'[t].at = "sleep" /\ task'[t].live = task[t].live
      /\ \A u \in Tasks : u # t => task'[u] = task[u]
  BY <1>0, OperationDoneTask
<1>2. Staged'
  <2>1. page' = page /\ task[t].kind = "operation"
    BY DEF OperationDone, At, pageVars
  <2>2. StagedAt(t)
    BY DEF PInv, Staged
  <2>3. StagedAt(t)'
    BY <1>1, <2>1, <2>2 DEF StagedAt
  <2>4. \A u \in Tasks : u # t => StagedAt(u)'
    BY <1>1, <2>1, OthersStaged
  <2> QED BY <2>3, <2>4 DEF Staged
<1>3. NeverStuck'
  BY <1>0, <1>1 DEF NeverStuck, Holds, At, Staged, StagedAt, PInv, OperationDone, At, SetBusy, pageVars
<1>4. Unraced'
  BY <1>0, <1>1, StepUnraced DEF Front, Staged, StagedAt, PInv, OperationDone, At, SetBusy, pageVars
<1> QED BY <1>2, <1>3, <1>4

LEMMA OperationFailsKeeps ==
    ASSUME PInv, NEW t \in Tasks, OperationFails(t)
    PROVE  Staged' /\ NeverStuck' /\ Unraced'
<1>0. TypeOK
  BY DEF PInv
<1>1. /\ task'[t].kind = "idle" /\ task'[t].at = "end" /\ ~task'[t].live
      /\ \A u \in Tasks : u # t => task'[u] = task[u]
  BY <1>0, EndsTask DEF OperationFails
<1>2. Staged'
  BY <1>0, <1>1 DEF Staged, StagedAt, PInv, OperationFails, At, SetBusy, pageVars
<1>3. NeverStuck'
  BY <1>0, <1>1 DEF NeverStuck, Holds, At, Staged, StagedAt, PInv, OperationFails, At, SetBusy, pageVars
<1>4. Unraced'
  BY <1>0, <1>1, StepUnraced DEF Front, Staged, StagedAt, PInv, OperationFails, At, SetBusy, pageVars
<1> QED BY <1>2, <1>3, <1>4

LEMMA DelayedThrowsKeeps ==
    ASSUME PInv, NEW t \in Tasks, DelayedThrows(t)
    PROVE  Staged' /\ NeverStuck' /\ Unraced'
<1>0. TypeOK
  BY DEF PInv
<1>1. /\ task'[t].kind = "idle" /\ task'[t].at = "end" /\ ~task'[t].live
      /\ \A u \in Tasks : u # t => task'[u] = task[u]
  BY <1>0, EndsTask DEF DelayedThrows
<1>2. Staged'
  BY <1>0, <1>1 DEF Staged, StagedAt, PInv, DelayedThrows, At, pageVars
<1>3. NeverStuck'
  BY <1>0, <1>1 DEF NeverStuck, Holds, At, Staged, StagedAt, PInv, DelayedThrows, At, pageVars
<1>4. Unraced'
  BY <1>0, <1>1, StepUnraced DEF Front, Staged, StagedAt, PInv, DelayedThrows, At, pageVars
<1> QED BY <1>2, <1>3, <1>4

LEMMA DelayedReturnsKeeps ==
    ASSUME PInv, NEW t \in Tasks, DelayedReturns(t)
    PROVE  Staged' /\ NeverStuck' /\ Unraced'
<1>0. TypeOK
  BY DEF PInv
<1>1. /\ task'[t].kind = "idle" /\ task'[t].at = "end" /\ ~task'[t].live
      /\ \A u \in Tasks : u # t => task'[u] = task[u]
  BY <1>0, EndsTask DEF DelayedReturns
<1>2. Staged'
  BY <1>0, <1>1 DEF Staged, StagedAt, PInv, DelayedReturns, At, pageVars
<1>3. NeverStuck'
  BY <1>0, <1>1 DEF NeverStuck, Holds, At, Staged, StagedAt, PInv, DelayedReturns, At, pageVars
<1>4. Unraced'
  BY <1>0, <1>1, StepUnraced DEF Front, Staged, StagedAt, PInv, DelayedReturns, At, pageVars
<1> QED BY <1>2, <1>3, <1>4

LEMMA DelayedAsksKeeps ==
    ASSUME PInv, NEW t \in Tasks, DelayedAsks(t)
    PROVE  Staged' /\ NeverStuck' /\ Unraced'
<1>0. TypeOK
  BY DEF PInv
<1>1. /\ task'[t].kind = task[t].kind /\ task'[t].at = "ask" /\ task'[t].live = task[t].live
      /\ \A u \in Tasks : u # t => task'[u] = task[u]
  BY <1>0, AwaitsTask DEF DelayedAsks, Stages
<1>2. Staged'
  BY <1>0, <1>1 DEF Staged, StagedAt, PInv, DelayedAsks, At, pageVars
<1>3. NeverStuck'
  BY <1>0, <1>1 DEF NeverStuck, Holds, At, Staged, StagedAt, PInv, DelayedAsks, At, pageVars
<1>4. Unraced'
  BY DEF Unraced, DelayedAsks
<1> QED BY <1>2, <1>3, <1>4

LEMMA ActionDoneKeeps ==
    ASSUME PInv, NEW t \in Tasks, ActionDone(t)
    PROVE  Staged' /\ NeverStuck' /\ Unraced'
<1>0. TypeOK
  BY DEF PInv
<1>1. /\ task'[t].kind = task[t].kind /\ task'[t].at = "sleep" /\ task'[t].live = task[t].live
      /\ \A u \in Tasks : u # t => task'[u] = task[u]
  BY <1>0, AwaitsTask DEF ActionDone, Stages
<1>2. Staged'
  BY <1>0, <1>1 DEF Staged, StagedAt, PInv, ActionDone, At, pageVars
<1>3. NeverStuck'
  BY <1>0, <1>1 DEF NeverStuck, Holds, At, Staged, StagedAt, PInv, ActionDone, At, pageVars
<1>4. Unraced'
  BY <1>0, <1>1, StepUnraced DEF Front, Staged, StagedAt, PInv, ActionDone, At, pageVars
<1> QED BY <1>2, <1>3, <1>4

LEMMA CallEndsKeeps ==
    ASSUME PInv, NEW t \in Tasks, CallEnds(t)
    PROVE  Staged' /\ NeverStuck' /\ Unraced'
<1>0. TypeOK
  BY DEF PInv
<1>1. /\ task'[t].kind = "idle" /\ task'[t].at = "end" /\ ~task'[t].live
      /\ \A u \in Tasks : u # t => task'[u] = task[u]
  BY <1>0, EndsTask DEF CallEnds
<1>2. Staged'
  BY <1>0, <1>1 DEF Staged, StagedAt, PInv, CallEnds, At, SetBusy, pageVars
<1>3. NeverStuck'
  BY <1>0, <1>1 DEF NeverStuck, Holds, At, Staged, StagedAt, PInv, CallEnds, At, SetBusy, pageVars
<1>4. Unraced'
  BY <1>0, <1>1, StepUnraced DEF Front, Staged, StagedAt, PInv, CallEnds, At, SetBusy, pageVars
<1> QED BY <1>2, <1>3, <1>4

LEMMA ActionRefreshesKeeps ==
    ASSUME PInv, NEW t \in Tasks, ActionRefreshes(t)
    PROVE  Staged' /\ NeverStuck' /\ Unraced'
<1>0. TypeOK
  BY DEF PInv
<1>1. /\ task'[t].kind = task[t].kind /\ task'[t].at = "ask" /\ task'[t].live = task[t].live
      /\ \A u \in Tasks : u # t => task'[u] = task[u]
  BY <1>0, AwaitsTask DEF ActionRefreshes, Stages
<1>2. Staged'
  BY <1>0, <1>1 DEF Staged, StagedAt, PInv, ActionRefreshes, At, SetBusy, pageVars
<1>3. NeverStuck'
  BY <1>0, <1>1 DEF NeverStuck, Holds, At, Staged, StagedAt, PInv, ActionRefreshes, At, SetBusy, pageVars
<1>4. Unraced'
  BY <1>0, <1>1, StepUnraced DEF Front, Staged, StagedAt, PInv, ActionRefreshes, At, SetBusy, pageVars
<1> QED BY <1>2, <1>3, <1>4

LEMMA ApplyKeeps ==
    ASSUME PInv, NEW t \in Tasks, Apply(t)
    PROVE  Staged' /\ NeverStuck' /\ Unraced'
<1>0. TypeOK
  BY DEF PInv
<1>1. /\ task'[t].kind = "idle" /\ task'[t].at = "end" /\ ~task'[t].live
      /\ \A u \in Tasks : u # t => task'[u] = task[u]
  BY <1>0, EndsTask DEF Apply
<1>2. Staged'
  BY <1>0, <1>1 DEF Staged, StagedAt, PInv, Apply, At, Release, Availability, SetBusy, pageVars
<1>3. NeverStuck'
  BY <1>0, <1>1 DEF NeverStuck, Holds, At, Staged, StagedAt, PInv, Apply, At, Release, Availability, SetBusy, pageVars
<1>4. Unraced'
  <2>1. CASE raced
    BY <2>1 DEF Unraced, Apply
  <2>2. CASE ~raced
    <3>1. task[t].kind \in {"refreshAll", "action", "refresh", "periodic"} /\ task[t].at # "confirm"
      BY <2>2 DEF Unraced, Staged, StagedAt, PInv, Apply
    <3>2. Front(t) <=> task[t].live /\ task[t].kind # "periodic"
      BY <3>1 DEF Front
    <3>3. UNCHANGED <<busy, shown>> \/ (Front(t) /\ ~Front(t)')
      BY <1>1, <3>1, <3>2 DEF Front, Apply, Release, SetBusy
    <3>4. (Front(t)' => Front(t)) /\ raced' = raced
      BY <1>1 DEF Front, Apply
    <3> QED BY <1>1, <3>1, <3>3, <3>4, StepUnraced
  <2> QED BY <2>1, <2>2
<1> QED BY <1>2, <1>3, <1>4

LEMMA ConsoleOpenedKeeps ==
    ASSUME PInv, NEW t \in Tasks, ConsoleOpened(t)
    PROVE  Staged' /\ NeverStuck' /\ Unraced'
<1>0. TypeOK
  BY DEF PInv
<1>1. /\ task'[t].kind = "idle" /\ task'[t].at = "end" /\ ~task'[t].live
      /\ \A u \in Tasks : u # t => task'[u] = task[u]
  BY <1>0, EndsTask DEF ConsoleOpened
<1>2. Staged'
  BY <1>0, <1>1 DEF Staged, StagedAt, PInv, ConsoleOpened, At
<1>3. NeverStuck'
  BY <1>0, <1>1 DEF NeverStuck, Holds, At, Staged, StagedAt, PInv, ConsoleOpened, At
<1>4. Unraced'
  BY <1>0, <1>1, StepUnraced DEF Front, Staged, StagedAt, PInv, ConsoleOpened, At
<1> QED BY <1>2, <1>3, <1>4

LEMMA AnswerKeeps ==
    ASSUME PInv, NEW t \in Tasks, Answer(t)
    PROVE  Staged' /\ NeverStuck' /\ Unraced'
<1>0. TypeOK
  BY DEF PInv
<1>1. /\ task'[t].kind = task[t].kind /\ task'[t].at = "answer" /\ task'[t].live = task[t].live
      /\ \A u \in Tasks : u # t => task'[u] = task[u]
  BY <1>0, AnswerTask DEF Answer, Stages
<1>2. Staged'
  <2>1. page' = page /\ task[t].at = "ask"
    BY DEF Answer, pageVars
  <2>2. StagedAt(t)
    BY DEF PInv, Staged
  <2>3. StagedAt(t)'
    BY <1>1, <2>1, <2>2 DEF StagedAt
  <2>4. \A u \in Tasks : u # t => StagedAt(u)'
    BY <1>1, <2>1, OthersStaged
  <2> QED BY <2>3, <2>4 DEF Staged
<1>3. NeverStuck'
  <2>1. page' = page /\ busy' = busy /\ task[t].at = "ask"
    BY DEF Answer, pageVars
  <2>2. ASSUME NEW u \in Tasks, Holds(u) PROVE Holds(u)'
    <3>1. CASE u = t
      BY <1>1, <2>1, <2>2, <3>1 DEF Holds, At
    <3>2. CASE u # t
      BY <1>1, <2>2, <3>2 DEF Holds, At
    <3> QED BY <3>1, <3>2
  <2>3. NeverStuck
    BY DEF PInv
  <2> QED BY <2>1, <2>2, <2>3 DEF NeverStuck
<1>4. Unraced'
  <2>1. CASE raced
    BY <2>1 DEF Unraced, Answer
  <2>2. CASE ~raced
    <3>1. task[t].kind \in {"refreshAll", "action", "refresh", "periodic"} /\ task[t].at # "confirm"
      BY <2>2 DEF Unraced, Staged, StagedAt, PInv, Answer
    <3>2. Front(t) <=> task[t].live /\ task[t].kind # "periodic"
      BY <3>1 DEF Front
    <3>3. UNCHANGED <<busy, shown>>
      BY <3>1, <3>2 DEF Answer, Release, SetBusy
    <3>4. (Front(t)' => Front(t)) /\ raced' = raced
      BY <1>1 DEF Front, Answer
    <3> QED BY <1>1, <3>1, <3>3, <3>4, StepUnraced
  <2> QED BY <2>1, <2>2
<1> QED BY <1>2, <1>3, <1>4

LEMMA AskFailsKeeps ==
    ASSUME PInv, NEW t \in Tasks, AskFails(t)
    PROVE  Staged' /\ NeverStuck' /\ Unraced'
<1>0. TypeOK
  BY DEF PInv
<1>1. /\ task'[t].kind = "idle" /\ task'[t].at = "end" /\ ~task'[t].live
      /\ \A u \in Tasks : u # t => task'[u] = task[u]
  BY <1>0, EndsTask DEF AskFails
<1>2. Staged'
  BY <1>0, <1>1 DEF Staged, StagedAt, PInv, AskFails, Release, SetBusy, pageVars
<1>3. NeverStuck'
  BY <1>0, <1>1 DEF NeverStuck, Holds, At, Staged, StagedAt, PInv, AskFails, Release, SetBusy, pageVars
<1>4. Unraced'
  <2>1. CASE raced
    BY <2>1 DEF Unraced, AskFails
  <2>2. CASE ~raced
    <3>1. task[t].kind \in {"refreshAll", "action", "refresh", "periodic"} /\ task[t].at # "confirm"
      BY <2>2 DEF Unraced, Staged, StagedAt, PInv, AskFails
    <3>2. Front(t) <=> task[t].live /\ task[t].kind # "periodic"
      BY <3>1 DEF Front
    <3>3. UNCHANGED <<busy, shown>> \/ (Front(t) /\ ~Front(t)')
      BY <1>1, <3>1, <3>2 DEF Front, AskFails, Release, SetBusy
    <3>4. (Front(t)' => Front(t)) /\ raced' = raced
      BY <1>1 DEF Front, AskFails
    <3> QED BY <1>1, <3>1, <3>3, <3>4, StepUnraced
  <2> QED BY <2>1, <2>2
<1> QED BY <1>2, <1>3, <1>4

LEMMA DeleteDeclinedKeeps ==
    ASSUME PInv, NEW t \in Tasks, DeleteDeclined(t)
    PROVE  Staged' /\ NeverStuck' /\ Unraced'
<1>0. TypeOK
  BY DEF PInv
<1>1. /\ task'[t].kind = "idle" /\ task'[t].at = "end" /\ ~task'[t].live
      /\ \A u \in Tasks : u # t => task'[u] = task[u]
  BY <1>0, EndsTask DEF DeleteDeclined
<1>2. Staged'
  BY <1>0, <1>1 DEF Staged, StagedAt, PInv, DeleteDeclined, At, pageVars
<1>3. NeverStuck'
  BY <1>0, <1>1 DEF NeverStuck, Holds, At, Staged, StagedAt, PInv, DeleteDeclined, At, pageVars
<1>4. Unraced'
  BY <1>0, <1>1, StepUnraced DEF Front, Staged, StagedAt, PInv, DeleteDeclined, At, pageVars
<1> QED BY <1>2, <1>3, <1>4

LEMMA DeleteConfirmedKeeps ==
    ASSUME PInv, NEW t \in Tasks, DeleteConfirmed(t)
    PROVE  Staged' /\ NeverStuck' /\ Unraced'
<1>0. TypeOK
  BY DEF PInv
<1>1. /\ \/ task'[t].kind = "idle" /\ task'[t].at = "end" /\ ~task'[t].live
         \/ /\ task'[t].kind = task[t].kind /\ task'[t].at = "sleep" /\ task'[t].live
            /\ page = "details" /\ busy' /\ shown'
      /\ \A u \in Tasks : u # t => task'[u] = task[u]
  BY <1>0, EndsTask, AwaitsTask DEF DeleteConfirmed, SetBusy, Stages
<1>2. Staged'
  BY <1>0, <1>1 DEF Staged, StagedAt, PInv, DeleteConfirmed, At, SetBusy, pageVars
<1>3. NeverStuck'
  <2>1. task[t].kind = "delete" /\ task[t].at = "confirm" /\ page' = page
    BY DEF DeleteConfirmed, At, pageVars
  <2>2. CASE Ends(t) /\ SetBusy(t, FALSE) /\ task[t].live
    BY <2>2 DEF NeverStuck, SetBusy
  <2>3. CASE Awaits(t, "sleep") /\ task[t].live
    <3>1. task'[t].kind = "delete" /\ task'[t].at = "sleep" /\ task'[t].live
      BY <1>0, <2>1, <2>3, AwaitsTask DEF Stages
    <3> QED BY <3>1 DEF NeverStuck, Holds, At
  <2> QED BY <2>2, <2>3, Zenon DEF DeleteConfirmed
<1>4. Unraced'
  BY <1>0, <1>1, StepUnraced DEF Front, Staged, StagedAt, PInv, DeleteConfirmed, At, SetBusy, pageVars
<1> QED BY <1>2, <1>3, <1>4

\* A tick of the loop begins a handler that never touches the flag.
LEMMA TickKeeps ==
    ASSUME PInv, Tick
    PROVE  Staged' /\ NeverStuck' /\ Unraced'
<1>0. TypeOK /\ Timer \in Tasks /\ task[Timer].kind = "idle"
  BY DEF PInv, Tasks, Tick, Free
<1>1. /\ task'[Timer].kind = "periodic" /\ task'[Timer].at = "ask" /\ task'[Timer].live
      /\ \A u \in Tasks : u # Timer => task'[u] = task[u]
  BY <1>0, BeginsTask DEF Tick, Kinds, Stages
<1>2. Staged'
  BY <1>0, <1>1 DEF Staged, StagedAt, PInv, Tick, pageVars
<1>3. NeverStuck'
  BY <1>0, <1>1 DEF NeverStuck, Holds, At, PInv, Tick, pageVars
<1>4. Unraced'
  BY <1>0, <1>1, StepUnraced DEF Front, Tick, pageVars
<1> QED BY <1>2, <1>3, <1>4

\* A step of no handler: the VM, a rendering, a stutter.
LEMMA QuietKeeps ==
    ASSUME PInv, UNCHANGED <<status, busy, can, pageVars, task, raced>>,
           shown' = shown \/ shown' = busy
    PROVE  Staged' /\ NeverStuck' /\ Unraced'
<1>1. Staged' /\ NeverStuck'
  BY DEF Staged, StagedAt, NeverStuck, Holds, At, PInv, pageVars
<1>2. Unraced'
  <2>1. (\A u \in Tasks : Front(u)' <=> Front(u)) /\ (Confirming' <=> Confirming)
    BY DEF Front, Confirming
  <2> QED BY <2>1 DEF Unraced, PInv
<1> QED BY <1>1, <1>2

LEMMA NextInv == PInv /\ [Next]_vars => PInv'
<1> SUFFICES ASSUME PInv, [Next]_vars PROVE PInv'
  OBVIOUS
<1>0. TypeOK' /\ Clicks \subseteq Tasks
  BY NextType DEF PInv, Tasks
<1> DEFINE Kept == Staged' /\ NeverStuck' /\ Unraced'
<1> SUFFICES Kept
  BY <1>0 DEF PInv
<1>1. CASE UNCHANGED vars \/ PowerChanges \/ Rerender
  <2>1. /\ UNCHANGED <<status, busy, can, pageVars, task, raced>>
        /\ shown' = shown \/ shown' = busy
    BY <1>1 DEF vars, pageVars, PowerChanges, Rerender
  <2> QED BY <2>1, QuietKeeps
<1>2. CASE Tick
  BY <1>2, TickKeeps
<1>3. CASE Navigate
  <2>1. PICK p \in {"list", "details"} : Open(p, Tasks)
    BY <1>3 DEF Navigate
  <2> QED BY <1>3, <2>1, OpenKeeps DEF Navigate
<1>4. ASSUME NEW t \in Clicks, Click(t) PROVE Kept
  BY <1>4, ClickKeeps
<1>5. ASSUME NEW t \in Tasks, Continue(t) PROVE Kept
  <2>1. CASE DeleteLeaves(t)
    BY <2>1, OpenKeeps DEF DeleteLeaves
  <2> QED BY <1>5, <2>1, OperationDoneKeeps, OperationFailsKeeps, DelayedThrowsKeeps,
             DelayedReturnsKeeps, DelayedAsksKeeps, ActionDoneKeeps, CallEndsKeeps,
             ActionRefreshesKeeps, ApplyKeeps, ConsoleOpenedKeeps DEF Continue
<1>6. ASSUME NEW t \in Tasks, Answer(t) \/ AskFails(t) \/ DeleteDeclined(t) \/ DeleteConfirmed(t)
      PROVE  Kept
  BY <1>6, AnswerKeeps, AskFailsKeeps, DeleteDeclinedKeeps, DeleteConfirmedKeeps
<1> QED BY <1>1, <1>2, <1>3, <1>4, <1>5, <1>6 DEF Next

LEMMA Invariant == Spec => []PInv
<1> QED BY InitInv, NextInv, PTL DEF Spec

\* Whatever the circuit's handlers do, their records and the page's fields are
\* what the code gives them (TypeOK).
THEOREM TypeCorrect == Spec => []TypeOK
<1>1. PInv => TypeOK
  BY DEF PInv
<1> QED BY <1>1, Invariant, PTL

\* A busy details page is never left without a handler that ends the wait, for any
\* number of handlers (_busy of VmDetails).
THEOREM StuckNever == Spec => []NeverStuck
<1>1. PInv => NeverStuck
  BY DEF PInv
<1> QED BY <1>1, Invariant, PTL

\* A page whose clicks see the rendered buttons sends one command at a time: the
\* handlers that command the VM hold the flag, and one handler holds it.
THEOREM CommandsOneByOne == Spec => []OneCommand
<1>1. ASSUME PInv, ~raced
      PROVE  Cardinality({t \in Clicks : task[t].live /\ task[t].at = "call" /\ task[t].kind # "console"}) <= 1
  <2> DEFINE Commands == {t \in Clicks : task[t].live /\ task[t].at = "call" /\ task[t].kind # "console"}
  <2>1. \A t \in Commands : t \in Tasks /\ Front(t)
    BY <1>1 DEF PInv, Staged, StagedAt, Front, Tasks
  <2>2. \A t, u \in Commands : t = u
    BY <1>1, <2>1 DEF PInv, Unraced
  <2>3. CASE Commands = {}
    BY <2>3, FS_EmptySet
  <2>4. CASE Commands # {}
    <3>1. PICK t \in Commands : Commands = {t}
      BY <2>2, <2>4
    <3>2. Cardinality({t}) = 1
      BY FS_Singleton
    <3>3. Cardinality(Commands) = 1
      BY <3>1, <3>2, Zenon
    <3> QED BY <3>3
  <2> QED BY <2>3, <2>4
<1>2. PInv => OneCommand
  BY <1>1 DEF OneCommand
<1> QED BY <1>2, Invariant, PTL

----------------------------------------------------------------------------
(***************************************************************************)
(* Proofs about VmUptime, for any number of circuits, any bound on the     *)
(* clock and all faults. The sync is the only writer of the total, so the  *)
(* total it read is still the stored one when it adds to it, and the time  *)
(* it adds starts at a stamp up to which the total is already bounded.     *)
(* The constants and variables are VmUptime's, of one record of which the  *)
(* pages show the status; only power is common to the two models. What is  *)
(* proved is stated in UptimeRecord.                                       *)
(***************************************************************************)

CONSTANTS Circuits, Faults, MaxTime, None

VARIABLES tracked, answer, phase, seen, listed

Uptime == INSTANCE VmUptime

\* What the proofs use of VmUptime's assumptions: its NoneAssumption.
NoneApart == None \notin Uptime!Statuses \cup {"list", "details"} \cup Nat

\* What was counted was counted before the last stamp.
Accounted(r) == IF r.at = None THEN r.total = 0 ELSE r.at <= now /\ r.total <= r.at

RowInv ==
    /\ now \in Nat /\ power \in Uptime!Powers /\ listed \in Uptime!Statuses \cup {None}
    /\ phase \in {"idle", "list", "status"}
    /\ row \in Uptime!RowType /\ Accounted(row)
    /\ seen \in Uptime!RowType /\ Accounted(seen)
    /\ phase # "idle" => seen.total = row.total

Entities == {Uptime!Untracked} \cup [status : Uptime!Statuses, saved : Uptime!Statuses]
Answers  == {Uptime!NoAnswer} \cup [page : {"list", "details"}, status : Uptime!Statuses]

\* A circuit without a row has no answer to store.
PageInv ==
    /\ tracked \in [Circuits -> Entities]
    /\ answer \in [Circuits -> Answers]
    /\ \A c \in Circuits : tracked[c] = Uptime!Untracked => answer[c] = Uptime!NoAnswer

UInv == RowInv /\ PageInv

\* What kinds of value the pages hold.
LEMMA PageValues ==
    ASSUME PageInv, NEW c \in Circuits
    PROVE  /\ answer[c] # Uptime!NoAnswer => /\ answer[c].status \in Uptime!Statuses
                                      /\ tracked[c] \in [status : Uptime!Statuses, saved : Uptime!Statuses]
           /\ tracked[c].status # tracked[c].saved => tracked[c] \in [status : Uptime!Statuses, saved : Uptime!Statuses]
           /\ answer[c].page # None => answer[c] # Uptime!NoAnswer
           /\ tracked[c] \in Entities /\ answer[c] \in Answers
  BY DEF PageInv, Entities, Answers, Uptime!Untracked, Uptime!NoAnswer

LEMMA EntityType ==
    ASSUME NoneApart, NEW s \in Uptime!Statuses
    PROVE  Uptime!Entity(s) \in Entities /\ Uptime!Entity(s) # Uptime!Untracked
  BY DEF NoneApart, Uptime!Entity, Entities, Uptime!Untracked

LEMMA UptimeInit == ASSUME NoneApart, Uptime!Init PROVE UInv
<1>1. row \in Uptime!RowType /\ (row.at = None \/ row.at = 0) /\ row.total = 0
    BY DEF Uptime!Init, Uptime!Readings, Uptime!RowType, Uptime!Statuses, Uptime!Powers
<1>2. RowInv
    BY <1>1 DEF NoneApart, Uptime!Init, RowInv, Accounted
<1>3. PageInv
    BY DEF Uptime!Init, PageInv, Entities, Answers
<1> QED
    BY <1>2, <1>3 DEF UInv

LEMMA ReadingType == ASSUME RowInv PROVE Uptime!Readings \subseteq Uptime!Statuses
  BY DEF RowInv, Uptime!Readings, Uptime!Statuses, Uptime!Powers

\* A status a page writes leaves the other columns.
LEMMA SavedRow ==
    ASSUME RowInv, NEW c \in Circuits, NEW s \in Uptime!Statuses
    PROVE  /\ Uptime!Saved(c, s) \in Uptime!RowType
           /\ Uptime!Saved(c, s).at = row.at /\ Uptime!Saved(c, s).total = row.total
  BY DEF RowInv, Uptime!Saved, Uptime!RowType

\* What the sync stores.
LEMMA SyncedRow ==
    ASSUME RowInv, phase = "status", Uptime!StatusChanged
    PROVE  LET r == [status |-> listed, at |-> now, total |-> Uptime!NewTotal(seen)] IN
             r \in Uptime!RowType /\ r.total <= now /\ r.total >= row.total
<1>1. seen \in Uptime!RowType /\ now \in Nat /\ listed \in Uptime!Statuses
    BY DEF RowInv, Uptime!StatusChanged
<1>2. Uptime!Elapsed(seen) \in Nat /\ seen.total + Uptime!Elapsed(seen) <= now
  <2>1. CASE seen.at = None
      BY <2>1, <1>1 DEF Uptime!Elapsed, RowInv, Accounted, Uptime!RowType
  <2>2. CASE seen.at # None
    <3>1. seen.at \in Nat /\ seen.total \in Nat /\ seen.at <= now /\ seen.total <= seen.at
        BY <2>2, <1>1 DEF RowInv, Accounted, Uptime!RowType
    <3> QED
        BY <3>1, <1>1 DEF Uptime!Elapsed
  <2> QED
      BY <2>1, <2>2
<1>3. seen.total = row.total /\ seen.total \in Nat
    BY <1>1 DEF RowInv, Uptime!RowType
<1> QED
    BY <1>1, <1>2, <1>3 DEF Uptime!NewTotal, Uptime!RowType

\* A step that keeps stamp and total of the row and the sync's variables.
LEMMA RowsKept ==
    ASSUME RowInv, row' \in Uptime!RowType, row'.at = row.at, row'.total = row.total,
           power' \in Uptime!Powers, UNCHANGED <<now, phase, seen, listed>>
    PROVE  RowInv'
  BY DEF RowInv, Accounted

\* A step of one page that changes what that circuit holds.
LEMMA PagesKept ==
    ASSUME PageInv, NEW c \in Circuits, NEW e \in Entities, NEW a \in Answers,
           e = Uptime!Untracked => a = Uptime!NoAnswer,
           tracked' = [tracked EXCEPT ![c] = e], answer' = [answer EXCEPT ![c] = a]
    PROVE  PageInv'
  BY DEF PageInv

LEMMA UptimeStep == ASSUME NoneApart, UInv, [Uptime!Next]_(Uptime!vars) PROVE UInv'
<1>0. RowInv /\ PageInv /\ row \in Uptime!RowType /\ power \in Uptime!Powers /\ Uptime!Readings \subseteq Uptime!Statuses
    BY ReadingType DEF UInv, RowInv
<1>1. ASSUME Uptime!SyncRead \/ Uptime!SyncList \/ Uptime!SyncAborts PROVE UInv'
  <2>1. PageInv'
      BY <1>0, <1>1 DEF Uptime!SyncRead, Uptime!SyncList, Uptime!SyncAborts, PageInv
  <2>2. RowInv'
      BY <1>0, <1>1 DEF Uptime!SyncRead, Uptime!SyncList, Uptime!SyncAborts, RowInv, Accounted
  <2> QED
      BY <2>1, <2>2 DEF UInv
<1>2. CASE Uptime!SyncStatus
  <2>1. PageInv'
      BY <1>0, <1>2 DEF Uptime!SyncStatus, PageInv
  <2>2. row' \in Uptime!RowType /\ Accounted(row)'
    <3>1. CASE Uptime!StatusChanged
      <4> DEFINE r == [status |-> listed, at |-> now, total |-> Uptime!NewTotal(seen)]
      <4>1. row' = r /\ now' = now
          BY <1>2, <3>1 DEF Uptime!SyncStatus
      <4>2. r \in Uptime!RowType /\ r.total <= now /\ r.at = now
          BY <1>0, <1>2, <3>1, SyncedRow DEF Uptime!SyncStatus
      <4>3. now \in Nat /\ now # None
          BY <1>0 DEF NoneApart, RowInv
      <4> HIDE DEF r
      <4> QED
          BY <4>1, <4>2, <4>3 DEF Accounted
    <3>2. CASE ~Uptime!StatusChanged
        BY <1>0, <1>2, <3>2 DEF Uptime!SyncStatus, RowInv, Accounted
    <3> QED
        BY <3>1, <3>2
  <2>3. RowInv'
      BY <1>0, <1>2, <2>2 DEF Uptime!SyncStatus, RowInv, Accounted
  <2> QED
      BY <2>1, <2>3 DEF UInv
<1>3. ASSUME NEW c \in Circuits, Uptime!PageStep(c) PROVE UInv'
  <2>0. tracked[c] \in Entities /\ answer[c] \in Answers /\ Uptime!NoAnswer \in Answers
      BY <1>0, PageValues DEF Answers
  <2>1. tracked' = [tracked EXCEPT ![c] = tracked'[c]] /\ answer' = [answer EXCEPT ![c] = answer'[c]]
      BY <1>0, <1>3 DEF PageInv, Uptime!PageStep, Uptime!View, Uptime!RefreshAsks, Uptime!RefreshSaves, Uptime!RefreshShows,
                        Uptime!LogSaves, Uptime!RefreshFails, Uptime!CreateUpdate, Uptime!CloseCircuit
  <2>2. ASSUME tracked'[c] \in Entities, answer'[c] \in Answers,
               tracked'[c] = Uptime!Untracked => answer'[c] = Uptime!NoAnswer
        PROVE  PageInv'
      BY <1>0, <2>1, <2>2, PagesKept
  <2>3. CASE Uptime!View(c)
    <3>1. tracked'[c] = Uptime!Entity(row.status) /\ answer'[c] = answer[c] /\ row.status \in Uptime!Statuses
        BY <1>0, <2>3 DEF Uptime!View, PageInv, Uptime!RowType
    <3>2. RowInv'
        BY <1>0, <2>3, RowsKept DEF Uptime!View, Uptime!syncVars
    <3> QED
        BY <2>0, <2>2, <3>1, <3>2, EntityType DEF UInv
  <2>4. CASE Uptime!RefreshAsks(c)
    <3>1. tracked'[c] = tracked[c] /\ tracked[c] # Uptime!Untracked
        BY <1>0, <2>4 DEF Uptime!RefreshAsks
    <3>2. answer'[c] \in Answers
        BY <1>0, <2>4 DEF Uptime!RefreshAsks, PageInv, Answers
    <3>3. RowInv'
        BY <1>0, <2>4, RowsKept DEF Uptime!RefreshAsks, Uptime!syncVars
    <3> QED
        BY <2>0, <2>2, <3>1, <3>2, <3>3 DEF UInv
  <2>5. CASE Uptime!RefreshSaves(c)
    <3>1. answer[c].status \in Uptime!Statuses
        BY <1>0, <2>5, PageValues DEF NoneApart, Uptime!RefreshSaves, Uptime!NoAnswer
    <3>2. tracked'[c] = Uptime!Entity(answer[c].status) /\ answer'[c] = Uptime!NoAnswer
        BY <1>0, <2>5 DEF Uptime!RefreshSaves, PageInv
    <3>3. RowInv'
        BY <1>0, <2>5, <3>1, SavedRow, RowsKept DEF Uptime!RefreshSaves, Uptime!syncVars
    <3> QED
        BY <2>0, <2>2, <3>1, <3>2, <3>3, EntityType DEF UInv
  <2>6. CASE Uptime!RefreshShows(c)
    <3>1. answer[c].status \in Uptime!Statuses /\ tracked[c] \in [status : Uptime!Statuses, saved : Uptime!Statuses]
        BY <1>0, <2>6, PageValues DEF NoneApart, Uptime!RefreshShows, Uptime!NoAnswer
    <3>2. tracked'[c] \in [status : Uptime!Statuses, saved : Uptime!Statuses] /\ answer'[c] = Uptime!NoAnswer
        BY <1>0, <2>6, <3>1 DEF Uptime!RefreshShows, PageInv
    <3>3. RowInv'
        BY <1>0, <2>6, RowsKept DEF Uptime!RefreshShows, Uptime!syncVars
    <3> QED
        BY <2>0, <2>2, <3>2, <3>3 DEF UInv, Entities
  <2>7. CASE Uptime!LogSaves(c)
    <3>1. tracked[c] \in [status : Uptime!Statuses, saved : Uptime!Statuses]
        BY <1>0, <2>7, PageValues DEF Uptime!LogSaves
    <3>2. tracked'[c] = Uptime!Entity(tracked[c].status) /\ answer'[c] = answer[c]
        BY <1>0, <2>7 DEF Uptime!LogSaves, PageInv
    <3>3. RowInv'
        BY <1>0, <2>7, <3>1, SavedRow, RowsKept DEF Uptime!LogSaves, Uptime!syncVars
    <3> QED
        BY <2>0, <2>2, <3>1, <3>2, <3>3, EntityType DEF UInv
  <2>8. CASE Uptime!RefreshFails(c)
    <3>1. tracked'[c] = tracked[c] /\ answer'[c] = Uptime!NoAnswer
        BY <1>0, <2>8 DEF Uptime!RefreshFails, PageInv
    <3>2. RowInv'
        BY <1>0, <2>8, RowsKept DEF Uptime!RefreshFails, Uptime!syncVars
    <3> QED
        BY <2>0, <2>2, <3>1, <3>2 DEF UInv
  <2>9. CASE Uptime!CreateUpdate(c)
    <3>1. tracked'[c] = Uptime!Entity("Stopped") /\ answer'[c] = answer[c] /\ "Stopped" \in Uptime!Statuses
        BY <1>0, <2>9 DEF Uptime!CreateUpdate, PageInv, Uptime!Statuses, Uptime!Powers
    <3>2. now \in Nat /\ now # None /\ row.total \in Nat /\ row.total <= now
        BY <1>0 DEF NoneApart, RowInv, Accounted, Uptime!RowType
    <3>3. row' \in Uptime!RowType /\ row'.at = now /\ row'.total = row.total
        BY <1>0, <2>9, <3>2 DEF Uptime!CreateUpdate, Uptime!RowType, Uptime!Statuses, Uptime!Powers
    <3>4. RowInv'
        BY <1>0, <2>9, <3>2, <3>3 DEF Uptime!CreateUpdate, Uptime!syncVars, RowInv, Accounted, Uptime!Powers
    <3> QED
        BY <2>0, <2>2, <3>1, <3>4, EntityType DEF UInv
  <2>10. CASE Uptime!CloseCircuit(c)
    <3>1. tracked'[c] = Uptime!Untracked /\ answer'[c] = Uptime!NoAnswer
        BY <1>0, <2>10 DEF Uptime!CloseCircuit, PageInv
    <3>2. RowInv'
        BY <1>0, <2>10, RowsKept DEF Uptime!CloseCircuit, Uptime!syncVars
    <3> QED
        BY <2>0, <2>2, <3>1, <3>2 DEF UInv, Entities
  <2> QED
      BY <1>3, <2>3, <2>4, <2>5, <2>6, <2>7, <2>8, <2>9, <2>10 DEF Uptime!PageStep
<1>4. CASE Uptime!PowerChanges
    BY <1>0, <1>4, RowsKept DEF Uptime!PowerChanges, Uptime!syncVars, UInv, PageInv
<1>5. CASE Uptime!Tick
  <2>1. RowInv'
      BY <1>0, <1>5 DEF Uptime!Tick, Uptime!syncVars, RowInv, Accounted, Uptime!RowType
  <2> QED
      BY <1>0, <1>5, <2>1 DEF Uptime!Tick, UInv, PageInv
<1>6. CASE UNCHANGED Uptime!vars
    BY <1>0, <1>6, RowsKept DEF Uptime!vars, Uptime!syncVars, UInv, PageInv
<1> QED
    BY <1>1, <1>2, <1>3, <1>4, <1>5, <1>6 DEF Uptime!Next, Uptime!SyncStep

LEMMA UptimeInvariant == ASSUME NoneApart PROVE Uptime!Spec => []UInv
<1>1. Uptime!Init => UInv
    BY UptimeInit
<1>2. UInv /\ [Uptime!Next]_(Uptime!vars) => UInv'
    BY UptimeStep
<1> QED
    BY <1>1, <1>2, PTL DEF Uptime!Spec

----------------------------------------------------------------------------

\* Every variable keeps its type, whatever the sync and the pages write.
THEOREM UptimeTypes == ASSUME NoneApart PROVE Uptime!Spec => []Uptime!TypeOK
<1>1. UInv => Uptime!TypeOK
    BY DEF UInv, RowInv, PageInv, Uptime!TypeOK, Entities, Answers, Uptime!Untracked, Uptime!NoAnswer
<1> QED
    BY UptimeInvariant, <1>1, PTL

\* The recorded uptime never exceeds the age of the record: the spells the sync
\* adds up do not overlap.
THEOREM UptimeBounded == ASSUME NoneApart PROVE Uptime!Spec => []UptimeWithinLife
<1>1. UInv => UptimeWithinLife
    BY DEF UInv, RowInv, Accounted, UptimeWithinLife, Uptime!RowType
<1> QED
    BY UptimeInvariant, <1>1, PTL

\* No step stores a smaller total than the one in the table.
THEOREM UptimeMonotone == ASSUME NoneApart PROVE Uptime!Spec => UptimeNeverShrinks
<1>1. UInv /\ [Uptime!Next]_(Uptime!vars) => [row'.total >= row.total]_row
  <2> SUFFICES ASSUME UInv, Uptime!Next PROVE row'.total >= row.total
      BY DEF Uptime!vars, Uptime!syncVars
  <2>0. row \in Uptime!RowType /\ row.total \in Nat
      BY DEF UInv, RowInv, Uptime!RowType
  <2>1. CASE Uptime!SyncStatus
    <3>1. CASE Uptime!StatusChanged
        BY <2>1, <3>1, SyncedRow DEF Uptime!SyncStatus, UInv
    <3>2. CASE ~Uptime!StatusChanged
        BY <2>0, <2>1, <3>2 DEF Uptime!SyncStatus
    <3> QED
        BY <3>1, <3>2
  <2>2. CASE Uptime!SyncRead \/ Uptime!SyncList \/ Uptime!SyncAborts \/ Uptime!PowerChanges \/ Uptime!Tick
      BY <2>0, <2>2 DEF Uptime!SyncRead, Uptime!SyncList, Uptime!SyncAborts, Uptime!PowerChanges, Uptime!Tick
  <2>3. ASSUME NEW c \in Circuits, Uptime!PageStep(c) PROVE row'.total >= row.total
    <3>1. \A s : Uptime!Saved(c, s).total = row.total
        BY <2>0 DEF Uptime!Saved, Uptime!RowType
    <3>2. CASE Uptime!RefreshSaves(c) \/ Uptime!LogSaves(c)
        BY <2>0, <3>1, <3>2 DEF Uptime!RefreshSaves, Uptime!LogSaves
    <3>3. CASE Uptime!CreateUpdate(c)
        BY <2>0, <3>3 DEF Uptime!CreateUpdate, Uptime!RowType
    <3>4. CASE Uptime!View(c) \/ Uptime!RefreshAsks(c) \/ Uptime!RefreshShows(c) \/ Uptime!RefreshFails(c) \/ Uptime!CloseCircuit(c)
        BY <2>0, <3>4 DEF Uptime!View, Uptime!RefreshAsks, Uptime!RefreshShows, Uptime!RefreshFails, Uptime!CloseCircuit
    <3> QED
        BY <2>3, <3>2, <3>3, <3>4 DEF Uptime!PageStep
  <2> QED
      BY <2>1, <2>2, <2>3 DEF Uptime!Next, Uptime!SyncStep
<1> QED
    BY UptimeInvariant, <1>1, PTL DEF Uptime!Spec, UptimeNeverShrinks
=============================================================================
