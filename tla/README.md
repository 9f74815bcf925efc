# Verification of the Proxmox self-service portal

TLA+ models of VmPortal (a Blazor Server application with a SQLite database in
front of a Proxmox VE cluster, and the noVNC client it serves for consoles), the
TLC runs that check them, and TLAPS proofs. Sources are named relative to the
repository; `rfb.js`, `keyboard.js` and the like are in
`src/VmPortal.Web/wwwroot/novnc/core`.

## 1. The system

| Component | Keeps | Operations | Interacts with |
|---|---|---|---|
| **Inventory sync** (`VmInventorySyncService`, `VmInventorySyncBackgroundService`) | nothing between iterations; inside one, the rows it read and Proxmox's listing | every 60 s: delete VMs disabled for more than 30 days, disable rows whose VM is missing, copy name, status, resources, accumulate uptime | Vms table, Proxmox |
| **VM pages** (`MyVms`, `VmDetails`, `Admin/Vms`, `MyVmsNew`, `Admin/ProxmoxVms`) | per circuit: one `DbContext` whose tracked rows live as long as the browser tab, busy flags, form models | list, refresh, start/stop/..., delete (= disable), change resources, create from template, import, grant access | Vms table, Proxmox, rate limiter, event log |
| **Console sessions** (`ConsoleSessionService`, `Program.cs`) | sessions in the memory cache, five minutes | create, look up, invalidate | Proxmox login and VNC proxy |
| **Console WebSocket proxy** (`WebSocketProxy`, `Program.cs`) | two sockets, one buffer | two pumps, close sequence | browser, Proxmox |
| **Rate limiter** (`RateLimitingService`) | counter and window per user and operation, memory cache | check, reset, remaining cooldown | pages |
| **Templates** (`Admin/Templates`) | VmTemplates table | create, edit, disable, delete, tag | Proxmox, create page |
| **Permissions** (`VmDetails`) | VmUserPermissions table | add, change, remove | pages that check them |
| **Proxmox client** (`ProxmoxClient`, retry policy in `DependencyInjection`) | nothing | REST calls, up to three retries, 15 s per try | Proxmox |
| **Security event log and retention** | SecurityEvents table | log (saves the whole `DbContext`), daily cleanup | all of the above |
| **Login and sessions** (`Program.cs`, `SecureSessionManager`) | Users table | upsert at login, role claims | pages |
| **noVNC: keyboard** (`Keyboard`, `RFB`'s key messages) | `_keyDownList`, the AltGr timer, the locks the server reported | key events, blur, view-only, Ctrl-Alt-Del | browser, VNC server |
| **noVNC: pointer and gestures** (`GestureHandler`, `RFB`'s mouse handlers) | touches, possible gestures, two timers, button mask, a delayed move | mouse, wheel, touch events | browser, VNC server |
| **noVNC: session** (`RFB`, `Websock`, `RSAAESAuthenticationState`) | connection and handshake state, receive queue, credentials | connect, handshake with nine kinds of authentication, disconnect | console proxy, `vnc_lite.html` |
| **noVNC: screen** (`RFB`'s messages, the decoders, `Display`) | receive queue, one state per decoder, render queue | decode, draw, flush, ask for the next update | VNC server, browser |
| Sanitizer, tag helper, limits, analytics, data protection, layout, `app/ui.js`, crypto, Chart.js | – | pure functions, read-only views, code that does not run | – |

### What is hard here

* **Stale rows.** A page's `DbContext` keeps a row as first read until the tab
  is closed; a later query returns the same object, and `SaveChanges` writes
  only the columns that differ from the values first read. The sync, in turn,
  decides on rows read before the listing and all deletions.
* **Time.** Deletion is the end of a 30-day clock that several writers start,
  stop and restart, in two columns that are not always written together.
* **Partial failure and restarts** between a Proxmox call and the save.
* **Reused VMIDs**: `cluster/nextid` returns the smallest free one, while rows
  of deleted VMs keep the unique (Node, VmId).
* **Concurrency proper**: two pumps on one buffer and two sockets; the sync and
  all circuits on one table; timers that call into pages.
* **Incomplete input.** noVNC's decoders and its handshake stop wherever the
  network cut the stream and are resumed there, or give back what they read.
* **Callbacks.** Pictures load later than the rectangles after them; answers of
  the user, promises of the crypto library and timers resume the handshake while
  the connection may be ending; event handlers run inside it.
* **Events that lie.** Browsers leave out key releases, invent a Ctrl for AltGr
  and repeat keys under another name; fingers join and leave gestures.

### What makes each component correct

* Sync and pages: a VM is removed only after a whole, uninterrupted grace
  period and for a reason somebody can name; a row past it does not stay; a
  request is honoured in the end; a reactivated row is active. The code keeps the
  first two, and breaks the others in the ways section 3 shows.
* Uptime: never more than the record's age, never shrinking; every spell of
  Running counts; the status converges.
* Proxy: frames arrive in order and intact; the end of one side ends all.
* Sessions: used once, by their owner, before they expire.
* Rate limiter: no call is refused that had attempts left; calls that do not
  overlap get at most the limit in each window, hence at most twice the limit
  in any stretch shorter than a window.
* Pages: the busy flag admits one command and is released; the status follows
  the VM, and the buttons follow the status.
* Resources: the record shows what Proxmox has; disks never shrink; limits hold.
* Log and retention: an event is lost only if the database refuses it.
* Keyboard: no key stays down at the server, its locks follow the user's.
* Pointer: no button stays down, the last position arrives, gestures do not mix.
* Session: every field is read as what it is; both sides agree on the outcome;
  the application gets one last event; the handshake ends.
* Screen: the stream stays in step; what was sent is drawn once and in order and
  shown update by update; the client never stops asking.

## 2. Modules

| Module | Models | Checked by |
|---|---|---|
| `VmLifecycle` | the life of a VM record: sync, delete, create, import, Proxmox around them | `MCVmLifecycle`, two runs |
| `VmRetention` | abstract specification: scheduled, grace period, deleted | `RetentionSpec` of `VmLifecycle` |
| `VmLifecycleProofs` | theorems about the two | tlapm |
| `UptimeRecord` | what a record's uptime promises | with `VmUptime` |
| `VmUptime` | status, stamp and total of one record | one run |
| `ConsoleProxy` | one console connection | two runs |
| `ConsoleProxyProofs` | theorems about it | tlapm |
| `RateLimiter` | the rate limit of one user and operation, and the pages that ask it | `MCRateLimiter`, one run |
| `RateLimiterProofs` | theorems about it | tlapm |
| `VmPages` | handlers of one circuit's pages around one VM: busy flags, refreshes, dialogs | one run |
| `VmPagesProofs` | theorems about it, and about `VmUptime`, which it instantiates | tlapm |
| `Keyboard` | from key events to the keys and locks at the VNC server | `MCKeyboard`, one run |
| `KeyboardProofs` | theorems about it | tlapm |
| `Gestures` | the gesture handler, as functions from its state to the next | through `Pointer` |
| `Pointer` | mouse, wheel and gestures to buttons and position at the server; composed with `Gestures` | `MCPointer`, one run |
| `PointerProofs` | theorems about the two | tlapm |
| `RfbSession` | one connection from its constructor to "disconnect", with the server and the application | `MCRfbSession`, one run |
| `RfbSessionProofs` | theorems about it | tlapm |
| `Screen` | messages, decoders, render queue and update requests of a connected session | `MCScreen`, two runs |
| `ScreenProofs` | theorems about it | tlapm |

`VmLifecycle` is instantiated by `MCVmLifecycle` and instantiates `VmRetention`
with the refinement mapping `life <- lives, age <- since, clash <- renewed`.

### VmLifecycle

*State.* `db` maps each key (Node, VmId) to its row `[disabled, at, deleted]`
(`IsDisabled`, age of `DisabledAt`, `IsDeleted`) or `None`; `pve` says whether
Proxmox has the VM, stopped or running, or elsewhere; `tracked` holds every
circuit's entities; `op` the handler a circuit is in; `phase, seen, listed, todo,
marked` the sync iteration. The rest is history: how long the row has been disabled
without a break (`since`), why its row disables the VM that is there now
(`cause`), which VMs the sync has removed (`purged`), and which rows were
reactivated while an iteration was running (`renewed`).

*Steps.* The sync is split at its awaits: read rows, list, one delete call at a
time, save, second pass and save. SQLite's provider completes synchronously, so
a page's handler runs from one Proxmox call to the next without another handler
of the same circuit in between; handlers are split where another circuit or the
sync can come in: the create page at its clone, its lookup and its save, the
import page at its listing, its re-check and its save. `Column` is EF Core's
change tracking: a column is written only if it differs from the value tracked.

*Failing saves.* When the save of a page fails, its changes stay in the `DbContext`.
`Disable` may fail twice, in the handler and in the log entry of its `catch`
block; what it assigned is stored by whatever this circuit saves later
(`LaterSave`), with the time of the assignment. An import's row is inserted late in
the same way. A create handler whose save fails is a create handler that takes its
time. A row the unique index refused makes all later saves of its circuit fail
(`Refused`, circuit "stuck").

*Environment.* `Faults` selects what happens around the portal: VMIDs reused
("reuse"; `cluster/nextid` gives a VMID that no VM has, whatever rows there are), VMs
started ("start"), created ("foreign") or removed ("remove") by hand, VMs that are not
listed at their node for a while ("away"), calls that fail, with or without effect
("fail"), restarts ("crash"). Proxmox refuses to remove a running VM, and no code stops
a disabled one (`ProxmoxClient.cs:714`): `SyncDeleteRejected` then needs no fault.

*Time.* Ages count ticks, `Grace` of them being the 30 days, and saturate at
`Grace + 1` because the code only compares with the grace period. One tick is
at least ten days at the bounds used. No handler or iteration lasts that
long, nor does a circuit go on that long without a save: at most one tick falls
within each (`late`). The wall clock is assumed not to go back.

*Left out.* Owners: `OwnerUserId` is a foreign key to Users, so the sync's test
for `Guid.Empty` never skips a row. Names and resources. A create handler whose save
fails leaves its update to a later save, by which the row may have changed again. After a
disabling that was not saved the page says "Please try again", but its delete button
is off (`VmDetails.razor:127`), because it looks at the modified entity.

### VmUptime

One record: `row` with `Status`, `LastStatusChangeAt`, `TotalRunTimeSeconds`,
the sync's stale copy `seen`, and per circuit the tracked status with the value
it is compared with at the next save. `RefreshSaves` is Refresh All of
Admin/Vms (and of a delayed refresh that gets so far, see `VmPages`),
`RefreshShows` the refresh of VmDetails, which saves nothing itself: `LogSaves`
is whatever save of that circuit comes next, since the event logger saves the
whole `DbContext`. A circuit has one status request under way at a time. "Stopped" stands for Stopped and Paused, which the code treats alike.

### ConsoleProxy

Both pumps of `WebSocketProxy.PumpAsync`, the shared `byte[8192]`, `ProxyAsync`'s
`WhenAny` and close sequence, and the disposal at the end of the request. A
frame's shape (length, type, end-of-message) is in the pump's local `result`,
its bytes in the shared `buffer`. The socket states and what `ReceiveAsync`,
`SendAsync` and `CloseAsync` do in them are those of System.Net.WebSockets
(external). In particular a call with a token that is already cancelled throws
before it has registered the abort, so the socket may still be "Open" behind it, and a
lost connection changes a socket's state only when a call on it fails (`Throws`).
A send never blocks: back-pressure is not modelled.

### RateLimiter

`RateLimitingService` is a singleton and its counters live in the shared
`MemoryCache`; circuits of one user run on different threads, and nothing locks.
`CheckRateLimitAsync` is therefore split wherever another thread's step makes a
difference: reading the cache, reading the clock, the decision, the load and
the store of `attempts.Count++`, putting the object back. `infos` holds every
`RateLimitInfo` ever created (a thread may still hold an old one), `entry` what
the cache refers to. `grants` and `overlapped` are history. The pages ask for
the remaining cooldown when they are loaded and after a refusal, and a cooldown
disables their buttons until they are loaded again. `ResetRateLimitAsync` has no
caller and is left out.

### VmPages

One circuit shows one page at a time, a list page (MyVms, Admin/Vms) or the
details page; both use the entity the circuit's `DbContext` tracks. A handler is
a task with a kind, the await it is at (`call`, `sleep`, `ask`, `answer`,
`confirm`), whether its page is still shown (`live`) and the answer it holds;
between awaits a step of the dispatcher is atomic. A handler whose page has been
left goes on: it writes fields nobody reads, and the shared entity. `busy` is
`_operationInProgress` or `_busy`, `shown` what the browser last saw of it, `can`
the status the action buttons were computed for.

The delayed refresh of the list pages is a plain `ContinueWith`: there is no
synchronisation context on its thread, so `StateHasChanged` throws unless a
render of the component is already queued (`DelayedThrows`, `DelayedAsks`).

`raced` is history: a click was sent before the browser had shown the disabled
button or the dialog, or the delayed refresh ran beside the dispatcher.
Simplifications: `UpdateResourcesAsync`'s two calls are one; the refresh loop of
a page that has been left keeps its slot until its request is answered; MyVms
has no Refresh All and no delete, which the list page of the model always has;
the session id is set and the console shown in one step.

### Keyboard

*State.* `c` holds `_keyDownList` (`list`), `_altGrArmed`, the view-only switch
and the locks the server last reported, and, because every event that is sent is
processed in order, the keys and locks of the server itself (`down`, `lock`).
`held`, `local` and `focus` are the user's side: keys physically down, the
keyboard's own locks, where the focus is.

*Steps.* A browser event handler runs to completion, so each is a function of
`c`. Between two of them come the 100 ms timer of AltGr, a lock report, blur,
the view-only switch, the Ctrl-Alt-Del button and a pinch, which sends Ctrl.
`SendKeyEvent` and `HandleKeyEvent` are kept apart as in the code, since the pinch
and the button go past `_keyDownList`.

*Environment.* Four platforms, with what the comments of `keyboard.js` say each
leaves out or makes up: Windows (a fake Ctrl before AltGr, one release for two
Shifts, none for Romaji keys), macOS (no release while Cmd is down, CapsLock as a
single event), others, and browsers without `KeyboardEvent.code`. Keys and
keysyms are named, one of each kind the code treats differently; `keysymdef.js`
and the other tables are not modelled. *Bounds:* keys held at once, lock reports
under way, keys let go of unseen; keys are pressed only while the canvas has the
focus.

### Gestures and Pointer

`Gestures` is `GestureHandler` as functions from its state `g` to the next one,
with the events it dispatches (`events`). `state` is the bitmask of gestures that
are still possible, `tracked` and `ignored` the touches, `age` and `releaseOld`
what the code reads off the clock, `long` and `two` the timers (`two = "fired"`
is the identifier that is kept although the timer is gone). `Pointer` handles
those events in the step that dispatched them (`Gesture`) and adds mouse and
wheel. `p` is `_mouseButtonMask`, the delayed move, viewport dragging, wheel
and tap memory, and what the server was last sent.

*Abstractions.* Positions lie on one axis of the canvas; magnitudes and angles
keep what the code compares: not far enough, far enough, same or opposite
direction. A session uses mouse or touch, not both at once. View-only and the
switching of `dragViewport` in the middle of a gesture are left out.

### RfbSession

*State.* `c` is `RFB` with its `Websock`: connection and handshake state, what
each kind of authentication keeps between calls, the receive queue, the
handlers that are attached, the timers. `wire` holds the tokens on their way, a
token being what the code waits for in one piece. `inStep` records whether
each field was read as the field it is.

RA2's wait for two bytes of 258 (`ra2.js:201`) is modelled as it is: with the length
alone in the queue the next field is read where none is, `inStep` is FALSE from then
on, and the negotiation fails when it has decrypted that (`ra2 = "garbled"`).

*Steps.* `Deliver` hands over any number of tokens at once, so every handler
meets every partial message; `InitStep` is one round of `_handleMessage`'s
loop. The asynchronous parts are split at their awaits: `CryptoDone`,
`ARDAuthAsync`, `ApproveServer`, `SendCredentials` with the timer of
`_resumeAuthentication` (`ResumeAuthentication`). The application may disconnect
at any time, and on the event named by `quits` inside its handler.

*Environment.* The server keeps to the protocol: it offers what `Servers` says and
accepts or refuses. It may offer another version of VeNCrypt than 0.2 or refuse that
one, and RA2 may ask for a name and password or for a password alone. Before version 3.8 the protocol has no
verdict after "None", so a server that offers it there accepts (`NoneIsAccepted`). The channel may close at any time and
may never report that it did.

### Screen

*State.* `sent` is all the server has written, a sequence of tokens, each as the i-th
of its part and with the number of rectangles its update has still to come; `todo`
is what it has begun and not written yet. `arrived` and `c.at` say how far the stream
has come and been read, so that a position names a token and what is drawn is known
by where its pixels came from. `Part` is the protocol: what a message or a rectangle
of each encoding consists of. Each decoder's fields are in `c` under its names. What
`Display` has drawn and what waits is in `drawn` and `queue`, together the log of
the drawing operations; an operation "flip" brings the canvas up to date with those
before it. `told` and `said` are what the client was told and what it answered;
`flushing` and `flushed` are the promise of `Display.flush()`.

*Steps.* `HandleMessage` is one step of the message loop or of one decoder;
`ServerWrites` writes one part, and `Deliver` cuts the stream anywhere, `full` being
a compaction of the receive queue, after which a view of it starts at the buffer's
first byte. Pictures and video frames are decoded in any order (`PictureDecoded`);
only the head of the render queue is listened to (`PictureLoaded`).

*Left out.* Pixels and colours, the viewport and its scale, the colour map
message, the remote resize (`_requestRemoteResize`), which `vnc_lite.html` never
switches on, the eviction of H.264 contexts and the parsing of their headers.
The server sends only what depends on something it sent before (`Legal`).

## 3. Runs

| Run | Instance | Shows |
|---|---|---|
| `VmLifecycle_retention` | 1 key, 2 admin circuits, Grace 2, VMIDs reused, VMs away, failures, restarts | `StampIsFresh`: a stamp is never older than the row's present spell as disabled; `PurgeAfterGrace`; `RemovalHasCause`: every removal has one of the causes the property names; `VmRetention` is implemented |
| `VmLifecycle_clean_up` | 1 key, 1 admin circuit, Grace 2, all faults; fairness | `LapsedIsDeleted`: after the last failure no row stays past its grace period, unless its VM is running again and again |
| `VmUptime_record` | 1 circuit, 3 ticks, all faults; fairness | `UptimeWithinLife`, `UptimeNeverShrinks`, `StatusSettles` |
| `RateLimiter_checks` | 2 circuits, 2 attempts, window of 2 ticks, 4 ticks, 6 grants | `LimitHolds`: without overlap, 2 * max + 1 grants span a window; `RefusalsAreEarned`: every refusal was preceded by max grants within the window |
| `VmPages_page` | 2 clicked handlers and the refresh loop; fairness | `NeverStuck`, `OneCommand`, `PageFollows` |
| `ConsoleProxy_connection` | 2 frames a side, both sides may break; fairness | `FramesInOrder`, `NoneLeftOpen`, `EndsWithPeer`, `PumpsEnd` |
| `Keyboard_keys` | four platforms with three to six keys, 2 held at once, 1 lock report under way, 1 stray key | `Inv`: what is down at the server is noted under the name it was pressed with; `NothingStuck`, `TypedInSync`, `CtrlBeforeLetter` |
| `Pointer_input` | 3 interchangeable fingers, or a mouse with 2 buttons held; dragging and the extended event on or off | `FingersKnown`, `NoStuckButton`, `PositionKept`, `OneHoldAtATime` |
| `RfbSession_handshake` | 44 servers, three sets of credentials to start with, a disconnect inside any event handler; fairness | `Inv`: the handshake stays in step; `Outcome`, `LastWord`, `Settles` |
| `Screen_updates` | 2 messages out of 17, which bring every encoding and message; fairness | `Inv`: the stream stays in step; `DrawnInOrder`, `WholeUpdates`, `OneUpdateQueued`, `KeepsUp` |

*Why the bounds are enough.* Rows do not influence each other except through the
sync's two saves, which treat every row by the same function; one key shows
every interleaving of the sync, two circuits and Proxmox on a row. Two circuits
are the least that make a tracked row stale through another page. Grace 2
is the least at which an iteration fits between "just disabled" and "expired".
VMs created, started or removed by hand are in the liveness run only, with one
circuit; the theorems cover them for the safety properties. The safety properties of `VmLifecycle` and `VmUptime` are proved
for all sizes. Two frames a side let the buffer be overwritten and the order be
tested; a pump that handles two frames passes through each of its states with
the other pump anywhere. Two circuits, two windows and a fifth grant are what a
stale counter object, a lost update and the meeting of two windows take. Two
clicked handlers and the loop are enough for a flag to be cleared under the
handler that set it and for two answers to be applied in the wrong order; the
safety properties of `VmPages` are proved for any number. Two keys and a stray
one are what every special case of `keyboard.js` takes, each of which is about
one modifier and one other key. Three fingers are the most a gesture has; a
fourth makes every gesture impossible, as a late second or third one does, and
the proof of `FingersKnown` includes it. Of each
branch of the handshake there is a server that takes it. Two messages put each
decoder behind itself (most messages of `MCScreen` have a rectangle twice) and
behind a picture that has not loaded, within an update and across two.

The runs take from a second to about two minutes; the largest are
`VmLifecycle_retention` (3.6 million distinct states, with symmetry), `Keyboard_keys`
(about 1.1 million), `Pointer_input` (0.64 million, with symmetry)
and `Screen_updates` (1.1 million).

*Fairness.* `VmInventorySyncBackgroundService` never leaves its loop and catches
every exception, so an iteration begins again and again, and its calls return, with or
without success (weak fairness); nothing says that Proxmox accepts a deletion. That
failures stop is the hypothesis of `LapsedIsDeleted`, not an assumption on the
sync. Handlers end and time passes; the clock is strongly fair because it waits for
handlers, and these come and go. In `VmUptime` the
listing contains the VM with a known status again and again. In `ConsoleProxy`
tasks run, and a peer that is still there answers a close frame, as both noVNC
and Proxmox do; a peer that is not there is a broken connection. In
`VmPages` handlers go on, the loop ticks, and a request is answered rather than
failing for ever: its answer is strongly fair, because a failure and the next
request come in between. No user action is fair. In `RfbSession` the network delivers,
the server answers, timers and the crypto library run, and the user comes to give
every credential that is asked for, which is what `Settles` is about. In `Screen`
data arrives, the message loop and the promise's callback run, and the browser
decodes its pictures; a picture that fails to decode is not modelled.
`ConsoleProxy`, `VmUptime`, `RateLimiter`, `VmPages`, `RfbSession` and `Screen`
switch deadlock checking off: a connection ends, a model's clock or its number of
messages stops at its bound, and a page may have nothing to do until its user
does something.

### Where the code does something else than it says

| Run | What happens |
|---|---|
| `ConsoleProxy_bug_buffer` | The pumps' shared buffer: a frame is forwarded with bytes of the other direction. |
| `Screen_bug_raw` | Raw pixels that have to wait behind a picture are copied from the start of the receive buffer, not from where they are (`display.js:403`): the wrong pixels are drawn. Hextile's raw tiles take the same path. |

Other disagreements the models have, without a run of their own:

* Importing a VM starts its deletion clock and gives it an owner
  (`ProxmoxVms.razor:207`, `214`): thirty days later the sync removes it, although
  `VmInventorySyncService.cs:218` says "Only process managed VMs: those that have a real
  owner" and the import page (line 100) that imported VMs are "disabled with no owner". It
  is one of the causes in `RemovalHasCause`; another is a VM that is not listed at its node
  once, which disables its row, also when it is back at the next listing.
* A create that reuses a VMID whose row its circuit has tracked since before the row was
  disabled or deleted writes neither column (`MyVmsNew.razor:763`): the new VM's record
  stays as it was (`HalfReactivate` in `VmRetention`; the cause "inherited"), although line
  756 says "Reactivate/update existing VM record". In the same way an admin's delete on a
  page opened before the row was enabled again reports success and writes only
  `DisabledAt`.
* The sync deletes and marks by rows it read at the start of the iteration
  (`VmInventorySyncService.cs:240`, `269`): a row that is reactivated meanwhile is marked as
  deleted while it is enabled, and its new VM removed at once (the exception `renewed` in
  `PurgeAfterGrace` and `RemovalHasCause`, `clash` in `VmRetention`).
* A VM that is not listed when its grace period ends is marked deleted without being
  deleted (`VmInventorySyncService.cs:237`); back in the listing it is kept for ever, and
  the import page hides it, because that page leaves out keys with a deleted row.
  `LapsedIsDeleted` is therefore about rows.
* A disabled VM that is running is not removed at any iteration: Proxmox refuses it, the
  sync skips the row and nobody stops the VM (the exception in `LapsedIsDeleted`), although
  `VmDetails.razor:1436` says that it remains "until cleanup runs".
* A refresh on Admin/Vms (`Vms.razor:478`), or on VmDetails with a later save,
  takes the record out of Running without counting the time, although
  `VmInventorySyncService.cs:158` says "If we are leaving Running, accumulate
  uptime".
* Three seconds after an operation on a list page the delayed refresh
  (`MyVms.razor:297`: "Refresh after short delay") sets the busy flag and throws:
  nothing is refreshed, and every later operation on that page returns at once
  (`NeverStuck` is stated for the details page).
* A handler of a page that has been left changes the entity of the page that is shown,
  which recomputes its buttons only if its own refresh finds another status
  (`VmDetails.razor:652`): they stay those of the old status until it changes again. No
  property requires that they match.
* `ProxyAsync` closes only sockets in state Open, so a peer that closed first can
  be left without an answer, although `Program.cs:436` ignores exceptions because
  "sockets closed in proxy". When the request is aborted, or a connection is lost, it
  may even return with sockets in state Open, which only the end of the request disposes
  (the exception in `NoneLeftOpen`).
* `GetRemainingCooldownAsync` returns the rest of the window however few attempts
  it counts: a page loaded after one operation says "Rate limit active"
  (`MyVms.razor:26`) and disables its buttons.
* Overlapping calls of one user's circuits can lose increments and open two
  windows: they get more than the limit, never less (`RefusalsAreEarned`).
* `_currentConsoleSessionId` is never cleared: after the first console the
  details page no longer follows the VM, although `VmDetails.razor:1062` says
  "Do not refresh while console is active/opening".
* The navigation after a delete takes the user away from whatever page is shown
  1.5 seconds later (`DeleteLeaves`).

In noVNC, where the models do what the code does and the properties name the
exception:

* Keyboard. Switching to view-only sets the field before it releases the keys,
  and `sendKey` drops what is sent in view-only mode: the keys stay down
  (`rfb.js:316`; `lost` in the model). A pinch calls `_handleKeyEvent` without lock
  states, `undefined` instead of the `null` that is tested for, and so toggles the
  server's locks (`rfb.js:1432`; line 1026: "If remote state of capslock is known,
  and it doesn't match the local led state of the keyboard, we send a capslock
  keypress").
* Gestures. When the two-finger timer has decided, its identifier is kept
  (`gesturehandler.js:408`): the next tap is taken for an unfinished two-finger
  gesture and swallowed (line 269). After one finger of a two-finger tap is
  lifted, a far move of the other starts the two-finger timer, although no gesture
  is possible any more; when it fires a gesture is started with one finger, and
  started again before it is ended at the release.
* Pointer. A wheel step or a second button while the mouse drags the view sends
  the button of the drag and never its release (`rfb.js:1139`, `1265`).
  `_viewportHasMoved` is left over when `dragViewport` is switched off in a
  longpress (`rfb.js:1466`), which the model does not do.
* Session. RA2 waits for 2 bytes and reads 256 more (`ra2.js:201`): a random that
  arrives in two pieces is read as garbage and the connection fails (`CutRandom`). RA2 goes on
  after a disconnect that comes while the crypto library works, and may still
  announce a request. It asks for credentials once: an incomplete answer leaves
  it waiting. ARD can have two resumes pending, the second of which runs in the
  connected session (`StaleResume`). A disconnect in the "desktopname" handler
  leaves the keyboard grabbed (`rfb.js:2215`). `vnc_lite.html` answers a request
  for credentials with a password only and does not handle
  "serververification", so of the servers that ask for more it can reach none.
  A message that arrives together with ServerInit is handled only when more data
  arrives.
* Screen. An update without rectangles that arrives while the render queue is not
  empty is forgotten, and with it the next request; a Tight palette for an empty
  rectangle leaves the number of colours for the next (`tight.js:181`, although
  `tests/test.tight.js:302` is about empty rectangles); view-only switched on
  between a clipboard request and its answer leaves the answer unread
  (`rfb.js:2435`); a fence of more than 64 bytes is not read whole; a fence is
  answered before what came before it is drawn (`rfb.js:2532`); a resize is not
  queued behind what waits; a second EndOfContinuousUpdates stops the updates
  (`rfb.js:2603`, with a FIXME); a picture that cannot be decoded stalls the render
  queue. The server of the model sends none of these, except that fences are
  answered as the code answers them.

## 4. Proofs

| Theorem | Statement | Assumptions |
|---|---|---|
| `VmLifecycleProofs!TypeCorrect` | `Spec => []TypeOK` | those of the module |
| `VmLifecycleProofs!StampsAreFresh` | `Spec => []StampIsFresh` | those of the module: every fault allowed |
| `VmLifecycleProofs!GraceIsRespected` | `Spec => PurgeAfterGrace` | the same |
| `VmLifecycleProofs!RemovalsHaveCause` | `Spec => RemovalHasCause` | the same |
| `VmLifecycleProofs!Refinement` | `Spec => RetentionSpec` | the same |
| `VmPagesProofs!UptimeTypes, UptimeBounded, UptimeMonotone` | types, `UptimeWithinLife`, `UptimeNeverShrinks` of `VmUptime` | its `NoneAssumption`, as a hypothesis |
| `RateLimiterProofs!TypeCorrect, RefusalsEarned` | `TypeOK`, `RefusalsAreEarned` | those of the module: any limit, any overlap |
| `RateLimiterProofs!LimitKept` | `LimitHolds` | the same |
| `VmPagesProofs!TypeCorrect, StuckNever, CommandsOneByOne` | `TypeOK`, `NeverStuck`, `OneCommand` | those of the module: any number of handlers |
| `ConsoleProxyProofs!TypeCorrect, InOrder, AllClosed` | `TypeOK`, `FramesInOrder`, `NoneLeftOpen` | those of the module: any number of frames, either side may break |
| `KeyboardProofs!KeysAreTracked` | `Spec => []Inv` | those of the module: any keyboard, any number of keys held |
| `KeyboardProofs!NothingStaysDown` | `Spec => []NothingStuck` | the same |
| `KeyboardProofs!LettersInSync` | `Spec => TypedInSync` | the same, for any set of reported locks |
| `KeyboardProofs!CtrlGoesFirst` | `Spec => CtrlBeforeLetter` | the same |
| `RfbSessionProofs!KeepsInStep` | `Spec => []Inv` | servers that keep to the protocol (`ServersAssumption`, `NoneIsAccepted`), of any lists of types; any credentials; the channel and the application at will |
| `RfbSessionProofs!OutcomeIsAgreed` | `Spec => []Outcome` | the same |
| `RfbSessionProofs!DisconnectIsLast` | `Spec => []LastWord` | the same |
| `ScreenProofs!KeepsInStep` | `Spec => []Inv` | those of the module: any messages (`MessagesAssumption`), sent any number of times |
| `ScreenProofs!DrawsInOrder` | `Spec => []DrawnInOrder` | the same |
| `ScreenProofs!ShowsWholeUpdates` | `Spec => []WholeUpdates` | the same |
| `ScreenProofs!QueuesOneUpdate` | `Spec => []OneUpdateQueued` | the same |
| `PointerProofs!TypeCorrect, FingersAreKnown` | `TypeOK`, `FingersKnown` | those of the module: any fingers, moves and thresholds |
| `PointerProofs!ButtonsReleased, PositionIsKept, HeldOneByOne` | `NoStuckButton`, `PositionKept`, `OneHoldAtATime` | the same, with any canvas and buttons |

*Argument for `StampIsFresh`.* The two columns are not always written together,
so freshness alone is not inductive. `IInv` adds that `since` is defined exactly
for disabled rows (`SinceIsSpell`), that a tracked or read row exists
(`HeldRowsExist`), and that handlers with a key have one (`HandlersHaveKeys`).
Every step that begins a spell then writes the stamp in the same save, of age 0 or, when a
later save stores what an earlier one failed to, of the spell's own age at the assignment.

*Argument for the grace period.* What the sync decided on its copies must still hold of
the rows when the decision is carried out, and a row may have changed meanwhile. `DInv`
says what remains: the copy of a disabled row is no older than the row's spell, unless
the row was reactivated under the iteration (`CopyIsYounger`), and what the iteration is to
delete or mark is disabled and expired in its copy (`DecidedOnCopies`). A copy is only
ever too young, because disabling a row again renews the stamp and not the spell. Hence
whatever is removed has a spell longer than the grace period, or is in `renewed`: the
exception of the properties is the one way in which the code acts on a row that is no longer
disabled. No assumption on VMIDs, faults or the length of the grace period is needed.
`DisabledHasCause` is the third part: a disabled row with a VM has a cause; with the
other two it gives `RemovalHasCause`. The refinement is proved record by record
(`KeyStep`): each step moves each record by one of `VmRetention`'s steps.

*Argument for uptime.* The total never exceeds the stamp it was last written
with (`Accounted`), in the row and in the sync's copy, and during an iteration
the copy's total is the stored one, since the sync is its only writer.

*Argument for the rate limit.* A counter never exceeds what has been granted in
its window: for each `RateLimitInfo`, the count plus the increments still to be
stored is at most its grants, and so is a loaded value plus the increments still
under way. A lost update only lowers the counter. Every grant of a window was
given within the window's length of its start, so a counter at the limit means
that many grants within the window of the refused call.

*Argument for the limit.* Without overlap the counter is exact: the grants of the
newest window are the last ones, as many as were counted (`Exact`), so that no
`maxAttempts + 1` grants share a window (`FewPerWindow`). The cache always refers
to the newest window and keeps it at least until it is over, so the next one
begins a whole window later (`Apart`). Of `2 * maxAttempts + 1` grants the first,
the middle and the last belong to three windows, the first of which came before
the second window began, and the third began one window after that.

*Argument for the proxy.* Frames that are still to be received are numbered
from the next one on for as long as the pump may receive (`ToReceive`), and so are
those still to be forwarded (`ToForward`); a closer reads from a socket only once
the pump on it will not. The browser's socket is closed first (`CloseInOrder`),
and a socket that is still open with nothing wrong with it (`StillOpen`) is one its
closer has still to treat, which gives `NoneLeftOpen` at the end.

*Argument for the keyboard.* Whatever a handler sends down it also notes in
`_keyDownList`, and whatever it takes out of the list it sends up, under the same
name. That fails for a key that is in the list under one name and pressed under
another, so three things have to hold besides: a repeated key keeps its name, a
Ctrl that is held back is not in the list (`HeldBack`), and a key that is only
ever clicked is not (`ClickedAreUp`).

That nothing stays down (`NothingStuck`) needs the converse, `KInv`: a key in the
list is held, or strayed when the browser kept its release to itself, or is the
Ctrl that Windows made up for AltGr, and then AltGr is held. Keys whose release
nobody hears of must never be in the list (`Unheard`): those that macOS mutes while
Meta is held, and Lang1 on Windows, which are clicked. Losing the focus empties the
list, whatever the order of the releases and of the held-back Ctrl.

*Argument for the locks.* `LocksKnown` says what the client may believe: the lock
states it took from the last report are the server's, or a later report is on its
way that ends with the server's, or the server still owes one. Whatever toggles a
lock at the server makes it owe a report, so a letter typed with no report owed or
on its way is compared with the truth. `Lettered` excludes the other way to fail: that the letter's own code is
listed under the name of a lock, whose key would toggle what was just synced.

*Argument for the fingers.* `FingersKnown` says that all is at rest when the last
finger is up, and that depends on what every handler leaves behind: a finger that
is lifted ends the gesture or waits for the others, and one that is ignored blocks
all gestures until it is up (`Between`). Waiting must come to an end, so a lifted
touch stays tracked only while some gesture is possible and another finger is down; that
holds because the first release leaves one tap at most (`Waits`), which in turn
needs the number of touches to have ruled out the smaller taps (`Possible`). No
timer may be left to fire: the longpress timer runs for a single finger with
everything possible or nothing, and the two-finger timer while both two-finger
gestures are possible or nothing is (`Timers`), so neither can run once a gesture
is known. The run has three fingers; the dead end of the fourth is in the proof.

*Argument for the buttons.* `Pointing` relates the two sides. What the server holds
is what RFB last sent (`Sent`), and if that is a button of a finger then the gesture
handler knows exactly one gesture, a drag or a long press, that is not waiting for a
release, and the view is not dragged (`Held`). For that to survive, each handler's
events must be of one of four kinds (`Follows`): none, while a known gesture stays
known; a move or the end of the gesture that is known; or, only when no drag or long
press is, a start, alone or with a move or the end of the same kind behind it. Each
handler of `gesturehandler.js` is shown to be of one of them, each branch of
`_handleGesture` to hold a button only at the start of a drag or long press, and to
hold none at an end; `OneHoldAtATime` is the third kind seen from the gesture
handler. A position is either the last one sent or the delayed one whose timer runs
(`Placed`), and every other branch flushes that timer first.

*Argument for the handshake.* The client's state determines what an honest server
has still to send (`Ahead`): a greeting, a list, a challenge, a verdict. `IInv` says
that the queue followed by the rest is that stream (`Awaits`), the rest being what is
on the wire or the answer to the client's last message (`Owes`). Its fields are known, so a handler
that finds enough of them in the queue reads the ones it means to, and what it
leaves is the stream of the state it goes to; each of the security types is
one such lemma. A round of the loop starts in a state where a handler may run
(`Ready`) and ends in one where it ran on or has stopped (`Ran`). What is hard is
who may run it: an answer resumes the handshake from a timer, two resumes may
be pending with ARD, and RA2 waits in an asynchronous function beside the loop. While the
user is asked (`Quiet`), everything the server has to send before the answer is in the
queue and no handler runs. With ARD one may, and then it helps that whoever stopped
has left nothing in the queue that a later call could take (`Dry`): a second resume
finds nothing to read and changes nothing, with one exception. It can run in the
connected session, where it takes the session's data for a ServerInit. From then on
(`StaleResume`) the theorems claim only what still holds: the outcome, the single
"disconnect" and the types. The other exception is RA2's random: once it has been read
before it was there (`Cut`), the negotiation is decrypting it and nobody has been asked
anything, so that no handler reads on, whatever arrives, and the failure that follows
ends the handshake. Wherever the stream is legible (`Legible`) the lemmas above hold.

*Argument for the outcome and the last word.* A "connect" is dispatched only after
a positive verdict has been read, which is in the stream only if the server accepts;
each reason to fail is tied to the field that was read (`Because`). Events are
dispatched from inside handlers, and the application may disconnect in them, so the
lemmas of `Connected`, `Fail` and `Disconnect` are stated for both cases, and the
rest of the handler is shown to announce nothing.

*Argument for the screen.* A decoder asks for the next thing of its encoding, so the
stream stays in step if that is what comes next, and this depends on what the decoder
kept when it last stopped. `IInv` therefore says where in the stream the client is. The
stream consists of whole parts, each followed by one that may come there (`Stream`);
what the server has still to write completes the message it began (`Pending`). Between
two rectangles or messages the decoders keep nothing (`Before`). Within a rectangle
(`Within`) the client is behind a token where that decoder may stop, and `Left` says with
what in its fields: in a Tight rectangle behind the filter and the length, for instance,
with both noted and nothing else. One lemma for each decoder shows that its step leads
from such a place to another, or to the end of the rectangle. What came before matters
in two ways only, since `inflated` holds exactly the blocks that count (`Whole`) and a
frame that needs a key frame comes after one (`Depends`).

*Argument for the drawing.* Up to where the client is, every token that is to be drawn
is in the log once and in order (`Logged`), the log being what was drawn followed by
what waits; scanning the queue moves operations from the one to the other and leaves the
log alone. A flip stands at the end of an update or at a new size, and behind everything
that came before it. Everything that waits is of the update under way or the one just
ended (`Single`, `Current`), because a header is not followed by rectangles before the
queue was empty (`flushing`), whichever of the flush and the data comes first. The
handlers are functions of the client, so the lemmas are about any client `s`; each is put
together from those of `Take`, `Draw`, `Inflate`, `Tell` and `Finish`.

*Argument for the pages.* `Staged` says which awaits a handler of each kind has
and on which page it runs; it gives the handler that `NeverStuck` asks for.
While nothing races a rendering (`Unraced`), at most one live handler owns the
flag, the flag is set and shown as set while it does, and no dialog is open
beside it: a click then finds the button disabled, and a handler that clears the
flag clears its own. Without it `OneCommand` is not inductive, since a refresh
clears the flag whoever set it.

Only model-checked: liveness (`LapsedIsDeleted`, `StatusSettles`, `EndsWithPeer`, `PumpsEnd`, `PageFollows`, `Settles`, `KeepsUp`),
since the prover has no ENABLED, and the two violation runs. Every safety invariant and
every action property that a passing run checks is a theorem. Those of `VmLifecycle` are
proved under every fault, of which their run allows four.

The theorems about `VmUptime` are in `VmPagesProofs` because the pages of `VmPages` write
the status that `VmUptime` accounts for: that module instantiates it and takes the
promises from `UptimeRecord`. The two models share the variable `power` and nothing
else; each theorem is about one of them.

## 5. What is left

Not modelled yet, in the order in which it would be taken up:

1. `ConsoleSession`: creation, expiry, ownership, and the one-time use of a session
   that two connections may both pass (`Program.cs:370`); composed with
   `ConsoleProxy`'s start.
2. `VmResources`: configure and resize with partial failure and the saves of the
   event logger, limits, the sync's copy of resources; abstract specification:
   the record converges to Proxmox. `CreateVm` as the steps before the save.
3. `Templates`, with the tag merge of `SetVmTagsAsync`; `Permissions`.
4. The retry policy over Proxmox calls that are not idempotent.
5. `EventLog` and retention; the login upsert.

Not planned: rendering, sanitising of strings, analytics (read-only), generated
migrations, data protection, Chart.js, and `SecureSessionManager`'s expiry, which
no code calls. Of noVNC: `app/ui.js`, since the portal opens `vnc_lite.html`; the
key tables, the cryptography and zlib, which are data or pure functions; pixels.
