---------------------------- MODULE ConsoleProxy ----------------------------
(***************************************************************************)
(* WebSocketProxy: one console connection, browser <-> portal <-> Proxmox. *)
(*                                                                         *)
(* Two pumps run at the same time, one per direction; both receive into    *)
(* and send from the SAME buffer. When the first of them ends, ProxyAsync  *)
(* closes the sockets that are still open and returns, and the request's   *)
(* end disposes both, whatever the other pump is doing.                    *)
(*                                                                         *)
(* A frame stands for one receive's worth of bytes: its shape (length,     *)
(* type, end-of-message flag) travels in the pump's local result, its      *)
(* bytes in the shared buffer. The states of a socket and what each call   *)
(* does in them are those of System.Net.WebSockets; a send never blocks.   *)
(***************************************************************************)
EXTENDS Naturals, Sequences

CONSTANTS
    MaxFrames,   \* bound: data frames each peer sends
    Drops        \* the peers whose connection may break, a subset of Sides

Sides == {"client", "proxmox"}
Other(s) == IF s = "client" THEN "proxmox" ELSE "client"

ASSUME FrameAssumption == MaxFrames \in Nat
ASSUME DropAssumption == Drops \subseteq Sides

Data == [from : Sides, n : 1 .. MaxFrames]
Nothing == [from |-> "client", n |-> 0]     \* the buffer before the first receive
Close == [from |-> "close", n |-> 0]        \* a close frame

VARIABLES
    socket,     \* side -> the state of the portal's socket to that side
    inbox,      \* side -> the frames the peer sent that nobody received yet
    sent,       \* side -> number of data frames its peer has sent
    peer,       \* side -> "open", "closed" (sent its close frame) or "gone"
    told,       \* the sides the portal sent a close frame to
    got,        \* side -> what was forwarded to it
    pump,       \* side -> where the pump that reads from it stands
    result,     \* side -> the shape of the frame that pump received last
    buffer,     \* the one byte[8192] of both pumps
    proxy,      \* where ProxyAsync stands
    cancelled   \* RequestAborted

peerVars == <<sent, peer>>
vars == <<socket, inbox, peerVars, told, got, pump, result, buffer, proxy, cancelled>>

Init ==
    /\ socket = [s \in Sides |-> "Open"]
    /\ inbox = [s \in Sides |-> <<>>]
    /\ sent = [s \in Sides |-> 0]
    /\ peer = [s \in Sides |-> "open"]
    /\ told = {}
    /\ got = [s \in Sides |-> <<>>]
    /\ pump = [s \in Sides |-> "check"]
    /\ result = [s \in Sides |-> Nothing]
    /\ buffer = Nothing
    /\ proxy = "pumping"
    /\ cancelled = FALSE

----------------------------------------------------------------------------
(***************************************************************************)
(* The peers: noVNC in the browser, and the VNC server behind Proxmox.     *)
(***************************************************************************)

PeerSends(s) ==
    /\ peer[s] = "open" /\ socket[s] # "Aborted"
    /\ sent[s] < MaxFrames
    /\ sent' = [sent EXCEPT ![s] = @ + 1]
    /\ inbox' = [inbox EXCEPT ![s] = Append(@, [from |-> s, n |-> sent[s] + 1])]
    /\ UNCHANGED <<socket, peer, told, got, pump, result, buffer, proxy, cancelled>>

\* A close frame, of its own accord or in answer to the portal's.
PeerCloses(s) ==
    /\ peer[s] = "open" /\ socket[s] # "Aborted"
    /\ peer' = [peer EXCEPT ![s] = "closed"]
    /\ inbox' = [inbox EXCEPT ![s] = Append(@, Close)]
    /\ UNCHANGED <<socket, sent, told, got, pump, result, buffer, proxy, cancelled>>

\* The connection breaks. The browser's carries the request. The portal's
\* socket need not notice: its state changes when a call on it fails, if then.
PeerDrops(s) ==
    /\ s \in Drops
    /\ peer[s] # "gone" /\ socket[s] # "Aborted"
    /\ peer' = [peer EXCEPT ![s] = "gone"]
    /\ cancelled' = (cancelled \/ s = "client")
    /\ UNCHANGED <<socket, inbox, sent, told, got, pump, result, buffer, proxy>>

\* A call with a cancelled token fails, one on a broken connection may: what is
\* buffered still passes.
Broken(s) == cancelled \/ peer[s] = "gone"

\* The call throws. It aborts the socket only if it had got under way: a call
\* whose token is cancelled already throws before it registers the abort.
Throws(s) ==
    /\ Broken(s)
    /\ socket' \in {socket, [socket EXCEPT ![s] = IF @ = "Closed" THEN @ ELSE "Aborted"]}

\* A call that needs one of those states does not succeed.
Fails(s, states) ==
    \/ socket[s] \notin states /\ UNCHANGED socket
    \/ Throws(s)

----------------------------------------------------------------------------
(***************************************************************************)
(* CloseAsync: send a close frame unless one was sent, then wait for the   *)
(* peer's. A receive that is pending gets the frames first.                *)
(***************************************************************************)


SendClose(s) ==
    /\ told' = told \cup {s}
    /\ socket' = [socket EXCEPT ![s] = IF @ = "CloseReceived" THEN "Closed" ELSE "CloseSent"]

Closable == {"Open", "CloseReceived", "CloseSent"}

CloseEnds(s) == Fails(s, Closable)

\* ProxyAsync awaits CloseAsync of that socket.
Await(s) == IF s = "client" THEN "closingClient" ELSE "closingProxmox"

Closing(s) == pump[Other(s)] = "closing" \/ proxy = Await(s)

\* While it waits, CloseAsync discards data frames.
CloseReads(s) ==
    /\ Closing(s)
    /\ socket[s] = "CloseSent" /\ pump[s] # "receive"
    /\ inbox[s] # <<>>
    /\ inbox' = [inbox EXCEPT ![s] = Tail(@)]
    /\ socket' = IF Head(inbox[s]) = Close THEN [socket EXCEPT ![s] = "Closed"] ELSE socket
    /\ UNCHANGED <<peerVars, told, got, pump, result, buffer, proxy, cancelled>>

----------------------------------------------------------------------------
(***************************************************************************)
(* PumpAsync from side s to the other side.                                *)
(***************************************************************************)

Goto(s, pc) == pump' = [pump EXCEPT ![s] = pc]

PumpChecks(s) ==
    /\ pump[s] = "check"
    /\ Goto(s, IF ~cancelled /\ \A t \in Sides : socket[t] = "Open" THEN "receive" ELSE "done")
    /\ UNCHANGED <<socket, inbox, peerVars, told, got, result, buffer, proxy, cancelled>>

IsCloseNever(f) == FALSE                                \* mutant: close frames pumped on
IsClose(f) == f = Close

PumpReceives(s) ==
    /\ pump[s] = "receive"
    /\ socket[s] \in {"Open", "CloseSent"} /\ ~cancelled
    /\ inbox[s] # <<>>
    /\ inbox' = [inbox EXCEPT ![s] = Tail(@)]
    /\ \/ /\ ~IsClose(Head(inbox[s]))
          /\ buffer' = Head(inbox[s])
          /\ result' = [result EXCEPT ![s] = Head(inbox[s])]
          /\ Goto(s, "send")
          /\ UNCHANGED socket
       \/ /\ IsClose(Head(inbox[s]))
          /\ socket' = [socket EXCEPT ![s] = IF @ = "Open" THEN "CloseReceived" ELSE "Closed"]
          /\ Goto(s, "close")
          /\ UNCHANGED <<buffer, result>>
    /\ UNCHANGED <<peerVars, told, got, proxy, cancelled>>

\* An exception from ReceiveAsync ends the pump.
Retry(s) == Goto(s, "receive")                          \* mutant: it is ignored
BreakOff(s) == Goto(s, "done")

PumpReceiveFails(s) ==
    /\ pump[s] = "receive"
    /\ Fails(s, {"Open", "CloseSent"})
    /\ BreakOff(s)
    /\ UNCHANGED <<inbox, peerVars, told, got, result, buffer, proxy, cancelled>>

\* new ArraySegment<byte>(buffer, 0, result.Count): the shape is the pump's
\* own, the bytes are whatever the buffer holds by now.
OutgoingShared(s) == [shape |-> buffer, bytes |-> buffer]     \* mutant: result shared as well
Outgoing(s) == [shape |-> result[s], bytes |-> buffer]

PumpSends(s) ==
    LET d == Other(s) IN
    /\ pump[s] = "send"
    /\ \/ /\ socket[d] \in {"Open", "CloseReceived"} /\ ~cancelled
          /\ got' = [got EXCEPT ![d] = Append(@, Outgoing(s))]
          /\ Goto(s, "check")
          /\ UNCHANGED socket
       \/ /\ Fails(d, {"Open", "CloseReceived"})
          /\ Goto(s, "done")
          /\ UNCHANGED got
    /\ UNCHANGED <<inbox, peerVars, told, result, buffer, proxy, cancelled>>

\* The other side is closed in turn; a failure to close ends the pump as well.
PumpCloses(s) ==
    LET d == Other(s) IN
    /\ pump[s] = "close"
    /\ \/ socket[d] \in Closable /\ ~cancelled /\ SendClose(d) /\ Goto(s, "closing")
       \/ /\ Fails(d, Closable)
          /\ Goto(s, "done")
          /\ UNCHANGED told
    /\ UNCHANGED <<inbox, peerVars, got, result, buffer, proxy, cancelled>>

PumpClosed(s) ==
    /\ pump[s] = "closing"
    /\ CloseEnds(Other(s))
    /\ Goto(s, "done")
    /\ UNCHANGED <<inbox, peerVars, told, got, result, buffer, proxy, cancelled>>

----------------------------------------------------------------------------
(***************************************************************************)
(* ProxyAsync and the end of the request.                                  *)
(***************************************************************************)

\* Task.WhenAny
PumpsEndedAll == \A s \in Sides : pump[s] = "done"     \* mutant: Task.WhenAll
PumpsEnded == \E s \in Sides : pump[s] = "done"

FollowingNone(s) == "returned"                          \* mutant: the second close is missing
Following(s) == IF s = "client" THEN "proxmox" ELSE "returned"

ProxyWakes ==
    /\ proxy = "pumping"
    /\ PumpsEnded
    /\ proxy' = "client"
    /\ UNCHANGED <<socket, inbox, peerVars, told, got, pump, result, buffer, cancelled>>

ProxyCloses(s) ==
    /\ proxy = s
    /\ \/ socket[s] = "Open" /\ ~cancelled /\ SendClose(s) /\ proxy' = Await(s)
       \/ /\ \/ socket[s] # "Open" /\ UNCHANGED socket
             \/ socket[s] = "Open" /\ Throws(s)
          /\ proxy' = Following(s)
          /\ UNCHANGED told
    /\ UNCHANGED <<inbox, peerVars, got, pump, result, buffer, cancelled>>

ProxyClosed(s) ==
    /\ proxy = Await(s)
    /\ CloseEnds(s)
    /\ proxy' = Following(s)
    /\ UNCHANGED <<inbox, peerVars, told, got, pump, result, buffer, cancelled>>

\* The handler returns: its using disposes the socket to Proxmox, the end of
\* the request the one to the browser.
Disposed(s) == IF socket[s] = "Closed" THEN "Closed" ELSE "Aborted"

RequestEnds ==
    /\ proxy = "returned"
    /\ proxy' = "ended"
    /\ socket' = [s \in Sides |-> Disposed(s)]
    /\ UNCHANGED <<inbox, peerVars, told, got, pump, result, buffer, cancelled>>

----------------------------------------------------------------------------

PumpStep(s) ==
    \/ PumpChecks(s) \/ PumpReceives(s) \/ PumpReceiveFails(s) \/ PumpSends(s)
    \/ PumpCloses(s) \/ PumpClosed(s)

ProxyStep ==
    \/ ProxyWakes \/ RequestEnds
    \/ \E s \in Sides : ProxyCloses(s) \/ ProxyClosed(s)

PeerStep(s) == PeerSends(s) \/ PeerCloses(s) \/ PeerDrops(s)

Next == ProxyStep \/ \E s \in Sides : PumpStep(s) \/ CloseReads(s) \/ PeerStep(s)

Spec == Init /\ [][Next]_vars

\* The tasks run, and a peer that is there answers a close frame.
Fairness ==
    /\ WF_vars(ProxyStep)
    /\ \A s \in Sides : /\ WF_vars(PumpStep(s))
                        /\ WF_vars(CloseReads(s))
                        /\ WF_vars(s \in told /\ PeerCloses(s))

FairSpec == Spec /\ Fairness

----------------------------------------------------------------------------
(***************************************************************************)
(* Properties.                                                             *)
(***************************************************************************)

SocketState == {"Open", "CloseReceived", "CloseSent", "Closed", "Aborted"}

\* Every variable keeps its type.
TypeOK ==
    /\ socket \in [Sides -> SocketState]
    /\ inbox \in [Sides -> Seq(Data \cup {Close})]
    /\ sent \in [Sides -> 0 .. MaxFrames]
    /\ peer \in [Sides -> {"open", "closed", "gone"}]
    /\ told \subseteq Sides
    /\ got \in [Sides -> Seq([shape : Data, bytes : Data])]
    /\ pump \in [Sides -> {"check", "receive", "send", "close", "closing", "done"}]
    /\ result \in [Sides -> Data \cup {Nothing}]
    /\ buffer \in Data \cup {Nothing}
    /\ proxy \in {"pumping", "returned", "ended"} \cup Sides \cup {Await(s) : s \in Sides}
    /\ cancelled \in BOOLEAN

\* The frames forwarded to a side have, one by one, the shapes of the frames
\* the other side sent: none is lost, repeated or reordered before the end,
\* although both pumps, the closers and the buffer are shared.
FramesInOrder ==
    \A s \in Sides : \A i \in DOMAIN got[Other(s)] :
        got[Other(s)][i].shape = [from |-> s, n |-> i]

\* ProxyAsync returns with a socket that is still open only if closing it could
\* fail: the request was aborted, or the connection is broken. Whichever pump
\* ended first, for whatever reason, and wherever the other one stands.
NoneLeftOpen ==
    proxy = "returned" => \A s \in Sides : socket[s] = "Open" => Broken(s)

\* When one side closes or is lost, the other pump does not keep the request:
\* ProxyAsync returns and the sockets are disposed.
EndsWithPeer == (\E s \in Sides : peer[s] # "open") ~> (proxy = "ended")

\* No pump outlives its connection for ever: the pump ProxyAsync did not wait
\* for ends too.
PumpsEnd == (proxy = "ended") ~> (\A s \in Sides : pump[s] = "done")

\* What arrives is what was sent.
PayloadIntact ==
    \A s \in Sides : \A i \in DOMAIN got[s] : got[s][i].bytes = got[s][i].shape
=============================================================================
