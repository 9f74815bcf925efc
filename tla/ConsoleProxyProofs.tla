------------------------- MODULE ConsoleProxyProofs -------------------------
(***************************************************************************)
(* Proofs about ConsoleProxy, for any number of frames and whichever       *)
(* connection breaks. The frames still to be received are numbered from    *)
(* the next one on for as long as the pump may receive at all; once a      *)
(* closer reads from the socket, it never does so again.                   *)
(***************************************************************************)
EXTENDS ConsoleProxy, TLAPS

Frame(s, n) == [from |-> s, n |-> n]

\* Frames of s received so far: forwarded, or about to be.
Received(s) == Len(got[Other(s)]) + (IF pump[s] = "send" THEN 1 ELSE 0)

\* The pump from s may still receive.
Live(s) == pump[s] = "receive" \/ (pump[s] \in {"check", "send"} /\ socket[s] = "Open")

ToForward(s) == pump[s] = "send" => result[s] = Frame(s, Len(got[Other(s)]) + 1) /\ buffer \in Data

ToReceive(s) ==
    Live(s) =>
        /\ \A j \in DOMAIN inbox[s] : inbox[s][j] \in {Close, Frame(s, Received(s) + j)}
        /\ peer[s] = "open" => sent[s] = Received(s) + Len(inbox[s])

\* The sockets that are open and could be closed.
StillOpen == {s \in Sides : socket[s] = "Open" /\ ~cancelled /\ peer[s] # "gone"}

\* ProxyAsync closes the browser's socket first.
CloseInOrder ==
    /\ proxy \notin {"pumping", "client"} => "client" \notin StillOpen
    /\ proxy \notin {"pumping", "client", "closingClient", "proxmox"} => "proxmox" \notin StillOpen

IInv == TypeOK /\ FramesInOrder /\ CloseInOrder /\ \A s \in Sides : ToForward(s) /\ ToReceive(s)

LEMMA SidesAre ==
    /\ \A s \in Sides : Other(s) \in Sides /\ Other(s) # s /\ Other(Other(s)) = s
    /\ \A s, t \in Sides : t # s => t = Other(s)
  BY DEF Sides, Other

LEMMA FramesAre ==
    /\ Close \notin Data /\ Nothing \notin Data
    /\ \A f \in Data : f.from \in Sides /\ f.n \in 1 .. MaxFrames
    /\ \A s \in Sides, n \in 1 .. MaxFrames : Frame(s, n) \in Data
    /\ \A s, t \in Sides, n, m \in Nat : Frame(s, n) = Frame(t, m) => s = t /\ n = m
    /\ \A s \in Sides, n \in Nat : Frame(s, n) # Close
<1>1. Close.from \notin Sides /\ \A s \in Sides, n \in Nat : Frame(s, n).from = s
    BY DEF Close, Sides, Frame
<1>2. \A s \in Sides, n \in Nat : Frame(s, n) # Close
    BY <1>1
<1>3. \A f \in Data : f.from \in Sides /\ f.n \in 1 .. MaxFrames
    BY DEF Data
<1>4. Close \notin Data /\ Nothing.n = 0
    BY <1>1, <1>3 DEF Nothing
<1>5. Nothing \notin Data
    BY <1>3, <1>4, FrameAssumption
<1>6. \A s \in Sides, n \in 1 .. MaxFrames : Frame(s, n) \in Data
    BY DEF Frame, Data
<1>7. \A s, t \in Sides, n, m \in Nat : Frame(s, n) = Frame(t, m) => s = t /\ n = m
    BY DEF Frame
<1> QED
    BY <1>2, <1>3, <1>4, <1>5, <1>6, <1>7

LEMMA ReceivedType ==
    ASSUME TypeOK, NEW s \in Sides
    PROVE  Len(got[Other(s)]) \in Nat /\ Received(s) \in Nat
<1>1. got[Other(s)] \in Seq([shape : Data, bytes : Data])
    BY SidesAre DEF TypeOK
<1>2. Len(got[Other(s)]) \in Nat
    BY <1>1
<1>3. Received(s) = Len(got[Other(s)]) + 1 \/ Received(s) = Len(got[Other(s)]) + 0
    BY DEF Received
<1> QED
    BY <1>2, <1>3

LEMMA InitInv == Init => IInv
<1> SUFFICES ASSUME Init PROVE IInv
    OBVIOUS
<1>1. TypeOK
  <2>1. /\ inbox \in [Sides -> Seq(Data \cup {Close})]
        /\ got \in [Sides -> Seq([shape : Data, bytes : Data])]
      BY DEF Init
  <2>2. sent \in [Sides -> 0 .. MaxFrames]
      BY FrameAssumption DEF Init
  <2> QED
      BY <2>1, <2>2 DEF Init, TypeOK, SocketState
<1>2. FramesInOrder /\ CloseInOrder
    BY SidesAre DEF Init, FramesInOrder, CloseInOrder
<1>3. \A s \in Sides : ToForward(s) /\ ToReceive(s)
    BY SidesAre DEF Init, ToForward, ToReceive, Received
<1> QED
    BY <1>1, <1>2, <1>3 DEF IInv

\* A step that touches neither the frames nor where the pumps stand, and opens
\* no socket.
LEMMA QuietStep ==
    ASSUME IInv, TypeOK', UNCHANGED <<inbox, peerVars, got, result, buffer>>, CloseInOrder',
           \A s \in Sides : /\ pump'[s] = "send" => pump[s] = "send"
                            /\ Live(s)' => Live(s) /\ (pump[s] = "send" => pump'[s] = "send")
    PROVE  IInv'
<1>1. FramesInOrder'
    BY DEF IInv, FramesInOrder
<1>2. ASSUME NEW s \in Sides PROVE ToForward(s)' /\ ToReceive(s)'
  <2>1. ToForward(s) /\ ToReceive(s)
      BY DEF IInv
  <2>2. Live(s)' => Live(s) /\ Received(s)' = Received(s)
      BY DEF Received
  <2>3. ToForward(s)'
      BY <2>1 DEF ToForward
  <2>4. ToReceive(s)'
      BY <2>1, <2>2 DEF ToReceive, peerVars
  <2> QED
      BY <2>3, <2>4
<1> QED
    BY <1>1, <1>2 DEF IInv

----------------------------------------------------------------------------
(***************************************************************************)
(* The steps that handle frames.                                           *)
(***************************************************************************)

\* Nothing but the socket of s, its frames and its pump take part.
LEMMA OneSide ==
    ASSUME IInv, TypeOK', NEW s \in Sides, UNCHANGED proxy,
           StillOpen' \subseteq StillOpen, \A t \in Sides : socket'[t] = "Open" => socket[t] = "Open",
           \A t \in Sides : t # s =>
                /\ inbox'[t] = inbox[t] /\ sent'[t] = sent[t] /\ peer'[t] = peer[t]
                /\ pump'[t] = pump[t] /\ result'[t] = result[t]
                /\ got'[Other(t)] = got[Other(t)],
           buffer' = buffer \/ buffer' \in Data,
           \A i \in DOMAIN got'[Other(s)] : got'[Other(s)][i].shape = Frame(s, i),
           ToForward(s)', ToReceive(s)'
    PROVE  IInv'
<1>1. FramesInOrder'
  <2>1. ASSUME NEW t \in Sides, NEW i \in DOMAIN got'[Other(t)]
        PROVE  got'[Other(t)][i].shape = [from |-> t, n |-> i]
    <3>1. CASE t = s
        BY <2>1, <3>1 DEF Frame
    <3>2. CASE t # s
      <4>1. got'[Other(t)] = got[Other(t)]
          BY <3>2
      <4> QED
          BY <2>1, <4>1 DEF IInv, FramesInOrder
    <3> QED
        BY <3>1, <3>2
  <2> QED
      BY <2>1 DEF FramesInOrder
<1>2. CloseInOrder'
    BY DEF IInv, CloseInOrder
<1>3. ASSUME NEW t \in Sides, t # s PROVE ToForward(t)' /\ ToReceive(t)'
  <2>1. ToForward(t) /\ ToReceive(t)
      BY DEF IInv
  <2>2. Received(t)' = Received(t)
      BY <1>3 DEF Received
  <2>3. Live(t)' => Live(t)
      BY <1>3 DEF Live
  <2> QED
      BY <1>3, <2>1, <2>2, <2>3 DEF ToForward, ToReceive
<1> QED
    BY <1>1, <1>2, <1>3 DEF IInv

LEMMA SendsInv == ASSUME IInv, NEW s \in Sides, PeerSends(s) PROVE IInv'
<1>1. TypeOK /\ ToForward(s) /\ ToReceive(s)
    BY DEF IInv
<1> DEFINE f == Frame(s, sent[s] + 1)
<1>2. sent[s] \in Nat /\ sent[s] + 1 \in 1 .. MaxFrames /\ f \in Data
    BY <1>1, FramesAre, FrameAssumption DEF PeerSends, TypeOK
<1>3. inbox' = [inbox EXCEPT ![s] = Append(@, f)]
    BY DEF PeerSends, Frame
<1> HIDE DEF f
<1>4. TypeOK'
  <2>1. inbox' \in [Sides -> Seq(Data \cup {Close})]
      BY <1>1, <1>2, <1>3 DEF TypeOK
  <2>2. sent' \in [Sides -> 0 .. MaxFrames]
      BY <1>1, <1>2 DEF TypeOK, PeerSends
  <2> QED
      BY <1>1, <2>1, <2>2 DEF TypeOK, PeerSends
<1>5. Received(s)' = Received(s) /\ Live(s)' = Live(s) /\ ToForward(s)'
    BY <1>1 DEF PeerSends, Received, Live, ToForward
<1>6. ToReceive(s)'
  <2> SUFFICES ASSUME Live(s)
               PROVE  /\ \A j \in DOMAIN inbox'[s] : inbox'[s][j] \in {Close, Frame(s, Received(s) + j)}
                      /\ peer'[s] = "open" => sent'[s] = Received(s) + Len(inbox'[s])
      BY <1>5 DEF ToReceive
  <2>1. /\ inbox[s] \in Seq(Data \cup {Close}) /\ inbox'[s] = Append(inbox[s], f)
        /\ sent'[s] = sent[s] + 1
      BY <1>1, <1>3 DEF TypeOK, PeerSends
  <2>2. sent[s] = Received(s) + Len(inbox[s])
      BY <1>1 DEF ToReceive, PeerSends
  <2>3. Received(s) \in Nat
      BY <1>1, ReceivedType
  <2>4. ASSUME NEW j \in DOMAIN inbox'[s]
        PROVE  inbox'[s][j] \in {Close, Frame(s, Received(s) + j)}
    <3>1. j \in 1 .. Len(inbox[s]) + 1 /\ Len(inbox[s]) \in Nat
        BY <2>1, <2>4, <1>2
    <3>2. CASE j \in 1 .. Len(inbox[s])
        BY <1>1, <1>2, <2>1, <3>2 DEF ToReceive
    <3>3. CASE j = Len(inbox[s]) + 1
      <4>1. inbox'[s][j] = f
          BY <1>2, <2>1, <3>3
      <4>2. sent[s] + 1 = Received(s) + j
          BY <2>2, <2>3, <3>1, <3>3
      <4> QED
          BY <4>1, <4>2 DEF f
    <3> QED
        BY <3>1, <3>2, <3>3
  <2>5. Len(inbox'[s]) = Len(inbox[s]) + 1 /\ Len(inbox[s]) \in Nat
      BY <1>2, <2>1
  <2>6. sent'[s] = Received(s) + Len(inbox'[s])
      BY <1>2, <2>1, <2>2, <2>3, <2>5
  <2> QED
      BY <2>4, <2>6
<1>7. \A t \in Sides : t # s => inbox'[t] = inbox[t] /\ sent'[t] = sent[t]
    BY <1>1, <1>3 DEF PeerSends, TypeOK
<1>8. \A i \in DOMAIN got'[Other(s)] : got'[Other(s)][i].shape = Frame(s, i)
    BY DEF IInv, FramesInOrder, PeerSends, Frame
<1> QED
    BY <1>4, <1>5, <1>6, <1>7, <1>8, OneSide DEF PeerSends, StillOpen

LEMMA PeerClosesInv == ASSUME IInv, NEW s \in Sides, PeerCloses(s) PROVE IInv'
<1>1. TypeOK /\ ToForward(s) /\ ToReceive(s)
    BY DEF IInv
<1>2. inbox[s] \in Seq(Data \cup {Close}) /\ inbox'[s] = Append(inbox[s], Close)
    BY <1>1 DEF TypeOK, PeerCloses
<1>3. TypeOK'
  <2>1. inbox' \in [Sides -> Seq(Data \cup {Close})]
      BY <1>1, <1>2 DEF TypeOK, PeerCloses
  <2> QED
      BY <1>1, <2>1 DEF TypeOK, PeerCloses
<1>4. Received(s)' = Received(s) /\ Live(s)' = Live(s) /\ ToForward(s)'
    BY <1>1 DEF PeerCloses, Received, Live, ToForward
<1>5. ToReceive(s)'
  <2>1. peer'[s] = "closed"
      BY <1>1 DEF PeerCloses, TypeOK
  <2>2. ASSUME Live(s), NEW j \in DOMAIN inbox'[s]
        PROVE  inbox'[s][j] \in {Close, Frame(s, Received(s) + j)}
    <3>1. j \in 1 .. Len(inbox[s]) + 1 /\ Len(inbox[s]) \in Nat
        BY <1>2, <2>2
    <3>2. CASE j \in 1 .. Len(inbox[s])
        BY <1>1, <1>2, <2>2, <3>2 DEF ToReceive
    <3>3. CASE j = Len(inbox[s]) + 1
        BY <1>2, <3>3
    <3> QED
        BY <3>1, <3>2, <3>3
  <2> QED
      BY <1>4, <2>1, <2>2 DEF ToReceive
<1>6. \A t \in Sides : t # s => inbox'[t] = inbox[t] /\ peer'[t] = peer[t]
    BY <1>1 DEF PeerCloses, TypeOK
<1>7. \A i \in DOMAIN got'[Other(s)] : got'[Other(s)][i].shape = Frame(s, i)
    BY DEF IInv, FramesInOrder, PeerCloses, Frame
<1>8. StillOpen' \subseteq StillOpen
    BY <1>1 DEF PeerCloses, StillOpen, TypeOK
<1> QED
    BY <1>3, <1>4, <1>5, <1>6, <1>7, <1>8, OneSide DEF PeerCloses

\* A closer reads only where the pump will not.
LEMMA CloseReadsInv == ASSUME IInv, NEW s \in Sides, CloseReads(s) PROVE IInv'
<1>1. TypeOK /\ ToForward(s) /\ ToReceive(s)
    BY DEF IInv
<1>2. TypeOK'
  <2>1. inbox[s] \in Seq(Data \cup {Close}) /\ inbox[s] # <<>>
      BY <1>1 DEF TypeOK, CloseReads
  <2>2. Tail(inbox[s]) \in Seq(Data \cup {Close})
      BY <2>1
  <2>3. inbox' \in [Sides -> Seq(Data \cup {Close})]
      BY <1>1, <2>2 DEF TypeOK, CloseReads
  <2>4. socket' \in [Sides -> SocketState]
      BY <1>1 DEF TypeOK, CloseReads, SocketState
  <2> QED
      BY <1>1, <2>3, <2>4 DEF TypeOK, CloseReads, peerVars
<1>3. ~Live(s)' /\ ToForward(s)'
    BY <1>1 DEF CloseReads, Live, ToForward, TypeOK
<1>4. ToReceive(s)'
    BY <1>3 DEF ToReceive
<1>5. /\ \A t \in Sides : socket'[t] = "Open" => socket[t] = "Open"
      /\ \A t \in Sides : t # s => inbox'[t] = inbox[t]
    BY <1>1 DEF CloseReads, TypeOK
<1>6. \A i \in DOMAIN got'[Other(s)] : got'[Other(s)][i].shape = Frame(s, i)
    BY DEF IInv, FramesInOrder, CloseReads, Frame
<1> QED
    BY <1>2, <1>3, <1>4, <1>5, <1>6, OneSide DEF CloseReads, peerVars, StillOpen

\* What is left to receive is numbered from one later.
LEMMA ReceivesInv == ASSUME IInv, NEW s \in Sides, PumpReceives(s) PROVE IInv'
<1> DEFINE q == inbox[s]
           f == Head(q)
<1>1. TypeOK /\ ToForward(s) /\ ToReceive(s) /\ pump[s] = "receive"
    BY DEF IInv, PumpReceives
<1>2. /\ q \in Seq(Data \cup {Close}) /\ q # <<>> /\ inbox'[s] = Tail(q)
      /\ inbox' = [inbox EXCEPT ![s] = Tail(q)]
    BY <1>1 DEF PumpReceives, TypeOK
<1>3. /\ Tail(q) \in Seq(Data \cup {Close}) /\ f \in Data \cup {Close} /\ f = q[1] /\ 1 \in DOMAIN q
      /\ Len(q) \in Nat /\ Len(Tail(q)) = Len(q) - 1
      /\ \A j \in DOMAIN Tail(q) : j \in Nat /\ j + 1 \in DOMAIN q /\ Tail(q)[j] = q[j + 1]
    BY <1>2
<1>4. Len(got[Other(s)]) \in Nat /\ Received(s) = Len(got[Other(s)])
    BY <1>1, ReceivedType DEF Received
<1>5. /\ \A j \in DOMAIN q : q[j] \in {Close, Frame(s, Received(s) + j)}
      /\ peer[s] = "open" => sent[s] = Received(s) + Len(q)
    BY <1>1 DEF ToReceive, Live
<1>6. \A i \in DOMAIN got'[Other(s)] : got'[Other(s)][i].shape = Frame(s, i)
    BY DEF IInv, FramesInOrder, PumpReceives, Frame
<1> HIDE DEF q, f
<1>7. CASE f # Close
  <2>1. /\ f \in Data /\ buffer' = f /\ result' = [result EXCEPT ![s] = f]
        /\ pump' = [pump EXCEPT ![s] = "send"] /\ UNCHANGED socket
      BY <1>3, <1>7 DEF PumpReceives, IsClose, Goto, f, q
  <2>2. TypeOK'
    <3>1. inbox' \in [Sides -> Seq(Data \cup {Close})]
        BY <1>1, <1>2, <1>3 DEF TypeOK
    <3>2. /\ result' \in [Sides -> Data \cup {Nothing}]
          /\ pump' \in [Sides -> {"check", "receive", "send", "close", "closing", "done"}]
        BY <1>1, <2>1 DEF TypeOK
    <3> QED
        BY <1>1, <2>1, <3>1, <3>2 DEF TypeOK, PumpReceives, peerVars
  <2>3. f = Frame(s, Received(s) + 1)
      BY <1>3, <1>5, <1>7
  <2>4. result'[s] = f /\ pump'[s] = "send" /\ got' = got
      BY <1>1, <2>1 DEF TypeOK, PumpReceives
  <2>5. ToForward(s)'
      BY <1>4, <2>1, <2>3, <2>4 DEF ToForward
  <2>6. Received(s)' = Received(s) + 1
      BY <1>4, <2>4 DEF Received
  <2>7. ToReceive(s)'
    <3>1. ASSUME NEW j \in DOMAIN Tail(q)
          PROVE  Tail(q)[j] \in {Close, Frame(s, Received(s)' + j)}
      <4>1. Received(s) + (j + 1) = Received(s)' + j
        <5>1. j \in Nat /\ Received(s) \in Nat
            BY <1>3, <1>4
        <5> QED
            BY <2>6, <5>1
      <4>2. Tail(q)[j] = q[j + 1] /\ j + 1 \in DOMAIN q
          BY <1>3
      <4>3. q[j + 1] \in {Close, Frame(s, Received(s) + (j + 1))}
          BY <1>5, <4>2
      <4> QED
          BY <4>1, <4>2, <4>3
    <3>2. peer[s] = "open" => sent[s] = Received(s)' + Len(Tail(q))
        BY <1>3, <1>4, <1>5, <2>6
    <3>3. UNCHANGED <<peer, sent>>
        BY DEF PumpReceives, peerVars
    <3> QED
        BY <1>2, <3>1, <3>2, <3>3 DEF ToReceive
  <2>8. \A t \in Sides : t # s => /\ inbox'[t] = inbox[t] /\ pump'[t] = pump[t]
                                  /\ result'[t] = result[t]
      BY <1>1, <1>2, <2>1 DEF TypeOK
  <2> QED
      BY <1>6, <2>1, <2>2, <2>5, <2>7, <2>8, OneSide DEF PumpReceives, peerVars, StillOpen
<1>8. CASE f = Close
  <2>1. /\ socket' = [socket EXCEPT ![s] = IF @ = "Open" THEN "CloseReceived" ELSE "Closed"]
        /\ pump' = [pump EXCEPT ![s] = "close"] /\ UNCHANGED <<buffer, result>>
      BY <1>8 DEF PumpReceives, IsClose, Goto, f, q
  <2>2. TypeOK'
    <3>1. inbox' \in [Sides -> Seq(Data \cup {Close})]
        BY <1>1, <1>2, <1>3 DEF TypeOK
    <3>2. /\ socket' \in [Sides -> SocketState]
          /\ pump' \in [Sides -> {"check", "receive", "send", "close", "closing", "done"}]
        BY <1>1, <2>1 DEF TypeOK, SocketState
    <3> QED
        BY <1>1, <2>1, <3>1, <3>2 DEF TypeOK, PumpReceives, peerVars
  <2>3. pump'[s] = "close"
      BY <1>1, <2>1 DEF TypeOK
  <2>4. ToForward(s)' /\ ToReceive(s)'
      BY <2>3 DEF ToForward, ToReceive, Live
  <2>5. /\ \A t \in Sides : t # s => inbox'[t] = inbox[t] /\ pump'[t] = pump[t]
        /\ \A t \in Sides : socket'[t] = "Open" => socket[t] = "Open"
      BY <1>1, <1>2, <2>1 DEF TypeOK
  <2> QED
      BY <1>6, <2>1, <2>2, <2>4, <2>5, OneSide DEF PumpReceives, peerVars, StillOpen
<1> QED
    BY <1>7, <1>8

LEMMA ForwardsInv == ASSUME IInv, NEW s \in Sides, PumpSends(s) PROVE IInv'
<1> DEFINE d == Other(s)
           g == got[d]
           o == Outgoing(s)
<1>1. /\ TypeOK /\ ToForward(s) /\ ToReceive(s) /\ pump[s] = "send"
      /\ d \in Sides
    BY SidesAre DEF IInv, PumpSends
<1>2. /\ g \in Seq([shape : Data, bytes : Data]) /\ Len(g) \in Nat
      /\ result[s] = Frame(s, Len(g) + 1) /\ buffer \in Data
    BY <1>1, ReceivedType DEF ToForward, TypeOK
<1>3. result[s] \in Data
  <2>1. result[s] \in Data \cup {Nothing}
      BY <1>1 DEF TypeOK
  <2>2. result[s].n = Len(g) + 1 /\ Nothing.n = 0
      BY <1>2 DEF Frame, Nothing
  <2> HIDE DEF g
  <2>3. result[s].n # 0
      BY <1>2, <2>2
  <2> QED
      BY <2>1, <2>2, <2>3
<1>4. o \in [shape : Data, bytes : Data] /\ o.shape = Frame(s, Len(g) + 1)
    BY <1>2, <1>3 DEF Outgoing
<1> HIDE DEF o
<1>5. UNCHANGED <<inbox, sent, peer, result, buffer, proxy, told, cancelled>>
    BY DEF PumpSends, peerVars
<1>6. \A i \in DOMAIN g : g[i].shape = Frame(s, i)
    BY DEF IInv, FramesInOrder, Frame
<1>7. CASE /\ got' = [got EXCEPT ![d] = Append(g, o)] /\ pump' = [pump EXCEPT ![s] = "check"]
           /\ UNCHANGED socket
  <2>1. TypeOK'
    <3>1. got' \in [Sides -> Seq([shape : Data, bytes : Data])]
      <4>1. Append(g, o) \in Seq([shape : Data, bytes : Data])
          BY <1>2, <1>4
      <4> HIDE DEF g
      <4> QED
          BY <1>1, <1>7, <4>1 DEF TypeOK
    <3>2. pump' \in [Sides -> {"check", "receive", "send", "close", "closing", "done"}]
        BY <1>1, <1>7 DEF TypeOK
    <3> QED
        BY <1>1, <1>5, <1>7, <3>1, <3>2 DEF TypeOK
  <2>2. got'[d] = Append(g, o) /\ pump'[s] = "check"
      BY <1>1, <1>7 DEF TypeOK
  <2> HIDE DEF g
  <2>3. ASSUME NEW i \in DOMAIN got'[d] PROVE got'[d][i].shape = Frame(s, i)
    <3>1. i \in 1 .. Len(g) + 1
        BY <1>2, <1>4, <2>2, <2>3
    <3>2. CASE i \in 1 .. Len(g)
        BY <1>2, <1>4, <1>6, <2>2, <3>2
    <3>3. CASE i = Len(g) + 1
        BY <1>2, <1>4, <2>2, <3>3
    <3> QED
        BY <1>2, <3>1, <3>2, <3>3
  <2>4. Len(got'[d]) = Len(g) + 1
      BY <1>2, <1>4, <2>2
  <2>5. Received(s)' = Received(s)
    <3>1. Received(s) = Len(g) + 1
        BY <1>1 DEF Received, g
    <3>2. Received(s)' = Len(got'[d]) + 0
        BY <2>2 DEF Received
    <3> QED
        BY <1>2, <2>4, <3>1, <3>2
  <2>6. ToForward(s)'
      BY <2>2 DEF ToForward
  <2>7. Live(s)' => Live(s)
      BY <1>1, <1>5, <1>7, <2>2 DEF Live
  <2>8. ToReceive(s)'
      BY <1>1, <1>5, <2>5, <2>7 DEF ToReceive
  <2>9. \A t \in Sides : t # s => pump'[t] = pump[t] /\ got'[Other(t)] = got[Other(t)]
      BY <1>1, <1>7, SidesAre DEF TypeOK
  <2>10. socket' = socket /\ StillOpen' = StillOpen
      BY <1>5, <1>7 DEF StillOpen
  <2> QED
      BY <1>5, <2>1, <2>3, <2>6, <2>8, <2>9, <2>10, OneSide
<1>8. CASE got' = got /\ pump' = [pump EXCEPT ![s] = "done"] /\ Fails(d, {"Open", "CloseReceived"})
  <2>0. /\ socket' \in [Sides -> SocketState]
        /\ \A t \in Sides : socket'[t] = "Open" => socket[t] = "Open"
      BY <1>1, <1>8 DEF TypeOK, Fails, Throws, SocketState
  <2>4. StillOpen' \subseteq StillOpen
      BY <1>5, <2>0 DEF StillOpen
  <2>1. TypeOK' /\ pump'[s] = "done"
      BY <1>1, <1>5, <1>8, <2>0 DEF TypeOK
  <2>2. ToForward(s)' /\ ToReceive(s)'
      BY <2>1 DEF ToForward, ToReceive, Live
  <2>3. \A t \in Sides : t # s => pump'[t] = pump[t]
      BY <1>1, <1>8 DEF TypeOK
  <2> QED
      BY <1>5, <1>6, <1>8, <2>0, <2>1, <2>2, <2>3, <2>4, OneSide
<1> QED
    BY <1>1, <1>7, <1>8 DEF PumpSends, Goto, o

----------------------------------------------------------------------------
(***************************************************************************)
(* The steps that close sockets.                                           *)
(***************************************************************************)

LEMMA AwaitIs ==
    /\ Await("client") = "closingClient" /\ Await("proxmox") = "closingProxmox"
    /\ Following("client") = "proxmox" /\ Following("proxmox") = "returned"
    /\ \A s \in Sides : s = "client" \/ s = "proxmox"
  BY DEF Await, Following, Sides

\* Pumps that check, fail or close, and connections that break.
LEMMA PumpQuiet ==
    ASSUME IInv, NEW s \in Sides,
           PeerDrops(s) \/ PumpChecks(s) \/ PumpReceiveFails(s) \/ PumpCloses(s) \/ PumpClosed(s)
    PROVE  IInv'
<1> DEFINE pumps == {"check", "receive", "send", "close", "closing", "done"}
<1>1. TypeOK /\ Other(s) \in Sides
    BY SidesAre DEF IInv
<1>2. UNCHANGED <<inbox, sent, got, result, buffer, proxy>>
    BY DEF PeerDrops, PumpChecks, PumpReceiveFails, PumpCloses, PumpClosed, peerVars
<1>3. \/ socket' = socket
      \/ \E t \in Sides, v \in SocketState \ {"Open"} : socket' = [socket EXCEPT ![t] = v]
    BY <1>1 DEF PeerDrops, PumpChecks, PumpReceiveFails, PumpCloses, PumpClosed, CloseEnds,
                Fails, Throws, SendClose, SocketState
<1>4. socket' \in [Sides -> SocketState] /\ \A t \in Sides : socket'[t] = "Open" => socket[t] = "Open"
    BY <1>1, <1>3 DEF TypeOK
<1>12. (cancelled => cancelled') /\ \A t \in Sides : peer[t] = "gone" => peer'[t] = "gone"
    BY <1>1 DEF PeerDrops, PumpChecks, PumpReceiveFails, PumpCloses, PumpClosed, peerVars, TypeOK
<1>5. \/ pump' = pump
      \/ \E v \in pumps \ {"check", "send"} :
            /\ pump' = [pump EXCEPT ![s] = v]
            /\ v = "receive" => pump[s] = "check" /\ \A t \in Sides : socket[t] = "Open"
    BY DEF PeerDrops, PumpChecks, PumpReceiveFails, PumpCloses, PumpClosed, Goto, BreakOff
<1>6. pump' \in [Sides -> pumps]
    BY <1>1, <1>5 DEF TypeOK
<1>7. peer' \in [Sides -> {"open", "closed", "gone"}] /\ told' \subseteq Sides /\ cancelled' \in BOOLEAN
    BY <1>1 DEF PeerDrops, PumpChecks, PumpReceiveFails, PumpCloses, PumpClosed, SendClose, peerVars, TypeOK
<1>8. TypeOK'
    BY <1>1, <1>2, <1>4, <1>6, <1>7 DEF TypeOK
<1>9. CloseInOrder'
    BY <1>2, <1>4, <1>12 DEF IInv, CloseInOrder, StillOpen
<1>10. FramesInOrder'
    BY <1>2 DEF IInv, FramesInOrder
<1>11. ASSUME NEW t \in Sides PROVE ToForward(t)' /\ ToReceive(t)'
  <2>1. ToForward(t) /\ ToReceive(t)
      BY DEF IInv
  <2>2. pump'[t] = "send" => pump[t] = "send"
      BY <1>1, <1>5 DEF TypeOK
  <2>3. Live(t)' => Live(t) /\ (pump[t] = "send" => pump'[t] = "send")
      BY <1>1, <1>4, <1>5 DEF TypeOK, Live
  <2>4. Live(t)' => Received(t)' = Received(t)
      BY <1>2, <2>2, <2>3 DEF Received
  <2>5. peer'[t] = "open" => peer[t] = "open"
      BY <1>1 DEF PeerDrops, PumpChecks, PumpReceiveFails, PumpCloses, PumpClosed, peerVars, TypeOK
  <2>6. ToForward(t)'
      BY <1>2, <2>1, <2>2 DEF ToForward
  <2>7. ToReceive(t)'
      BY <1>2, <2>1, <2>3, <2>4, <2>5 DEF ToReceive
  <2> QED
      BY <2>6, <2>7
<1> QED
    BY <1>8, <1>9, <1>10, <1>11 DEF IInv

LEMMA ProxyQuiet ==
    ASSUME IInv, ProxyStep
    PROVE  IInv'
<1>1. TypeOK /\ CloseInOrder
    BY DEF IInv
<1>2. UNCHANGED <<inbox, peerVars, got, pump, result, buffer, cancelled>>
    BY DEF ProxyStep, ProxyWakes, RequestEnds, ProxyCloses, ProxyClosed
<1>3. /\ socket' \in [Sides -> SocketState]
      /\ \A t \in Sides : socket'[t] = "Open" => socket[t] = "Open"
    BY <1>1 DEF ProxyStep, ProxyWakes, RequestEnds, ProxyCloses, ProxyClosed, SendClose,
                CloseEnds, Fails, Throws, Disposed, TypeOK, SocketState
<1>4. told' \subseteq Sides
    BY <1>1 DEF ProxyStep, ProxyWakes, RequestEnds, ProxyCloses, ProxyClosed, SendClose, TypeOK
<1>5. proxy' \in {"pumping", "returned", "ended"} \cup Sides \cup {Await(s) : s \in Sides}
    BY AwaitIs DEF ProxyStep, ProxyWakes, RequestEnds, ProxyCloses, ProxyClosed, Sides
<1>6. TypeOK'
    BY <1>1, <1>2, <1>3, <1>4, <1>5 DEF TypeOK, peerVars
<1>7. CloseInOrder'
  <2>0. StillOpen' \subseteq StillOpen
      BY <1>2, <1>3 DEF StillOpen, peerVars
  <2>1. CASE ProxyWakes
      BY <2>1 DEF ProxyWakes, CloseInOrder
  <2>2. CASE RequestEnds
    <3>1. proxy = "returned"
        BY <2>2 DEF RequestEnds
    <3> QED
        BY <1>1, <2>0, <3>1 DEF CloseInOrder
  <2>3. ASSUME NEW s \in Sides, ProxyCloses(s) PROVE CloseInOrder'
    <3>1. proxy = s /\ proxy' \in {Await(s), Following(s)}
        BY <2>3 DEF ProxyCloses
    <3>2. s \notin StillOpen'
        BY <1>1, <1>2, <2>3 DEF ProxyCloses, SendClose, Throws, Broken, StillOpen, TypeOK, peerVars
    <3> QED
        BY <1>1, <2>0, <3>1, <3>2, AwaitIs DEF CloseInOrder
  <2>4. ASSUME NEW s \in Sides, ProxyClosed(s) PROVE CloseInOrder'
    <3>1. proxy = Await(s) /\ proxy' = Following(s)
        BY <2>4 DEF ProxyClosed
    <3> QED
        BY <1>1, <2>0, <3>1, AwaitIs DEF CloseInOrder
  <2> QED
      BY <2>1, <2>2, <2>3, <2>4 DEF ProxyStep
<1>8. ASSUME NEW s \in Sides
      PROVE  /\ pump'[s] = "send" => pump[s] = "send"
             /\ Live(s)' => Live(s) /\ (pump[s] = "send" => pump'[s] = "send")
    BY <1>2, <1>3 DEF Live
<1> QED
    BY <1>2, <1>6, <1>7, <1>8, QuietStep

LEMMA NextInv == IInv /\ [Next]_vars => IInv'
<1> SUFFICES ASSUME IInv, [Next]_vars PROVE IInv'
    OBVIOUS
<1>1. CASE ProxyStep
    BY <1>1, ProxyQuiet
<1>2. ASSUME NEW s \in Sides, PumpStep(s) PROVE IInv'
    BY <1>2, PumpQuiet, ReceivesInv, ForwardsInv DEF PumpStep
<1>3. ASSUME NEW s \in Sides, CloseReads(s) PROVE IInv'
    BY <1>3, CloseReadsInv
<1>4. ASSUME NEW s \in Sides, PeerStep(s) PROVE IInv'
    BY <1>4, SendsInv, PeerClosesInv, PumpQuiet DEF PeerStep
<1>5. CASE UNCHANGED vars
  <2>1. UNCHANGED <<inbox, peerVars, got, result, buffer>>
      BY <1>5 DEF vars
  <2>2. TypeOK' /\ CloseInOrder'
      BY <1>5 DEF vars, peerVars, IInv, TypeOK, CloseInOrder, StillOpen
  <2>3. \A s \in Sides : /\ pump'[s] = "send" => pump[s] = "send"
                         /\ Live(s)' => Live(s) /\ (pump[s] = "send" => pump'[s] = "send")
      BY <1>5 DEF vars, Live
  <2> QED
      BY <2>1, <2>2, <2>3, QuietStep
<1> QED
    BY <1>1, <1>2, <1>3, <1>4, <1>5 DEF Next

LEMMA Invariance == Spec => []IInv
<1> QED
    BY InitInv, NextInv, PTL DEF Spec

\* Every variable keeps its type, whatever the pumps and closers do.
THEOREM TypeCorrect == Spec => []TypeOK
<1>1. IInv => TypeOK
    BY DEF IInv
<1> QED
    BY Invariance, <1>1, PTL

\* The frames forwarded are those that were sent, in their order, from the
\* first on: both pumps, the closers and the buffer notwithstanding.
THEOREM InOrder == Spec => []FramesInOrder
<1>1. IInv => FramesInOrder
    BY DEF IInv
<1> QED
    BY Invariance, <1>1, PTL

\* When ProxyAsync returns, a socket is still open only if the request was
\* aborted or its connection is broken, so that closing it could fail.
THEOREM AllClosed == Spec => []NoneLeftOpen
<1>1. IInv => NoneLeftOpen
    BY DEF IInv, CloseInOrder, StillOpen, Broken, NoneLeftOpen, Sides
<1> QED
    BY Invariance, <1>1, PTL
=============================================================================
