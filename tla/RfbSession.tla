----------------------------- MODULE RfbSession -----------------------------
(***************************************************************************)
(* RFB from its constructor to its "disconnect" event: the life of one     *)
(* console connection, the RFB handshake with every kind of authentication *)
(* and the ways it ends.                                                   *)
(*                                                                         *)
(* `c` is the RFB object with its Websock, and each handler is a function  *)
(* from c to the next c; c.go is what the handler returned, so while it is *)
(* TRUE the loop of _handleMessage goes round. Nothing else runs then. Data *)
(* is what the code waits for in one piece: a token. The network delivers  *)
(* any number of tokens at once, so a handler meets every partial message. *)
(*                                                                         *)
(* The server is honest: it speaks the protocol, with what it offers and   *)
(* how it decides taken from Servers. The application (vnc_lite.html or    *)
(* app/ui.js) answers what RFB asks, and may disconnect at any time, inside *)
(* its handler of an event too.                                            *)
(***************************************************************************)
EXTENDS Naturals, Sequences, SequencesExt

CONSTANTS
    Servers,     \* what a server may be like, see ServersAssumption
    Given,       \* the credentials the application may start with
    Quits        \* the events on which the application may disconnect at once

Fields == {"username", "password", "target"}
Versions == {"3.3", "3.7", "3.8", "bad"}
Schemes == {"None", "VNCAuth", "RA2ne", "Tight", "VeNCrypt", "XVP", "ARD", "MSLogonII", "Plain"}
Types == Schemes \cup {"unknown"}
SubTypes == {"STDVNOAUTH", "STDVVNCAUTH", "TGHTULGNAUTH", "unknown"}
Requests == {"credentialsrequired", "serververification"}
Answers == {{"password"}, Fields}         \* vnc_lite.html only asks for a password
Events == Requests \cup {"securityfailure", "desktopname", "connect", "disconnect"}

ASSUME ServersAssumption ==
    Servers \subseteq [version : Versions, repeater : BOOLEAN,
                       types : Seq(Types),       \* in its order of preference
                       tunnels : {"none", "notunnel", "siemens", "other"}, subs : Seq(SubTypes),
                       ven : {"ok", "other", "failed"},  \* VeNCrypt 0.2, another version, 0.2 refused
                       venTypes : Seq(Types),
                       ra2 : {"user", "password"},       \* what an RA2 server asks for
                       accepts : BOOLEAN, explains : BOOLEAN, tight : {FALSE}]
\* Before version 3.8 no verdict follows "None": a server that offers it accepts.
ASSUME NoneIsAccepted ==
    \A server \in Servers :
      server.version # "3.8" /\ (Contains(server.types, "None") \/ Contains(server.venTypes, "None"))
        => server.accepts
ASSUME GivenAssumption == Given \subseteq SUBSET Fields
ASSUME QuitsAssumption == Quits \subseteq Events \cup {"none"}

VARIABLES
    quits,       \* the event on which the application disconnects
    peer,        \* the server
    wire,        \* tokens on their way to the client
    c            \* the client, see Init

vars == <<quits, peer, wire, c>>

\* Tokens: a field of kind k, that holds the number n or the value v. What is
\* not set, and the empty string, is "none".
T(k) == [k |-> k, n |-> 0, v |-> "none"]
N(k, n) == [k |-> k, n |-> n, v |-> "none"]
V(k, v) == [k |-> k, n |-> 0, v |-> v]
FieldKinds == {"version", "types", "type", "scheme", "length", "reason", "challenge", "dh",
               "generator", "keys", "keylength", "key", "randlength", "rand", "hash",
               "ra2subtype", "venversion", "venack", "subtypes", "subtype", "tunnels", "tunnel",
               "subs", "sub", "result", "size", "name", "tightinit", "tightcaps", "update"}
Values == Versions \cup Types \cup SubTypes
             \cup {"repeater", "notunnel", "siemens", "other", "0", "ok", "failed", "none", "user", "password"}
Tokens == [k : FieldKinds, n : Nat, v : Values]

\* The server speaks first.
Greeting(server, repeater) == <<V("version", IF repeater THEN "repeater" ELSE server.version)>>

InitStates == {"none", "ProtocolVersion", "Security", "Authentication", "SecurityResult",
               "SecurityReason", "ClientInitialisation", "ServerInitialisation"}
Waiting == {"len", "key", "verify", "rand", "hash", "sub", "creds", "creds2"}
Crypto == {"import", "gen", "decrypt", "garbled", "checkhash", "receive", "receive2", "make"}

Init ==
    /\ quits \in Quits
    /\ peer \in Servers
    /\ wire = Greeting(peer, peer.repeater)
    /\ \E creds \in Given, open \in BOOLEAN :       \* a raw channel may be open already
         c = [conn |-> "connecting",                \* _rfbConnectionState
              init |-> IF open THEN "ProtocolVersion" ELSE "none",
              version |-> "none",
              scheme |-> "none",                    \* _rfbAuthScheme
              tight |-> FALSE,                      \* _rfbTightVNC
              ven |-> 0, venLength |-> 0,           \* _rfbVeNCryptState
              ard |-> "none",                       \* the ARD answer: "crypto", "ready"
              ra2 |-> "none",                       \* which await the RA2 negotiation is at
              creds |-> creds,
              grabbed |-> FALSE,                    \* the keyboard
              attached |-> TRUE,                    \* the other handlers of _connect
              timer |-> FALSE,                      \* _disconnTimer
              resumes |-> 0,                        \* timers of _resumeAuthentication
              go |-> FALSE,
              chan |-> IF open THEN "open" ELSE "connecting",
              on |-> {"open", "message", "close"},  \* Websock's event handlers
              listening |-> TRUE,                   \* the channel's onmessage is set
              q |-> <<>>, out |-> <<>>,             \* receive queue; messages sent
              asked |-> FALSE,                      \* the application owes an answer
              seen |-> <<>>,                        \* events that are no requests
              clean |-> TRUE,                       \* _rfbCleanDisconnect
              late |-> {},                          \* events after "disconnect"
              why |-> "none",                       \* what made it fail first
              inStep |-> TRUE]                      \* every field was read as what it is

----------------------------------------------------------------------------
(***************************************************************************)
(* The connection state, and the events the application sees.              *)
(***************************************************************************)

\* _disconnect: nothing reaches the client any more but the channel's close.
Detach(s) ==
    [s EXCEPT !.grabbed = FALSE, !.attached = FALSE, !.listening = FALSE,
              !.chan = IF @ \in {"connecting", "open"} THEN "closing" ELSE @]

Disconnecting(s) ==
    IF s.conn \notin {"connecting", "connected"} THEN s
    ELSE [Detach(s) EXCEPT !.conn = "disconnecting", !.timer = TRUE]

\* The RA2 negotiation ends, well or not, and always leaves this state.
EndRA2(s) == [s EXCEPT !.ra2 = "none", !.init = "SecurityResult"]

Disconnect(s) ==
    LET t == [Disconnecting(s) EXCEPT !.on = @ \ {"open", "message"}]
    IN IF t.ra2 \in Waiting THEN EndRA2(t) ELSE t

Dispatch(s, event) ==
    LET t == [s EXCEPT
                !.seen = IF event \in Requests \cup {"desktopname"} THEN @ ELSE Append(@, event),
                !.late = IF Contains(s.seen, "disconnect") THEN @ \cup {event} ELSE @,
                !.asked = @ \/ event \in Requests]
    IN IF event = quits THEN Disconnect(t) ELSE t

\* mutant: a connection that is being closed may still come up
ConnectedAnyway(s) == Dispatch([s EXCEPT !.conn = "connected"], "connect")
Connected(s) ==
    IF s.conn # "connecting" THEN s ELSE Dispatch([s EXCEPT !.conn = "connected"], "connect")

Disconnected(s) ==
    IF s.conn # "disconnecting" THEN s
    ELSE Dispatch([s EXCEPT !.conn = "disconnected", !.timer = FALSE,
                            !.on = IF s.timer THEN @ \ {"close"} ELSE @], "disconnect")

Fail(s, why) ==
    LET t == [s EXCEPT !.go = FALSE, !.clean = FALSE,
                       !.why = IF s.conn \in {"connecting", "connected"} THEN why ELSE @]
    IN Disconnected(Disconnecting(t))

SocketOpen(s) ==
    IF s.conn = "connecting" /\ s.init = "none" THEN [s EXCEPT !.init = "ProtocolVersion"]
    ELSE Fail(s, "reopened")

SocketClose(s) ==
    LET t == CASE s.conn = "connected" -> Disconnected(Disconnecting(s))
               [] s.conn = "disconnecting" -> Disconnected(s)
               [] OTHER -> Fail(s, "closed")
    IN [t EXCEPT !.on = @ \ {"close"}]

----------------------------------------------------------------------------
(***************************************************************************)
(* Reading and writing.                                                    *)
(***************************************************************************)

Waits(s, n) == Len(s.q) < n               \* rQwait; going back leaves the queue as it was
Read(s, kinds) ==
    [s EXCEPT !.q = SubSeq(@, Len(kinds) + 1, Len(@)),
              !.inStep = @ /\ \A i \in 1 .. Len(kinds) : s.q[i].k = kinds[i]]
ReadList(s, count, item) == Read(s, <<count>> \o [i \in 1 .. s.q[1].n |-> item])
List(s) == {s.q[i].v : i \in 2 .. 1 + s.q[1].n}

Send(s, m, v) == IF s.chan = "open" THEN [s EXCEPT !.out = Append(@, [m |-> m, v |-> v])] ELSE s

Go(s, init) == [s EXCEPT !.go = TRUE, !.init = init]
Stop(s) == [s EXCEPT !.go = FALSE]
Ask(s) == Stop(Dispatch(s, "credentialsrequired"))

\* The first of a list that is one of a set.
FirstOf(list, set) ==
    LET known == {i \in 1 .. Len(list) : list[i] \in set}
    IN IF known = {} THEN "none" ELSE list[CHOOSE i \in known : \A j \in known : i <= j]

\* The first type of a list that the client supports.
Chosen(types) == FirstOf(types, Schemes)
ListSeq(s) == [i \in 1 .. s.q[1].n |-> s.q[1 + i].v]

----------------------------------------------------------------------------
(***************************************************************************)
(* Version and security type.                                              *)
(***************************************************************************)

NegotiateProtocolVersion(s) ==
    LET version == Head(s.q).v
        t == Read(s, <<"version">>)
    IN CASE Waits(s, 1) -> Stop(s)
         [] ~Waits(s, 1) /\ version = "repeater" -> Go(Send(t, "repeaterID", "none"), s.init)
         [] ~Waits(s, 1) /\ version = "bad" -> Fail(t, "version")
         [] OTHER -> Stop([Send(t, "version", "none") EXCEPT !.version = version, !.init = "Security"])

\* mutant: the count is not given back when the list is not complete
NegotiateSecurityNoBack(s) ==
    IF ~Waits(s, 1) /\ Waits(s, 1 + s.q[1].n) THEN Stop(Read(s, <<s.q[1].k>>))
    ELSE IF Waits(s, 1) THEN Stop(s)
    ELSE Go([Send(ReadList(s, "types", "type"), "type", Chosen(ListSeq(s))) EXCEPT
               !.scheme = Chosen(ListSeq(s))], "Authentication")
NegotiateSecurity(s) ==
    IF s.version # "3.3"
    THEN LET n == s.q[1].n
             type == Chosen(ListSeq(s))
             t == ReadList(s, "types", "type")
         IN CASE Waits(s, 1) -> Stop(s)
              [] ~Waits(s, 1) /\ Waits(s, 1 + n) -> Stop(s)
              [] ~Waits(s, 1) /\ n = 0 -> Go(Read(s, <<"types">>), "SecurityReason")
              [] ~Waits(s, 1) /\ n # 0 /\ ~Waits(s, 1 + n) /\ type = "none" -> Fail(t, "unsupported")
              [] OTHER -> Go([Send(t, "type", type) EXCEPT !.scheme = type], "Authentication")
    ELSE LET type == Head(s.q).v
             t == Read(s, <<"scheme">>)
         IN CASE Waits(s, 1) -> Stop(s)
              [] ~Waits(s, 1) /\ type = "0" -> Go(t, "SecurityReason")
              [] OTHER -> Go([t EXCEPT !.scheme = type], "Authentication")

HandleSecurityReason(s) ==
    LET n == IF s.q[1].n = 0 THEN 1 ELSE 2
    IN IF Waits(s, 1) \/ Waits(s, n) THEN Stop(s)
       ELSE Fail(Dispatch(Read(s, SubSeq(<<"length", "reason">>, 1, n)), "securityfailure"), "refused")

----------------------------------------------------------------------------
(***************************************************************************)
(* Authentication. What it lacks it asks for; the answer resumes it.       *)
(***************************************************************************)

UserPassword == {"username", "password"}
Lacks(s, fields) == ~(fields \subseteq s.creds)

\* All that is left is to send the credentials and read the verdict.
Answered(s) == Go(Send(s, "creds", "none"), "SecurityResult")
NegotiatePlainAuth(s) == IF Lacks(s, UserPassword) THEN Ask(s) ELSE Answered(s)
NegotiateTightUnixAuth(s) == IF Lacks(s, UserPassword) THEN Ask(s) ELSE Answered(s)

\* mutant: the challenge is taken off the queue before there is a password
NegotiateStdVNCAuthEarly(s) ==
    IF Waits(s, 1) THEN Stop(s)
    ELSE LET t == Read(s, <<"challenge">>)
         IN IF Lacks(s, {"password"}) THEN Ask(t) ELSE Answered(t)
NegotiateStdVNCAuth(s) ==
    CASE Waits(s, 1) -> Stop(s)
      [] ~Waits(s, 1) /\ Lacks(s, {"password"}) -> Ask(s)
      [] OTHER -> Answered(Read(s, <<"challenge">>))

NegotiateXvpAuth(s) ==
    IF Lacks(s, Fields) THEN Ask(s)
    ELSE NegotiateStdVNCAuth([Send(s, "user", "none") EXCEPT !.scheme = "VNCAuth"])

NegotiateMSLogonIIAuth(s) ==
    CASE Waits(s, 1) -> Stop(s)
      [] ~Waits(s, 1) /\ Lacks(s, UserPassword) -> Ask(s)
      [] OTHER -> Answered(Read(s, <<"dh">>))

\* The server's key is read before the encryption, which is asynchronous.
NegotiateARDAuth(s) ==
    CASE Lacks(s, UserPassword) -> Ask(s)
      [] ~Lacks(s, UserPassword) /\ s.ard = "ready" -> Answered([s EXCEPT !.ard = "none"])
      [] ~Lacks(s, UserPassword) /\ s.ard # "ready" /\ Waits(s, 2) -> Stop(s)
      [] OTHER -> Stop([Read(s, <<"generator", "keys">>) EXCEPT !.ard = "crypto"])

\* VeNCrypt's states. Each falls through to the next, unless it failed.
VeNVersion(s) ==
    CASE s.ven # 0 \/ Waits(s, 1) -> s
      [] s.ven = 0 /\ ~Waits(s, 1) /\ Head(s.q).v = "other" -> Fail(Read(s, <<"venversion">>), "unsupported")
      [] OTHER -> [Send(Read(s, <<"venversion">>), "venversion", "none") EXCEPT !.ven = 1]
VeNAck(s) ==
    CASE s.ven # 1 \/ Waits(s, 1) -> s
      [] s.ven = 1 /\ ~Waits(s, 1) /\ Head(s.q).v = "failed" -> Fail(Read(s, <<"venack">>), "unsupported")
      [] OTHER -> [Read(s, <<"venack">>) EXCEPT !.ven = 2]
VeNLength(s) ==
    CASE s.ven # 2 \/ Waits(s, 1) -> s
      [] s.ven = 2 /\ ~Waits(s, 1) /\ s.q[1].n = 0 -> Fail(Read(s, <<"subtypes">>), "unsupported")
      [] OTHER -> [Read(s, <<"subtypes">>) EXCEPT !.ven = 3, !.venLength = s.q[1].n]
VeNSubtype(s) ==
    LET n == s.venLength
        type == FirstOf([i \in 1 .. n |-> s.q[i].v], Schemes \ {"VeNCrypt"})
        t == Read(s, [i \in 1 .. n |-> "subtype"])
    IN CASE s.ven # 3 \/ Waits(s, n) -> Stop(s)
         [] s.ven = 3 /\ ~Waits(s, n) /\ type = "none" -> Fail(t, "unsupported")
         [] OTHER -> Go([Send(t, "subtype", type) EXCEPT !.ven = 4, !.scheme = type], s.init)
NegotiateVeNCryptAuth(s) == VeNSubtype(VeNLength(VeNAck(VeNVersion(s))))

\* The tunnels, and then the kinds of authentication in the client's order.
NegotiateTightTunnels(s) ==
    IF List(s) \cap {"notunnel", "siemens"} = {} THEN Fail(ReadList(s, "tunnels", "tunnel"), "tunnels")
    ELSE Stop(Send(ReadList(s, "tunnels", "tunnel"), "notunnel", "none"))

\* mutant: the first kind of the server, not the first one both know
NegotiateFirstSubAuth(s) ==
    LET t == ReadList(s, "subs", "sub")
    IN IF Waits(s, 1) \/ Waits(s, 1 + s.q[1].n) THEN Stop(s)
       ELSE IF s.q[1].n = 0 \/ s.q[2].v = "STDVNOAUTH" THEN Go(Send(t, "sub", "STDVNOAUTH"), "SecurityResult")
       ELSE IF s.q[2].v = "STDVVNCAUTH" THEN Go([Send(t, "sub", s.q[2].v) EXCEPT !.scheme = "VNCAuth"], s.init)
       ELSE Fail(t, "unsupported")
NegotiateTightSubAuth(s) ==
    LET n == s.q[1].n
        t == ReadList(s, "subs", "sub")
        chosen == FirstOf(<<"STDVNOAUTH", "STDVVNCAUTH", "TGHTULGNAUTH">>, List(s))
        u == Send(t, "sub", chosen)
    IN IF Waits(s, 1) \/ Waits(s, 1 + n) THEN Stop(s)
       ELSE IF n = 0 THEN Go(t, "SecurityResult")
       ELSE CASE chosen = "none" -> Fail(t, "unsupported")
              [] chosen = "STDVNOAUTH" -> Go(u, "SecurityResult")
              [] chosen = "STDVVNCAUTH" -> Go([u EXCEPT !.scheme = "VNCAuth"], s.init)
              [] chosen = "TGHTULGNAUTH" -> Go([u EXCEPT !.scheme = "UnixLogon"], s.init)

NegotiateTightAuth(s) ==
    IF s.tight THEN NegotiateTightSubAuth(s)
    ELSE IF Waits(s, 1) \/ Waits(s, 1 + s.q[1].n) THEN Stop(s)
    ELSE IF s.q[1].n > 0 THEN NegotiateTightTunnels([s EXCEPT !.tight = TRUE])
    ELSE NegotiateTightSubAuth([Read(s, <<"tunnels">>) EXCEPT !.tight = TRUE])

----------------------------------------------------------------------------
(***************************************************************************)
(* RA2ne: an asynchronous negotiation of its own, that waits for data, for *)
(* the user and for the crypto library. c.ra2 is the await it is at; what  *)
(* is awaited there may be had at once.                                    *)
(***************************************************************************)

RA2(s) ==
    CASE s.ra2 = "len" /\ ~Waits(s, 2) -> [Read(s, <<"keylength", "key">>) EXCEPT !.ra2 = "import"]
      [] s.ra2 = "len" /\ Len(s.q) = 1 -> [Read(s, <<"keylength">>) EXCEPT !.ra2 = "key"]
      [] s.ra2 = "key" /\ ~Waits(s, 1) -> [Read(s, <<"key">>) EXCEPT !.ra2 = "import"]
      \* Only the length was waited for. The random is read at once, there or not.
      [] s.ra2 = "rand" /\ ~Waits(s, 2) -> [Read(s, <<"randlength", "rand">>) EXCEPT !.ra2 = "decrypt"]
      [] s.ra2 = "rand" /\ Len(s.q) = 1 ->
           [Read(s, <<"randlength">>) EXCEPT !.ra2 = "garbled", !.inStep = FALSE]
      [] s.ra2 = "hash" /\ ~Waits(s, 1) -> [Read(s, <<"hash">>) EXCEPT !.ra2 = "checkhash"]
      [] s.ra2 = "sub" /\ ~Waits(s, 1) ->
           [Read(s, <<"ra2subtype">>) EXCEPT !.ra2 = IF Head(s.q).v = "user" THEN "receive" ELSE "receive2"]
      [] s.ra2 = "creds" /\ ~Lacks(s, UserPassword) -> [s EXCEPT !.ra2 = "make"]
      [] s.ra2 = "creds2" /\ ~Lacks(s, {"password"}) -> [s EXCEPT !.ra2 = "make"]
      [] OTHER -> s

NegotiateRA2neAuth(s) == Stop(RA2(IF s.ra2 = "none" THEN [s EXCEPT !.ra2 = "len"] ELSE s))

RA2Asks(s, await, fields) ==
    LET t == [s EXCEPT !.ra2 = await]
    IN RA2(IF Lacks(s, fields) THEN Dispatch(t, "credentialsrequired") ELSE t)

\* The library has finished; the negotiation goes on to its next await.
RA2Continues(s) ==
    CASE s.ra2 = "import" -> Dispatch([s EXCEPT !.ra2 = "verify"], "serververification")
      [] s.ra2 = "gen" -> RA2([Send(Send(s, "ra2key", "none"), "ra2rand", "none") EXCEPT !.ra2 = "rand"])
      [] s.ra2 = "decrypt" -> RA2([Send(s, "ra2hash", "none") EXCEPT !.ra2 = "hash"])
      [] s.ra2 = "garbled" -> EndRA2(Fail(s, "garbled"))
      [] s.ra2 = "checkhash" -> RA2([s EXCEPT !.ra2 = "sub"])
      [] s.ra2 = "receive" -> RA2Asks(s, "creds", UserPassword)
      [] s.ra2 = "receive2" -> RA2Asks(s, "creds2", {"password"})
      [] s.ra2 = "make" -> EndRA2(Send(s, "creds", "none"))

----------------------------------------------------------------------------
(***************************************************************************)
(* The handshake, one message of it.                                       *)
(***************************************************************************)

NegotiateAuthentication(s) ==
    CASE s.scheme = "None" ->
           Go(s, IF s.version = "3.8" THEN "SecurityResult" ELSE "ClientInitialisation")
      [] s.scheme = "XVP" -> NegotiateXvpAuth(s)
      [] s.scheme = "ARD" -> NegotiateARDAuth(s)
      [] s.scheme = "VNCAuth" -> NegotiateStdVNCAuth(s)
      [] s.scheme = "Tight" -> NegotiateTightAuth(s)
      [] s.scheme = "VeNCrypt" -> NegotiateVeNCryptAuth(s)
      [] s.scheme = "Plain" -> NegotiatePlainAuth(s)
      [] s.scheme = "UnixLogon" -> NegotiateTightUnixAuth(s)
      [] s.scheme = "RA2ne" -> NegotiateRA2neAuth(s)
      [] s.scheme = "MSLogonII" -> NegotiateMSLogonIIAuth(s)
      [] OTHER -> Fail(s, "unsupported")

HandleSecurityResult(s) ==
    LET t == Read(s, <<"result">>)
    IN IF Waits(s, 1) THEN Stop(s)
       ELSE IF Head(s.q).v = "ok" THEN Go(t, "ClientInitialisation")
       ELSE IF s.version = "3.8" THEN Go(t, "SecurityReason")
       ELSE Fail(Dispatch(t, "securityfailure"), "refused")

NegotiateServerInit(s) ==
    LET kinds == <<"size", "name">> \o IF s.tight THEN <<"tightinit", "tightcaps">> ELSE <<>>
        named == Dispatch(Read(s, kinds), "desktopname")
    IN IF Waits(s, Len(kinds)) THEN Stop(s)
       ELSE Connected(Send([named EXCEPT !.grabbed = TRUE, !.go = TRUE], "session", "none"))

InitMsg(s) ==
    CASE s.init = "ProtocolVersion" -> NegotiateProtocolVersion(s)
      [] s.init = "Security" -> NegotiateSecurity(s)
      [] s.init = "Authentication" -> NegotiateAuthentication(s)
      [] s.init = "SecurityResult" -> HandleSecurityResult(s)
      [] s.init = "SecurityReason" -> HandleSecurityReason(s)
      [] s.init = "ClientInitialisation" -> Go(Send(s, "init", "none"), "ServerInitialisation")
      [] s.init = "ServerInitialisation" -> NegotiateServerInit(s)
      [] OTHER -> Fail(s, "stray")

----------------------------------------------------------------------------
(***************************************************************************)
(* The server: what it sends for each message it gets.                     *)
(***************************************************************************)

ListOf(count, item, values) ==
    <<N(count, Len(values))>> \o [i \in 1 .. Len(values) |-> V(item, values[i])]
Reason(server) == IF server.explains THEN <<N("length", 1), T("reason")>> ELSE <<N("length", 0)>>
Result(server) ==
    IF server.accepts THEN <<V("result", "ok")>>
    ELSE <<V("result", "failed")>> \o IF server.version = "3.8" THEN Reason(server) ELSE <<>>
SubAuths(server) == ListOf("subs", "sub", server.subs) \o IF server.subs = <<>> THEN Result(server) ELSE <<>>
Tunnels(server) == ListOf("tunnels", "tunnel", IF server.tunnels = "none" THEN <<>> ELSE <<server.tunnels>>)

VeNSubtypes(server) ==
    IF server.ven = "failed" THEN <<>> ELSE ListOf("subtypes", "subtype", server.venTypes)

\* It opens the authentication of a scheme.
Begins(server, scheme) ==
    CASE scheme = "None" -> IF server.version = "3.8" THEN Result(server) ELSE <<>>
      [] scheme = "VNCAuth" -> <<T("challenge")>>
      [] scheme = "MSLogonII" -> <<T("dh")>>
      [] scheme = "ARD" -> <<T("generator"), T("keys")>>
      [] scheme = "RA2ne" -> <<T("keylength"), T("key")>>
      [] scheme = "VeNCrypt" -> <<V("venversion", server.ven)>>
      [] scheme = "Tight" -> Tunnels(server) \o IF server.tunnels = "none" THEN SubAuths(server) ELSE <<>>
      [] OTHER -> <<>>

Security(server) ==
    IF server.version = "3.3"
    THEN IF server.types = <<>> THEN <<V("scheme", "0")>> \o Reason(server)
         ELSE <<V("scheme", Head(server.types))>> \o Begins(server, Head(server.types))
    ELSE ListOf("types", "type", server.types) \o IF server.types = <<>> THEN Reason(server) ELSE <<>>

Reply(server, msg) ==
    CASE msg.m = "repeaterID" -> Greeting(server, FALSE)
      [] msg.m = "version" -> Security(server)
      [] msg.m \in {"type", "subtype"} -> Begins(server, msg.v)
      [] msg.m = "venversion" -> <<V("venack", server.ven)>> \o VeNSubtypes(server)
      [] msg.m = "notunnel" -> SubAuths(server)
      [] msg.m = "sub" /\ msg.v = "STDVNOAUTH" -> Result(server)
      [] msg.m = "sub" /\ msg.v = "STDVVNCAUTH" -> <<T("challenge")>>
      [] msg.m = "user" -> <<T("challenge")>>
      [] msg.m = "ra2rand" -> <<T("randlength"), T("rand")>>
      [] msg.m = "ra2hash" -> <<T("hash"), V("ra2subtype", server.ra2)>>
      [] msg.m = "creds" -> Result(server)
      [] msg.m = "init" -> <<T("size"), T("name")>>
                           \o IF server.tight THEN <<T("tightinit"), T("tightcaps")>> ELSE <<>>
      [] msg.m = "session" -> <<T("update"), T("update")>>
      [] OTHER -> <<>>

----------------------------------------------------------------------------
(***************************************************************************)
(* Steps. Each is one task of the browser, or one round of a loop.         *)
(***************************************************************************)

idle == ~c.go

ChannelOpens ==
    /\ idle /\ c.chan = "connecting"
    /\ LET t == [c EXCEPT !.chan = "open"]
       IN c' = IF "open" \in c.on THEN SocketOpen(t) ELSE t
    /\ UNCHANGED <<quits, peer, wire>>

ServerReplies ==
    /\ c.chan = "open" /\ c.out # <<>>
    /\ wire' = wire \o Reply(peer, Head(c.out))
    /\ peer' = [peer EXCEPT !.tight = @ \/ Head(c.out) = [m |-> "type", v |-> "Tight"]]
    /\ c' = [c EXCEPT !.out = Tail(@)]
    /\ UNCHANGED quits

\* _recvMessage, and _handleMessage up to the loop over _initMsg. What a
\* connected session does with the data is another module's.
Deliver(n) ==
    /\ idle /\ c.listening /\ c.chan = "open" /\ n <= Len(wire)
    /\ wire' = SubSeq(wire, n + 1, Len(wire))
    /\ c' = [c EXCEPT !.q = @ \o SubSeq(wire, 1, n),
                      !.go = "message" \in c.on /\ c.conn = "connecting"]
    /\ UNCHANGED <<quits, peer>>

InitStep ==
    /\ c.go
    /\ LET t == InitMsg(c) IN c' = [t EXCEPT !.go = @ /\ t.conn = "connecting"]
    /\ UNCHANGED <<quits, peer, wire>>

\* The timer of _resumeAuthentication calls _initMsg once, in whatever state.
ResumeAuthentication ==
    /\ idle /\ c.resumes > 0
    /\ c' = [InitMsg([c EXCEPT !.resumes = @ - 1]) EXCEPT !.go = FALSE]
    /\ UNCHANGED <<quits, peer, wire>>

CryptoDone ==
    /\ idle /\ c.ra2 \in Crypto
    /\ c' = RA2Continues(c)
    /\ UNCHANGED <<quits, peer, wire>>

ARDAuthAsync ==
    /\ idle /\ c.ard = "crypto"
    /\ c' = [c EXCEPT !.ard = "ready", !.resumes = @ + 1]
    /\ UNCHANGED <<quits, peer, wire>>

\* The answer replaces the credentials, the ones of ARD that are ready too.
SendCredentials(creds) ==
    /\ idle /\ c.asked /\ c.ra2 # "verify"
    /\ c' = [c EXCEPT !.asked = FALSE, !.creds = creds, !.resumes = @ + 1,
                      !.ard = IF @ = "ready" THEN "none" ELSE @]
    /\ UNCHANGED <<quits, peer, wire>>

ApproveServer ==
    /\ idle /\ c.asked /\ c.ra2 = "verify"
    /\ c' = [c EXCEPT !.asked = FALSE, !.ra2 = "gen"]
    /\ UNCHANGED <<quits, peer, wire>>

AppDisconnects ==
    /\ idle /\ c' = Disconnect(c) /\ c' # c
    /\ UNCHANGED <<quits, peer, wire>>

\* Closed by the server or the network, or because it was asked for.
ChannelCloses ==
    /\ idle /\ c.chan # "closed"
    /\ LET t == [c EXCEPT !.chan = "closed"]
       IN c' = IF "close" \in c.on THEN SocketClose(t) ELSE t
    /\ wire' = <<>>
    /\ UNCHANGED <<quits, peer>>

DisconnectTimeout ==
    /\ idle /\ c.timer
    /\ c' = Disconnected(c)
    /\ UNCHANGED <<quits, peer, wire>>

Next ==
    \/ ChannelOpens
    \/ ServerReplies
    \/ \E n \in 1 .. Len(wire) : Deliver(n)
    \/ InitStep
    \/ ResumeAuthentication
    \/ CryptoDone
    \/ ARDAuthAsync
    \/ \E creds \in Answers : SendCredentials(creds)
    \/ ApproveServer
    \/ AppDisconnects
    \/ ChannelCloses
    \/ DisconnectTimeout

\* The network delivers, the server answers, timers and the crypto library
\* run, and the user comes to give every credential that is asked for.
Fairness ==
    /\ WF_vars(ChannelOpens) /\ WF_vars(ServerReplies)
    /\ WF_vars(\E n \in 1 .. Len(wire) : Deliver(n))
    /\ WF_vars(InitStep) /\ WF_vars(ResumeAuthentication)
    /\ WF_vars(CryptoDone) /\ WF_vars(ARDAuthAsync)
    /\ SF_vars(SendCredentials(Fields)) /\ WF_vars(ApproveServer)
    /\ WF_vars(DisconnectTimeout)

Spec == Init /\ [][Next]_vars /\ Fairness

----------------------------------------------------------------------------
(***************************************************************************)
(* Properties.                                                             *)
(***************************************************************************)

TypeOK ==
    /\ quits \in Quits /\ wire \in Seq(Tokens)
    /\ c.conn \in {"connecting", "connected", "disconnecting", "disconnected"}
    /\ c.init \in InitStates /\ c.version \in Versions \cup {"none"}
    /\ c.scheme \in Types \cup {"none", "UnixLogon"}
    /\ c.ven \in 0 .. 4 /\ c.venLength \in Nat /\ c.tight \in BOOLEAN
    /\ c.ard \in {"none", "crypto", "ready"} /\ c.ra2 \in {"none"} \cup Waiting \cup Crypto
    /\ c.creds \subseteq Fields /\ c.resumes \in Nat
    /\ c.chan \in {"connecting", "open", "closing", "closed"}
    /\ c.on \subseteq {"open", "message", "close"}
    /\ c.q \in Seq(Tokens) /\ c.seen \in Seq(Events) /\ c.late \subseteq Events
    /\ {c.grabbed, c.attached, c.timer, c.go, c.listening, c.asked, c.clean, c.inStep} \subseteq BOOLEAN

\* Up to "connect" every field is read as the one it is, wherever the network
\* cuts the stream and whenever an answer resumes the handshake: a message that
\* is not all there yet is given back whole, and none is left out or read twice.
\* The one that is not is an RA2 random that arrives after its length: what is
\* read in its place is the last thing read, and the handshake fails. After
\* "connect" nothing of the handshake reads any more, except with ARD: of its two
\* resumes one may run in the session and take the data there for a ServerInit.
StaleResume == c.scheme = "ARD" /\ Contains(c.seen, "connect")
CutRandom == c.scheme = "RA2ne" /\ (c.ra2 = "garbled" \/ c.conn = "disconnected")
InStep == c.inStep \/ StaleResume \/ CutRandom

\* Every variable keeps its type, and the handshake keeps in step with the server
\* except where InStep says.
Inv == TypeOK /\ InStep

\* The two sides agree on the outcome. A connection comes up only with a server
\* that accepted the client, and the handshake fails only for a reason the
\* server gave. (An RA2 random that arrives in two pieces fails as well.)
Outcome ==
    /\ Contains(c.seen, "connect") => peer.accepts /\ peer.types # <<>>
    /\ c.why \in {"none", "closed", "refused", "unsupported", "version", "tunnels", "garbled"}
    /\ c.why # "none" => ~c.clean
    /\ c.why = "closed" => c.chan = "closed"
    /\ c.why = "refused" => ~peer.accepts \/ peer.types = <<>>
    /\ c.why = "unsupported" =>
         \/ Chosen(peer.types) = "none" \/ (peer.version = "3.3" /\ Head(peer.types) = "unknown")
         \/ c.scheme = "VeNCrypt" /\ (peer.ven # "ok" \/ Chosen(peer.venTypes) \in {"none", "VeNCrypt"})
         \/ c.scheme = "Tight" /\ \A i \in 1 .. Len(peer.subs) : peer.subs[i] = "unknown"
    /\ c.why = "version" => peer.version = "bad"
    /\ c.why = "tunnels" => peer.tunnels = "other"
    /\ c.why = "garbled" => c.scheme = "RA2ne"

\* What the application is told makes sense and ends with one "disconnect":
\* after it nothing is announced, though a pending resume or the RA2 negotiation
\* may still ask for something. From the moment the connection is given up no
\* handler of the canvas is left behind, unless it was given up while the name
\* of the desktop was announced: the keyboard is grabbed after that. (A stale
\* resume grabs it too.)
LastWord ==
    /\ c.seen \in {<<>>, <<"connect">>, <<"connect", "disconnect">>, <<"disconnect">>,
                   <<"securityfailure">>, <<"securityfailure", "disconnect">>}
    /\ c.late \subseteq Requests \/ StaleResume
    /\ c.conn = "disconnected" <=> Contains(c.seen, "disconnect")
    /\ c.conn \in {"disconnecting", "disconnected"} =>
         /\ ~c.attached /\ ~c.listening
         /\ c.grabbed => quits = "desktopname" \/ StaleResume
    /\ c.timer <=> c.conn = "disconnecting"

\* No handshake hangs: with a server that answers and a user who gives what is
\* asked, it ends, and once it is given up it comes to "disconnect" whether the
\* channel is ever closed or not. (RA2 asks once: an answer that lacks something
\* leaves it waiting for another.)
Settles ==
    /\ c.conn = "connecting" ~> (c.conn # "connecting" \/ (c.ra2 = "creds" /\ ~c.asked))
    /\ c.conn = "disconnecting" ~> c.conn = "disconnected"
=============================================================================
