------------------------- MODULE RfbSessionProofs -------------------------
(***************************************************************************)
(* The handshake keeps in step with the server, the two agree on how it    *)
(* ends, and "disconnect" is the last word: for every set of honest        *)
(* servers, credentials to start with and events to give up on.            *)
(*                                                                         *)
(* IInv says, in every state the client can be in, what the server has     *)
(* still to send. What is in the queue and what is to come after it make   *)
(* up that stream, so a handler reads the fields it means to read. A       *)
(* handler that runs (Ready) leaves such a state again (Ran), and one that *)
(* stops has left nothing in the queue that could be read (Dry): that is   *)
(* why a resume that fires in a later state of the handshake finds nothing *)
(* to take.                                                                *)
(***************************************************************************)
EXTENDS RfbSession, SequenceTheorems, WellFoundedInduction, TLAPS

----------------------------------------------------------------------------
(***************************************************************************)
(* The client and the servers, and what a step leaves alone.               *)
(***************************************************************************)

Messages == [m : {"repeaterID", "version", "type", "subtype", "venversion", "notunnel", "sub", "user",
                  "creds", "ra2key", "ra2rand", "ra2hash", "init", "session"},
             v : Values]
Reasons == {"none", "reopened", "stray", "closed", "refused", "unsupported", "version", "tunnels",
            "garbled"}

Client ==
    [conn : {"connecting", "connected", "disconnecting", "disconnected"},
     init : InitStates, version : Versions \cup {"none"},
     scheme : Types \cup {"none", "UnixLogon"},
     tight : BOOLEAN, ven : 0 .. 4, venLength : Nat,
     ard : {"none", "crypto", "ready"}, ra2 : {"none"} \cup Waiting \cup Crypto,
     creds : SUBSET Fields, grabbed : BOOLEAN, attached : BOOLEAN, timer : BOOLEAN,
     resumes : Nat, go : BOOLEAN,
     chan : {"connecting", "open", "closing", "closed"},
     on : SUBSET {"open", "message", "close"}, listening : BOOLEAN,
     q : Seq(Tokens), out : Seq(Messages), asked : BOOLEAN,
     seen : Seq(Events), clean : BOOLEAN, late : SUBSET Events,
     why : Reasons, inStep : BOOLEAN]

Peers ==
    [version : Versions, repeater : BOOLEAN, types : Seq(Types),
     tunnels : {"none", "notunnel", "siemens", "other"}, subs : Seq(SubTypes),
     ven : {"ok", "other", "failed"}, venTypes : Seq(Types), ra2 : {"user", "password"},
     accepts : BOOLEAN, explains : BOOLEAN, tight : BOOLEAN]

Parts == {"conn", "init", "version", "scheme", "tight", "ven", "venLength", "ard", "ra2",
          "creds", "grabbed", "attached", "timer", "resumes", "go", "chan", "on", "listening",
          "q", "out", "asked", "seen", "clean", "late", "why", "inStep"}

\* The two differ in nothing but the parts named.
Same(s, t, changed) == \A part \in Parts \ changed : t[part] = s[part]

Items(item, values) == [i \in 1 .. Len(values) |-> V(item, values[i])]
Kinds(item, n) == [i \in 1 .. n |-> item]

----------------------------------------------------------------------------
(***************************************************************************)
(* The inductive invariant.                                                *)
(***************************************************************************)

\* What the server has still to send, in each state of the handshake.
OfRA2(server, ra2) ==
    CASE ra2 \in {"none", "len"} -> <<T("keylength"), T("key")>>
      [] ra2 = "key" -> <<T("key")>>
      [] ra2 = "rand" -> <<T("randlength"), T("rand")>>
      [] ra2 = "garbled" -> <<T("rand")>>
      [] ra2 = "hash" -> <<T("hash"), V("ra2subtype", server.ra2)>>
      [] ra2 \in {"checkhash", "sub"} -> <<V("ra2subtype", server.ra2)>>
      [] OTHER -> <<>>
OfVeNCrypt(server, ven) ==
    CASE ven = 0 -> <<V("venversion", server.ven)>>
      [] ven = 1 -> <<V("venack", server.ven)>> \o VeNSubtypes(server)
      [] ven = 2 -> ListOf("subtypes", "subtype", server.venTypes)
      [] OTHER -> Items("subtype", server.venTypes)
OfScheme(server, s) ==
    CASE s.scheme = "RA2ne" -> OfRA2(server, s.ra2)
      [] s.scheme = "VeNCrypt" -> OfVeNCrypt(server, s.ven)
      [] s.scheme = "ARD" /\ s.ard # "none" -> <<>>
      [] s.scheme = "Tight" /\ s.tight -> SubAuths(server)
      [] OTHER -> Begins(server, s.scheme)
ServerInit == [m |-> "init", v |-> "none"]
Ahead(server, s) ==
    CASE s.init = "Security" -> Security(server)
      [] s.init = "Authentication" -> OfScheme(server, s)
      [] s.init = "SecurityResult" -> Result(server)
      [] s.init = "SecurityReason" -> Reason(server)
      [] s.init = "ServerInitialisation" -> Reply(server, ServerInit)
      [] OTHER -> <<>>
Awaits(server, s, rest) ==
    IF s.init \in {"none", "ProtocolVersion"}
    THEN \E repeater \in BOOLEAN : s.q \o rest = Greeting(server, repeater)
    ELSE s.q \o rest = Ahead(server, s)

\* The rest of it is what is on its way, or the answer to the last message.
Owes(server, s, w, rest) ==
    /\ s.out = <<>> => rest = w
    /\ s.out # <<>> => s.q = <<>> /\ w = <<>> /\ rest = Reply(server, s.out[Len(s.out)])
    /\ \A i \in 1 .. Len(s.out) : i < Len(s.out) => Reply(server, s.out[i]) = <<>>

Past(s) == Contains(s.seen, "connect")
Stale(s) == s.scheme = "ARD" /\ Past(s)
Owing(s) == s.asked \/ s.resumes > 0
Quiet(s) == Owing(s) /\ s.scheme # "ARD"
Alive(s) == s.conn = "connecting" \/ Owing(s) \/ s.ra2 # "none" \/ s.ard # "none"

\* The random of RA2 was read before it was there: nothing more will be read.
Cut(s) ==
    /\ s.scheme = "RA2ne" /\ ~Owing(s)
    /\ s.ra2 = "garbled" \/ (s.ra2 = "none" /\ s.conn = "disconnected")
Legible(s) == s.inStep \/ Stale(s) \/ Cut(s)

Talk(server, s, w) ==
    \E rest \in Seq(Tokens) :
      /\ Awaits(server, s, rest)
      /\ s.conn = "connecting" => Owes(server, s, w, rest) /\ (Quiet(s) => rest = <<>>)

Heard(server, s) == \E rest \in Seq(Tokens) : Awaits(server, s, rest)

Early == {"none", "ProtocolVersion", "Security"}
Late == {"ClientInitialisation", "ServerInitialisation"}
Asking == {"Plain", "UnixLogon", "VNCAuth", "XVP", "MSLogonII", "ARD", "RA2ne"}

\* The connection, its channel and its handlers, and what was announced.
Conns(s) ==
    /\ s.conn = "connecting" => /\ s.chan \in {"connecting", "open"} /\ s.on = {"open", "message", "close"}
                                /\ s.listening /\ ~s.grabbed /\ s.late = {} /\ s.seen = <<>>
                                /\ s.why = "none"
                                /\ (s.init = "none" <=> s.chan = "connecting")
    /\ s.conn = "connected" => s.chan = "open" /\ s.on = {"open", "message", "close"} /\ s.seen = <<"connect">>
    /\ s.conn = "disconnecting" => s.seen \in {<<>>, <<"connect">>}
    /\ s.conn = "disconnected" => s.seen \in {<<"disconnect">>, <<"connect", "disconnect">>, <<"securityfailure", "disconnect">>}
    /\ s.conn \in {"disconnecting", "disconnected"} =>
         ~s.attached /\ ~s.listening /\ s.chan \in {"closing", "closed"}
    /\ s.timer <=> s.conn = "disconnecting"
    /\ s.late \subseteq Requests \/ Stale(s)
    /\ Past(s) => s.init = "ServerInitialisation"
    /\ Past(s) /\ ~Stale(s) => ~Alive(s)

\* Who is asked for what, and what is under way.
Turns(s) ==
    /\ Owing(s) => s.scheme \in Asking /\ s.init \notin Early
    /\ Quiet(s) =>
         /\ (s.asked => s.resumes = 0) /\ s.resumes <= 1
         /\ s.init = "Authentication" \/ (s.conn # "connecting" /\ s.init = "SecurityResult")
    /\ s.scheme = "ARD" /\ s.asked => s.ard = "none" /\ s.init = "Authentication" /\ Lacks(s, UserPassword)
    /\ s.ard # "none" => s.scheme = "ARD" /\ s.init = "Authentication" /\ ~Lacks(s, UserPassword)
    /\ s.ra2 # "none" => s.scheme = "RA2ne" /\ s.init = "Authentication"
    /\ s.ra2 = "verify" => s.resumes = 0
    /\ s.ra2 \notin {"none", "verify", "creds", "creds2"} => ~Owing(s)
    /\ s.scheme = "RA2ne" /\ s.ra2 = "none" /\ s.init = "Authentication" => ~Owing(s)

\* The server was not asked for "Tight", and is not going to be.
Untight(server, s) ==
    ~server.tight /\ \A i \in 1 .. Len(s.out) : s.out[i] # [m |-> "type", v |-> "Tight"]

\* How far the handshake is.
Place(server, s) ==
    /\ s.init \notin {"none", "ProtocolVersion"} => s.version = server.version
    /\ s.init \in Early => ~s.tight /\ s.ven = 0 /\ s.scheme = "none"
    /\ s.tight => s.scheme \in {"Tight", "VNCAuth", "UnixLogon"}
    /\ s.scheme = "VeNCrypt" => s.ven \in 0 .. 3 /\ (s.ven = 3 => s.venLength = Len(server.venTypes))
    /\ s.scheme = "unknown" => server.version = "3.3" /\ server.types # <<>> /\ Head(server.types) = "unknown"
    /\ s.scheme \in {"none", "VeNCrypt", "ARD"} => Untight(server, s)
    /\ s.init \in {"Authentication", "SecurityResult"} => server.types # <<>>
    /\ s.init = "Authentication" => s.scheme # "none"
    /\ s.init = "Authentication" /\ s.scheme = "None" /\ server.version # "3.8" => server.accepts
    /\ s.init = "SecurityReason" => ~server.accepts \/ server.types = <<>>
    /\ s.init \in Late => server.accepts /\ server.types # <<>>

\* Between two steps all that could be done was done.
Dry(s) ==
    /\ s.init = "SecurityResult" => s.q = <<>>
    /\ s.init = "SecurityReason" => Len(s.q) < 1 \/ Len(s.q) < IF s.q[1].n = 0 THEN 1 ELSE 2
    /\ s.init = "ServerInitialisation" => Len(s.q) < IF s.tight THEN 4 ELSE 2
    /\ s.init # "ClientInitialisation"

\* Why it failed.
Because(server, s, why) ==
    /\ why \notin {"reopened", "stray"}
    /\ why = "closed" => s.chan = "closed"
    /\ why = "refused" => ~server.accepts \/ server.types = <<>>
    /\ why = "unsupported" =>
         \/ Chosen(server.types) = "none" \/ (server.version = "3.3" /\ Head(server.types) = "unknown")
         \/ s.scheme = "VeNCrypt" /\ (server.ven # "ok" \/ Chosen(server.venTypes) \in {"none", "VeNCrypt"})
         \/ s.scheme = "Tight" /\ \A i \in 1 .. Len(server.subs) : server.subs[i] = "unknown"
    /\ why = "version" => server.version = "bad"
    /\ why = "tunnels" => server.tunnels = "other"
    /\ why = "garbled" => s.scheme = "RA2ne"
Whys(server, s) ==
    /\ s.why # "none" => ~s.clean
    /\ Because(server, s, s.why)
    /\ s.conn # "connecting" /\ Past(s) => server.accepts /\ server.types # <<>>

Base(server, s) ==
    /\ s \in Client
    /\ Legible(s) /\ Conns(s) /\ Turns(s) /\ Place(server, s) /\ Whys(server, s)
    /\ s.conn \in {"disconnecting", "disconnected"} => (s.grabbed => quits = "desktopname" \/ Stale(s))
Hold(server, s, w) == Base(server, s) /\ (Alive(s) /\ ~Stale(s) => Talk(server, s, w))

----------------------------------------------------------------------------
(***************************************************************************)
(* Streams of tokens.                                                      *)
(***************************************************************************)

LEMMA TokenFacts ==
    /\ \A k \in FieldKinds : T(k) \in Tokens /\ T(k).k = k /\ T(k).n = 0
    /\ \A k \in FieldKinds, n \in Nat : N(k, n) \in Tokens /\ N(k, n).k = k /\ N(k, n).n = n
    /\ \A k \in FieldKinds, v \in Values : V(k, v) \in Tokens /\ V(k, v).k = k /\ V(k, v).v = v
  <1>1. "none" \in Values /\ 0 \in Nat
    BY DEF Values
  <1>2. \A k \in FieldKinds, n \in Nat : N(k, n) \in Tokens /\ N(k, n).k = k /\ N(k, n).n = n
    BY <1>1 DEF N, Tokens
  <1>3. ASSUME NEW k \in FieldKinds PROVE T(k) \in Tokens /\ T(k).k = k /\ T(k).n = 0
    BY <1>1 DEF T, Tokens
  <1>4. ASSUME NEW k \in FieldKinds, NEW v \in Values
        PROVE  V(k, v) \in Tokens /\ V(k, v).k = k /\ V(k, v).v = v
    BY DEF V, Tokens
  <1> QED BY <1>2, <1>3, <1>4

LEMMA TokenParts ==
    ASSUME NEW t \in Tokens
    PROVE  t.k \in FieldKinds /\ t.n \in Nat /\ t.v \in Values
  BY DEF Tokens

\* A function on 1 .. n is a sequence of length n.
LEMMA FunctionIsSeq ==
    ASSUME NEW S, NEW n \in Nat, NEW f \in [1 .. n -> S]
    PROVE  f \in Seq(S) /\ Len(f) = n
  <1>1. f \in Seq(S)
    BY SeqDef
  <1>2. 1 .. Len(f) = 1 .. n /\ Len(f) \in Nat
    BY <1>1, LenProperties
  <1> QED BY <1>1, <1>2

LEMMA ItemFacts ==
    ASSUME NEW item \in FieldKinds, NEW values \in Seq(Values)
    PROVE  /\ Items(item, values) \in Seq(Tokens) /\ Len(Items(item, values)) = Len(values)
           /\ \A i \in 1 .. Len(values) : /\ Items(item, values)[i] = V(item, values[i])
                                          /\ Items(item, values)[i].k = item
                                          /\ Items(item, values)[i].v = values[i]
  <1>1. \A i \in 1 .. Len(values) : V(item, values[i]) \in Tokens
    BY TokenFacts, ElementOfSeq
  <1>2. \A i \in 1 .. Len(values) : V(item, values[i]).k = item /\ V(item, values[i]).v = values[i]
    BY TokenFacts, ElementOfSeq
  <1>3. Len(values) \in Nat
    BY LenProperties
  <1>4. Items(item, values) \in [1 .. Len(values) -> Tokens]
    BY <1>1 DEF Items
  <1>5. Items(item, values) \in Seq(Tokens) /\ Len(Items(item, values)) = Len(values)
    BY <1>3, <1>4, FunctionIsSeq
  <1>6. \A i \in 1 .. Len(values) : Items(item, values)[i] = V(item, values[i])
    BY DEF Items
  <1> QED BY <1>2, <1>5, <1>6

LEMMA KindFacts ==
    ASSUME NEW item \in FieldKinds, NEW n \in Nat
    PROVE  /\ Kinds(item, n) \in Seq(FieldKinds) /\ Len(Kinds(item, n)) = n
           /\ \A i \in 1 .. n : Kinds(item, n)[i] = item
  <1>1. Kinds(item, n) \in [1 .. n -> FieldKinds]
    BY DEF Kinds
  <1>2. Kinds(item, n) \in Seq(FieldKinds) /\ Len(Kinds(item, n)) = n
    BY <1>1, FunctionIsSeq
  <1> QED BY <1>2 DEF Kinds

\* A list: its length, and as many items.
LEMMA ListFacts ==
    ASSUME NEW count \in FieldKinds, NEW item \in FieldKinds, NEW values \in Seq(Values)
    PROVE  /\ ListOf(count, item, values) \in Seq(Tokens)
           /\ Len(ListOf(count, item, values)) = 1 + Len(values)
           /\ ListOf(count, item, values)[1].k = count
           /\ ListOf(count, item, values)[1].n = Len(values)
           /\ \A i \in 1 .. Len(values) : /\ ListOf(count, item, values)[1 + i].k = item
                                          /\ ListOf(count, item, values)[1 + i].v = values[i]
           /\ SubSeq(ListOf(count, item, values), 2, 1 + Len(values)) = Items(item, values)
  <1> DEFINE head == <<N(count, Len(values))>>
             list == ListOf(count, item, values)
             items == Items(item, values)
  <1>1. Len(values) \in Nat
    BY LenProperties
  <1>2. N(count, Len(values)) \in Tokens /\ N(count, Len(values)).k = count
        /\ N(count, Len(values)).n = Len(values)
    BY <1>1, TokenFacts
  <1>3. head \in Seq(Tokens) /\ Len(head) = 1 /\ head[1] = N(count, Len(values))
    BY <1>2
  <1>4. list = head \o items
    BY DEF ListOf, Items
  <1>5. items \in Seq(Tokens) /\ Len(items) = Len(values)
        /\ \A i \in 1 .. Len(values) : items[i].k = item /\ items[i].v = values[i]
    BY ItemFacts
  <1> HIDE DEF head, list, items
  <1>6. /\ list \in Seq(Tokens) /\ Len(list) = 1 + Len(values)
        /\ \A i \in 1 .. 1 + Len(values) : list[i] = IF i <= 1 THEN head[i] ELSE items[i - 1]
    <2>0. head \in Seq(Tokens) /\ items \in Seq(Tokens)
      BY <1>3, <1>5
    <2>1. /\ head \o items \in Seq(Tokens) /\ Len(head \o items) = Len(head) + Len(items)
          /\ \A i \in 1 .. Len(head) + Len(items) :
               (head \o items)[i] = IF i <= Len(head) THEN head[i] ELSE items[i - Len(head)]
      BY <2>0, ConcatProperties
    <2> QED BY <1>3, <1>4, <1>5, <2>1
  <1>7. list[1] = head[1] /\ \A i \in 1 .. Len(values) : list[1 + i] = items[i]
    BY <1>1, <1>6
  <1>8. SubSeq(list, 2, 1 + Len(values)) = items
    <2>1. \A i \in 2 .. 1 + Len(values) : list[i] \in Tokens
      BY <1>1, <1>6, ElementOfSeq
    <2>2. /\ SubSeq(list, 2, 1 + Len(values)) \in Seq(Tokens)
          /\ Len(SubSeq(list, 2, 1 + Len(values))) = Len(values)
          /\ \A i \in 1 .. Len(values) : SubSeq(list, 2, 1 + Len(values))[i] = list[1 + i]
      <3>1. /\ SubSeq(list, 2, 1 + Len(values)) \in Seq(Tokens)
            /\ Len(SubSeq(list, 2, 1 + Len(values))) =
                 IF 2 <= 1 + Len(values) THEN 1 + Len(values) - 2 + 1 ELSE 0
            /\ \A i \in 1 .. 1 + Len(values) - 2 + 1 :
                 SubSeq(list, 2, 1 + Len(values))[i] = list[2 + i - 1]
        BY <1>1, <2>1, SubSeqProperties
      <3> QED BY <1>1, <3>1
    <2> QED BY <1>5, <1>7, <2>2, SeqEqual
  <1> QED BY <1>2, <1>3, <1>5, <1>6, <1>7, <1>8 DEF list, items

\* Cutting a stream after its first n tokens.
LEMMA CutFacts ==
    ASSUME NEW q \in Seq(Tokens), NEW rest \in Seq(Tokens), NEW n \in 0 .. Len(q)
    PROVE  /\ SubSeq(q, n + 1, Len(q)) \in Seq(Tokens)
           /\ Len(SubSeq(q, n + 1, Len(q))) = Len(q) - n
           /\ SubSeq(q, n + 1, Len(q)) \o rest = SubSeq(q \o rest, n + 1, Len(q \o rest))
  <1> DEFINE tail == SubSeq(q, n + 1, Len(q))
             x == q \o rest
             cut == SubSeq(x, n + 1, Len(x))
  <1>1. Len(q) \in Nat /\ Len(rest) \in Nat /\ n \in Nat
    BY LenProperties
  <1>2. /\ x \in Seq(Tokens) /\ Len(x) = Len(q) + Len(rest)
        /\ \A i \in 1 .. Len(q) + Len(rest) : x[i] = IF i <= Len(q) THEN q[i] ELSE rest[i - Len(q)]
    BY ConcatProperties
  <1>3. \A i \in n + 1 .. Len(q) : q[i] \in Tokens
    BY <1>1, ElementOfSeq
  <1> HIDE DEF x
  <1>4. \A i \in n + 1 .. Len(x) : x[i] \in Tokens
    BY <1>1, <1>2, ElementOfSeq
  <1>5. /\ tail \in Seq(Tokens)
        /\ Len(tail) = IF n + 1 <= Len(q) THEN Len(q) - (n + 1) + 1 ELSE 0
        /\ \A i \in 1 .. Len(q) - (n + 1) + 1 : tail[i] = q[n + 1 + i - 1]
    BY <1>1, <1>3, SubSeqProperties
  <1>6. /\ cut \in Seq(Tokens)
        /\ Len(cut) = IF n + 1 <= Len(x) THEN Len(x) - (n + 1) + 1 ELSE 0
        /\ \A i \in 1 .. Len(x) - (n + 1) + 1 : cut[i] = x[n + 1 + i - 1]
    BY <1>1, <1>2, <1>4, SubSeqProperties
  <1> HIDE DEF tail, cut
  <1>7. Len(tail) = Len(q) - n /\ \A i \in 1 .. Len(q) - n : tail[i] = q[n + i]
    BY <1>1, <1>5
  <1>8. Len(cut) = Len(q) + Len(rest) - n
        /\ \A i \in 1 .. Len(q) + Len(rest) - n : cut[i] = x[n + i]
    BY <1>1, <1>2, <1>6
  <1>9. /\ tail \o rest \in Seq(Tokens) /\ Len(tail \o rest) = Len(tail) + Len(rest)
        /\ \A i \in 1 .. Len(tail) + Len(rest) :
             (tail \o rest)[i] = IF i <= Len(tail) THEN tail[i] ELSE rest[i - Len(tail)]
    BY <1>5, ConcatProperties
  <1>10. \A i \in 1 .. Len(q) + Len(rest) - n : (tail \o rest)[i] = cut[i]
    <2> SUFFICES ASSUME NEW i \in 1 .. Len(q) + Len(rest) - n PROVE (tail \o rest)[i] = cut[i]
      OBVIOUS
    <2>1. CASE i <= Len(q) - n
      BY <1>1, <1>2, <1>7, <1>8, <1>9, <2>1
    <2>2. CASE ~(i <= Len(q) - n)
      <3>1. (tail \o rest)[i] = rest[i - (Len(q) - n)]
        BY <1>1, <1>7, <1>9, <2>2
      <3>2. cut[i] = rest[n + i - Len(q)]
        BY <1>1, <1>2, <1>8, <2>2
      <3>3. i - (Len(q) - n) = n + i - Len(q)
        BY <1>1
      <3> QED BY <3>1, <3>2, <3>3
    <2> QED BY <2>1, <2>2
  <1>11. tail \o rest = cut
    <2>1. Len(tail \o rest) = Len(cut)
      BY <1>1, <1>7, <1>8, <1>9
    <2>2. \A i \in 1 .. Len(tail \o rest) : (tail \o rest)[i] = cut[i]
      BY <1>1, <1>7, <1>9, <1>10
    <2> QED BY <1>6, <1>9, <2>1, <2>2, SeqEqual
  <1> QED BY <1>5, <1>7, <1>11 DEF tail, cut, x

----------------------------------------------------------------------------
(***************************************************************************)
(* What the helpers change of the client.                                  *)
(***************************************************************************)

LEMMA GoFacts ==
    ASSUME NEW s \in Client, NEW init \in InitStates
    PROVE  /\ Go(s, init) \in Client /\ Same(s, Go(s, init), {"go", "init"})
           /\ Go(s, init).go = TRUE /\ Go(s, init).init = init
  BY DEF Go, Client, Same, Parts

LEMMA StopFacts ==
    ASSUME NEW s \in Client
    PROVE  Stop(s) \in Client /\ Same(s, Stop(s), {"go"}) /\ Stop(s).go = FALSE
  BY DEF Stop, Client, Same, Parts

LEMMA QueueFacts ==
    ASSUME NEW s \in Client
    PROVE  s.q \in Seq(Tokens) /\ Len(s.q) \in Nat /\ \A i \in 1 .. Len(s.q) : s.q[i] \in Tokens
  <1>1. s.q \in Seq(Tokens)
    BY DEF Client
  <1> QED BY <1>1, LenProperties, ElementOfSeq

\* A message leaves as long as the channel is open.
Sent(s, m, v) == IF s.chan = "open" THEN Append(s.out, [m |-> m, v |-> v]) ELSE s.out

LEMMA SendFacts ==
    ASSUME NEW s \in Client, NEW m, NEW v, [m |-> m, v |-> v] \in Messages
    PROVE  /\ Send(s, m, v) \in Client /\ Same(s, Send(s, m, v), {"out"})
           /\ Send(s, m, v).out = Sent(s, m, v)
  <1> DEFINE more == Append(s.out, [m |-> m, v |-> v])
  <1>1. s.out \in Seq(Messages)
    BY DEF Client
  <1>2. more \in Seq(Messages)
    BY <1>1, AppendProperties
  <1>3. Send(s, m, v) = IF s.chan = "open" THEN [s EXCEPT !.out = more] ELSE s
    BY DEF Send
  <1>4. Sent(s, m, v) = IF s.chan = "open" THEN more ELSE s.out
    BY DEF Sent
  <1> HIDE DEF more
  <1>5. CASE s.chan = "open"
    <2>1. Send(s, m, v) = [s EXCEPT !.out = more]
      BY <1>3, <1>5
    <2>2. Send(s, m, v) \in Client
      BY <1>2, <2>1, ZenonT(40) DEF Client
    <2>3. Same(s, [s EXCEPT !.out = more], {"out"}) /\ [s EXCEPT !.out = more].out = more
      BY DEF Client, Same, Parts
    <2> QED BY <1>4, <1>5, <2>1, <2>2, <2>3
  <1>6. CASE s.chan # "open"
    <2>1. Send(s, m, v) = s
      BY <1>3, <1>6
    <2> QED BY <1>4, <1>6, <2>1 DEF Same
  <1> QED BY <1>5, <1>6

\* Reading: the tokens are taken off the queue.
LEMMA ReadFacts ==
    ASSUME NEW s \in Client, NEW kinds \in Seq(FieldKinds), Len(kinds) <= Len(s.q),
           NEW rest \in Seq(Tokens),
           \A i \in 1 .. Len(kinds) : (s.q \o rest)[i].k = kinds[i]
    PROVE  /\ Read(s, kinds) \in Client /\ Same(s, Read(s, kinds), {"q"})
           /\ Len(Read(s, kinds).q) = Len(s.q) - Len(kinds)
           /\ Read(s, kinds).q \o rest = SubSeq(s.q \o rest, Len(kinds) + 1, Len(s.q \o rest))
  <1> DEFINE q == SubSeq(s.q, Len(kinds) + 1, Len(s.q))
             good == \A i \in 1 .. Len(kinds) : s.q[i].k = kinds[i]
  <1>1. s.q \in Seq(Tokens) /\ Len(s.q) \in Nat /\ Len(kinds) \in Nat
    BY QueueFacts, LenProperties
  <1>2. /\ q \in Seq(Tokens) /\ Len(q) = Len(s.q) - Len(kinds)
        /\ q \o rest = SubSeq(s.q \o rest, Len(kinds) + 1, Len(s.q \o rest))
    <2>1. Len(kinds) \in 0 .. Len(s.q)
      BY <1>1
    <2> QED BY <1>1, <2>1, CutFacts
  <1>3. good
    <2>1. ASSUME NEW i \in 1 .. Len(kinds) PROVE s.q[i].k = kinds[i]
      <3>1. i \in 1 .. Len(s.q) + Len(rest) /\ i <= Len(s.q)
        BY <1>1, LenProperties
      <3>2. (s.q \o rest)[i] = s.q[i]
        BY <1>1, <3>1, ConcatProperties
      <3> QED BY <3>2
    <2> QED BY <2>1
  <1>4. Read(s, kinds) = [s EXCEPT !.q = q, !.inStep = @ /\ good]
    BY DEF Read
  <1> HIDE DEF q, good
  <1>5. (s.inStep /\ good) = s.inStep
    BY <1>3 DEF Client
  <1>6. Read(s, kinds) = [s EXCEPT !.q = q]
    <2> DEFINE b == s.inStep /\ good
    <2>1. Read(s, kinds) = [[s EXCEPT !.q = q] EXCEPT !.inStep = b]
      BY <1>4 DEF Client
    <2>2. b = s.inStep
      BY <1>5
    <2> HIDE DEF b
    <2> QED BY <1>2, <2>1, <2>2 DEF Client
  <1>7. Read(s, kinds) \in Client
    BY <1>2, <1>6, ZenonT(40) DEF Client
  <1>8. Same(s, [s EXCEPT !.q = q], {"q"}) /\ [s EXCEPT !.q = q].q = q
    BY DEF Client, Same, Parts
  <1> QED BY <1>2, <1>6, <1>7, <1>8

\* The first tokens of a stream, read and unread.
LEMMA SplitFacts ==
    ASSUME NEW a \in Seq(Tokens), NEW y \in Seq(Tokens)
    PROVE  /\ a \o y \in Seq(Tokens) /\ Len(a \o y) = Len(a) + Len(y)
           /\ \A i \in 1 .. Len(a) : (a \o y)[i] = a[i]
           /\ SubSeq(a \o y, Len(a) + 1, Len(a \o y)) = y
  <1>1. Len(a) \in Nat /\ Len(y) \in Nat
    BY LenProperties
  <1>2. /\ a \o y \in Seq(Tokens) /\ Len(a \o y) = Len(a) + Len(y)
        /\ \A i \in 1 .. Len(a) + Len(y) : (a \o y)[i] = IF i <= Len(a) THEN a[i] ELSE y[i - Len(a)]
    BY ConcatProperties
  <1>3. SubSeq(a, Len(a) + 1, Len(a)) = <<>>
    BY <1>1, SubSeqEmpty
  <1>4. SubSeq(a, Len(a) + 1, Len(a)) \o y = SubSeq(a \o y, Len(a) + 1, Len(a \o y))
    <2>1. Len(a) \in 0 .. Len(a)
      BY <1>1
    <2> QED BY <2>1, CutFacts
  <1>5. <<>> \o y = y
    BY ConcatEmptySeq
  <1> QED BY <1>1, <1>2, <1>3, <1>4, <1>5

\* A stream that starts with what is read from it.
Fits(s, rest, a, y, kinds) ==
    /\ s \in Client /\ rest \in Seq(Tokens) /\ a \in Seq(Tokens) /\ y \in Seq(Tokens)
    /\ s.q \o rest = a \o y /\ Len(a) <= Len(s.q)
    /\ kinds \in Seq(FieldKinds) /\ Len(kinds) = Len(a) /\ \A i \in 1 .. Len(a) : a[i].k = kinds[i]

Streams(s, rest, tokens) == s.q \o rest = tokens

LEMMA ReadFits ==
    ASSUME NEW s, NEW rest, NEW a, NEW y, NEW kinds, Fits(s, rest, a, y, kinds)
    PROVE  /\ Read(s, kinds) \in Client /\ Same(s, Read(s, kinds), {"q"})
           /\ Read(s, kinds).q \o rest = y
           /\ Len(Read(s, kinds).q) = Len(s.q) - Len(a)
  <1>0. /\ s \in Client /\ rest \in Seq(Tokens) /\ a \in Seq(Tokens) /\ y \in Seq(Tokens)
        /\ s.q \o rest = a \o y /\ Len(a) <= Len(s.q)
        /\ kinds \in Seq(FieldKinds) /\ Len(kinds) = Len(a) /\ \A i \in 1 .. Len(a) : a[i].k = kinds[i]
    BY DEF Fits
  <1>1. \A i \in 1 .. Len(kinds) : (s.q \o rest)[i].k = kinds[i]
    BY <1>0, SplitFacts
  <1>2. Len(kinds) <= Len(s.q)
    BY <1>0
  <1>3. /\ Read(s, kinds) \in Client /\ Same(s, Read(s, kinds), {"q"})
        /\ Len(Read(s, kinds).q) = Len(s.q) - Len(kinds)
        /\ Read(s, kinds).q \o rest = SubSeq(s.q \o rest, Len(kinds) + 1, Len(s.q \o rest))
    BY <1>0, <1>1, <1>2, ReadFacts
  <1> QED BY <1>0, <1>3, SplitFacts

\* All that is still to come is there.
FitsAll(s, rest, a, kinds) ==
    /\ s \in Client /\ rest \in Seq(Tokens) /\ a \in Seq(Tokens)
    /\ s.q \o rest = a /\ Len(a) <= Len(s.q)
    /\ kinds \in Seq(FieldKinds) /\ Len(kinds) = Len(a) /\ \A i \in 1 .. Len(a) : a[i].k = kinds[i]

LEMMA ReadAll ==
    ASSUME NEW s, NEW rest, NEW a, NEW kinds, FitsAll(s, rest, a, kinds)
    PROVE  /\ Read(s, kinds) \in Client /\ Same(s, Read(s, kinds), {"q"})
           /\ Read(s, kinds).q = <<>> /\ rest = <<>> /\ s.q = a
  <1>0. /\ s \in Client /\ rest \in Seq(Tokens) /\ a \in Seq(Tokens)
        /\ s.q \o rest = a /\ Len(a) <= Len(s.q)
        /\ kinds \in Seq(FieldKinds) /\ Len(kinds) = Len(a) /\ \A i \in 1 .. Len(a) : a[i].k = kinds[i]
    BY DEF FitsAll
  <1>1. \A i \in 1 .. Len(kinds) : (s.q \o rest)[i].k = kinds[i]
    BY <1>0
  <1>2. /\ Read(s, kinds) \in Client /\ Same(s, Read(s, kinds), {"q"})
        /\ Read(s, kinds).q \o rest = SubSeq(s.q \o rest, Len(kinds) + 1, Len(s.q \o rest))
    BY <1>0, <1>1, ReadFacts
  <1>3. SubSeq(a, Len(a) + 1, Len(a)) = <<>>
    BY <1>0, SubSeqEmpty, LenProperties
  <1>4. Read(s, kinds).q = <<>> /\ rest = <<>>
    <2>1. Read(s, kinds).q \in Seq(Tokens) /\ Read(s, kinds).q \o rest = <<>>
      BY <1>0, <1>2, <1>3, QueueFacts
    <2>2. Len(Read(s, kinds).q) + Len(rest) = 0
      BY <1>0, <2>1, SplitFacts, LenProperties
    <2> QED BY <1>0, <2>1, <2>2, LenProperties, EmptySeq
  <1>5. s.q \o <<>> = s.q
    BY <1>0, QueueFacts, ConcatEmptySeq
  <1> QED BY <1>0, <1>2, <1>4, <1>5

\* What is in the queue is what comes first.
LEMMA QueueIsFirst ==
    ASSUME NEW s \in Client, NEW rest \in Seq(Tokens), NEW a \in Seq(Tokens), NEW y \in Seq(Tokens),
           s.q \o rest = a \o y
    PROVE  /\ Len(s.q) + Len(rest) = Len(a) + Len(y)
           /\ \A i \in 1 .. Len(s.q) : i <= Len(a) => s.q[i] = a[i]
           /\ s.q # <<>> /\ Len(a) >= 1 => Head(s.q) = a[1]
  <1>1. s.q \in Seq(Tokens) /\ Len(s.q) \in Nat /\ Len(a) \in Nat
    BY QueueFacts, LenProperties
  <1>2. Len(s.q \o rest) = Len(s.q) + Len(rest) /\ \A i \in 1 .. Len(s.q) : (s.q \o rest)[i] = s.q[i]
    BY <1>1, SplitFacts
  <1>3. Len(a \o y) = Len(a) + Len(y) /\ \A i \in 1 .. Len(a) : (a \o y)[i] = a[i]
    BY SplitFacts
  <1>4. \A i \in 1 .. Len(s.q) : i <= Len(a) => s.q[i] = a[i]
    BY <1>1, <1>2, <1>3
  <1>5. s.q # <<>> /\ Len(a) >= 1 => Head(s.q) = a[1]
    BY <1>1, <1>4
  <1> QED BY <1>2, <1>3, <1>4, <1>5

----------------------------------------------------------------------------
(***************************************************************************)
(* What the server sends.                                                  *)
(***************************************************************************)

LEMMA PeerFacts ==
    ASSUME NEW server \in Peers
    PROVE  /\ server.version \in Versions /\ server.types \in Seq(Types) /\ server.subs \in Seq(SubTypes)
           /\ server.venTypes \in Seq(Types) /\ server.types \in Seq(Values) /\ server.subs \in Seq(Values)
           /\ server.venTypes \in Seq(Values)
           /\ server.accepts \in BOOLEAN /\ server.explains \in BOOLEAN /\ server.tight \in BOOLEAN
           /\ server.tunnels \in {"none", "notunnel", "siemens", "other"}
           /\ server.ven \in {"ok", "other", "failed"} /\ server.ra2 \in {"user", "password"}
           /\ server.ven \in Values /\ server.ra2 \in Values
           /\ Len(server.types) \in Nat /\ (server.types = <<>> <=> Len(server.types) = 0)
           /\ Len(server.subs) \in Nat /\ (server.subs = <<>> <=> Len(server.subs) = 0)
           /\ Len(server.venTypes) \in Nat /\ (server.venTypes = <<>> <=> Len(server.venTypes) = 0)
  <1>1. /\ server.version \in Versions /\ server.types \in Seq(Types) /\ server.subs \in Seq(SubTypes)
        /\ server.venTypes \in Seq(Types)
        /\ server.accepts \in BOOLEAN /\ server.explains \in BOOLEAN /\ server.tight \in BOOLEAN
        /\ server.tunnels \in {"none", "notunnel", "siemens", "other"}
        /\ server.ven \in {"ok", "other", "failed"} /\ server.ra2 \in {"user", "password"}
    BY DEF Peers
  <1>2. /\ Types \subseteq Values /\ SubTypes \subseteq Values
        /\ {"ok", "other", "failed"} \subseteq Values /\ {"user", "password"} \subseteq Values
    BY DEF Values
  <1>3. /\ server.types \in Seq(Values) /\ server.subs \in Seq(Values) /\ server.venTypes \in Seq(Values)
    BY <1>1, <1>2, SeqMonotonic
  <1> QED BY <1>1, <1>2, <1>3, EmptySeq, LenProperties

LEMMA ReasonFacts ==
    ASSUME NEW server \in Peers
    PROVE  /\ Reason(server) \in Seq(Tokens)
           /\ server.explains => Len(Reason(server)) = 2 /\ Reason(server)[1].n = 1 /\ Reason(server)[2].k = "reason"
           /\ ~server.explains => Len(Reason(server)) = 1 /\ Reason(server)[1].n = 0
           /\ Reason(server)[1].k = "length"
  <1>1. "length" \in FieldKinds /\ "reason" \in FieldKinds /\ 0 \in Nat /\ 1 \in Nat
    BY DEF FieldKinds
  <1>2. /\ N("length", 1) \in Tokens /\ N("length", 1).k = "length" /\ N("length", 1).n = 1
        /\ N("length", 0) \in Tokens /\ N("length", 0).k = "length" /\ N("length", 0).n = 0
        /\ T("reason") \in Tokens /\ T("reason").k = "reason"
    BY <1>1, TokenFacts
  <1>3. CASE server.explains
    BY <1>2, <1>3 DEF Reason
  <1>4. CASE ~server.explains
    BY <1>2, <1>4 DEF Reason
  <1> QED BY <1>3, <1>4

\* The verdict and, from version 3.8 on, the reason of a refusal.
LEMMA ResultFacts ==
    ASSUME NEW server \in Peers
    PROVE  \E verdict \in Values, tail \in Seq(Tokens) :
             /\ Result(server) = <<V("result", verdict)>> \o tail /\ Result(server) \in Seq(Tokens)
             /\ server.accepts => verdict = "ok" /\ tail = <<>>
             /\ ~server.accepts => verdict = "failed" /\ tail = IF server.version = "3.8" THEN Reason(server) ELSE <<>>
  <1>1. "result" \in FieldKinds /\ "ok" \in Values /\ "failed" \in Values
    BY DEF FieldKinds, Values
  <1>2. V("result", "ok") \in Tokens /\ V("result", "failed") \in Tokens
    BY <1>1, TokenFacts
  <1>3. <<V("result", "ok")>> \in Seq(Tokens) /\ <<V("result", "failed")>> \in Seq(Tokens) /\ <<>> \in Seq(Tokens)
    BY <1>2
  <1>4. CASE server.accepts
    <2>1. Result(server) = <<V("result", "ok")>>
      BY <1>4 DEF Result
    <2>2. Result(server) = <<V("result", "ok")>> \o <<>>
      BY <1>3, <2>1, ConcatEmptySeq
    <2> QED BY <1>1, <1>3, <1>4, <2>1, <2>2
  <1>5. CASE ~server.accepts
    <2> DEFINE tail == IF server.version = "3.8" THEN Reason(server) ELSE <<>>
    <2>1. tail \in Seq(Tokens)
      BY <1>3, ReasonFacts
    <2>2. Result(server) = <<V("result", "failed")>> \o tail
      BY <1>5 DEF Result
    <2> HIDE DEF tail
    <2>3. Result(server) \in Seq(Tokens)
      BY <1>3, <2>1, <2>2, SplitFacts
    <2> QED BY <1>1, <1>5, <2>1, <2>2, <2>3 DEF tail
  <1> QED BY <1>4, <1>5

LEMMA ServerInitFacts ==
    ASSUME NEW server \in Peers
    PROVE  /\ Reply(server, ServerInit) \in Seq(Tokens)
           /\ Len(Reply(server, ServerInit)) = IF server.tight THEN 4 ELSE 2
           /\ Reply(server, ServerInit)[1].k = "size" /\ Reply(server, ServerInit)[2].k = "name"
           /\ server.tight => /\ Reply(server, ServerInit)[3].k = "tightinit"
                              /\ Reply(server, ServerInit)[4].k = "tightcaps"
  <1>1. {"size", "name", "tightinit", "tightcaps"} \subseteq FieldKinds
    BY DEF FieldKinds
  <1>2. /\ T("size") \in Tokens /\ T("name") \in Tokens /\ T("tightinit") \in Tokens /\ T("tightcaps") \in Tokens
        /\ T("size").k = "size" /\ T("name").k = "name" /\ T("tightinit").k = "tightinit"
        /\ T("tightcaps").k = "tightcaps"
    BY <1>1, TokenFacts
  <1>3. /\ ServerInit.m = "init"
        /\ Reply(server, ServerInit) =
             <<T("size"), T("name")>> \o IF server.tight THEN <<T("tightinit"), T("tightcaps")>> ELSE <<>>
    BY DEF ServerInit, Reply
  <1>4. CASE server.tight
    BY <1>2, <1>3, <1>4
  <1>5. CASE ~server.tight
    <2>1. <<T("size"), T("name")>> \in Seq(Tokens)
      BY <1>2
    <2>2. Reply(server, ServerInit) = <<T("size"), T("name")>>
      BY <1>3, <1>5, <2>1, ConcatEmptySeq
    <2> QED BY <1>2, <1>5, <2>2
  <1> QED BY <1>4, <1>5

\* What opens each kind of authentication.
LEMMA SubAuthFacts ==
    ASSUME NEW server \in Peers
    PROVE  \E y \in Seq(Tokens) :
             /\ SubAuths(server) = ListOf("subs", "sub", server.subs) \o y /\ SubAuths(server) \in Seq(Tokens)
             /\ y = IF server.subs = <<>> THEN Result(server) ELSE <<>>
  <1> DEFINE y == IF server.subs = <<>> THEN Result(server) ELSE <<>>
  <1>1. y \in Seq(Tokens)
    BY ResultFacts, EmptySeq
  <1>2. ListOf("subs", "sub", server.subs) \in Seq(Tokens)
    <2>1. server.subs \in Seq(Values)
      BY PeerFacts
    <2>2. "subs" \in FieldKinds /\ "sub" \in FieldKinds
      BY DEF FieldKinds
    <2> QED BY <2>1, <2>2, ListFacts
  <1>3. SubAuths(server) = ListOf("subs", "sub", server.subs) \o y
    BY DEF SubAuths
  <1> HIDE DEF y
  <1>4. SubAuths(server) \in Seq(Tokens)
    BY <1>1, <1>2, <1>3, SplitFacts
  <1> QED BY <1>1, <1>3, <1>4 DEF y

Offered(server) == IF server.tunnels = "none" THEN <<>> ELSE <<server.tunnels>>
LEMMA TunnelFacts ==
    ASSUME NEW server \in Peers
    PROVE  /\ Offered(server) \in Seq(Values) /\ Tunnels(server) = ListOf("tunnels", "tunnel", Offered(server))
           /\ Tunnels(server) \in Seq(Tokens)
           /\ \E y \in Seq(Tokens) :
                /\ Begins(server, "Tight") = Tunnels(server) \o y /\ Begins(server, "Tight") \in Seq(Tokens)
                /\ y = IF server.tunnels = "none" THEN SubAuths(server) ELSE <<>>
  <1> DEFINE y == IF server.tunnels = "none" THEN SubAuths(server) ELSE <<>>
  <1>1. y \in Seq(Tokens)
    BY SubAuthFacts, EmptySeq
  <1>2. Offered(server) \in Seq(Values)
    <2>1. server.tunnels \in Values
      <3>1. server.tunnels \in {"none", "notunnel", "siemens", "other"}
        BY PeerFacts
      <3> QED BY <3>1 DEF Values
    <2>2. <<server.tunnels>> \in Seq(Values) /\ <<>> \in Seq(Values)
      BY <2>1
    <2> QED BY <2>2 DEF Offered
  <1>3. Tunnels(server) = ListOf("tunnels", "tunnel", Offered(server))
    BY DEF Tunnels, Offered
  <1>4. Tunnels(server) \in Seq(Tokens)
    <2>1. "tunnels" \in FieldKinds /\ "tunnel" \in FieldKinds
      BY DEF FieldKinds
    <2>2. ListOf("tunnels", "tunnel", Offered(server)) \in Seq(Tokens)
      BY <1>2, <2>1, ListFacts
    <2> QED BY <1>3, <2>2
  <1>5. Begins(server, "Tight") = Tunnels(server) \o y
    BY DEF Begins
  <1> HIDE DEF y
  <1>6. Begins(server, "Tight") \in Seq(Tokens)
    BY <1>1, <1>4, <1>5, SplitFacts
  <1> QED BY <1>1, <1>2, <1>3, <1>4, <1>5, <1>6 DEF y

LEMMA BeginsFacts ==
    ASSUME NEW server \in Peers, NEW scheme
    PROVE  Begins(server, scheme) \in Seq(Tokens)
  <1>1. \A k \in FieldKinds : T(k) \in Tokens
    BY TokenFacts
  <1>2. /\ T("challenge") \in Tokens /\ T("dh") \in Tokens /\ T("generator") \in Tokens /\ T("keys") \in Tokens
        /\ T("keylength") \in Tokens /\ T("key") \in Tokens /\ V("venversion", server.ven) \in Tokens
    BY <1>1, PeerFacts, TokenFacts DEF FieldKinds
  <1>3. /\ <<T("challenge")>> \in Seq(Tokens) /\ <<T("dh")>> \in Seq(Tokens) /\ <<V("venversion", server.ven)>> \in Seq(Tokens)
        /\ <<T("generator"), T("keys")>> \in Seq(Tokens) /\ <<T("keylength"), T("key")>> \in Seq(Tokens)
        /\ <<>> \in Seq(Tokens)
    BY <1>2
  <1>4. CASE scheme = "Tight"
    BY <1>4, TunnelFacts
  <1>5. CASE scheme = "None"
    BY <1>3, <1>5, ResultFacts DEF Begins
  <1>6. CASE scheme \notin {"Tight", "None"}
    <2>1. Begins(server, scheme) \in {<<T("challenge")>>, <<T("dh")>>, <<V("venversion", server.ven)>>,
                                      <<T("generator"), T("keys")>>, <<T("keylength"), T("key")>>, <<>>}
      BY <1>6 DEF Begins
    <2> QED BY <1>3, <2>1
  <1> QED BY <1>4, <1>5, <1>6

LEMMA SecurityFacts ==
    ASSUME NEW server \in Peers
    PROVE  \E y \in Seq(Tokens) :
      /\ Security(server) \in Seq(Tokens)
      /\ server.version # "3.3" =>
           /\ Security(server) = ListOf("types", "type", server.types) \o y
           /\ y = IF server.types = <<>> THEN Reason(server) ELSE <<>>
      /\ server.version = "3.3" =>
           \E value \in Values :
             /\ Security(server) = <<V("scheme", value)>> \o y
             /\ server.types = <<>> => value = "0" /\ y = Reason(server)
             /\ server.types # <<>> => value = Head(server.types) /\ y = Begins(server, Head(server.types))
  <1>1. "0" \in Values /\ "scheme" \in FieldKinds /\ "types" \in FieldKinds /\ "type" \in FieldKinds
    BY DEF Values, FieldKinds
  <1>2. server.types \in Seq(Values) /\ (server.types # <<>> => Head(server.types) \in Values)
    BY PeerFacts
  <1>3. Reason(server) \in Seq(Tokens) /\ <<>> \in Seq(Tokens)
    BY ReasonFacts
  <1>4. ASSUME NEW value \in Values PROVE <<V("scheme", value)>> \in Seq(Tokens)
    BY <1>1, TokenFacts
  <1>5. CASE server.version # "3.3"
    <2> DEFINE y == IF server.types = <<>> THEN Reason(server) ELSE <<>>
    <2>1. y \in Seq(Tokens)
      BY <1>3
    <2>2. Security(server) = ListOf("types", "type", server.types) \o y
      BY <1>5 DEF Security
    <2> HIDE DEF y
    <2>3. Security(server) \in Seq(Tokens)
      BY <1>1, <1>2, <2>1, <2>2, ListFacts, SplitFacts
    <2> QED BY <1>5, <2>1, <2>2, <2>3 DEF y
  <1>6. CASE server.version = "3.3" /\ server.types = <<>>
    <2>1. Security(server) = <<V("scheme", "0")>> \o Reason(server)
      BY <1>6 DEF Security
    <2>2. Security(server) \in Seq(Tokens)
      BY <1>1, <1>3, <1>4, <2>1, SplitFacts
    <2> QED BY <1>1, <1>3, <1>6, <2>1, <2>2
  <1>7. CASE server.version = "3.3" /\ server.types # <<>>
    <2> DEFINE y == Begins(server, Head(server.types))
    <2>1. Security(server) = <<V("scheme", Head(server.types))>> \o y
      BY <1>7 DEF Security
    <2>2. y \in Seq(Tokens)
      BY BeginsFacts
    <2> HIDE DEF y
    <2>3. Security(server) \in Seq(Tokens)
      BY <1>2, <1>4, <1>7, <2>1, <2>2, SplitFacts
    <2> QED BY <1>2, <1>7, <2>1, <2>2, <2>3 DEF y
  <1> QED BY <1>5, <1>6, <1>7

----------------------------------------------------------------------------
(***************************************************************************)
(* The ways a connection is given up.                                      *)
(***************************************************************************)

\* What the application was told so far.
LEMMA SeenFacts ==
    /\ ~Contains(<<>>, "connect") /\ ~Contains(<<>>, "disconnect")
    /\ Contains(<<"connect">>, "connect") /\ ~Contains(<<"connect">>, "disconnect")
    /\ ~Contains(<<"disconnect">>, "connect") /\ Contains(<<"disconnect">>, "disconnect")
    /\ ~Contains(<<"securityfailure">>, "connect") /\ ~Contains(<<"securityfailure">>, "disconnect")
    /\ Contains(<<"connect", "disconnect">>, "connect") /\ Contains(<<"connect", "disconnect">>, "disconnect")
    /\ ~Contains(<<"securityfailure", "disconnect">>, "connect")
    /\ Contains(<<"securityfailure", "disconnect">>, "disconnect")
    /\ Append(<<>>, "connect") = <<"connect">> /\ Append(<<>>, "disconnect") = <<"disconnect">>
    /\ Append(<<>>, "securityfailure") = <<"securityfailure">>
    /\ Append(<<"connect">>, "disconnect") = <<"connect", "disconnect">>
    /\ Append(<<"securityfailure">>, "disconnect") = <<"securityfailure", "disconnect">>
  <1>1. /\ ~Contains(<<>>, "connect") /\ ~Contains(<<>>, "disconnect")
        /\ Contains(<<"connect">>, "connect") /\ ~Contains(<<"connect">>, "disconnect")
        /\ ~Contains(<<"disconnect">>, "connect") /\ Contains(<<"disconnect">>, "disconnect")
        /\ ~Contains(<<"securityfailure">>, "connect") /\ ~Contains(<<"securityfailure">>, "disconnect")
    BY DEF Contains
  <1>2. Contains(<<"connect", "disconnect">>, "connect") /\ Contains(<<"connect", "disconnect">>, "disconnect")
    BY DEF Contains
  <1>3. /\ ~Contains(<<"securityfailure", "disconnect">>, "connect")
        /\ Contains(<<"securityfailure", "disconnect">>, "disconnect")
    BY DEF Contains
  <1>4. /\ Append(<<>>, "connect") = <<"connect">> /\ Append(<<>>, "disconnect") = <<"disconnect">>
        /\ Append(<<>>, "securityfailure") = <<"securityfailure">>
    OBVIOUS
  <1>5. \A a \in Events, b \in Events : Append(<<a>>, b) = <<a, b>>
    <2> TAKE a \in Events, b \in Events
    <2>1. <<a>> \in Seq(Events) /\ <<a, b>> \in Seq(Events) /\ Len(<<a>>) = 1 /\ Len(<<a, b>>) = 2
      OBVIOUS
    <2>2. /\ Append(<<a>>, b) \in Seq(Events) /\ Len(Append(<<a>>, b)) = 2
          /\ \A i \in 1 .. 1 : Append(<<a>>, b)[i] = <<a>>[i]
          /\ Append(<<a>>, b)[2] = b
      BY <2>1, AppendProperties
    <2>3. \A i \in 1 .. 2 : Append(<<a>>, b)[i] = <<a, b>>[i]
      BY <2>2
    <2> QED BY <2>1, <2>2, <2>3, SeqEqual
  <1> QED BY <1>1, <1>2, <1>3, <1>4, <1>5 DEF Events

Closing(chan) == IF chan \in {"connecting", "open"} THEN "closing" ELSE chan
Open == {"connecting", "connected"}

LEMMA LeavingStaysClient ==
    ASSUME NEW s \in Client
    PROVE  [s EXCEPT !.conn = "disconnecting", !.timer = TRUE] \in Client
  BY DEF Client

LEMMA DisconnectingFacts ==
    ASSUME NEW s \in Client
    PROVE  /\ Disconnecting(s) \in Client
           /\ s.conn \notin Open => Disconnecting(s) = s
           /\ s.conn \in Open =>
                /\ Same(s, Disconnecting(s), {"conn", "grabbed", "attached", "listening", "chan", "timer"})
                /\ Disconnecting(s).conn = "disconnecting" /\ Disconnecting(s).timer = TRUE
                /\ Disconnecting(s).grabbed = FALSE /\ Disconnecting(s).attached = FALSE
                /\ Disconnecting(s).listening = FALSE /\ Disconnecting(s).chan = Closing(s.chan)
  <1> DEFINE chan == Closing(s.chan)
  <1>1. chan \in {"connecting", "open", "closing", "closed"}
    BY DEF Client, Closing
  <1>2. Detach(s) = [s EXCEPT !.grabbed = FALSE, !.attached = FALSE, !.listening = FALSE, !.chan = chan]
    BY DEF Detach, Closing
  <1> HIDE DEF chan
  <1>3. CASE s.conn \in Open
    <2>1. Disconnecting(s) = [Detach(s) EXCEPT !.conn = "disconnecting", !.timer = TRUE]
      BY <1>3 DEF Disconnecting, Open
    <2>2. Disconnecting(s) = [s EXCEPT !.grabbed = FALSE, !.attached = FALSE, !.listening = FALSE,
                                       !.chan = chan, !.conn = "disconnecting", !.timer = TRUE]
      BY <1>2, <2>1
    <2>3. Disconnecting(s) \in Client
      <3>0. [s EXCEPT !.grabbed = FALSE, !.attached = FALSE, !.listening = FALSE, !.chan = chan] \in Client
        BY <1>1, ZenonT(60) DEF Client
      <3>1. Detach(s) \in Client
        BY <1>2, <3>0
      <3> QED BY <2>1, <3>1, LeavingStaysClient
    <2> HIDE <1>2, <2>1
    <2>4. /\ Disconnecting(s).conn = "disconnecting" /\ Disconnecting(s).timer = TRUE
          /\ Disconnecting(s).grabbed = FALSE /\ Disconnecting(s).attached = FALSE
          /\ Disconnecting(s).listening = FALSE /\ Disconnecting(s).chan = chan
      BY <2>2 DEF Client
    <2>5. Same(s, Disconnecting(s), {"conn", "grabbed", "attached", "listening", "chan", "timer"})
      BY <2>2 DEF Client, Same, Parts
    <2> QED BY <1>3, <2>3, <2>4, <2>5 DEF chan
  <1>4. CASE s.conn \notin Open
    BY <1>4 DEF Disconnecting, Open
  <1> QED BY <1>3, <1>4

\* The negotiation of RA2 ends where it waits, or nothing happens to it.
MayEnd(s, t) ==
    \/ t.init = s.init /\ t.ra2 = s.ra2
    \/ s.ra2 \in Waiting /\ t.ra2 = "none" /\ t.init = "SecurityResult"

LEMMA EndRA2Facts ==
    ASSUME NEW s \in Client
    PROVE  /\ EndRA2(s) \in Client /\ Same(s, EndRA2(s), {"ra2", "init"})
           /\ EndRA2(s).ra2 = "none" /\ EndRA2(s).init = "SecurityResult"
  <1>1. EndRA2(s) \in Client
    BY DEF EndRA2, Client, InitStates
  <1>2. Same(s, EndRA2(s), {"ra2", "init"})
    BY DEF EndRA2, Client, Same, Parts
  <1>3. EndRA2(s).ra2 = "none" /\ EndRA2(s).init = "SecurityResult"
    BY DEF EndRA2, Client
  <1> QED BY <1>1, <1>2, <1>3

LEMMA SetOn ==
    ASSUME NEW s \in Client, NEW on \in SUBSET {"open", "message", "close"}
    PROVE  /\ [s EXCEPT !.on = on] \in Client /\ Same(s, [s EXCEPT !.on = on], {"on"})
           /\ [s EXCEPT !.on = on].on = on
  <1>1. [s EXCEPT !.on = on] \in Client
    BY DEF Client
  <1>2. Same(s, [s EXCEPT !.on = on], {"on"})
    BY DEF Client, Same, Parts
  <1>3. [s EXCEPT !.on = on].on = on
    BY DEF Client
  <1> QED BY <1>1, <1>2, <1>3

LEMMA DisconnectFacts ==
    ASSUME NEW s \in Client
    PROVE  /\ Disconnect(s) \in Client
           /\ MayEnd(s, Disconnect(s)) /\ Disconnect(s).on = s.on \ {"open", "message"}
           /\ s.conn \notin Open => Same(s, Disconnect(s), {"on", "ra2", "init"})
           /\ s.conn \in Open =>
                /\ Same(s, Disconnect(s), {"conn", "grabbed", "attached", "listening", "chan", "timer",
                                           "on", "ra2", "init"})
                /\ Disconnect(s).conn = "disconnecting" /\ Disconnect(s).timer = TRUE
                /\ Disconnect(s).grabbed = FALSE /\ Disconnect(s).attached = FALSE
                /\ Disconnect(s).listening = FALSE /\ Disconnect(s).chan = Closing(s.chan)
  <1> DEFINE u == Disconnecting(s)
             on == u.on \ {"open", "message"}
             t == [u EXCEPT !.on = on]
             e == EndRA2(t)
  <1>1. u \in Client
    BY DisconnectingFacts
  <1>2. u.on = s.on /\ u.ra2 = s.ra2 /\ u.init = s.init
    <2>1. CASE s.conn \notin Open
      BY <2>1, DisconnectingFacts
    <2>2. CASE s.conn \in Open
      <3>1. Same(s, u, {"conn", "grabbed", "attached", "listening", "chan", "timer"})
        BY <2>2, DisconnectingFacts
      <3> HIDE DEF u
      <3> QED BY <3>1 DEF Same, Parts
    <2> QED BY <2>1, <2>2
  <1>3. Disconnect(s) = IF t.ra2 \in Waiting THEN EndRA2(t) ELSE t
    BY DEF Disconnect
  <1>4. on \in SUBSET {"open", "message", "close"}
    BY <1>1 DEF Client
  <1> HIDE DEF u, on
  <1>5. t \in Client /\ Same(u, t, {"on"}) /\ t.on = on
    BY <1>1, <1>4, SetOn
  <1> HIDE DEF t
  <1>6. e \in Client /\ Same(t, e, {"ra2", "init"}) /\ e.ra2 = "none" /\ e.init = "SecurityResult"
    BY <1>5, EndRA2Facts
  <1> HIDE DEF e
  <1>7. Disconnect(s) = IF t.ra2 \in Waiting THEN e ELSE t
    BY <1>3 DEF e
  <1>8. Disconnect(s) \in Client /\ Disconnect(s).on = on /\ Same(u, Disconnect(s), {"on", "ra2", "init"})
    BY <1>5, <1>6, <1>7 DEF Same, Parts
  <1>9. MayEnd(u, Disconnect(s))
    BY <1>5, <1>6, <1>7 DEF MayEnd, Same, Parts
  <1>10. MayEnd(s, Disconnect(s)) /\ on = s.on \ {"open", "message"}
    BY <1>2, <1>9 DEF MayEnd, on
  <1> HIDE <1>2, <1>3, <1>5, <1>6, <1>7
  <1>11. CASE s.conn \notin Open
    <2>1. u = s
      BY <1>11, DisconnectingFacts DEF u
    <2> QED BY <1>8, <1>10, <1>11, <2>1
  <1>12. CASE s.conn \in Open
    BY <1>8, <1>10, <1>12, DisconnectingFacts DEF Same, Parts, u
  <1> QED BY <1>11, <1>12

\* The application is told of an event, and does nothing yet.
Told(s, event) ==
    [s EXCEPT !.seen = IF event \in Requests \cup {"desktopname"} THEN @ ELSE Append(@, event),
              !.late = IF Contains(s.seen, "disconnect") THEN @ \cup {event} ELSE @,
              !.asked = @ \/ event \in Requests]

LEMMA ToldFacts ==
    ASSUME NEW s \in Client, NEW event \in Events
    PROVE  /\ Told(s, event) \in Client /\ Same(s, Told(s, event), {"seen", "late", "asked"})
           /\ event \in Requests => Told(s, event).seen = s.seen /\ Told(s, event).asked = TRUE
           /\ event \notin Requests => Told(s, event).asked = s.asked
           /\ event = "desktopname" => Told(s, event).seen = s.seen
           /\ event \notin Requests \cup {"desktopname"} => Told(s, event).seen = Append(s.seen, event)
           /\ Told(s, event).late \subseteq s.late \cup {event}
           /\ ~Contains(s.seen, "disconnect") => Told(s, event).late = s.late
           /\ Dispatch(s, event) = IF event = quits THEN Disconnect(Told(s, event)) ELSE Told(s, event)
  <1> DEFINE seen == IF event \in Requests \cup {"desktopname"} THEN s.seen ELSE Append(s.seen, event)
             late == IF Contains(s.seen, "disconnect") THEN s.late \cup {event} ELSE s.late
             asked == s.asked \/ event \in Requests
  <1>1. s.seen \in Seq(Events) /\ s.late \subseteq Events /\ s.asked \in BOOLEAN
    BY DEF Client
  <1>2. Append(s.seen, event) \in Seq(Events)
    BY <1>1, AppendProperties
  <1>3. seen \in Seq(Events) /\ late \in SUBSET Events /\ asked \in BOOLEAN
    BY <1>1, <1>2
  <1>4. Told(s, event) = [s EXCEPT !.seen = seen, !.late = late, !.asked = asked]
    BY DEF Told
  <1>5. /\ event \in Requests => seen = s.seen /\ asked = TRUE
        /\ event \notin Requests => asked = s.asked
        /\ event = "desktopname" => seen = s.seen
        /\ event \notin Requests \cup {"desktopname"} => seen = Append(s.seen, event)
        /\ late \subseteq s.late \cup {event}
        /\ ~Contains(s.seen, "disconnect") => late = s.late
    BY <1>1
  <1>6. Dispatch(s, event) = IF event = quits THEN Disconnect(Told(s, event)) ELSE Told(s, event)
    BY DEF Dispatch, Told
  <1> HIDE DEF seen, late, asked
  <1>7. Told(s, event) \in Client
    <2>1. [s EXCEPT !.seen = seen, !.late = late, !.asked = asked] \in Client
      BY <1>3 DEF Client
    <2> QED BY <1>4, <2>1
  <1>8. Same(s, Told(s, event), {"seen", "late", "asked"})
    BY <1>4 DEF Client, Same, Parts
  <1>9. Told(s, event).seen = seen /\ Told(s, event).late = late /\ Told(s, event).asked = asked
    BY <1>4 DEF Client
  <1> QED BY <1>5, <1>6, <1>7, <1>8, <1>9

LEMMA DisconnectedFacts ==
    ASSUME NEW s \in Client
    PROVE  /\ s.conn # "disconnecting" => Disconnected(s) = s
           /\ s.conn = "disconnecting" /\ ~Contains(s.seen, "disconnect") =>
                /\ Disconnected(s) \in Client /\ MayEnd(s, Disconnected(s))
                /\ Same(s, Disconnected(s), {"conn", "timer", "on", "seen", "ra2", "init"})
                /\ Disconnected(s).conn = "disconnected" /\ Disconnected(s).timer = FALSE
                /\ Disconnected(s).seen = Append(s.seen, "disconnect")
  <1> DEFINE on == IF s.timer THEN s.on \ {"close"} ELSE s.on
             u == [s EXCEPT !.conn = "disconnected", !.timer = FALSE, !.on = on]
             v == Told(u, "disconnect")
             t == Disconnected(s)
  <1>1. on \in SUBSET {"open", "message", "close"}
    BY DEF Client
  <1>2. s.conn = "disconnecting" => t = Dispatch(u, "disconnect")
    BY DEF Disconnected
  <1> HIDE DEF on
  <1>3. u \in Client
    BY <1>1 DEF Client
  <1>4. Same(s, u, {"conn", "timer", "on"})
    BY DEF Client, Same, Parts
  <1>5. u.conn = "disconnected" /\ u.timer = FALSE
    BY DEF Client
  <1> HIDE DEF u
  <1>6. "disconnect" \in Events /\ "disconnect" \notin Requests \cup {"desktopname"} /\ "disconnect" \notin Requests
    BY DEF Events, Requests
  <1>7. /\ v \in Client /\ Same(u, v, {"seen", "late", "asked"}) /\ v.asked = u.asked
        /\ v.seen = Append(u.seen, "disconnect")
        /\ ~Contains(u.seen, "disconnect") => v.late = u.late
        /\ Dispatch(u, "disconnect") = IF "disconnect" = quits THEN Disconnect(v) ELSE v
    BY <1>3, <1>6, ToldFacts
  <1> HIDE DEF v
  <1>8. u.seen = s.seen
    BY <1>4 DEF Same, Parts
  <1>9. v.conn = "disconnected" /\ v.timer = FALSE
    BY <1>5, <1>7 DEF Same, Parts
  <1>10. /\ Disconnect(v) \in Client /\ MayEnd(v, Disconnect(v)) /\ Same(v, Disconnect(v), {"on", "ra2", "init"})
    BY <1>7, <1>9, DisconnectFacts DEF Open
  <1>11. ASSUME s.conn = "disconnecting", ~Contains(s.seen, "disconnect")
         PROVE  /\ t \in Client /\ MayEnd(s, t) /\ Same(s, t, {"conn", "timer", "on", "seen", "ra2", "init"})
                /\ t.conn = "disconnected" /\ t.timer = FALSE /\ t.seen = Append(s.seen, "disconnect")
    <2>1. v.late = u.late /\ v.asked = u.asked /\ v.seen = Append(s.seen, "disconnect")
      BY <1>7, <1>8, <1>11
    <2>2. Same(s, v, {"conn", "timer", "on", "seen"})
      BY <1>4, <1>7, <2>1 DEF Same, Parts
    <2>3. t = Disconnect(v) \/ t = v
      BY <1>2, <1>7, <1>11
    <2>4. Same(v, t, {"on", "ra2", "init"}) /\ MayEnd(v, t) /\ t \in Client
      BY <1>7, <1>10, <2>3 DEF Same, MayEnd
    <2>5. Same(s, t, {"conn", "timer", "on", "seen", "ra2", "init"})
      BY <2>2, <2>4 DEF Same, Parts
    <2>6. t.conn = "disconnected" /\ t.timer = FALSE /\ t.seen = Append(s.seen, "disconnect")
      BY <1>9, <2>1, <2>4 DEF Same, Parts
    <2>7. v.init = s.init /\ v.ra2 = s.ra2
      BY <2>2 DEF Same, Parts
    <2> QED BY <2>4, <2>5, <2>6, <2>7 DEF MayEnd
  <1>12. s.conn # "disconnecting" => t = s
    BY DEF Disconnected
  <1> QED BY <1>11, <1>12

LEMMA FailFacts ==
    ASSUME NEW s \in Client, NEW why \in Reasons,
           s.conn = "disconnected" \/ ~Contains(s.seen, "disconnect")
    PROVE  /\ Fail(s, why) \in Client /\ MayEnd(s, Fail(s, why))
           /\ Fail(s, why).go = FALSE /\ Fail(s, why).clean = FALSE
           /\ Fail(s, why).why = IF s.conn \in Open THEN why ELSE s.why
           /\ s.conn = "disconnected" => Same(s, Fail(s, why), {"go", "clean", "why"})
           /\ s.conn # "disconnected" =>
                /\ Same(s, Fail(s, why), {"go", "clean", "why", "conn", "grabbed", "attached", "listening", "chan",
                                          "timer", "on", "seen", "ra2", "init"})
                /\ Fail(s, why).conn = "disconnected" /\ Fail(s, why).timer = FALSE
                /\ Fail(s, why).seen = Append(s.seen, "disconnect")
           /\ s.conn \in Open =>
                /\ Fail(s, why).grabbed = FALSE /\ Fail(s, why).attached = FALSE
                /\ Fail(s, why).listening = FALSE /\ Fail(s, why).chan = Closing(s.chan)
           /\ s.conn = "disconnecting" =>
                /\ Fail(s, why).grabbed = s.grabbed /\ Fail(s, why).attached = s.attached
                /\ Fail(s, why).listening = s.listening /\ Fail(s, why).chan = s.chan
  <1> DEFINE reason == IF s.conn \in Open THEN why ELSE s.why
             u == [s EXCEPT !.go = FALSE, !.clean = FALSE, !.why = reason]
             v == Disconnecting(u)
             t == Fail(s, why)
  <1>1. reason \in Reasons
    BY DEF Client
  <1>2. t = Disconnected(v)
    BY DEF Fail, Open
  <1> HIDE DEF reason
  <1>3. u \in Client
    BY <1>1 DEF Client
  <1>4. Same(s, u, {"go", "clean", "why"})
    BY DEF Client, Same, Parts
  <1>5. u.go = FALSE /\ u.clean = FALSE /\ u.why = reason
    BY DEF Client
  <1> HIDE DEF u
  <1>6. u.conn = s.conn /\ u.seen = s.seen /\ u.ra2 = s.ra2 /\ u.init = s.init /\ u.chan = s.chan
        /\ u.grabbed = s.grabbed /\ u.attached = s.attached /\ u.listening = s.listening
    BY <1>4 DEF Same, Parts
  <1> HIDE DEF v, t
  <1>7. s.conn \in Open \cup {"disconnecting", "disconnected"}
    BY DEF Client, Open
  <1>8. CASE s.conn = "disconnected"
    <2>1. v = u
      BY <1>3, <1>6, <1>8, DisconnectingFacts DEF v, Open
    <2>2. t = u
      BY <1>2, <1>3, <1>6, <1>8, <2>1, DisconnectedFacts
    <2> QED BY <1>3, <1>4, <1>5, <1>6, <1>8, <2>2 DEF MayEnd, Open, reason, t
  <1>9. CASE s.conn # "disconnected"
    <2>1. /\ v \in Client /\ v.conn = "disconnecting"
          /\ Same(u, v, {"conn", "grabbed", "attached", "listening", "chan", "timer"})
          /\ s.conn \in Open => v.grabbed = FALSE /\ v.attached = FALSE /\ v.listening = FALSE /\ v.chan = Closing(s.chan)
          /\ s.conn = "disconnecting" => v = u
      <3>1. CASE s.conn \in Open
        <4>1. u.conn \in Open /\ s.conn # "disconnecting" /\ u.chan = s.chan
          BY <1>6, <3>1 DEF Open
        <4>2. /\ v \in Client /\ v.conn = "disconnecting"
              /\ Same(u, v, {"conn", "grabbed", "attached", "listening", "chan", "timer"})
              /\ v.grabbed = FALSE /\ v.attached = FALSE /\ v.listening = FALSE /\ v.chan = Closing(u.chan)
          BY <1>3, <4>1, DisconnectingFacts DEF v
        <4> QED BY <4>1, <4>2
      <3>2. CASE s.conn = "disconnecting"
        <4>1. v = u
          BY <1>3, <1>6, <3>2, DisconnectingFacts DEF v, Open
        <4> QED BY <1>3, <1>6, <3>2, <4>1 DEF Same, Open
      <3> QED BY <1>7, <1>9, <3>1, <3>2
    <2>2. v.seen = s.seen /\ v.ra2 = s.ra2 /\ v.init = s.init
      BY <1>6, <2>1 DEF Same, Parts
    <2>3. ~Contains(v.seen, "disconnect")
      BY <1>9, <2>2
    <2>4. /\ t \in Client /\ MayEnd(v, t) /\ Same(v, t, {"conn", "timer", "on", "seen", "ra2", "init"})
          /\ t.conn = "disconnected" /\ t.timer = FALSE /\ t.seen = Append(v.seen, "disconnect")
      BY <1>2, <2>1, <2>3, DisconnectedFacts
    <2>5. MayEnd(s, t) /\ t.seen = Append(s.seen, "disconnect")
      BY <2>2, <2>4 DEF MayEnd
    <2>6. t.go = FALSE /\ t.clean = FALSE /\ t.why = reason
      BY <1>5, <2>1, <2>4 DEF Same, Parts
    <2>7. Same(s, t, {"go", "clean", "why", "conn", "grabbed", "attached", "listening", "chan",
                      "timer", "on", "seen", "ra2", "init"})
      BY <1>4, <2>1, <2>4 DEF Same, Parts
    <2>8. t.grabbed = v.grabbed /\ t.attached = v.attached /\ t.listening = v.listening /\ t.chan = v.chan
      BY <2>4 DEF Same, Parts
    <2> QED BY <1>6, <1>9, <2>1, <2>4, <2>5, <2>6, <2>7, <2>8 DEF Open, reason, t
  <1> QED BY <1>8, <1>9

\* What being given up leaves as it was.
Outside == {"conn", "grabbed", "attached", "timer", "go", "chan", "on", "listening", "seen", "clean", "late", "why"}
Left(s, t) ==
    /\ t \in Client /\ Same(s, t, Outside \cup {"init", "ra2"}) /\ MayEnd(s, t)
    /\ t.conn \in {"disconnecting", "disconnected"} /\ (Past(t) <=> Past(s))
    /\ s.conn = "disconnected" => t.conn = "disconnected"

LEMMA LeftHolds ==
    ASSUME NEW server \in Peers, NEW s \in Client, NEW t, Left(s, t),
           Legible(s), Turns(s), Place(server, s), Past(s) => s.init = "ServerInitialisation",
           Conns(t), Whys(server, t), t.grabbed => quits = "desktopname" \/ Stale(t),
           Alive(t) /\ ~Stale(t) => Heard(server, s),
           NEW v
    PROVE  /\ Hold(server, t, v)
           /\ Alive(t) /\ ~Stale(t) /\ Dry(s) => Dry(t)
  <1>1. /\ t.scheme = s.scheme /\ t.asked = s.asked /\ t.resumes = s.resumes /\ t.ard = s.ard
        /\ t.creds = s.creds /\ t.tight = s.tight /\ t.ven = s.ven /\ t.venLength = s.venLength
        /\ t.version = s.version /\ t.q = s.q /\ t.out = s.out /\ t.inStep = s.inStep
    BY DEF Left, Same, Parts, Outside
  <1>2. MayEnd(s, t) /\ t \in Client /\ t.conn \in {"disconnecting", "disconnected"}
    BY DEF Left
  <1>3. (Owing(t) <=> Owing(s)) /\ (Quiet(t) <=> Quiet(s)) /\ (Stale(t) <=> Stale(s))
        /\ \A fields : Lacks(t, fields) <=> Lacks(s, fields)
    BY <1>1 DEF Owing, Quiet, Stale, Lacks, Left
  <1>4. t.init = "SecurityResult" \/ t.init = s.init
    BY <1>2 DEF MayEnd
  <1>5. CASE t.init = s.init /\ t.ra2 = s.ra2
    <2>1. Turns(t)
      BY <1>1, <1>2, <1>3, <1>5 DEF Turns
    <2>2. Place(server, t)
      BY <1>1, <1>5 DEF Place, Untight
    <2>3. Dry(s) => Dry(t)
      BY <1>1, <1>5 DEF Dry
    <2>4. Heard(server, s) => Talk(server, t, v)
      <3>1. \A rest : Awaits(server, s, rest) => Awaits(server, t, rest)
        BY <1>1, <1>5 DEF Awaits, Ahead, OfScheme
      <3> QED BY <1>2, <3>1 DEF Talk, Heard
    <2>5. Legible(t)
      BY <1>1, <1>3, <1>5 DEF Legible, Cut, Left
    <2> QED BY <1>1, <1>2, <1>3, <2>1, <2>2, <2>3, <2>4, <2>5 DEF Hold, Base
  <1>6. CASE s.ra2 \in Waiting /\ t.ra2 = "none" /\ t.init = "SecurityResult"
    <2>1. s.ra2 # "none" /\ s.scheme = "RA2ne" /\ s.init = "Authentication"
      BY <1>6 DEF Turns, Waiting
    <2>2. Turns(t)
      BY <1>1, <1>2, <1>3, <1>6, <2>1 DEF Turns, Asking, Early
    <2>3. Place(server, t)
      BY <1>1, <1>6, <2>1 DEF Place, Untight, Early, Late
    <2>4. ASSUME Alive(t), ~Stale(t) PROVE Talk(server, t, v) /\ Dry(t)
      <3>1. Owing(s)
        BY <1>1, <1>2, <1>3, <1>6, <2>1, <2>4 DEF Alive, Turns
      <3>2. s.ra2 \in {"verify", "creds", "creds2"}
        BY <2>1, <3>1 DEF Turns
      <3>4. PICK rest \in Seq(Tokens) : Awaits(server, s, rest)
        BY <2>4 DEF Heard
      <3>5. s.q \o rest = <<>>
        BY <2>1, <3>2, <3>4 DEF Awaits, Ahead, OfScheme, OfRA2
      <3>6. s.q = <<>>
        BY <3>5, QueueFacts, ConcatEqualIffEmpty
      <3>7. Result(server) \in Seq(Tokens) /\ <<>> \o Result(server) = Result(server)
        BY ResultFacts, ConcatEmptySeq
      <3>8. Awaits(server, t, Result(server))
        BY <1>1, <1>6, <3>6, <3>7 DEF Awaits, Ahead
      <3>9. Dry(t)
        BY <1>1, <1>6, <3>6 DEF Dry
      <3> QED BY <1>2, <3>7, <3>8, <3>9 DEF Talk
    <2>5. Legible(t)
      BY <1>1, <1>3, <1>6 DEF Legible, Cut, Waiting
    <2> QED BY <1>1, <1>2, <1>3, <2>2, <2>3, <2>4, <2>5 DEF Hold, Base
  <1> QED BY <1>2, <1>5, <1>6 DEF MayEnd

LEMMA LeftAlive ==
    ASSUME NEW s \in Client, NEW t, Left(s, t)
    PROVE  (Alive(t) => Alive(s)) /\ (Stale(t) <=> Stale(s)) /\ (Owing(t) <=> Owing(s))
  <1>1. /\ t.scheme = s.scheme /\ t.asked = s.asked /\ t.resumes = s.resumes /\ t.ard = s.ard
        /\ t.conn # "connecting" /\ (t.ra2 = s.ra2 \/ t.ra2 = "none")
    BY DEF Left, Same, Parts, Outside, MayEnd
  <1> QED BY <1>1 DEF Alive, Stale, Owing, Left

LEMMA DisconnectHolds ==
    ASSUME NEW server \in Peers, NEW s, NEW w \in Seq(Tokens), Hold(server, s, w), NEW v
    PROVE  /\ Hold(server, Disconnect(s), v)
           /\ Alive(Disconnect(s)) /\ ~Stale(Disconnect(s)) /\ Dry(s) => Dry(Disconnect(s))
  <1> DEFINE t == Disconnect(s)
  <1>1. /\ s \in Client /\ Legible(s) /\ Conns(s) /\ Turns(s) /\ Place(server, s) /\ Whys(server, s)
        /\ s.conn \in {"disconnecting", "disconnected"} => (s.grabbed => quits = "desktopname" \/ Stale(s))
        /\ Alive(s) /\ ~Stale(s) => Talk(server, s, w)
    BY DEF Hold, Base
  <1>2. /\ t \in Client /\ MayEnd(s, t)
        /\ s.conn \notin Open => Same(s, t, {"on", "ra2", "init"})
        /\ s.conn \in Open =>
             /\ Same(s, t, {"conn", "grabbed", "attached", "listening", "chan", "timer", "on", "ra2", "init"})
             /\ t.conn = "disconnecting" /\ t.timer = TRUE /\ t.grabbed = FALSE /\ t.attached = FALSE
             /\ t.listening = FALSE /\ t.chan = Closing(s.chan)
    BY <1>1, DisconnectFacts
  <1> HIDE DEF t
  <1>3. s.conn \in {"connecting", "connected", "disconnecting", "disconnected"}
    BY <1>1 DEF Client
  <1>4. /\ t.seen = s.seen /\ t.late = s.late /\ t.why = s.why /\ t.clean = s.clean /\ t.scheme = s.scheme
    BY <1>2 DEF Same, Parts
  <1>5. Past(t) <=> Past(s)
    BY <1>4 DEF Past
  <1>6. Left(s, t)
    <2>1. Same(s, t, Outside \cup {"init", "ra2"})
      BY <1>2 DEF Same, Parts, Outside
    <2>2. t.conn \in {"disconnecting", "disconnected"}
      BY <1>2, <1>3 DEF Same, Parts, Open
    <2>3. s.conn = "disconnected" => t.conn = "disconnected"
      BY <1>2 DEF Same, Parts, Open
    <2> QED BY <1>2, <1>5, <2>1, <2>2, <2>3 DEF Left
  <1>7. (Alive(t) => Alive(s)) /\ (Stale(t) <=> Stale(s))
    BY <1>1, <1>6, LeftAlive
  <1>8. Past(s) => s.init = "ServerInitialisation" /\ t.init = s.init
    BY <1>1, <1>2 DEF Conns, Turns, MayEnd, Waiting
  <1>9. CASE s.conn \in Open
    <2>1. s.conn = "connecting" => ~Past(s)
      BY <1>1, SeenFacts DEF Conns, Past
    <2>2. Closing(s.chan) \in {"closing", "closed"} /\ (s.chan = "closed" => Closing(s.chan) = "closed")
      BY <1>1 DEF Closing, Client
    <2>3. Conns(t)
      BY <1>1, <1>2, <1>4, <1>5, <1>7, <1>8, <1>9, <2>2 DEF Conns, Open
    <2>4. Whys(server, t)
      BY <1>1, <1>2, <1>4, <1>5, <1>9, <2>1, <2>2 DEF Whys, Because
    <2> QED BY <1>1, <1>2, <1>6, <1>7, <1>8, <1>9, <2>3, <2>4, LeftHolds DEF t, Talk, Heard
  <1>10. CASE s.conn \notin Open
    <2>1. s.conn \in {"disconnecting", "disconnected"}
      BY <1>3, <1>10 DEF Open
    <2>2. /\ t.conn = s.conn /\ t.timer = s.timer /\ t.grabbed = s.grabbed /\ t.attached = s.attached
          /\ t.listening = s.listening /\ t.chan = s.chan
      BY <1>2, <1>10 DEF Same, Parts
    <2>3. Conns(t)
      BY <1>1, <1>4, <1>5, <1>7, <1>8, <2>1, <2>2 DEF Conns
    <2>4. Whys(server, t)
      BY <1>1, <1>4, <1>5, <2>1, <2>2 DEF Whys, Because
    <2> QED BY <1>1, <1>6, <1>7, <1>8, <2>1, <2>2, <2>3, <2>4, LeftHolds DEF t, Talk, Heard
  <1> QED BY <1>9, <1>10

\* The connection ends here, if it has not before.
Ended(s, t) ==
    /\ t \in Client /\ MayEnd(s, t) /\ Same(s, t, (Outside \ {"late"}) \cup {"init", "ra2"})
    /\ t.conn = "disconnected" /\ t.timer = FALSE
    /\ t.seen = IF s.conn = "disconnected" THEN s.seen ELSE Append(s.seen, "disconnect")
    /\ s.conn \in Open => /\ t.grabbed = FALSE /\ t.attached = FALSE /\ t.listening = FALSE
                          /\ t.chan = Closing(s.chan)
    /\ s.conn \notin Open => /\ t.grabbed = s.grabbed /\ t.attached = s.attached
                             /\ t.listening = s.listening /\ t.chan = s.chan

\* Of a connection that is about to end.
Standing(s) ==
    /\ s.conn = "connecting" => s.seen \in {<<>>, <<"securityfailure">>}
    /\ s.conn = "connected" => s.seen = <<"connect">>
    /\ s.conn = "disconnecting" => s.seen \in {<<>>, <<"connect">>, <<"securityfailure">>}
    /\ s.conn = "disconnected" => s.seen \in {<<"disconnect">>, <<"connect", "disconnect">>, <<"securityfailure", "disconnect">>}
    /\ s.conn \in {"disconnecting", "disconnected"} =>
         ~s.attached /\ ~s.listening /\ s.chan \in {"closing", "closed"}
    /\ s.late \subseteq Requests \/ Stale(s)
    /\ Past(s) => s.init = "ServerInitialisation"
    /\ Past(s) /\ ~Stale(s) => ~Alive(s)

LEMMA ConnsStand ==
    ASSUME NEW s \in Client, Conns(s)
    PROVE  Standing(s)
  BY DEF Conns, Standing

LEMMA StandingSeen ==
    ASSUME NEW s \in Client, Standing(s)
    PROVE  /\ s.conn \in Open \cup {"disconnecting", "disconnected"}
           /\ s.conn = "disconnected" <=> Contains(s.seen, "disconnect")
           /\ s.conn = "connecting" => ~Past(s)
           /\ s.conn # "disconnected" =>
                /\ Append(s.seen, "disconnect") \in {<<"disconnect">>, <<"connect", "disconnect">>,
                                                     <<"securityfailure", "disconnect">>}
                /\ Contains(Append(s.seen, "disconnect"), "connect") <=> Past(s)
  <1>1. s.conn \in {"connecting", "connected", "disconnecting", "disconnected"}
    BY DEF Client
  <1>2. CASE s.conn = "connecting"
    BY <1>2, SeenFacts DEF Standing, Past, Open
  <1>3. CASE s.conn = "connected"
    BY <1>3, SeenFacts DEF Standing, Past, Open
  <1>4. CASE s.conn = "disconnecting"
    BY <1>4, SeenFacts DEF Standing, Past, Open
  <1>5. CASE s.conn = "disconnected"
    BY <1>5, SeenFacts DEF Standing, Past, Open
  <1> QED BY <1>1, <1>2, <1>3, <1>4, <1>5

LEMMA EndedHolds ==
    ASSUME NEW server \in Peers, NEW s \in Client, Standing(s), Legible(s),
           Turns(s), Place(server, s), s.conn # "connecting" /\ Past(s) => server.accepts /\ server.types # <<>>,
           s.conn \in {"disconnecting", "disconnected"} => (s.grabbed => quits = "desktopname" \/ Stale(s)),
           Owing(s) \/ s.ra2 # "none" \/ s.ard # "none" => Stale(s) \/ Heard(server, s),
           NEW t, Ended(s, t), t.why # "none" => ~t.clean, Because(server, s, t.why),
           NEW v
    PROVE  /\ Hold(server, t, v)
           /\ Alive(t) /\ ~Stale(t) /\ Dry(s) => Dry(t)
  <1>1. /\ t \in Client /\ MayEnd(s, t) /\ Same(s, t, (Outside \ {"late"}) \cup {"init", "ra2"})
        /\ t.conn = "disconnected" /\ t.timer = FALSE
        /\ t.seen = IF s.conn = "disconnected" THEN s.seen ELSE Append(s.seen, "disconnect")
    BY DEF Ended
  <1>2. t.late = s.late /\ t.scheme = s.scheme
    BY <1>1 DEF Same, Parts, Outside
  <1>3. Past(t) <=> Past(s)
    BY <1>1, StandingSeen DEF Past
  <1>4. Left(s, t)
    <2>1. Same(s, t, Outside \cup {"init", "ra2"})
      BY <1>1 DEF Same
    <2> QED BY <1>1, <1>3, <2>1 DEF Left
  <1>5. (Alive(t) => Alive(s)) /\ (Stale(t) <=> Stale(s)) /\ (Owing(t) <=> Owing(s))
    BY <1>4, LeftAlive
  <1>6. Past(s) => s.init = "ServerInitialisation" /\ t.init = s.init
    BY <1>1 DEF Standing, Turns, MayEnd, Waiting
  <1>7. t.seen \in {<<"disconnect">>, <<"connect", "disconnect">>, <<"securityfailure", "disconnect">>}
    <2>1. CASE s.conn = "disconnected"
      BY <1>1, <2>1 DEF Standing
    <2>2. CASE s.conn # "disconnected"
      BY <1>1, <2>2, StandingSeen
    <2> QED BY <2>1, <2>2
  <1>8. ~t.attached /\ ~t.listening /\ t.chan \in {"closing", "closed"} /\ (s.chan = "closed" => t.chan = "closed")
    <2>1. CASE s.conn \in Open
      <3>1. Closing(s.chan) \in {"closing", "closed"} /\ (s.chan = "closed" => Closing(s.chan) = "closed")
        BY DEF Closing, Client
      <3> QED BY <2>1, <3>1 DEF Ended
    <2>2. CASE s.conn \notin Open
      BY <2>2, StandingSeen DEF Ended, Standing
    <2> QED BY <2>1, <2>2
  <1>9. t.grabbed => quits = "desktopname" \/ Stale(t)
    <2>1. CASE s.conn \in Open
      BY <2>1 DEF Ended
    <2>2. CASE s.conn \notin Open
      BY <1>5, <2>2, StandingSeen DEF Ended
    <2> QED BY <2>1, <2>2
  <1>10. Conns(t)
    BY <1>1, <1>2, <1>3, <1>5, <1>6, <1>7, <1>8 DEF Conns, Standing
  <1>11. Whys(server, t)
    <2>1. Because(server, t, t.why)
      BY <1>2, <1>8 DEF Because
    <2>2. Past(t) => server.accepts /\ server.types # <<>>
      BY <1>3, StandingSeen
    <2> QED BY <2>1, <2>2 DEF Whys
  <1>12. ASSUME Alive(t), ~Stale(t) PROVE Heard(server, s)
    <2>1. t.ard = s.ard /\ (t.ra2 = s.ra2 \/ t.ra2 = "none") /\ t.conn # "connecting"
      BY <1>1 DEF Same, Parts, Outside, MayEnd
    <2>2. Owing(s) \/ s.ra2 # "none" \/ s.ard # "none"
      BY <1>5, <1>12, <2>1 DEF Alive
    <2> QED BY <1>5, <1>12, <2>2
  <1> QED BY <1>4, <1>6, <1>9, <1>10, <1>11, <1>12, LeftHolds

LEMMA FailEnds ==
    ASSUME NEW s \in Client, NEW why \in Reasons, Standing(s), s.conn = "disconnected" => ~s.timer
    PROVE  /\ Ended(s, Fail(s, why)) /\ Fail(s, why).go = FALSE /\ Fail(s, why).clean = FALSE
           /\ Fail(s, why).why = IF s.conn \in Open THEN why ELSE s.why
  <1> DEFINE t == Fail(s, why)
  <1>1. s.conn = "disconnected" \/ ~Contains(s.seen, "disconnect")
    BY StandingSeen
  <1>2. /\ t \in Client /\ MayEnd(s, t) /\ t.go = FALSE /\ t.clean = FALSE
        /\ t.why = IF s.conn \in Open THEN why ELSE s.why
        /\ s.conn = "disconnected" => Same(s, t, {"go", "clean", "why"})
        /\ s.conn # "disconnected" =>
             /\ Same(s, t, {"go", "clean", "why", "conn", "grabbed", "attached", "listening", "chan",
                            "timer", "on", "seen", "ra2", "init"})
             /\ t.conn = "disconnected" /\ t.timer = FALSE /\ t.seen = Append(s.seen, "disconnect")
        /\ s.conn \in Open =>
             /\ t.grabbed = FALSE /\ t.attached = FALSE /\ t.listening = FALSE /\ t.chan = Closing(s.chan)
        /\ s.conn = "disconnecting" =>
             /\ t.grabbed = s.grabbed /\ t.attached = s.attached /\ t.listening = s.listening /\ t.chan = s.chan
    BY <1>1, FailFacts
  <1> HIDE DEF t
  <1>3. CASE s.conn = "disconnected"
    <2>1. Same(s, t, (Outside \ {"late"}) \cup {"init", "ra2"})
      BY <1>2, <1>3 DEF Same, Outside
    <2>2. /\ t.conn = s.conn /\ t.timer = s.timer /\ t.seen = s.seen /\ t.grabbed = s.grabbed
          /\ t.attached = s.attached /\ t.listening = s.listening /\ t.chan = s.chan
      BY <1>2, <1>3 DEF Same, Parts
    <2>3. s.timer \in BOOLEAN /\ t.timer \in BOOLEAN
      BY <1>2 DEF Client
    <2>4. t.timer = FALSE
      BY <1>3, <2>2, <2>3
    <2> QED BY <1>2, <1>3, <2>1, <2>2, <2>4 DEF Ended, Open, t
  <1>4. CASE s.conn # "disconnected"
    <2>1. Same(s, t, (Outside \ {"late"}) \cup {"init", "ra2"})
      BY <1>2, <1>4 DEF Same, Outside, Parts
    <2>2. s.conn \in Open \/ s.conn = "disconnecting"
      BY <1>4, StandingSeen
    <2> QED BY <1>2, <1>4, <2>1, <2>2 DEF Ended, Open, t
  <1> QED BY <1>3, <1>4

\* The timer, or the channel's close: it ends without a reason.
LEMMA DisconnectedEnds ==
    ASSUME NEW s \in Client, Standing(s), s.conn \in {"connected", "disconnecting"}
    PROVE  /\ Ended(s, Disconnected(Disconnecting(s)))
           /\ Disconnected(Disconnecting(s)).why = s.why /\ Disconnected(Disconnecting(s)).clean = s.clean
           /\ Disconnected(Disconnecting(s)).go = s.go
  <1> DEFINE v == Disconnecting(s)
             t == Disconnected(v)
  <1>1. /\ v \in Client /\ (s.conn \notin Open => v = s)
        /\ s.conn \in Open =>
                /\ Same(s, v, {"conn", "grabbed", "attached", "listening", "chan", "timer"})
                /\ v.conn = "disconnecting" /\ v.timer = TRUE
                /\ v.grabbed = FALSE /\ v.attached = FALSE
                /\ v.listening = FALSE /\ v.chan = Closing(s.chan)
    BY DisconnectingFacts
  <1> HIDE DEF v
  <1>2. s.conn \in Open => s.conn # "disconnecting"
    BY DEF Open
  <1>3. v.conn = "disconnecting" /\ Same(s, v, {"conn", "grabbed", "attached", "listening", "chan", "timer"})
    <2>1. CASE s.conn \in Open
      BY <1>1, <2>1
    <2>2. CASE s.conn \notin Open
      BY <1>1, <2>2 DEF Same, Open
    <2> QED BY <2>1, <2>2
  <1>4. v.seen = s.seen /\ v.ra2 = s.ra2 /\ v.init = s.init /\ v.why = s.why /\ v.clean = s.clean /\ v.go = s.go
    BY <1>3 DEF Same, Parts
  <1>5. ~Contains(v.seen, "disconnect")
    BY <1>4, StandingSeen
  <1>6. /\ t \in Client /\ MayEnd(v, t) /\ Same(v, t, {"conn", "timer", "on", "seen", "ra2", "init"})
        /\ t.conn = "disconnected" /\ t.timer = FALSE /\ t.seen = Append(v.seen, "disconnect")
    BY <1>1, <1>3, <1>5, DisconnectedFacts
  <1> HIDE DEF t
  <1>7. MayEnd(s, t) /\ t.seen = Append(s.seen, "disconnect")
    BY <1>4, <1>6 DEF MayEnd
  <1>8. /\ t.grabbed = v.grabbed /\ t.attached = v.attached /\ t.listening = v.listening /\ t.chan = v.chan
        /\ t.why = v.why /\ t.clean = v.clean /\ t.go = v.go
    BY <1>6 DEF Same, Parts
  <1>9. Same(s, t, (Outside \ {"late"}) \cup {"init", "ra2"})
    BY <1>3, <1>6 DEF Same, Parts, Outside
  <1>10. s.conn # "disconnected"
    OBVIOUS
  <1> QED BY <1>1, <1>4, <1>6, <1>7, <1>8, <1>9, <1>10 DEF Ended, t, v

\* A handler that gives the handshake up.
LEMMA FailHolds ==
    ASSUME NEW server \in Peers, NEW s, Base(server, s), NEW why \in Reasons,
           s.conn \in Open => Because(server, s, why),
           Owing(s) \/ s.ra2 # "none" \/ s.ard # "none" => Stale(s) \/ Heard(server, s),
           NEW v
    PROVE  /\ Hold(server, Fail(s, why), v) /\ Fail(s, why).go = FALSE
           /\ Alive(Fail(s, why)) /\ ~Stale(Fail(s, why)) /\ Dry(s) => Dry(Fail(s, why))
  <1>1. /\ s \in Client /\ Legible(s) /\ Conns(s) /\ Turns(s) /\ Place(server, s) /\ Whys(server, s)
        /\ s.conn \in {"disconnecting", "disconnected"} => (s.grabbed => quits = "desktopname" \/ Stale(s))
    BY DEF Base
  <1>2. Standing(s)
    BY <1>1, ConnsStand
  <1>3. /\ Ended(s, Fail(s, why)) /\ Fail(s, why).go = FALSE /\ Fail(s, why).clean = FALSE
        /\ Fail(s, why).why = IF s.conn \in Open THEN why ELSE s.why
    BY <1>1, <1>2, FailEnds DEF Conns
  <1>4. Because(server, s, Fail(s, why).why)
    BY <1>1, <1>3 DEF Whys
  <1>5. Because(server, s, Fail(s, why).why) /\ (s.conn # "connecting" /\ Past(s) => server.accepts /\ server.types # <<>>)
    BY <1>1, <1>4 DEF Whys
  <1> QED BY <1>1, <1>2, <1>3, <1>5, EndedHolds

\* The server has refused the client.
LEMMA RefuseHolds ==
    ASSUME NEW server \in Peers, NEW s, Base(server, s), s.conn = "connecting", s.ra2 = "none",
           ~server.accepts \/ server.types = <<>>,
           Owing(s) \/ s.ard # "none" => Heard(server, s), NEW v
    PROVE  LET t == Fail(Dispatch(s, "securityfailure"), "refused")
           IN /\ Hold(server, t, v) /\ t.go = FALSE
              /\ Alive(t) /\ ~Stale(t) /\ Dry(s) => Dry(t)
  <1> DEFINE u == Told(s, "securityfailure")
             d == Dispatch(s, "securityfailure")
             t == Fail(d, "refused")
  <1>1. /\ s \in Client /\ Legible(s) /\ Conns(s) /\ Turns(s) /\ Place(server, s) /\ Whys(server, s)
    BY DEF Base
  <1>2. "securityfailure" \in Events /\ "securityfailure" \notin Requests \cup {"desktopname"} /\ "securityfailure" \notin Requests
    BY DEF Events, Requests
  <1>3. s.seen = <<>> /\ ~Past(s) /\ s.late = {} /\ s.why = "none"
    BY <1>1, SeenFacts DEF Conns, Past
  <1>4. /\ u \in Client /\ Same(s, u, {"seen", "late", "asked"}) /\ u.asked = s.asked /\ u.seen = <<"securityfailure">>
        /\ u.late = s.late /\ d = IF "securityfailure" = quits THEN Disconnect(u) ELSE u
    <2>1. Append(s.seen, "securityfailure") = <<"securityfailure">> /\ ~Contains(s.seen, "disconnect")
      BY <1>3, SeenFacts
    <2>2. /\ u \in Client /\ Same(s, u, {"seen", "late", "asked"}) /\ u.asked = s.asked
          /\ u.seen = Append(s.seen, "securityfailure")
          /\ ~Contains(s.seen, "disconnect") => u.late = s.late
          /\ d = IF "securityfailure" = quits THEN Disconnect(u) ELSE u
      BY <1>1, <1>2, ToldFacts
    <2> QED BY <2>1, <2>2
  <1> HIDE DEF u, d
  <1>5. /\ u.conn = "connecting" /\ u.ra2 = "none" /\ u.init = s.init /\ Same(s, u, {"seen"})
    BY <1>4 DEF Same, Parts
  <1>6. /\ Disconnect(u) \in Client /\ MayEnd(u, Disconnect(u))
        /\ Same(u, Disconnect(u), {"conn", "grabbed", "attached", "listening", "chan", "timer", "on", "ra2", "init"})
        /\ Disconnect(u).conn = "disconnecting" /\ Disconnect(u).timer = TRUE
        /\ Disconnect(u).grabbed = FALSE /\ Disconnect(u).attached = FALSE
        /\ Disconnect(u).listening = FALSE /\ Disconnect(u).chan = Closing(u.chan)
    BY <1>4, <1>5, DisconnectFacts DEF Open
  <1>7. Disconnect(u).ra2 = "none" /\ Disconnect(u).init = s.init
    BY <1>5, <1>6 DEF MayEnd, Waiting
  <1>8. /\ d \in Client /\ d.conn \in {"connecting", "disconnecting"}
        /\ Same(s, d, {"seen", "conn", "grabbed", "attached", "listening", "chan", "timer", "on"})
    <2>1. CASE d = u
      BY <1>4, <1>5, <2>1 DEF Same
    <2>2. CASE d = Disconnect(u)
      <3>1. d.init = s.init /\ d.ra2 = s.ra2
        BY <1>5, <1>7, <2>2
      <3>2. Same(s, d, {"seen", "conn", "grabbed", "attached", "listening", "chan", "timer", "on", "init", "ra2"})
        BY <1>5, <1>6, <2>2 DEF Same, Parts
      <3>3. Same(s, d, {"seen", "conn", "grabbed", "attached", "listening", "chan", "timer", "on"})
        BY <3>1, <3>2 DEF Same
      <3> QED BY <1>6, <2>2, <3>3
    <2> QED BY <1>4, <2>1, <2>2
  <1>9. /\ d.q = s.q /\ d.out = s.out /\ d.init = s.init /\ d.scheme = s.scheme /\ d.tight = s.tight /\ d.ven = s.ven
        /\ d.venLength = s.venLength /\ d.ard = s.ard /\ d.ra2 = s.ra2 /\ d.asked = s.asked /\ d.resumes = s.resumes
        /\ d.creds = s.creds /\ d.version = s.version /\ d.why = s.why /\ d.clean = s.clean /\ d.inStep = s.inStep
        /\ d.late = s.late /\ d.go = s.go
    BY <1>8 DEF Same, Parts
  <1>10. d.seen = <<"securityfailure">>
    BY <1>4, <1>6 DEF Same, Parts
  <1>11. ~Past(d)
    BY <1>10, SeenFacts DEF Past
  <1>12. d.conn = "disconnecting" => ~d.attached /\ ~d.listening /\ ~d.grabbed /\ d.chan \in {"closing", "closed"}
    <2>1. Closing(u.chan) \in {"closing", "closed"}
      BY <1>4 DEF Closing, Client
    <2> QED BY <1>4, <1>5, <1>6, <2>1
  <1>13. Standing(d)
    BY <1>3, <1>8, <1>9, <1>10, <1>11, <1>12 DEF Standing
  <1>14. /\ \A fields : Lacks(d, fields) <=> Lacks(s, fields)
         /\ (Owing(d) <=> Owing(s)) /\ (Quiet(d) <=> Quiet(s)) /\ ~Stale(d) /\ ~Stale(s)
    BY <1>3, <1>9, <1>11 DEF Owing, Quiet, Stale, Lacks
  <1>15. Turns(d)
    BY <1>1, <1>8, <1>9, <1>14 DEF Turns
  <1>16. Place(server, d)
    BY <1>1, <1>9 DEF Place, Untight
  <1>17. Owing(d) \/ d.ra2 # "none" \/ d.ard # "none" => Heard(server, d)
    <2>1. \A rest : Awaits(server, s, rest) => Awaits(server, d, rest)
      BY <1>9 DEF Awaits, Ahead, OfScheme
    <2> QED BY <1>9, <1>14, <2>1 DEF Heard
  <1>18. /\ Ended(d, t) /\ t.go = FALSE /\ t.clean = FALSE
         /\ t.why = IF d.conn \in Open THEN "refused" ELSE d.why
    BY <1>8, <1>13, FailEnds DEF Reasons
  <1>19. Because(server, d, t.why)
    BY <1>3, <1>9, <1>18 DEF Because
  <1>20. /\ Hold(server, t, v)
         /\ Alive(t) /\ ~Stale(t) /\ Dry(d) => Dry(t)
    <2>1. Legible(d)
      BY <1>1, <1>9, <1>14 DEF Legible, Cut
    <2>2. d.conn \in {"disconnecting", "disconnected"} => (d.grabbed => quits = "desktopname" \/ Stale(d))
      BY <1>8, <1>12
    <2> HIDE DEF t
    <2> QED BY <1>8, <1>11, <1>13, <1>15, <1>16, <1>17, <1>18, <1>19, <2>1, <2>2, EndedHolds
  <1>21. Dry(s) => Dry(d)
    BY <1>9 DEF Dry
  <1> QED BY <1>18, <1>20, <1>21 DEF t, d

\* What is asked of the application, which may give up instead.
LEMMA AskHolds ==
    ASSUME NEW server \in Peers, NEW s, Base(server, s), s.inStep,
           s.init = "Authentication", NEW event \in Requests,
           Turns(Told(s, event)), NEW w \in Seq(Tokens), Talk(server, Told(s, event), w)
    PROVE  /\ Hold(server, Dispatch(s, event), w)
           /\ Alive(Dispatch(s, event)) => Dry(Dispatch(s, event))
           /\ Dispatch(s, event).go = s.go
  <1> DEFINE u == Told(s, event)
  <1>1. /\ s \in Client /\ Legible(s) /\ Conns(s) /\ Turns(s) /\ Place(server, s) /\ Whys(server, s)
        /\ s.conn \in {"disconnecting", "disconnected"} => (s.grabbed => quits = "desktopname" \/ Stale(s))
    BY DEF Base
  <1>2. ~Past(s) /\ ~Stale(s)
    BY <1>1 DEF Conns, Stale
  <1>3. event \in Events
    BY DEF Events
  <1>4. /\ u \in Client /\ Same(s, u, {"seen", "late", "asked"}) /\ u.seen = s.seen /\ u.asked = TRUE
        /\ u.late \subseteq s.late \cup {event} /\ (~Contains(s.seen, "disconnect") => u.late = s.late)
        /\ Dispatch(s, event) = IF event = quits THEN Disconnect(u) ELSE u
    BY <1>1, <1>3, ToldFacts
  <1> HIDE DEF u
  <1>5. /\ u.conn = s.conn /\ u.chan = s.chan /\ u.on = s.on /\ u.listening = s.listening /\ u.grabbed = s.grabbed
        /\ u.why = s.why /\ u.init = s.init /\ u.attached = s.attached /\ u.timer = s.timer /\ u.clean = s.clean
        /\ u.scheme = s.scheme /\ u.version = s.version /\ u.tight = s.tight /\ u.ven = s.ven /\ u.go = s.go
        /\ u.venLength = s.venLength /\ u.out = s.out /\ u.inStep = s.inStep
    BY <1>4 DEF Same, Parts
  <1>6. ~Past(u) /\ ~Stale(u)
    BY <1>2, <1>4, <1>5 DEF Past, Stale
  <1>7. s.conn = "connecting" => u.late = s.late
    BY <1>1, <1>4, SeenFacts DEF Conns
  <1>8. Conns(u)
    BY <1>1, <1>2, <1>4, <1>5, <1>6, <1>7 DEF Conns
  <1>9. Place(server, u)
    BY <1>1, <1>5 DEF Place, Untight
  <1>10. Whys(server, u)
    BY <1>1, <1>5, <1>6 DEF Whys, Because
  <1>11. Hold(server, u, w)
    BY <1>1, <1>2, <1>4, <1>5, <1>6, <1>8, <1>9, <1>10 DEF Hold, Base, Legible, u
  <1>12. Dry(u)
    BY <1>5 DEF Dry
  <1>13. CASE event = quits
    <2>1. Dispatch(s, event) = Disconnect(u)
      BY <1>4, <1>13
    <2>2. /\ Hold(server, Disconnect(u), w)
          /\ Alive(Disconnect(u)) /\ ~Stale(Disconnect(u)) /\ Dry(u) => Dry(Disconnect(u))
      BY <1>11, DisconnectHolds
    <2>3. ~Stale(Disconnect(u)) /\ Disconnect(u).go = u.go
      <3>1. Disconnect(u).seen = u.seen /\ Disconnect(u).go = u.go
        <4>1. CASE u.conn \in Open
          <5>1. Same(u, Disconnect(u), {"conn", "grabbed", "attached", "listening", "chan", "timer",
                                        "on", "ra2", "init"})
            BY <1>4, <4>1, DisconnectFacts
          <5> QED BY <5>1 DEF Same, Parts
        <4>2. CASE u.conn \notin Open
          BY <1>4, <4>2, DisconnectFacts DEF Same, Parts
        <4> QED BY <4>1, <4>2
      <3> QED BY <1>6, <3>1 DEF Past, Stale
    <2> QED BY <1>5, <1>12, <2>1, <2>2, <2>3
  <1>14. CASE event # quits
    BY <1>4, <1>5, <1>11, <1>12, <1>14
  <1> QED BY <1>13, <1>14

\* What was read and said so far; a message that the server takes for a choice
\* of "Tight" is only sent with that choice.
Mild(s, t) == \A i \in 1 .. Len(t.out) :
    t.out[i] = [m |-> "type", v |-> "Tight"] => \E j \in 1 .. Len(s.out) : s.out[j] = t.out[i]

LEMMA SentIsMild ==
    ASSUME NEW s \in Client, NEW t \in Client, NEW m, NEW v, [m |-> m, v |-> v] \in Messages,
           t.out = Sent(s, m, v), m # "type"
    PROVE  Mild(s, t)
  <1> DEFINE msg == [m |-> m, v |-> v]
  <1>1. s.out \in Seq(Messages) /\ Len(s.out) \in Nat
    BY LenProperties DEF Client
  <1>2. msg # [m |-> "type", v |-> "Tight"]
    OBVIOUS
  <1>3. CASE s.chan = "open"
    <2>1. t.out = Append(s.out, msg)
      BY <1>3 DEF Sent
    <2> HIDE DEF msg
    <2>2. /\ Len(t.out) = Len(s.out) + 1 /\ t.out[Len(s.out) + 1] = msg
          /\ \A i \in 1 .. Len(s.out) : t.out[i] = s.out[i]
      BY <1>1, <2>1, AppendProperties DEF msg
    <2>3. \A i \in 1 .. Len(t.out) : i \in 1 .. Len(s.out) \/ i = Len(s.out) + 1
      BY <1>1, <2>2
    <2> QED BY <1>2, <2>2, <2>3 DEF Mild
  <1>4. CASE s.chan # "open"
    BY <1>4 DEF Sent, Mild
  <1> QED BY <1>3, <1>4

LEMMA StaysUntight ==
    ASSUME NEW server, NEW s, NEW t, Mild(s, t), Untight(server, s)
    PROVE  Untight(server, t)
  BY DEF Mild, Untight

LEMMA BaseParts ==
    ASSUME NEW server, NEW s, Base(server, s)
    PROVE  /\ s \in Client /\ Legible(s) /\ Conns(s) /\ Turns(s) /\ Place(server, s) /\ Whys(server, s)
           /\ s.conn \in {"disconnecting", "disconnected"} => (s.grabbed => quits = "desktopname" \/ Stale(s))
  BY DEF Base

\* A resume of ARD that came too late has the session for itself.
LEMMA StaleHolds ==
    ASSUME NEW server \in Peers, NEW s, Base(server, s), Stale(s), NEW t \in Client,
           Same(s, t, {"q", "inStep", "grabbed", "go", "out", "late"}), Mild(s, t), NEW v
    PROVE  Hold(server, t, v) /\ Base(server, t) /\ Stale(t)
  <1>1. /\ s \in Client /\ Legible(s) /\ Conns(s) /\ Turns(s) /\ Place(server, s) /\ Whys(server, s)
    BY BaseParts
  <1>2. /\ t.conn = s.conn /\ t.chan = s.chan /\ t.on = s.on /\ t.listening = s.listening
        /\ t.why = s.why /\ t.init = s.init /\ t.attached = s.attached /\ t.timer = s.timer /\ t.clean = s.clean
        /\ t.scheme = s.scheme /\ t.version = s.version /\ t.tight = s.tight /\ t.ven = s.ven
        /\ t.venLength = s.venLength /\ t.seen = s.seen /\ t.asked = s.asked /\ t.resumes = s.resumes
        /\ t.ard = s.ard /\ t.ra2 = s.ra2 /\ t.creds = s.creds
    BY DEF Same, Parts
  <1>3. /\ Stale(t) /\ Past(t) /\ Past(s) /\ (Owing(t) <=> Owing(s)) /\ (Quiet(t) <=> Quiet(s))
        /\ (Alive(t) <=> Alive(s)) /\ \A fields : Lacks(t, fields) <=> Lacks(s, fields)
    BY <1>2 DEF Stale, Past, Owing, Quiet, Lacks, Alive
  <1>4. s.conn # "connecting"
    BY <1>1, <1>3, SeenFacts DEF Conns, Past
  <1>5. Conns(t)
    BY <1>1, <1>2, <1>3, <1>4 DEF Conns
  <1>6. Turns(t)
    BY <1>1, <1>2, <1>3 DEF Turns
  <1>7. Place(server, t)
    <2>1. Untight(server, s) => Untight(server, t)
      BY StaysUntight
    <2> QED BY <1>1, <1>2, <2>1 DEF Place
  <1>8. Whys(server, t)
    BY <1>1, <1>2, <1>3 DEF Whys, Because
  <1> QED BY <1>3, <1>5, <1>6, <1>7, <1>8 DEF Hold, Base, Legible

\* The end of the handshake.
Session(s) == LET named == Dispatch(s, "desktopname")
              IN Connected(Send([named EXCEPT !.grabbed = TRUE, !.go = TRUE], "session", "none"))

LEMMA GrabFacts ==
    ASSUME NEW s \in Client
    PROVE  /\ [s EXCEPT !.grabbed = TRUE, !.go = TRUE] \in Client
           /\ Same(s, [s EXCEPT !.grabbed = TRUE, !.go = TRUE], {"grabbed", "go"})
           /\ [s EXCEPT !.grabbed = TRUE, !.go = TRUE].grabbed = TRUE
           /\ [s EXCEPT !.conn = "connected"] \in Client
           /\ Same(s, [s EXCEPT !.conn = "connected"], {"conn"})
           /\ [s EXCEPT !.conn = "connected"].conn = "connected"
  <1>1. [s EXCEPT !.grabbed = TRUE, !.go = TRUE] \in Client
    BY DEF Client
  <1>2. Same(s, [s EXCEPT !.grabbed = TRUE, !.go = TRUE], {"grabbed", "go"})
    BY DEF Client, Same, Parts
  <1>3. [s EXCEPT !.grabbed = TRUE, !.go = TRUE].grabbed = TRUE
    BY DEF Client
  <1>4. [s EXCEPT !.conn = "connected"] \in Client /\ [s EXCEPT !.conn = "connected"].conn = "connected"
    BY ZenonT(60) DEF Client
  <1>5. Same(s, [s EXCEPT !.conn = "connected"], {"conn"})
    BY DEF Client, Same, Parts
  <1> QED BY <1>1, <1>2, <1>3, <1>4, <1>5

LEMMA StaleSession ==
    ASSUME NEW server \in Peers, NEW s, Base(server, s), Stale(s), NEW v \in Seq(Tokens)
    PROVE  Hold(server, Session(s), v) /\ Stale(Session(s))
  <1> DEFINE u == Told(s, "desktopname")
             n == Dispatch(s, "desktopname")
             x == [n EXCEPT !.grabbed = TRUE, !.go = TRUE]
             y == Send(x, "session", "none")
  <1>1. "desktopname" \in Events /\ "desktopname" \notin Requests /\ [m |-> "session", v |-> "none"] \in Messages
    BY DEF Events, Requests, Messages, Values
  <1>2. /\ u \in Client /\ Same(s, u, {"seen", "late", "asked"}) /\ u.asked = s.asked /\ u.seen = s.seen
        /\ n = IF "desktopname" = quits THEN Disconnect(u) ELSE u
    BY <1>1, ToldFacts, BaseParts
  <1>3. Same(s, u, {"q", "inStep", "grabbed", "go", "out", "late"}) /\ Mild(s, u)
    BY <1>2 DEF Same, Parts, Mild
  <1> HIDE DEF u
  <1>4. Hold(server, u, v) /\ Base(server, u) /\ Stale(u)
    BY <1>2, <1>3, StaleHolds
  <1>5. Base(server, n) /\ Stale(n)
    <2>1. Hold(server, Disconnect(u), v)
      BY <1>4, DisconnectHolds
    <2>2. Disconnect(u).seen = u.seen /\ Disconnect(u).scheme = u.scheme
      <3>1. CASE u.conn \in Open
        <4>1. Same(u, Disconnect(u), {"conn", "grabbed", "attached", "listening", "chan", "timer",
                                      "on", "ra2", "init"})
          BY <1>2, <3>1, DisconnectFacts
        <4> QED BY <4>1 DEF Same, Parts
      <3>2. CASE u.conn \notin Open
        BY <1>2, <3>2, DisconnectFacts DEF Same, Parts
      <3> QED BY <3>1, <3>2
    <2> QED BY <1>2, <1>4, <2>1, <2>2 DEF Stale, Past, Hold
  <1> HIDE DEF n
  <1>6. x \in Client /\ Same(n, x, {"grabbed", "go"})
    BY <1>5, GrabFacts, BaseParts
  <1> HIDE DEF x
  <1>7. Same(n, x, {"q", "inStep", "grabbed", "go", "out", "late"}) /\ Mild(n, x)
    BY <1>6 DEF Same, Parts, Mild
  <1>8. Base(server, x) /\ Stale(x)
    BY <1>5, <1>6, <1>7, StaleHolds
  <1>9. y \in Client /\ Same(x, y, {"out"}) /\ y.out = Sent(x, "session", "none")
    BY <1>1, <1>6, SendFacts
  <1> HIDE DEF y
  <1>10. Same(x, y, {"q", "inStep", "grabbed", "go", "out", "late"})
    BY <1>9 DEF Same
  <1>11. Mild(x, y)
    BY <1>1, <1>6, <1>9, SentIsMild
  <1>12. Hold(server, y, v) /\ Base(server, y) /\ Stale(y)
    BY <1>8, <1>9, <1>10, <1>11, StaleHolds
  <1>13. y.conn # "connecting"
    BY <1>12, BaseParts, SeenFacts DEF Conns, Past, Stale
  <1>14. Session(s) = Connected(y)
    BY DEF Session, y, x, n
  <1>15. Connected(y) = y
    BY <1>13 DEF Connected
  <1> QED BY <1>12, <1>14, <1>15

LEMMA FreshSession ==
    ASSUME NEW server \in Peers, NEW s, Base(server, s), s.conn = "connecting", s.chan = "open",
           s.init = "ServerInitialisation", Owing(s) => s.q = <<>>, NEW v \in Seq(Tokens)
    PROVE  /\ Hold(server, Session(s), v) /\ Session(s).conn # "connecting"
           /\ Alive(Session(s)) /\ ~Stale(Session(s)) => Dry(Session(s))
  <1> DEFINE u == Told(s, "desktopname")
             n == Dispatch(s, "desktopname")
             x == [n EXCEPT !.grabbed = TRUE, !.go = TRUE]
             y == Send(x, "session", "none")
             z == [y EXCEPT !.conn = "connected"]
             zz == Told(z, "connect")
             t == Session(s)
  <1>1. /\ "desktopname" \in Events /\ "desktopname" \notin Requests
        /\ "connect" \in Events /\ "connect" \notin Requests /\ "connect" \notin Requests \cup {"desktopname"}
        /\ [m |-> "session", v |-> "none"] \in Messages
    BY DEF Events, Requests, Messages, Values
  <1>2. /\ s \in Client /\ Legible(s) /\ Conns(s) /\ Turns(s) /\ Place(server, s) /\ Whys(server, s)
    BY BaseParts
  <1>3. /\ s.seen = <<>> /\ s.late = {} /\ s.why = "none" /\ s.on = {"open", "message", "close"} /\ ~s.timer
        /\ ~Past(s) /\ ~Stale(s) /\ ~Contains(s.seen, "disconnect")
    BY <1>2, SeenFacts DEF Conns, Past, Stale
  <1>4. s.ra2 = "none" /\ s.ard = "none" /\ ~Quiet(s) /\ (Owing(s) => s.scheme = "ARD")
    BY <1>2 DEF Turns, Quiet
  <1>21. s.inStep
    BY <1>2, <1>3, <1>4 DEF Legible, Cut
  <1>5. /\ u \in Client /\ Same(s, u, {"seen", "late", "asked"}) /\ u.asked = s.asked /\ u.seen = s.seen
        /\ u.late = s.late
        /\ n = IF "desktopname" = quits THEN Disconnect(u) ELSE u
    BY <1>1, <1>2, <1>3, ToldFacts
  <1> HIDE DEF u, n
  <1>6. Same(s, u, {}) /\ u.conn = "connecting" /\ u.chan = "open" /\ u.ra2 = "none"
    BY <1>4, <1>5 DEF Same, Parts
  <1>7. Session(s) = Connected(y)
    BY DEF Session, y, x, n
  <1>8. n \in Client
    BY <1>5, DisconnectFacts
  <1>9. x \in Client /\ Same(n, x, {"grabbed", "go"}) /\ x.grabbed = TRUE
    BY <1>8, GrabFacts
  <1> HIDE DEF x
  <1>10. y \in Client /\ Same(x, y, {"out"}) /\ y.out = Sent(x, "session", "none")
    BY <1>1, <1>9, SendFacts
  <1> HIDE DEF y, t
  <1>11. CASE "desktopname" = quits
    <2>1. /\ MayEnd(u, n)
          /\ Same(u, n, {"conn", "grabbed", "attached", "listening", "chan", "timer", "on", "ra2", "init"})
          /\ n.conn = "disconnecting" /\ n.timer = TRUE /\ n.attached = FALSE
          /\ n.listening = FALSE /\ n.chan = Closing(u.chan)
      BY <1>5, <1>6, <1>11, DisconnectFacts DEF Open
    <2>2. n.chan = "closing" /\ n.ra2 = s.ra2 /\ n.init = s.init
      BY <1>5, <1>6, <2>1 DEF Closing, MayEnd, Waiting, Same, Parts
    <2>3. Same(s, n, {"conn", "grabbed", "attached", "listening", "chan", "timer", "on", "ra2", "init"})
      BY <1>6, <2>1 DEF Same, Parts
    <2>4. y.out = x.out
      <3>1. x.chan = "closing"
        BY <1>9, <2>2 DEF Same, Parts
      <3> QED BY <1>10, <3>1 DEF Sent
    <2>5. Same(n, y, {"grabbed", "go"})
      <3>1. Same(x, y, {})
        BY <1>10, <2>4 DEF Same, Parts
      <3> QED BY <1>9, <3>1 DEF Same, Parts
    <2>6. Same(s, y, {"conn", "grabbed", "attached", "listening", "chan", "timer", "on", "ra2", "init", "go"})
      BY <2>3, <2>5 DEF Same, Parts
    <2>7. /\ y.conn = "disconnecting" /\ y.timer = TRUE /\ y.attached = FALSE /\ y.listening = FALSE
          /\ y.chan = "closing" /\ y.ra2 = s.ra2 /\ y.init = s.init
      BY <2>1, <2>2, <2>5 DEF Same, Parts
    <2>8. y.seen = s.seen /\ y.late = s.late /\ y.why = s.why /\ y.clean = s.clean /\ y.scheme = s.scheme
      BY <2>6 DEF Same, Parts
    <2>9. ~Past(y) /\ ~Stale(y)
      BY <1>3, <2>8 DEF Past, Stale
    <2>10. Left(s, y)
      <3>1. Same(s, y, Outside \cup {"init", "ra2"})
        BY <2>6 DEF Same, Parts, Outside
      <3> QED BY <1>3, <1>10, <2>7, <2>9, <3>1 DEF Left, MayEnd
    <2>11. Conns(y)
      BY <1>3, <2>7, <2>8, <2>9 DEF Conns
    <2>12. Whys(server, y)
      BY <1>3, <2>8, <2>9 DEF Whys, Because
    <2>13. Alive(y) => Heard(server, s) /\ Dry(s)
      <3>1. y.asked = s.asked /\ y.resumes = s.resumes /\ y.ard = s.ard
        BY <2>6 DEF Same, Parts
      <3>2. Alive(y) => Owing(s)
        BY <1>4, <2>7, <3>1 DEF Alive, Owing
      <3>3. Reply(server, ServerInit) \in Seq(Tokens)
        BY ServerInitFacts
      <3>4. s.q = <<>> => Awaits(server, s, Reply(server, ServerInit)) /\ Dry(s)
        BY <3>3, ConcatEmptySeq DEF Awaits, Ahead, Dry
      <3> QED BY <3>2, <3>3, <3>4 DEF Heard
    <2>14. Hold(server, y, v) /\ (Alive(y) /\ ~Stale(y) => Dry(y))
      BY <1>2, <1>3, <1>11, <2>10, <2>11, <2>12, <2>13, LeftHolds
    <2>15. Connected(y) = y
      BY <2>7 DEF Connected
    <2> QED BY <1>7, <2>7, <2>14, <2>15
  <1>12. CASE "desktopname" # quits
    <2>1. n = u
      BY <1>5, <1>12
    <2>2. Same(s, x, {"grabbed", "go"}) /\ Same(s, y, {"grabbed", "go", "out"})
      BY <1>6, <1>9, <1>10, <2>1 DEF Same, Parts
    <2>3. y.out = Sent(s, "session", "none") /\ y.conn = "connecting"
      BY <1>10, <2>2 DEF Same, Parts, Sent
    <2>4. z \in Client /\ Same(y, z, {"conn"}) /\ z.conn = "connected"
      BY <1>10, GrabFacts
    <2>5. Session(s) = Dispatch(z, "connect")
      BY <1>7, <2>3 DEF Connected
    <2> HIDE DEF z, zz
    <2>6. z.seen = <<>>
      BY <1>3, <2>2, <2>4 DEF Same, Parts
    <2>7. /\ zz \in Client /\ Same(z, zz, {"seen", "late", "asked"}) /\ zz.asked = z.asked
          /\ zz.seen = <<"connect">> /\ zz.late = z.late
          /\ Dispatch(z, "connect") = IF "connect" = quits THEN Disconnect(zz) ELSE zz
      <3>1. Append(z.seen, "connect") = <<"connect">> /\ ~Contains(z.seen, "disconnect")
        BY <2>6, SeenFacts
      <3>2. /\ zz \in Client /\ Same(z, zz, {"seen", "late", "asked"}) /\ zz.asked = z.asked
            /\ zz.seen = Append(z.seen, "connect") /\ (~Contains(z.seen, "disconnect") => zz.late = z.late)
            /\ Dispatch(z, "connect") = IF "connect" = quits THEN Disconnect(zz) ELSE zz
        BY <1>1, <2>4, ToldFacts, ZenonT(40) DEF zz
      <3> QED BY <3>1, <3>2
    <2>8. Same(z, zz, {"seen"}) /\ Same(s, zz, {"grabbed", "go", "out", "conn", "seen"})
      <3>1. Same(z, zz, {"seen"})
        BY <2>7 DEF Same, Parts
      <3> QED BY <2>2, <2>4, <3>1 DEF Same, Parts
    <2>9. zz.conn = "connected" /\ zz.out = Sent(s, "session", "none")
      BY <2>3, <2>4, <2>8 DEF Same, Parts
    <2>10. /\ zz.chan = s.chan /\ zz.on = s.on /\ zz.listening = s.listening /\ zz.inStep = s.inStep
           /\ zz.why = s.why /\ zz.init = s.init /\ zz.attached = s.attached /\ zz.timer = s.timer /\ zz.clean = s.clean
           /\ zz.scheme = s.scheme /\ zz.version = s.version /\ zz.tight = s.tight /\ zz.ven = s.ven
           /\ zz.venLength = s.venLength /\ zz.asked = s.asked /\ zz.resumes = s.resumes
           /\ zz.ard = s.ard /\ zz.ra2 = s.ra2 /\ zz.creds = s.creds /\ zz.late = s.late
      BY <2>8 DEF Same, Parts
    <2>11. Past(zz)
      BY <2>7, SeenFacts DEF Past
    <2>12. /\ (Owing(zz) <=> Owing(s)) /\ (Quiet(zz) <=> Quiet(s)) /\ (Stale(zz) <=> s.scheme = "ARD")
           /\ \A fields : Lacks(zz, fields) <=> Lacks(s, fields)
      BY <2>10, <2>11 DEF Owing, Quiet, Stale, Lacks
    <2>13. Alive(zz) => Stale(zz)
      BY <1>4, <2>9, <2>10, <2>12 DEF Alive
    <2>14. Conns(zz)
      BY <1>3, <2>7, <2>9, <2>10, <2>11, <2>13 DEF Conns
    <2>15. Turns(zz)
      BY <1>2, <1>4, <2>10, <2>12 DEF Turns
    <2>16. Place(server, zz)
      <3>1. Mild(s, zz)
        BY <1>1, <1>2, <2>7, <2>9, SentIsMild
      <3>2. Untight(server, s) => Untight(server, zz)
        BY <3>1, StaysUntight
      <3> QED BY <1>2, <2>10, <3>2 DEF Place
    <2>17. Whys(server, zz)
      BY <1>2, <1>3, <2>10 DEF Whys, Because, Place, Late
    <2>18. Hold(server, zz, v)
      BY <1>2, <1>3, <2>7, <2>9, <2>10, <2>13, <2>14, <2>15, <2>16, <2>17, <1>21 DEF Hold, Base, Legible
    <2>19. CASE "connect" = quits
      <3>1. Session(s) = Disconnect(zz)
        BY <2>5, <2>7, <2>19
      <3>2. Hold(server, Disconnect(zz), v) /\ Disconnect(zz).conn = "disconnecting"
        BY <2>7, <2>9, <2>18, DisconnectHolds, DisconnectFacts DEF Open
      <3>3. Alive(Disconnect(zz)) => Stale(Disconnect(zz))
        <4>1. /\ Same(zz, Disconnect(zz), {"conn", "grabbed", "attached", "listening", "chan", "timer",
                                           "on", "ra2", "init"}) /\ MayEnd(zz, Disconnect(zz))
          BY <2>7, <2>9, DisconnectFacts DEF Open
        <4>2. LET d == Disconnect(zz)
              IN /\ d.asked = zz.asked /\ d.resumes = zz.resumes /\ d.ard = zz.ard /\ d.seen = zz.seen
                 /\ d.scheme = zz.scheme /\ (d.ra2 = zz.ra2 \/ d.ra2 = "none")
          BY <4>1 DEF Same, Parts, MayEnd
        <4> QED BY <2>9, <2>13, <3>2, <4>2 DEF Alive, Owing, Stale, Past
      <3> QED BY <3>1, <3>2, <3>3
    <2>20. CASE "connect" # quits
      BY <2>5, <2>7, <2>9, <2>13, <2>18, <2>20
    <2> QED BY <2>19, <2>20
  <1> QED BY <1>11, <1>12

----------------------------------------------------------------------------
(***************************************************************************)
(* The handlers of the handshake. Each runs when nobody is asked for       *)
(* anything, and leaves a state that holds.                                *)
(***************************************************************************)

Streamy == {"go", "init", "version", "scheme", "tight", "ven", "venLength", "ard", "ra2", "q", "out"}

\* A handler may run: rest is what is still to come after the queue.
Ready(server, s, w, rest) ==
    /\ server \in Peers /\ w \in Seq(Tokens) /\ rest \in Seq(Tokens)
    /\ Base(server, s) /\ s.inStep /\ ~Quiet(s) /\ s.init # "ServerInitialisation"
    /\ Awaits(server, s, rest)
    /\ s.conn = "connecting" => s.chan = "open" /\ Owes(server, s, w, rest)

\* It has run; settled if what is left of the queue is of no use.
Ran(server, t, w) ==
    /\ Hold(server, t, w)
    /\ t.go /\ t.conn = "connecting" => t.chan = "open" /\ ~Quiet(t)
Settled(server, t, w) == Ran(server, t, w) /\ (Alive(t) /\ ~Stale(t) => Dry(t))
Done(server, t, w) ==
    Ran(server, t, w) /\ (~(t.go /\ t.conn = "connecting") /\ Alive(t) /\ ~Stale(t) => Dry(t))

LEMMA ReadyFacts ==
    ASSUME NEW server, NEW s, NEW w, NEW rest, Ready(server, s, w, rest)
    PROVE  /\ s \in Client /\ ~Past(s) /\ ~Stale(s) /\ s.inStep /\ s.conn # "connected"
           /\ Base(server, s) /\ Conns(s) /\ Turns(s) /\ Place(server, s) /\ Whys(server, s)
           /\ (s.conn = "connecting" => s.init # "none") /\ (Owing(s) => s.scheme = "ARD")
  <1>1. /\ s \in Client /\ Legible(s) /\ Conns(s) /\ Turns(s) /\ Place(server, s) /\ Whys(server, s)
        /\ Base(server, s)
    BY BaseParts DEF Ready
  <1>2. ~Past(s) /\ ~Stale(s)
    BY <1>1 DEF Ready, Conns, Stale
  <1>3. s.conn # "connected"
    BY <1>1, <1>2, SeenFacts DEF Conns, Past
  <1>4. Owing(s) => s.scheme = "ARD"
    BY DEF Ready, Quiet
  <1>5. s.conn = "connecting" => s.init # "none"
    BY <1>1 DEF Ready, Conns
  <1> QED BY <1>1, <1>2, <1>3, <1>4, <1>5 DEF Ready

\* The parts a handler of the handshake sets and the others.
LEMMA MovesBase ==
    ASSUME NEW server, NEW s, Base(server, s), s.inStep, ~Past(s),
           s.conn = "connecting" => s.chan = "open",
           NEW t \in Client, Same(s, t, Streamy), Turns(t), Place(server, t),
           t.init # "none", s.conn = "connecting" \/ t.scheme = s.scheme \/ s.scheme = "XVP"
    PROVE  Base(server, t) /\ ~Stale(t)
  <1>1. /\ s \in Client /\ Legible(s) /\ Conns(s) /\ Turns(s) /\ Place(server, s) /\ Whys(server, s)
        /\ s.conn \in {"disconnecting", "disconnected"} => (s.grabbed => quits = "desktopname" \/ Stale(s))
    BY BaseParts
  <1>2. /\ t.conn = s.conn /\ t.chan = s.chan /\ t.on = s.on /\ t.listening = s.listening
        /\ t.grabbed = s.grabbed /\ t.inStep = s.inStep
        /\ t.why = s.why /\ t.attached = s.attached /\ t.timer = s.timer /\ t.clean = s.clean
        /\ t.seen = s.seen /\ t.asked = s.asked /\ t.resumes = s.resumes /\ t.late = s.late
    BY DEF Same, Parts, Streamy
  <1>3. ~Past(t) /\ ~Stale(t) /\ ~Stale(s)
    BY <1>2 DEF Past, Stale
  <1>4. Conns(t)
    BY <1>1, <1>2, <1>3 DEF Conns
  <1>5. Whys(server, t)
    BY <1>1, <1>2, <1>3 DEF Whys, Because, Conns
  <1> QED BY <1>1, <1>2, <1>3, <1>4, <1>5 DEF Base, Legible

\* The dialogue after a handler has read, and may have said something.
LEMMA TalkOn ==
    ASSUME NEW server, NEW s \in Client, NEW t \in Client, NEW w, NEW rest, NEW r \in Seq(Tokens),
           s.conn = "connecting" => s.chan = "open" /\ Owes(server, s, w, rest),
           t.conn = s.conn, Awaits(server, t, r), Quiet(t) => r = <<>>,
           \/ t.out = s.out /\ r = rest /\ (s.q = <<>> => t.q = <<>>)
           \/ \E msg \in Messages : /\ rest = <<>> /\ t.q = <<>> /\ r = Reply(server, msg)
                                    /\ t.out = IF s.chan = "open" THEN Append(s.out, msg) ELSE s.out
    PROVE  Talk(server, t, w)
  <1>1. ASSUME s.conn = "connecting" PROVE Owes(server, t, w, r)
    <2>1. CASE t.out = s.out /\ r = rest /\ (s.q = <<>> => t.q = <<>>)
      BY <1>1, <2>1 DEF Owes
    <2>2. CASE \E msg \in Messages : /\ rest = <<>> /\ t.q = <<>> /\ r = Reply(server, msg)
                                     /\ t.out = IF s.chan = "open" THEN Append(s.out, msg) ELSE s.out
      <3>1. PICK msg \in Messages : /\ rest = <<>> /\ t.q = <<>> /\ r = Reply(server, msg)
                                    /\ t.out = Append(s.out, msg)
        BY <1>1, <2>2
      <3>2. s.out \in Seq(Messages) /\ Len(s.out) \in Nat
        BY LenProperties DEF Client
      <3>3. /\ Len(t.out) = Len(s.out) + 1 /\ t.out[Len(s.out) + 1] = msg
            /\ \A i \in 1 .. Len(s.out) : t.out[i] = s.out[i]
        BY <3>1, <3>2, AppendProperties
      <3>4. t.out # <<>>
        BY <3>2, <3>3
      <3>5. w = <<>>
        BY <1>1, <3>1 DEF Owes
      <3>6. ASSUME NEW i \in 1 .. Len(t.out), i < Len(t.out) PROVE Reply(server, t.out[i]) = <<>>
        <4>1. i \in 1 .. Len(s.out) /\ t.out[i] = s.out[i]
          BY <3>2, <3>3, <3>6
        <4>2. CASE i < Len(s.out)
          BY <1>1, <4>1, <4>2 DEF Owes
        <4>3. CASE ~(i < Len(s.out))
          <5>1. i = Len(s.out) /\ s.out # <<>>
            BY <3>2, <4>1, <4>3
          <5> QED BY <1>1, <3>1, <4>1, <5>1 DEF Owes
        <4> QED BY <4>2, <4>3
      <3>7. t.out[Len(t.out)] = msg
        BY <3>3
      <3> QED BY <3>1, <3>4, <3>5, <3>6, <3>7 DEF Owes
    <2> QED BY <2>1, <2>2
  <1> QED BY <1>1 DEF Talk

LEMMA MovesRun ==
    ASSUME NEW server, NEW s, NEW w, NEW rest, Ready(server, s, w, rest),
           NEW t \in Client, Same(s, t, Streamy), Turns(t), Place(server, t),
           t.init # "none", s.conn = "connecting" \/ t.scheme = s.scheme \/ s.scheme = "XVP",
           s.scheme = "ARD" => t.scheme = "ARD",
           NEW r \in Seq(Tokens), Awaits(server, t, r),
           \/ t.out = s.out /\ r = rest /\ (s.q = <<>> => t.q = <<>>)
           \/ \E msg \in Messages : /\ rest = <<>> /\ t.q = <<>> /\ r = Reply(server, msg)
                                    /\ t.out = IF s.chan = "open" THEN Append(s.out, msg) ELSE s.out
    PROVE  Ran(server, t, w) /\ ~Stale(t)
  <1>1. /\ s \in Client /\ ~Past(s) /\ Base(server, s) /\ s.inStep /\ (Owing(s) => s.scheme = "ARD")
        /\ s.conn = "connecting" => s.chan = "open" /\ Owes(server, s, w, rest)
    BY ReadyFacts DEF Ready
  <1>2. Base(server, t) /\ ~Stale(t)
    BY <1>1, MovesBase
  <1>3. t.conn = s.conn /\ t.chan = s.chan /\ t.asked = s.asked /\ t.resumes = s.resumes
    BY DEF Same, Parts, Streamy
  <1>4. ~Quiet(t)
    BY <1>1, <1>3 DEF Quiet, Owing
  <1>5. Talk(server, t, w)
    BY <1>1, <1>3, <1>4, TalkOn
  <1> QED BY <1>1, <1>2, <1>3, <1>4, <1>5 DEF Ran, Hold

\* Nothing but ARD and RA2 has anything under way.
LEMMA TurnsKept ==
    ASSUME NEW server, NEW s, NEW w, NEW rest, Ready(server, s, w, rest),
           NEW t, Same(s, t, Streamy), t.ra2 = "none", t.ard = "none",
           s.scheme = "ARD" => t.scheme = "ARD" /\ t.init \notin Early /\ (s.asked => t.init = "Authentication")
    PROVE  Turns(t)
  <1>1. Turns(s) /\ (Owing(s) => s.scheme = "ARD")
    BY ReadyFacts
  <1>2. t.conn = s.conn /\ t.asked = s.asked /\ t.resumes = s.resumes /\ t.creds = s.creds
    BY DEF Same, Parts, Streamy
  <1>3. (Owing(t) <=> Owing(s)) /\ (Lacks(t, UserPassword) <=> Lacks(s, UserPassword))
    BY <1>2 DEF Owing, Lacks
  <1>4. CASE s.scheme = "ARD"
    BY <1>1, <1>2, <1>3, <1>4 DEF Turns, Quiet, Asking
  <1>5. CASE s.scheme # "ARD"
    <2>1. ~Owing(t) /\ ~Quiet(t) /\ ~t.asked
      BY <1>1, <1>3, <1>5 DEF Quiet, Owing
    <2> QED BY <2>1 DEF Turns
  <1> QED BY <1>4, <1>5

\* A handler that waits for more.
LEMMA StopSettles ==
    ASSUME NEW server, NEW s, NEW w, NEW rest, Ready(server, s, w, rest), Dry(s), s.init # "none"
    PROVE  Settled(server, Stop(s), w)
  <1> DEFINE t == Stop(s)
  <1>1. s \in Client /\ Turns(s) /\ Place(server, s)
    BY ReadyFacts
  <1>2. t \in Client /\ Same(s, t, {"go"})
    BY <1>1, StopFacts
  <1> HIDE DEF t
  <1>3. /\ t.conn = s.conn /\ t.q = s.q /\ t.out = s.out /\ t.init = s.init /\ t.scheme = s.scheme /\ t.tight = s.tight
        /\ t.ven = s.ven /\ t.venLength = s.venLength /\ t.ard = s.ard /\ t.ra2 = s.ra2 /\ t.asked = s.asked
        /\ t.resumes = s.resumes /\ t.creds = s.creds /\ t.version = s.version
    BY <1>2 DEF Same, Parts
  <1>4. Same(s, t, Streamy)
    BY <1>2 DEF Same, Streamy
  <1>5. /\ (Owing(t) <=> Owing(s)) /\ (Quiet(t) <=> Quiet(s))
        /\ \A fields : Lacks(t, fields) <=> Lacks(s, fields)
    BY <1>3 DEF Owing, Quiet, Lacks
  <1>6. Turns(t) /\ Place(server, t) /\ Dry(t)
    <2>1. Turns(t)
      BY <1>1, <1>3, <1>5 DEF Turns
    <2>2. Place(server, t)
      BY <1>1, <1>3 DEF Place, Untight
    <2>3. Dry(t)
      BY <1>3 DEF Dry
    <2> QED BY <2>1, <2>2, <2>3
  <1>7. rest \in Seq(Tokens) /\ Awaits(server, t, rest)
    BY <1>3 DEF Ready, Awaits, Ahead, OfScheme
  <1>8. Ran(server, t, w)
    BY <1>2, <1>3, <1>4, <1>6, <1>7, MovesRun
  <1> QED BY <1>6, <1>8 DEF Settled, t

\* A handler that gives up, of a client nobody has anything under way with.
LEMMA FailSettles ==
    ASSUME NEW server, NEW s, NEW w, NEW rest, Ready(server, s, w, rest),
           s.scheme # "ARD", s.ra2 = "none", s.ard = "none",
           NEW t \in Client, Same(s, t, Streamy), t.scheme = s.scheme, t.init = s.init, t.init # "none",
           t.ra2 = "none", t.ard = "none", Place(server, t),
           NEW why \in Reasons, Because(server, t, why)
    PROVE  Settled(server, Fail(t, why), w)
  <1>1. s \in Client /\ ~Past(s) /\ Base(server, s) /\ s.inStep /\ ~Owing(s) /\ (s.conn = "connecting" => s.chan = "open")
    BY ReadyFacts DEF Ready
  <1>2. Turns(t)
    BY TurnsKept
  <1>3. Base(server, t) /\ ~Stale(t)
    BY <1>1, <1>2, MovesBase
  <1>4. ~Owing(t)
    BY <1>1 DEF Owing, Same, Parts, Streamy
  <1>5. server \in Peers
    BY DEF Ready
  <1>6. /\ Hold(server, Fail(t, why), w) /\ Fail(t, why).go = FALSE
    BY <1>3, <1>4, <1>5, FailHolds
  <1>7. ~Alive(Fail(t, why))
    <2>1. Standing(t) /\ t \in Client /\ (t.conn = "disconnected" => ~t.timer)
      BY <1>3, BaseParts, ConnsStand DEF Conns
    <2>2. Ended(t, Fail(t, why))
      BY <2>1, FailEnds
    <2>3. LET f == Fail(t, why)
          IN f.conn = "disconnected" /\ f.asked = t.asked /\ f.resumes = t.resumes /\ f.ard = t.ard
             /\ (f.ra2 = t.ra2 \/ f.ra2 = "none")
      BY <2>2 DEF Ended, Same, Parts, Outside, MayEnd
    <2> QED BY <1>4, <2>3 DEF Alive, Owing
  <1> QED BY <1>6, <1>7 DEF Settled, Ran

LEMMA GreetingFacts ==
    ASSUME NEW server \in Peers, NEW repeater \in BOOLEAN
    PROVE  /\ Greeting(server, repeater) \in Seq(Tokens) /\ Len(Greeting(server, repeater)) = 1
           /\ Greeting(server, repeater)[1].k = "version"
           /\ Greeting(server, repeater)[1].v = IF repeater THEN "repeater" ELSE server.version
  <1> DEFINE v == IF repeater THEN "repeater" ELSE server.version
  <1>1. v \in Values /\ "version" \in FieldKinds
    BY PeerFacts DEF Values, FieldKinds
  <1>2. Greeting(server, repeater) = <<V("version", v)>>
    BY DEF Greeting
  <1> HIDE DEF v
  <1>3. V("version", v) \in Tokens /\ V("version", v).k = "version" /\ V("version", v).v = v
    BY <1>1, TokenFacts
  <1>4. v = IF repeater THEN "repeater" ELSE server.version
    BY DEF v
  <1> QED BY <1>2, <1>3, <1>4

\* One field is all there is to come.
LEMMA ReadLast ==
    ASSUME NEW s \in Client, NEW rest \in Seq(Tokens), NEW a \in Seq(Tokens), s.q \o rest = a,
           Len(a) = 1, s.q # <<>>, NEW kind \in FieldKinds, a[1].k = kind
    PROVE  /\ Read(s, <<kind>>) \in Client /\ Same(s, Read(s, <<kind>>), {"q"})
           /\ Read(s, <<kind>>).q = <<>> /\ rest = <<>> /\ Head(s.q) = a[1]
  <1>1. <<kind>> \in Seq(FieldKinds) /\ Len(<<kind>>) = 1 /\ \A i \in 1 .. Len(<<kind>>) : <<kind>>[i] = kind
    OBVIOUS
  <1>2. Len(s.q) >= 1
    BY QueueFacts, EmptySeq
  <1>3. /\ Read(s, <<kind>>) \in Client /\ Same(s, Read(s, <<kind>>), {"q"})
        /\ Read(s, <<kind>>).q = <<>> /\ rest = <<>> /\ s.q = a
    <2>1. Len(a) <= Len(s.q) /\ Len(<<kind>>) = Len(a) /\ \A i \in 1 .. Len(a) : a[i].k = <<kind>>[i]
      BY <1>1, <1>2
    <2>2. FitsAll(s, rest, a, <<kind>>)
      BY <1>1, <2>1 DEF FitsAll
    <2> QED BY <2>2, ReadAll
  <1> QED BY <1>3

LEMMA VersionDone ==
    ASSUME NEW server, NEW s, NEW w, NEW rest, Ready(server, s, w, rest),
           s.init = "ProtocolVersion", s.conn = "connecting"
    PROVE  Done(server, NegotiateProtocolVersion(s), w)
  <1> DEFINE t == Read(s, <<"version">>)
             version == Head(s.q).v
  <1>1. /\ s \in Client /\ Turns(s) /\ Place(server, s) /\ ~Owing(s) /\ s.ra2 = "none" /\ s.ard = "none"
        /\ server \in Peers /\ rest \in Seq(Tokens)
    BY ReadyFacts DEF Ready, Turns, Early
  <1>2. s.scheme = "none" /\ ~s.tight /\ s.ven = 0 /\ Untight(server, s)
    BY <1>1 DEF Place, Early
  <1>3. PICK repeater \in BOOLEAN : s.q \o rest = Greeting(server, repeater)
    BY DEF Ready, Awaits
  <1>4. CASE Waits(s, 1)
    <2>1. NegotiateProtocolVersion(s) = Stop(s)
      BY <1>4 DEF NegotiateProtocolVersion
    <2>2. Dry(s)
      BY DEF Dry
    <2> QED BY <2>1, <2>2, StopSettles DEF Settled, Done
  <1>5. CASE ~Waits(s, 1)
    <2>1. s.q # <<>>
      BY <1>1, <1>5, QueueFacts DEF Waits
    <2>2. "version" \in FieldKinds
      BY DEF FieldKinds
    <2>3. /\ t \in Client /\ Same(s, t, {"q"}) /\ t.q = <<>> /\ rest = <<>>
          /\ version = IF repeater THEN "repeater" ELSE server.version
      <3>1. /\ Greeting(server, repeater) \in Seq(Tokens) /\ Len(Greeting(server, repeater)) = 1
            /\ Greeting(server, repeater)[1].k = "version"
            /\ Greeting(server, repeater)[1].v = IF repeater THEN "repeater" ELSE server.version
        BY <1>1, GreetingFacts
      <3>2. /\ t \in Client /\ Same(s, t, {"q"}) /\ t.q = <<>> /\ rest = <<>> /\ Head(s.q) = Greeting(server, repeater)[1]
        BY <1>1, <1>3, <2>1, <2>2, <3>1, ReadLast
      <3> QED BY <3>1, <3>2
    <2> DEFINE u == Send(t, "repeaterID", "none")
               x == Go(u, s.init)
               y == Send(t, "version", "none")
               z == Stop([y EXCEPT !.version = version, !.init = "Security"])
    <2>4. NegotiateProtocolVersion(s) =
            IF version = "repeater" THEN x ELSE IF version = "bad" THEN Fail(t, "version") ELSE z
      BY <1>5 DEF NegotiateProtocolVersion
    <2> HIDE DEF t, version
    <2>5. /\ [m |-> "repeaterID", v |-> "none"] \in Messages /\ [m |-> "version", v |-> "none"] \in Messages
      BY DEF Messages, Values
    <2>6. /\ t.out = s.out /\ t.chan = s.chan /\ t.init = s.init /\ t.scheme = "none" /\ t.ra2 = "none" /\ t.ard = "none"
          /\ ~t.tight /\ t.ven = 0 /\ Same(s, t, Streamy)
      BY <1>1, <1>2, <2>3 DEF Same, Parts, Streamy
    <2>7. server.version \in Versions
      BY <1>1, PeerFacts
    <2>8. CASE version = "repeater"
      <3>1. u \in Client /\ Same(t, u, {"out"}) /\ u.out = Sent(t, "repeaterID", "none")
        BY <2>3, <2>5, SendFacts
      <3> HIDE DEF u
      <3>2. x \in Client /\ Same(u, x, {"go", "init"}) /\ x.go = TRUE /\ x.init = s.init
        <4>1. s.init \in InitStates
          BY <1>1 DEF Client
        <4> QED BY <3>1, <4>1, GoFacts
      <3> HIDE DEF x
      <3>3. Same(t, x, {"out", "go", "init"}) /\ Same(s, x, Streamy) /\ x.out = Sent(s, "repeaterID", "none")
        <4>1. u.out = x.out
          BY <3>2 DEF Same, Parts
        <4> QED BY <2>6, <3>1, <3>2, <4>1 DEF Same, Parts, Streamy, Sent
      <3>4. /\ x.q = <<>> /\ x.scheme = "none" /\ x.ra2 = "none" /\ x.ard = "none" /\ ~x.tight /\ x.ven = 0
            /\ x.conn = "connecting"
        BY <2>3, <2>6, <3>3 DEF Same, Parts, Streamy
      <3>5. Turns(x)
        BY <1>2, <3>3, <3>4, TurnsKept
      <3>6. Mild(s, x)
        BY <1>1, <2>5, <3>2, <3>3, SentIsMild
      <3>7. Place(server, x)
        BY <1>2, <3>2, <3>4, <3>6, StaysUntight DEF Place, Early, Late
      <3>8. Reply(server, [m |-> "repeaterID", v |-> "none"]) = Greeting(server, FALSE)
        BY DEF Reply
      <3>9. Greeting(server, FALSE) \in Seq(Tokens) /\ <<>> \o Greeting(server, FALSE) = Greeting(server, FALSE)
        BY <1>1, GreetingFacts, ConcatEmptySeq
      <3>10. Awaits(server, x, Greeting(server, FALSE))
        BY <3>2, <3>4, <3>9 DEF Awaits
      <3>11. Ran(server, x, w)
        <4>1. x.out = IF s.chan = "open" THEN Append(s.out, [m |-> "repeaterID", v |-> "none"]) ELSE s.out
          BY <3>3 DEF Sent
        <4> QED BY <1>2, <2>3, <2>5, <3>2, <3>3, <3>4, <3>5, <3>7, <3>8, <3>9, <3>10, <4>1, MovesRun
      <3> QED BY <2>4, <2>8, <3>2, <3>4, <3>11 DEF Done
    <2>9. CASE version = "bad"
      <3>1. server.version = "bad"
        BY <2>3, <2>9
      <3>2. Place(server, t)
        BY <1>1, <2>6 DEF Place, Untight, Early, Late
      <3>3. Because(server, t, "version")
        BY <3>1 DEF Because
      <3>4. Settled(server, Fail(t, "version"), w)
        BY <1>1, <1>2, <2>3, <2>6, <3>2, <3>3, FailSettles DEF Reasons
      <3>5. NegotiateProtocolVersion(s) = Fail(t, "version")
        BY <2>4, <2>9
      <3> QED BY <3>4, <3>5 DEF Settled, Done
    <2>10. CASE version # "repeater" /\ version # "bad"
      <3>1. y \in Client /\ Same(t, y, {"out"}) /\ y.out = Sent(t, "version", "none")
        BY <2>3, <2>5, SendFacts
      <3> HIDE DEF y
      <3>2. version = server.version /\ version \in Versions \cup {"none"}
        BY <2>3, <2>7, <2>10
      <3>3. z \in Client
        <4>1. "Security" \in InitStates
          BY DEF InitStates
        <4>2. [y EXCEPT !.version = version, !.init = "Security"] \in Client
          BY <3>1, <3>2, <4>1, ZenonT(40) DEF Client
        <4> QED BY <4>2, StopFacts
      <3>4. Same(y, z, {"version", "init", "go"}) /\ z.version = version /\ z.init = "Security" /\ z.go = FALSE
        BY <3>1 DEF Stop, Client, Same, Parts
      <3> HIDE DEF z
      <3>5. Same(s, z, Streamy) /\ z.out = Sent(s, "version", "none")
        <4>1. y.out = z.out
          BY <3>4 DEF Same, Parts
        <4> QED BY <2>6, <3>1, <3>4, <4>1 DEF Same, Parts, Streamy, Sent
      <3>6. /\ z.q = <<>> /\ z.scheme = "none" /\ z.ra2 = "none" /\ z.ard = "none" /\ ~z.tight /\ z.ven = 0
        BY <2>3, <2>6, <3>1, <3>4 DEF Same, Parts
      <3>7. Turns(z)
        BY <1>2, <3>5, <3>6, TurnsKept
      <3>8. Mild(s, z)
        BY <1>1, <2>5, <3>3, <3>5, SentIsMild
      <3>9. Place(server, z)
        BY <1>2, <3>2, <3>4, <3>6, <3>8, StaysUntight DEF Place, Early, Late
      <3>10. Reply(server, [m |-> "version", v |-> "none"]) = Security(server)
        BY DEF Reply
      <3>11. Security(server) \in Seq(Tokens) /\ <<>> \o Security(server) = Security(server)
        BY <1>1, SecurityFacts, ConcatEmptySeq
      <3>12. Awaits(server, z, Security(server))
        BY <3>4, <3>6, <3>11 DEF Awaits, Ahead
      <3>13. Ran(server, z, w)
        <4>1. z.out = IF s.chan = "open" THEN Append(s.out, [m |-> "version", v |-> "none"]) ELSE s.out
          BY <3>5 DEF Sent
        <4> QED BY <1>2, <2>3, <2>5, <3>3, <3>4, <3>5, <3>6, <3>7, <3>9, <3>10, <3>11, <3>12, <4>1, MovesRun
      <3>14. Dry(z)
        BY <3>4 DEF Dry
      <3> QED BY <2>4, <2>10, <3>13, <3>14 DEF Done
    <2> QED BY <2>8, <2>9, <2>10
  <1> QED BY <1>4, <1>5

LEMMA StopHolds ==
    ASSUME NEW server, NEW s, NEW w, Hold(server, s, w)
    PROVE  /\ Hold(server, Stop(s), w) /\ Stop(s).go = FALSE /\ (Alive(Stop(s)) <=> Alive(s))
           /\ (Stale(Stop(s)) <=> Stale(s)) /\ (Dry(s) => Dry(Stop(s)))
  <1> DEFINE t == Stop(s)
  <1>1. /\ s \in Client /\ Legible(s) /\ Conns(s) /\ Turns(s) /\ Place(server, s) /\ Whys(server, s)
        /\ s.conn \in {"disconnecting", "disconnected"} => (s.grabbed => quits = "desktopname" \/ Stale(s))
        /\ Alive(s) /\ ~Stale(s) => Talk(server, s, w)
    BY BaseParts DEF Hold
  <1>2. t \in Client /\ Same(s, t, {"go"}) /\ t.go = FALSE
    BY <1>1, StopFacts
  <1> HIDE DEF t
  <1>3. /\ t.conn = s.conn /\ t.q = s.q /\ t.out = s.out /\ t.init = s.init /\ t.scheme = s.scheme /\ t.tight = s.tight
        /\ t.ven = s.ven /\ t.venLength = s.venLength /\ t.ard = s.ard /\ t.ra2 = s.ra2 /\ t.asked = s.asked
        /\ t.resumes = s.resumes /\ t.creds = s.creds /\ t.version = s.version
        /\ t.chan = s.chan /\ t.on = s.on /\ t.listening = s.listening /\ t.grabbed = s.grabbed
        /\ t.inStep = s.inStep /\ t.why = s.why /\ t.attached = s.attached /\ t.timer = s.timer
        /\ t.clean = s.clean /\ t.seen = s.seen /\ t.late = s.late
    BY <1>2 DEF Same, Parts
  <1>4. /\ (Owing(t) <=> Owing(s)) /\ (Quiet(t) <=> Quiet(s)) /\ (Past(t) <=> Past(s))
        /\ \A fields : Lacks(t, fields) <=> Lacks(s, fields)
    BY <1>3 DEF Owing, Quiet, Lacks, Past
  <1>5. (Stale(t) <=> Stale(s)) /\ (Alive(t) <=> Alive(s))
    BY <1>3, <1>4 DEF Stale, Alive
  <1>6. Conns(t)
    BY <1>1, <1>3, <1>4, <1>5 DEF Conns
  <1>7. Turns(t)
    BY <1>1, <1>3, <1>4 DEF Turns
  <1>8. Place(server, t)
    BY <1>1, <1>3 DEF Place, Untight
  <1>9. Whys(server, t)
    BY <1>1, <1>3, <1>4 DEF Whys, Because
  <1>10. Talk(server, s, w) => Talk(server, t, w)
    BY <1>3, <1>4 DEF Talk, Owes, Awaits, Ahead, OfScheme
  <1>11. Dry(s) => Dry(t)
    BY <1>3 DEF Dry
  <1>12. Base(server, t)
    BY <1>1, <1>2, <1>3, <1>5, <1>6, <1>4, <1>7, <1>8, <1>9 DEF Base, Legible, Cut
  <1> QED BY <1>1, <1>2, <1>5, <1>10, <1>11, <1>12 DEF Hold, t

\* A handler that asks the application for what it lacks.
LEMMA AskSettles ==
    ASSUME NEW server, NEW s, NEW w, NEW rest, Ready(server, s, w, rest),
           s.init = "Authentication", s.scheme \in Asking \ {"RA2ne"},
           s.scheme = "ARD" => s.ard = "none" /\ Lacks(s, UserPassword),
           s.scheme # "ARD" => rest = <<>>
    PROVE  Settled(server, Ask(s), w)
  <1> DEFINE event == "credentialsrequired"
             u == Told(s, event)
             d == Dispatch(s, event)
  <1>1. /\ s \in Client /\ Base(server, s) /\ s.inStep /\ Turns(s) /\ server \in Peers /\ w \in Seq(Tokens)
        /\ (Owing(s) => s.scheme = "ARD") /\ rest \in Seq(Tokens) /\ Awaits(server, s, rest)
        /\ (s.conn = "connecting" => Owes(server, s, w, rest)) /\ ~Past(s) /\ s.seen = s.seen
    BY ReadyFacts DEF Ready
  <1>2. event \in Requests /\ event \in Events
    BY DEF Requests, Events
  <1>3. u \in Client /\ Same(s, u, {"seen", "late", "asked"}) /\ u.asked = TRUE /\ u.seen = s.seen
    BY <1>1, <1>2, ToldFacts
  <1> HIDE DEF u
  <1>4. /\ u.conn = s.conn /\ u.q = s.q /\ u.out = s.out /\ u.init = s.init /\ u.scheme = s.scheme /\ u.tight = s.tight
        /\ u.ven = s.ven /\ u.venLength = s.venLength /\ u.ard = s.ard /\ u.ra2 = s.ra2
        /\ u.resumes = s.resumes /\ u.creds = s.creds /\ u.version = s.version
    BY <1>3 DEF Same, Parts
  <1>5. s.ra2 = "none" /\ (s.scheme # "ARD" => s.resumes = 0 /\ s.ard = "none")
    <2>1. s.resumes \in Nat
      BY <1>1 DEF Client
    <2> QED BY <1>1, <2>1 DEF Turns, Owing
  <1>6. Turns(u)
    <2>1. Owing(u) /\ (Quiet(u) <=> u.scheme # "ARD") /\ (Lacks(u, UserPassword) <=> Lacks(s, UserPassword))
      BY <1>3, <1>4 DEF Owing, Quiet, Lacks
    <2>2. u.init \notin Early /\ u.scheme \in Asking
      BY <1>4 DEF Early
    <2> QED BY <1>3, <1>4, <1>5, <2>1, <2>2 DEF Turns
  <1>7. Talk(server, u, w)
    <2>1. Awaits(server, u, rest)
      BY <1>1, <1>4 DEF Awaits, Ahead, OfScheme
    <2>2. s.conn = "connecting" => Owes(server, u, w, rest)
      BY <1>1, <1>4 DEF Owes
    <2> QED BY <1>1, <1>4, <2>1, <2>2 DEF Talk, Quiet
  <1>8. /\ Hold(server, d, w) /\ (Alive(d) => Dry(d))
    BY <1>1, <1>2, <1>6, <1>7, AskHolds, ReadyFacts DEF u
  <1>9. Ask(s) = Stop(d)
    BY DEF Ask
  <1> HIDE DEF d
  <1> QED BY <1>8, <1>9, StopHolds DEF Settled, Ran

\* A handler that sends the credentials.
LEMMA AnsweredSettles ==
    ASSUME NEW server, NEW s, NEW w, NEW rest, Ready(server, s, w, rest),
           s.init = "Authentication", s.scheme \in Asking \ {"RA2ne"}, rest = <<>>,
           s.scheme = "ARD" => ~s.asked,
           NEW t \in Client, Same(s, t, {"q", "ard"}), t.ard = "none", t.q = <<>>
    PROVE  Settled(server, Answered(t), w)
  <1> DEFINE u == Send(t, "creds", "none")
             x == Answered(t)
  <1>1. /\ s \in Client /\ Turns(s) /\ Place(server, s) /\ server \in Peers
        /\ (Owing(s) => s.scheme = "ARD")
    BY ReadyFacts DEF Ready
  <1>2. /\ [m |-> "creds", v |-> "none"] \in Messages /\ "SecurityResult" \in InitStates
        /\ "SecurityResult" \notin Early \cup {"ServerInitialisation", "none"}
    BY DEF Messages, Values, InitStates, Early
  <1>3. u \in Client /\ Same(t, u, {"out"}) /\ u.out = Sent(t, "creds", "none")
    BY <1>2, SendFacts
  <1>4. x = Go(u, "SecurityResult")
    BY DEF Answered
  <1> HIDE DEF u, x
  <1>5. x \in Client /\ Same(u, x, {"go", "init"}) /\ x.go = TRUE /\ x.init = "SecurityResult"
    BY <1>2, <1>3, <1>4, GoFacts
  <1>6. /\ x.conn = s.conn /\ x.q = <<>> /\ x.out = Sent(s, "creds", "none") /\ x.scheme = s.scheme /\ x.tight = s.tight
        /\ x.ven = s.ven /\ x.venLength = s.venLength /\ x.ard = "none" /\ x.ra2 = s.ra2 /\ x.asked = s.asked
        /\ x.resumes = s.resumes /\ x.creds = s.creds /\ x.version = s.version
    BY <1>3, <1>5 DEF Same, Parts, Sent
  <1>7. Same(s, x, Streamy)
    BY <1>3, <1>5 DEF Same, Parts, Streamy
  <1>8. s.ra2 = "none"
    BY <1>1 DEF Turns
  <1>9. Turns(x)
    BY <1>2, <1>5, <1>6, <1>7, <1>8, TurnsKept
  <1>10. Mild(s, x)
    BY <1>1, <1>2, <1>5, <1>6, SentIsMild
  <1>11. Place(server, x)
    <2>1. s.scheme # "none"
      BY DEF Asking
    <2>2. Untight(server, s) => Untight(server, x)
      BY <1>10, StaysUntight
    <2> QED BY <1>1, <1>5, <1>6, <2>1, <2>2 DEF Place, Early, Late
  <1>12. Reply(server, [m |-> "creds", v |-> "none"]) = Result(server)
    BY DEF Reply
  <1>13. Result(server) \in Seq(Tokens) /\ <<>> \o Result(server) = Result(server)
    BY <1>1, ResultFacts, ConcatEmptySeq
  <1>14. Awaits(server, x, Result(server))
    BY <1>5, <1>6, <1>13 DEF Awaits, Ahead
  <1>15. x.out = IF s.chan = "open" THEN Append(s.out, [m |-> "creds", v |-> "none"]) ELSE s.out
    BY <1>6 DEF Sent
  <1>16. Ran(server, x, w)
    BY <1>2, <1>5, <1>6, <1>7, <1>9, <1>11, <1>12, <1>13, <1>14, <1>15, MovesRun
  <1>17. Dry(x)
    BY <1>5, <1>6 DEF Dry
  <1> QED BY <1>16, <1>17 DEF Settled, x

LEMMA NothingLeft ==
    ASSUME NEW s \in Client, NEW rest \in Seq(Tokens), s.q \o rest = <<>>
    PROVE  s.q = <<>> /\ rest = <<>> /\ Waits(s, 1)
  <1>1. s.q \in Seq(Tokens) /\ Len(s.q) \in Nat /\ Len(rest) \in Nat
    BY QueueFacts, LenProperties
  <1>2. Len(s.q) + Len(rest) = 0
    BY <1>1, ConcatProperties
  <1> QED BY <1>1, <1>2, EmptySeq DEF Waits

\* Plain and UnixLogon.
LEMMA PlainSettles ==
    ASSUME NEW server, NEW s, NEW w, NEW rest, Ready(server, s, w, rest),
           s.init = "Authentication", s.scheme \in {"Plain", "UnixLogon"}
    PROVE  Settled(server, IF Lacks(s, UserPassword) THEN Ask(s) ELSE Answered(s), w)
  <1>1. s \in Client /\ Turns(s) /\ rest \in Seq(Tokens)
    BY ReadyFacts DEF Ready
  <1>2. s.q \o rest = <<>>
    BY DEF Ready, Awaits, Ahead, OfScheme, Begins
  <1>3. s.q = <<>> /\ rest = <<>> /\ s.ard = "none"
    BY <1>1, <1>2, NothingLeft DEF Turns
  <1>4. s.scheme \in Asking \ {"RA2ne"} /\ s.scheme # "ARD"
    BY DEF Asking
  <1>5. Settled(server, Ask(s), w)
    BY <1>3, <1>4, AskSettles
  <1>6. Settled(server, Answered(s), w)
    BY <1>1, <1>3, <1>4, AnsweredSettles DEF Same
  <1> QED BY <1>5, <1>6

\* The schemes that read one challenge and answer it.
LEMMA ChallengeSettles ==
    ASSUME NEW server, NEW s, NEW w, NEW rest, Ready(server, s, w, rest),
           s.init = "Authentication", s.scheme \in {"VNCAuth", "MSLogonII"},
           NEW kind \in FieldKinds, Begins(server, s.scheme) = <<T(kind)>>, NEW fields
    PROVE  Settled(server, IF Waits(s, 1) THEN Stop(s)
                           ELSE IF Lacks(s, fields) THEN Ask(s) ELSE Answered(Read(s, <<kind>>)), w)
  <1> DEFINE t == Read(s, <<kind>>)
  <1>1. s \in Client /\ Turns(s) /\ rest \in Seq(Tokens)
    BY ReadyFacts DEF Ready
  <1>2. s.q \o rest = <<T(kind)>>
    BY DEF Ready, Awaits, Ahead, OfScheme
  <1>3. s.scheme \in Asking \ {"RA2ne"} /\ s.scheme # "ARD"
    BY DEF Asking
  <1>4. CASE Waits(s, 1)
    <2>1. Dry(s)
      BY DEF Dry
    <2> QED BY <1>4, <2>1, StopSettles
  <1>5. CASE ~Waits(s, 1)
    <2>1. s.q # <<>>
      BY <1>1, <1>5, QueueFacts DEF Waits
    <2>2. <<T(kind)>> \in Seq(Tokens) /\ Len(<<T(kind)>>) = 1 /\ <<T(kind)>>[1].k = kind
      BY TokenFacts
    <2>3. t \in Client /\ Same(s, t, {"q"}) /\ t.q = <<>> /\ rest = <<>>
      BY <1>1, <1>2, <2>1, <2>2, ReadLast
    <2>4. s.ard = "none" /\ t.ard = "none" /\ Same(s, t, {"q", "ard"})
      BY <1>1, <1>3, <2>3 DEF Turns, Same, Parts
    <2> HIDE DEF t
    <2>5. Settled(server, Ask(s), w)
      BY <1>3, <2>3, AskSettles
    <2>6. Settled(server, Answered(t), w)
      BY <1>3, <2>3, <2>4, AnsweredSettles
    <2> QED BY <1>5, <2>5, <2>6 DEF t
  <1> QED BY <1>4, <1>5

LEMMA StdVNCSettles ==
    ASSUME NEW server, NEW s, NEW w, NEW rest, Ready(server, s, w, rest),
           s.init = "Authentication", s.scheme = "VNCAuth"
    PROVE  Settled(server, NegotiateStdVNCAuth(s), w)
  <1>1. "challenge" \in FieldKinds /\ Begins(server, s.scheme) = <<T("challenge")>>
    BY DEF FieldKinds, Begins
  <1>2. NegotiateStdVNCAuth(s) = IF Waits(s, 1) THEN Stop(s)
          ELSE IF Lacks(s, {"password"}) THEN Ask(s) ELSE Answered(Read(s, <<"challenge">>))
    BY DEF NegotiateStdVNCAuth
  <1> QED BY <1>1, <1>2, ChallengeSettles

LEMMA MSLogonIISettles ==
    ASSUME NEW server, NEW s, NEW w, NEW rest, Ready(server, s, w, rest),
           s.init = "Authentication", s.scheme = "MSLogonII"
    PROVE  Settled(server, NegotiateMSLogonIIAuth(s), w)
  <1>1. "dh" \in FieldKinds /\ Begins(server, s.scheme) = <<T("dh")>>
    BY DEF FieldKinds, Begins
  <1>2. NegotiateMSLogonIIAuth(s) = IF Waits(s, 1) THEN Stop(s)
          ELSE IF Lacks(s, UserPassword) THEN Ask(s) ELSE Answered(Read(s, <<"dh">>))
    BY DEF NegotiateMSLogonIIAuth
  <1> QED BY <1>1, <1>2, ChallengeSettles

\* XVP names the user and goes on as VNCAuth, whose challenge is the answer.
LEMMA XvpSettles ==
    ASSUME NEW server, NEW s, NEW w, NEW rest, Ready(server, s, w, rest),
           s.init = "Authentication", s.scheme = "XVP"
    PROVE  Settled(server, NegotiateXvpAuth(s), w)
  <1> DEFINE u == Send(s, "user", "none")
             t == [u EXCEPT !.scheme = "VNCAuth"]
             x == Stop(t)
  <1>1. s \in Client /\ Turns(s) /\ Place(server, s) /\ rest \in Seq(Tokens) /\ server \in Peers
    BY ReadyFacts DEF Ready
  <1>2. s.q \o rest = <<>>
    BY DEF Ready, Awaits, Ahead, OfScheme, Begins
  <1>3. s.q = <<>> /\ rest = <<>> /\ s.ard = "none" /\ s.ra2 = "none"
    BY <1>1, <1>2, NothingLeft DEF Turns
  <1>4. CASE Lacks(s, Fields)
    <2>1. s.scheme \in Asking \ {"RA2ne"}
      BY DEF Asking
    <2>2. Settled(server, Ask(s), w)
      BY <1>3, <2>1, AskSettles
    <2> QED BY <1>4, <2>2 DEF NegotiateXvpAuth
  <1>5. CASE ~Lacks(s, Fields)
    <2>1. /\ [m |-> "user", v |-> "none"] \in Messages /\ "VNCAuth" \in Types
      BY DEF Messages, Values, Types, Schemes
    <2>2. u \in Client /\ Same(s, u, {"out"}) /\ u.out = Sent(s, "user", "none")
      BY <1>1, <2>1, SendFacts
    <2> HIDE DEF u
    <2>3. t \in Client /\ Same(u, t, {"scheme"}) /\ t.scheme = "VNCAuth"
      <3>1. t \in Client
        BY <2>1, <2>2 DEF Client
      <3> QED BY <2>2, <3>1 DEF Client, Same, Parts
    <2> HIDE DEF t
    <2>4. x \in Client /\ Same(t, x, {"go"}) /\ x.go = FALSE
      BY <2>3, StopFacts
    <2> HIDE DEF x
    <2>5. Same(s, x, Streamy)
      BY <2>2, <2>3, <2>4 DEF Same, Parts, Streamy
    <2>6. /\ x.q = <<>> /\ t.q = <<>> /\ x.scheme = "VNCAuth" /\ x.init = "Authentication" /\ x.ra2 = "none" /\ x.ard = "none"
          /\ x.tight = s.tight /\ x.version = s.version /\ x.out = Sent(s, "user", "none")
      BY <1>3, <2>2, <2>3, <2>4 DEF Same, Parts
    <2>7. NegotiateXvpAuth(s) = x
      <3>1. Waits(t, 1)
        BY <2>6 DEF Waits
      <3> QED BY <1>5, <3>1 DEF NegotiateXvpAuth, NegotiateStdVNCAuth, x, t, u
    <2>8. Turns(x)
      BY <2>5, <2>6, TurnsKept
    <2>9. Mild(s, x)
      BY <1>1, <2>1, <2>4, <2>6, SentIsMild
    <2>10. Place(server, x)
      BY <1>1, <2>6 DEF Place, Early, Late
    <2>11. /\ Reply(server, [m |-> "user", v |-> "none"]) = <<T("challenge")>>
           /\ Begins(server, "VNCAuth") = <<T("challenge")>>
      BY DEF Reply, Begins
    <2>12. <<T("challenge")>> \in Seq(Tokens) /\ <<>> \o <<T("challenge")>> = <<T("challenge")>>
      BY TokenFacts, ConcatEmptySeq DEF FieldKinds
    <2>13. Awaits(server, x, <<T("challenge")>>)
      BY <2>6, <2>11, <2>12 DEF Awaits, Ahead, OfScheme
    <2>14. x.out = IF s.chan = "open" THEN Append(s.out, [m |-> "user", v |-> "none"]) ELSE s.out
      BY <2>6 DEF Sent
    <2>15. Ran(server, x, w)
      BY <1>3, <2>1, <2>4, <2>5, <2>6, <2>8, <2>10, <2>11, <2>12, <2>13, <2>14, MovesRun
    <2>16. Dry(x)
      BY <2>6 DEF Dry
    <2> QED BY <2>7, <2>15, <2>16 DEF Settled
  <1> QED BY <1>4, <1>5

\* ARD reads the server's key and leaves the encryption under way.
LEMMA ARDSettles ==
    ASSUME NEW server, NEW s, NEW w, NEW rest, Ready(server, s, w, rest),
           s.init = "Authentication", s.scheme = "ARD"
    PROVE  Settled(server, NegotiateARDAuth(s), w)
  <1>1. s \in Client /\ Turns(s) /\ Place(server, s) /\ rest \in Seq(Tokens) /\ server \in Peers
    BY ReadyFacts DEF Ready
  <1>2. s.q \o rest = IF s.ard # "none" THEN <<>> ELSE <<T("generator"), T("keys")>>
    BY DEF Ready, Awaits, Ahead, OfScheme, Begins
  <1>3. s.scheme \in Asking \ {"RA2ne"} /\ s.ra2 = "none"
    BY <1>1 DEF Asking, Turns
  <1>4. CASE Lacks(s, UserPassword)
    <2>1. s.ard = "none"
      BY <1>1, <1>4 DEF Turns
    <2>2. Settled(server, Ask(s), w)
      BY <1>3, <1>4, <2>1, AskSettles
    <2> QED BY <1>4, <2>2 DEF NegotiateARDAuth
  <1>5. CASE ~Lacks(s, UserPassword) /\ s.ard = "ready"
    <2> DEFINE t == [s EXCEPT !.ard = "none"]
    <2>1. s.q = <<>> /\ rest = <<>> /\ ~s.asked
      BY <1>1, <1>2, <1>5, NothingLeft DEF Turns
    <2>2. t \in Client
      BY <1>1 DEF Client
    <2>3. Same(s, t, {"q", "ard"}) /\ t.ard = "none" /\ t.q = <<>>
      BY <1>1, <2>1 DEF Client, Same, Parts
    <2> HIDE DEF t
    <2>4. Settled(server, Answered(t), w)
      BY <1>3, <2>1, <2>2, <2>3, AnsweredSettles
    <2>5. NegotiateARDAuth(s) = Answered(t)
      BY <1>5 DEF NegotiateARDAuth, t
    <2> QED BY <2>4, <2>5
  <1>6. CASE ~Lacks(s, UserPassword) /\ s.ard # "ready" /\ Waits(s, 2)
    <2>1. NegotiateARDAuth(s) = Stop(s)
      BY <1>6 DEF NegotiateARDAuth
    <2>2. Dry(s)
      BY DEF Dry
    <2> QED BY <2>1, <2>2, StopSettles
  <1>7. CASE ~Lacks(s, UserPassword) /\ s.ard # "ready" /\ ~Waits(s, 2)
    <2> DEFINE kinds == <<"generator", "keys">>
               a == <<T("generator"), T("keys")>>
               u == Read(s, kinds)
               t == [u EXCEPT !.ard = "crypto"]
               x == Stop(t)
    <2>1. NegotiateARDAuth(s) = x
      BY <1>7 DEF NegotiateARDAuth
    <2>2. Len(s.q) >= 2
      BY <1>1, <1>7, QueueFacts DEF Waits
    <2>3. s.ard = "none"
      <3>1. SUFFICES ASSUME s.ard # "none" PROVE FALSE
        OBVIOUS
      <3>2. s.q = <<>>
        BY <1>1, <1>2, <3>1, NothingLeft
      <3> QED BY <2>2, <3>2
    <2>4. /\ a \in Seq(Tokens) /\ Len(a) = 2 /\ kinds \in Seq(FieldKinds) /\ Len(kinds) = 2
          /\ \A i \in 1 .. 2 : a[i].k = kinds[i]
      <3>1. /\ "generator" \in FieldKinds /\ "keys" \in FieldKinds
        BY DEF FieldKinds
      <3>2. /\ T("generator") \in Tokens /\ T("keys") \in Tokens /\ T("generator").k = "generator" /\ T("keys").k = "keys"
        BY <3>1, TokenFacts
      <3> QED BY <3>1, <3>2
    <2>5. u \in Client /\ Same(s, u, {"q"}) /\ u.q = <<>> /\ rest = <<>>
      <3>1. s.q \o rest = a
        BY <1>2, <2>3
      <3>2. Len(a) <= Len(s.q) /\ Len(kinds) = Len(a) /\ \A i \in 1 .. Len(a) : a[i].k = kinds[i]
        BY <2>2, <2>4
      <3>3. a \in Seq(Tokens) /\ kinds \in Seq(FieldKinds)
        BY <2>4
      <3> HIDE DEF a, kinds
      <3>4. FitsAll(s, rest, a, kinds)
        BY <1>1, <3>1, <3>2, <3>3 DEF FitsAll
      <3> QED BY <3>4, ReadAll
    <2> HIDE DEF u
    <2>6. t \in Client
      BY <2>5 DEF Client
    <2>7. Same(u, t, {"ard"}) /\ t.ard = "crypto"
      BY <2>5 DEF Client, Same, Parts
    <2> HIDE DEF t
    <2>8. x \in Client /\ Same(t, x, {"go"}) /\ x.go = FALSE
      BY <2>6, StopFacts
    <2> HIDE DEF x
    <2>9. Same(s, x, Streamy) /\ Same(s, x, {"q", "ard", "go"})
      BY <2>5, <2>7, <2>8 DEF Same, Parts, Streamy
    <2>10. /\ x.q = <<>> /\ x.scheme = "ARD" /\ x.init = "Authentication" /\ x.ra2 = "none" /\ x.ard = "crypto"
           /\ x.tight = s.tight /\ x.version = s.version /\ x.out = s.out /\ x.creds = s.creds
           /\ x.asked = s.asked /\ x.resumes = s.resumes /\ x.conn = s.conn
      BY <1>3, <2>5, <2>7, <2>8, <2>9 DEF Same, Parts
    <2>11. ~s.asked /\ (Owing(x) <=> Owing(s)) /\ ~Quiet(x) /\ ~Lacks(x, UserPassword)
      BY <1>1, <1>7, <2>10 DEF Turns, Owing, Quiet, Lacks
    <2>12. Turns(x)
      BY <1>1, <2>10, <2>11 DEF Turns
    <2>13. Place(server, x)
      BY <1>1, <2>10 DEF Place, Untight, Early, Late
    <2>14. Awaits(server, x, <<>>) /\ <<>> \in Seq(Tokens)
      <3>1. <<>> \in Seq(Tokens) /\ <<>> \o <<>> = <<>>
        BY EmptySeq, ConcatEmptySeq
      <3> QED BY <2>10, <3>1 DEF Awaits, Ahead, OfScheme
    <2>15. Ran(server, x, w)
      BY <2>5, <2>8, <2>9, <2>10, <2>12, <2>13, <2>14, MovesRun
    <2>16. Dry(x)
      BY <2>10 DEF Dry
    <2> QED BY <2>1, <2>15, <2>16 DEF Settled
  <1> QED BY <1>4, <1>5, <1>6, <1>7

\* FirstOf finds what it looks for.
LEMMA LeastOf ==
    ASSUME NEW known \in SUBSET Nat, known # {}
    PROVE  \E i \in known : \A j \in known : i <= j
  <1>1. PICK i \in known : \A j \in known : ~(<<j, i>> \in OpToRel(<, Nat))
    <2> HIDE DEF OpToRel
    <2> QED BY NatLessThanWellFounded, WFMin, Zenon
  <1>2. ASSUME NEW j \in known PROVE i <= j
    <2>1. ~(j < i)
      BY <1>1 DEF OpToRel
    <2> QED BY <2>1
  <1> QED BY <1>2

LEMMA FirstOfFacts ==
    ASSUME NEW list, Len(list) \in Nat, NEW set
    PROVE  \/ FirstOf(list, set) = "none" /\ \A i \in 1 .. Len(list) : list[i] \notin set
           \/ \E i \in 1 .. Len(list) : list[i] \in set /\ FirstOf(list, set) = list[i]
  <1> DEFINE known == {i \in 1 .. Len(list) : list[i] \in set}
             least == CHOOSE i \in known : \A j \in known : i <= j
  <1>1. CASE known = {}
    BY <1>1 DEF FirstOf
  <1>2. CASE known # {}
    <2>1. known \in SUBSET Nat
      OBVIOUS
    <2>2. least \in known
      <3>1. \E i \in known : \A j \in known : i <= j
        BY <1>2, <2>1, LeastOf
      <3> HIDE DEF known
      <3> QED BY <3>1
    <2>3. FirstOf(list, set) = list[least]
      BY <1>2 DEF FirstOf
    <2> QED BY <2>2, <2>3
  <1> QED BY <1>1, <1>2

LEMMA ConcatThree ==
    ASSUME NEW a \in Seq(Tokens), NEW b \in Seq(Tokens), NEW y \in Seq(Tokens)
    PROVE  (a \o b) \o y = a \o (b \o y)
  BY ConcatAssociative

\* A stream that starts with a list.
Listed(s, rest, count, item, values, y) ==
    /\ s \in Client /\ rest \in Seq(Tokens) /\ y \in Seq(Tokens) /\ values \in Seq(Values)
    /\ count \in FieldKinds /\ item \in FieldKinds
    /\ s.q \o rest = ListOf(count, item, values) \o y

\* Reading the length of a list.
LEMMA CountRead ==
    ASSUME NEW s, NEW rest, NEW count, NEW item, NEW values, NEW y,
           Listed(s, rest, count, item, values, y), ~Waits(s, 1)
    PROVE  /\ s.q # <<>> /\ s.q[1].n = Len(values) /\ Len(s.q) >= 1
           /\ Read(s, <<count>>) \in Client /\ Same(s, Read(s, <<count>>), {"q"})
           /\ Streams(Read(s, <<count>>), rest, Items(item, values) \o y)
           /\ Len(Read(s, <<count>>).q) = Len(s.q) - 1
  <1> DEFINE a == <<N(count, Len(values))>>
             items == Items(item, values)
             list == ListOf(count, item, values)
             kinds == <<count>>
  <1>0. /\ s \in Client /\ rest \in Seq(Tokens) /\ y \in Seq(Tokens) /\ values \in Seq(Values)
        /\ count \in FieldKinds /\ item \in FieldKinds
        /\ s.q \o rest = ListOf(count, item, values) \o y
    BY DEF Listed
  <1>1. s.q \in Seq(Tokens) /\ Len(s.q) \in Nat /\ Len(s.q) >= 1 /\ Len(values) \in Nat
    BY <1>0, QueueFacts, LenProperties DEF Waits
  <1>2. N(count, Len(values)) \in Tokens /\ N(count, Len(values)).k = count /\ N(count, Len(values)).n = Len(values)
    BY <1>0, <1>1, TokenFacts
  <1>3. /\ a \in Seq(Tokens) /\ Len(a) = 1 /\ a[1].k = count
        /\ kinds \in Seq(FieldKinds) /\ Len(kinds) = 1 /\ kinds[1] = count
    BY <1>0, <1>2
  <1>4. items \in Seq(Tokens)
    BY <1>0, ItemFacts
  <1>5. list = a \o items
    BY DEF ListOf, Items
  <1>6. /\ list \in Seq(Tokens) /\ list[1].n = Len(values) /\ Len(list) >= 1
    BY <1>0, <1>1, ListFacts
  <1> HIDE DEF a, items, list, kinds
  <1>7. items \o y \in Seq(Tokens)
    BY <1>0, <1>4, ConcatProperties
  <1>8. s.q \o rest = a \o (items \o y)
    <2>1. (a \o items) \o y = a \o (items \o y)
      BY <1>0, <1>3, <1>4, ConcatThree
    <2>2. s.q \o rest = list \o y
      BY <1>0 DEF list
    <2> QED BY <1>5, <2>1, <2>2
  <1>9. s.q[1] = list[1]
    <2>1. s.q \o rest = list \o y
      BY <1>0 DEF list
    <2> QED BY <1>0, <1>1, <1>6, <2>1, QueueIsFirst
  <1> DEFINE later == items \o y
  <1>10. Fits(s, rest, a, later, kinds)
    <2>1. Len(a) <= Len(s.q) /\ Len(kinds) = Len(a) /\ \A i \in 1 .. Len(a) : a[i].k = kinds[i]
      BY <1>1, <1>3
    <2> QED BY <1>0, <1>3, <1>7, <1>8, <2>1 DEF Fits
  <1> HIDE DEF later
  <1>11. Read(s, kinds) \in Client /\ Same(s, Read(s, kinds), {"q"})
    BY <1>10, ReadFits
  <1>12. Read(s, kinds).q \o rest = later
    BY <1>10, ReadFits
  <1>13. Len(Read(s, kinds).q) = Len(s.q) - 1
    <2>1. Len(Read(s, kinds).q) = Len(s.q) - Len(a)
      BY <1>10, ReadFits
    <2> QED BY <1>3, <2>1
  <1>14. s.q # <<>> /\ s.q[1].n = Len(values) /\ Len(s.q) >= 1
    BY <1>1, <1>6, <1>9
  <1> QED BY <1>11, <1>12, <1>13, <1>14 DEF kinds, later, items, Streams

\* Reading a whole list.
LEMMA ListRead ==
    ASSUME NEW s, NEW rest, NEW count, NEW item, NEW values, NEW y,
           Listed(s, rest, count, item, values, y), ~Waits(s, 1), ~Waits(s, 1 + Len(values))
    PROVE  /\ ReadList(s, count, item) \in Client /\ Same(s, ReadList(s, count, item), {"q"})
           /\ ReadList(s, count, item).q \o rest = y
           /\ ListSeq(s) = values /\ List(s) = {values[i] : i \in 1 .. Len(values)}
           /\ \A i \in 1 .. Len(values) : s.q[1 + i].v = values[i]
  <1> DEFINE list == ListOf(count, item, values)
             n == Len(values)
             kinds == <<count>> \o Kinds(item, n)
  <1>0. /\ s \in Client /\ rest \in Seq(Tokens) /\ y \in Seq(Tokens) /\ values \in Seq(Values)
        /\ count \in FieldKinds /\ item \in FieldKinds
        /\ s.q \o rest = ListOf(count, item, values) \o y
    BY DEF Listed
  <1>1. s.q \in Seq(Tokens) /\ Len(s.q) \in Nat /\ n \in Nat /\ 1 + n <= Len(s.q)
    BY <1>0, QueueFacts, LenProperties DEF Waits
  <1>2. s.q[1].n = n
    BY CountRead
  <1>3. /\ list \in Seq(Tokens) /\ Len(list) = 1 + n /\ list[1].k = count
        /\ \A i \in 1 .. n : list[1 + i].k = item /\ list[1 + i].v = values[i]
    BY <1>0, ListFacts
  <1>4. /\ kinds \in Seq(FieldKinds) /\ Len(kinds) = 1 + n
        /\ \A i \in 1 .. 1 + n : kinds[i] = IF i = 1 THEN count ELSE item
    <2>1. /\ Kinds(item, n) \in Seq(FieldKinds) /\ Len(Kinds(item, n)) = n
          /\ \A i \in 1 .. n : Kinds(item, n)[i] = item
      BY <1>0, <1>1, KindFacts
    <2>2. <<count>> \in Seq(FieldKinds) /\ Len(<<count>>) = 1 /\ <<count>>[1] = count
      BY <1>0
    <2>3. /\ kinds \in Seq(FieldKinds) /\ Len(kinds) = Len(<<count>>) + Len(Kinds(item, n))
          /\ \A i \in 1 .. Len(<<count>>) + Len(Kinds(item, n)) :
               kinds[i] = IF i <= Len(<<count>>) THEN <<count>>[i] ELSE Kinds(item, n)[i - Len(<<count>>)]
      BY <2>1, <2>2, ConcatProperties
    <2>4. ASSUME NEW i \in 1 .. 1 + n PROVE kinds[i] = IF i = 1 THEN count ELSE item
      <3>1. CASE i = 1
        BY <1>1, <2>1, <2>2, <2>3, <3>1
      <3>2. CASE i # 1
        <4>1. i - 1 \in 1 .. n
          BY <1>1, <3>2
        <4> QED BY <1>1, <2>1, <2>2, <2>3, <3>2, <4>1
      <3> QED BY <3>1, <3>2
    <2> QED BY <1>1, <2>1, <2>2, <2>3, <2>4
  <1>5. ReadList(s, count, item) = Read(s, kinds)
    BY <1>2 DEF ReadList, Kinds
  <1>6. s.q \o rest = list \o y
    BY <1>0
  <1>7. \A i \in 1 .. Len(list) : list[i].k = kinds[i]
    <2>1. ASSUME NEW i \in 1 .. 1 + n, i # 1 PROVE list[i].k = item
      <3>1. i - 1 \in 1 .. n /\ 1 + (i - 1) = i
        BY <1>1, <2>1
      <3> QED BY <1>3, <3>1
    <2> QED BY <1>3, <1>4, <2>1
  <1>8. \A i \in 1 .. n : s.q[1 + i].v = values[i]
    <2>1. ASSUME NEW i \in 1 .. n PROVE s.q[1 + i].v = values[i]
      <3>1. 1 + i \in 1 .. Len(s.q) /\ 1 + i <= Len(list)
        BY <1>1, <1>3
      <3> HIDE DEF list
      <3>2. s.q[1 + i] = list[1 + i]
        BY <1>0, <1>3, <1>6, <3>1, QueueIsFirst
      <3> QED BY <1>3, <3>2
    <2> QED BY <2>1
  <1>9. ListSeq(s) = values
    <2>1. ListSeq(s) = [i \in 1 .. n |-> values[i]]
      BY <1>2, <1>8 DEF ListSeq
    <2> QED BY <1>0, <1>1, <2>1
  <1>10. List(s) = {values[i] : i \in 1 .. n}
    <2>1. List(s) = {s.q[i].v : i \in 2 .. 1 + n}
      BY <1>2 DEF List
    <2>2. \A i \in 2 .. 1 + n : i - 1 \in 1 .. n /\ s.q[i].v = values[i - 1]
      <3>1. ASSUME NEW i \in 2 .. 1 + n PROVE i - 1 \in 1 .. n /\ s.q[i].v = values[i - 1]
        <4>1. i - 1 \in 1 .. n /\ 1 + (i - 1) = i
          BY <1>1
        <4> QED BY <1>8, <4>1
      <3> QED BY <3>1
    <2>3. \A i \in 1 .. n : 1 + i \in 2 .. 1 + n
      BY <1>1
    <2> DEFINE got == {s.q[i].v : i \in 2 .. 1 + n}
               given == {values[i] : i \in 1 .. n}
    <2>4. ASSUME NEW v \in got PROVE v \in given
      <3>1. PICK i \in 2 .. 1 + n : v = s.q[i].v
        OBVIOUS
      <3> QED BY <2>2, <3>1
    <2>5. ASSUME NEW v \in given PROVE v \in got
      <3>1. PICK i \in 1 .. n : v = values[i]
        OBVIOUS
      <3> QED BY <1>8, <2>3, <3>1
    <2> QED BY <2>1, <2>4, <2>5
  <1> HIDE DEF list, kinds
  <1>11. /\ Read(s, kinds) \in Client /\ Same(s, Read(s, kinds), {"q"}) /\ Read(s, kinds).q \o rest = y
    <2>1. Len(list) <= Len(s.q) /\ Len(kinds) = Len(list)
      BY <1>1, <1>3, <1>4
    <2>2. Fits(s, rest, list, y, kinds)
      BY <1>0, <1>3, <1>4, <1>6, <1>7, <2>1 DEF Fits
    <2>3. Read(s, kinds) \in Client /\ Same(s, Read(s, kinds), {"q"})
      BY <2>2, ReadFits
    <2>4. Read(s, kinds).q \o rest = y
      BY <2>2, ReadFits
    <2> QED BY <2>3, <2>4
  <1> QED BY <1>5, <1>8, <1>9, <1>10, <1>11 DEF n

\* What no version 3.7 server of the kind would do: refuse after "None".
Honest(server) ==
    server.version # "3.8" /\ (Contains(server.types, "None") \/ Contains(server.venTypes, "None"))
      => server.accepts

\* The authentication of a scheme begins.
LEMMA BegunAhead ==
    ASSUME NEW server, NEW x, x.init = "Authentication", x.ra2 = "none", x.ard = "none", ~x.tight,
           x.scheme = "VeNCrypt" => x.ven = 0, NEW rest, x.q \o rest = Begins(server, x.scheme)
    PROVE  Awaits(server, x, rest)
  <1>1. Ahead(server, x) = OfScheme(server, x)
    BY DEF Ahead
  <1>2. OfScheme(server, x) = Begins(server, x.scheme)
    <2>1. CASE x.scheme = "RA2ne"
      BY <2>1 DEF OfScheme, OfRA2, Begins
    <2>2. CASE x.scheme = "VeNCrypt"
      BY <2>2 DEF OfScheme, OfVeNCrypt, Begins
    <2>3. CASE x.scheme \notin {"RA2ne", "VeNCrypt"}
      BY <2>3 DEF OfScheme
    <2> QED BY <2>1, <2>2, <2>3
  <1> QED BY <1>1, <1>2 DEF Awaits

\* The message that chooses a scheme.
LEMMA ChosenUntight ==
    ASSUME NEW server, NEW s \in Client, NEW x, Untight(server, s), NEW m, NEW v, [m |-> m, v |-> v] \in Messages,
           x.out = Sent(s, m, v), [m |-> m, v |-> v] # [m |-> "type", v |-> "Tight"]
    PROVE  Untight(server, x)
  <1>1. s.out \in Seq(Messages) /\ Len(s.out) \in Nat
    BY LenProperties DEF Client
  <1>2. CASE s.chan = "open"
    <2>1. x.out = Append(s.out, [m |-> m, v |-> v])
      BY <1>2 DEF Sent
    <2>2. /\ Len(x.out) = Len(s.out) + 1 /\ x.out[Len(s.out) + 1] = [m |-> m, v |-> v]
          /\ \A i \in 1 .. Len(s.out) : x.out[i] = s.out[i]
      BY <1>1, <2>1, AppendProperties
    <2>3. ASSUME NEW i \in 1 .. Len(x.out) PROVE x.out[i] # [m |-> "type", v |-> "Tight"]
      <3>1. CASE i \in 1 .. Len(s.out)
        BY <2>2, <3>1 DEF Untight
      <3>2. CASE i \notin 1 .. Len(s.out)
        <4>1. i = Len(s.out) + 1
          BY <1>1, <2>2, <3>2
        <4> QED BY <2>2, <4>1
      <3> QED BY <3>1, <3>2
    <2> QED BY <2>3 DEF Untight
  <1>3. CASE s.chan # "open"
    BY <1>3 DEF Sent, Untight
  <1> QED BY <1>2, <1>3

\* A list of security types: the reading of it.
LEMMA SecurityListDone ==
    ASSUME NEW server, NEW s, NEW w, NEW rest, Ready(server, s, w, rest), Honest(server),
           s.init = "Security", s.conn = "connecting", s.version # "3.3"
    PROVE  Done(server, NegotiateSecurity(s), w)
  <1> DEFINE types == server.types
             n == Len(types)
             type == Chosen(ListSeq(s))
             t == ReadList(s, "types", "type")
  <1>1. /\ s \in Client /\ Turns(s) /\ Place(server, s) /\ ~Owing(s) /\ s.ra2 = "none" /\ s.ard = "none"
        /\ server \in Peers /\ rest \in Seq(Tokens)
    BY ReadyFacts DEF Ready, Turns, Early
  <1>2. s.scheme = "none" /\ ~s.tight /\ s.ven = 0 /\ Untight(server, s) /\ s.version = server.version
    BY <1>1 DEF Place, Early
  <1>3. s.q \o rest = Security(server)
    BY DEF Ready, Awaits, Ahead
  <1>4. PICK y \in Seq(Tokens) : /\ Security(server) = ListOf("types", "type", types) \o y
                                 /\ y = IF types = <<>> THEN Reason(server) ELSE <<>>
    BY <1>1, <1>2, SecurityFacts
  <1>5. types \in Seq(Values) /\ n \in Nat /\ (types = <<>> <=> n = 0) /\ types \in Seq(Types)
    BY <1>1, PeerFacts
  <1>6. Listed(s, rest, "types", "type", types, y)
    BY <1>1, <1>3, <1>4, <1>5 DEF Listed, FieldKinds
  <1>7. CASE Waits(s, 1) \/ (~Waits(s, 1) /\ Waits(s, 1 + s.q[1].n))
    <2>1. NegotiateSecurity(s) = Stop(s)
      BY <1>7 DEF NegotiateSecurity
    <2>2. Dry(s)
      BY DEF Dry
    <2> QED BY <2>1, <2>2, StopSettles DEF Settled, Done
  <1>8. CASE ~Waits(s, 1) /\ ~Waits(s, 1 + s.q[1].n) /\ n = 0
    <2> DEFINE u == Read(s, <<"types">>)
               x == Go(u, "SecurityReason")
    <2>1. s.q # <<>> /\ s.q[1].n = n
      BY <1>6, <1>8, CountRead
    <2>2. u \in Client /\ Same(s, u, {"q"})
      BY <1>6, <1>8, CountRead
    <2>3. u.q \o rest = Items("type", types) \o y
      <3>1. Streams(Read(s, <<"types">>), rest, Items("type", types) \o y)
        BY <1>6, <1>8, CountRead
      <3> QED BY <3>1 DEF Streams
    <2>4. u.q \o rest = Reason(server)
      <3>1. Items("type", types) = <<>>
        <4>1. Items("type", types) \in Seq(Tokens) /\ Len(Items("type", types)) = 0
          BY <1>5, <1>8, ItemFacts DEF FieldKinds
        <4> QED BY <4>1, EmptySeq
      <3>2. y = Reason(server)
        BY <1>4, <1>5, <1>8
      <3>3. Reason(server) \in Seq(Tokens)
        BY <1>1, ReasonFacts
      <3>4. <<>> \o Reason(server) = Reason(server)
        BY <3>3, ConcatEmptySeq
      <3> QED BY <2>3, <3>1, <3>2, <3>4
    <2>5. NegotiateSecurity(s) = x
      BY <1>8, <2>1 DEF NegotiateSecurity
    <2> HIDE DEF u
    <2>6. x \in Client /\ Same(u, x, {"go", "init"}) /\ x.go = TRUE /\ x.init = "SecurityReason"
      BY <2>2, GoFacts DEF InitStates
    <2> HIDE DEF x
    <2>7. Same(s, x, Streamy) /\ Same(s, x, {"q", "go", "init"})
      BY <2>2, <2>6 DEF Same, Parts, Streamy
    <2>8. /\ x.q \o rest = Reason(server) /\ x.scheme = "none" /\ x.ra2 = "none" /\ x.ard = "none"
          /\ ~x.tight /\ x.version = s.version /\ x.out = s.out /\ x.ven = 0 /\ x.conn = "connecting"
      BY <1>1, <1>2, <2>4, <2>6, <2>7 DEF Same, Parts
    <2>9. Turns(x)
      BY <1>2, <2>7, <2>8, TurnsKept
    <2>10. Place(server, x)
      BY <1>1, <1>2, <1>5, <1>8, <2>6, <2>8 DEF Place, Untight, Early, Late
    <2>11. Awaits(server, x, rest)
      BY <2>6, <2>8 DEF Awaits, Ahead
    <2>12. Ran(server, x, w)
      BY <1>1, <1>2, <2>1, <2>6, <2>7, <2>8, <2>9, <2>10, <2>11, MovesRun
    <2> QED BY <2>5, <2>6, <2>8, <2>12 DEF Done
  <1>9. CASE ~Waits(s, 1) /\ ~Waits(s, 1 + s.q[1].n) /\ n # 0
    <2>1. s.q # <<>> /\ s.q[1].n = n
      BY <1>6, <1>9, CountRead
    <2>2. ~Waits(s, 1 + Len(types)) /\ y = <<>>
      BY <1>4, <1>5, <1>9, <2>1
    <2>3. t \in Client /\ Same(s, t, {"q"})
      BY <1>6, <1>9, <2>2, ListRead
    <2>4. t.q \o rest = y
      BY <1>6, <1>9, <2>2, ListRead
    <2>5. ListSeq(s) = types
      BY <1>6, <1>9, <2>2, ListRead
    <2>6. t.q = <<>> /\ rest = <<>>
      BY <1>1, <2>2, <2>3, <2>4, NothingLeft
    <2>7. type = Chosen(types)
      BY <2>5
    <2>8. NegotiateSecurity(s) = IF type = "none" THEN Fail(t, "unsupported")
                                 ELSE Go([Send(t, "type", type) EXCEPT !.scheme = type], "Authentication")
      BY <1>9, <2>1 DEF NegotiateSecurity
    <2> HIDE DEF t, type
    <2>9. /\ t.out = s.out /\ t.chan = s.chan /\ t.init = s.init /\ t.scheme = "none" /\ t.ra2 = "none" /\ t.ard = "none"
          /\ ~t.tight /\ t.ven = 0 /\ t.version = s.version /\ Same(s, t, Streamy)
      BY <1>1, <1>2, <2>3 DEF Same, Parts, Streamy
    <2>10. CASE type = "none"
      <3>1. Place(server, t)
        BY <1>1, <1>2, <2>9 DEF Place, Untight, Early, Late
      <3>2. Because(server, t, "unsupported")
        BY <2>7, <2>10 DEF Because
      <3>3. Settled(server, Fail(t, "unsupported"), w)
        BY <1>1, <1>2, <2>3, <2>9, <3>1, <3>2, FailSettles DEF Reasons
      <3> QED BY <2>8, <2>10, <3>3 DEF Settled, Done
    <2>11. CASE type # "none"
      <3> DEFINE u == Send(t, "type", type)
                 v == [u EXCEPT !.scheme = type]
                 x == Go(v, "Authentication")
      <3>1. PICK i \in 1 .. n : types[i] \in Schemes /\ type = types[i]
        BY <1>5, <2>7, <2>11, FirstOfFacts DEF Chosen
      <3>2. type \in Schemes /\ type \in Types /\ type # "unknown" /\ [m |-> "type", v |-> type] \in Messages
        <4>1. type \in Schemes
          BY <3>1
        <4>2. type \in Types /\ type \in Values
          BY <4>1 DEF Types, Values
        <4> QED BY <4>1, <4>2 DEF Schemes, Messages
      <3>3. type = "None" /\ server.version # "3.8" => server.accepts
        <4>1. type = "None" => Contains(server.types, "None")
          BY <3>1 DEF Contains
        <4> QED BY <4>1 DEF Honest
      <3>4. u \in Client /\ Same(t, u, {"out"}) /\ u.out = Sent(t, "type", type)
        BY <2>3, <3>2, SendFacts
      <3> HIDE DEF u
      <3>5. v \in Client
        BY <3>2, <3>4 DEF Client
      <3>6. Same(u, v, {"scheme"}) /\ v.scheme = type
        BY <3>4 DEF Client, Same, Parts
      <3> HIDE DEF v
      <3>7. x \in Client /\ Same(v, x, {"go", "init"}) /\ x.go = TRUE /\ x.init = "Authentication"
        BY <3>5, GoFacts DEF InitStates
      <3>8. NegotiateSecurity(s) = x
        BY <2>8, <2>11 DEF u, v
      <3> HIDE DEF x
      <3>9. Same(s, x, Streamy)
        BY <2>9, <3>4, <3>6, <3>7 DEF Same, Parts, Streamy
      <3>10. /\ x.q = <<>> /\ x.scheme = type /\ x.ra2 = "none" /\ x.ard = "none" /\ ~x.tight /\ x.ven = 0
             /\ x.version = s.version /\ x.out = Sent(s, "type", type)
        BY <2>6, <2>9, <3>4, <3>6, <3>7 DEF Same, Parts, Sent
      <3>11. x.conn = "connecting"
        BY <3>9 DEF Same, Parts, Streamy
      <3>12. Turns(x)
        BY <1>2, <3>9, <3>10, TurnsKept
      <3>13. Place(server, x)
        <4>1. type # "Tight" => Untight(server, x)
          BY <1>1, <1>2, <3>2, <3>10, ChosenUntight
        <4> QED BY <1>1, <1>2, <1>5, <1>9, <3>2, <3>3, <3>7, <3>10, <4>1 DEF Place, Early, Late, Schemes
      <3>14. Reply(server, [m |-> "type", v |-> type]) = Begins(server, type)
        BY DEF Reply
      <3>15. Begins(server, type) \in Seq(Tokens) /\ <<>> \o Begins(server, type) = Begins(server, type)
        BY <1>1, BeginsFacts, ConcatEmptySeq
      <3>16. Awaits(server, x, Begins(server, type))
        BY <3>7, <3>10, <3>15, BegunAhead
      <3>17. Ran(server, x, w)
        <4>1. x.out = IF s.chan = "open" THEN Append(s.out, [m |-> "type", v |-> type]) ELSE s.out
          BY <3>10 DEF Sent
        <4> QED BY <1>2, <2>6, <3>2, <3>7, <3>9, <3>10, <3>12, <3>13, <3>14, <3>15, <3>16, <4>1, MovesRun
      <3> QED BY <3>7, <3>8, <3>11, <3>17 DEF Done
    <2> QED BY <2>10, <2>11
  <1> QED BY <1>7, <1>8, <1>9

\* Version 3.3: the server names the scheme.
LEMMA SecuritySchemeDone ==
    ASSUME NEW server, NEW s, NEW w, NEW rest, Ready(server, s, w, rest), Honest(server),
           s.init = "Security", s.conn = "connecting", s.version = "3.3"
    PROVE  Done(server, NegotiateSecurity(s), w)
  <1> DEFINE types == server.types
             type == Head(s.q).v
             t == Read(s, <<"scheme">>)
             v == [t EXCEPT !.scheme = type]
             x == Go(v, "Authentication")
             z == Go(t, "SecurityReason")
  <1>1. /\ s \in Client /\ Turns(s) /\ Place(server, s) /\ ~Owing(s) /\ s.ra2 = "none" /\ s.ard = "none"
        /\ server \in Peers /\ rest \in Seq(Tokens)
    BY ReadyFacts DEF Ready, Turns, Early
  <1>2. s.scheme = "none" /\ ~s.tight /\ s.ven = 0 /\ Untight(server, s) /\ s.version = server.version
    BY <1>1 DEF Place, Early
  <1>3. s.q \o rest = Security(server)
    BY DEF Ready, Awaits, Ahead
  <1>4. PICK y \in Seq(Tokens), value \in Values :
          /\ Security(server) = <<V("scheme", value)>> \o y
          /\ types = <<>> => value = "0" /\ y = Reason(server)
          /\ types # <<>> => value = Head(types) /\ y = Begins(server, Head(types))
    BY <1>1, <1>2, SecurityFacts
  <1>5. CASE Waits(s, 1)
    <2>1. NegotiateSecurity(s) = Stop(s)
      BY <1>5 DEF NegotiateSecurity
    <2>2. Dry(s)
      BY DEF Dry
    <2> QED BY <2>1, <2>2, StopSettles DEF Settled, Done
  <1>6. CASE ~Waits(s, 1)
    <2> DEFINE a == <<V("scheme", value)>>
               kinds == <<"scheme">>
    <2>1. s.q # <<>> /\ Len(s.q) >= 1
      BY <1>1, <1>6, QueueFacts DEF Waits
    <2>2. /\ a \in Seq(Tokens) /\ Len(a) = 1 /\ a[1].k = "scheme" /\ a[1].v = value
          /\ kinds \in Seq(FieldKinds) /\ Len(kinds) = 1 /\ kinds[1] = "scheme"
      <3>1. "scheme" \in FieldKinds
        BY DEF FieldKinds
      <3>2. V("scheme", value) \in Tokens /\ V("scheme", value).k = "scheme" /\ V("scheme", value).v = value
        BY <3>1, TokenFacts
      <3> QED BY <3>1, <3>2
    <2>3. s.q \o rest = a \o y
      BY <1>3, <1>4
    <2>4. type = value
      <3>1. Head(s.q) = a[1]
        BY <1>1, <2>1, <2>2, <2>3, QueueIsFirst
      <3> QED BY <2>2, <3>1
    <2> HIDE DEF a, kinds
    <2>5. Fits(s, rest, a, y, kinds)
      BY <1>1, <2>1, <2>2, <2>3 DEF Fits
    <2>6. Read(s, kinds) \in Client /\ Same(s, Read(s, kinds), {"q"})
      BY <2>5, ReadFits
    <2>7. Read(s, kinds).q \o rest = y
      BY <2>5, ReadFits
    <2>8. t \in Client /\ Same(s, t, {"q"}) /\ t.q \o rest = y
      BY <2>6, <2>7 DEF kinds
    <2>9. NegotiateSecurity(s) = IF type = "0" THEN z ELSE x
      BY <1>6 DEF NegotiateSecurity
    <2> HIDE DEF t, type
    <2>10. types \in Seq(Types) /\ (types # <<>> => Head(types) \in Types) /\ (types = <<>> <=> Len(types) = 0)
           /\ Len(types) \in Nat
      BY <1>1, PeerFacts
    <2>11. "0" \notin Types
      BY DEF Types, Schemes
    <2>12. CASE type = "0"
      <3>1. types = <<>> /\ y = Reason(server)
        BY <1>4, <2>4, <2>10, <2>11, <2>12
      <3>2. z \in Client /\ Same(t, z, {"go", "init"}) /\ z.go = TRUE /\ z.init = "SecurityReason"
        BY <2>8, GoFacts DEF InitStates
      <3> HIDE DEF z
      <3>3. Same(s, z, Streamy) /\ Same(s, z, {"q", "go", "init"})
        BY <2>8, <3>2 DEF Same, Parts, Streamy
      <3>4. /\ z.q = t.q /\ z.scheme = "none" /\ z.ra2 = "none" /\ z.ard = "none"
            /\ ~z.tight /\ z.version = s.version /\ z.out = s.out /\ z.ven = 0 /\ z.conn = "connecting"
        BY <1>1, <1>2, <3>2, <3>3 DEF Same, Parts
      <3>5. Turns(z)
        BY <1>2, <3>3, <3>4, TurnsKept
      <3>6. Place(server, z)
        BY <1>1, <1>2, <3>1, <3>2, <3>4 DEF Place, Untight, Early, Late
      <3>7. Awaits(server, z, rest)
        BY <2>8, <3>1, <3>2, <3>4 DEF Awaits, Ahead
      <3>8. Ran(server, z, w)
        BY <1>1, <1>2, <2>1, <3>2, <3>3, <3>4, <3>5, <3>6, <3>7, MovesRun
      <3> QED BY <2>9, <2>12, <3>2, <3>4, <3>8 DEF Done
    <2>13. CASE type # "0"
      <3>1. types # <<>> /\ type = Head(types) /\ type \in Types /\ y = Begins(server, type)
        BY <1>4, <2>4, <2>10, <2>13
      <3>2. type = "None" => server.accepts
        <4>1. types[1] = Head(types) /\ 1 \in 1 .. Len(types)
          BY <2>10, <3>1
        <4>2. type = "None" => Contains(server.types, "None")
          BY <3>1, <4>1 DEF Contains
        <4> QED BY <1>2, <4>2 DEF Honest
      <3>3. v \in Client
        <4>1. t \in Client /\ type \in {"none"} \cup Types
          BY <2>8, <3>1
        <4> QED BY <4>1 DEF Client
      <3>4. Same(t, v, {"scheme"}) /\ v.scheme = type
        BY <2>8 DEF Client, Same, Parts
      <3> HIDE DEF v
      <3>5. x \in Client /\ Same(v, x, {"go", "init"}) /\ x.go = TRUE /\ x.init = "Authentication"
        BY <3>3, GoFacts DEF InitStates
      <3> HIDE DEF x
      <3>6. Same(s, x, Streamy) /\ Same(s, x, {"q", "go", "init", "scheme"})
        BY <2>8, <3>4, <3>5 DEF Same, Parts, Streamy
      <3>7. /\ x.q = t.q /\ x.scheme = type /\ x.ra2 = "none" /\ x.ard = "none"
            /\ ~x.tight /\ x.version = s.version /\ x.out = s.out /\ x.ven = 0 /\ x.conn = "connecting"
        BY <1>1, <1>2, <3>4, <3>5, <3>6 DEF Same, Parts
      <3>8. Turns(x)
        BY <1>2, <3>6, <3>7, TurnsKept
      <3>9. Place(server, x)
        <4>1. type # "none"
          BY <3>1 DEF Types, Schemes
        <4> QED BY <1>1, <1>2, <3>1, <3>2, <3>5, <3>7, <4>1 DEF Place, Untight, Early, Late
      <3>10. Awaits(server, x, rest)
        BY <2>8, <3>1, <3>5, <3>7, BegunAhead
      <3>11. Ran(server, x, w)
        BY <1>1, <1>2, <2>1, <3>5, <3>6, <3>7, <3>8, <3>9, <3>10, MovesRun
      <3> QED BY <2>9, <2>13, <3>5, <3>7, <3>11 DEF Done
    <2> QED BY <2>12, <2>13
  <1> QED BY <1>5, <1>6

\* The client is refused, once everything was read.
LEMMA RefuseSettles ==
    ASSUME NEW server, NEW s, NEW w, NEW rest, Ready(server, s, w, rest),
           s.init \in {"SecurityResult", "SecurityReason"}, s.conn = "connecting",
           ~server.accepts \/ server.types = <<>>,
           NEW t \in Client, Same(s, t, {"q"}), t.q = <<>>
    PROVE  Settled(server, Fail(Dispatch(t, "securityfailure"), "refused"), w)
  <1> DEFINE f == Fail(Dispatch(t, "securityfailure"), "refused")
  <1>1. /\ s \in Client /\ Turns(s) /\ Place(server, s) /\ s.ra2 = "none" /\ s.ard = "none"
        /\ server \in Peers /\ Base(server, s) /\ s.inStep /\ ~Past(s)
        /\ (s.scheme = "ARD" => ~s.asked) /\ s.init \notin Early
    BY ReadyFacts DEF Ready, Turns, Early
  <1>2. /\ Same(s, t, Streamy) /\ t.conn = "connecting" /\ t.ra2 = "none" /\ t.ard = "none" /\ t.scheme = s.scheme
        /\ t.init = s.init /\ t.out = s.out /\ t.tight = s.tight /\ t.version = s.version /\ t.ven = s.ven
        /\ t.venLength = s.venLength
    BY <1>1 DEF Same, Parts, Streamy
  <1>3. Turns(t)
    BY <1>1, <1>2, TurnsKept
  <1>4. Place(server, t)
    BY <1>1, <1>2 DEF Place, Untight
  <1>5. Base(server, t)
    <2>1. s.conn = "connecting" => s.chan = "open"
      BY DEF Ready
    <2>2. t.init # "none"
      BY <1>2
    <2> QED BY <1>1, <1>2, <1>3, <1>4, <2>1, <2>2, MovesBase
  <1>6. Heard(server, t)
    <2> DEFINE r == Ahead(server, t)
    <2>1. r \in Seq(Tokens)
      BY <1>1, <1>2, ResultFacts, ReasonFacts DEF Ahead
    <2>2. t.q \o r = r
      BY <2>1, ConcatEmptySeq
    <2>3. Awaits(server, t, r)
      BY <1>2, <2>2 DEF Awaits
    <2> QED BY <2>1, <2>3 DEF Heard
  <1>7. Dry(t)
    <2>1. Len(t.q) < 1
      OBVIOUS
    <2> QED BY <1>2, <2>1 DEF Dry
  <1>8. /\ Hold(server, f, w) /\ f.go = FALSE
        /\ Alive(f) /\ ~Stale(f) /\ Dry(t) => Dry(f)
    BY <1>1, <1>2, <1>5, <1>6, RefuseHolds
  <1> HIDE DEF f
  <1>9. Settled(server, f, w)
    BY <1>7, <1>8 DEF Settled, Ran
  <1> QED BY <1>9 DEF f

\* The verdict: it lets the client in, or says why not, or refuses it.
LEMMA ResultDone ==
    ASSUME NEW server, NEW s, NEW w, NEW rest, Ready(server, s, w, rest),
           s.init = "SecurityResult", s.conn = "connecting"
    PROVE  Done(server, HandleSecurityResult(s), w)
  <1> DEFINE t == Read(s, <<"result">>)
             x == Go(t, "ClientInitialisation")
             z == Go(t, "SecurityReason")
  <1>1. /\ s \in Client /\ Turns(s) /\ Place(server, s) /\ s.ra2 = "none" /\ s.ard = "none"
        /\ server \in Peers /\ rest \in Seq(Tokens) /\ Base(server, s) /\ s.inStep
        /\ (Owing(s) => s.scheme = "ARD") /\ (s.scheme = "ARD" => ~s.asked)
    BY ReadyFacts DEF Ready, Turns
  <1>2. s.version = server.version /\ server.types # <<>>
    BY <1>1 DEF Place
  <1>3. s.q \o rest = Result(server)
    BY DEF Ready, Awaits, Ahead
  <1>4. PICK verdict \in Values, y \in Seq(Tokens) :
          /\ Result(server) = <<V("result", verdict)>> \o y
          /\ server.accepts => verdict = "ok" /\ y = <<>>
          /\ ~server.accepts => verdict = "failed" /\ y = IF server.version = "3.8" THEN Reason(server) ELSE <<>>
    BY <1>1, ResultFacts
  <1>5. CASE Waits(s, 1)
    <2>1. HandleSecurityResult(s) = Stop(s)
      BY <1>5 DEF HandleSecurityResult
    <2>2. s.q = <<>>
      BY <1>1, <1>5, QueueFacts, EmptySeq DEF Waits
    <2>3. Dry(s)
      BY <2>2 DEF Dry
    <2> QED BY <2>1, <2>3, StopSettles DEF Settled, Done
  <1>6. CASE ~Waits(s, 1)
    <2> DEFINE a == <<V("result", verdict)>>
               kinds == <<"result">>
    <2>1. s.q # <<>> /\ Len(s.q) >= 1
      BY <1>1, <1>6, QueueFacts DEF Waits
    <2>2. /\ a \in Seq(Tokens) /\ Len(a) = 1 /\ a[1].k = "result" /\ a[1].v = verdict
          /\ kinds \in Seq(FieldKinds) /\ Len(kinds) = 1 /\ kinds[1] = "result"
      <3>1. "result" \in FieldKinds
        BY DEF FieldKinds
      <3>2. V("result", verdict) \in Tokens /\ V("result", verdict).k = "result" /\ V("result", verdict).v = verdict
        BY <3>1, TokenFacts
      <3> QED BY <3>1, <3>2
    <2>3. s.q \o rest = a \o y
      BY <1>3, <1>4
    <2>4. Head(s.q).v = verdict
      <3>1. Head(s.q) = a[1]
        BY <1>1, <2>1, <2>2, <2>3, QueueIsFirst
      <3> QED BY <2>2, <3>1
    <2> HIDE DEF a, kinds
    <2>5. Fits(s, rest, a, y, kinds)
      BY <1>1, <2>1, <2>2, <2>3 DEF Fits
    <2>6. Read(s, kinds) \in Client /\ Same(s, Read(s, kinds), {"q"})
      BY <2>5, ReadFits
    <2>7. Read(s, kinds).q \o rest = y
      BY <2>5, ReadFits
    <2>8. t \in Client /\ Same(s, t, {"q"}) /\ t.q \o rest = y
      BY <2>6, <2>7 DEF kinds
    <2>9. HandleSecurityResult(s) = IF verdict = "ok" THEN x ELSE IF s.version = "3.8" THEN z
                                    ELSE Fail(Dispatch(t, "securityfailure"), "refused")
      BY <1>6, <2>4 DEF HandleSecurityResult
    <2> HIDE DEF t
    <2>10. /\ Same(s, t, Streamy) /\ t.conn = "connecting" /\ t.ra2 = "none" /\ t.ard = "none" /\ t.scheme = s.scheme
           /\ t.init = s.init /\ t.out = s.out /\ t.tight = s.tight /\ t.version = s.version /\ t.ven = s.ven
           /\ t.venLength = s.venLength
      BY <1>1, <2>8 DEF Same, Parts, Streamy
    <2>11. s.scheme = "ARD" => s.init \notin Early
      BY DEF Early
    <2>12. CASE server.accepts
      <3>1. verdict = "ok" /\ y = <<>>
        BY <1>4, <2>12
      <3>2. t.q = <<>> /\ rest = <<>>
        BY <1>1, <2>8, <3>1, NothingLeft
      <3>3. x \in Client /\ Same(t, x, {"go", "init"}) /\ x.go = TRUE /\ x.init = "ClientInitialisation"
        BY <2>8, GoFacts DEF InitStates
      <3> HIDE DEF x
      <3>4. Same(s, x, Streamy)
        BY <2>8, <3>3 DEF Same, Parts, Streamy
      <3>5. /\ x.q = <<>> /\ x.scheme = s.scheme /\ x.ra2 = "none" /\ x.ard = "none" /\ x.venLength = s.venLength
            /\ x.tight = s.tight /\ x.version = s.version /\ x.out = s.out /\ x.ven = s.ven /\ x.conn = "connecting"
        BY <2>10, <3>2, <3>3 DEF Same, Parts
      <3>6. Turns(x)
        BY <1>1, <3>3, <3>4, <3>5, TurnsKept DEF Early
      <3>7. Place(server, x)
        BY <1>1, <1>2, <2>12, <3>3, <3>5 DEF Place, Untight, Early, Late
      <3>8. Awaits(server, x, rest)
        <4>1. <<>> \o <<>> = <<>> /\ <<>> \in Seq(Tokens)
          BY ConcatEmptySeq, EmptySeq
        <4> QED BY <3>2, <3>3, <3>5, <4>1 DEF Awaits, Ahead
      <3>9. Ran(server, x, w)
        BY <1>1, <2>1, <3>3, <3>4, <3>5, <3>6, <3>7, <3>8, MovesRun
      <3> QED BY <2>9, <3>1, <3>3, <3>5, <3>9 DEF Done
    <2>13. CASE ~server.accepts /\ server.version = "3.8"
      <3>1. verdict # "ok" /\ y = Reason(server)
        BY <1>4, <2>13
      <3>2. z \in Client /\ Same(t, z, {"go", "init"}) /\ z.go = TRUE /\ z.init = "SecurityReason"
        BY <2>8, GoFacts DEF InitStates
      <3> HIDE DEF z
      <3>3. Same(s, z, Streamy)
        BY <2>8, <3>2 DEF Same, Parts, Streamy
      <3>4. /\ z.q = t.q /\ z.scheme = s.scheme /\ z.ra2 = "none" /\ z.ard = "none" /\ z.venLength = s.venLength
            /\ z.tight = s.tight /\ z.version = s.version /\ z.out = s.out /\ z.ven = s.ven /\ z.conn = "connecting"
        BY <2>10, <3>2 DEF Same, Parts
      <3>5. Turns(z)
        BY <1>1, <3>2, <3>3, <3>4, TurnsKept DEF Early
      <3>6. Place(server, z)
        BY <1>1, <1>2, <2>13, <3>2, <3>4 DEF Place, Untight, Early, Late
      <3>7. Awaits(server, z, rest)
        BY <2>8, <3>1, <3>2, <3>4 DEF Awaits, Ahead
      <3>8. Ran(server, z, w)
        BY <1>1, <2>1, <3>2, <3>3, <3>4, <3>5, <3>6, <3>7, MovesRun
      <3> QED BY <1>2, <2>9, <2>13, <3>1, <3>2, <3>4, <3>8 DEF Done
    <2>14. CASE ~server.accepts /\ server.version # "3.8"
      <3>1. verdict # "ok" /\ y = <<>>
        BY <1>4, <2>14
      <3>2. t.q = <<>> /\ rest = <<>>
        BY <1>1, <2>8, <3>1, NothingLeft
      <3>3. Settled(server, Fail(Dispatch(t, "securityfailure"), "refused"), w)
        BY <2>8, <2>14, <3>2, RefuseSettles
      <3> QED BY <1>2, <2>9, <2>14, <3>1, <3>3 DEF Settled, Done
    <2> QED BY <2>12, <2>13, <2>14
  <1> QED BY <1>5, <1>6

\* The server says why it refuses, if it does.
LEMMA ReasonDone ==
    ASSUME NEW server, NEW s, NEW w, NEW rest, Ready(server, s, w, rest),
           s.init = "SecurityReason", s.conn = "connecting"
    PROVE  Done(server, HandleSecurityReason(s), w)
  <1> DEFINE n == IF s.q[1].n = 0 THEN 1 ELSE 2
             a == Reason(server)
             kinds == SubSeq(<<"length", "reason">>, 1, n)
             t == Read(s, kinds)
  <1>1. /\ s \in Client /\ Place(server, s) /\ server \in Peers /\ rest \in Seq(Tokens)
        /\ s.q \in Seq(Tokens) /\ Len(s.q) \in Nat
    BY ReadyFacts, QueueFacts DEF Ready
  <1>2. s.q \o rest = a
    BY DEF Ready, Awaits, Ahead
  <1>3. CASE Waits(s, 1) \/ Waits(s, n)
    <2>1. HandleSecurityReason(s) = Stop(s)
      BY <1>3 DEF HandleSecurityReason
    <2>2. Dry(s)
      BY <1>3 DEF Dry, Waits
    <2> QED BY <2>1, <2>2, StopSettles DEF Settled, Done
  <1>4. CASE ~(Waits(s, 1) \/ Waits(s, n))
    <2>1. Len(s.q) >= 1 /\ Len(s.q) >= n
      BY <1>1, <1>4 DEF Waits
    <2>2. /\ a \in Seq(Tokens) /\ a[1].k = "length"
          /\ server.explains => Len(a) = 2 /\ a[1].n = 1 /\ a[2].k = "reason"
          /\ ~server.explains => Len(a) = 1 /\ a[1].n = 0
      BY <1>1, ReasonFacts
    <2>3. s.q[1] = a[1]
      <3>1. a \o <<>> = a /\ <<>> \in Seq(Tokens)
        BY <2>2, ConcatEmptySeq, EmptySeq
      <3>2. s.q \o rest = a \o <<>>
        BY <1>2, <3>1
      <3>3. Len(a) >= 1
        BY <2>2
      <3> HIDE DEF a
      <3> QED BY <1>1, <2>1, <2>2, <3>1, <3>2, <3>3, QueueIsFirst
    <2>4. server.explains \in BOOLEAN
      BY <1>1, PeerFacts
    <2>5. n = Len(a)
      BY <2>2, <2>3, <2>4
    <2>6. /\ kinds \in Seq(FieldKinds) /\ Len(kinds) = n /\ kinds[1] = "length" /\ (n = 2 => kinds[2] = "reason")
      <3> DEFINE both == <<"length", "reason">>
      <3>1. both \in Seq(FieldKinds) /\ Len(both) = 2
        BY DEF FieldKinds
      <3>2. n \in 1 .. 2
        OBVIOUS
      <3>3. /\ SubSeq(both, 1, n) \in Seq(FieldKinds) /\ Len(SubSeq(both, 1, n)) = n
            /\ \A i \in 1 .. n : SubSeq(both, 1, n)[i] = both[i]
        <4>1. n \in Int /\ 1 \in Int /\ \A i \in 1 .. n : both[i] \in FieldKinds
          BY <3>1, <3>2 DEF FieldKinds
        <4> HIDE DEF both, n
        <4>2. /\ SubSeq(both, 1, n) \in Seq(FieldKinds)
              /\ Len(SubSeq(both, 1, n)) = IF 1 <= n THEN n - 1 + 1 ELSE 0
              /\ \A i \in 1 .. n - 1 + 1 : SubSeq(both, 1, n)[i] = both[1 + i - 1]
          BY <4>1, SubSeqProperties
        <4>3. \A i \in 1 .. n : 1 + i - 1 = i /\ i \in 1 .. n - 1 + 1
          BY <3>2
        <4> QED BY <3>2, <4>2, <4>3
      <3> QED BY <3>2, <3>3
    <2>7. \A i \in 1 .. Len(a) : a[i].k = kinds[i]
      <3>1. CASE server.explains
        <4>1. Len(a) = 2 /\ n = 2 /\ kinds[1] = "length" /\ kinds[2] = "reason" /\ a[1].k = "length" /\ a[2].k = "reason"
          BY <2>2, <2>5, <2>6, <3>1
        <4> HIDE DEF a, kinds, n
        <4>2. ASSUME NEW i \in 1 .. Len(a) PROVE a[i].k = kinds[i]
          <5>1. i = 1 \/ i = 2
            BY <4>1
          <5> QED BY <4>1, <5>1
        <4> QED BY <4>2
      <3>2. CASE ~server.explains
        BY <2>2, <2>5, <2>6, <3>2
      <3> QED BY <3>1, <3>2
    <2>8. HandleSecurityReason(s) = Fail(Dispatch(t, "securityfailure"), "refused")
      BY <1>4 DEF HandleSecurityReason
    <2> HIDE DEF a, kinds, n
    <2>9. FitsAll(s, rest, a, kinds)
      BY <1>1, <1>2, <2>1, <2>2, <2>5, <2>6, <2>7 DEF FitsAll
    <2>10. t \in Client /\ Same(s, t, {"q"}) /\ t.q = <<>>
      BY <2>9, ReadAll
    <2>11. ~server.accepts \/ server.types = <<>>
      BY <1>1 DEF Place
    <2> HIDE DEF t
    <2>12. Settled(server, Fail(Dispatch(t, "securityfailure"), "refused"), w)
      BY <2>10, <2>11, RefuseSettles
    <2> QED BY <2>8, <2>12 DEF Settled, Done
  <1> QED BY <1>3, <1>4

LEMMA ClientInitDone ==
    ASSUME NEW server, NEW s, NEW w, NEW rest, Ready(server, s, w, rest),
           s.init = "ClientInitialisation", s.conn = "connecting"
    PROVE  Done(server, Go(Send(s, "init", "none"), "ServerInitialisation"), w)
  <1> DEFINE u == Send(s, "init", "none")
             x == Go(u, "ServerInitialisation")
  <1>1. /\ s \in Client /\ Turns(s) /\ Place(server, s) /\ s.ra2 = "none" /\ s.ard = "none"
        /\ server \in Peers /\ rest \in Seq(Tokens) /\ (s.scheme = "ARD" => ~s.asked)
    BY ReadyFacts DEF Ready, Turns
  <1>2. s.q \o rest = <<>>
    BY DEF Ready, Awaits, Ahead
  <1>3. s.q = <<>> /\ rest = <<>>
    BY <1>1, <1>2, NothingLeft
  <1>4. ServerInit \in Messages /\ [m |-> "init", v |-> "none"] \in Messages
    BY DEF Messages, Values, ServerInit
  <1>5. u \in Client /\ Same(s, u, {"out"}) /\ u.out = Sent(s, "init", "none")
    BY <1>1, <1>4, SendFacts
  <1> HIDE DEF u
  <1>6. x \in Client /\ Same(u, x, {"go", "init"}) /\ x.go = TRUE /\ x.init = "ServerInitialisation"
    BY <1>5, GoFacts DEF InitStates
  <1> HIDE DEF x
  <1>7. Same(s, x, Streamy)
    BY <1>5, <1>6 DEF Same, Parts, Streamy
  <1>8. /\ x.q = <<>> /\ x.scheme = s.scheme /\ x.ra2 = "none" /\ x.ard = "none" /\ x.venLength = s.venLength
        /\ x.tight = s.tight /\ x.version = s.version /\ x.out = Sent(s, "init", "none") /\ x.ven = s.ven
        /\ x.conn = "connecting"
    BY <1>1, <1>3, <1>5, <1>6 DEF Same, Parts
  <1>9. Turns(x)
    BY <1>1, <1>6, <1>7, <1>8, TurnsKept DEF Early
  <1>10. Place(server, x)
    <2>1. Mild(s, x)
      BY <1>1, <1>4, <1>6, <1>8, SentIsMild
    <2>2. Untight(server, s) => Untight(server, x)
      BY <2>1, StaysUntight
    <2> QED BY <1>1, <1>6, <1>8, <2>2 DEF Place, Early, Late
  <1>11. Reply(server, ServerInit) \in Seq(Tokens) /\ <<>> \o Reply(server, ServerInit) = Reply(server, ServerInit)
    BY <1>1, ServerInitFacts, ConcatEmptySeq
  <1>12. Awaits(server, x, Reply(server, ServerInit))
    BY <1>6, <1>8, <1>11 DEF Awaits, Ahead
  <1>13. Ran(server, x, w)
    <2>1. x.out = IF s.chan = "open" THEN Append(s.out, ServerInit) ELSE s.out
      BY <1>8 DEF Sent, ServerInit
    <2> QED BY <1>1, <1>3, <1>4, <1>6, <1>7, <1>8, <1>9, <1>10, <1>11, <1>12, <2>1, MovesRun
  <1> QED BY <1>6, <1>8, <1>13 DEF Done, x, u

\* "None" is settled already, or its verdict comes.
LEMMA NoneDone ==
    ASSUME NEW server, NEW s, NEW w, NEW rest, Ready(server, s, w, rest),
           s.init = "Authentication", s.scheme = "None", s.conn = "connecting"
    PROVE  Done(server, Go(s, IF s.version = "3.8" THEN "SecurityResult" ELSE "ClientInitialisation"), w)
  <1> DEFINE init == IF s.version = "3.8" THEN "SecurityResult" ELSE "ClientInitialisation"
             x == Go(s, init)
  <1>1. /\ s \in Client /\ Turns(s) /\ Place(server, s) /\ s.ra2 = "none" /\ s.ard = "none" /\ ~Owing(s)
        /\ server \in Peers /\ rest \in Seq(Tokens)
    BY ReadyFacts DEF Ready, Turns
  <1>2. s.version = server.version /\ ~s.tight /\ server.types # <<>>
    BY <1>1 DEF Place
  <1>3. s.q \o rest = IF server.version = "3.8" THEN Result(server) ELSE <<>>
    BY DEF Ready, Awaits, Ahead, OfScheme, Begins
  <1>4. init \in InitStates /\ init \in {"SecurityResult", "ClientInitialisation"}
    BY DEF InitStates
  <1>5. (init = "SecurityResult" <=> server.version = "3.8")
    BY <1>2
  <1> HIDE DEF init
  <1>6. x \in Client /\ Same(s, x, {"go", "init"}) /\ x.go = TRUE /\ x.init = init
    BY <1>1, <1>4, GoFacts
  <1> HIDE DEF x
  <1>7. Same(s, x, Streamy)
    BY <1>6 DEF Same, Streamy
  <1>8. /\ x.q = s.q /\ x.scheme = "None" /\ x.ra2 = "none" /\ x.ard = "none" /\ x.venLength = s.venLength
        /\ ~x.tight /\ x.version = s.version /\ x.out = s.out /\ x.ven = s.ven /\ x.conn = "connecting"
    BY <1>1, <1>2, <1>6 DEF Same, Parts
  <1>9. Turns(x)
    BY <1>7, <1>8, TurnsKept
  <1>10. Place(server, x)
    BY <1>1, <1>2, <1>4, <1>5, <1>6, <1>8 DEF Place, Early, Late
  <1>11. Awaits(server, x, rest)
    BY <1>3, <1>4, <1>5, <1>6, <1>8 DEF Awaits, Ahead
  <1>12. x.init # "none"
    BY <1>4, <1>6
  <1>13. Ran(server, x, w)
    BY <1>1, <1>6, <1>7, <1>8, <1>9, <1>10, <1>11, <1>12, MovesRun
  <1> QED BY <1>6, <1>8, <1>13 DEF Done, x, init

\* What the client does not know it gives up.
LEMMA UnknownDone ==
    ASSUME NEW server, NEW s, NEW w, NEW rest, Ready(server, s, w, rest),
           s.init = "Authentication", s.scheme = "unknown", s.conn = "connecting"
    PROVE  Done(server, Fail(s, "unsupported"), w)
  <1>1. /\ s \in Client /\ Turns(s) /\ Place(server, s) /\ s.ra2 = "none" /\ s.ard = "none"
        /\ server \in Peers
    BY ReadyFacts DEF Ready, Turns
  <1>2. Because(server, s, "unsupported")
    BY <1>1 DEF Place, Because
  <1>3. Same(s, s, Streamy)
    BY DEF Same
  <1>4. Settled(server, Fail(s, "unsupported"), w)
    BY <1>1, <1>2, <1>3, FailSettles DEF Reasons
  <1> QED BY <1>4 DEF Settled, Done

\* A handler that has moved on may go on at once.
LEMMA RanReady ==
    ASSUME NEW server \in Peers, NEW t, NEW w \in Seq(Tokens), Ran(server, t, w), ~Quiet(t), t.inStep,
           t.init # "ServerInitialisation", t.conn = "connecting", t.chan = "open"
    PROVE  \E r \in Seq(Tokens) : Ready(server, t, w, r)
  <1>1. Base(server, t) /\ (Alive(t) /\ ~Stale(t) => Talk(server, t, w))
    BY DEF Ran, Hold
  <1>2. ~Past(t)
    BY <1>1, BaseParts DEF Conns
  <1>3. Talk(server, t, w)
    BY <1>1, <1>2 DEF Alive, Stale
  <1>4. PICK r \in Seq(Tokens) : Awaits(server, t, r) /\ Owes(server, t, w, r)
    BY <1>3 DEF Talk
  <1>5. Ready(server, t, w, r)
    BY <1>1, <1>4 DEF Ready
  <1> QED BY <1>5

\* VeNCrypt under way.
VeNReady(server, s, w) ==
    /\ server \in Peers /\ w \in Seq(Tokens)
    /\ \E r \in Seq(Tokens) : Ready(server, s, w, r)
    /\ s.init = "Authentication" /\ s.scheme = "VeNCrypt" /\ s.conn = "connecting"

LEMMA VeNFacts ==
    ASSUME NEW server, NEW s, NEW w, VeNReady(server, s, w)
    PROVE  \E rest \in Seq(Tokens) :
             /\ Ready(server, s, w, rest) /\ s.q \o rest = OfVeNCrypt(server, s.ven)
             /\ s \in Client /\ Turns(s) /\ Place(server, s) /\ ~Owing(s) /\ s.ra2 = "none" /\ s.ard = "none"
             /\ s.ven \in 0 .. 3 /\ ~s.tight /\ s.chan = "open" /\ server \in Peers
             /\ (s.ven = 3 => s.venLength = Len(server.venTypes))
  <1>1. PICK rest \in Seq(Tokens) : Ready(server, s, w, rest)
    BY DEF VeNReady
  <1>2. s.init = "Authentication" /\ s.scheme = "VeNCrypt" /\ s.conn = "connecting" /\ server \in Peers
    BY DEF VeNReady
  <1>3. /\ s \in Client /\ Turns(s) /\ Place(server, s) /\ ~Owing(s)
    BY <1>1, <1>2, ReadyFacts
  <1>4. s.ra2 = "none" /\ s.ard = "none"
    BY <1>2, <1>3 DEF Turns
  <1>5. s.ven \in 0 .. 3 /\ ~s.tight /\ (s.ven = 3 => s.venLength = Len(server.venTypes))
    BY <1>2, <1>3 DEF Place
  <1>6. s.q \o rest = OfVeNCrypt(server, s.ven) /\ s.chan = "open"
    BY <1>1, <1>2 DEF Ready, Awaits, Ahead, OfScheme
  <1> QED BY <1>1, <1>2, <1>3, <1>4, <1>5, <1>6

\* A step of it.
LEMMA VeNMoves ==
    ASSUME NEW server, NEW s, NEW w, NEW rest \in Seq(Tokens), Ready(server, s, w, rest), VeNReady(server, s, w),
           NEW t \in Client, Same(s, t, {"q", "out", "ven", "venLength"}), Mild(s, t),
           t.ven \in 0 .. 3, t.ven = 3 => t.venLength = Len(server.venTypes),
           NEW r \in Seq(Tokens), t.q \o r = OfVeNCrypt(server, t.ven),
           \/ t.out = s.out /\ r = rest /\ s.q # <<>>
           \/ \E msg \in Messages : /\ rest = <<>> /\ t.q = <<>> /\ r = Reply(server, msg)
                                    /\ t.out = IF s.chan = "open" THEN Append(s.out, msg) ELSE s.out
    PROVE  VeNReady(server, t, w)
  <1>1. /\ s.init = "Authentication" /\ s.scheme = "VeNCrypt" /\ s.conn = "connecting"
        /\ server \in Peers /\ w \in Seq(Tokens)
    BY DEF VeNReady
  <1>2. /\ s \in Client /\ Turns(s) /\ Place(server, s) /\ ~Owing(s) /\ s.ra2 = "none" /\ s.ard = "none" /\ s.chan = "open"
    BY VeNFacts
  <1>3. /\ t.conn = "connecting" /\ t.init = "Authentication" /\ t.scheme = "VeNCrypt" /\ t.tight = s.tight
        /\ t.ard = "none" /\ t.ra2 = "none" /\ t.asked = s.asked /\ t.resumes = s.resumes
        /\ t.version = s.version /\ t.chan = "open"
    BY <1>1, <1>2 DEF Same, Parts
  <1>4. Same(s, t, Streamy)
    BY DEF Same, Streamy
  <1>5. ~Owing(t) /\ ~Quiet(t)
    BY <1>2, <1>3 DEF Owing, Quiet
  <1>6. Turns(t)
    BY <1>1, <1>3, <1>4, TurnsKept
  <1>7. Place(server, t)
    <2>1. Untight(server, s) => Untight(server, t)
      BY StaysUntight
    <2> QED BY <1>1, <1>2, <1>3, <2>1 DEF Place, Early, Late
  <1>8. Awaits(server, t, r)
    BY <1>3 DEF Awaits, Ahead, OfScheme
  <1>9. Ran(server, t, w)
    <2>1. CASE t.out = s.out /\ r = rest /\ s.q # <<>>
      BY <1>1, <1>3, <1>4, <1>6, <1>7, <1>8, <2>1, MovesRun
    <2>2. CASE \E msg \in Messages : /\ rest = <<>> /\ t.q = <<>> /\ r = Reply(server, msg)
                                     /\ t.out = IF s.chan = "open" THEN Append(s.out, msg) ELSE s.out
      BY <1>1, <1>3, <1>4, <1>6, <1>7, <1>8, <2>2, MovesRun
    <2> QED BY <2>1, <2>2
  <1>10. \E r1 \in Seq(Tokens) : Ready(server, t, w, r1)
    <2>1. t.inStep
      BY ReadyFacts DEF Same, Parts
    <2> QED BY <1>1, <1>3, <1>5, <1>9, <2>1, RanReady
  <1> QED BY <1>1, <1>3, <1>10 DEF VeNReady

\* The server refuses VeNCrypt, or offers nothing.
LEMMA VeNRefused ==
    ASSUME NEW server, NEW s, NEW w, VeNReady(server, s, w), NEW u \in Client, Same(s, u, {"q"}),
           s.ven # 3, server.ven # "ok" \/ Chosen(server.venTypes) = "none"
    PROVE  Settled(server, Fail(u, "unsupported"), w) /\ Fail(u, "unsupported").ven = s.ven
  <1>1. PICK rest \in Seq(Tokens) :
             /\ Ready(server, s, w, rest) /\ s \in Client /\ Place(server, s)
             /\ s.ra2 = "none" /\ s.ard = "none" /\ server \in Peers
    BY VeNFacts
  <1>2. s.init = "Authentication" /\ s.scheme = "VeNCrypt" /\ s.conn = "connecting"
    BY DEF VeNReady
  <1>3. /\ u.out = s.out /\ u.init = "Authentication" /\ u.scheme = "VeNCrypt" /\ u.ra2 = "none" /\ u.ard = "none"
        /\ u.tight = s.tight /\ u.ven = s.ven /\ u.version = s.version /\ Same(s, u, Streamy)
        /\ u.conn = s.conn /\ u.seen = s.seen
    BY <1>1, <1>2 DEF Same, Parts, Streamy
  <1>4. Place(server, u)
    BY <1>1, <1>2, <1>3, SMTT(30) DEF Place, Untight, Early, Late
  <1>5. Because(server, u, "unsupported")
    BY <1>3 DEF Because
  <1>6. Settled(server, Fail(u, "unsupported"), w)
    BY <1>1, <1>2, <1>3, <1>4, <1>5, FailSettles DEF Reasons
  <1>7. Fail(u, "unsupported").ven = s.ven
    <2>1. u.conn = "disconnected" \/ ~Contains(u.seen, "disconnect")
      <3>1. Standing(s)
        BY <1>1, ReadyFacts, ConnsStand
      <3> QED BY <1>1, <1>3, <3>1, StandingSeen
    <2>2. \/ Same(u, Fail(u, "unsupported"), {"go", "clean", "why"})
          \/ Same(u, Fail(u, "unsupported"),
                  {"go", "clean", "why", "conn", "grabbed", "attached", "listening", "chan",
                   "timer", "on", "seen", "ra2", "init"})
      BY <2>1, FailFacts DEF Reasons
    <2> QED BY <1>3, <2>2 DEF Same, Parts
  <1> QED BY <1>6, <1>7

LEMMA VeNVersionRuns ==
    ASSUME NEW server, NEW s, NEW w, VeNReady(server, s, w)
    PROVE  \/ VeNReady(server, VeNVersion(s), w)
           \/ Settled(server, VeNVersion(s), w) /\ VeNVersion(s).ven = 0
  <1> DEFINE u == Read(s, <<"venversion">>)
             y == Send(u, "venversion", "none")
             x == [y EXCEPT !.ven = 1]
             more == VeNSubtypes(server)
             a == <<V("venversion", server.ven)>>
             b == <<V("venack", server.ven)>>
  <1>1. PICK rest \in Seq(Tokens) :
             /\ Ready(server, s, w, rest) /\ s.q \o rest = OfVeNCrypt(server, s.ven)
             /\ s \in Client /\ s.ven \in 0 .. 3 /\ s.chan = "open" /\ server \in Peers
    BY VeNFacts
  <1>2. CASE s.ven # 0 \/ Waits(s, 1)
    BY <1>2 DEF VeNVersion
  <1>3. CASE ~(s.ven # 0 \/ Waits(s, 1))
    <2>1. s.q # <<>>
      BY <1>1, <1>3, QueueFacts DEF Waits
    <2>2. "venversion" \in FieldKinds /\ "venack" \in FieldKinds /\ "subtypes" \in FieldKinds /\ "subtype" \in FieldKinds
      BY DEF FieldKinds
    <2>3. /\ a \in Seq(Tokens) /\ Len(a) = 1 /\ a[1].k = "venversion" /\ a[1].v = server.ven
          /\ b \in Seq(Tokens)
      <3>1. server.ven \in Values
        BY <1>1, PeerFacts
      <3>2. V("venversion", server.ven) \in Tokens /\ V("venack", server.ven) \in Tokens
            /\ V("venversion", server.ven).k = "venversion" /\ V("venversion", server.ven).v = server.ven
        BY <2>2, <3>1, TokenFacts
      <3> QED BY <3>2
    <2>4. s.q \o rest = a
      BY <1>1, <1>3 DEF OfVeNCrypt
    <2> HIDE DEF a, b
    <2>5. u \in Client /\ Same(s, u, {"q"}) /\ u.q = <<>> /\ rest = <<>> /\ Head(s.q) = a[1]
      BY <1>1, <2>1, <2>2, <2>3, <2>4, ReadLast, ZenonT(60)
    <2>21. VeNVersion(s) = IF server.ven = "other" THEN Fail(u, "unsupported") ELSE x
      BY <1>3, <2>3, <2>5 DEF VeNVersion, x, y, u
    <2>22. CASE server.ven = "other"
      <3>1. s.ven = 0 /\ server.ven # "ok"
        BY <1>3, <2>22
      <3> QED BY <2>5, <2>21, <2>22, <3>1, VeNRefused
    <2> HIDE DEF u
    <2>6. [m |-> "venversion", v |-> "none"] \in Messages
      BY DEF Messages, Values
    <2>7. y \in Client /\ Same(u, y, {"out"}) /\ y.out = Sent(u, "venversion", "none")
      BY <2>5, <2>6, SendFacts
    <2> HIDE DEF y
    <2>8. x \in Client
      <3>1. 1 \in 0 .. 4
        OBVIOUS
      <3> HIDE DEF y
      <3> QED BY <2>7, <3>1 DEF Client
    <2>9. Same(y, x, {"ven"}) /\ x.ven = 1
      BY <2>7 DEF Client, Same, Parts
    <2> HIDE DEF x
    <2>11. Same(s, x, {"q", "out", "ven", "venLength"}) /\ x.q = <<>> /\ x.out = Sent(s, "venversion", "none")
      BY <2>5, <2>7, <2>9 DEF Same, Parts, Sent
    <2>12. Mild(s, x)
      BY <1>1, <2>6, <2>8, <2>11, SentIsMild
    <2>13. more \in Seq(Tokens)
      BY <1>1, <2>2, PeerFacts, ListFacts, EmptySeq DEF VeNSubtypes
    <2>14. Reply(server, [m |-> "venversion", v |-> "none"]) = b \o more
      BY DEF Reply, b
    <2>15. OfVeNCrypt(server, 1) = b \o more
      BY DEF OfVeNCrypt, b
    <2> DEFINE r == b \o more
    <2> HIDE DEF more
    <2>16. r \in Seq(Tokens)
      BY <2>3, <2>13, ConcatProperties
    <2> HIDE DEF r
    <2>17. x.q \o r = OfVeNCrypt(server, x.ven)
      <3>1. <<>> \o r = r
        BY <2>16, ConcatEmptySeq
      <3> QED BY <2>9, <2>11, <2>15, <3>1 DEF r
    <2>18. r = Reply(server, [m |-> "venversion", v |-> "none"])
      BY <2>14 DEF r
    <2>19. x.out = IF s.chan = "open" THEN Append(s.out, [m |-> "venversion", v |-> "none"]) ELSE s.out
      BY <2>11 DEF Sent
    <2>20. VeNReady(server, x, w)
      <3>1. x.ven \in 0 .. 3 /\ x.ven # 3
        BY <2>9
      <3>2. \E msg \in Messages : /\ rest = <<>> /\ x.q = <<>> /\ r = Reply(server, msg)
                                  /\ x.out = IF s.chan = "open" THEN Append(s.out, msg) ELSE s.out
        BY <2>5, <2>6, <2>11, <2>18, <2>19
      <3> QED BY <1>1, <2>8, <2>11, <2>12, <2>16, <2>17, <3>1, <3>2, VeNMoves
    <2> QED BY <2>20, <2>21, <2>22
  <1> QED BY <1>2, <1>3

LEMMA VeNAckRuns ==
    ASSUME NEW server, NEW s, NEW w, VeNReady(server, s, w)
    PROVE  \/ VeNReady(server, VeNAck(s), w)
           \/ Settled(server, VeNAck(s), w) /\ VeNAck(s).ven = 1
  <1> DEFINE a == <<V("venack", server.ven)>>
             kinds == <<"venack">>
             u == Read(s, <<"venack">>)
             x == [u EXCEPT !.ven = 2]
             more == VeNSubtypes(server)
  <1>1. PICK rest \in Seq(Tokens) :
             /\ Ready(server, s, w, rest) /\ s.q \o rest = OfVeNCrypt(server, s.ven)
             /\ s \in Client /\ s.ven \in 0 .. 3 /\ s.chan = "open" /\ server \in Peers
    BY VeNFacts
  <1>2. CASE s.ven # 1 \/ Waits(s, 1)
    BY <1>2 DEF VeNAck
  <1>3. CASE ~(s.ven # 1 \/ Waits(s, 1))
    <2>1. s.q # <<>> /\ Len(s.q) >= 1
      BY <1>1, <1>3, QueueFacts DEF Waits
    <2>2. "venack" \in FieldKinds /\ "subtypes" \in FieldKinds /\ "subtype" \in FieldKinds
      BY DEF FieldKinds
    <2>3. /\ a \in Seq(Tokens) /\ Len(a) = 1 /\ a[1].k = "venack" /\ a[1].v = server.ven
          /\ kinds \in Seq(FieldKinds) /\ Len(kinds) = 1 /\ kinds[1] = "venack"
      <3>1. server.ven \in Values
        BY <1>1, PeerFacts
      <3>2. /\ V("venack", server.ven) \in Tokens
            /\ V("venack", server.ven).k = "venack" /\ V("venack", server.ven).v = server.ven
        BY <2>2, <3>1, TokenFacts
      <3> QED BY <2>2, <3>2
    <2>4. s.q \o rest = a \o more
      BY <1>1, <1>3 DEF OfVeNCrypt
    <2>5. more \in Seq(Tokens)
      BY <1>1, <2>2, PeerFacts, ListFacts, EmptySeq DEF VeNSubtypes
    <2>6. server.ven # "failed" => OfVeNCrypt(server, 2) = more
      BY DEF OfVeNCrypt, VeNSubtypes
    <2>18. Head(s.q).v = server.ven
      <3> HIDE DEF a, more
      <3>1. s \in Client /\ a \in Seq(Tokens) /\ more \in Seq(Tokens) /\ s.q \o rest = a \o more
        BY <1>1, <2>3, <2>4, <2>5
      <3>2. s.q # <<>> /\ Len(a) >= 1 => Head(s.q) = a[1]
        BY <3>1, QueueIsFirst
      <3>3. Head(s.q) = a[1]
        BY <2>1, <2>3, <3>2
      <3> QED BY <2>3, <3>3
    <2>7. VeNAck(s) = IF server.ven = "failed" THEN Fail(u, "unsupported") ELSE x
      BY <1>3, <2>18 DEF VeNAck
    <2>8. u = Read(s, kinds)
      OBVIOUS
    <2> HIDE DEF a, kinds, u, more
    <2>9. Fits(s, rest, a, more, kinds)
      BY <1>1, <2>1, <2>3, <2>4, <2>5 DEF Fits
    <2>10. u \in Client /\ Same(s, u, {"q"})
      BY <2>8, <2>9, ReadFits
    <2>11. u.q \o rest = more
      <3>1. Read(s, kinds).q \o rest = more
        BY <2>9, ReadFits
      <3> QED BY <2>8, <3>1
    <2>19. CASE server.ven = "failed"
      <3>1. s.ven = 1 /\ server.ven # "ok"
        BY <1>3, <2>19
      <3> QED BY <2>7, <2>10, <2>19, <3>1, VeNRefused
    <2>12. x \in Client
      <3>1. 2 \in 0 .. 4
        OBVIOUS
      <3> QED BY <2>10, <3>1 DEF Client
    <2>13. Same(u, x, {"ven"}) /\ x.ven = 2
      BY <2>10 DEF Client, Same, Parts
    <2> HIDE DEF x
    <2>14. Same(s, x, {"q", "out", "ven", "venLength"}) /\ x.q = u.q /\ x.out = s.out
      BY <2>10, <2>13 DEF Same, Parts
    <2>15. Mild(s, x)
      BY <2>14 DEF Mild
    <2>17. CASE server.ven # "failed"
      <3>3. x.q \o rest = OfVeNCrypt(server, x.ven)
        BY <2>6, <2>11, <2>13, <2>14, <2>17
      <3>1. x.ven \in 0 .. 3 /\ x.ven # 3
        BY <2>13
      <3>2. x.out = s.out /\ rest = rest /\ s.q # <<>>
        BY <2>1, <2>14
      <3>4. VeNReady(server, x, w)
        BY <1>1, <2>12, <2>14, <2>15, <3>1, <3>2, <3>3, VeNMoves
      <3> QED BY <2>7, <2>17, <3>4
    <2> QED BY <2>17, <2>19
  <1> QED BY <1>2, <1>3

\* VeNCrypt's list of subtypes may be empty.
LEMMA VeNLengthRuns ==
    ASSUME NEW server, NEW s, NEW w, VeNReady(server, s, w)
    PROVE  \/ VeNReady(server, VeNLength(s), w)
           \/ Settled(server, VeNLength(s), w) /\ VeNLength(s).ven # 3
  <1> DEFINE values == server.venTypes
             n == Len(values)
             u == Read(s, <<"subtypes">>)
  <1>1. PICK rest \in Seq(Tokens) :
             /\ Ready(server, s, w, rest) /\ s.q \o rest = OfVeNCrypt(server, s.ven)
             /\ s \in Client /\ Place(server, s) /\ s.ra2 = "none" /\ s.ard = "none" /\ server \in Peers
    BY VeNFacts
  <1>2. s.init = "Authentication" /\ s.scheme = "VeNCrypt" /\ s.conn = "connecting"
    BY DEF VeNReady
  <1>3. CASE s.ven # 2 \/ Waits(s, 1)
    BY <1>3 DEF VeNLength
  <1>4. CASE s.ven = 2 /\ ~Waits(s, 1)
    <2>1. /\ values \in Seq(Values) /\ n \in Nat /\ "subtypes" \in FieldKinds /\ "subtype" \in FieldKinds
          /\ values \in Seq(Types)
      BY <1>1, PeerFacts DEF FieldKinds
    <2>2. Items("subtype", values) \in Seq(Tokens) /\ Len(Items("subtype", values)) = n
      BY <2>1, ItemFacts
    <2>3. Listed(s, rest, "subtypes", "subtype", values, <<>>)
      <3>1. ListOf("subtypes", "subtype", values) \in Seq(Tokens)
        BY <2>1, ListFacts
      <3>2. ListOf("subtypes", "subtype", values) \o <<>> = ListOf("subtypes", "subtype", values)
        BY <3>1, ConcatEmptySeq
      <3>3. s.q \o rest = ListOf("subtypes", "subtype", values)
        BY <1>1, <1>4 DEF OfVeNCrypt
      <3>4. <<>> \in Seq(Tokens)
        BY EmptySeq
      <3> QED BY <1>1, <2>1, <3>2, <3>3, <3>4 DEF Listed
    <2> HIDE DEF values
    <2>4. s.q # <<>> /\ s.q[1].n = n
      BY <1>4, <2>3, CountRead
    <2>5. u \in Client /\ Same(s, u, {"q"})
      BY <1>4, <2>3, CountRead
    <2>6. u.q \o rest = Items("subtype", values)
      <3>1. Streams(u, rest, Items("subtype", values) \o <<>>)
        BY <1>4, <2>3, CountRead
      <3>2. Items("subtype", values) \o <<>> = Items("subtype", values)
        BY <2>2, ConcatEmptySeq
      <3> QED BY <3>1, <3>2 DEF Streams
    <2>7. VeNLength(s) = IF n = 0 THEN Fail(u, "unsupported") ELSE [u EXCEPT !.ven = 3, !.venLength = n]
      BY <1>4, <2>4 DEF VeNLength
    <2> HIDE DEF u, n
    <2>9. CASE n = 0
      <3>1. Chosen(values) = "none"
        <4>1. Len(values) \in Nat /\ 1 .. Len(values) = {}
          BY <2>9 DEF n
        <4> QED BY <4>1, FirstOfFacts DEF Chosen
      <3>2. Settled(server, Fail(u, "unsupported"), w) /\ Fail(u, "unsupported").ven = s.ven
        BY <1>4, <2>5, <3>1, VeNRefused DEF values
      <3> QED BY <1>4, <2>7, <2>9, <3>2
    <2>10. CASE n # 0
      <3> DEFINE x == [u EXCEPT !.ven = 3, !.venLength = n]
      <3>1. x \in Client
        <4>1. 3 \in 0 .. 4 /\ n \in Nat
          BY <2>1 DEF n
        <4> QED BY <2>5, <4>1 DEF Client
      <3>2. Same(u, x, {"ven", "venLength"}) /\ x.ven = 3 /\ x.venLength = n
        BY <2>5 DEF Client, Same, Parts
      <3>3. VeNLength(s) = x
        BY <2>7, <2>10
      <3> HIDE DEF x
      <3>4. Same(s, x, {"q", "out", "ven", "venLength"}) /\ x.q = u.q /\ x.out = s.out
        BY <2>5, <3>2 DEF Same, Parts
      <3>5. Mild(s, x)
        BY <3>4 DEF Mild
      <3>6. x.q \o rest = OfVeNCrypt(server, x.ven)
        <4>1. OfVeNCrypt(server, 3) = Items("subtype", values)
          BY DEF OfVeNCrypt, values
        <4> QED BY <2>6, <3>2, <3>4, <4>1
      <3>7. x.ven \in 0 .. 3 /\ x.venLength = Len(server.venTypes)
        BY <3>2 DEF n, values
      <3>8. x.out = s.out /\ rest = rest /\ s.q # <<>>
        BY <2>4, <3>4
      <3>9. VeNReady(server, x, w)
        BY <1>1, <3>1, <3>4, <3>5, <3>6, <3>7, <3>8, VeNMoves
      <3> QED BY <3>3, <3>9
    <2> QED BY <2>9, <2>10
  <1> QED BY <1>3, <1>4

\* The subtypes, and the first one that is supported.
LEMMA VeNSubtypeDone ==
    ASSUME NEW server, NEW s, NEW w, VeNReady(server, s, w), Honest(server)
    PROVE  Done(server, VeNSubtype(s), w)
  <1> DEFINE n == s.venLength
             values == server.venTypes
             known == Schemes \ {"VeNCrypt"}
             type == FirstOf([i \in 1 .. n |-> s.q[i].v], known)
             kinds == Kinds("subtype", n)
             t == Read(s, kinds)
  <1>1. PICK rest \in Seq(Tokens) :
             /\ Ready(server, s, w, rest) /\ s.q \o rest = OfVeNCrypt(server, s.ven)
             /\ s \in Client /\ Turns(s) /\ Place(server, s) /\ ~Owing(s) /\ s.ra2 = "none" /\ s.ard = "none"
             /\ s.ven \in 0 .. 3 /\ ~s.tight /\ s.chan = "open" /\ server \in Peers
             /\ (s.ven = 3 => n = Len(values))
    BY VeNFacts
  <1>2. s.init = "Authentication" /\ s.scheme = "VeNCrypt" /\ s.conn = "connecting"
    BY DEF VeNReady
  <1>3. CASE s.ven # 3 \/ Waits(s, n)
    <2>1. VeNSubtype(s) = Stop(s)
      BY <1>3 DEF VeNSubtype
    <2>2. Dry(s)
      BY <1>2 DEF Dry
    <2>3. s.init # "none"
      BY <1>2
    <2> QED BY <1>1, <2>1, <2>2, <2>3, StopSettles DEF Settled, Done
  <1>4. CASE s.ven = 3 /\ ~Waits(s, n)
    <2> DEFINE a == Items("subtype", values)
    <2>1. values \in Seq(Values) /\ n \in Nat /\ n = Len(values) /\ "subtype" \in FieldKinds /\ values \in Seq(Types)
      BY <1>1, <1>4, PeerFacts DEF FieldKinds
    <2>2. /\ a \in Seq(Tokens) /\ Len(a) = n /\ \A i \in 1 .. n : a[i].k = "subtype" /\ a[i].v = values[i]
      BY <2>1, ItemFacts
    <2>3. /\ kinds \in Seq(FieldKinds) /\ Len(kinds) = n /\ \A i \in 1 .. n : kinds[i] = "subtype"
      BY <2>1, KindFacts
    <2>4. s.q \o rest = a
      BY <1>1, <1>4 DEF OfVeNCrypt
    <2>5. VeNSubtype(s) = IF type = "none" THEN Fail(t, "unsupported")
                          ELSE Go([Send(t, "subtype", type) EXCEPT !.ven = 4, !.scheme = type], s.init)
      BY <1>4 DEF VeNSubtype, Kinds
    <2>6. s.q \in Seq(Tokens) /\ Len(s.q) \in Nat /\ n <= Len(s.q)
      BY <1>1, <1>4, <2>1, QueueFacts DEF Waits
    <2> HIDE DEF kinds, a
    <2>7. FitsAll(s, rest, a, kinds)
      <3>1. Len(a) <= Len(s.q) /\ Len(kinds) = Len(a) /\ \A i \in 1 .. Len(a) : a[i].k = kinds[i]
        BY <2>2, <2>3, <2>6
      <3> QED BY <1>1, <2>2, <2>3, <2>4, <3>1 DEF FitsAll
    <2>8. t \in Client /\ Same(s, t, {"q"}) /\ t.q = <<>> /\ rest = <<>> /\ s.q = a
      BY <2>7, ReadAll
    <2>9. type = FirstOf(values, known)
      <3>1. [i \in 1 .. n |-> s.q[i].v] = [i \in 1 .. n |-> values[i]]
        BY <2>2, <2>8
      <3>2. [i \in 1 .. n |-> values[i]] = values
        BY <2>1
      <3> QED BY <3>1, <3>2
    <2>10. \/ type = "none" /\ \A i \in 1 .. n : values[i] \notin known
           \/ \E i \in 1 .. n : values[i] \in known /\ type = values[i]
      <3> HIDE DEF known, type
      <3> QED BY <2>1, <2>9, FirstOfFacts
    <2> HIDE DEF t, type
    <2>11. /\ t.out = s.out /\ t.chan = s.chan /\ t.init = "Authentication" /\ t.scheme = "VeNCrypt"
           /\ t.ra2 = "none" /\ t.ard = "none" /\ ~t.tight /\ t.ven = 3 /\ t.venLength = s.venLength
           /\ t.version = s.version /\ Same(s, t, Streamy)
      BY <1>1, <1>2, <1>4, <2>8 DEF Same, Parts, Streamy
    <2>12. CASE type = "none"
      <3>1. Place(server, t)
        BY <1>1, <1>2, <1>4, <2>11 DEF Place, Untight, Early, Late
      <3>2. Because(server, t, "unsupported")
        <4>1. \A i \in 1 .. n : values[i] \notin known
          BY <2>10, <2>12 DEF Schemes
        <4>2. \/ Chosen(values) = "none"
              \/ \E i \in 1 .. n : values[i] \in Schemes /\ Chosen(values) = values[i]
          BY <2>1, FirstOfFacts DEF Chosen
        <4>3. Chosen(values) \in {"none", "VeNCrypt"}
          BY <4>1, <4>2
        <4> QED BY <2>11, <4>3 DEF Because
      <3>3. Settled(server, Fail(t, "unsupported"), w)
        BY <1>1, <1>2, <2>8, <2>11, <3>1, <3>2, FailSettles DEF Reasons
      <3> QED BY <2>5, <2>12, <3>3 DEF Settled, Done
    <2>13. CASE type # "none"
      <3> DEFINE u == Send(t, "subtype", type)
                 v == [u EXCEPT !.ven = 4, !.scheme = type]
                 x == Go(v, s.init)
      <3>1. PICK i \in 1 .. n : values[i] \in known /\ type = values[i]
        BY <2>10, <2>13
      <3>2. /\ type \in Schemes /\ type # "VeNCrypt" /\ type \in Types /\ type # "unknown"
            /\ [m |-> "subtype", v |-> type] \in Messages
        <4>1. type \in Schemes /\ type # "VeNCrypt"
          BY <3>1
        <4>2. type \in Types /\ type \in Values
          BY <4>1 DEF Types, Values
        <4> QED BY <4>1, <4>2 DEF Schemes, Messages
      <3>3. type = "None" /\ server.version # "3.8" => server.accepts
        <4>1. type = "None" => Contains(server.venTypes, "None")
          BY <2>1, <3>1 DEF Contains
        <4> QED BY <4>1 DEF Honest
      <3>4. u \in Client /\ Same(t, u, {"out"}) /\ u.out = Sent(t, "subtype", type)
        BY <2>8, <3>2, SendFacts
      <3> HIDE DEF u
      <3>5. v \in Client
        <4>1. 4 \in 0 .. 4
          OBVIOUS
        <4> QED BY <3>2, <3>4, <4>1 DEF Client
      <3>6. Same(u, v, {"scheme", "ven"}) /\ v.scheme = type
        BY <3>4 DEF Client, Same, Parts
      <3> HIDE DEF v
      <3>7. x \in Client /\ Same(v, x, {"go", "init"}) /\ x.go = TRUE /\ x.init = "Authentication"
        <4>1. s.init \in InitStates
          BY <1>2 DEF InitStates
        <4>2. x \in Client /\ Same(v, x, {"go", "init"}) /\ x.go = TRUE /\ x.init = s.init
          BY <3>5, <4>1, GoFacts
        <4> HIDE DEF x
        <4> QED BY <1>2, <4>2
      <3>8. VeNSubtype(s) = x
        BY <2>5, <2>13 DEF u, v
      <3> HIDE DEF x
      <3>9. Same(s, x, Streamy)
        BY <2>11, <3>4, <3>6, <3>7 DEF Same, Parts, Streamy
      <3>10. /\ x.q = <<>> /\ x.scheme = type /\ x.ra2 = "none" /\ x.ard = "none" /\ ~x.tight
             /\ x.version = s.version /\ x.out = Sent(s, "subtype", type)
        BY <2>8, <2>11, <3>4, <3>6, <3>7 DEF Same, Parts, Sent
      <3>11. x.conn = "connecting" /\ x.init # "none"
        BY <1>2, <3>7, <3>9 DEF Same, Parts, Streamy
      <3>12. Turns(x)
        BY <1>1, <1>2, <3>9, <3>10, TurnsKept
      <3>13. Place(server, x)
        <4>1. Untight(server, s)
          BY <1>1, <1>2 DEF Place
        <4>2. [m |-> "subtype", v |-> type] # [m |-> "type", v |-> "Tight"]
          OBVIOUS
        <4>3. Untight(server, x)
          BY <1>1, <3>2, <3>10, <4>1, <4>2, ChosenUntight
        <4> QED BY <1>1, <1>2, <3>2, <3>3, <3>7, <3>10, <4>3 DEF Place, Early, Late, Schemes
      <3>14. Reply(server, [m |-> "subtype", v |-> type]) = Begins(server, type)
        BY DEF Reply
      <3>15. Begins(server, type) \in Seq(Tokens) /\ <<>> \o Begins(server, type) = Begins(server, type)
        BY <1>1, BeginsFacts, ConcatEmptySeq
      <3>16. Awaits(server, x, Begins(server, type))
        BY <3>2, <3>7, <3>10, <3>15, BegunAhead
      <3>17. Ran(server, x, w)
        <4>1. x.out = IF s.chan = "open" THEN Append(s.out, [m |-> "subtype", v |-> type]) ELSE s.out
          BY <3>10 DEF Sent
        <4>2. \E msg \in Messages : /\ rest = <<>> /\ x.q = <<>> /\ Begins(server, type) = Reply(server, msg)
                                    /\ x.out = IF s.chan = "open" THEN Append(s.out, msg) ELSE s.out
          BY <2>8, <3>2, <3>10, <3>14, <4>1
        <4>3. s.scheme = "ARD" => x.scheme = "ARD"
          BY <1>2
        <4> QED BY <1>1, <1>2, <3>7, <3>9, <3>11, <3>12, <3>13, <3>15, <3>16, <4>2, <4>3, MovesRun
      <3> QED BY <3>7, <3>8, <3>11, <3>17 DEF Done
    <2> QED BY <2>12, <2>13
  <1> QED BY <1>3, <1>4

LEMMA VeNCryptDone ==
    ASSUME NEW server, NEW s, NEW w, VeNReady(server, s, w), Honest(server)
    PROVE  Done(server, NegotiateVeNCryptAuth(s), w)
  <1> DEFINE u == VeNVersion(s)
             t == VeNAck(u)
             v == VeNLength(t)
  <1>1. NegotiateVeNCryptAuth(s) = VeNSubtype(v)
    BY DEF NegotiateVeNCryptAuth
  <1>2. VeNReady(server, v, w) \/ (Settled(server, v, w) /\ v.ven # 3)
    <2>1. VeNReady(server, u, w) \/ (Settled(server, u, w) /\ u.ven = 0)
      BY VeNVersionRuns
    <2> HIDE DEF u
    <2>2. VeNReady(server, t, w) \/ (Settled(server, t, w) /\ t.ven \in {0, 1})
      BY <2>1, VeNAckRuns DEF VeNAck
    <2> HIDE DEF t
    <2>3. CASE VeNReady(server, t, w)
      BY <2>3, VeNLengthRuns
    <2>4. CASE Settled(server, t, w) /\ t.ven \in {0, 1}
      <3>1. v = t
        BY <2>4 DEF VeNLength
      <3> QED BY <2>4, <3>1
    <2> QED BY <2>2, <2>3, <2>4
  <1> HIDE DEF v
  <1>3. CASE VeNReady(server, v, w)
    BY <1>1, <1>3, VeNSubtypeDone
  <1>4. CASE Settled(server, v, w) /\ v.ven # 3
    <2>1. VeNSubtype(v) = Stop(v)
      BY <1>4 DEF VeNSubtype
    <2>2. Hold(server, v, w)
      BY <1>4 DEF Settled, Ran
    <2>3. /\ Hold(server, Stop(v), w) /\ Stop(v).go = FALSE
          /\ (Alive(Stop(v)) <=> Alive(v))
          /\ (Stale(Stop(v)) <=> Stale(v))
          /\ (Dry(v) => Dry(Stop(v)))
      BY <2>2, StopHolds
    <2> QED BY <1>1, <1>4, <2>1, <2>3 DEF Settled, Ran, Done
  <1> QED BY <1>2, <1>3, <1>4

\* Tight's own kinds of authentication, once there are no tunnels to speak of.
LEMMA TightSubAuthDone ==
    ASSUME NEW server, NEW s, NEW w, NEW rest, Ready(server, s, w, rest),
           s.init = "Authentication", s.scheme = "Tight", s.tight, s.conn = "connecting"
    PROVE  Done(server, NegotiateTightSubAuth(s), w)
  <1> DEFINE values == server.subs
             n == Len(values)
             kinds == <<"STDVNOAUTH", "STDVVNCAUTH", "TGHTULGNAUTH">>
             t == ReadList(s, "subs", "sub")
             chosen == FirstOf(kinds, List(s))
             u == Send(t, "sub", chosen)
  <1>1. /\ s \in Client /\ Turns(s) /\ Place(server, s) /\ ~Owing(s) /\ s.ra2 = "none" /\ s.ard = "none"
        /\ server \in Peers /\ rest \in Seq(Tokens) /\ s.chan = "open"
    BY ReadyFacts DEF Ready, Turns
  <1>2. s.q \o rest = SubAuths(server)
    BY DEF Ready, Awaits, Ahead, OfScheme
  <1>3. PICK y \in Seq(Tokens) : /\ SubAuths(server) = ListOf("subs", "sub", values) \o y
                                 /\ y = IF values = <<>> THEN Result(server) ELSE <<>>
    BY <1>1, SubAuthFacts
  <1>4. values \in Seq(Values) /\ n \in Nat /\ (values = <<>> <=> n = 0) /\ values \in Seq(SubTypes)
    BY <1>1, PeerFacts
  <1>5. Listed(s, rest, "subs", "sub", values, y)
    BY <1>1, <1>2, <1>3, <1>4 DEF Listed, FieldKinds
  <1>6. CASE Waits(s, 1) \/ Waits(s, 1 + s.q[1].n)
    <2>1. NegotiateTightSubAuth(s) = Stop(s)
      BY <1>6 DEF NegotiateTightSubAuth
    <2>2. Dry(s)
      BY DEF Dry
    <2> QED BY <2>1, <2>2, StopSettles DEF Settled, Done
  <1>7. CASE ~(Waits(s, 1) \/ Waits(s, 1 + s.q[1].n))
    <2>1. s.q # <<>> /\ s.q[1].n = n
      BY <1>5, <1>7, CountRead
    <2>2. ~Waits(s, 1 + Len(values)) /\ ~Waits(s, 1)
      BY <1>7, <2>1
    <2>3. t \in Client /\ Same(s, t, {"q"})
      BY <1>5, <2>2, ListRead
    <2>4. t.q \o rest = y
      BY <1>5, <2>2, ListRead
    <2>5. List(s) = {values[i] : i \in 1 .. Len(values)}
      BY <1>5, <2>2, ListRead
    <2>6. NegotiateTightSubAuth(s) =
            IF n = 0 THEN Go(t, "SecurityResult")
            ELSE CASE chosen = "none" -> Fail(t, "unsupported")
                   [] chosen = "STDVNOAUTH" -> Go(u, "SecurityResult")
                   [] chosen = "STDVVNCAUTH" -> Go([u EXCEPT !.scheme = "VNCAuth"], s.init)
                   [] chosen = "TGHTULGNAUTH" -> Go([u EXCEPT !.scheme = "UnixLogon"], s.init)
      <3> DEFINE choice == CASE chosen = "none" -> Fail(t, "unsupported")
                             [] chosen = "STDVNOAUTH" -> Go(u, "SecurityResult")
                             [] chosen = "STDVVNCAUTH" -> Go([u EXCEPT !.scheme = "VNCAuth"], s.init)
                             [] chosen = "TGHTULGNAUTH" -> Go([u EXCEPT !.scheme = "UnixLogon"], s.init)
      <3>1. NegotiateTightSubAuth(s) =
              IF Waits(s, 1) \/ Waits(s, 1 + s.q[1].n) THEN Stop(s)
              ELSE IF s.q[1].n = 0 THEN Go(t, "SecurityResult") ELSE choice
        BY DEF NegotiateTightSubAuth
      <3>2. NegotiateTightSubAuth(s) = IF n = 0 THEN Go(t, "SecurityResult") ELSE choice
        <4> HIDE DEF choice, t, n
        <4> QED BY <1>7, <2>1, <3>1
      <3> QED BY <3>2
    <2>7. \/ chosen = "none" /\ \A i \in 1 .. 3 : kinds[i] \notin List(s)
          \/ \E i \in 1 .. 3 : kinds[i] \in List(s) /\ chosen = kinds[i]
      <3>1. Len(kinds) = 3
        OBVIOUS
      <3> HIDE DEF kinds
      <3> QED BY <3>1, FirstOfFacts
    <2>8. \/ chosen = "none" /\ \A i \in 1 .. n : values[i] = "unknown"
          \/ chosen \in {"STDVNOAUTH", "STDVVNCAUTH", "TGHTULGNAUTH"}
      <3> HIDE DEF chosen, n
      <3>1. \A i \in 1 .. n : values[i] \in SubTypes /\ values[i] \in List(s)
        BY <1>4, <2>5, ElementOfSeq DEF n
      <3>2. CASE chosen = "none" /\ \A i \in 1 .. 3 : kinds[i] \notin List(s)
        <4>1. /\ "STDVNOAUTH" \notin List(s) /\ "STDVVNCAUTH" \notin List(s) /\ "TGHTULGNAUTH" \notin List(s)
          BY <3>2
        <4> QED BY <3>1, <3>2, <4>1 DEF SubTypes
      <3>3. CASE \E i \in 1 .. 3 : kinds[i] \in List(s) /\ chosen = kinds[i]
        BY <3>3
      <3> QED BY <2>7, <3>2, <3>3
    <2> HIDE DEF t, chosen, kinds
    <2>9. /\ t.out = s.out /\ t.chan = "open" /\ t.init = "Authentication" /\ t.scheme = "Tight"
          /\ t.ra2 = "none" /\ t.ard = "none" /\ t.tight /\ t.version = s.version /\ Same(s, t, Streamy)
      BY <1>1, <2>3 DEF Same, Parts, Streamy
    <2>10. CASE n = 0
      <3> DEFINE x == Go(t, "SecurityResult")
      <3>1. x \in Client /\ Same(t, x, {"go", "init"}) /\ x.go = TRUE /\ x.init = "SecurityResult"
        BY <2>3, GoFacts DEF InitStates
      <3>2. NegotiateTightSubAuth(s) = x
        BY <2>6, <2>10
      <3> HIDE DEF x
      <3>3. Same(s, x, Streamy)
        BY <2>9, <3>1 DEF Same, Parts, Streamy
      <3>4. /\ x.q = t.q /\ x.scheme = "Tight" /\ x.ra2 = "none" /\ x.ard = "none" /\ x.tight
            /\ x.version = s.version /\ x.out = s.out
        BY <2>9, <3>1 DEF Same, Parts
      <3>5. x.conn = "connecting"
        BY <3>3 DEF Same, Parts, Streamy
      <3>6. Turns(x)
        BY <3>3, <3>4, TurnsKept
      <3>7. Place(server, x)
        BY <1>1, <3>1, <3>4 DEF Place, Early, Late
      <3>8. Awaits(server, x, rest)
        <4>1. y = Result(server)
          BY <1>3, <1>4, <2>10
        <4> QED BY <2>4, <3>1, <3>4, <4>1 DEF Awaits, Ahead
      <3>9. Ran(server, x, w)
        BY <1>1, <2>1, <3>1, <3>3, <3>4, <3>6, <3>7, <3>8, MovesRun
      <3> QED BY <3>1, <3>2, <3>5, <3>9 DEF Done
    <2>11. CASE n # 0
      <3>1. y = <<>>
        BY <1>3, <1>4, <2>11
      <3>2. t.q = <<>> /\ rest = <<>>
        BY <1>1, <2>3, <2>4, <3>1, NothingLeft
      <3>3. CASE chosen = "none"
        <4>1. Place(server, t)
          BY <1>1, <2>9 DEF Place, Early, Late
        <4>2. Because(server, t, "unsupported")
          <5>1. \A i \in 1 .. n : values[i] = "unknown"
            BY <2>8, <3>3
          <5> QED BY <2>9, <5>1 DEF Because
        <4>3. Settled(server, Fail(t, "unsupported"), w)
          BY <1>1, <2>3, <2>9, <4>1, <4>2, FailSettles DEF Reasons
        <4>4. NegotiateTightSubAuth(s) = Fail(t, "unsupported")
          BY <2>6, <2>11, <3>3
        <4> QED BY <4>3, <4>4 DEF Settled, Done
      <3>4. CASE chosen \in {"STDVNOAUTH", "STDVVNCAUTH", "TGHTULGNAUTH"}
        <4> DEFINE msg == [m |-> "sub", v |-> chosen]
        <4>1. msg \in Messages
          BY <3>4 DEF Messages, Values, SubTypes
        <4>2. u \in Client /\ Same(t, u, {"out"}) /\ u.out = Sent(t, "sub", chosen)
          BY <2>3, <4>1, SendFacts
        <4> HIDE DEF u
        <4>3. u.out = IF s.chan = "open" THEN Append(s.out, msg) ELSE s.out
          BY <1>1, <2>9, <4>2 DEF Sent
        <4>4. /\ Same(s, u, Streamy) /\ u.q = <<>> /\ u.scheme = "Tight" /\ u.ra2 = "none" /\ u.ard = "none"
              /\ u.tight /\ u.version = s.version /\ u.init = "Authentication"
          BY <2>9, <3>2, <4>2 DEF Same, Parts, Streamy
        <4> HIDE DEF msg
        <4>5. ASSUME NEW x \in Client, Same(u, x, {"go", "init", "scheme"}), Same(s, x, Streamy),
                     x.go = TRUE, x.init # "none", Turns(x), Place(server, x),
                     NegotiateTightSubAuth(s) = x,
                     Awaits(server, x, Reply(server, msg)), Reply(server, msg) \in Seq(Tokens)
              PROVE  Done(server, NegotiateTightSubAuth(s), w)
          <5>1. x.out = u.out /\ x.q = <<>> /\ x.conn = "connecting"
            BY <4>4, <4>5 DEF Same, Parts, Streamy
          <5>2. \E msg1 \in Messages : /\ rest = <<>> /\ x.q = <<>> /\ Reply(server, msg) = Reply(server, msg1)
                                       /\ x.out = IF s.chan = "open" THEN Append(s.out, msg1) ELSE s.out
            BY <3>2, <4>1, <4>3, <5>1
          <5>3. Ran(server, x, w)
            BY <1>1, <4>5, <5>2, MovesRun
          <5> QED BY <4>5, <5>1, <5>3 DEF Done
        <4>6. CASE chosen = "STDVNOAUTH"
          <5> DEFINE x == Go(u, "SecurityResult")
          <5>1. x \in Client /\ Same(u, x, {"go", "init"}) /\ x.go = TRUE /\ x.init = "SecurityResult"
            BY <4>2, GoFacts DEF InitStates
          <5>2. NegotiateTightSubAuth(s) = x
            BY <2>6, <2>11, <4>6
          <5> HIDE DEF x
          <5>3. Same(s, x, Streamy) /\ Same(u, x, {"go", "init", "scheme"})
            BY <4>4, <5>1 DEF Same, Parts, Streamy
          <5>4. /\ x.q = <<>> /\ x.scheme = "Tight" /\ x.ra2 = "none" /\ x.ard = "none" /\ x.tight
                /\ x.version = s.version
            BY <4>4, <5>1 DEF Same, Parts
          <5>5. Turns(x)
            BY <5>3, <5>4, TurnsKept
          <5>6. Place(server, x)
            BY <1>1, <5>1, <5>4 DEF Place, Early, Late
          <5>7. Reply(server, msg) = Result(server)
            BY <4>6 DEF Reply, msg
          <5>8. Result(server) \in Seq(Tokens) /\ <<>> \o Result(server) = Result(server)
            BY <1>1, ResultFacts, ConcatEmptySeq
          <5>9. Awaits(server, x, Reply(server, msg))
            BY <5>1, <5>4, <5>7, <5>8 DEF Awaits, Ahead
          <5> QED BY <4>5, <5>1, <5>2, <5>3, <5>5, <5>6, <5>7, <5>8, <5>9
        <4>7. CASE chosen # "STDVNOAUTH"
          <5> DEFINE scheme == IF chosen = "STDVVNCAUTH" THEN "VNCAuth" ELSE "UnixLogon"
                     v == [u EXCEPT !.scheme = scheme]
                     x == Go(v, s.init)
          <5>1. scheme \in {"VNCAuth", "UnixLogon"} /\ scheme \in Types \cup {"none", "UnixLogon"}
            BY DEF Types, Schemes
          <5>2. NegotiateTightSubAuth(s) = x
            <6>1. CASE chosen = "STDVVNCAUTH"
              BY <2>6, <2>11, <6>1
            <6>2. CASE chosen = "TGHTULGNAUTH"
              BY <2>6, <2>11, <6>2
            <6> QED BY <3>4, <4>7, <6>1, <6>2
          <5>3. Reply(server, msg) = Begins(server, scheme)
            <6>1. CASE chosen = "STDVVNCAUTH"
              BY <6>1 DEF Reply, Begins, msg
            <6>2. CASE chosen = "TGHTULGNAUTH"
              BY <6>2 DEF Reply, Begins, msg
            <6> QED BY <3>4, <4>7, <6>1, <6>2
          <5> HIDE DEF scheme
          <5>4. v \in Client
            BY <4>2, <5>1 DEF Client
          <5>5. Same(u, v, {"scheme"}) /\ v.scheme = scheme
            BY <4>2 DEF Client, Same, Parts
          <5> HIDE DEF v
          <5>6. x \in Client /\ Same(v, x, {"go", "init"}) /\ x.go = TRUE /\ x.init = "Authentication"
            <6>1. s.init \in InitStates
              BY DEF InitStates
            <6>2. x \in Client /\ Same(v, x, {"go", "init"}) /\ x.go = TRUE /\ x.init = s.init
              BY <5>4, <6>1, GoFacts
            <6> HIDE DEF x
            <6> QED BY <6>2
          <5> HIDE DEF x
          <5>7. Same(s, x, Streamy) /\ Same(u, x, {"go", "init", "scheme"})
            BY <4>4, <5>5, <5>6 DEF Same, Parts, Streamy
          <5>8. /\ x.q = <<>> /\ x.scheme = scheme /\ x.ra2 = "none" /\ x.ard = "none" /\ x.tight
                /\ x.version = s.version
            BY <4>4, <5>5, <5>6 DEF Same, Parts
          <5>9. Turns(x)
            BY <5>7, <5>8, TurnsKept
          <5>10. Place(server, x)
            BY <1>1, <5>1, <5>6, <5>8 DEF Place, Early, Late
          <5>11. Begins(server, scheme) \in Seq(Tokens) /\ <<>> \o Begins(server, scheme) = Begins(server, scheme)
            BY <1>1, BeginsFacts, ConcatEmptySeq
          <5>12. Awaits(server, x, Reply(server, msg))
            <6>1. Ahead(server, x) = Begins(server, scheme)
              BY <5>1, <5>6, <5>8 DEF Ahead, OfScheme
            <6> QED BY <5>3, <5>6, <5>8, <5>11, <6>1 DEF Awaits
          <5> QED BY <4>5, <5>2, <5>3, <5>6, <5>7, <5>9, <5>10, <5>11, <5>12
        <4> QED BY <4>6, <4>7
      <3> QED BY <2>8, <3>3, <3>4
    <2> QED BY <2>10, <2>11
  <1> QED BY <1>6, <1>7

\* A server that offers tunnels is told that none is wanted, if it lets the client.
LEMMA TightTunnelsDone ==
    ASSUME NEW server, NEW s, NEW w, NEW rest, Ready(server, s, w, rest),
           s.init = "Authentication", s.scheme = "Tight", ~s.tight, s.conn = "connecting",
           ~Waits(s, 1), ~Waits(s, 1 + s.q[1].n), server.tunnels # "none"
    PROVE  Done(server, NegotiateTightTunnels([s EXCEPT !.tight = TRUE]), w)
  <1> DEFINE s1 == [s EXCEPT !.tight = TRUE]
             values == Offered(server)
             t == ReadList(s1, "tunnels", "tunnel")
  <1>1. /\ s \in Client /\ Turns(s) /\ Place(server, s) /\ ~Owing(s) /\ s.ra2 = "none" /\ s.ard = "none"
        /\ server \in Peers /\ rest \in Seq(Tokens) /\ s.chan = "open"
    BY ReadyFacts DEF Ready, Turns
  <1>2. s.q \o rest = Begins(server, "Tight")
    BY DEF Ready, Awaits, Ahead, OfScheme
  <1>3. s1 \in Client
    BY <1>1 DEF Client
  <1>4. Same(s, s1, {"tight"}) /\ s1.tight
    BY <1>1 DEF Client, Same, Parts
  <1> HIDE DEF s1
  <1>5. s1.q = s.q
    BY <1>4 DEF Same, Parts
  <1>6. /\ values = <<server.tunnels>> /\ values \in Seq(Values) /\ Len(values) = 1 /\ values[1] = server.tunnels
        /\ server.tunnels \in {"notunnel", "siemens", "other"}
    <2>1. values = <<server.tunnels>>
      BY DEF Offered
    <2>2. values \in Seq(Values)
      BY <1>1, TunnelFacts
    <2>3. server.tunnels \in {"notunnel", "siemens", "other"}
      BY <1>1, PeerFacts
    <2> QED BY <2>1, <2>2, <2>3
  <1>7. Begins(server, "Tight") = ListOf("tunnels", "tunnel", values) \o <<>>
    BY <1>1, TunnelFacts
  <1> HIDE DEF values
  <1>8. Listed(s1, rest, "tunnels", "tunnel", values, <<>>)
    <2>1. <<>> \in Seq(Tokens)
      BY EmptySeq
    <2> QED BY <1>1, <1>2, <1>3, <1>5, <1>6, <1>7, <2>1 DEF Listed, FieldKinds
  <1>9. ~Waits(s1, 1) /\ ~Waits(s1, 1 + Len(values))
    <2>1. ~Waits(s1, 1) /\ ~Waits(s1, 1 + s1.q[1].n)
      BY <1>5 DEF Waits
    <2>2. s1.q[1].n = Len(values)
      BY <1>8, <2>1, CountRead, ZenonT(40)
    <2> QED BY <2>1, <2>2
  <1>10. t \in Client /\ Same(s1, t, {"q"})
    BY <1>8, <1>9, ListRead
  <1>11. t.q \o rest = <<>>
    BY <1>8, <1>9, ListRead
  <1>12. List(s1) = {server.tunnels}
    <2>1. List(s1) = {values[i] : i \in 1 .. Len(values)}
      BY <1>8, <1>9, ListRead
    <2> QED BY <1>6, <2>1
  <1>13. NegotiateTightTunnels(s1) = IF server.tunnels = "other" THEN Fail(t, "tunnels")
                                     ELSE Stop(Send(t, "notunnel", "none"))
    <2>1. (List(s1) \cap {"notunnel", "siemens"} = {}) <=> server.tunnels = "other"
      BY <1>6, <1>12
    <2> QED BY <2>1 DEF NegotiateTightTunnels
  <1> HIDE DEF t
  <1>14. t.q = <<>> /\ rest = <<>>
    BY <1>1, <1>10, <1>11, NothingLeft
  <1>15. /\ t.out = s.out /\ t.chan = "open" /\ t.init = "Authentication" /\ t.scheme = "Tight"
         /\ t.ra2 = "none" /\ t.ard = "none" /\ t.tight /\ t.version = s.version /\ Same(s, t, Streamy)
    BY <1>1, <1>4, <1>10 DEF Same, Parts, Streamy
  <1>16. Place(server, t)
    BY <1>1, <1>15 DEF Place, Early, Late
  <1>17. CASE server.tunnels = "other"
    <2>1. Because(server, t, "tunnels")
      BY <1>17 DEF Because
    <2>2. Settled(server, Fail(t, "tunnels"), w)
      BY <1>1, <1>10, <1>15, <1>16, <2>1, FailSettles DEF Reasons
    <2> QED BY <1>13, <1>17, <2>2 DEF Settled, Done, s1
  <1>18. CASE server.tunnels # "other"
    <2> DEFINE u == Send(t, "notunnel", "none")
               x == Stop(u)
               msg == [m |-> "notunnel", v |-> "none"]
    <2>1. msg \in Messages
      BY DEF Messages, Values
    <2>2. u \in Client /\ Same(t, u, {"out"}) /\ u.out = Sent(t, "notunnel", "none")
      BY <1>10, <2>1, SendFacts
    <2>3. NegotiateTightTunnels(s1) = x
      BY <1>13, <1>18
    <2> HIDE DEF u
    <2>4. x \in Client /\ Same(u, x, {"go"}) /\ x.go = FALSE
      BY <2>2, StopFacts
    <2> HIDE DEF x
    <2>5. Same(s, x, Streamy)
      BY <1>15, <2>2, <2>4 DEF Same, Parts, Streamy
    <2>6. /\ x.q = <<>> /\ x.scheme = "Tight" /\ x.ra2 = "none" /\ x.ard = "none" /\ x.tight
          /\ x.version = s.version /\ x.init = "Authentication"
          /\ x.out = IF s.chan = "open" THEN Append(s.out, msg) ELSE s.out
      BY <1>1, <1>14, <1>15, <2>2, <2>4 DEF Same, Parts, Sent
    <2>7. Turns(x)
      BY <2>5, <2>6, TurnsKept
    <2>8. Place(server, x)
      BY <1>1, <2>6 DEF Place, Early, Late
    <2>9. Reply(server, msg) = SubAuths(server)
      BY DEF Reply
    <2> HIDE DEF msg
    <2>10. SubAuths(server) \in Seq(Tokens) /\ <<>> \o SubAuths(server) = SubAuths(server)
      BY <1>1, SubAuthFacts, ConcatEmptySeq
    <2>11. Awaits(server, x, SubAuths(server))
      BY <2>6, <2>10 DEF Awaits, Ahead, OfScheme
    <2>12. Ran(server, x, w)
      <3>1. \E msg1 \in Messages : /\ rest = <<>> /\ x.q = <<>> /\ SubAuths(server) = Reply(server, msg1)
                                   /\ x.out = IF s.chan = "open" THEN Append(s.out, msg1) ELSE s.out
        BY <1>14, <2>1, <2>6, <2>9
      <3> QED BY <1>1, <2>4, <2>5, <2>6, <2>7, <2>8, <2>10, <2>11, <3>1, MovesRun
    <2>13. Dry(x)
      BY <2>6 DEF Dry
    <2> QED BY <2>3, <2>12, <2>13 DEF Done, s1
  <1> QED BY <1>17, <1>18

LEMMA TightDone ==
    ASSUME NEW server, NEW s, NEW w, NEW rest, Ready(server, s, w, rest),
           s.init = "Authentication", s.scheme = "Tight", s.conn = "connecting"
    PROVE  Done(server, NegotiateTightAuth(s), w)
  <1>1. /\ s \in Client /\ Turns(s) /\ Place(server, s) /\ ~Owing(s) /\ s.ra2 = "none" /\ s.ard = "none"
        /\ server \in Peers /\ rest \in Seq(Tokens) /\ s.chan = "open" /\ s.tight \in BOOLEAN /\ w \in Seq(Tokens)
    BY ReadyFacts DEF Ready, Turns, Client
  <1>2. CASE s.tight
    BY <1>2, TightSubAuthDone DEF NegotiateTightAuth
  <1>3. CASE ~s.tight /\ (Waits(s, 1) \/ Waits(s, 1 + s.q[1].n))
    <2>1. NegotiateTightAuth(s) = Stop(s)
      BY <1>3 DEF NegotiateTightAuth
    <2>2. Dry(s)
      BY DEF Dry
    <2> QED BY <2>1, <2>2, StopSettles DEF Settled, Done
  <1>4. CASE ~s.tight /\ ~Waits(s, 1) /\ ~Waits(s, 1 + s.q[1].n)
    <2> DEFINE values == Offered(server)
               u == Read(s, <<"tunnels">>)
               x == [u EXCEPT !.tight = TRUE]
    <2>1. s.q \o rest = Begins(server, "Tight")
      BY <1>4 DEF Ready, Awaits, Ahead, OfScheme
    <2>2. PICK y \in Seq(Tokens) : /\ Begins(server, "Tight") = ListOf("tunnels", "tunnel", values) \o y
                                   /\ y = IF server.tunnels = "none" THEN SubAuths(server) ELSE <<>>
      BY <1>1, TunnelFacts
    <2>3. /\ values \in Seq(Values) /\ Len(values) = IF server.tunnels = "none" THEN 0 ELSE 1
      BY <1>1, TunnelFacts DEF Offered
    <2> HIDE DEF values
    <2>4. Listed(s, rest, "tunnels", "tunnel", values, y)
      BY <1>1, <2>1, <2>2, <2>3 DEF Listed, FieldKinds
    <2>5. s.q # <<>> /\ s.q[1].n = Len(values)
      BY <1>4, <2>4, CountRead
    <2>6. CASE server.tunnels # "none"
      <3>1. NegotiateTightAuth(s) = NegotiateTightTunnels([s EXCEPT !.tight = TRUE])
        BY <1>4, <2>3, <2>5, <2>6 DEF NegotiateTightAuth
      <3> QED BY <1>4, <2>6, <3>1, TightTunnelsDone
    <2>7. CASE server.tunnels = "none"
      <3>1. u \in Client /\ Same(s, u, {"q"})
        BY <1>4, <2>4, CountRead
      <3>2. u.q \o rest = SubAuths(server)
        <4>1. Streams(u, rest, Items("tunnel", values) \o y)
          BY <1>4, <2>4, CountRead
        <4>2. Items("tunnel", values) = <<>>
          <5>1. Items("tunnel", values) \in Seq(Tokens) /\ Len(Items("tunnel", values)) = 0
            <6>1. "tunnel" \in FieldKinds
              BY DEF FieldKinds
            <6>2. Items("tunnel", values) \in Seq(Tokens) /\ Len(Items("tunnel", values)) = Len(values)
              BY <2>3, <6>1, ItemFacts
            <6> QED BY <2>3, <2>7, <6>2
          <5> QED BY <5>1, EmptySeq
        <4>3. y = SubAuths(server)
          BY <2>2, <2>7
        <4>4. <<>> \o y = y
          BY ConcatEmptySeq
        <4>5. u.q \o rest = Items("tunnel", values) \o y
          BY <4>1 DEF Streams
        <4> QED BY <4>2, <4>3, <4>4, <4>5
      <3>3. NegotiateTightAuth(s) = NegotiateTightSubAuth(x)
        BY <1>4, <2>3, <2>5, <2>7 DEF NegotiateTightAuth
      <3> HIDE DEF u
      <3>4. x \in Client
        BY <3>1 DEF Client
      <3>5. Same(u, x, {"tight"}) /\ x.tight
        BY <3>1 DEF Client, Same, Parts
      <3> HIDE DEF x
      <3>6. Same(s, x, Streamy)
        BY <3>1, <3>5 DEF Same, Parts, Streamy
      <3>7. /\ x.q = u.q /\ x.scheme = "Tight" /\ x.ra2 = "none" /\ x.ard = "none" /\ x.conn = "connecting"
            /\ x.version = s.version /\ x.init = "Authentication" /\ x.out = s.out /\ x.chan = "open"
            /\ x.asked = s.asked /\ x.resumes = s.resumes
        BY <1>1, <3>1, <3>5 DEF Same, Parts
      <3>8. Turns(x)
        BY <3>6, <3>7, TurnsKept
      <3>9. Place(server, x)
        BY <1>1, <3>5, <3>7 DEF Place, Early, Late
      <3>10. Awaits(server, x, rest)
        BY <3>2, <3>5, <3>7 DEF Awaits, Ahead, OfScheme
      <3>11. Ran(server, x, w)
        BY <1>1, <2>5, <3>4, <3>6, <3>7, <3>8, <3>9, <3>10, MovesRun
      <3>12. ~Quiet(x)
        BY <1>1, <3>7 DEF Owing, Quiet
      <3>13. PICK r \in Seq(Tokens) : Ready(server, x, w, r)
        <4>1. x.inStep
          BY <3>6, ReadyFacts DEF Same, Parts, Streamy
        <4> QED BY <1>1, <3>7, <3>11, <3>12, <4>1, RanReady
      <3>14. Done(server, NegotiateTightSubAuth(x), w)
        BY <3>5, <3>7, <3>13, TightSubAuthDone
      <3> QED BY <3>3, <3>14
    <2> QED BY <2>6, <2>7
  <1> QED BY <1>1, <1>2, <1>3, <1>4

\* RA2 under way: what is left of it, whatever it awaits.
RA2Ready(server, s, w) ==
    /\ server \in Peers /\ w \in Seq(Tokens)
    /\ \E r \in Seq(Tokens) : Ready(server, s, w, r)
    /\ s.init = "Authentication" /\ s.scheme = "RA2ne" /\ s.ra2 # "none"

LEMMA RA2Facts ==
    ASSUME NEW server, NEW s, NEW w, NEW rest \in Seq(Tokens), Ready(server, s, w, rest),
           s.init = "Authentication", s.scheme = "RA2ne"
    PROVE  /\ s \in Client /\ Base(server, s) /\ Turns(s) /\ Place(server, s) /\ ~Past(s) /\ ~Stale(s)
           /\ ~Owing(s) /\ s.ard = "none" /\ s.q \o rest = OfRA2(server, s.ra2)
           /\ s.ra2 \in {"none"} \cup Waiting \cup Crypto /\ server \in Peers /\ w \in Seq(Tokens)
           /\ (s.conn = "connecting" => s.chan = "open" /\ Owes(server, s, w, rest))
  <1>1. /\ s \in Client /\ Base(server, s) /\ Turns(s) /\ Place(server, s) /\ ~Past(s) /\ ~Stale(s)
        /\ server \in Peers /\ w \in Seq(Tokens)
        /\ (s.conn = "connecting" => s.chan = "open" /\ Owes(server, s, w, rest))
    BY ReadyFacts DEF Ready
  <1>2. ~Owing(s)
    BY ReadyFacts
  <1>3. s.ard = "none"
    BY <1>1 DEF Turns
  <1>4. s.q \o rest = OfRA2(server, s.ra2)
    BY DEF Ready, Awaits, Ahead, OfScheme
  <1>5. s.ra2 \in {"none"} \cup Waiting \cup Crypto
    BY <1>1 DEF Client
  <1> QED BY <1>1, <1>2, <1>3, <1>4, <1>5

\* From s it has come to t; r is what is still to come.
Onward(server, s, t, rest, r) ==
    /\ t \in Client /\ Same(s, t, {"q", "out", "ra2"}) /\ Mild(s, t) /\ t.ra2 \notin {"none", "verify"}
    /\ r \in Seq(Tokens) /\ t.q \o r = OfRA2(server, t.ra2)
    /\ \/ t.out = s.out /\ r = rest /\ (s.q = <<>> => t.q = <<>>)
       \/ \E msg \in Messages : /\ rest = <<>> /\ t.q = <<>> /\ r = Reply(server, msg)
                                /\ t.out = IF s.chan = "open" THEN Append(s.out, msg) ELSE s.out

\* A step of it.
LEMMA RA2Moves ==
    ASSUME NEW server, NEW s, NEW w, NEW rest \in Seq(Tokens), Ready(server, s, w, rest),
           s.init = "Authentication", s.scheme = "RA2ne",
           NEW t, NEW r, Onward(server, s, t, rest, r)
    PROVE  /\ RA2Ready(server, t, w) /\ Settled(server, t, w) /\ t.go = s.go
  <1>0. /\ t \in Client /\ Same(s, t, {"q", "out", "ra2"}) /\ Mild(s, t) /\ t.ra2 \notin {"none", "verify"}
        /\ r \in Seq(Tokens) /\ t.q \o r = OfRA2(server, t.ra2)
        /\ \/ t.out = s.out /\ r = rest /\ (s.q = <<>> => t.q = <<>>)
           \/ \E msg \in Messages : /\ rest = <<>> /\ t.q = <<>> /\ r = Reply(server, msg)
                                    /\ t.out = IF s.chan = "open" THEN Append(s.out, msg) ELSE s.out
    BY DEF Onward
  <1>1. /\ s \in Client /\ Base(server, s) /\ Turns(s) /\ Place(server, s) /\ ~Past(s) /\ ~Stale(s)
        /\ ~Owing(s) /\ s.ard = "none" /\ server \in Peers /\ w \in Seq(Tokens)
        /\ (s.conn = "connecting" => s.chan = "open" /\ Owes(server, s, w, rest)) /\ s.inStep
    BY RA2Facts DEF Ready
  <1>2. /\ t.conn = s.conn /\ t.init = "Authentication" /\ t.scheme = "RA2ne" /\ t.tight = s.tight
        /\ t.ard = "none" /\ t.asked = s.asked /\ t.resumes = s.resumes /\ t.go = s.go
        /\ t.version = s.version /\ t.chan = s.chan /\ t.inStep
    BY <1>0, <1>1 DEF Same, Parts
  <1>3. Same(s, t, Streamy)
    BY <1>0 DEF Same, Streamy
  <1>4. ~Owing(t) /\ ~Quiet(t)
    BY <1>1, <1>2 DEF Owing, Quiet
  <1>5. Turns(t)
    BY <1>0, <1>2, <1>4 DEF Turns
  <1>6. Place(server, t)
    BY <1>1, <1>2 DEF Place, Early, Late
  <1>7. Awaits(server, t, r)
    BY <1>0, <1>2 DEF Awaits, Ahead, OfScheme
  <1>8. Ran(server, t, w) /\ ~Stale(t)
    BY <1>0, <1>1, <1>2, <1>3, <1>5, <1>6, <1>7, MovesRun
  <1>9. Base(server, t) /\ (Alive(t) /\ ~Stale(t) => Talk(server, t, w))
    BY <1>8 DEF Ran, Hold
  <1>10. Alive(t)
    BY <1>0 DEF Alive
  <1>11. Talk(server, t, w)
    BY <1>8, <1>9, <1>10
  <1>12. PICK r1 \in Seq(Tokens) : /\ Awaits(server, t, r1)
                                   /\ t.conn = "connecting" => Owes(server, t, w, r1)
    BY <1>11 DEF Talk
  <1>13. Ready(server, t, w, r1)
    BY <1>1, <1>2, <1>4, <1>9, <1>12 DEF Ready
  <1>14. RA2Ready(server, t, w)
    BY <1>0, <1>1, <1>2, <1>13 DEF RA2Ready
  <1>15. Dry(t)
    BY <1>2 DEF Dry
  <1> QED BY <1>2, <1>8, <1>14, <1>15 DEF Settled

\* It goes on to its next await, and nothing else changes.
LEMMA RA2Turns ==
    ASSUME NEW server, NEW s, NEW w, NEW rest \in Seq(Tokens), Ready(server, s, w, rest),
           s.init = "Authentication", s.scheme = "RA2ne",
           NEW ra2 \in (Waiting \cup Crypto) \ {"verify"}, OfRA2(server, ra2) = OfRA2(server, s.ra2)
    PROVE  LET t == [s EXCEPT !.ra2 = ra2]
           IN RA2Ready(server, t, w) /\ Settled(server, t, w) /\ t.go = s.go /\ t.ra2 = ra2 /\ t.creds = s.creds
  <1> DEFINE t == [s EXCEPT !.ra2 = ra2]
  <1>1. s \in Client /\ s.q \o rest = OfRA2(server, s.ra2)
    BY RA2Facts
  <1>2. t \in Client
    <2>1. ra2 \in {"none"} \cup Waiting \cup Crypto
      OBVIOUS
    <2> QED BY <1>1, <2>1 DEF Client
  <1>3. Same(s, t, {"q", "out", "ra2"}) /\ t.ra2 = ra2 /\ t.q = s.q /\ t.out = s.out /\ t.creds = s.creds
    BY <1>1 DEF Client, Same, Parts
  <1> HIDE DEF t
  <1>4. ra2 \notin {"none", "verify"}
    BY DEF Waiting, Crypto
  <1>5. Mild(s, t)
    BY <1>3 DEF Mild
  <1>6. t.q \o rest = OfRA2(server, t.ra2)
    BY <1>1, <1>3
  <1>8. Onward(server, s, t, rest, rest)
    BY <1>2, <1>3, <1>4, <1>5, <1>6 DEF Onward
  <1>7. RA2Ready(server, t, w) /\ Settled(server, t, w) /\ t.go = s.go
    BY <1>8, RA2Moves
  <1> QED BY <1>3, <1>7 DEF t

\* It reads what it awaited.
LEMMA RA2Reads ==
    ASSUME NEW server, NEW s, NEW w, NEW rest \in Seq(Tokens), Ready(server, s, w, rest),
           s.init = "Authentication", s.scheme = "RA2ne",
           NEW a, NEW y, NEW kinds, Fits(s, rest, a, y, kinds), Len(a) \in Nat, Len(a) >= 1,
           NEW ra2 \in Crypto \cup {"key"}, OfRA2(server, ra2) = y
    PROVE  Settled(server, [Read(s, kinds) EXCEPT !.ra2 = ra2], w) /\ [Read(s, kinds) EXCEPT !.ra2 = ra2].go = s.go
  <1> DEFINE u == Read(s, kinds)
             t == [u EXCEPT !.ra2 = ra2]
  <1>1. s \in Client
    BY RA2Facts
  <1>2. u \in Client /\ Same(s, u, {"q"})
    BY ReadFits
  <1>3. u.q \o rest = y
    BY ReadFits
  <1> HIDE DEF u
  <1>4. t \in Client
    <2>1. ra2 \in {"none"} \cup Waiting \cup Crypto
      BY DEF Waiting
    <2> QED BY <1>2, <2>1 DEF Client
  <1>5. Same(u, t, {"ra2"}) /\ t.ra2 = ra2 /\ t.q = u.q
    BY <1>2 DEF Client, Same, Parts
  <1> HIDE DEF t
  <1>6. Same(s, t, {"q", "out", "ra2"}) /\ t.out = s.out
    BY <1>2, <1>5 DEF Same, Parts
  <1>7. ra2 \notin {"none", "verify"}
    BY DEF Crypto
  <1>8. Mild(s, t)
    BY <1>6 DEF Mild
  <1>9. s.q # <<>>
    <2>1. Len(a) <= Len(s.q)
      BY DEF Fits
    <2>2. Len(s.q) # 0
      BY <1>1, <2>1, QueueFacts
    <2> QED BY <1>1, <2>2, QueueFacts
  <1>10. t.q \o rest = OfRA2(server, t.ra2)
    BY <1>3, <1>5
  <1>12. Onward(server, s, t, rest, rest)
    BY <1>4, <1>5, <1>6, <1>7, <1>8, <1>9, <1>10 DEF Onward
  <1>11. Settled(server, t, w) /\ t.go = s.go
    BY <1>12, RA2Moves
  <1> QED BY <1>11 DEF t, u

\* A random that was not there when it was read: the misread is the last one.
LEMMA GarbledSettles ==
    ASSUME NEW server, NEW s, NEW w, Settled(server, s, w), s.ra2 = "garbled"
    PROVE  LET t == [s EXCEPT !.inStep = FALSE] IN Settled(server, t, w) /\ t.go = s.go
  <1> DEFINE t == [s EXCEPT !.inStep = FALSE]
  <1>1. /\ s \in Client /\ Conns(s) /\ Turns(s) /\ Place(server, s) /\ Whys(server, s)
        /\ s.conn \in {"disconnecting", "disconnected"} => (s.grabbed => quits = "desktopname" \/ Stale(s))
        /\ Alive(s) /\ ~Stale(s) => Talk(server, s, w) /\ Dry(s)
        /\ s.go /\ s.conn = "connecting" => s.chan = "open" /\ ~Quiet(s)
    BY BaseParts DEF Settled, Ran, Hold
  <1>2. t \in Client /\ Same(s, t, {"inStep"})
    BY <1>1 DEF Client, Same, Parts
  <1> HIDE DEF t
  <1>3. /\ t.conn = s.conn /\ t.q = s.q /\ t.out = s.out /\ t.init = s.init /\ t.scheme = s.scheme /\ t.tight = s.tight
        /\ t.ven = s.ven /\ t.venLength = s.venLength /\ t.ard = s.ard /\ t.ra2 = s.ra2 /\ t.asked = s.asked
        /\ t.resumes = s.resumes /\ t.creds = s.creds /\ t.version = s.version
        /\ t.chan = s.chan /\ t.on = s.on /\ t.listening = s.listening /\ t.grabbed = s.grabbed
        /\ t.why = s.why /\ t.attached = s.attached /\ t.timer = s.timer
        /\ t.clean = s.clean /\ t.seen = s.seen /\ t.late = s.late /\ t.go = s.go
    BY <1>2 DEF Same, Parts
  <1>4. /\ (Owing(t) <=> Owing(s)) /\ (Quiet(t) <=> Quiet(s)) /\ (Past(t) <=> Past(s))
        /\ \A fields : Lacks(t, fields) <=> Lacks(s, fields)
    BY <1>3 DEF Owing, Quiet, Lacks, Past
  <1>5. (Stale(t) <=> Stale(s)) /\ (Alive(t) <=> Alive(s))
    BY <1>3, <1>4 DEF Stale, Alive
  <1>6. Conns(t)
    BY <1>1, <1>3, <1>4, <1>5 DEF Conns
  <1>7. Turns(t)
    BY <1>1, <1>3, <1>4 DEF Turns
  <1>8. Place(server, t)
    BY <1>1, <1>3 DEF Place, Untight
  <1>9. Whys(server, t)
    BY <1>1, <1>3, <1>4 DEF Whys, Because
  <1>10. Talk(server, s, w) => Talk(server, t, w)
    BY <1>3, <1>4 DEF Talk, Owes, Awaits, Ahead, OfScheme
  <1>11. Dry(s) => Dry(t)
    BY <1>3 DEF Dry
  <1>12. Legible(t)
    <2>1. s.scheme = "RA2ne" /\ ~Owing(s)
      BY <1>1 DEF Turns
    <2> QED BY <1>3, <1>4, <2>1 DEF Legible, Cut
  <1>13. Hold(server, t, w)
    BY <1>1, <1>2, <1>3, <1>5, <1>6, <1>7, <1>8, <1>9, <1>10, <1>12 DEF Hold, Base
  <1> QED BY <1>1, <1>3, <1>4, <1>5, <1>11, <1>13 DEF Settled, Ran, t

LEMMA RA2Settles ==
    ASSUME NEW server, NEW s, NEW w, RA2Ready(server, s, w)
    PROVE  Settled(server, RA2(s), w) /\ RA2(s).go = s.go
  <1>1. PICK rest \in Seq(Tokens) : Ready(server, s, w, rest)
    BY DEF RA2Ready
  <1>2. s.init = "Authentication" /\ s.scheme = "RA2ne" /\ s.ra2 # "none"
    BY DEF RA2Ready
  <1>3. /\ s \in Client /\ s.q \o rest = OfRA2(server, s.ra2) /\ s.ra2 \in Waiting \cup Crypto
        /\ s.q \in Seq(Tokens) /\ Len(s.q) \in Nat
    BY <1>1, <1>2, RA2Facts, QueueFacts
  <1> DEFINE sub == V("ra2subtype", server.ra2)
  <1>4. /\ \A k \in {"keylength", "key", "randlength", "rand", "hash"} :
             k \in FieldKinds /\ T(k) \in Tokens /\ T(k).k = k
        /\ "ra2subtype" \in FieldKinds /\ sub \in Tokens /\ sub.k = "ra2subtype" /\ sub.v = server.ra2
    <2>1. server.ra2 \in Values
      BY <1>1, PeerFacts DEF Ready
    <2>2. "ra2subtype" \in FieldKinds
      BY DEF FieldKinds
    <2>3. \A k \in {"keylength", "key", "randlength", "rand", "hash"} : k \in FieldKinds
      BY DEF FieldKinds
    <2> QED BY <2>1, <2>2, <2>3, TokenFacts
  <1> HIDE DEF sub
  \* Two tokens, the last ones, or one.
  <1>5. ASSUME NEW k1 \in {"keylength", "randlength"}, NEW k2 \in {"key", "rand"}, ~Waits(s, 2),
               s.q \o rest = <<T(k1), T(k2)>>, NEW ra2 \in Crypto, OfRA2(server, ra2) = <<>>
        PROVE  LET t == [Read(s, <<k1, k2>>) EXCEPT !.ra2 = ra2] IN Settled(server, t, w) /\ t.go = s.go
    <2> DEFINE a == <<T(k1), T(k2)>>
               kinds == <<k1, k2>>
    <2>1. /\ a \in Seq(Tokens) /\ Len(a) = 2 /\ kinds \in Seq(FieldKinds) /\ Len(kinds) = 2
          /\ \A i \in 1 .. Len(a) : a[i].k = kinds[i]
      BY <1>4
    <2>2. a \o <<>> = a /\ <<>> \in Seq(Tokens)
      BY <2>1, ConcatEmptySeq, EmptySeq
    <2>3. s.q \o rest = a \o <<>> /\ Len(a) <= Len(s.q)
      BY <1>3, <1>5, <2>1, <2>2 DEF Waits
    <2> HIDE DEF a, kinds
    <2>4. Fits(s, rest, a, <<>>, kinds) /\ Len(a) \in Nat /\ Len(a) >= 1
      BY <1>3, <2>1, <2>2, <2>3 DEF Fits
    <2>5. ra2 \in Crypto \cup {"key"}
      BY <1>5
    <2>6. Settled(server, [Read(s, kinds) EXCEPT !.ra2 = ra2], w) /\ [Read(s, kinds) EXCEPT !.ra2 = ra2].go = s.go
      BY <1>1, <1>2, <1>5, <2>4, <2>5, RA2Reads
    <2> QED BY <2>6 DEF kinds
  <1>6. ASSUME NEW k \in FieldKinds, NEW tok \in Tokens, tok.k = k, NEW y \in Seq(Tokens), s.q # <<>>,
               s.q \o rest = <<tok>> \o y, NEW ra2 \in Crypto \cup {"key"}, OfRA2(server, ra2) = y
        PROVE  LET t == [Read(s, <<k>>) EXCEPT !.ra2 = ra2] IN Settled(server, t, w) /\ t.go = s.go
    <2> DEFINE a == <<tok>>
               kinds == <<k>>
    <2>1. /\ a \in Seq(Tokens) /\ Len(a) = 1 /\ kinds \in Seq(FieldKinds) /\ Len(kinds) = 1
          /\ \A i \in 1 .. Len(a) : a[i].k = kinds[i]
      <3>1. a \in Seq(Tokens) /\ Len(a) = 1 /\ a[1] = tok
        OBVIOUS
      <3>2. kinds \in Seq(FieldKinds) /\ Len(kinds) = 1 /\ kinds[1] = k
        OBVIOUS
      <3>3. tok.k = k
        BY <1>6
      <3> HIDE DEF a, kinds
      <3> QED BY <3>1, <3>2, <3>3
    <2>2. s.q \o rest = a \o y /\ Len(a) <= Len(s.q)
      BY <1>3, <1>6, <2>1
    <2> HIDE DEF a, kinds
    <2>3. Fits(s, rest, a, y, kinds) /\ Len(a) \in Nat /\ Len(a) >= 1
      BY <1>3, <2>1, <2>2 DEF Fits
    <2>4. Settled(server, [Read(s, kinds) EXCEPT !.ra2 = ra2], w) /\ [Read(s, kinds) EXCEPT !.ra2 = ra2].go = s.go
      BY <1>1, <1>2, <1>6, <2>3, RA2Reads
    <2> QED BY <2>4 DEF kinds
  <1>7. /\ <<>> \in Seq(Tokens)
        /\ \A x \in Tokens, y \in Tokens : <<x, y>> = <<x>> \o <<y>>
        /\ \A x \in Tokens : <<x>> \in Seq(Tokens) /\ <<x>> = <<x>> \o <<>>
    <2>1. ASSUME NEW x \in Tokens PROVE <<x>> \in Seq(Tokens) /\ <<x>> = <<x>> \o <<>>
      <3>1. <<x>> \in Seq(Tokens)
        OBVIOUS
      <3> QED BY <3>1, ConcatEmptySeq
    <2>2. ASSUME NEW x \in Tokens, NEW y \in Tokens PROVE <<x, y>> = <<x>> \o <<y>>
      <3> DEFINE a == <<x>>
                 b == <<y>>
                 both == <<x, y>>
      <3>1. a \in Seq(Tokens) /\ Len(a) = 1 /\ a[1] = x /\ b \in Seq(Tokens) /\ Len(b) = 1 /\ b[1] = y
        OBVIOUS
      <3>2. both \in Seq(Tokens) /\ Len(both) = 2 /\ both[1] = x /\ both[2] = y
        OBVIOUS
      <3> HIDE DEF a, b, both
      <3>3. /\ a \o b \in Seq(Tokens) /\ Len(a \o b) = 2
            /\ \A i \in 1 .. 2 : (a \o b)[i] = IF i <= 1 THEN a[i] ELSE b[i - 1]
        BY <3>1, ConcatProperties
      <3>4. (a \o b)[1] = x /\ (a \o b)[2] = y
        BY <3>1, <3>3
      <3>5. both = a \o b
        BY <3>2, <3>3, <3>4, SeqEqual
      <3> QED BY <3>5 DEF a, b, both
    <2> QED BY <2>1, <2>2, EmptySeq
  <1>8. ~Waits(s, 1) <=> s.q # <<>>
    BY <1>3, EmptySeq DEF Waits
  <1>9. Len(s.q) = 1 <=> s.q # <<>> /\ Waits(s, 2)
    <2>1. s.q = <<>> <=> Len(s.q) = 0
      BY <1>3, EmptySeq
    <2>2. Waits(s, 2) <=> Len(s.q) < 2
      BY DEF Waits
    <2>3. Len(s.q) \in Nat
      BY <1>3
    <2> DEFINE k == Len(s.q)
               empty == s.q = <<>>
               two == Waits(s, 2)
    <2> HIDE DEF k, empty, two
    <2>4. k \in Nat /\ (empty <=> k = 0) /\ (two <=> k < 2)
      BY <2>1, <2>2, <2>3 DEF k, empty, two
    <2>5. k = 1 <=> ~empty /\ two
      BY <2>4
    <2> QED BY <2>5 DEF k, empty, two
  <1>10. CASE s.ra2 = "len"
    <2>1. s.q \o rest = <<T("keylength"), T("key")>>
      BY <1>3, <1>10 DEF OfRA2
    <2>2. CASE ~Waits(s, 2)
      <3>1. RA2(s) = [Read(s, <<"keylength", "key">>) EXCEPT !.ra2 = "import"]
        BY <1>9, <1>10, <2>2 DEF RA2
      <3>2. "import" \in Crypto /\ OfRA2(server, "import") = <<>>
        BY DEF Crypto, OfRA2
      <3> QED BY <1>5, <2>1, <2>2, <3>1, <3>2
    <2>3. CASE Len(s.q) = 1
      <3>1. RA2(s) = [Read(s, <<"keylength">>) EXCEPT !.ra2 = "key"]
        BY <1>9, <1>10, <2>3 DEF RA2
      <3>2. OfRA2(server, "key") = <<T("key")>>
        BY DEF OfRA2
      <3>3. s.q \o rest = <<T("keylength")>> \o <<T("key")>> /\ <<T("key")>> \in Seq(Tokens) /\ s.q # <<>>
        BY <1>4, <1>7, <1>9, <2>1, <2>3
      <3>4. "key" \in Crypto \cup {"key"}
        OBVIOUS
      <3>5. LET t == [Read(s, <<"keylength">>) EXCEPT !.ra2 = "key"] IN Settled(server, t, w) /\ t.go = s.go
        BY <1>4, <1>6, <3>2, <3>3, <3>4
      <3> QED BY <3>1, <3>5
    <2>4. CASE Waits(s, 2) /\ Len(s.q) # 1
      <3>1. RA2(s) = s
        BY <1>10, <2>4 DEF RA2
      <3>2. OfRA2(server, "len") = OfRA2(server, s.ra2) /\ "len" \in (Waiting \cup Crypto) \ {"verify"}
        BY <1>10 DEF Waiting
      <3>3. [s EXCEPT !.ra2 = "len"] = s
        BY <1>3, <1>10 DEF Client
      <3>4. Settled(server, s, w)
        BY <1>1, <1>2, <3>2, <3>3, RA2Turns
      <3> QED BY <3>1, <3>4
    <2> QED BY <2>2, <2>3, <2>4
  <1>11. CASE s.ra2 = "rand"
    <2>1. s.q \o rest = <<T("randlength"), T("rand")>>
      BY <1>3, <1>11 DEF OfRA2
    <2>2. CASE ~Waits(s, 2)
      <3>1. RA2(s) = [Read(s, <<"randlength", "rand">>) EXCEPT !.ra2 = "decrypt"]
        BY <1>9, <1>11, <2>2 DEF RA2
      <3>2. "decrypt" \in Crypto /\ OfRA2(server, "decrypt") = <<>>
        BY DEF Crypto, OfRA2
      <3> QED BY <1>5, <2>1, <2>2, <3>1, <3>2
    <2>3. CASE Len(s.q) = 1
      <3> DEFINE t == [Read(s, <<"randlength">>) EXCEPT !.ra2 = "garbled"]
      <3>1. RA2(s) = [t EXCEPT !.inStep = FALSE]
        BY <1>9, <1>11, <2>3 DEF RA2
      <3>2. OfRA2(server, "garbled") = <<T("rand")>> /\ "garbled" \in Crypto
        BY DEF OfRA2, Crypto
      <3>3. s.q \o rest = <<T("randlength")>> \o <<T("rand")>> /\ <<T("rand")>> \in Seq(Tokens) /\ s.q # <<>>
        BY <1>4, <1>7, <1>9, <2>1, <2>3
      <3>4. "garbled" \in Crypto \cup {"key"}
        BY <3>2
      <3>5. Settled(server, t, w) /\ t.go = s.go
        BY <1>4, <1>6, <3>2, <3>3, <3>4
      <3>6. t.ra2 = "garbled"
        BY <3>5 DEF Settled, Ran, Hold, Base, Client
      <3> HIDE DEF t
      <3> QED BY <3>1, <3>5, <3>6, GarbledSettles
    <2>4. CASE Waits(s, 2) /\ Len(s.q) # 1
      <3>1. RA2(s) = s
        BY <1>11, <2>4 DEF RA2
      <3>2. OfRA2(server, "rand") = OfRA2(server, s.ra2) /\ "rand" \in (Waiting \cup Crypto) \ {"verify"}
        BY <1>11 DEF Waiting
      <3>3. [s EXCEPT !.ra2 = "rand"] = s
        BY <1>3, <1>11 DEF Client
      <3>4. Settled(server, s, w)
        BY <1>1, <1>2, <3>2, <3>3, RA2Turns
      <3> QED BY <3>1, <3>4
    <2> QED BY <2>2, <2>3, <2>4
  <1>12. CASE s.ra2 \in {"key", "hash", "sub"} /\ ~Waits(s, 1)
    <2>1. CASE s.ra2 = "key"
      <3>1. RA2(s) = [Read(s, <<"key">>) EXCEPT !.ra2 = "import"]
        BY <1>12, <2>1 DEF RA2
      <3>2. OfRA2(server, "import") = <<>> /\ "import" \in Crypto /\ OfRA2(server, "key") = <<T("key")>>
        BY DEF OfRA2, Crypto
      <3>3. s.q \o rest = <<T("key")>> \o <<>> /\ <<>> \in Seq(Tokens) /\ s.q # <<>>
        BY <1>3, <1>4, <1>7, <1>8, <1>12, <2>1, <3>2
      <3>4. "import" \in Crypto \cup {"key"}
        BY <3>2
      <3>5. LET t == [Read(s, <<"key">>) EXCEPT !.ra2 = "import"] IN Settled(server, t, w) /\ t.go = s.go
        BY <1>4, <1>6, <3>2, <3>3, <3>4
      <3> QED BY <3>1, <3>5
    <2>2. CASE s.ra2 = "hash"
      <3>1. RA2(s) = [Read(s, <<"hash">>) EXCEPT !.ra2 = "checkhash"]
        BY <1>12, <2>2 DEF RA2
      <3>2. OfRA2(server, "checkhash") = <<sub>> /\ "checkhash" \in Crypto
            /\ OfRA2(server, "hash") = <<T("hash"), sub>>
        BY DEF OfRA2, Crypto, sub
      <3>3. s.q \o rest = <<T("hash")>> \o <<sub>> /\ <<sub>> \in Seq(Tokens) /\ s.q # <<>>
        BY <1>3, <1>4, <1>7, <1>8, <1>12, <2>2, <3>2
      <3>4. "checkhash" \in Crypto \cup {"key"}
        BY <3>2
      <3>5. LET t == [Read(s, <<"hash">>) EXCEPT !.ra2 = "checkhash"] IN Settled(server, t, w) /\ t.go = s.go
        BY <1>4, <1>6, <3>2, <3>3, <3>4
      <3> QED BY <3>1, <3>5
    <2>3. CASE s.ra2 = "sub"
      <3> DEFINE ra2 == IF Head(s.q).v = "user" THEN "receive" ELSE "receive2"
      <3>1. RA2(s) = [Read(s, <<"ra2subtype">>) EXCEPT !.ra2 = ra2]
        BY <1>12, <2>3 DEF RA2
      <3>2. OfRA2(server, ra2) = <<>> /\ ra2 \in Crypto \cup {"key"} /\ OfRA2(server, "sub") = <<sub>>
        BY DEF OfRA2, Crypto, sub
      <3> HIDE DEF ra2
      <3>3. s.q \o rest = <<sub>> \o <<>> /\ <<>> \in Seq(Tokens) /\ s.q # <<>>
        BY <1>3, <1>4, <1>7, <1>8, <1>12, <2>3, <3>2
      <3>4. LET t == [Read(s, <<"ra2subtype">>) EXCEPT !.ra2 = ra2] IN Settled(server, t, w) /\ t.go = s.go
        BY <1>4, <1>6, <3>2, <3>3
      <3> QED BY <3>1, <3>4
    <2> QED BY <1>12, <2>1, <2>2, <2>3
  <1>13. CASE \/ s.ra2 = "creds" /\ ~Lacks(s, UserPassword)
              \/ s.ra2 = "creds2" /\ ~Lacks(s, {"password"})
    <2>1. RA2(s) = [s EXCEPT !.ra2 = "make"]
      BY <1>13 DEF RA2
    <2>2. OfRA2(server, "make") = OfRA2(server, s.ra2) /\ "make" \in (Waiting \cup Crypto) \ {"verify"}
      BY <1>13 DEF OfRA2, Crypto
    <2> QED BY <1>1, <1>2, <2>1, <2>2, RA2Turns
  <1>14. CASE \/ s.ra2 \in {"key", "hash", "sub"} /\ Waits(s, 1)
              \/ s.ra2 = "creds" /\ Lacks(s, UserPassword)
              \/ s.ra2 = "creds2" /\ Lacks(s, {"password"})
              \/ s.ra2 \in Crypto
    <2>1. RA2(s) = s
      BY <1>14 DEF RA2, Crypto
    <2>2. OfRA2(server, s.ra2) = OfRA2(server, s.ra2) /\ s.ra2 \in (Waiting \cup Crypto) \ {"verify"}
      BY <1>14 DEF Waiting, Crypto
    <2>3. [s EXCEPT !.ra2 = s.ra2] = s
      BY <1>3 DEF Client
    <2>4. Settled(server, s, w)
      <3> DEFINE ra2 == s.ra2
      <3>1. ra2 \in (Waiting \cup Crypto) \ {"verify"} /\ OfRA2(server, ra2) = OfRA2(server, s.ra2)
        BY <2>2
      <3>2. [s EXCEPT !.ra2 = ra2] = s
        BY <2>3
      <3> HIDE DEF ra2
      <3>3. Settled(server, [s EXCEPT !.ra2 = ra2], w)
        BY <1>1, <1>2, <3>1, RA2Turns
      <3> QED BY <3>2, <3>3
    <2> QED BY <2>1, <2>4
  <1>15. CASE s.ra2 = "verify"
    <2>1. RA2(s) = s
      BY <1>15 DEF RA2
    <2>2. Base(server, s) /\ ~Quiet(s) /\ (s.conn = "connecting" => s.chan = "open")
      BY <1>1 DEF Ready
    <2>3. Talk(server, s, w)
      BY <1>1, <2>2 DEF Ready, Talk
    <2>4. Dry(s)
      BY <1>2 DEF Dry
    <2> QED BY <2>1, <2>2, <2>3, <2>4 DEF Settled, Ran, Hold
  <1> QED BY <1>3, <1>10, <1>11, <1>12, <1>13, <1>14, <1>15 DEF Waiting

LEMMA RA2neDone ==
    ASSUME NEW server, NEW s, NEW w, NEW rest \in Seq(Tokens), Ready(server, s, w, rest),
           s.init = "Authentication", s.scheme = "RA2ne"
    PROVE  Settled(server, NegotiateRA2neAuth(s), w)
  <1> DEFINE t == IF s.ra2 = "none" THEN [s EXCEPT !.ra2 = "len"] ELSE s
  <1>1. RA2Ready(server, t, w)
    <2>1. CASE s.ra2 = "none"
      <3>1. "len" \in (Waiting \cup Crypto) \ {"verify"} /\ OfRA2(server, "len") = OfRA2(server, s.ra2)
        BY <2>1 DEF Waiting, OfRA2
      <3>2. RA2Ready(server, [s EXCEPT !.ra2 = "len"], w)
        BY <3>1, RA2Turns
      <3> QED BY <2>1, <3>2
    <2>2. CASE s.ra2 # "none"
      <3>1. server \in Peers /\ w \in Seq(Tokens)
        BY DEF Ready
      <3> QED BY <2>2, <3>1 DEF RA2Ready
    <2> QED BY <2>1, <2>2
  <1>2. NegotiateRA2neAuth(s) = Stop(RA2(t))
    BY DEF NegotiateRA2neAuth
  <1> HIDE DEF t
  <1>3. Settled(server, RA2(t), w)
    BY <1>1, RA2Settles
  <1>4. /\ Hold(server, Stop(RA2(t)), w) /\ Stop(RA2(t)).go = FALSE /\ (Alive(Stop(RA2(t))) <=> Alive(RA2(t)))
        /\ (Stale(Stop(RA2(t))) <=> Stale(RA2(t))) /\ (Dry(RA2(t)) => Dry(Stop(RA2(t))))
    BY <1>3, StopHolds DEF Settled, Ran
  <1> QED BY <1>2, <1>3, <1>4 DEF Settled, Ran

\* It says something, and awaits what the server answers.
LEMMA RA2Sends ==
    ASSUME NEW server, NEW s, NEW w, NEW rest \in Seq(Tokens), Ready(server, s, w, rest),
           s.init = "Authentication", s.scheme = "RA2ne", OfRA2(server, s.ra2) = <<>>,
           NEW m \in {"ra2key", "ra2rand", "ra2hash"},
           NEW ra2 \in (Waiting \cup Crypto) \ {"verify"}, OfRA2(server, ra2) = Reply(server, [m |-> m, v |-> "none"])
    PROVE  LET t == [Send(s, m, "none") EXCEPT !.ra2 = ra2]
           IN RA2Ready(server, t, w) /\ t.go = s.go /\ t.ra2 = ra2
  <1> DEFINE msg == [m |-> m, v |-> "none"]
             u == Send(s, m, "none")
             t == [u EXCEPT !.ra2 = ra2]
             r == Reply(server, msg)
  <1>1. s \in Client /\ s.q \o rest = OfRA2(server, s.ra2)
    BY RA2Facts
  <1>2. msg \in Messages /\ m # "type"
    BY DEF Messages, Values
  <1>3. u \in Client /\ Same(s, u, {"out"}) /\ u.out = Sent(s, m, "none")
    BY <1>1, <1>2, SendFacts
  <1> HIDE DEF u
  <1>4. t \in Client
    <2>1. ra2 \in {"none"} \cup Waiting \cup Crypto
      OBVIOUS
    <2> QED BY <1>3, <2>1 DEF Client
  <1>5. Same(u, t, {"ra2"}) /\ t.ra2 = ra2
    BY <1>3 DEF Client, Same, Parts
  <1> HIDE DEF t
  <1>6. s.q = <<>> /\ rest = <<>>
    BY <1>1, NothingLeft
  <1>7. Same(s, t, {"q", "out", "ra2"}) /\ t.q = <<>> /\ t.out = Sent(s, m, "none")
    BY <1>3, <1>5, <1>6 DEF Same, Parts
  <1>8. Mild(s, t)
    BY <1>1, <1>2, <1>4, <1>7, SentIsMild
  <1>9. ra2 \notin {"none", "verify"}
    BY DEF Waiting, Crypto
  <1>10. r \in Seq(Tokens)
    <2> DEFINE sub == V("ra2subtype", server.ra2)
    <2>1. /\ <<T("hash"), sub>> \in Seq(Tokens) /\ <<T("randlength"), T("rand")>> \in Seq(Tokens)
      <3>1. \A k \in {"hash", "randlength", "rand"} : T(k) \in Tokens
        BY TokenFacts DEF FieldKinds
      <3>2. sub \in Tokens
        <4>1. server.ra2 \in Values /\ "ra2subtype" \in FieldKinds
          BY PeerFacts DEF Ready, FieldKinds
        <4> QED BY <4>1, TokenFacts
      <3> QED BY <3>1, <3>2
    <2>2. r \in {<<>>, <<T("hash"), sub>>, <<T("randlength"), T("rand")>>}
      BY DEF Reply
    <2> QED BY <2>1, <2>2, EmptySeq
  <1> HIDE DEF r, msg
  <1>11. t.q \o r = OfRA2(server, t.ra2)
    <2>1. <<>> \o r = r
      BY <1>10, ConcatEmptySeq
    <2> QED BY <1>5, <1>7, <2>1 DEF r, msg
  <1>12. \E msg1 \in Messages : /\ rest = <<>> /\ t.q = <<>> /\ r = Reply(server, msg1)
                                /\ t.out = IF s.chan = "open" THEN Append(s.out, msg1) ELSE s.out
    BY <1>2, <1>6, <1>7 DEF r, msg, Sent
  <1>13. RA2Ready(server, t, w) /\ t.go = s.go
    <2>1. Onward(server, s, t, rest, r)
      BY <1>4, <1>5, <1>7, <1>8, <1>9, <1>10, <1>11, <1>12 DEF Onward
    <2> QED BY <2>1, RA2Moves
  <1> QED BY <1>5, <1>13 DEF t, u

\* It asks the user.
LEMMA RA2AsksHolds ==
    ASSUME NEW server, NEW s, NEW w, NEW rest \in Seq(Tokens), Ready(server, s, w, rest),
           s.init = "Authentication", s.scheme = "RA2ne", OfRA2(server, s.ra2) = <<>>,
           NEW ra2 \in {"verify", "creds", "creds2"}, NEW event \in Requests
    PROVE  LET d == Dispatch([s EXCEPT !.ra2 = ra2], event)
           IN /\ Hold(server, d, w) /\ (Alive(d) => Dry(d)) /\ d.go = s.go
              /\ d.ra2 \in {ra2, "none"} /\ d.creds = s.creds
  <1> DEFINE t == [s EXCEPT !.ra2 = ra2]
             u == Told(t, event)
             d == Dispatch(t, event)
  <1>1. /\ s \in Client /\ Base(server, s) /\ s.inStep /\ Turns(s) /\ Place(server, s) /\ ~Past(s) /\ ~Stale(s)
        /\ ~Owing(s) /\ s.ard = "none" /\ s.q \o rest = OfRA2(server, s.ra2) /\ server \in Peers /\ w \in Seq(Tokens)
        /\ (s.conn = "connecting" => s.chan = "open" /\ Owes(server, s, w, rest))
    BY RA2Facts, ReadyFacts
  <1>2. s.q = <<>> /\ rest = <<>>
    BY <1>1, NothingLeft
  <1>3. t \in Client
    <2>1. ra2 \in {"none"} \cup Waiting \cup Crypto
      BY DEF Waiting
    <2> QED BY <1>1, <2>1 DEF Client
  <1>4. Same(s, t, {"ra2"}) /\ t.ra2 = ra2
    BY <1>1 DEF Client, Same, Parts
  <1> HIDE DEF t
  <1>5. /\ t.conn = s.conn /\ t.init = "Authentication" /\ t.scheme = "RA2ne" /\ t.tight = s.tight
        /\ t.ard = "none" /\ t.asked = s.asked /\ t.resumes = s.resumes /\ t.go = s.go /\ t.creds = s.creds
        /\ t.version = s.version /\ t.chan = s.chan /\ t.q = <<>> /\ t.out = s.out /\ Same(s, t, Streamy)
    BY <1>1, <1>2, <1>4 DEF Same, Parts, Streamy
  <1>6. ~Owing(t) /\ t.resumes = 0
    <2>1. s.resumes \in Nat
      BY <1>1 DEF Client
    <2> QED BY <1>1, <1>5, <2>1 DEF Owing
  <1>7. Turns(t)
    BY <1>4, <1>5, <1>6 DEF Turns, Quiet
  <1>8. Place(server, t)
    BY <1>1, <1>5 DEF Place, Early, Late
  <1>9. Base(server, t)
    BY <1>1, <1>3, <1>5, <1>7, <1>8, MovesBase
  <1>10. event \in Events
    BY DEF Events
  <1>11. /\ u \in Client /\ Same(t, u, {"seen", "late", "asked"}) /\ u.asked = TRUE
         /\ d = IF event = quits THEN Disconnect(u) ELSE u
    BY <1>3, <1>10, ToldFacts
  <1> HIDE DEF u, d
  <1>12. /\ u.conn = s.conn /\ u.q = <<>> /\ u.out = s.out /\ u.init = "Authentication" /\ u.scheme = "RA2ne"
         /\ u.ard = "none" /\ u.ra2 = ra2 /\ u.resumes = 0 /\ u.creds = s.creds /\ u.go = s.go
    BY <1>4, <1>5, <1>6, <1>11 DEF Same, Parts
  <1>13. Turns(u)
    <2>1. u.init \notin Early /\ u.scheme \in Asking
      BY <1>12 DEF Early, Asking
    <2> QED BY <1>11, <1>12, <2>1 DEF Turns, Quiet, Owing
  <1>14. Talk(server, u, w)
    <2>1. OfRA2(server, ra2) = <<>>
      BY DEF OfRA2
    <2>2. <<>> \o <<>> = <<>> /\ <<>> \in Seq(Tokens)
      BY ConcatEmptySeq, EmptySeq
    <2>3. Awaits(server, u, <<>>)
      BY <1>12, <2>1, <2>2 DEF Awaits, Ahead, OfScheme
    <2>4. u.conn = "connecting" => Owes(server, u, w, <<>>)
      BY <1>1, <1>2, <1>12 DEF Owes
    <2> QED BY <2>2, <2>3, <2>4 DEF Talk
  <1>15. Hold(server, d, w) /\ (Alive(d) => Dry(d)) /\ d.go = s.go
    <2>1. /\ Hold(server, Dispatch(t, event), w) /\ (Alive(Dispatch(t, event)) => Dry(Dispatch(t, event)))
          /\ Dispatch(t, event).go = t.go
      <3>1. t.inStep
        BY <1>1, <1>4 DEF Same, Parts
      <3> QED BY <1>1, <1>5, <1>9, <1>13, <1>14, <3>1, AskHolds DEF u
    <2> QED BY <1>5, <2>1 DEF d
  <1>16. d.ra2 \in {ra2, "none"} /\ d.creds = s.creds
    <2>1. CASE event # quits
      BY <1>11, <1>12, <2>1
    <2>2. CASE event = quits
      <3>1. d = Disconnect(u)
        BY <1>11, <2>2
      <3>2. MayEnd(u, d)
        BY <1>11, <3>1, DisconnectFacts
      <3>3. d.creds = u.creds
        <4>1. CASE u.conn \in Open
          <5>1. Same(u, Disconnect(u), {"conn", "grabbed", "attached", "listening", "chan", "timer",
                                        "on", "ra2", "init"})
            BY <1>11, <4>1, DisconnectFacts
          <5> QED BY <3>1, <5>1 DEF Same, Parts
        <4>2. CASE u.conn \notin Open
          <5>1. Same(u, Disconnect(u), {"on", "ra2", "init"})
            BY <1>11, <4>2, DisconnectFacts
          <5> QED BY <3>1, <5>1 DEF Same, Parts
        <4> QED BY <4>1, <4>2
      <3> QED BY <1>12, <3>2, <3>3 DEF MayEnd
    <2> QED BY <2>1, <2>2
  <1> QED BY <1>15, <1>16 DEF d, t

\* It ends without an answer.
LEMMA RA2EndHolds ==
    ASSUME NEW server, NEW s, Base(server, s), s.init = "Authentication", s.scheme = "RA2ne",
           ~Owing(s), s.conn = "disconnected", NEW v
    PROVE  Hold(server, EndRA2(s), v) /\ ~Alive(EndRA2(s)) /\ EndRA2(s).go = s.go
  <1> DEFINE t == EndRA2(s)
  <1>1. /\ s \in Client /\ Legible(s) /\ Conns(s) /\ Turns(s) /\ Place(server, s) /\ Whys(server, s)
        /\ s.conn \in {"disconnecting", "disconnected"} => (s.grabbed => quits = "desktopname" \/ Stale(s))
    BY BaseParts
  <1>2. ~Past(s) /\ ~Stale(s)
    BY <1>1 DEF Conns, Stale
  <1>3. t \in Client /\ Same(s, t, {"ra2", "init"}) /\ t.ra2 = "none" /\ t.init = "SecurityResult"
    BY <1>1, EndRA2Facts
  <1> HIDE DEF t
  <1>4. /\ t.conn = s.conn /\ t.chan = s.chan /\ t.on = s.on /\ t.listening = s.listening
        /\ t.grabbed = s.grabbed /\ t.inStep = s.inStep /\ t.scheme = s.scheme /\ t.tight = s.tight /\ t.ven = s.ven
        /\ t.venLength = s.venLength /\ t.version = s.version /\ t.out = s.out /\ t.ard = s.ard /\ t.go = s.go
        /\ t.why = s.why /\ t.attached = s.attached /\ t.timer = s.timer /\ t.clean = s.clean
        /\ t.seen = s.seen /\ t.asked = s.asked /\ t.resumes = s.resumes /\ t.late = s.late
    BY <1>3 DEF Same, Parts
  <1>5. ~Past(t) /\ ~Stale(t) /\ ~Owing(t) /\ t.ard = "none"
    BY <1>1, <1>2, <1>4 DEF Past, Stale, Owing, Turns
  <1>6. Conns(t)
    BY <1>1, <1>2, <1>3, <1>4, <1>5 DEF Conns
  <1>7. Turns(t)
    BY <1>3, <1>4, <1>5 DEF Turns, Quiet
  <1>8. Place(server, t)
    BY <1>1, <1>3, <1>4 DEF Place, Early, Late
  <1>9. Whys(server, t)
    BY <1>1, <1>4, <1>5 DEF Whys, Because
  <1>10. Base(server, t)
    BY <1>1, <1>2, <1>3, <1>4, <1>6, <1>7, <1>5, <1>8, <1>9 DEF Base, Legible, Cut
  <1>11. ~Alive(t)
    BY <1>3, <1>4, <1>5 DEF Alive
  <1> QED BY <1>4, <1>10, <1>11 DEF Hold, t

\* The misread random fails it, whatever became of the connection meanwhile.
LEMMA GarbledEnds ==
    ASSUME NEW server \in Peers, NEW s, NEW w \in Seq(Tokens), Base(server, s), Heard(server, s), s.ra2 = "garbled"
    PROVE  /\ Hold(server, RA2Continues(s), w) /\ RA2Continues(s).go = FALSE /\ ~Alive(RA2Continues(s))
  <1>1. /\ s \in Client /\ Turns(s) /\ ~Past(s) /\ ~Stale(s) /\ ~Owing(s)
        /\ s.init = "Authentication" /\ s.scheme = "RA2ne"
    BY BaseParts DEF Turns, Conns, Stale
  <1> DEFINE f == Fail(s, "garbled")
  <1>2. RA2Continues(s) = EndRA2(f)
    BY DEF RA2Continues
  <1>3. Because(server, s, "garbled") /\ "garbled" \in Reasons
    BY <1>1 DEF Because, Reasons
  <1>5. Hold(server, f, w) /\ f.go = FALSE
    BY <1>3, FailHolds
  <1>6. s.conn = "disconnected" \/ ~Contains(s.seen, "disconnect")
    <2>1. Standing(s)
      BY <1>1, BaseParts, ConnsStand
    <2> QED BY <1>1, <2>1, StandingSeen
  <1>7. /\ f \in Client /\ MayEnd(s, f)
        /\ f.conn = "disconnected" /\ (Owing(f) <=> Owing(s)) /\ f.scheme = s.scheme
    <2>1. f \in Client /\ MayEnd(s, f)
      BY <1>1, <1>3, <1>6, FailFacts
    <2>2. CASE s.conn = "disconnected"
      <3>1. Same(s, f, {"go", "clean", "why"})
        BY <1>1, <1>3, <1>6, <2>2, FailFacts
      <3> QED BY <2>1, <2>2, <3>1 DEF Same, Parts, Owing
    <2>3. CASE s.conn # "disconnected"
      <3>1. /\ Same(s, f, {"go", "clean", "why", "conn", "grabbed", "attached", "listening", "chan",
                           "timer", "on", "seen", "ra2", "init"})
            /\ f.conn = "disconnected"
        BY <1>1, <1>3, <1>6, <2>3, FailFacts
      <3> QED BY <2>1, <3>1 DEF Same, Parts, Owing
    <2> QED BY <2>2, <2>3
  <1>8. f.init = "Authentication"
    BY <1>1, <1>7 DEF MayEnd, Waiting
  <1> HIDE DEF f
  <1>9. Hold(server, EndRA2(f), w) /\ ~Alive(EndRA2(f)) /\ EndRA2(f).go = f.go
    BY <1>1, <1>5, <1>7, <1>8, RA2EndHolds DEF Hold
  <1> QED BY <1>2, <1>5, <1>9
\* The crypto library has finished.
LEMMA RA2ContinuesHolds ==
    ASSUME NEW server, NEW s, NEW w, NEW rest \in Seq(Tokens), Ready(server, s, w, rest),
           s.init = "Authentication", s.scheme = "RA2ne", s.ra2 \in Crypto, s.go = FALSE
    PROVE  /\ Hold(server, RA2Continues(s), w) /\ RA2Continues(s).go = FALSE
           /\ Alive(RA2Continues(s)) /\ ~Stale(RA2Continues(s)) => Dry(RA2Continues(s))
  <1>1. /\ s \in Client /\ Base(server, s) /\ Turns(s) /\ Place(server, s) /\ ~Past(s) /\ ~Stale(s)
        /\ ~Owing(s) /\ s.ard = "none" /\ s.q \o rest = OfRA2(server, s.ra2) /\ server \in Peers /\ w \in Seq(Tokens)
    BY RA2Facts
  \* What ends in RA2 with something settled.
  <1>2. ASSUME NEW t, RA2Ready(server, t, w), t.go = FALSE
        PROVE  Hold(server, RA2(t), w) /\ RA2(t).go = FALSE /\ (Alive(RA2(t)) /\ ~Stale(RA2(t)) => Dry(RA2(t)))
    BY <1>2, RA2Settles DEF Settled, Ran
  <1>3. CASE s.ra2 = "import"
    <2>1. OfRA2(server, s.ra2) = <<>> /\ "serververification" \in Requests
      BY <1>3 DEF OfRA2, Requests
    <2>2. RA2Continues(s) = Dispatch([s EXCEPT !.ra2 = "verify"], "serververification")
      BY <1>3 DEF RA2Continues
    <2>3. LET d == Dispatch([s EXCEPT !.ra2 = "verify"], "serververification")
          IN Hold(server, d, w) /\ (Alive(d) => Dry(d)) /\ d.go = s.go
      BY <2>1, RA2AsksHolds
    <2> QED BY <2>2, <2>3
  <1>4. CASE s.ra2 = "gen"
    <2> DEFINE u == Send(s, "ra2key", "none")
               t == [Send(u, "ra2rand", "none") EXCEPT !.ra2 = "rand"]
    <2>1. OfRA2(server, s.ra2) = <<>> /\ "gen" \in (Waiting \cup Crypto) \ {"verify"} /\ OfRA2(server, "gen") = <<>>
      BY <1>4 DEF OfRA2, Crypto
    <2>2. Reply(server, [m |-> "ra2key", v |-> "none"]) = <<>>
      BY DEF Reply
    <2>3. [m |-> "ra2key", v |-> "none"] \in Messages
      BY DEF Messages, Values
    <2>4. u \in Client /\ Same(s, u, {"out"})
      BY <1>1, <2>3, SendFacts
    <2>5. [u EXCEPT !.ra2 = "gen"] = u
      <3>1. u.ra2 = "gen"
        BY <1>4, <2>4 DEF Same, Parts
      <3> HIDE DEF u
      <3> QED BY <2>4, <3>1 DEF Client
    <2>6. LET x == [Send(s, "ra2key", "none") EXCEPT !.ra2 = "gen"]
          IN RA2Ready(server, x, w) /\ x.go = s.go /\ x.ra2 = "gen"
      BY <2>1, <2>2, RA2Sends
    <2>7. RA2Ready(server, u, w) /\ u.go = s.go /\ u.ra2 = "gen"
      BY <2>5, <2>6
    <2>8. RA2Continues(s) = RA2(t)
      BY <1>4 DEF RA2Continues
    <2> HIDE DEF u
    <2>9. PICK r \in Seq(Tokens) : Ready(server, u, w, r)
      BY <2>7 DEF RA2Ready
    <2>10. u.init = "Authentication" /\ u.scheme = "RA2ne" /\ OfRA2(server, u.ra2) = <<>>
      BY <2>1, <2>7 DEF RA2Ready
    <2>11. "rand" \in (Waiting \cup Crypto) \ {"verify"} /\ OfRA2(server, "rand") = Reply(server, [m |-> "ra2rand", v |-> "none"])
      BY DEF OfRA2, Waiting, Reply
    <2>12. RA2Ready(server, t, w) /\ t.go = u.go
      BY <2>9, <2>10, <2>11, RA2Sends
    <2> HIDE DEF t
    <2> QED BY <1>2, <2>7, <2>8, <2>12
  <1>5. CASE s.ra2 = "decrypt"
    <2> DEFINE t == [Send(s, "ra2hash", "none") EXCEPT !.ra2 = "hash"]
    <2>1. OfRA2(server, s.ra2) = <<>>
      BY <1>5 DEF OfRA2
    <2>2. "hash" \in (Waiting \cup Crypto) \ {"verify"} /\ OfRA2(server, "hash") = Reply(server, [m |-> "ra2hash", v |-> "none"])
      BY DEF OfRA2, Waiting, Reply
    <2>3. RA2Ready(server, t, w) /\ t.go = s.go
      BY <2>1, <2>2, RA2Sends
    <2>4. RA2Continues(s) = RA2(t)
      BY <1>5 DEF RA2Continues
    <2> HIDE DEF t
    <2> QED BY <1>2, <2>3, <2>4
  <1>6. CASE s.ra2 = "garbled"
    <2>1. Heard(server, s)
      BY DEF Ready, Heard
    <2> QED BY <1>1, <1>6, <2>1, GarbledEnds
  <1>7. CASE s.ra2 = "checkhash"
    <2> DEFINE t == [s EXCEPT !.ra2 = "sub"]
    <2>1. "sub" \in (Waiting \cup Crypto) \ {"verify"} /\ OfRA2(server, "sub") = OfRA2(server, s.ra2)
      BY <1>7 DEF OfRA2, Waiting
    <2>2. RA2Ready(server, t, w) /\ t.go = s.go
      BY <2>1, RA2Turns
    <2>3. RA2Continues(s) = RA2(t)
      BY <1>7 DEF RA2Continues
    <2> HIDE DEF t
    <2> QED BY <1>2, <2>2, <2>3
  <1>8. ASSUME NEW ra2 \in {"creds", "creds2"}, NEW fields, OfRA2(server, s.ra2) = <<>>,
               RA2Continues(s) = RA2Asks(s, ra2, fields),
               fields = IF ra2 = "creds" THEN UserPassword ELSE {"password"}
        PROVE  /\ Hold(server, RA2Continues(s), w) /\ RA2Continues(s).go = FALSE
               /\ Alive(RA2Continues(s)) /\ ~Stale(RA2Continues(s)) => Dry(RA2Continues(s))
    <2> DEFINE t == [s EXCEPT !.ra2 = ra2]
               d == Dispatch(t, "credentialsrequired")
    <2>1. /\ ra2 \in (Waiting \cup Crypto) \ {"verify"} /\ OfRA2(server, ra2) = OfRA2(server, s.ra2)
          /\ "credentialsrequired" \in Requests
      BY <1>8 DEF OfRA2, Waiting, Requests
    <2>2. RA2Ready(server, t, w) /\ t.go = s.go
      BY <2>1, RA2Turns
    <2>3. RA2Continues(s) = RA2(IF Lacks(s, fields) THEN d ELSE t)
      BY <1>8 DEF RA2Asks
    <2>4. /\ Hold(server, d, w) /\ (Alive(d) => Dry(d)) /\ d.go = s.go
          /\ d.ra2 \in {ra2, "none"} /\ d.creds = s.creds
      <3>1. OfRA2(server, s.ra2) = <<>> /\ ra2 \in {"verify", "creds", "creds2"}
        BY <1>8
      <3>2. \A event \in Requests :
              LET e == Dispatch([s EXCEPT !.ra2 = ra2], event)
              IN /\ Hold(server, e, w) /\ (Alive(e) => Dry(e)) /\ e.go = s.go
                 /\ e.ra2 \in {ra2, "none"} /\ e.creds = s.creds
        BY <3>1, RA2AsksHolds
      <3> QED BY <2>1, <3>2
    <2> HIDE DEF t, d
    <2>5. CASE Lacks(s, fields)
      <3>1. Lacks(d, fields)
        BY <2>4, <2>5 DEF Lacks
      <3>2. RA2(d) = d
        <4>1. CASE d.ra2 = "none"
          BY <4>1 DEF RA2
        <4>2. CASE d.ra2 = ra2
          BY <1>8, <3>1, <4>2 DEF RA2
        <4> QED BY <2>4, <4>1, <4>2
      <3> QED BY <2>3, <2>4, <2>5, <3>2
    <2>6. CASE ~Lacks(s, fields)
      BY <1>2, <2>2, <2>3, <2>6
    <2> QED BY <2>5, <2>6
  <1>10. CASE s.ra2 \in {"receive", "receive2"}
    <2> DEFINE ra2 == IF s.ra2 = "receive" THEN "creds" ELSE "creds2"
               fields == IF ra2 = "creds" THEN UserPassword ELSE {"password"}
    <2>1. OfRA2(server, s.ra2) = <<>> /\ ra2 \in {"creds", "creds2"}
      BY <1>10 DEF OfRA2
    <2>2. RA2Continues(s) = RA2Asks(s, ra2, fields)
      BY <1>10 DEF RA2Continues
    <2> HIDE DEF ra2
    <2> QED BY <1>8, <2>1, <2>2
  <1>9. CASE s.ra2 = "make"
    <2> DEFINE u == Send(s, "creds", "none")
               x == EndRA2(u)
               msg == [m |-> "creds", v |-> "none"]
    <2>1. s.q = <<>> /\ rest = <<>>
      <3>1. OfRA2(server, s.ra2) = <<>>
        BY <1>9 DEF OfRA2
      <3> QED BY <1>1, <3>1, NothingLeft
    <2>2. RA2Continues(s) = x
      BY <1>9 DEF RA2Continues
    <2>3. msg \in Messages
      BY DEF Messages, Values
    <2>4. u \in Client /\ Same(s, u, {"out"}) /\ u.out = Sent(s, "creds", "none")
      BY <1>1, <2>3, SendFacts
    <2> HIDE DEF u
    <2>5. x \in Client /\ Same(u, x, {"ra2", "init"}) /\ x.ra2 = "none" /\ x.init = "SecurityResult"
      BY <2>4, EndRA2Facts
    <2> HIDE DEF x
    <2>6. /\ Same(s, x, Streamy) /\ x.q = <<>> /\ x.scheme = "RA2ne" /\ x.ard = "none" /\ x.tight = s.tight
          /\ x.version = s.version /\ x.ven = s.ven /\ x.go = FALSE
          /\ x.out = IF s.chan = "open" THEN Append(s.out, msg) ELSE s.out
      BY <1>1, <2>1, <2>4, <2>5 DEF Same, Parts, Streamy, Sent
    <2>7. Turns(x)
      BY <2>5, <2>6, TurnsKept
    <2>8. Place(server, x)
      BY <1>1, <2>5, <2>6 DEF Place, Early, Late
    <2>9. Reply(server, msg) = Result(server)
      BY DEF Reply
    <2> HIDE DEF msg
    <2>10. Result(server) \in Seq(Tokens) /\ <<>> \o Result(server) = Result(server)
      BY <1>1, ResultFacts, ConcatEmptySeq
    <2>11. Awaits(server, x, Result(server))
      BY <2>5, <2>6, <2>10 DEF Awaits, Ahead
    <2>12. Ran(server, x, w)
      <3>1. \E msg1 \in Messages : /\ rest = <<>> /\ x.q = <<>> /\ Result(server) = Reply(server, msg1)
                                   /\ x.out = IF s.chan = "open" THEN Append(s.out, msg1) ELSE s.out
        BY <2>1, <2>3, <2>6, <2>9
      <3> QED BY <1>1, <2>5, <2>6, <2>7, <2>8, <2>10, <2>11, <3>1, MovesRun
    <2>13. Dry(x)
      BY <2>5, <2>6 DEF Dry
    <2> QED BY <2>2, <2>6, <2>12, <2>13 DEF Ran
  <1> QED BY <1>3, <1>4, <1>5, <1>6, <1>7, <1>9, <1>10 DEF Crypto
\* The queue, the messages to the server and the loop's flag are no part of Base.
LEMMA FrameBase ==
    ASSUME NEW server, NEW s, Base(server, s), NEW t \in Client, Same(s, t, {"q", "out", "go"}), Mild(s, t)
    PROVE  /\ Base(server, t) /\ (Alive(t) <=> Alive(s)) /\ (Stale(t) <=> Stale(s))
           /\ (Quiet(t) <=> Quiet(s)) /\ (Owing(t) <=> Owing(s))
  <1>1. /\ s \in Client /\ Legible(s) /\ Conns(s) /\ Turns(s) /\ Place(server, s) /\ Whys(server, s)
        /\ s.conn \in {"disconnecting", "disconnected"} => (s.grabbed => quits = "desktopname" \/ Stale(s))
    BY BaseParts
  <1>2. /\ t.conn = s.conn /\ t.init = s.init /\ t.scheme = s.scheme /\ t.tight = s.tight
        /\ t.ven = s.ven /\ t.venLength = s.venLength /\ t.ard = s.ard /\ t.ra2 = s.ra2 /\ t.asked = s.asked
        /\ t.resumes = s.resumes /\ t.creds = s.creds /\ t.version = s.version
        /\ t.chan = s.chan /\ t.on = s.on /\ t.listening = s.listening /\ t.grabbed = s.grabbed
        /\ t.inStep = s.inStep /\ t.why = s.why /\ t.attached = s.attached /\ t.timer = s.timer
        /\ t.clean = s.clean /\ t.seen = s.seen /\ t.late = s.late
    BY DEF Same, Parts
  <1>3. /\ (Owing(t) <=> Owing(s)) /\ (Quiet(t) <=> Quiet(s)) /\ (Past(t) <=> Past(s))
        /\ \A fields : Lacks(t, fields) <=> Lacks(s, fields)
    BY <1>2 DEF Owing, Quiet, Lacks, Past
  <1>4. (Stale(t) <=> Stale(s)) /\ (Alive(t) <=> Alive(s))
    BY <1>2, <1>3 DEF Stale, Alive
  <1>5. Conns(t)
    BY <1>1, <1>2, <1>3, <1>4 DEF Conns
  <1>6. Turns(t)
    BY <1>1, <1>2, <1>3 DEF Turns
  <1>7. Place(server, t)
    <2>1. Untight(server, s) => Untight(server, t)
      BY StaysUntight
    <2> QED BY <1>1, <1>2, <2>1 DEF Place
  <1>8. Whys(server, t)
    BY <1>1, <1>2, <1>3 DEF Whys, Because
  <1> QED BY <1>1, <1>2, <1>3, <1>4, <1>5, <1>6, <1>7, <1>8 DEF Base, Legible, Cut

\* What a connection that comes up is made of.
LEMMA ConnectingFacts ==
    ASSUME NEW server, NEW s, Base(server, s), s.conn = "connecting"
    PROVE  /\ s \in Client /\ Conns(s) /\ Turns(s) /\ Place(server, s) /\ ~Past(s) /\ ~Stale(s) /\ Alive(s)
           /\ (s.ra2 # "garbled" => s.inStep) /\ (s.init = "none" <=> s.chan = "connecting") /\ s.chan \in {"connecting", "open"}
           /\ (Owing(s) /\ ~Quiet(s) => s.scheme = "ARD")
  <1>1. s \in Client /\ Conns(s) /\ Turns(s) /\ Place(server, s) /\ Legible(s)
    BY BaseParts
  <1>2. s.seen = <<>> /\ (s.init = "none" <=> s.chan = "connecting") /\ s.chan \in {"connecting", "open"}
    BY <1>1 DEF Conns
  <1>3. ~Past(s) /\ ~Stale(s)
    BY <1>2, SeenFacts DEF Past, Stale
  <1>4. s.ra2 # "garbled" => s.inStep
    BY <1>1, <1>3 DEF Legible, Cut
  <1> QED BY <1>1, <1>2, <1>3, <1>4 DEF Alive, Quiet

\* ServerInit, and what a server that was asked for "Tight" adds to it.
InitKinds(s) == <<"size", "name">> \o IF s.tight THEN <<"tightinit", "tightcaps">> ELSE <<>>
LEMMA InitKindsFacts ==
    ASSUME NEW s, s.tight \in BOOLEAN
    PROVE  /\ InitKinds(s) \in Seq(FieldKinds) /\ Len(InitKinds(s)) = IF s.tight THEN 4 ELSE 2
           /\ InitKinds(s)[1] = "size" /\ InitKinds(s)[2] = "name"
           /\ s.tight => InitKinds(s)[3] = "tightinit" /\ InitKinds(s)[4] = "tightcaps"
           /\ NegotiateServerInit(s) = IF Waits(s, Len(InitKinds(s))) THEN Stop(s) ELSE Session(Read(s, InitKinds(s)))
  <1>1. CASE s.tight
    <2>1. InitKinds(s) = <<"size", "name">> \o <<"tightinit", "tightcaps">>
      BY <1>1 DEF InitKinds
    <2>2. /\ InitKinds(s) \in Seq(FieldKinds) /\ Len(InitKinds(s)) = 4
          /\ InitKinds(s)[1] = "size" /\ InitKinds(s)[2] = "name"
          /\ InitKinds(s)[3] = "tightinit" /\ InitKinds(s)[4] = "tightcaps"
      <3>1. {"size", "name", "tightinit", "tightcaps"} \subseteq FieldKinds
        BY DEF FieldKinds
      <3> QED BY <2>1, <3>1
    <2> QED BY <1>1, <2>2 DEF NegotiateServerInit, Session, InitKinds
  <1>2. CASE ~s.tight
    <2>1. InitKinds(s) = <<"size", "name">>
      BY <1>2 DEF InitKinds
    <2>2. /\ InitKinds(s) \in Seq(FieldKinds) /\ Len(InitKinds(s)) = 2
          /\ InitKinds(s)[1] = "size" /\ InitKinds(s)[2] = "name"
      BY <2>1 DEF FieldKinds
    <2> QED BY <1>2, <2>2 DEF NegotiateServerInit, Session, InitKinds
  <1> QED BY <1>1, <1>2

LEMMA ServerInitDone ==
    ASSUME NEW server \in Peers, NEW s, NEW w \in Seq(Tokens), Hold(server, s, w),
           s.conn = "connecting", s.chan = "open", ~Quiet(s), s.init = "ServerInitialisation"
    PROVE  Done(server, NegotiateServerInit(s), w)
  <1> DEFINE kinds == InitKinds(s)
             t == Read(s, kinds)
             all == Reply(server, ServerInit)
  <1>1. /\ s \in Client /\ Conns(s) /\ Turns(s) /\ Place(server, s) /\ ~Past(s) /\ ~Stale(s) /\ Alive(s)
        /\ Base(server, s) /\ (Owing(s) => s.scheme = "ARD")
    BY ConnectingFacts DEF Hold
  <1>2. s.tight \in BOOLEAN /\ s.q \in Seq(Tokens) /\ Len(s.q) \in Nat
    BY <1>1 DEF Client
  <1>3. /\ kinds \in Seq(FieldKinds) /\ Len(kinds) = IF s.tight THEN 4 ELSE 2
        /\ kinds[1] = "size" /\ kinds[2] = "name"
        /\ s.tight => kinds[3] = "tightinit" /\ kinds[4] = "tightcaps"
        /\ NegotiateServerInit(s) = IF Waits(s, Len(kinds)) THEN Stop(s) ELSE Session(t)
    BY <1>2, InitKindsFacts
  <1>4. PICK rest \in Seq(Tokens) : s.q \o rest = all
    BY <1>1 DEF Hold, Talk, Awaits, Ahead
  <1>5. /\ all \in Seq(Tokens) /\ Len(all) = (IF server.tight THEN 4 ELSE 2)
        /\ all[1].k = "size" /\ all[2].k = "name"
        /\ server.tight => all[3].k = "tightinit" /\ all[4].k = "tightcaps"
    BY ServerInitFacts
  <1> HIDE DEF all, kinds
  <1>6. CASE Waits(s, Len(kinds))
    <2>1. Dry(s)
      BY <1>3, <1>6 DEF Waits, Dry
    <2>2. Hold(server, Stop(s), w) /\ Stop(s).go = FALSE /\ Dry(Stop(s))
      BY <2>1, StopHolds
    <2> QED BY <1>3, <1>6, <2>2 DEF Done, Ran
  <1>7. CASE ~Waits(s, Len(kinds))
    <2>1. Len(kinds) <= Len(s.q)
      BY <1>2, <1>3, <1>7 DEF Waits
    <2>2. Len(s.q) + Len(rest) = Len(all) /\ Len(rest) \in Nat
      BY <1>2, <1>4, ConcatProperties
    <2>3. s.tight => server.tight
      BY <1>2, <1>3, <1>5, <2>1, <2>2
    <2>4. \A i \in 1 .. Len(kinds) : all[i].k = kinds[i]
      <3>1. CASE s.tight
        <4>1. 1 .. Len(kinds) = {1, 2, 3, 4}
          BY <1>3, <3>1
        <4> QED BY <1>3, <1>5, <2>3, <3>1, <4>1
      <3>2. CASE ~s.tight
        <4>1. 1 .. Len(kinds) = {1, 2}
          BY <1>3, <3>2
        <4> QED BY <1>3, <1>5, <4>1
      <3> QED BY <3>1, <3>2
    <2>5. /\ t \in Client /\ Same(s, t, {"q"}) /\ Len(t.q) = Len(s.q) - Len(kinds)
      BY <1>1, <1>3, <1>4, <2>1, <2>4, ReadFacts
    <2> HIDE DEF t
    <2>6. t.conn = "connecting" /\ t.chan = "open" /\ t.init = "ServerInitialisation" /\ Same(s, t, {"q", "out", "go"})
          /\ t.out = s.out
      BY <2>5 DEF Same, Parts
    <2>7. Base(server, t) /\ (Owing(t) <=> Owing(s))
      <3>1. Mild(s, t)
        BY <2>6 DEF Mild
      <3> QED BY <1>1, <2>5, <2>6, <3>1, FrameBase
    <2>8. Owing(t) => t.q = <<>>
      <3>1. SUFFICES ASSUME Owing(t) PROVE t.q = <<>>
        OBVIOUS
      <3>2. s.scheme = "ARD"
        BY <1>1, <2>7, <3>1
      <3>3. ~s.tight /\ ~server.tight
        BY <1>1, <3>2 DEF Place, Untight
      <3>4. Len(t.q) <= 0
        <4>1. Len(kinds) = 2 /\ Len(all) = 2
          BY <1>3, <1>5, <3>3
        <4> QED BY <1>2, <2>2, <2>5, <4>1
      <3>5. t.q \in Seq(Tokens)
        BY <2>5 DEF Client
      <3> QED BY <3>4, <3>5, EmptySeq
    <2>9. Hold(server, Session(t), w) /\ Session(t).conn # "connecting"
          /\ (Alive(Session(t)) /\ ~Stale(Session(t)) => Dry(Session(t)))
      BY <2>6, <2>7, <2>8, FreshSession
    <2> QED BY <1>3, <1>7, <2>9 DEF Done, Ran
  <1> QED BY <1>6, <1>7
\* One message of the handshake.
LEMMA InitMsgDone ==
    ASSUME NEW server \in Peers, NEW s, NEW w \in Seq(Tokens), Hold(server, s, w), Honest(server),
           s.conn = "connecting", s.chan = "open", ~Quiet(s), s.ra2 # "garbled"
    PROVE  Done(server, InitMsg(s), w)
  <1>1. /\ s \in Client /\ Conns(s) /\ Turns(s) /\ Place(server, s) /\ ~Past(s) /\ ~Stale(s) /\ Alive(s) /\ s.inStep
        /\ Base(server, s) /\ s.init # "none"
    BY ConnectingFacts DEF Hold
  <1>2. s.init \in InitStates /\ s.scheme \in Types \cup {"none", "UnixLogon"}
    BY <1>1 DEF Client
  <1>3. PICK rest \in Seq(Tokens) : Awaits(server, s, rest) /\ Owes(server, s, w, rest)
    BY <1>1 DEF Hold, Talk
  <1>4. CASE s.init = "ServerInitialisation"
    BY <1>4, ServerInitDone DEF InitMsg
  <1>5. CASE s.init # "ServerInitialisation"
    <2>1. Ready(server, s, w, rest)
      BY <1>1, <1>3, <1>5 DEF Ready
    <2>2. CASE s.init = "ProtocolVersion"
      BY <2>1, <2>2, VersionDone DEF InitMsg
    <2>3. CASE s.init = "Security"
      <3>1. Done(server, NegotiateSecurity(s), w)
        BY <2>1, <2>3, SecurityListDone, SecuritySchemeDone
      <3> QED BY <2>3, <3>1 DEF InitMsg
    <2>4. CASE s.init = "SecurityResult"
      BY <2>1, <2>4, ResultDone DEF InitMsg
    <2>5. CASE s.init = "SecurityReason"
      BY <2>1, <2>5, ReasonDone DEF InitMsg
    <2>6. CASE s.init = "ClientInitialisation"
      BY <2>1, <2>6, ClientInitDone DEF InitMsg
    <2>7. CASE s.init = "Authentication"
      <3> DEFINE d == NegotiateAuthentication(s)
      <3>1. s.scheme # "none" /\ InitMsg(s) = d
        BY <1>1, <2>7 DEF Place, InitMsg
      <3>2. \A x : Settled(server, x, w) => Done(server, x, w)
        BY DEF Settled, Done
      <3>3. CASE s.scheme = "None"
        BY <2>1, <2>7, <3>1, <3>3, NoneDone DEF NegotiateAuthentication
      <3>4. CASE s.scheme = "XVP"
        BY <2>1, <2>7, <3>1, <3>2, <3>4, XvpSettles DEF NegotiateAuthentication
      <3>5. CASE s.scheme = "ARD"
        BY <2>1, <2>7, <3>1, <3>2, <3>5, ARDSettles DEF NegotiateAuthentication
      <3>6. CASE s.scheme = "VNCAuth"
        BY <2>1, <2>7, <3>1, <3>2, <3>6, StdVNCSettles DEF NegotiateAuthentication
      <3>7. CASE s.scheme = "Tight"
        BY <2>1, <2>7, <3>1, <3>7, TightDone DEF NegotiateAuthentication
      <3>8. CASE s.scheme = "VeNCrypt"
        <4>1. VeNReady(server, s, w)
          BY <2>1, <2>7, <3>8 DEF VeNReady
        <4>2. Done(server, NegotiateVeNCryptAuth(s), w)
          BY <4>1, VeNCryptDone
        <4> QED BY <3>1, <3>8, <4>2 DEF NegotiateAuthentication
      <3>9. CASE s.scheme = "Plain"
        BY <2>1, <2>7, <3>1, <3>2, <3>9, PlainSettles DEF NegotiateAuthentication, NegotiatePlainAuth
      <3>10. CASE s.scheme = "UnixLogon"
        BY <2>1, <2>7, <3>1, <3>2, <3>10, PlainSettles DEF NegotiateAuthentication, NegotiateTightUnixAuth
      <3>11. CASE s.scheme = "RA2ne"
        BY <2>1, <2>7, <3>1, <3>2, <3>11, RA2neDone DEF NegotiateAuthentication
      <3>12. CASE s.scheme = "MSLogonII"
        BY <2>1, <2>7, <3>1, <3>2, <3>12, MSLogonIISettles DEF NegotiateAuthentication
      <3>13. CASE s.scheme = "unknown"
        BY <2>1, <2>7, <3>1, <3>13, UnknownDone DEF NegotiateAuthentication
      <3>14. s.scheme \in {"None", "XVP", "ARD", "VNCAuth", "Tight", "VeNCrypt", "Plain", "UnixLogon",
                           "RA2ne", "MSLogonII", "unknown"}
        BY <1>2, <3>1 DEF Types, Schemes
      <3> HIDE DEF d
      <3> QED BY <3>1, <3>3, <3>4, <3>5, <3>6, <3>7, <3>8, <3>9, <3>10, <3>11, <3>12, <3>13, <3>14 DEF d
    <2> QED BY <1>1, <1>2, <1>5, <2>2, <2>3, <2>4, <2>5, <2>6, <2>7 DEF InitStates
  <1> QED BY <1>4, <1>5

\* The loop goes round while there is something to do.
LEMMA InitStepHolds ==
    ASSUME NEW server \in Peers, NEW s, NEW w \in Seq(Tokens), Hold(server, s, w), Honest(server),
           s.conn = "connecting", s.chan = "open", ~Quiet(s)
    PROVE  LET t == InitMsg(s)
               d == [t EXCEPT !.go = @ /\ t.conn = "connecting"]
           IN /\ Hold(server, d, w)
              /\ d.go => d.conn = "connecting" /\ d.chan = "open" /\ ~Quiet(d)
              /\ ~d.go /\ Alive(d) /\ ~Stale(d) => Dry(d)
  <1> DEFINE t == InitMsg(s)
             d == [t EXCEPT !.go = @ /\ t.conn = "connecting"]
  <1>1. Done(server, t, w)
    <2>1. CASE s.ra2 # "garbled"
      BY <2>1, InitMsgDone
    <2>2. CASE s.ra2 = "garbled"
      <3>1. s \in Client /\ s.init = "Authentication" /\ s.scheme = "RA2ne"
        BY <2>2, BaseParts DEF Hold, Turns
      <3>2. RA2(s) = s
        BY <2>2 DEF RA2
      <3>3. t = Stop(s)
        BY <2>2, <3>1, <3>2 DEF InitMsg, NegotiateAuthentication, NegotiateRA2neAuth
      <3>4. Dry(s)
        BY <3>1 DEF Dry
      <3> HIDE DEF t
      <3>5. Hold(server, t, w) /\ t.go = FALSE /\ Dry(t)
        BY <3>3, <3>4, StopHolds
      <3> QED BY <3>5 DEF Done, Ran
    <2> QED BY <2>1, <2>2
  <1> HIDE DEF t
  <1>2. t \in Client /\ Hold(server, t, w)
    BY <1>1 DEF Done, Ran, Hold, Base
  <1>3. CASE t.go /\ t.conn = "connecting"
    <2>1. d = t
      BY <1>2, <1>3 DEF Client
    <2> QED BY <1>1, <1>3, <2>1 DEF Done, Ran, t
  <1>4. CASE ~(t.go /\ t.conn = "connecting")
    <2>1. d = Stop(t)
      BY <1>2, <1>4 DEF Client, Stop
    <2>2. /\ Hold(server, Stop(t), w) /\ Stop(t).go = FALSE /\ (Alive(Stop(t)) <=> Alive(t))
          /\ (Stale(Stop(t)) <=> Stale(t)) /\ (Dry(t) => Dry(Stop(t)))
      BY <1>2, StopHolds
    <2>3. Alive(t) /\ ~Stale(t) => Dry(t)
      BY <1>1, <1>4 DEF Done
    <2> QED BY <2>1, <2>2, <2>3 DEF t
  <1> QED BY <1>3, <1>4
----------------------------------------------------------------------------
(***************************************************************************)
(* The steps, one by one.                                                  *)
(***************************************************************************)

LEMMA OpensHolds ==
    ASSUME NEW server \in Peers, NEW s, NEW w \in Seq(Tokens), Hold(server, s, w), s.chan = "connecting"
    PROVE  LET t == [s EXCEPT !.chan = "open"]
               d == IF "open" \in s.on THEN SocketOpen(t) ELSE t
           IN Hold(server, d, w) /\ d.go = s.go /\ Dry(d)
  <1> DEFINE t == [s EXCEPT !.chan = "open"]
             u == [t EXCEPT !.init = "ProtocolVersion"]
             d == IF "open" \in s.on THEN SocketOpen(t) ELSE t
  <1>1. s \in Client /\ Conns(s) /\ Base(server, s)
    BY DEF Hold, Base
  <1>2. s.conn = "connecting"
    BY <1>1 DEF Conns, Client
  <1>3. /\ Turns(s) /\ Place(server, s) /\ Whys(server, s) /\ ~Past(s) /\ ~Stale(s) /\ Alive(s)
        /\ s.init = "none" /\ s.on = {"open", "message", "close"}
    BY <1>1, <1>2, ConnectingFacts, BaseParts DEF Conns
  <1>4. d = u
    BY <1>1, <1>2, <1>3 DEF SocketOpen, Client
  <1>5. u \in Client
    <2>1. "ProtocolVersion" \in InitStates
      BY DEF InitStates
    <2> QED BY <1>1, <2>1 DEF Client
  <1>6. Same(s, u, {"chan", "init"}) /\ u.chan = "open" /\ u.init = "ProtocolVersion"
    BY <1>1 DEF Client, Same, Parts
  <1> HIDE DEF d, u
  <1>7. /\ u.conn = s.conn /\ u.q = s.q /\ u.out = s.out /\ u.scheme = s.scheme /\ u.tight = s.tight
        /\ u.ven = s.ven /\ u.venLength = s.venLength /\ u.ard = s.ard /\ u.ra2 = s.ra2 /\ u.asked = s.asked
        /\ u.resumes = s.resumes /\ u.creds = s.creds /\ u.version = s.version
        /\ u.on = s.on /\ u.listening = s.listening /\ u.grabbed = s.grabbed
        /\ u.inStep = s.inStep /\ u.why = s.why /\ u.attached = s.attached /\ u.timer = s.timer
        /\ u.clean = s.clean /\ u.seen = s.seen /\ u.late = s.late /\ u.go = s.go
    BY <1>6 DEF Same, Parts
  <1>8. ~Owing(s) /\ s.ard = "none" /\ s.ra2 = "none"
    BY <1>3 DEF Turns, Early
  <1>17. u.inStep
    BY <1>1, <1>2, <1>7, <1>8, ConnectingFacts
  <1>9. ~Owing(u) /\ ~Quiet(u) /\ ~Past(u) /\ ~Stale(u)
    BY <1>3, <1>7, <1>8 DEF Owing, Quiet, Past, Stale
  <1>10. Conns(u)
    BY <1>1, <1>2, <1>6, <1>7, <1>9 DEF Conns
  <1>11. Turns(u)
    BY <1>7, <1>8, <1>9 DEF Turns, Owing
  <1>12. Place(server, u)
    BY <1>3, <1>6, <1>7 DEF Place, Early, Late, Untight
  <1>13. Whys(server, u)
    <2>1. s.why = "none"
      BY <1>1, <1>2 DEF Conns
    <2>2. Because(server, u, "none")
      BY DEF Because
    <2> QED BY <1>7, <1>9, <2>1, <2>2 DEF Whys
  <1>14. Talk(server, u, w)
    <2>1. PICK rest \in Seq(Tokens) : Awaits(server, s, rest) /\ Owes(server, s, w, rest)
      BY <1>2, <1>3 DEF Hold, Talk
    <2>2. Awaits(server, u, rest)
      BY <1>3, <1>6, <1>7, <2>1 DEF Awaits
    <2>3. Owes(server, u, w, rest)
      BY <1>7, <2>1 DEF Owes
    <2> QED BY <1>9, <2>2, <2>3 DEF Talk
  <1>15. Hold(server, u, w)
    BY <1>2, <1>3, <1>5, <1>7, <1>10, <1>11, <1>12, <1>13, <1>14, <1>17 DEF Hold, Base, Legible
  <1>16. Dry(u)
    BY <1>6 DEF Dry
  <1> QED BY <1>4, <1>7, <1>15, <1>16 DEF d, u

\* A part of the stream arrives.
LEMMA DeliverHolds ==
    ASSUME NEW server \in Peers, NEW s, NEW w \in Seq(Tokens), Hold(server, s, w),
           NEW n \in 1 .. Len(w), s.listening, s.chan = "open"
    PROVE  LET d == [s EXCEPT !.q = @ \o SubSeq(w, 1, n),
                              !.go = "message" \in s.on /\ s.conn = "connecting"]
           IN /\ Hold(server, d, SubSeq(w, n + 1, Len(w)))
              /\ d.go => d.conn = "connecting" /\ d.chan = "open" /\ ~Quiet(d)
              /\ ~d.go => ~Alive(d) \/ Stale(d)
  <1> DEFINE x == SubSeq(w, 1, n)
             v == SubSeq(w, n + 1, Len(w))
             q == s.q \o x
             go == "message" \in s.on /\ s.conn = "connecting"
             d == [s EXCEPT !.q = q, !.go = go]
  <1>1. s \in Client /\ Conns(s) /\ Base(server, s)
    BY DEF Hold, Base
  <1>2. s.q \in Seq(Tokens) /\ Len(w) \in Nat /\ n \in Nat /\ n >= 1 /\ n <= Len(w)
    BY <1>1 DEF Client
  <1>3. x \in Seq(Tokens) /\ v \in Seq(Tokens) /\ x \o v = w
    <2>1. x \in Seq(Tokens) /\ Len(x) = n /\ \A i \in 1 .. n : x[i] = w[i]
      BY <1>2, SubSeqProperties
    <2>2. v \in Seq(Tokens) /\ Len(v) = Len(w) - n /\ \A i \in 1 .. (Len(w) - n) : v[i] = w[n + i]
      BY <1>2, SubSeqProperties
    <2> HIDE DEF x, v
    <2>3. /\ x \o v \in Seq(Tokens) /\ Len(x \o v) = Len(w)
          /\ \A i \in 1 .. Len(w) : (x \o v)[i] = w[i]
      <3>1. /\ x \o v \in Seq(Tokens) /\ Len(x \o v) = Len(x) + Len(v)
            /\ \A i \in 1 .. Len(x) + Len(v) : (x \o v)[i] = IF i <= Len(x) THEN x[i] ELSE v[i - Len(x)]
        BY <2>1, <2>2, ConcatProperties
      <3>2. ASSUME NEW i \in 1 .. Len(w) PROVE (x \o v)[i] = w[i]
        <4>1. i \in 1 .. Len(x) + Len(v)
          BY <1>2, <2>1, <2>2
        <4>2. CASE i <= n
          BY <2>1, <3>1, <4>1, <4>2
        <4>3. CASE ~(i <= n)
          <5>1. i - n \in 1 .. (Len(w) - n) /\ n + (i - n) = i
            BY <1>2, <4>3
          <5> QED BY <2>1, <2>2, <3>1, <4>1, <4>3, <5>1
        <4> QED BY <4>2, <4>3
      <3> QED BY <1>2, <2>1, <2>2, <3>1, <3>2
    <2> QED BY <2>1, <2>2, <2>3, SeqEqual
  <1>4. w # <<>>
    BY <1>2
  <1> HIDE DEF x, v
  <1>5. q \in Seq(Tokens) /\ q \o v = s.q \o w
    <2>1. q \in Seq(Tokens)
      BY <1>2, <1>3, ConcatProperties
    <2>2. q \o v = s.q \o (x \o v)
      BY <1>2, <1>3, ConcatThree
    <2> QED BY <1>3, <2>1, <2>2
  <1>6. d \in Client /\ Same(s, d, {"q", "go"}) /\ d.q = q /\ d.go = go
    <2>1. go \in BOOLEAN
      OBVIOUS
    <2> HIDE DEF q, go
    <2>2. d \in Client
      BY <1>1, <1>5, <2>1 DEF Client
    <2>3. Same(s, d, {"q", "go"}) /\ d.q = q /\ d.go = go
      BY <1>1 DEF Client, Same, Parts
    <2> QED BY <2>2, <2>3
  <1> HIDE DEF d, q
  <1>7. /\ Same(s, d, {"q", "out", "go"}) /\ d.conn = s.conn /\ d.init = s.init /\ d.out = s.out
        /\ d.scheme = s.scheme /\ d.ra2 = s.ra2 /\ d.ven = s.ven /\ d.ard = s.ard /\ d.tight = s.tight /\ d.chan = s.chan
    BY <1>6 DEF Same, Parts
  <1>8. /\ Base(server, d) /\ (Alive(d) <=> Alive(s)) /\ (Stale(d) <=> Stale(s))
        /\ (Quiet(d) <=> Quiet(s))
    <2>1. Mild(s, d)
      BY <1>7 DEF Mild
    <2> QED BY <1>1, <1>6, <1>7, <2>1, FrameBase
  <1>9. CASE s.conn = "connecting"
    <2>1. go = TRUE
      BY <1>1, <1>9 DEF Conns
    <2>2. Alive(s) /\ ~Stale(s)
      BY <1>1, <1>9, ConnectingFacts
    <2>3. PICK rest \in Seq(Tokens) : Awaits(server, s, rest) /\ Owes(server, s, w, rest) /\ (Quiet(s) => rest = <<>>)
      BY <1>9, <2>2 DEF Hold, Talk
    <2>4. s.out = <<>> /\ rest = w /\ ~Quiet(s)
      BY <1>4, <2>3 DEF Owes
    <2>5. Awaits(server, d, v)
      BY <1>5, <1>6, <1>7, <2>3, <2>4 DEF Awaits, Ahead, OfScheme
    <2>6. Owes(server, d, v, v)
      <3>1. d.out = <<>>
        BY <1>7, <2>4
      <3>2. Len(d.out) = 0
        BY <3>1
      <3> QED BY <3>1, <3>2 DEF Owes
    <2>7. Talk(server, d, v)
      BY <1>3, <1>8, <2>4, <2>5, <2>6 DEF Talk
    <2> QED BY <1>6, <1>7, <1>8, <1>9, <2>1, <2>4, <2>7 DEF Hold, d, q, v, x
  <1>10. CASE s.conn # "connecting"
    <2>1. s.conn = "connected"
      BY <1>1, <1>10 DEF Conns, Client
    <2>2. ~Alive(s) \/ Stale(s)
      <3>1. Past(s)
        BY <1>1, <2>1, SeenFacts DEF Conns, Past
      <3> QED BY <1>1, <3>1 DEF Conns
    <2>3. Hold(server, d, v)
      BY <1>8, <2>2 DEF Hold
    <2> QED BY <1>6, <1>8, <1>10, <2>2, <2>3 DEF d, q, v, x
  <1> QED BY <1>9, <1>10
\* Whatever is sent, the server answers with tokens.
LEMMA ReplyFacts ==
    ASSUME NEW server \in Peers, NEW msg \in Messages
    PROVE  Reply(server, msg) \in Seq(Tokens)
  <1> DEFINE given == {Greeting(server, FALSE), Security(server), Begins(server, msg.v), SubAuths(server), Result(server)}
             others == {<<T("challenge")>>, <<T("randlength"), T("rand")>>, <<T("hash"), V("ra2subtype", server.ra2)>>,
                        <<T("update"), T("update")>>, <<>>}
             ven == <<V("venack", server.ven)>> \o VeNSubtypes(server)
  <1>1. given \subseteq Seq(Tokens)
    <2>1. Greeting(server, FALSE) \in Seq(Tokens)
      BY GreetingFacts
    <2>2. Security(server) \in Seq(Tokens)
      BY SecurityFacts
    <2>3. Begins(server, msg.v) \in Seq(Tokens)
      BY BeginsFacts
    <2>4. SubAuths(server) \in Seq(Tokens)
      BY SubAuthFacts
    <2>5. Result(server) \in Seq(Tokens)
      BY ResultFacts
    <2> QED BY <2>1, <2>2, <2>3, <2>4, <2>5
  <1>2. others \subseteq Seq(Tokens)
    <2>1. \A k \in {"challenge", "randlength", "rand", "hash", "update"} : T(k) \in Tokens
      BY TokenFacts DEF FieldKinds
    <2>2. V("ra2subtype", server.ra2) \in Tokens
      <3>1. server.ra2 \in Values /\ "ra2subtype" \in FieldKinds
        BY PeerFacts DEF FieldKinds
      <3> QED BY <3>1, TokenFacts
    <2> QED BY <2>1, <2>2, EmptySeq
  <1>3. ven \in Seq(Tokens)
    <2>1. ListOf("subtypes", "subtype", server.venTypes) \in Seq(Tokens)
      <3>1. server.venTypes \in Seq(Values) BY PeerFacts
      <3>2. "subtypes" \in FieldKinds /\ "subtype" \in FieldKinds BY DEF FieldKinds
      <3> QED BY <3>1, <3>2, ListFacts
    <2>2. <<V("venack", server.ven)>> \in Seq(Tokens)
      <3>1. server.ven \in Values /\ "venack" \in FieldKinds
        BY PeerFacts DEF FieldKinds
      <3>2. V("venack", server.ven) \in Tokens
        BY <3>1, TokenFacts
      <3> QED BY <3>2
    <2>3. VeNSubtypes(server) \in Seq(Tokens)
      BY <2>1, EmptySeq DEF VeNSubtypes
    <2> QED BY <2>2, <2>3, ConcatProperties
  <1>4. CASE msg.m = "init"
    <2>1. Reply(server, msg) = Reply(server, ServerInit)
      BY <1>4 DEF Reply, ServerInit
    <2> QED BY <2>1, ServerInitFacts
  <1>5. CASE msg.m # "init"
    <2>1. Reply(server, msg) \in given \cup others \cup {ven}
      BY <1>5 DEF Reply
    <2> HIDE DEF given, others, ven
    <2> QED BY <1>1, <1>2, <1>3, <2>1
  <1> QED BY <1>4, <1>5

\* A server that answers changes nothing of itself but that it was asked for "Tight".
Alike(server, peer1) ==
    /\ server \in Peers /\ peer1 \in Peers
    /\ peer1.version = server.version /\ peer1.types = server.types /\ peer1.subs = server.subs
    /\ peer1.venTypes = server.venTypes /\ peer1.accepts = server.accepts /\ peer1.explains = server.explains
    /\ peer1.tunnels = server.tunnels
    /\ peer1.ven = server.ven /\ peer1.ra2 = server.ra2
ChoseTight == [m |-> "type", v |-> "Tight"]
LEMMA AlikeSpeaks ==
    ASSUME NEW server, NEW peer1, Alike(server, peer1)
    PROVE  /\ Reason(peer1) = Reason(server) /\ Result(peer1) = Result(server) /\ SubAuths(peer1) = SubAuths(server)
           /\ \A scheme : Begins(peer1, scheme) = Begins(server, scheme)
           /\ Security(peer1) = Security(server) /\ (Honest(server) => Honest(peer1))
           /\ \A repeater : Greeting(peer1, repeater) = Greeting(server, repeater)
           /\ \A s, why : Because(server, s, why) => Because(peer1, s, why)
           /\ \A s : OfScheme(peer1, s) = OfScheme(server, s)
  <1>1. Reason(peer1) = Reason(server)
    BY DEF Alike, Reason
  <1>2. Result(peer1) = Result(server)
    BY <1>1 DEF Alike, Result
  <1>3. SubAuths(peer1) = SubAuths(server) /\ Tunnels(peer1) = Tunnels(server)
    BY <1>2 DEF Alike, SubAuths, Tunnels
  <1>4. \A scheme : Begins(peer1, scheme) = Begins(server, scheme)
    BY <1>2, <1>3 DEF Alike, Begins
  <1>5. Security(peer1) = Security(server)
    BY <1>1, <1>4 DEF Alike, Security
  <1>6. \A repeater : Greeting(peer1, repeater) = Greeting(server, repeater)
    BY DEF Alike, Greeting
  <1>7. Honest(server) => Honest(peer1)
    BY DEF Alike, Honest
  <1>8. \A s, why : Because(server, s, why) => Because(peer1, s, why)
    BY DEF Alike, Because
  <1>9. \A s : OfScheme(peer1, s) = OfScheme(server, s)
    <2>1. \A ven : OfVeNCrypt(peer1, ven) = OfVeNCrypt(server, ven)
      BY DEF Alike, OfVeNCrypt, VeNSubtypes
    <2>2. \A ra2 : OfRA2(peer1, ra2) = OfRA2(server, ra2)
      BY DEF Alike, OfRA2
    <2> QED BY <1>3, <1>4, <2>1, <2>2 DEF OfScheme
  <1> QED BY <1>1, <1>2, <1>3, <1>4, <1>5, <1>6, <1>7, <1>8, <1>9

\* The list of tunnels is not the size of the screen.
LEMMA TightIsNoInit ==
    ASSUME NEW server \in Peers
    PROVE  /\ Reply(server, ChoseTight) # <<>> /\ Reply(server, ChoseTight) # Reply(server, ServerInit)
           /\ Reply(server, ChoseTight) = Begins(server, "Tight")
           /\ <<>> \o Reply(server, ChoseTight) = Reply(server, ChoseTight)
  <1>1. Reply(server, ChoseTight) = Begins(server, "Tight")
    BY DEF Reply, ChoseTight
  <1>2. PICK y \in Seq(Tokens) : Begins(server, "Tight") = Tunnels(server) \o y /\ Begins(server, "Tight") \in Seq(Tokens)
    BY TunnelFacts
  <1>3. /\ Tunnels(server) \in Seq(Tokens) /\ Tunnels(server) = ListOf("tunnels", "tunnel", Offered(server))
        /\ Offered(server) \in Seq(Values)
    BY TunnelFacts
  <1>4. Len(Tunnels(server)) >= 1 /\ Tunnels(server)[1].k = "tunnels"
    <2>1. "tunnels" \in FieldKinds /\ "tunnel" \in FieldKinds
      BY DEF FieldKinds
    <2>2. Len(Offered(server)) \in Nat
      BY <1>3
    <2> QED BY <1>3, <2>1, <2>2, ListFacts
  <1>5. Begins(server, "Tight")[1] = Tunnels(server)[1] /\ Len(Begins(server, "Tight")) >= 1
    <2>1. 1 \in 1 .. Len(Tunnels(server)) /\ Len(y) \in Nat /\ Len(Tunnels(server)) \in Nat
      BY <1>3, <1>4
    <2> QED BY <1>2, <1>3, <1>4, <2>1, SplitFacts
  <1>6. Begins(server, "Tight") # <<>>
    BY <1>2, <1>5
  <1>7. Begins(server, "Tight") # Reply(server, ServerInit)
    BY <1>4, <1>5, ServerInitFacts
  <1>8. <<>> \o Begins(server, "Tight") = Begins(server, "Tight")
    BY <1>2, ConcatEmptySeq
  <1> QED BY <1>1, <1>6, <1>7, <1>8

LEMMA RepliesHold ==
    ASSUME NEW server \in Peers, NEW s, NEW w \in Seq(Tokens), Hold(server, s, w), s.chan = "open", s.out # <<>>
    PROVE  LET msg == Head(s.out)
               peer1 == [server EXCEPT !.tight = @ \/ msg = ChoseTight]
               d == [s EXCEPT !.out = Tail(@)]
               v == w \o Reply(server, msg)
           IN /\ peer1 \in Peers /\ v \in Seq(Tokens) /\ (Honest(server) => Honest(peer1))
              /\ Hold(peer1, d, v) /\ Same(s, d, {"out"})
              /\ (Quiet(d) <=> Quiet(s)) /\ (Alive(d) <=> Alive(s)) /\ (Stale(d) <=> Stale(s))
  <1> DEFINE msg == Head(s.out)
             tight == server.tight \/ msg = ChoseTight
             peer1 == [server EXCEPT !.tight = tight]
             out == Tail(s.out)
             d == [s EXCEPT !.out = out]
             v == w \o Reply(server, msg)
  <1>1. s \in Client /\ Conns(s) /\ Base(server, s) /\ Place(server, s) /\ Whys(server, s)
    BY DEF Hold, Base
  <1>2. /\ s.out \in Seq(Messages) /\ Len(s.out) \in Nat /\ Len(s.out) >= 1 /\ s.q \in Seq(Tokens)
        /\ msg = s.out[1] /\ msg \in Messages
    BY <1>1 DEF Client
  <1>3. /\ out \in Seq(Messages) /\ Len(out) = Len(s.out) - 1
        /\ \A i \in 1 .. Len(out) : out[i] = s.out[i + 1] /\ i + 1 \in 1 .. Len(s.out)
        /\ (Len(s.out) > 1 => out # <<>>) /\ (Len(s.out) = 1 => out = <<>>)
    <2>1. /\ out \in Seq(Messages) /\ Len(out) = Len(s.out) - 1
          /\ \A i \in 1 .. Len(out) : out[i] = s.out[i + 1]
      BY <1>2, HeadTailProperties
    <2> HIDE DEF out
    <2>2. \A i \in 1 .. Len(out) : i + 1 \in 1 .. Len(s.out)
      <3> DEFINE n == Len(s.out)
      <3>1. n \in Nat /\ Len(out) = n - 1
        BY <1>2, <2>1
      <3> HIDE DEF n
      <3>2. \A i \in 1 .. n - 1 : i + 1 \in 1 .. n
        BY <3>1
      <3> QED BY <3>1, <3>2 DEF n
    <2>3. out = <<>> <=> Len(out) = 0
      BY <2>1, EmptySeq
    <2> QED BY <1>2, <2>1, <2>2, <2>3
  <1> HIDE DEF msg, out
  <1>4. /\ Alike(server, peer1) /\ peer1.tight = tight /\ peer1 \in Peers
        /\ (~tight => ~server.tight /\ msg # ChoseTight)
        /\ (msg # ChoseTight => peer1 = server)
    <2>1. tight \in BOOLEAN /\ server.tight \in BOOLEAN
      BY PeerFacts
    <2>2. (~tight => ~server.tight /\ msg # ChoseTight) /\ (msg # ChoseTight => tight = server.tight)
      BY <2>1
    <2> HIDE DEF tight
    <2>3. peer1 \in Peers /\ peer1.tight = tight
      BY <2>1 DEF Peers
    <2>4. Alike(server, peer1)
      BY <2>3 DEF Alike, Peers
    <2>5. tight = server.tight => peer1 = server
      BY DEF Peers
    <2> QED BY <2>2, <2>3, <2>4, <2>5
  <1>5. d \in Client /\ Same(s, d, {"out"}) /\ d.out = out
    <2>1. d \in Client
      BY <1>1, <1>3 DEF Client
    <2> QED BY <1>1, <2>1 DEF Client, Same, Parts
  <1> HIDE DEF d, peer1, tight
  <1>6. /\ Same(s, d, {"q", "out", "go"}) /\ d.conn = s.conn /\ d.init = s.init /\ d.q = s.q
        /\ d.scheme = s.scheme /\ d.ra2 = s.ra2 /\ d.ven = s.ven /\ d.ard = s.ard /\ d.tight = s.tight /\ d.chan = s.chan
        /\ d.why = s.why /\ d.clean = s.clean /\ d.version = s.version /\ d.venLength = s.venLength
    BY <1>5 DEF Same, Parts
  <1>7. Mild(s, d)
    BY <1>3, <1>5 DEF Mild
  <1>8. /\ Base(server, d) /\ (Alive(d) <=> Alive(s)) /\ (Stale(d) <=> Stale(s))
        /\ (Quiet(d) <=> Quiet(s))
    BY <1>1, <1>5, <1>6, <1>7, FrameBase
  <1>9. /\ d \in Client /\ Legible(d) /\ Conns(d) /\ Turns(d) /\ Place(server, d) /\ Whys(server, d)
        /\ d.conn \in {"disconnecting", "disconnected"} => (d.grabbed => quits = "desktopname" \/ Stale(d))
    BY <1>8, BaseParts
  <1>10. Untight(server, s) => Untight(peer1, d)
    <2>1. SUFFICES ASSUME Untight(server, s) PROVE Untight(peer1, d)
      OBVIOUS
    <2>2. ~server.tight /\ msg # ChoseTight
      BY <1>2, <2>1 DEF Untight, ChoseTight
    <2>3. ~peer1.tight
      BY <1>4, <2>2
    <2>4. Untight(server, d)
      BY <1>7, <2>1, StaysUntight
    <2> QED BY <2>3, <2>4 DEF Untight
  <1>11. Place(peer1, d)
    <2>1. s.scheme \in {"none", "VeNCrypt", "ARD"} => Untight(server, s)
      BY <1>1 DEF Place
    <2>2. d.scheme \in {"none", "VeNCrypt", "ARD"} => Untight(peer1, d)
      BY <1>6, <1>10, <2>1
    <2> HIDE <2>1
    <2> QED BY <1>4, <1>9, <2>2 DEF Place, Alike
  <1>12. Whys(peer1, d)
    <2>1. Because(server, d, d.why) => Because(peer1, d, d.why)
      BY <1>4, AlikeSpeaks
    <2> QED BY <1>4, <1>9, <2>1 DEF Whys, Alike
  <1>13. Base(peer1, d)
    BY <1>9, <1>11, <1>12 DEF Base
  <1>14. v \in Seq(Tokens)
    <2>1. Reply(server, msg) \in Seq(Tokens)
      BY <1>2, ReplyFacts
    <2> QED BY <2>1, ConcatProperties
  <1>15. Talk(server, s, w) /\ s.conn = "connecting" => Talk(peer1, d, v)
    <2>1. SUFFICES ASSUME Talk(server, s, w), s.conn = "connecting" PROVE Talk(peer1, d, v)
      OBVIOUS
    <2>2. PICK rest \in Seq(Tokens) : Awaits(server, s, rest) /\ Owes(server, s, w, rest) /\ (Quiet(s) => rest = <<>>)
      BY <2>1 DEF Talk
    <2>3. /\ s.q = <<>> /\ w = <<>> /\ rest = Reply(server, s.out[Len(s.out)])
          /\ \A i \in 1 .. Len(s.out) : i < Len(s.out) => Reply(server, s.out[i]) = <<>>
      BY <2>2 DEF Owes
    <2>4. Awaits(server, d, rest)
      BY <1>6, <2>2 DEF Awaits, Ahead, OfScheme
    <2>5. CASE Len(s.out) = 1
      <3>1. v = rest /\ d.out = <<>> /\ Len(d.out) = 0
        <4>1. rest = Reply(server, msg)
          BY <1>2, <2>3, <2>5
        <4>2. <<>> \o rest = rest
          BY ConcatEmptySeq
        <4> QED BY <1>3, <1>5, <2>3, <2>5, <4>1, <4>2
      <3>2. Owes(peer1, d, v, rest)
        BY <3>1 DEF Owes
      <3>3. Awaits(peer1, d, rest)
        <4>1. CASE msg # ChoseTight
          BY <1>4, <2>4, <4>1
        <4>2. CASE msg = ChoseTight
          <5>1. rest = Reply(server, ChoseTight)
            BY <1>2, <2>3, <2>5, <4>2
          <5>2. s.q \o rest = rest
            BY <2>3, ConcatEmptySeq
          <5>3. s.init # "ServerInitialisation"
            BY <2>2, <5>1, <5>2, TightIsNoInit DEF Awaits, Ahead
          <5> QED BY <1>4, <1>6, <2>4, <5>3, AlikeSpeaks DEF Awaits, Ahead
        <4> QED BY <4>1, <4>2
      <3> QED BY <1>8, <2>2, <3>2, <3>3 DEF Talk
    <2>6. CASE Len(s.out) # 1
      <3>1. Len(s.out) > 1
        <4>1. Len(s.out) \in Nat /\ Len(s.out) >= 1
          BY <1>2
        <4>2. \A n \in Nat : n >= 1 /\ n # 1 => n > 1
          OBVIOUS
        <4> QED BY <2>6, <4>1, <4>2
      <3>2. Reply(server, msg) = <<>>
        BY <1>2, <2>3, <3>1
      <3>3. msg # ChoseTight
        BY <3>2, TightIsNoInit
      <3>4. v = <<>>
        BY <2>3, <3>2, EmptySeq, ConcatEmptySeq
      <3>5. /\ d.out # <<>> /\ d.out[Len(d.out)] = s.out[Len(s.out)]
            /\ \A i \in 1 .. Len(d.out) : i < Len(d.out) => Reply(server, d.out[i]) = <<>>
        <4>1. Len(out) \in 1 .. Len(out) /\ Len(out) + 1 = Len(s.out)
          BY <1>2, <1>3, <3>1
        <4>2. out[Len(out)] = s.out[Len(s.out)]
          BY <1>3, <4>1
        <4>3. ASSUME NEW i \in 1 .. Len(out), i < Len(out) PROVE Reply(server, out[i]) = <<>>
          <5>1. i + 1 \in 1 .. Len(s.out) /\ i + 1 < Len(s.out) /\ out[i] = s.out[i + 1]
            BY <1>2, <1>3, <4>3
          <5> QED BY <2>3, <5>1
        <4> QED BY <1>3, <1>5, <3>1, <4>2, <4>3
      <3>6. Owes(server, d, v, rest)
        BY <1>6, <2>3, <3>4, <3>5 DEF Owes
      <3> QED BY <1>4, <1>8, <2>2, <2>4, <3>3, <3>6 DEF Talk
    <2> QED BY <2>5, <2>6
  <1>16. Hold(peer1, d, v)
    <2>1. s.conn = "connecting" \/ s.conn = "connected"
      BY <1>1 DEF Conns, Client
    <2>2. s.conn = "connected" => ~Alive(s) \/ Stale(s)
      BY <1>1, SeenFacts DEF Conns, Past
    <2> QED BY <1>8, <1>13, <1>15, <2>1, <2>2 DEF Hold
  <1> QED BY <1>4, <1>5, <1>8, <1>14, <1>16, AlikeSpeaks DEF d, peer1, v, msg, out, tight
\* Who is asked and what is under way: the rest stays as it is.
LEMMA TurnBase ==
    ASSUME NEW server, NEW s, Base(server, s), Alive(s), s.inStep \/ Stale(s),
           NEW t \in Client, Same(s, t, {"asked", "resumes", "creds", "ard", "ra2"}), Turns(t)
    PROVE  Base(server, t) /\ (Stale(t) <=> Stale(s)) /\ (Dry(t) <=> Dry(s)) /\ t.go = s.go
  <1>1. /\ s \in Client /\ Legible(s) /\ Conns(s) /\ Turns(s) /\ Place(server, s) /\ Whys(server, s)
        /\ s.conn \in {"disconnecting", "disconnected"} => (s.grabbed => quits = "desktopname" \/ Stale(s))
    BY BaseParts
  <1>2. /\ t.conn = s.conn /\ t.init = s.init /\ t.scheme = s.scheme /\ t.tight = s.tight /\ t.q = s.q
        /\ t.ven = s.ven /\ t.venLength = s.venLength /\ t.version = s.version /\ t.out = s.out
        /\ t.chan = s.chan /\ t.on = s.on /\ t.listening = s.listening /\ t.grabbed = s.grabbed
        /\ t.inStep = s.inStep /\ t.why = s.why /\ t.attached = s.attached /\ t.timer = s.timer
        /\ t.clean = s.clean /\ t.seen = s.seen /\ t.late = s.late /\ t.go = s.go
    BY DEF Same, Parts
  <1>3. (Past(t) <=> Past(s)) /\ (Stale(t) <=> Stale(s)) /\ (Past(s) => Stale(s))
    BY <1>1, <1>2 DEF Past, Stale, Conns
  <1>4. Conns(t)
    BY <1>1, <1>2, <1>3 DEF Conns
  <1>5. Place(server, t)
    BY <1>1, <1>2 DEF Place, Untight
  <1>6. Whys(server, t)
    BY <1>1, <1>2, <1>3 DEF Whys, Because
  <1>7. Dry(t) <=> Dry(s)
    BY <1>2 DEF Dry
  <1> QED BY <1>1, <1>2, <1>3, <1>4, <1>5, <1>6, <1>7 DEF Base, Legible

\* The same dialogue goes on.
LEMMA TurnTalk ==
    ASSUME NEW server, NEW s, NEW t, NEW w, Talk(server, s, w),
           Same(s, t, {"asked", "resumes", "creds", "ard", "ra2"}), Quiet(t) => Quiet(s),
           OfScheme(server, t) = OfScheme(server, s)
    PROVE  Talk(server, t, w)
  <1>1. t.conn = s.conn /\ t.init = s.init /\ t.q = s.q /\ t.out = s.out
    BY DEF Same, Parts
  <1>2. Ahead(server, t) = Ahead(server, s)
    BY <1>1 DEF Ahead
  <1>3. \A rest : Awaits(server, t, rest) <=> Awaits(server, s, rest)
    BY <1>1, <1>2 DEF Awaits
  <1>4. \A rest : Owes(server, t, w, rest) <=> Owes(server, s, w, rest)
    BY <1>1 DEF Owes
  <1> QED BY <1>1, <1>3, <1>4 DEF Talk

LEMMA ARDAsyncHolds ==
    ASSUME NEW server, NEW s, NEW w, Hold(server, s, w), s.ard = "crypto"
    PROVE  LET t == [s EXCEPT !.ard = "ready", !.resumes = @ + 1]
           IN Hold(server, t, w) /\ t.go = s.go /\ Dry(t)
  <1> DEFINE t == [s EXCEPT !.ard = "ready", !.resumes = @ + 1]
  <1>1. s \in Client /\ Base(server, s) /\ Turns(s)
    BY BaseParts DEF Hold
  <1>2. s.scheme = "ARD" /\ s.init = "Authentication" /\ ~Lacks(s, UserPassword) /\ ~s.asked /\ Alive(s)
    BY <1>1 DEF Turns, Alive
  <1>3. t \in Client
    <2>1. s.resumes + 1 \in Nat
      BY <1>1 DEF Client
    <2> QED BY <1>1, <2>1 DEF Client
  <1>4. Same(s, t, {"ard", "resumes"}) /\ t.ard = "ready"
    BY <1>1 DEF Client, Same, Parts
  <1> HIDE DEF t
  <1>5. /\ t.scheme = "ARD" /\ t.init = "Authentication" /\ t.asked = s.asked /\ t.ra2 = s.ra2 /\ t.creds = s.creds
        /\ t.tight = s.tight /\ t.ven = s.ven
        /\ Same(s, t, {"asked", "resumes", "creds", "ard", "ra2"})
    BY <1>2, <1>4 DEF Same, Parts
  <1>6. ~Lacks(t, UserPassword) /\ s.ra2 = "none"
    BY <1>1, <1>2, <1>5 DEF Lacks, Turns
  <1>7. Turns(t)
    BY <1>1, <1>2, <1>4, <1>5, <1>6 DEF Turns, Asking, Early, Quiet
  <1>12. s.inStep \/ Stale(s)
    BY <1>1, <1>2, BaseParts DEF Legible, Cut
  <1>8. Base(server, t) /\ (Stale(t) <=> Stale(s)) /\ t.go = s.go
    BY <1>1, <1>2, <1>3, <1>5, <1>7, <1>12, TurnBase
  <1>9. OfScheme(server, t) = OfScheme(server, s)
    BY <1>2, <1>4, <1>5 DEF OfScheme
  <1>10. ~Stale(s) => Talk(server, t, w)
    <2>1. ~Quiet(t)
      BY <1>5 DEF Quiet
    <2> QED BY <1>2, <1>5, <1>9, <2>1, TurnTalk DEF Hold
  <1>11. Dry(t)
    BY <1>5 DEF Dry
  <1> QED BY <1>8, <1>10, <1>11 DEF Hold, t

LEMMA CredentialsHold ==
    ASSUME NEW server, NEW s, NEW w, Hold(server, s, w), s.asked, s.ra2 # "verify", NEW creds \in Answers
    PROVE  LET t == [s EXCEPT !.asked = FALSE, !.creds = creds, !.resumes = @ + 1,
                              !.ard = IF @ = "ready" THEN "none" ELSE @]
           IN /\ Hold(server, t, w) /\ t.go = s.go /\ Alive(s) /\ (Stale(t) <=> Stale(s)) /\ (Dry(t) <=> Dry(s))
  <1> DEFINE t == [s EXCEPT !.asked = FALSE, !.creds = creds, !.resumes = @ + 1,
                            !.ard = IF @ = "ready" THEN "none" ELSE @]
  <1>1. s \in Client /\ Base(server, s) /\ Turns(s)
    BY BaseParts DEF Hold
  <1>2. /\ Owing(s) /\ s.scheme \in Asking /\ s.init \notin Early /\ Alive(s) /\ s.ard = "none"
        /\ s.ra2 \in {"none", "creds", "creds2"}
    BY <1>1 DEF Turns, Owing, Alive
  <1>3. s.resumes \in Nat /\ s.resumes + 1 \in Nat /\ (s.scheme # "ARD" => s.resumes = 0) /\ s.resumes + 1 > 0
    BY <1>1, <1>2 DEF Client, Turns, Quiet
  <1>4. t \in Client
    <2>1. creds \in SUBSET Fields
      BY DEF Answers, Fields
    <2> DEFINE ard == IF s.ard = "ready" THEN "none" ELSE s.ard
               n == s.resumes + 1
    <2>2. ard \in {"none", "crypto", "ready"} /\ n \in Nat
      BY <1>2, <1>3
    <2> HIDE DEF ard, n
    <2>3. [s EXCEPT !.asked = FALSE, !.creds = creds, !.resumes = n, !.ard = ard] \in Client
      BY <1>1, <2>1, <2>2 DEF Client
    <2> QED BY <2>3 DEF ard, n
  <1>5. Same(s, t, {"asked", "creds", "resumes"}) /\ t.asked = FALSE /\ t.resumes = s.resumes + 1
    BY <1>1, <1>2 DEF Client, Same, Parts
  <1> HIDE DEF t
  <1>6. /\ t.scheme = s.scheme /\ t.init = s.init /\ t.ra2 = s.ra2 /\ t.ard = "none" /\ t.conn = s.conn
        /\ t.tight = s.tight /\ t.ven = s.ven
        /\ Same(s, t, {"asked", "resumes", "creds", "ard", "ra2"})
    BY <1>2, <1>5 DEF Same, Parts
  <1>7. Owing(t) /\ (Quiet(t) <=> Quiet(s))
    BY <1>2, <1>3, <1>5, <1>6 DEF Owing, Quiet
  <1>8. Turns(t)
    <2>1. Quiet(t) => t.resumes <= 1 /\ (t.init = "Authentication" \/ (t.conn # "connecting" /\ t.init = "SecurityResult"))
      BY <1>1, <1>3, <1>5, <1>6, <1>7 DEF Turns, Quiet
    <2>2. t.ra2 # "none" => t.scheme = "RA2ne" /\ t.init = "Authentication"
      BY <1>1, <1>6 DEF Turns
    <2>3. ~(t.scheme = "RA2ne" /\ t.ra2 = "none" /\ t.init = "Authentication")
      BY <1>1, <1>2, <1>6 DEF Turns
    <2> QED BY <1>2, <1>5, <1>6, <1>7, <2>1, <2>2, <2>3 DEF Turns
  <1>12. s.inStep \/ Stale(s)
    BY <1>1, <1>2, BaseParts DEF Legible, Cut
  <1>9. Base(server, t) /\ (Stale(t) <=> Stale(s)) /\ (Dry(t) <=> Dry(s)) /\ t.go = s.go
    BY <1>1, <1>2, <1>4, <1>6, <1>8, <1>12, TurnBase
  <1>10. OfScheme(server, t) = OfScheme(server, s)
    BY <1>2, <1>6 DEF OfScheme
  <1>11. ~Stale(s) => Talk(server, t, w)
    BY <1>2, <1>6, <1>7, <1>10, TurnTalk DEF Hold
  <1> QED BY <1>2, <1>9, <1>11 DEF Hold, t

LEMMA ApproveHolds ==
    ASSUME NEW server, NEW s, NEW w, Hold(server, s, w), s.asked, s.ra2 = "verify"
    PROVE  LET t == [s EXCEPT !.asked = FALSE, !.ra2 = "gen"]
           IN Hold(server, t, w) /\ t.go = s.go /\ Dry(t)
  <1> DEFINE t == [s EXCEPT !.asked = FALSE, !.ra2 = "gen"]
  <1>1. s \in Client /\ Base(server, s) /\ Turns(s)
    BY BaseParts DEF Hold
  <1>2. s.scheme = "RA2ne" /\ s.init = "Authentication" /\ s.resumes = 0 /\ Alive(s) /\ s.ard = "none" /\ ~Stale(s)
    BY <1>1 DEF Turns, Alive, Stale
  <1>3. t \in Client
    <2>1. "gen" \in {"none"} \cup Waiting \cup Crypto
      BY DEF Crypto
    <2> QED BY <1>1, <2>1 DEF Client
  <1>4. Same(s, t, {"asked", "ra2"}) /\ t.asked = FALSE /\ t.ra2 = "gen"
    BY <1>1 DEF Client, Same, Parts
  <1> HIDE DEF t
  <1>5. /\ t.scheme = "RA2ne" /\ t.init = "Authentication" /\ t.resumes = 0 /\ t.ard = "none"
        /\ t.tight = s.tight /\ t.ven = s.ven
        /\ Same(s, t, {"asked", "resumes", "creds", "ard", "ra2"})
    BY <1>2, <1>4 DEF Same, Parts
  <1>6. ~Owing(t) /\ ~Quiet(t)
    BY <1>4, <1>5 DEF Owing, Quiet
  <1>7. Turns(t)
    BY <1>4, <1>5, <1>6 DEF Turns
  <1>12. s.inStep
    BY <1>1, <1>2, BaseParts DEF Legible, Cut
  <1>8. Base(server, t) /\ (Stale(t) <=> Stale(s)) /\ t.go = s.go
    BY <1>1, <1>2, <1>3, <1>5, <1>7, <1>12, TurnBase
  <1>9. OfScheme(server, t) = OfScheme(server, s)
    <2>1. OfRA2(server, "gen") = OfRA2(server, "verify")
      BY DEF OfRA2
    <2> QED BY <1>2, <1>4, <1>5, <2>1 DEF OfScheme
  <1>10. Talk(server, t, w)
    BY <1>2, <1>5, <1>6, <1>9, TurnTalk DEF Hold
  <1>11. Dry(t)
    BY <1>5 DEF Dry
  <1> QED BY <1>8, <1>10, <1>11 DEF Hold, t

LEMMA CryptoHolds ==
    ASSUME NEW server \in Peers, NEW s, NEW w \in Seq(Tokens), Hold(server, s, w), s.ra2 \in Crypto, s.go = FALSE
    PROVE  /\ Hold(server, RA2Continues(s), w) /\ RA2Continues(s).go = FALSE
           /\ Alive(RA2Continues(s)) /\ ~Stale(RA2Continues(s)) => Dry(RA2Continues(s))
  <1>1. s \in Client /\ Base(server, s) /\ Turns(s)
    BY BaseParts DEF Hold
  <1>2. s.ra2 \notin {"none", "verify", "creds", "creds2"}
    BY DEF Crypto
  <1>3. s.scheme = "RA2ne" /\ s.init = "Authentication" /\ ~Owing(s) /\ Alive(s) /\ ~Stale(s) /\ ~Quiet(s)
    BY <1>1, <1>2 DEF Turns, Alive, Stale, Quiet
  <1>4. PICK rest \in Seq(Tokens) : Awaits(server, s, rest) /\ (s.conn = "connecting" => Owes(server, s, w, rest))
    BY <1>3 DEF Hold, Talk
  <1>5. s.conn = "connecting" => s.chan = "open"
    BY <1>1, <1>3, ConnectingFacts
  <1>6. CASE s.ra2 = "garbled"
    <2>1. Heard(server, s)
      BY <1>4 DEF Heard
    <2> QED BY <1>1, <1>6, <2>1, GarbledEnds
  <1>7. CASE s.ra2 # "garbled"
    <2>1. s.inStep
      BY <1>1, <1>2, <1>3, <1>7, BaseParts DEF Legible, Cut
    <2>2. Ready(server, s, w, rest)
      BY <1>1, <1>3, <1>4, <1>5, <2>1 DEF Ready
    <2> QED BY <1>3, <2>2, RA2ContinuesHolds
  <1> QED BY <1>6, <1>7
\* The timer of a resume fires: the handler runs again, if there is still one.
LEMMA ResumeHolds ==
    ASSUME NEW server \in Peers, NEW s, NEW w \in Seq(Tokens), Hold(server, s, w), s.resumes > 0,
           Alive(s) /\ ~Stale(s) => Dry(s)
    PROVE  LET d == [InitMsg([s EXCEPT !.resumes = @ - 1]) EXCEPT !.go = FALSE]
           IN Hold(server, d, w) /\ d.go = FALSE /\ (Alive(d) /\ ~Stale(d) => Dry(d))
  <1> DEFINE t == [s EXCEPT !.resumes = @ - 1]
             x == InitMsg(t)
             d == [x EXCEPT !.go = FALSE]
  <1>1. s \in Client /\ Base(server, s) /\ Turns(s) /\ Conns(s) /\ d = Stop(x)
    BY BaseParts DEF Hold, Stop
  <1>2. /\ Owing(s) /\ Alive(s) /\ s.scheme \in Asking /\ s.init \notin Early
        /\ s.resumes \in Nat /\ s.resumes - 1 \in Nat
    BY <1>1 DEF Client, Turns, Owing, Alive
  <1>3. t \in Client
    BY <1>1, <1>2 DEF Client
  <1>4. Same(s, t, {"resumes"}) /\ t.resumes = s.resumes - 1
    BY <1>1 DEF Client, Same, Parts
  <1> HIDE DEF t
  <1>5. /\ t.scheme = s.scheme /\ t.init = s.init /\ t.ra2 = s.ra2 /\ t.ard = s.ard /\ t.conn = s.conn
        /\ t.tight = s.tight /\ t.ven = s.ven /\ t.asked = s.asked /\ t.creds = s.creds /\ t.q = s.q /\ t.chan = s.chan
        /\ Same(s, t, {"asked", "resumes", "creds", "ard", "ra2"})
    BY <1>4 DEF Same, Parts
  <1>6. ~Quiet(t) /\ (Owing(t) => s.scheme = "ARD")
    <2>1. CASE Quiet(s)
      <3>1. ~s.asked /\ s.resumes <= 1
        BY <1>1, <1>2, <2>1 DEF Turns
      <3>2. t.resumes = 0
        BY <1>2, <1>4, <3>1
      <3>3. ~Owing(t)
        BY <1>5, <3>1, <3>2 DEF Owing
      <3> QED BY <3>3 DEF Quiet
    <2>2. CASE ~Quiet(s)
      BY <1>2, <1>5, <2>2 DEF Quiet
    <2> QED BY <2>1, <2>2
  <1>7. Turns(t)
    <2>1. t.ra2 = "verify" => t.resumes = 0
      BY <1>1, <1>2, <1>5 DEF Turns
    <2>2. \A fields : Lacks(t, fields) <=> Lacks(s, fields)
      BY <1>5 DEF Lacks
    <2> QED BY <1>1, <1>2, <1>5, <1>6, <2>1, <2>2 DEF Turns
  <1>12. s.inStep \/ Stale(s)
    BY <1>1, <1>2, BaseParts DEF Legible, Cut
  <1>8. Base(server, t) /\ (Stale(t) <=> Stale(s)) /\ (Dry(t) <=> Dry(s))
    BY <1>1, <1>2, <1>3, <1>5, <1>7, <1>12, TurnBase
  <1>9. CASE Stale(s)
    <2> DEFINE y == Read(t, InitKinds(t))
    <2>1. x = NegotiateServerInit(t)
      BY <1>1, <1>5, <1>9 DEF Conns, Stale, InitMsg
    <2>2. t.tight \in BOOLEAN /\ t.q \in Seq(Tokens)
      BY <1>3 DEF Client
    <2>3. /\ Len(InitKinds(t)) \in Nat
          /\ NegotiateServerInit(t) = IF Waits(t, Len(InitKinds(t))) THEN Stop(t) ELSE Session(y)
      BY <2>2, InitKindsFacts
    <2>4. y \in Client /\ Same(t, y, {"q", "inStep"}) /\ y.out = t.out
      <3> DEFINE n == Len(InitKinds(t))
                 good == t.inStep /\ \A i \in 1 .. n : t.q[i].k = InitKinds(t)[i]
                 left == SubSeq(t.q, n + 1, Len(t.q))
      <3>1. good \in BOOLEAN
        OBVIOUS
      <3>2. left \in Seq(Tokens)
        BY <2>2, <2>3
      <3>3. y = [t EXCEPT !.q = left, !.inStep = good]
        BY DEF Read
      <3> HIDE DEF good, left, y
      <3>4. y \in Client
        BY <1>3, <3>1, <3>2, <3>3 DEF Client
      <3> QED BY <1>3, <3>3, <3>4 DEF Client, Same, Parts
    <2>5. Hold(server, Stop(t), w) /\ Hold(server, Session(y), w)
      <3>1. Stop(t) \in Client /\ Same(t, Stop(t), {"go"})
        BY <1>3, StopFacts
      <3>2. Same(t, Stop(t), {"q", "inStep", "grabbed", "go", "out", "late"}) /\ Stop(t).out = t.out
        BY <3>1 DEF Same, Parts
      <3>3. Mild(t, Stop(t))
        BY <3>2 DEF Mild
      <3>4. Hold(server, Stop(t), w)
        BY <1>8, <1>9, <3>1, <3>2, <3>3, StaleHolds
      <3> HIDE DEF y
      <3>5. Same(t, y, {"q", "inStep", "grabbed", "go", "out", "late"})
        BY <2>4 DEF Same
      <3>6. Mild(t, y)
        BY <2>4 DEF Mild
      <3>7. Base(server, y) /\ Stale(y)
        BY <1>8, <1>9, <2>4, <3>5, <3>6, StaleHolds
      <3>8. Hold(server, Session(y), w)
        BY <3>7, StaleSession
      <3> QED BY <3>4, <3>8
    <2>6. Stale(Stop(t)) /\ Stale(Session(y))
      <3>1. Same(t, y, {"q", "inStep", "grabbed", "go", "out", "late"}) /\ Mild(t, y)
        BY <2>4 DEF Same, Mild
      <3>2. Stop(t).scheme = t.scheme /\ Stop(t).seen = t.seen
        BY <1>3, StopFacts DEF Same, Parts
      <3>3. Stale(Stop(t))
        BY <1>8, <1>9, <3>2 DEF Stale, Past
      <3> HIDE DEF y
      <3>4. Base(server, y) /\ Stale(y)
        BY <1>8, <1>9, <2>4, <3>1, StaleHolds
      <3>5. Stale(Session(y))
        BY <3>4, StaleSession
      <3> QED BY <3>3, <3>5
    <2>7. Hold(server, x, w) /\ Stale(x)
      BY <2>1, <2>3, <2>5, <2>6
    <2> HIDE DEF x, y
    <2>8. Hold(server, Stop(x), w) /\ Stop(x).go = FALSE /\ Stale(Stop(x))
      BY <2>7, StopHolds
    <2> QED BY <1>1, <2>8 DEF x, t
  <1>10. CASE ~Stale(s) /\ s.init = "Authentication"
    <2>1. PICK rest \in Seq(Tokens) : Awaits(server, s, rest) /\ (s.conn = "connecting" => Owes(server, s, w, rest))
      BY <1>2, <1>10 DEF Hold, Talk
    <2>2. t.conn = "connecting" => t.chan = "open" /\ Owes(server, t, w, rest)
      <3>1. t.out = s.out
        BY <1>5 DEF Same, Parts
      <3>2. s.conn = "connecting" => s.chan = "open"
        BY <1>1, <1>10, ConnectingFacts
      <3> QED BY <1>5, <2>1, <3>1, <3>2 DEF Owes
    <2>3. Awaits(server, t, rest)
      BY <1>5, <1>10, <2>1 DEF Awaits, Ahead, OfScheme
    <2>9. t.inStep
      <3>1. t.inStep = s.inStep
        BY <1>4 DEF Same, Parts
      <3> QED BY <1>10, <1>12, <3>1
    <2>4. Ready(server, t, w, rest)
      BY <1>5, <1>6, <1>8, <1>10, <2>2, <2>3, <2>9 DEF Ready
    <2>5. t.init = "Authentication" /\ t.scheme \in Asking /\ x = NegotiateAuthentication(t)
      BY <1>2, <1>5, <1>10 DEF InitMsg
    <2>6. Settled(server, NegotiateAuthentication(t), w)
      <3>1. CASE t.scheme \in {"Plain", "UnixLogon"}
        <4>1. Settled(server, IF Lacks(t, UserPassword) THEN Ask(t) ELSE Answered(t), w)
          BY <2>4, <2>5, <3>1, PlainSettles
        <4> QED BY <3>1, <4>1 DEF NegotiateAuthentication, NegotiatePlainAuth, NegotiateTightUnixAuth
      <3>2. CASE t.scheme = "VNCAuth"
        BY <2>4, <2>5, <3>2, StdVNCSettles DEF NegotiateAuthentication
      <3>3. CASE t.scheme = "XVP"
        BY <2>4, <2>5, <3>3, XvpSettles DEF NegotiateAuthentication
      <3>4. CASE t.scheme = "MSLogonII"
        BY <2>4, <2>5, <3>4, MSLogonIISettles DEF NegotiateAuthentication
      <3>5. CASE t.scheme = "ARD"
        BY <2>4, <2>5, <3>5, ARDSettles DEF NegotiateAuthentication
      <3>6. CASE t.scheme = "RA2ne"
        BY <2>4, <2>5, <3>6, RA2neDone DEF NegotiateAuthentication
      <3> QED BY <2>5, <3>1, <3>2, <3>3, <3>4, <3>5, <3>6 DEF Asking
    <2>7. Hold(server, x, w) /\ (Alive(x) /\ ~Stale(x) => Dry(x))
      BY <2>5, <2>6 DEF Settled, Ran
    <2> HIDE DEF x
    <2>8. /\ Hold(server, Stop(x), w) /\ Stop(x).go = FALSE /\ (Alive(Stop(x)) <=> Alive(x))
          /\ (Stale(Stop(x)) <=> Stale(x)) /\ (Dry(x) => Dry(Stop(x)))
      BY <2>7, StopHolds
    <2> QED BY <1>1, <2>7, <2>8 DEF x, t
  <1>11. CASE ~Stale(s) /\ s.init # "Authentication"
    <2>1. Dry(t) /\ Dry(s)
      BY <1>2, <1>8, <1>11
    <2>2. t.init \in {"SecurityResult", "SecurityReason", "ServerInitialisation"}
      <3>1. s.init \in InitStates
        BY <1>1 DEF Client
      <3> QED BY <1>2, <1>5, <1>11, <2>1, <3>1 DEF InitStates, Early, Dry
    <2>3. x = Stop(t)
      <3>1. CASE t.init = "SecurityResult"
        <4>1. Waits(t, 1)
          <5>1. t.q = <<>>
            BY <2>1, <3>1 DEF Dry
          <5> QED BY <5>1 DEF Waits
        <4> QED BY <3>1, <4>1 DEF InitMsg, HandleSecurityResult
      <3>2. CASE t.init = "SecurityReason"
        BY <2>1, <3>2 DEF Dry, Waits, InitMsg, HandleSecurityReason
      <3>3. CASE t.init = "ServerInitialisation"
        <4>1. t.tight \in BOOLEAN
          BY <1>3 DEF Client
        <4>2. /\ Len(InitKinds(t)) = IF t.tight THEN 4 ELSE 2
              /\ NegotiateServerInit(t) = IF Waits(t, Len(InitKinds(t))) THEN Stop(t) ELSE Session(Read(t, InitKinds(t)))
          BY <4>1, InitKindsFacts
        <4>3. Waits(t, Len(InitKinds(t)))
          BY <2>1, <3>3, <4>2 DEF Dry, Waits
        <4> QED BY <3>3, <4>2, <4>3 DEF InitMsg
      <3> QED BY <2>2, <3>1, <3>2, <3>3
    <2>4. Talk(server, t, w)
      <3>1. OfScheme(server, t) = OfScheme(server, s)
        BY <1>5 DEF OfScheme
      <3> QED BY <1>2, <1>5, <1>6, <1>11, <3>1, TurnTalk DEF Hold
    <2>5. Hold(server, t, w)
      BY <1>8, <2>4 DEF Hold
    <2> HIDE DEF x
    <2>6. Hold(server, Stop(t), w) /\ Dry(Stop(t))
      BY <2>1, <2>5, StopHolds
    <2>7. Hold(server, Stop(x), w) /\ Stop(x).go = FALSE /\ Dry(Stop(x))
      BY <2>3, <2>6, StopHolds
    <2> QED BY <1>1, <2>7 DEF x, t
  <1> QED BY <1>9, <1>10, <1>11
\* What has ended had been alive.
LEMMA EndAlive ==
    ASSUME NEW s \in Client, Standing(s), NEW t, Ended(s, t)
    PROVE  (Alive(t) => Alive(s)) /\ (Stale(t) <=> Stale(s)) /\ (Owing(t) <=> Owing(s))
  <1>1. t.scheme = s.scheme /\ t.asked = s.asked /\ t.resumes = s.resumes /\ t.ard = s.ard
    BY DEF Ended, Same, Parts, Outside
  <1>2. (t.ra2 # "none" => s.ra2 # "none") /\ t.conn = "disconnected"
    BY DEF Ended, MayEnd
  <1>3. Past(t) <=> Past(s)
    <2>1. CASE s.conn = "disconnected"
      BY <2>1 DEF Ended, Past
    <2>2. CASE s.conn # "disconnected"
      <3>1. Contains(Append(s.seen, "disconnect"), "connect") <=> Past(s)
        BY <2>2, StandingSeen
      <3>2. t.seen = Append(s.seen, "disconnect")
        BY <2>2 DEF Ended
      <3> QED BY <3>1, <3>2 DEF Past
    <2> QED BY <2>1, <2>2
  <1> QED BY <1>1, <1>2, <1>3 DEF Alive, Owing, Stale

\* The timer of _disconnect fires.
LEMMA TimeoutHolds ==
    ASSUME NEW server \in Peers, NEW s, NEW w, Hold(server, s, w), s.timer,
           Alive(s) /\ ~Stale(s) => Dry(s)
    PROVE  LET d == Disconnected(s)
           IN Hold(server, d, w) /\ d.go = s.go /\ (Alive(d) /\ ~Stale(d) => Dry(d))
  <1> DEFINE d == Disconnected(s)
  <1>1. /\ s \in Client /\ Legible(s) /\ Conns(s) /\ Turns(s) /\ Place(server, s) /\ Whys(server, s)
        /\ s.conn \in {"disconnecting", "disconnected"} => (s.grabbed => quits = "desktopname" \/ Stale(s))
    BY BaseParts DEF Hold
  <1>2. s.conn = "disconnecting" /\ Standing(s)
    BY <1>1, ConnsStand DEF Conns
  <1>3. Disconnecting(s) = s
    BY <1>2 DEF Disconnecting
  <1>4. Ended(s, d) /\ d.why = s.why /\ d.clean = s.clean /\ d.go = s.go
    BY <1>1, <1>2, <1>3, DisconnectedEnds
  <1> HIDE DEF d
  <1>5. d.why # "none" => ~d.clean
    BY <1>1, <1>4 DEF Whys
  <1>6. Because(server, s, d.why)
    BY <1>1, <1>4 DEF Whys
  <1>7. s.conn # "connecting" /\ Past(s) => server.accepts /\ server.types # <<>>
    BY <1>1, <1>2 DEF Whys
  <1>8. Owing(s) \/ s.ra2 # "none" \/ s.ard # "none" => Stale(s) \/ Heard(server, s)
    BY DEF Hold, Alive, Talk, Heard
  <1>9. Hold(server, d, w) /\ (Alive(d) /\ ~Stale(d) /\ Dry(s) => Dry(d))
    BY <1>1, <1>2, <1>4, <1>5, <1>6, <1>7, <1>8, EndedHolds
  <1>10. (Alive(d) => Alive(s)) /\ (Stale(d) <=> Stale(s))
    BY <1>1, <1>2, <1>4, EndAlive
  <1> QED BY <1>4, <1>9, <1>10 DEF d

\* The handlers of the channel do not matter once it is given up.
LEMMA OnHolds ==
    ASSUME NEW server, NEW s, NEW v, Hold(server, s, v), s.conn \in {"disconnecting", "disconnected"},
           NEW on \in SUBSET {"open", "message", "close"}
    PROVE  LET t == [s EXCEPT !.on = on]
           IN /\ Hold(server, t, v) /\ t.go = s.go /\ (Alive(t) <=> Alive(s)) /\ (Stale(t) <=> Stale(s))
              /\ (Dry(t) <=> Dry(s))
  <1> DEFINE t == [s EXCEPT !.on = on]
  <1>1. /\ s \in Client /\ Legible(s) /\ Conns(s) /\ Turns(s) /\ Place(server, s) /\ Whys(server, s)
        /\ s.conn \in {"disconnecting", "disconnected"} => (s.grabbed => quits = "desktopname" \/ Stale(s))
    BY BaseParts DEF Hold
  <1>2. t \in Client /\ Same(s, t, {"on"})
    BY <1>1, SetOn
  <1> HIDE DEF t
  <1>3. /\ t.conn = s.conn /\ t.q = s.q /\ t.out = s.out /\ t.init = s.init /\ t.scheme = s.scheme /\ t.tight = s.tight
        /\ t.ven = s.ven /\ t.venLength = s.venLength /\ t.ard = s.ard /\ t.ra2 = s.ra2 /\ t.asked = s.asked
        /\ t.resumes = s.resumes /\ t.creds = s.creds /\ t.version = s.version /\ t.go = s.go
        /\ t.chan = s.chan /\ t.listening = s.listening /\ t.grabbed = s.grabbed
        /\ t.inStep = s.inStep /\ t.why = s.why /\ t.attached = s.attached /\ t.timer = s.timer
        /\ t.clean = s.clean /\ t.seen = s.seen /\ t.late = s.late
    BY <1>2 DEF Same, Parts
  <1>4. /\ (Owing(t) <=> Owing(s)) /\ (Quiet(t) <=> Quiet(s)) /\ (Past(t) <=> Past(s))
        /\ \A fields : Lacks(t, fields) <=> Lacks(s, fields)
    BY <1>3 DEF Owing, Quiet, Lacks, Past
  <1>5. (Stale(t) <=> Stale(s)) /\ (Alive(t) <=> Alive(s))
    BY <1>3, <1>4 DEF Stale, Alive
  <1>6. Conns(t)
    BY <1>1, <1>3, <1>4, <1>5 DEF Conns
  <1>7. Turns(t)
    BY <1>1, <1>3, <1>4 DEF Turns
  <1>8. Place(server, t)
    BY <1>1, <1>3 DEF Place, Untight
  <1>9. Whys(server, t)
    BY <1>1, <1>3, <1>4 DEF Whys, Because
  <1>10. Talk(server, s, v) => Talk(server, t, v)
    BY <1>3, <1>4 DEF Talk, Owes, Awaits, Ahead, OfScheme
  <1>11. Dry(t) <=> Dry(s)
    BY <1>3 DEF Dry
  <1>13. Legible(t)
    BY <1>1, <1>3, <1>4, <1>5 DEF Legible, Cut
  <1>12. Base(server, t)
    BY <1>1, <1>2, <1>3, <1>5, <1>6, <1>7, <1>8, <1>9, <1>13 DEF Base
  <1> QED BY <1>3, <1>5, <1>10, <1>11, <1>12 DEF Hold, t

\* The channel's close. What is on its way is lost.
LEMMA ClosesHold ==
    ASSUME NEW server \in Peers, NEW s, NEW w, Hold(server, s, w), s.go = FALSE,
           Alive(s) /\ ~Stale(s) => Dry(s)
    PROVE  LET t == [s EXCEPT !.chan = "closed"]
               d == IF "close" \in s.on THEN SocketClose(t) ELSE t
           IN Hold(server, d, <<>>) /\ d.go = FALSE /\ (Alive(d) /\ ~Stale(d) => Dry(d))
  <1> DEFINE t == [s EXCEPT !.chan = "closed"]
             e == CASE t.conn = "connected" -> Disconnected(Disconnecting(t))
                    [] t.conn = "disconnecting" -> Disconnected(t)
                    [] OTHER -> Fail(t, "closed")
             x == [e EXCEPT !.on = @ \ {"close"}]
             d == IF "close" \in s.on THEN SocketClose(t) ELSE t
  <1>1. /\ s \in Client /\ Legible(s) /\ Conns(s) /\ Turns(s) /\ Place(server, s) /\ Whys(server, s)
        /\ s.conn \in {"disconnecting", "disconnected"} => (s.grabbed => quits = "desktopname" \/ Stale(s))
    BY BaseParts DEF Hold
  <1>2. t \in Client /\ Same(s, t, {"chan"}) /\ t.chan = "closed"
    <2>1. s \in Client
      BY <1>1
    <2>2. t \in Client /\ t.chan = "closed"
      BY <2>1, ZenonT(60) DEF Client
    <2>3. Same(s, t, {"chan"})
      BY <2>1 DEF Client, Same, Parts
    <2> QED BY <2>2, <2>3
  <1>3. SocketClose(t) = x
    BY DEF SocketClose
  <1> HIDE DEF t
  <1>4. /\ t.conn = s.conn /\ t.q = s.q /\ t.out = s.out /\ t.init = s.init /\ t.scheme = s.scheme /\ t.tight = s.tight
        /\ t.ven = s.ven /\ t.venLength = s.venLength /\ t.ard = s.ard /\ t.ra2 = s.ra2 /\ t.asked = s.asked
        /\ t.resumes = s.resumes /\ t.creds = s.creds /\ t.version = s.version /\ t.go = s.go
        /\ t.listening = s.listening /\ t.grabbed = s.grabbed /\ t.on = s.on
        /\ t.inStep = s.inStep /\ t.why = s.why /\ t.attached = s.attached /\ t.timer = s.timer
        /\ t.clean = s.clean /\ t.seen = s.seen /\ t.late = s.late
    BY <1>2 DEF Same, Parts
  <1>5. /\ (Owing(t) <=> Owing(s)) /\ (Quiet(t) <=> Quiet(s)) /\ (Past(t) <=> Past(s))
        /\ \A fields : Lacks(t, fields) <=> Lacks(s, fields)
    BY <1>4 DEF Owing, Quiet, Lacks, Past
  <1>6. (Stale(t) <=> Stale(s)) /\ (Alive(t) <=> Alive(s)) /\ (Dry(t) <=> Dry(s))
    BY <1>4, <1>5 DEF Stale, Alive, Dry
  <1>7. Standing(t)
    <2>1. Standing(s)
      BY <1>1, ConnsStand
    <2> QED BY <1>2, <1>4, <1>5, <1>6, <2>1 DEF Standing
  <1>8. Turns(t)
    BY <1>1, <1>4, <1>5 DEF Turns
  <1>9. Place(server, t)
    BY <1>1, <1>4 DEF Place, Untight
  <1>10. \A v : Because(server, s, v) => Because(server, t, v)
    BY <1>2, <1>4 DEF Because
  <1>11. Whys(server, t)
    BY <1>1, <1>4, <1>5, <1>10 DEF Whys
  <1>12. Alive(s) /\ ~Stale(s) => Heard(server, t)
    <2>1. \A rest : Awaits(server, s, rest) => Awaits(server, t, rest)
      BY <1>4 DEF Awaits, Ahead, OfScheme
    <2> QED BY <2>1 DEF Hold, Talk, Heard
  <1>15. Legible(t)
    BY <1>1, <1>4, <1>5, <1>6 DEF Legible, Cut
  <1>13. CASE "close" \notin s.on
    <2>1. d = t
      BY <1>13
    <2>2. s.conn \in {"disconnecting", "disconnected"}
      BY <1>1, <1>13 DEF Conns, Client
    <2>3. Conns(t)
      BY <1>1, <1>2, <1>4, <1>5, <1>6, <2>2 DEF Conns
    <2>4. Base(server, t)
      BY <1>1, <1>2, <1>4, <1>6, <1>8, <1>9, <1>11, <1>15, <2>3 DEF Base
    <2>5. Hold(server, t, <<>>)
      BY <1>4, <1>6, <1>12, <2>2, <2>4 DEF Hold, Talk, Heard
    <2> QED BY <1>4, <1>6, <2>1, <2>5 DEF t
  <1>14. CASE "close" \in s.on
    <2>1. /\ Ended(t, e) /\ e.go = FALSE
          /\ \/ e.why = t.why /\ e.clean = t.clean
             \/ e.why \in {"closed", t.why} /\ e.clean = FALSE
      <3>1. CASE t.conn = "connected"
        BY <1>2, <1>4, <1>7, <3>1, DisconnectedEnds
      <3>2. CASE t.conn = "disconnecting"
        <4>1. Disconnecting(t) = t
          BY <3>2 DEF Disconnecting
        <4> QED BY <1>2, <1>4, <1>7, <3>2, <4>1, DisconnectedEnds
      <3>3. CASE t.conn \notin {"connected", "disconnecting"}
        <4>1. t.conn = "disconnected" => ~t.timer
          BY <1>1, <1>4 DEF Conns
        <4>2. "closed" \in Reasons
          BY DEF Reasons
        <4>3. e = Fail(t, "closed")
          BY <3>3
        <4> HIDE DEF e
        <4> QED BY <1>2, <1>7, <4>1, <4>2, <4>3, FailEnds
      <3> QED BY <3>1, <3>2, <3>3
    <2> HIDE DEF e
    <2>2. e \in Client /\ e.conn = "disconnected"
      BY <2>1 DEF Ended
    <2>3. Because(server, t, e.why) /\ (e.why # "none" => ~e.clean)
      <3>1. Because(server, t, t.why) /\ (t.why # "none" => ~t.clean)
        BY <1>11 DEF Whys
      <3>2. Because(server, t, "closed")
        BY <1>2 DEF Because
      <3> QED BY <2>1, <3>1, <3>2
    <2>4. /\ t.conn # "connecting" /\ Past(t) => server.accepts /\ server.types # <<>>
          /\ t.conn \in {"disconnecting", "disconnected"} => (t.grabbed => quits = "desktopname" \/ Stale(t))
          /\ Owing(t) \/ t.ra2 # "none" \/ t.ard # "none" => Stale(t) \/ Heard(server, t)
          /\ Legible(t)
      <3>1. t.conn # "connecting" /\ Past(t) => server.accepts /\ server.types # <<>>
        BY <1>11 DEF Whys
      <3>2. Owing(t) \/ t.ra2 # "none" \/ t.ard # "none" => Alive(t)
        BY DEF Alive
      <3> QED BY <1>1, <1>4, <1>6, <1>12, <1>15, <3>1, <3>2
    <2>5. Hold(server, e, <<>>) /\ (Alive(e) /\ ~Stale(e) /\ Dry(t) => Dry(e))
      BY <1>2, <1>7, <1>8, <1>9, <2>1, <2>3, <2>4, EndedHolds
    <2>6. (Alive(e) => Alive(t)) /\ (Stale(e) <=> Stale(t))
      BY <1>2, <1>7, <2>1, EndAlive
    <2>7. e.on \ {"close"} \in SUBSET {"open", "message", "close"}
      BY <2>2 DEF Client
    <2>8. /\ Hold(server, x, <<>>) /\ x.go = e.go /\ (Alive(x) <=> Alive(e)) /\ (Stale(x) <=> Stale(e))
          /\ (Dry(x) <=> Dry(e))
      BY <2>2, <2>5, <2>7, OnHolds
    <2>9. d = x
      BY <1>3, <1>14
    <2> HIDE DEF x, d
    <2>10. Hold(server, d, <<>>) /\ d.go = FALSE /\ (Alive(d) /\ ~Stale(d) => Dry(d))
      BY <1>6, <2>1, <2>5, <2>6, <2>8, <2>9
    <2> QED BY <2>10 DEF d, t
  <1> QED BY <1>13, <1>14

\* The application gives up.
LEMMA GivesUpHolds ==
    ASSUME NEW server \in Peers, NEW s, NEW w \in Seq(Tokens), Hold(server, s, w),
           Alive(s) /\ ~Stale(s) => Dry(s)
    PROVE  LET d == Disconnect(s)
           IN Hold(server, d, w) /\ d.go = s.go /\ (Alive(d) /\ ~Stale(d) => Dry(d))
  <1> DEFINE d == Disconnect(s)
  <1>1. s \in Client
    BY DEF Hold, Base
  <1>2. Hold(server, d, w) /\ (Alive(d) /\ ~Stale(d) /\ Dry(s) => Dry(d))
    BY DisconnectHolds
  <1>3. /\ MayEnd(s, d)
        /\ Same(s, d, {"conn", "grabbed", "attached", "listening", "chan", "timer", "on", "ra2", "init"})
        /\ d.conn = s.conn \/ d.conn = "disconnecting"
    <2>1. CASE s.conn \in Open
      BY <1>1, <2>1, DisconnectFacts
    <2>2. CASE s.conn \notin Open
      <3>1. MayEnd(s, d) /\ Same(s, d, {"on", "ra2", "init"})
        BY <1>1, <2>2, DisconnectFacts
      <3> QED BY <3>1 DEF Same, Parts
    <2> QED BY <2>1, <2>2
  <1> HIDE DEF d
  <1>4. /\ d.scheme = s.scheme /\ d.asked = s.asked /\ d.resumes = s.resumes /\ d.ard = s.ard /\ d.seen = s.seen
        /\ d.go = s.go
    BY <1>3 DEF Same, Parts
  <1>5. d.ra2 # "none" => s.ra2 # "none"
    BY <1>3 DEF MayEnd
  <1>6. (Alive(d) => Alive(s)) /\ (Stale(d) <=> Stale(s))
    BY <1>3, <1>4, <1>5 DEF Alive, Stale, Owing, Past
  <1> QED BY <1>2, <1>4, <1>6 DEF d
----------------------------------------------------------------------------
(***************************************************************************)
(* The invariant, and what it says to the reader.                          *)
(***************************************************************************)

\* While the loop goes round, nobody is asked for anything; between two steps
\* nothing is left in the queue that could have been read.
IInv ==
    /\ quits \in Quits /\ peer \in Peers /\ Honest(peer) /\ wire \in Seq(Tokens)
    /\ Hold(peer, c, wire)
    /\ c.go => c.conn = "connecting" /\ c.chan = "open" /\ ~Quiet(c)
    /\ ~c.go /\ Alive(c) /\ ~Stale(c) => Dry(c)

LEMMA InitIInv == Init => IInv
  <1> SUFFICES ASSUME Init PROVE IInv
    OBVIOUS
  <1>1. quits \in Quits /\ peer \in Servers /\ wire = Greeting(peer, peer.repeater)
    BY DEF Init
  <1>2. peer \in Peers /\ Honest(peer)
    BY <1>1, ServersAssumption, NoneIsAccepted DEF Peers, Honest
  <1>3. wire \in Seq(Tokens) /\ peer.repeater \in BOOLEAN
    BY <1>1, <1>2, GreetingFacts DEF Peers
  <1>4. PICK creds \in Given, open \in BOOLEAN :
          c = [conn |-> "connecting", init |-> IF open THEN "ProtocolVersion" ELSE "none", version |-> "none",
               scheme |-> "none", tight |-> FALSE, ven |-> 0, venLength |-> 0, ard |-> "none", ra2 |-> "none",
               creds |-> creds, grabbed |-> FALSE, attached |-> TRUE, timer |-> FALSE, resumes |-> 0, go |-> FALSE,
               chan |-> IF open THEN "open" ELSE "connecting", on |-> {"open", "message", "close"},
               listening |-> TRUE, q |-> <<>>, out |-> <<>>, asked |-> FALSE, seen |-> <<>>, clean |-> TRUE,
               late |-> {}, why |-> "none", inStep |-> TRUE]
    BY DEF Init
  <1> DEFINE init == IF open THEN "ProtocolVersion" ELSE "none"
             chan == IF open THEN "open" ELSE "connecting"
  <1>5. /\ init \in {"none", "ProtocolVersion"} /\ chan \in {"connecting", "open"}
        /\ (init = "none" <=> chan = "connecting") /\ creds \in SUBSET Fields
    BY <1>4, GivenAssumption
  <1> HIDE DEF init, chan
  <1>6. c = [conn |-> "connecting", init |-> init, version |-> "none",
               scheme |-> "none", tight |-> FALSE, ven |-> 0, venLength |-> 0, ard |-> "none", ra2 |-> "none",
               creds |-> creds, grabbed |-> FALSE, attached |-> TRUE, timer |-> FALSE, resumes |-> 0, go |-> FALSE,
               chan |-> chan, on |-> {"open", "message", "close"},
               listening |-> TRUE, q |-> <<>>, out |-> <<>>, asked |-> FALSE, seen |-> <<>>, clean |-> TRUE,
               late |-> {}, why |-> "none", inStep |-> TRUE]
    BY <1>4 DEF init, chan
  <1>7. /\ c.conn = "connecting" /\ c.version = "none" /\ c.scheme = "none" /\ c.tight = FALSE /\ c.ven = 0
        /\ c.ard = "none" /\ c.ra2 = "none" /\ c.grabbed = FALSE /\ c.timer = FALSE /\ c.resumes = 0 /\ c.go = FALSE
        /\ c.on = {"open", "message", "close"} /\ c.listening = TRUE /\ c.q = <<>> /\ c.out = <<>>
        /\ c.asked = FALSE /\ c.seen = <<>> /\ c.clean = TRUE /\ c.late = {} /\ c.why = "none" /\ c.inStep = TRUE
        /\ c.init = init /\ c.chan = chan
    BY <1>6
  <1>8. c \in Client
    <2>1. init \in InitStates
      BY <1>5 DEF InitStates
    <2>2. <<>> \in Seq(Tokens) /\ <<>> \in Seq(Messages) /\ <<>> \in Seq(Events) /\ "none" \in Reasons
      BY EmptySeq DEF Reasons
    <2>3. 0 \in 0 .. 4 /\ 0 \in Nat
      OBVIOUS
    <2> QED BY <1>5, <1>6, <2>1, <2>2, <2>3 DEF Client
  <1>9. ~Owing(c) /\ ~Quiet(c) /\ ~Past(c) /\ ~Stale(c)
    BY <1>7, SeenFacts DEF Owing, Quiet, Past, Stale
  <1>10. Conns(c)
    BY <1>5, <1>7, <1>9 DEF Conns
  <1>11. Turns(c)
    BY <1>7, <1>9 DEF Turns
  <1>12. Place(peer, c)
    <2>1. Untight(peer, c)
      <3>1. peer.tight = FALSE
        BY <1>1, ServersAssumption
      <3>2. Len(c.out) = 0
        BY <1>7
      <3> QED BY <3>1, <3>2 DEF Untight
    <2> QED BY <1>5, <1>7, <2>1 DEF Place, Early, Late
  <1>13. Whys(peer, c)
    BY <1>7, <1>9 DEF Whys, Because
  <1>14. Talk(peer, c, wire)
    <2>1. <<>> \o wire = wire
      BY <1>3, ConcatEmptySeq
    <2>2. Awaits(peer, c, wire)
      BY <1>1, <1>3, <1>5, <1>7, <2>1 DEF Awaits
    <2>3. Len(c.out) = 0
      BY <1>7
    <2>4. Owes(peer, c, wire, wire)
      BY <1>7, <2>3 DEF Owes
    <2> QED BY <1>3, <1>9, <2>2, <2>4 DEF Talk
  <1>15. Hold(peer, c, wire)
    BY <1>7, <1>8, <1>10, <1>11, <1>12, <1>13, <1>14 DEF Hold, Base, Legible
  <1>16. Dry(c)
    BY <1>5, <1>7 DEF Dry
  <1> QED BY <1>1, <1>2, <1>3, <1>7, <1>15, <1>16 DEF IInv

LEMMA KeepsIInv ==
    ASSUME quits' = quits, quits \in Quits, peer' \in Peers, Honest(peer'), wire' \in Seq(Tokens),
           Hold(peer', c', wire'), c'.go => c'.conn = "connecting" /\ c'.chan = "open" /\ ~Quiet(c'),
           ~c'.go /\ Alive(c') /\ ~Stale(c') => Dry(c')
    PROVE  IInv'
  <1>1. Hold(peer, c, wire)'
    <2>1. Base(peer, c)'
      BY DEF Hold, Base
    <2> QED BY <2>1 DEF Hold
  <1> QED BY <1>1 DEF IInv

LEMMA StepIInv == IInv /\ [Next]_vars => IInv'
  <1> SUFFICES ASSUME IInv, [Next]_vars PROVE IInv'
    OBVIOUS
  <1>1. /\ quits \in Quits /\ peer \in Peers /\ Honest(peer) /\ wire \in Seq(Tokens) /\ Hold(peer, c, wire)
        /\ (c.go => c.conn = "connecting" /\ c.chan = "open" /\ ~Quiet(c))
        /\ (~c.go /\ Alive(c) /\ ~Stale(c) => Dry(c))
    BY DEF IInv
  <1>2. c \in Client /\ c.go \in BOOLEAN
    BY <1>1 DEF Hold, Base, Client
  <1>3. CASE ChannelOpens
    <2>1. Hold(peer, c', wire) /\ c'.go = c.go /\ Dry(c')
      BY <1>1, <1>3, OpensHolds DEF ChannelOpens
    <2> QED BY <1>1, <1>3, <2>1, KeepsIInv DEF ChannelOpens, idle
  <1>4. CASE ServerReplies
    <2> DEFINE msg == Head(c.out)
               peer1 == [peer EXCEPT !.tight = @ \/ msg = ChoseTight]
               d == [c EXCEPT !.out = Tail(@)]
               v == wire \o Reply(peer, msg)
    <2>1. /\ peer1 \in Peers /\ v \in Seq(Tokens) /\ (Honest(peer) => Honest(peer1))
          /\ Hold(peer1, d, v) /\ Same(c, d, {"out"})
          /\ (Quiet(d) <=> Quiet(c)) /\ (Alive(d) <=> Alive(c)) /\ (Stale(d) <=> Stale(c))
      BY <1>1, <1>4, RepliesHold DEF ServerReplies
    <2>2. peer' = peer1 /\ c' = d /\ wire' = v /\ quits' = quits
      BY <1>4 DEF ServerReplies, ChoseTight
    <2> HIDE DEF peer1, d, v
    <2>3. d.go = c.go /\ d.conn = c.conn /\ d.chan = c.chan /\ (Dry(c) => Dry(d))
      <3>1. d.go = c.go /\ d.conn = c.conn /\ d.chan = c.chan /\ d.init = c.init /\ d.q = c.q /\ d.tight = c.tight
        BY <2>1 DEF Same, Parts
      <3> QED BY <3>1 DEF Dry
    <2> QED BY <1>1, <2>1, <2>2, <2>3, KeepsIInv
  <1>5. ASSUME NEW n \in 1 .. Len(wire), Deliver(n) PROVE IInv'
    <2> DEFINE d == [c EXCEPT !.q = @ \o SubSeq(wire, 1, n),
                              !.go = "message" \in c.on /\ c.conn = "connecting"]
               v == SubSeq(wire, n + 1, Len(wire))
    <2>1. /\ Hold(peer, d, v) /\ (d.go => d.conn = "connecting" /\ d.chan = "open" /\ ~Quiet(d))
          /\ (~d.go => ~Alive(d) \/ Stale(d))
      BY <1>1, <1>5, DeliverHolds DEF Deliver
    <2>2. v \in Seq(Tokens)
      BY <1>1, <1>5, SubSeqProperties
    <2>3. peer' = peer /\ c' = d /\ wire' = v /\ quits' = quits
      BY <1>5 DEF Deliver
    <2> HIDE DEF d, v
    <2> QED BY <1>1, <2>1, <2>2, <2>3, KeepsIInv
  <1>6. CASE InitStep
    <2>1. /\ Hold(peer, c', wire) /\ (c'.go => c'.conn = "connecting" /\ c'.chan = "open" /\ ~Quiet(c'))
          /\ (~c'.go /\ Alive(c') /\ ~Stale(c') => Dry(c'))
      BY <1>1, <1>6, InitStepHolds DEF InitStep
    <2> QED BY <1>1, <1>6, <2>1, KeepsIInv DEF InitStep
  <1>7. CASE ResumeAuthentication
    <2>1. Hold(peer, c', wire) /\ c'.go = FALSE /\ (Alive(c') /\ ~Stale(c') => Dry(c'))
      BY <1>1, <1>7, ResumeHolds DEF ResumeAuthentication, idle
    <2> QED BY <1>1, <1>7, <2>1, KeepsIInv DEF ResumeAuthentication
  <1>8. CASE CryptoDone
    <2>1. Hold(peer, c', wire) /\ c'.go = FALSE /\ (Alive(c') /\ ~Stale(c') => Dry(c'))
      BY <1>1, <1>2, <1>8, CryptoHolds DEF CryptoDone, idle
    <2> QED BY <1>1, <1>8, <2>1, KeepsIInv DEF CryptoDone
  <1>9. CASE ARDAuthAsync
    <2>1. Hold(peer, c', wire) /\ c'.go = c.go /\ Dry(c')
      BY <1>1, <1>9, ARDAsyncHolds DEF ARDAuthAsync
    <2> QED BY <1>1, <1>9, <2>1, KeepsIInv DEF ARDAuthAsync, idle
  <1>10. ASSUME NEW creds \in Answers, SendCredentials(creds) PROVE IInv'
    <2>1. Hold(peer, c', wire) /\ c'.go = c.go /\ Alive(c) /\ (Stale(c') <=> Stale(c)) /\ (Dry(c') <=> Dry(c))
      BY <1>1, <1>10, CredentialsHold DEF SendCredentials
    <2> QED BY <1>1, <1>10, <2>1, KeepsIInv DEF SendCredentials, idle
  <1>11. CASE ApproveServer
    <2>1. Hold(peer, c', wire) /\ c'.go = c.go /\ Dry(c')
      BY <1>1, <1>11, ApproveHolds DEF ApproveServer
    <2> QED BY <1>1, <1>11, <2>1, KeepsIInv DEF ApproveServer, idle
  <1>12. CASE AppDisconnects
    <2>1. Hold(peer, c', wire) /\ c'.go = c.go /\ (Alive(c') /\ ~Stale(c') => Dry(c'))
      BY <1>1, <1>12, GivesUpHolds DEF AppDisconnects, idle
    <2> QED BY <1>1, <1>12, <2>1, KeepsIInv DEF AppDisconnects, idle
  <1>13. CASE ChannelCloses
    <2>1. Hold(peer, c', <<>>) /\ c'.go = FALSE /\ (Alive(c') /\ ~Stale(c') => Dry(c'))
      BY <1>1, <1>2, <1>13, ClosesHold DEF ChannelCloses, idle
    <2>2. <<>> \in Seq(Tokens)
      BY EmptySeq
    <2> QED BY <1>1, <1>13, <2>1, <2>2, KeepsIInv DEF ChannelCloses
  <1>14. CASE DisconnectTimeout
    <2>1. Hold(peer, c', wire) /\ c'.go = c.go /\ (Alive(c') /\ ~Stale(c') => Dry(c'))
      BY <1>1, <1>14, TimeoutHolds DEF DisconnectTimeout, idle
    <2> QED BY <1>1, <1>14, <2>1, KeepsIInv DEF DisconnectTimeout, idle
  <1>15. CASE UNCHANGED vars
    BY <1>1, <1>15, KeepsIInv DEF vars
  <1> QED BY <1>3, <1>4, <1>5, <1>6, <1>7, <1>8, <1>9, <1>10, <1>11, <1>12, <1>13, <1>14, <1>15 DEF Next

LEMMA AlwaysIInv == Spec => []IInv
  <1> QED BY InitIInv, StepIInv, PTL DEF Spec

\* Every variable keeps its type, and every field is read as what it is, with any
\* server that keeps to its protocol, however its messages are cut on their way,
\* whenever the crypto library or the user answers, and whatever the application
\* does: but for two things, which the code gets wrong and InStep names. An RA2
\* random delivered in two pieces is misread, and then nothing more is read in the
\* handshake; and the second of ARD's two resumes may read in the session.
THEOREM KeepsInStep == Spec => []Inv
  <1>1. IInv => Inv
    <2> SUFFICES ASSUME IInv PROVE Inv
      OBVIOUS
    <2>1. quits \in Quits /\ wire \in Seq(Tokens) /\ c \in Client /\ Legible(c)
      BY DEF IInv, Hold, Base
    <2>2. TypeOK
      BY <2>1 DEF TypeOK, Client
    <2>3. InStep
      BY <2>1 DEF InStep, StaleResume, CutRandom, Legible, Cut, Stale, Past
    <2> QED BY <2>2, <2>3 DEF Inv
  <1> QED BY <1>1, AlwaysIInv, PTL

\* A connection comes up only with a server that accepted the client, and the
\* handshake fails only for a reason the server gave.
THEOREM OutcomeIsAgreed == Spec => []Outcome
  <1>1. IInv => Outcome
    <2> SUFFICES ASSUME IInv PROVE Outcome
      OBVIOUS
    <2>1. Base(peer, c)
      BY DEF IInv, Hold
    <2>2. c \in Client /\ Whys(peer, c)
      BY <2>1, BaseParts
    <2>3. Past(c) => peer.accepts /\ peer.types # <<>>
      <3>1. c.conn = "connecting" => ~Past(c)
        BY <2>1, ConnectingFacts
      <3> QED BY <2>2, <3>1 DEF Whys
    <2>4. (c.why # "none" => ~c.clean) /\ Because(peer, c, c.why) /\ c.why \in Reasons
      BY <2>2 DEF Whys, Client
    <2> QED BY <2>3, <2>4 DEF Outcome, Because, Past, Reasons
  <1> QED BY <1>1, AlwaysIInv, PTL

\* What the application is told ends with one "disconnect", after which nothing is
\* announced, and no handler is left behind.
THEOREM DisconnectIsLast == Spec => []LastWord
  <1>1. IInv => LastWord
    <2> SUFFICES ASSUME IInv PROVE LastWord
      OBVIOUS
    <2>1. Base(peer, c)
      BY DEF IInv, Hold
    <2>2. c \in Client /\ Conns(c)
      BY <2>1, BaseParts
    <2>3. c.conn \in {"disconnecting", "disconnected"} => (c.grabbed => quits = "desktopname" \/ Stale(c))
      BY <2>1, BaseParts
    <2>4. c.conn \in {"connecting", "connected", "disconnecting", "disconnected"}
      BY <2>2 DEF Client
    <2>5. Standing(c)
      BY <2>2, ConnsStand
    <2>6. c.conn = "disconnected" <=> Contains(c.seen, "disconnect")
      BY <2>2, <2>5, StandingSeen
    <2>7. c.seen \in {<<>>, <<"connect">>, <<"connect", "disconnect">>, <<"disconnect">>,
                      <<"securityfailure">>, <<"securityfailure", "disconnect">>}
      BY <2>2, <2>4 DEF Conns
    <2>8. /\ c.late \subseteq Requests \/ Stale(c)
          /\ c.conn \in {"disconnecting", "disconnected"} => ~c.attached /\ ~c.listening
          /\ c.timer <=> c.conn = "disconnecting"
      BY <2>2 DEF Conns
    <2> QED BY <2>3, <2>6, <2>7, <2>8 DEF LastWord, StaleResume, Stale, Past
  <1> QED BY <1>1, AlwaysIInv, PTL
=============================================================================
