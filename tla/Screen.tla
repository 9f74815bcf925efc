------------------------------- MODULE Screen -------------------------------
(***************************************************************************)
(* The remote screen of a connected session: how RFB takes the server's    *)
(* messages off the receive queue, how the decoders of each encoding turn  *)
(* rectangles into drawing operations, how Display draws them in order     *)
(* although pictures and video frames load later, and when RFB asks for    *)
(* the next update.                                                        *)
(*                                                                         *)
(* The stream is a sequence of tokens, a token being what the code waits   *)
(* for or reads in one piece. A position in the stream names a token, so   *)
(* what is drawn is known by the position its pixels came from. The        *)
(* network delivers any number of tokens at once: a decoder stops at       *)
(* every place it can stop, and comes back there.                          *)
(*                                                                         *)
(* `c` is the RFB object with its decoders and its Display. While c.run    *)
(* the loop of _handleMessage goes round, one step of a decoder at a       *)
(* time, and nothing else runs.                                            *)
(***************************************************************************)
EXTENDS Naturals, Sequences, SequencesExt

CONSTANTS
    Messages,      \* what the server may send at a time, as the names of its parts, see
                   \* Part: one update, or other messages
    MaxMessages    \* bound on how often it sends

ASSUME MaxMessagesAssumption == MaxMessages \in Nat

VARIABLES
    sent,          \* every token the server sent: the i-th of that part, and how many
                   \* rectangles its update has still to come, by the number it announced
    todo,          \* the parts of its message that it has still to send
    sends,         \* how often it has sent
    arrived,       \* how many tokens have arrived
    c              \* the client, see Init

vars == <<sent, todo, sends, arrived, c>>

----------------------------------------------------------------------------
(***************************************************************************)
(* The server: what its messages look like, token by token.                *)
(*                                                                         *)
(* A token is of kind k, holds v or n, and d says what it stands for: a    *)
(* drawing operation of that kind, something the client has to act on      *)
(* ("told"), or only a part of something ("none").                         *)
(***************************************************************************)

Of(k, v, n, d) == [k |-> k, v |-> v, n |-> n, d |-> d]
Tok(k) == Of(k, "none", 0, "none")
Val(k, v) == Of(k, v, 0, "none")
Num(k, n) == Of(k, "none", n, "none")
Does(d, token) == Of(token.k, token.v, token.n, d)

\* A rectangle in encoding v. What n says depends on the encoding: its rows, its
\* tiles or, for Tight, whether it is empty (0), small (1) or compressed (2).
Rect(v, n) == Of("rect", v, n, "none")
Zipped(stream) == Does("blit", Val("zdata", stream))
Marker(v) == Val("marker", v)

Part == [
    header |-> <<Val("msg", "FramebufferUpdate"), Tok("rects")>>,
    raw |-> <<Rect("raw", 2), Does("blit", Tok("line")), Does("blit", Tok("line"))>>,
    nothing |-> <<Rect("raw", 0)>>,
    copyrect |-> <<Rect("copyrect", 1), Does("copy", Tok("from"))>>,
    rre |-> <<Rect("rre", 1), Does("fill", Num("back", 1)), Does("fill", Tok("subrect"))>>,
    hextile |-> <<Rect("hextile", 4),
                  Val("sub", "some"), Tok("colours"), Tok("count"), Does("blit", Tok("subrects")),
                  Does("fill", Val("sub", "blank")),
                  Val("sub", "raw"), Does("blit", Tok("pixels")),
                  Val("sub", "plain"), Does("blit", Tok("colours"))>>,
    zlib |-> <<Rect("zlib", 1), Tok("len"), Zipped("zlib")>>,
    zrle |-> <<Rect("zrle", 1), Tok("len"), Zipped("zrle")>>,
    fill |-> <<Rect("tight", 1), Val("ctl", "fill"), Does("fill", Tok("pixel"))>>,
    photo |-> <<Rect("tight", 2), Val("ctl", "jpeg"), Tok("len"), Does("img", Tok("image"))>>,
    png |-> <<Rect("tightPNG", 2), Val("ctl", "png"), Tok("len"), Does("img", Tok("image"))>>,
    dots |-> <<Rect("tight", 1), Val("ctl", "basic"), Does("blit", Tok("few"))>>,
    basic |-> <<Rect("tight", 2), Val("ctl", "basic"), Tok("len"), Zipped("tight")>>,
    reset |-> <<Rect("tight", 2), Of("ctl", "filter", 1, "none"), Val("filter", "gradient"), Tok("len"), Zipped("tight")>>,
    palette |-> <<Rect("tight", 2), Val("ctl", "filter"), Val("filter", "palette"),
                  Tok("colours"), Tok("palette"), Tok("len"), Zipped("tight")>>,
    jpeg |-> <<Rect("jpeg", 1), Marker("SOI"), Marker("tables"), Tok("body"), Marker("SOF"), Tok("body"),
               Marker("SOS"), Tok("body"), Does("img", Marker("EOI"))>>,
    bare |-> <<Rect("jpeg", 1), Marker("SOI"), Marker("SOF"), Tok("body"), Does("img", Marker("EOI"))>>,
    key |-> <<Rect("h264", 1), Val("h264", "reset"), Does("frame", Val("payload", "key"))>>,
    delta |-> <<Rect("h264", 1), Tok("h264"), Does("frame", Val("payload", "delta"))>>,
    last |-> <<Rect("LastRect", 0)>>,
    cursor |-> <<Rect("Cursor", 1), Does("told", Tok("cursor"))>>,
    vmware |-> <<Rect("VMwareCursor", 1), Tok("type"), Tok("pad"), Does("told", Tok("cursor"))>>,
    name |-> <<Rect("DesktopName", 0), Tok("len"), Does("told", Tok("text"))>>,
    leds |-> <<Rect("QEMULedEvent", 0), Does("told", Tok("leds"))>>,
    keys |-> <<Rect("QEMUExtendedKeyEvent", 0)>>,
    buttons |-> <<Rect("ExtendedMouseButtons", 0)>>,
    size |-> <<Rect("DesktopSize", 1)>>,
    layout |-> <<Rect("ExtendedDesktopSize", 2), Tok("screens"), Does("told", Tok("layout"))>>,
    \* the messages that are no updates
    bell |-> <<Does("told", Val("msg", "Bell"))>>,
    continuous |-> <<Does("told", Val("msg", "EndOfContinuousUpdates"))>>,
    fence |-> <<Val("msg", "ServerFence"), Tok("fence"), Does("told", Tok("payload"))>>,
    xvp |-> <<Val("msg", "XVP"), Does("told", Val("xvp", "init"))>>,
    text |-> <<Val("msg", "ServerCutText"), Num("len", 1), Does("told", Tok("text"))>>,
    caps |-> <<Val("msg", "ServerCutText"), Num("len", 2), Val("flags", "caps"), Does("told", Tok("sizes"))>>,
    request |-> <<Val("msg", "ServerCutText"), Num("len", 1), Does("told", Val("flags", "request"))>>,
    peek |-> <<Val("msg", "ServerCutText"), Num("len", 1), Does("told", Val("flags", "peek"))>>,
    notify |-> <<Val("msg", "ServerCutText"), Num("len", 1), Does("told", Val("flags", "notify"))>>,
    provide |-> <<Val("msg", "ServerCutText"), Num("len", 2), Val("flags", "provide"), Does("told", Tok("data"))>>]

Rects == {"raw", "nothing", "copyrect", "rre", "hextile", "zlib", "zrle", "fill", "photo", "png", "dots",
          "basic", "reset", "palette", "jpeg", "bare", "key", "delta", "last", "cursor", "vmware",
          "name", "leds", "keys", "buttons", "size", "layout"}
NoUpdates == {"bell", "continuous", "fence", "xvp", "text", "caps", "request", "peek", "notify", "provide"}
Parts == {"header"} \cup Rects \cup NoUpdates

\* An update consists of rectangles, a LastRect being its last.
ASSUME MessagesAssumption ==
    Messages \subseteq {m \in Seq(Rects) \cup Seq(NoUpdates) :
                          m # <<>> /\ \A i \in 1 .. Len(m) - 1 : m[i] # "last"}

IsUpdate(m) == Head(m) \in Rects

Size(part) == Len(Part[part])
Token(p) == Part[sent[p].part][sent[p].i]
Tokens(part, left) == [i \in 1 .. Size(part) |-> [part |-> part, i |-> i, left |-> left]]

\* Where a part ends, and where the update or other message it belongs to does.
Closes(p) == sent[p].i = Size(sent[p].part)
Ends == {p \in 1 .. Len(sent) : Closes(p) /\ (sent[p].left = 0 \/ sent[p].part = "last")}

\* The blocks of data among the first n tokens that a later block of their zlib
\* stream depends on: Tight's streams can be reset.
Resets(p) == Token(p).k = "ctl" /\ Token(p).n = 1
Blocks(n) == {p \in 1 .. n : /\ Token(p).k = "zdata"
                             /\ Token(p).v = "tight" => \A q \in p .. n : ~Resets(q)}

Drawing == {"blit", "fill", "copy", "img", "frame"}

----------------------------------------------------------------------------
(***************************************************************************)
(* The client, the receive queue and the display.                          *)
(***************************************************************************)

Init ==
    /\ sent = <<>> /\ todo = <<>> /\ sends = 0 /\ arrived = 0
    /\ \E viewOnly \in BOOLEAN :
       c = [run |-> FALSE,
            at |-> 0,                               \* tokens taken off the receive queue
            ok |-> TRUE,                            \* each was read as what it is
            fresh |-> TRUE, first |-> FALSE,        \* the next, the last read starts the buffer
            viewOnly |-> viewOnly,
            failed |-> FALSE,
            asked |-> TRUE,                         \* an update request is unanswered
            cont |-> FALSE, canCont |-> FALSE,      \* continuous updates: enabled, supported
            flushing |-> FALSE, flushed |-> FALSE,  \* waits for the display; the promise resolved
            rects |-> 0, enc |-> "none", n |-> 0,   \* _FBU
            size |-> 2,                             \* of the framebuffer
            \* the decoders
            lines |-> 0, subrects |-> 0, tiles |-> 0, lastsub |-> "none",
            len |-> {},                             \* the decoders that have read a length
            inflated |-> {},                        \* the blocks in the zlib streams
            ctl |-> "none", filter |-> "none", colours |-> FALSE,
            segments |-> {}, cached |-> FALSE, video |-> FALSE,
            \* the display: what waits, and what was done, an operation "flip" being
            \* that the canvas is brought up to date
            queue |-> <<>>, drawn |-> <<>>,
            \* the clipboard, and everything the client said and was told
            caps |-> {}, text |-> FALSE, pasted |-> FALSE, said |-> <<>>, told |-> <<>>]

Waits(s, n) == arrived - s.at < n
Ahead(s, i) == Token(s.at + i)
Now(s) == Token(s.at)

Take(s, kinds) ==
    [s EXCEPT !.at = @ + Len(kinds), !.fresh = FALSE, !.first = s.fresh /\ Len(kinds) = 1,
              !.ok = @ /\ \A i \in 1 .. Len(kinds) : Ahead(s, i).k = kinds[i]]

Wait(s) == [s EXCEPT !.run = FALSE]
Fail(s) == [s EXCEPT !.run = FALSE, !.failed = TRUE]
Say(s, what) == [s EXCEPT !.said = Append(@, what)]
Tell(s) == [s EXCEPT !.told = Append(@, s.at)]

\* A message was handled: the loop goes on while something is there to handle.
Return(s) == [s EXCEPT !.run = ~Waits(s, 1)]

IsDrawing(op) == op.d # "flip"
Missing(op) == op.st \in {"loading", "broken"}

\* mutant: an operation that needs not wait is drawn before those that do
ScanReady(s) ==
    [s EXCEPT !.queue = SelectSeq(@, Missing),
              !.drawn = @ \o SelectSeq(s.queue, LAMBDA op : ~Missing(op)),
              !.flushed = @ \/ (s.flushing /\ ~\E i \in 1 .. Len(s.queue) : Missing(s.queue[i]))]

\* Draws from the head of the queue, up to the first picture that is not there.
\* When that leaves nothing the promise of flush() is kept.
ScanRenderQ(s) ==
    LET n == CHOOSE n \in 0 .. Len(s.queue) :
               /\ \A i \in 1 .. n : ~Missing(s.queue[i])
               /\ n < Len(s.queue) => Missing(s.queue[n + 1])
    IN [s EXCEPT !.queue = SubSeq(@, n + 1, Len(@)),
                 !.drawn = @ \o SubSeq(s.queue, 1, n),
                 !.flushed = @ \/ (n = Len(s.queue) /\ s.flushing)]

\* What is drawn takes its pixels from what was read last. An operation that has
\* to wait copies them, but from where the array begins: for a view of the
\* receive buffer that is the start of the buffer.
Op(s, d, st) == [d |-> d, p |-> s.at, own |-> TRUE, st |-> st]
Draw(s, d, view) ==
    IF s.queue = <<>> THEN [s EXCEPT !.drawn = Append(@, Op(s, d, "ready"))]
    ELSE [s EXCEPT !.queue = Append(@, [Op(s, d, "ready") EXCEPT !.own = ~view \/ s.first])]

\* A picture or a video frame is drawn when the browser has decoded it.
DrawLater(s, d, st) == [s EXCEPT !.queue = Append(@, Op(s, d, st))]

\* mutant: what waits is not waited for
FlipAtOnce(s) == [s EXCEPT !.drawn = Append(@, Op(s, "flip", "ready"))]

\* The canvas is brought up to date, after what waits.
Flip(s) == Draw(s, "flip", FALSE)

Resize(s, n) ==
    LET t == IF n = s.size THEN s ELSE Flip([s EXCEPT !.size = n])
    IN IF t.cont THEN Say(t, "enableContinuousUpdates") ELSE t

\* The rectangle is finished, and with the last one the update: it is shown, and
\* the next is asked for unless the server sends them by itself.
Finish(s) ==
    LET t == [s EXCEPT !.rects = @ - 1, !.enc = "none"]
    IN IF t.rects > 0 THEN t
       ELSE Return([Flip(t) EXCEPT !.asked = @ \/ ~t.cont])

----------------------------------------------------------------------------
(***************************************************************************)
(* The decoders. Each takes one step, and is left as it is to be resumed.  *)
(***************************************************************************)

RawRect(s) ==
    LET left == IF s.lines = 0 THEN s.n ELSE s.lines
        t == [Draw(Take(s, <<"line">>), "blit", TRUE) EXCEPT !.lines = left - 1]
    IN IF s.n = 0 THEN Finish(s)
       ELSE IF Waits(s, 1) THEN Wait([s EXCEPT !.lines = left])
       ELSE IF left = 1 THEN Finish(t) ELSE t

CopyRect(s) ==
    LET t == Take(s, <<"from">>)
    IN IF Waits(s, 1) THEN Wait(s)
       ELSE Finish(IF s.n = 0 THEN t ELSE Draw(t, "copy", FALSE))

RRERect(s) ==
    LET head == s.subrects = 0
        t == Draw(Take(s, IF head THEN <<"back">> ELSE <<"subrect">>), "fill", FALSE)
        u == [t EXCEPT !.subrects = IF head THEN Now(t).n ELSE @ - 1]
    IN IF Waits(s, 1) THEN Wait(s)
       ELSE IF u.subrects = 0 THEN Finish(u) ELSE u

\* A tile is only taken when all of it is there.
TileKinds == [blank |-> <<"sub">>, raw |-> <<"sub", "pixels">>, plain |-> <<"sub", "colours">>,
              some |-> <<"sub", "colours", "count", "subrects">>]
HextileRect(s) ==
    LET left == IF s.tiles = 0 THEN s.n ELSE s.tiles
        sub == Ahead(s, 1).v
        t == Take(s, TileKinds[sub])
        u == IF sub # "blank" THEN Draw(t, "blit", sub = "raw")
             ELSE IF s.lastsub = "raw" THEN t ELSE Draw(t, "fill", FALSE)
        v == [u EXCEPT !.tiles = left - 1, !.lastsub = sub]
    IN IF left = 0 THEN Finish(s)
       ELSE IF Waits(s, 1) THEN Wait([s EXCEPT !.tiles = left])
       ELSE IF sub \notin DOMAIN TileKinds THEN Fail(s)
       ELSE IF Waits(s, Len(TileKinds[sub])) THEN Wait([s EXCEPT !.tiles = left])
       ELSE IF left = 1 THEN Finish(v) ELSE v

\* Reads the length and then the data of decoder d, and goes on with Use.
WithData(s, d, kind, Use(_)) ==
    IF Waits(s, 1) THEN Wait(s)
    ELSE IF d \notin s.len THEN [Take(s, <<"len">>) EXCEPT !.len = @ \cup {d}]
    ELSE Use([Take(s, <<kind>>) EXCEPT !.len = @ \ {d}])

\* Inflating a block of a stream needs every block before it, since the reset.
Inflate(s, z) ==
    IF {p \in s.inflated : Token(p).v = z} = {p \in Blocks(s.at) : Token(p).v = z /\ p < s.at}
    THEN Draw([s EXCEPT !.inflated = @ \cup {s.at}], "blit", FALSE)
    ELSE Fail(s)

ZlibRect(s) ==
    LET Use(t) == Finish(Inflate(t, "zlib"))
    IN IF s.n = 0 THEN Finish(s) ELSE WithData(s, "zlib", "zdata", Use)

ZRLERect(s) ==
    LET Use(t) == Finish(Inflate(t, "zrle")) IN WithData(s, "zrle", "zdata", Use)

EndTight(s) == Finish([s EXCEPT !.ctl = "none", !.filter = "none"])

FillRect(s) ==
    IF Waits(s, 1) THEN Wait(s) ELSE EndTight(Draw(Take(s, <<"pixel">>), "fill", FALSE))

\* The pictures of Tight and TightPNG. An empty one is not drawn.
PictureRect(s) ==
    LET Use(t) == EndTight(IF t.n = 0 THEN t ELSE DrawLater(t, "img", "loading"))
    IN WithData(s, "tight", "image", Use)

\* The pixels, or palette indices, of a basic rectangle. A small one is not
\* compressed, and an empty one has none.
Pixels(s) ==
    LET Use(t) == EndTight([Inflate(t, "tight") EXCEPT !.colours = FALSE])
        Few(t) == EndTight([Draw(t, "blit", FALSE) EXCEPT !.colours = FALSE])
    IN IF s.n = 0 THEN EndTight(s)
       ELSE IF s.n = 2 THEN WithData(s, "tight", "zdata", Use)
       ELSE IF Waits(s, 1) THEN Wait(s) ELSE Few(Take(s, <<"few">>))

CopyFilter(s) == Pixels(s)
GradientFilter(s) == Pixels(s)
PaletteFilter(s) ==
    IF s.colours THEN Pixels(s)
    ELSE IF Waits(s, 2) THEN Wait(s)
    ELSE [Take(s, <<"colours", "palette">>) EXCEPT !.colours = TRUE]

BasicRect(s) ==
    IF s.filter = "palette" THEN PaletteFilter(s)
    ELSE IF s.filter = "copy" THEN CopyFilter(s)
    ELSE IF s.filter = "gradient" THEN GradientFilter(s)
    ELSE IF s.ctl = "basic" THEN [s EXCEPT !.filter = "copy"]
    ELSE IF Waits(s, 1) THEN Wait(s)
    ELSE LET t == Take(s, <<"filter">>) IN [t EXCEPT !.filter = Now(t).v]

\* Tight, and TightPNG, which has its pictures in another format.
TightRect(s) ==
    IF s.ctl = "none" THEN
        IF Waits(s, 1) THEN Wait(s)
        ELSE [Take(s, <<"ctl">>) EXCEPT !.ctl = Ahead(s, 1).v,
                !.inflated = {p \in @ : Token(p).v = "tight" => Ahead(s, 1).n # 1}]
    ELSE IF s.ctl = "fill" THEN FillRect(s)
    ELSE IF s.ctl = "jpeg" \/ (s.ctl = "png" /\ s.enc = "tightPNG") THEN PictureRect(s)
    ELSE IF s.ctl \in {"basic", "filter"} /\ s.enc = "tight" THEN BasicRect(s)
    ELSE Fail(s)

\* A picture that is sent segment by segment, and may leave out its tables: they
\* are then those of the picture before. The scan has no length: where it ends
\* is only known when the next marker is there.
JPEGRect(s) ==
    LET type == Ahead(s, 1).v
        need == CASE type \in {"SOI", "EOI"} -> 1 [] type = "SOS" -> 3 [] OTHER -> 2
        t == [Take(s, IF need = 1 THEN <<"marker">> ELSE <<"marker", "body">>)
              EXCEPT !.segments = @ \cup {type}]
        tables == "tables" \in t.segments
        u == DrawLater([t EXCEPT !.segments = {}, !.cached = @ \/ tables], "img",
                       IF tables \/ s.cached THEN "loading" ELSE "broken")
    IN IF Waits(s, 1) \/ Waits(s, need) THEN Wait(s)
       ELSE IF type # "EOI" THEN t
       ELSE IF "SOF" \notin t.segments THEN Fail(t)
       ELSE Finish(u)

\* A frame can be decoded from a key frame on. A reset forgets the decoder.
H264Rect(s) ==
    LET t == Take(s, <<"h264", "payload">>)
        video == (s.video /\ Ahead(s, 1).v # "reset") \/ Now(t).v = "key"
    IN IF Waits(s, 2) THEN Wait(s)
       ELSE Finish([IF video THEN DrawLater(t, "frame", "loading") ELSE t EXCEPT !.video = video])

----------------------------------------------------------------------------
(***************************************************************************)
(* Rectangles that are no pictures, and the rectangles of an update.       *)
(***************************************************************************)

\* Read in one piece, or not at all.
Pseudo(s, kinds) ==
    IF Waits(s, Len(kinds)) THEN Wait(s) ELSE Finish(Tell(Take(s, kinds)))
HandleVMwareCursor(s) == Pseudo(s, <<"type", "pad", "cursor">>)
HandleCursor(s) == Pseudo(s, <<"cursor">>)
HandleDesktopName(s) == Pseudo(s, <<"len", "text">>)
HandleLedEvent(s) == Pseudo(s, <<"leds">>)

HandleExtendedDesktopSize(s) ==
    IF Waits(s, 2) THEN Wait(s)
    ELSE Finish(Resize(Tell(Take(s, <<"screens", "layout">>)), s.n))

HandleDataRect(s) ==
    CASE s.enc = "raw" -> RawRect(s)
      [] s.enc = "copyrect" -> CopyRect(s)
      [] s.enc = "rre" -> RRERect(s)
      [] s.enc = "hextile" -> HextileRect(s)
      [] s.enc = "zlib" -> ZlibRect(s)
      [] s.enc = "zrle" -> ZRLERect(s)
      [] s.enc \in {"tight", "tightPNG"} -> TightRect(s)
      [] s.enc = "jpeg" -> JPEGRect(s)
      [] s.enc = "h264" -> H264Rect(s)
      [] OTHER -> Fail(s)

HandleRect(s) ==
    CASE s.enc = "LastRect" -> Finish([s EXCEPT !.rects = 1])
      [] s.enc = "VMwareCursor" -> HandleVMwareCursor(s)
      [] s.enc = "Cursor" -> HandleCursor(s)
      [] s.enc \in {"QEMUExtendedKeyEvent", "ExtendedMouseButtons"} -> Finish(s)
      [] s.enc = "DesktopName" -> HandleDesktopName(s)
      [] s.enc = "DesktopSize" -> Finish(Resize(s, s.n))
      [] s.enc = "ExtendedDesktopSize" -> HandleExtendedDesktopSize(s)
      [] s.enc = "QEMULedEvent" -> HandleLedEvent(s)
      [] OTHER -> HandleDataRect(s)

\* mutant: the previous frame need not be drawn yet
UpdateHeaderNoFlush(s) ==
    IF Waits(s, 2) THEN Wait(s)
    ELSE LET t == Take(s, <<"msg", "rects">>) IN [t EXCEPT !.rects = sent[t.at].left]

\* An update begins. The previous one is to be drawn first.
UpdateHeader(s) ==
    LET t == Take(s, <<"msg", "rects">>)
        u == [t EXCEPT !.rects = sent[t.at].left]
    IN IF Waits(s, 2) THEN Wait(s)
       ELSE IF s.queue # <<>> THEN Wait([u EXCEPT !.flushing = TRUE])
       ELSE u

\* One step of the loop over an update's rectangles: a header, or a decoder's step.
FramebufferUpdate(s) ==
    IF s.enc # "none" THEN HandleRect(s)
    ELSE IF Waits(s, 1) THEN Wait(s)
    ELSE LET t == Take(s, <<"rect">>) IN [t EXCEPT !.enc = Now(t).v, !.n = Now(t).n]

----------------------------------------------------------------------------
(***************************************************************************)
(* The other messages.                                                     *)
(***************************************************************************)

\* mutant: a fence whose payload is not there yet is not given back whole
HandleServerFenceHalf(s) ==
    IF Waits(s, 2) THEN Wait(s)
    ELSE IF Waits(s, 3) THEN Wait([s EXCEPT !.at = @ + 1])
    ELSE Return(Say(Tell(Take(s, <<"msg", "fence", "payload">>)), "fence"))

HandleServerFence(s) ==
    IF Waits(s, 3) THEN Wait(s)
    ELSE Return(Say(Tell(Take(s, <<"msg", "fence", "payload">>)), "fence"))

\* The server can turn continuous updates on. It says so again when they end.
EndOfContinuousUpdates(s) ==
    LET t == Tell(Take(s, <<"msg">>))
        first == ~s.canCont
        u == [t EXCEPT !.canCont = TRUE, !.cont = first]
    IN Return(IF first THEN Say(u, "enableContinuousUpdates") ELSE u)

HandleXvpMsg(s) ==
    IF Waits(s, 2) THEN Wait(s) ELSE Return(Tell(Take(s, <<"msg", "xvp">>)))

ServerActions == {"request", "peek", "notify", "provide"}

\* What an extended clipboard message asks for, its flags just read.
ExtendedClipboard(s) ==
    LET action == Now(s).v
        answer == CASE action = "request" /\ s.text /\ "provide" \in s.caps -> <<"provide">>
                    [] action = "peek" /\ "notify" \in s.caps -> <<"notify">>
                    [] action = "notify" /\ "request" \in s.caps -> <<"request">>
                    [] OTHER -> <<>>
    IN IF action = "caps" THEN Say(Tell([Take(s, <<"sizes">>) EXCEPT !.caps = ServerActions]), "caps")
       ELSE IF action = "provide" THEN
           IF s.viewOnly THEN s ELSE Tell([Take(s, <<"data">>) EXCEPT !.text = FALSE])
       ELSE IF s.viewOnly THEN Tell(s)
       ELSE [Tell(s) EXCEPT !.said = @ \o answer]

\* The content is waited for as a whole.
HandleServerCutText(s) ==
    LET t == Take(s, <<"msg", "len">>)
    IN IF Waits(s, 2) \/ Waits(s, 2 + Ahead(s, 2).n) THEN Wait(s)
       ELSE IF Ahead(t, 1).k = "text" THEN Return(Tell(Take(t, <<"text">>)))
       ELSE Return(ExtendedClipboard(Take(t, <<"flags">>)))

\* One step of the loop of _handleMessage.
NormalMsg(s) ==
    LET type == Ahead(s, 1).v
    IN IF s.flushing THEN Wait(s)
       ELSE IF s.rects > 0 THEN FramebufferUpdate(s)
       ELSE IF Ahead(s, 1).k # "msg" THEN Fail(s)
       ELSE CASE type = "FramebufferUpdate" -> UpdateHeader(s)
              [] type = "Bell" -> Return(Tell(Take(s, <<"msg">>)))
              [] type = "ServerCutText" -> HandleServerCutText(s)
              [] type = "EndOfContinuousUpdates" -> EndOfContinuousUpdates(s)
              [] type = "ServerFence" -> HandleServerFence(s)
              [] type = "XVP" -> HandleXvpMsg(s)
              [] OTHER -> Fail(s)

----------------------------------------------------------------------------
(***************************************************************************)
(* The steps. A promise's callback runs before anything else does.         *)
(***************************************************************************)

idle == ~c.run /\ ~c.flushed

\* The server sends an update when it was asked, or when updates are continuous,
\* and what depends on something earlier only after it.
Legal(m) ==
    LET Earlier(part, i) == \/ \E p \in 1 .. Len(sent) : sent[p].part = part
                            \/ \E j \in 1 .. i - 1 : m[j] = part
    IN /\ IsUpdate(m) => c.asked \/ c.cont
       /\ \A i \in 1 .. Len(m) :
            /\ m[i] = "continuous" => ~Earlier("continuous", i)
            /\ m[i] = "bare" => Earlier("jpeg", i)
            /\ m[i] = "delta" => Earlier("key", i)
            /\ m[i] \in {"request", "peek", "notify"} => Earlier("caps", i)
            /\ m[i] = "provide" => Contains(c.said, "request") /\ ~Earlier("provide", i)

ServerSends(m) ==
    /\ ~c.run /\ todo = <<>> /\ sends < MaxMessages /\ Legal(m)
    /\ todo' = IF IsUpdate(m) THEN <<"header">> \o m ELSE m
    /\ sends' = sends + 1
    /\ c' = [c EXCEPT !.asked = @ /\ (~IsUpdate(m) \/ c.cont)]
    /\ UNCHANGED <<sent, arrived>>

\* Writes a part. The number of an update that ends with a LastRect is one that
\* it does not reach.
ServerWrites ==
    /\ todo # <<>>
    /\ LET left == IF Head(todo) \in NoUpdates THEN 0
                   ELSE IF Last(todo) = "last" THEN Len(todo) ELSE Len(todo) - 1
       IN sent' = sent \o Tokens(Head(todo), left)
    /\ todo' = Tail(todo)
    /\ UNCHANGED <<sends, arrived, c>>

\* The queue starts anew when everything in it was read, and is compacted when
\* there is no room left in it.
Deliver(n, full) ==
    /\ idle
    /\ arrived' = arrived + n
    /\ c' = [c EXCEPT !.run = ~c.failed, !.fresh = @ \/ full \/ c.at = arrived]
    /\ UNCHANGED <<sent, todo, sends>>

HandleMessage ==
    /\ c.run
    /\ c' = NormalMsg(c)
    /\ UNCHANGED <<sent, todo, sends, arrived>>

PictureDecoded(i) ==
    /\ idle /\ c.queue[i].st = "loading"
    /\ c' = [c EXCEPT !.queue[i].st = "decoded"]
    /\ UNCHANGED <<sent, todo, sends, arrived>>

\* Only the head of the queue was found missing and is listened to.
PictureLoaded ==
    /\ idle /\ c.queue # <<>> /\ c.queue[1].st = "decoded"
    /\ c' = ScanRenderQ(c)
    /\ UNCHANGED <<sent, todo, sends, arrived>>

\* mutant: nobody looks at what arrived in the meantime
FlushedForgets ==
    /\ c.flushed /\ ~c.run
    /\ c' = [c EXCEPT !.flushing = FALSE, !.flushed = FALSE]
    /\ UNCHANGED <<sent, todo, sends, arrived>>

\* What waited for the display is resumed.
Flushed ==
    /\ c.flushed /\ ~c.run
    /\ c' = [c EXCEPT !.flushing = FALSE, !.flushed = FALSE, !.run = ~Waits(c, 1)]
    /\ UNCHANGED <<sent, todo, sends, arrived>>

ClipboardPasteFrom ==
    /\ idle /\ ~c.pasted /\ ~c.viewOnly
    /\ c' = IF "notify" \in c.caps
            THEN [Say(c, "notify") EXCEPT !.pasted = TRUE, !.text = TRUE]
            ELSE [Say(c, "cuttext") EXCEPT !.pasted = TRUE]
    /\ UNCHANGED <<sent, todo, sends, arrived>>

Next ==
    \/ \E m \in Messages : ServerSends(m)
    \/ ServerWrites
    \/ \E n \in 1 .. Len(sent) - arrived, full \in BOOLEAN : Deliver(n, full)
    \/ HandleMessage
    \/ \E i \in 1 .. Len(c.queue) : PictureDecoded(i)
    \/ PictureLoaded
    \/ Flushed
    \/ ClipboardPasteFrom

\* What was begun is sent and arrives, JavaScript runs, and the browser decodes pictures.
Fairness ==
    /\ WF_vars(ServerWrites)
    /\ WF_vars(\E n \in 1 .. Len(sent) - arrived, full \in BOOLEAN : Deliver(n, full))
    /\ WF_vars(HandleMessage) /\ WF_vars(Flushed) /\ WF_vars(PictureLoaded)
    /\ WF_vars(\E i \in 1 .. Len(c.queue) : PictureDecoded(i))

Spec == Init /\ [][Next]_vars /\ Fairness

----------------------------------------------------------------------------
(***************************************************************************)
(* Properties.                                                             *)
(***************************************************************************)

Encodings == {"raw", "copyrect", "rre", "hextile", "zlib", "zrle", "tight", "tightPNG", "jpeg", "h264",
              "LastRect", "Cursor", "VMwareCursor", "DesktopName", "DesktopSize",
              "ExtendedDesktopSize", "QEMULedEvent", "QEMUExtendedKeyEvent", "ExtendedMouseButtons"}
OpType == [d : Drawing \cup {"flip"}, p : Nat, own : BOOLEAN,
           st : {"ready", "loading", "decoded", "broken"}]

TypeOK ==
    /\ sent \in Seq([part : Parts, i : Nat, left : Nat]) /\ todo \in Seq(Parts) /\ sends <= MaxMessages
    /\ c.at \in Nat /\ c.at <= arrived /\ arrived <= Len(sent)
    /\ c.enc \in Encodings \cup {"none"}
    /\ {c.rects, c.n, c.size, c.lines, c.subrects, c.tiles} \subseteq Nat
    /\ c.filter \in {"none", "copy", "palette", "gradient"}
    /\ c.ctl \in {"none", "fill", "jpeg", "png", "basic", "filter"}
    /\ c.queue \in Seq(OpType) /\ c.drawn \in Seq(OpType)
    /\ c.caps \subseteq ServerActions
    /\ {c.run, c.ok, c.fresh, c.first, c.viewOnly, c.failed, c.asked, c.cont, c.canCont,
        c.flushing, c.flushed, c.colours, c.cached, c.video, c.text, c.pasted} \subseteq BOOLEAN

\* Everything the client draws, in its order. What is drawn is named by where it
\* was sent.
Log == c.drawn \o c.queue
Drawings == {i \in 1 .. Len(Log) : IsDrawing(Log[i])}
Flips == {i \in 1 .. Len(Log) : ~IsDrawing(Log[i])}

\* However the network cuts the stream, every field is read as the one it is, no
\* block of a zlib stream is missed, nothing legal makes the session fail, and
\* whatever the client has to act on it acts on once, in the order it was sent.
InStep ==
    /\ c.ok /\ ~c.failed
    /\ {c.told[i] : i \in 1 .. Len(c.told)} = {p \in 1 .. c.at : Token(p).d = "told"}
    /\ \A i, j \in 1 .. Len(c.told) : i < j => c.told[i] < c.told[j]

\* Every variable keeps its type, and the client keeps in step with the stream.
Inv == TypeOK /\ InStep

\* What the client was sent is drawn exactly once and in the order it was sent,
\* pictures that load late included: a later operation may copy or cover them.
\* Apart from raw pixels each operation draws what it was given.
DrawnInOrder ==
    /\ {Log[i].p : i \in Drawings} = {p \in 1 .. c.at : Token(p).d \in Drawing}
    /\ \A i, j \in Drawings : i < j => Log[i].p < Log[j].p
    /\ \A i \in Drawings :
         /\ Log[i].d = Token(Log[i].p).d
         /\ Log[i].own \/ Token(Log[i].p).k \in {"line", "pixels"}

\* The canvas shows whole updates: whatever is still queued, it is brought up to
\* date with all of an update and nothing of the next. (A new size brings it up
\* to date as well.)
Resized == {p \in 1 .. Len(sent) : Closes(p) /\ sent[p].part \in {"size", "layout"}}
WholeUpdates ==
    \A f \in Flips : \E e \in Ends \cup Resized :
      e <= c.at /\ \A i \in Drawings : i < f <=> Log[i].p <= e

\* The render queue is bounded by one update: the next is not begun before.
OneUpdateQueued ==
    \A i, j \in 1 .. Len(c.queue) :
      IsDrawing(c.queue[i]) /\ IsDrawing(c.queue[j])
        => ~\E e \in Ends : c.queue[i].p <= e /\ e < c.queue[j].p

\* Everything sent is in the end read and shown, and the next update asked for:
\* the picture never stands still for a reason of the client.
Settled ==
    /\ todo = <<>> /\ c.at = Len(sent)
    /\ c.queue = <<>> /\ (c.drawn # <<>> => ~IsDrawing(Last(c.drawn)))
    /\ c.asked \/ c.cont
KeepsUp == []<>Settled

\* What docs/API-internal.md says of blitImage: it blits the pixels it is given.
BlitsItsPixels == \A i \in Drawings : Log[i].own
=============================================================================
