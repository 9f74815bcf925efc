--------------------------- MODULE ScreenProofs ---------------------------
(***************************************************************************)
(* The screen keeps in step with the stream, draws what it was sent in the *)
(* order it was sent, shows whole updates and queues no more than one: for *)
(* every set of messages and however often they are sent.                  *)
(*                                                                         *)
(* IInv says where in the stream the client is. The stream is made of      *)
(* whole parts (Stream), and the server will complete what it began        *)
(* (Pending). Between rectangles the decoders keep nothing (Before); within*)
(* one the client is at a token at which its decoder may stop, and what    *)
(* the decoder keeps says which (Within, Left). So whatever a decoder waits*)
(* for next is what comes next. Up to where the client is, everything to   *)
(* be drawn is in the log, in order, and everything to be told was told    *)
(* (Whole). What is queued is of the update under way (Current), since the *)
(* next is not begun before the display was flushed.                       *)
(*                                                                         *)
(* A decoder's step is put together from few kinds of steps, each of which *)
(* has lemmas of its own: to take tokens (Take), to draw, inflate or tell, *)
(* to finish a rectangle. They are stated for any state s of the client,   *)
(* as the operators of the model are.                                      *)
(***************************************************************************)
EXTENDS Screen, SequenceTheorems, WellFoundedInduction, TLAPS

----------------------------------------------------------------------------

Subs == {"blank", "raw", "plain", "some"}
Ctls == {"fill", "jpeg", "png", "basic", "filter"}
Filters == {"copy", "palette", "gradient"}
Segments == {"SOI", "tables", "SOF", "SOS", "EOI"}
\* What a token can be taken for, and what the client can say.
Kinds == {"msg", "rects", "rect", "line", "from", "back", "subrect", "sub", "pixels", "colours", "count",
          "subrects", "len", "zdata", "pixel", "image", "few", "palette", "filter", "ctl", "marker", "body",
          "h264", "payload", "type", "pad", "cursor", "text", "leds", "screens", "layout", "fence", "xvp",
          "flags", "sizes", "data"}
Words == {"enableContinuousUpdates", "fence", "caps", "notify", "cuttext", "provide", "request"}

\* The client's fields, and what a step leaves alone: the two states of the client
\* differ in nothing but the fields named.
Client ==
    [run : BOOLEAN, at : Nat, ok : BOOLEAN, fresh : BOOLEAN, first : BOOLEAN,
     viewOnly : BOOLEAN, failed : BOOLEAN, asked : BOOLEAN, cont : BOOLEAN, canCont : BOOLEAN,
     flushing : BOOLEAN, flushed : BOOLEAN,
     rects : Nat, enc : Encodings \cup {"none"}, n : Nat, size : Nat,
     lines : Nat, subrects : Nat, tiles : Nat, lastsub : Subs \cup {"none"},
     len : SUBSET {"zlib", "zrle", "tight"}, inflated : SUBSET Nat,
     ctl : Ctls \cup {"none"}, filter : Filters \cup {"none"}, colours : BOOLEAN,
     segments : SUBSET Segments, cached : BOOLEAN, video : BOOLEAN,
     queue : Seq(OpType), drawn : Seq(OpType),
     caps : SUBSET ServerActions, text : BOOLEAN, pasted : BOOLEAN,
     said : Seq(Words), told : Seq(Nat)]

Fields ==
    {"run", "at", "ok", "fresh", "first", "viewOnly", "failed", "asked", "cont", "canCont",
     "flushing", "flushed", "rects", "enc", "n", "size", "lines", "subrects", "tiles", "lastsub",
     "len", "inflated", "ctl", "filter", "colours", "segments", "cached", "video", "queue", "drawn",
     "caps", "text", "pasted", "said", "told"}
Same(s, t, changed) == \A field \in Fields \ changed : t[field] = s[field]

----------------------------------------------------------------------------
(***************************************************************************)
(* The stream: every part is there as a whole, and a part is followed by   *)
(* what its message still needs.                                           *)
(***************************************************************************)

Items == [part : Parts, i : Nat, left : Nat]

\* What may come next: a message when one has ended, or its next rectangle.
Begins(t) == t.i = 1 /\ t.part \in {"header"} \cup NoUpdates
Continues(t, left) == t.i = 1 /\ t.part \in Rects /\ t.left = left
Follows(p, q) ==
    IF ~Closes(p) THEN sent[q] = [part |-> sent[p].part, i |-> sent[p].i + 1, left |-> sent[p].left]
    ELSE IF p \in Ends THEN Begins(sent[q])
    ELSE Continues(sent[q], sent[p].left - 1)

Stream ==
    /\ sent \in Seq(Items)
    /\ \A p \in 1 .. Len(sent) : /\ sent[p].i \in 1 .. Size(sent[p].part)
                                 /\ sent[p].part = "header" => sent[p].left >= 1
                                 /\ sent[p].part \in NoUpdates => sent[p].left = 0
    /\ sent # <<>> => Begins(sent[1]) /\ Closes(Len(sent))
    /\ \A p \in 1 .. Len(sent) - 1 : Follows(p, p + 1)

\* What the message under way still needs.
Ended == sent = <<>> \/ Len(sent) \in Ends
Remaining == IF Last(todo) = "last" THEN Len(todo) + 1 ELSE Len(todo)
Pending ==
    /\ todo \in Seq(Parts)
    /\ \A i \in 1 .. Len(todo) - 1 : todo[i] # "last"
    /\ Ended => \/ \A i \in 1 .. Len(todo) : todo[i] \in NoUpdates
                \/ /\ Len(todo) > 1 /\ todo[1] = "header"
                   /\ \A i \in 2 .. Len(todo) : todo[i] \in Rects
    /\ ~Ended => /\ todo # <<>> /\ sent[Len(sent)].left = Remaining
                 /\ \A i \in 1 .. Len(todo) : todo[i] \in Rects

\* A delta frame comes after a key frame, and data of the clipboard only to one
\* that may ask for it.
Keys == {p \in 1 .. Len(sent) : sent[p].part = "key" /\ Closes(p)}
Depends ==
    /\ \A p \in 1 .. Len(sent) : sent[p].part = "delta" => \E q \in Keys : q < p
    /\ \A i \in 1 .. Len(todo) : todo[i] = "delta" => Keys # {} \/ \E j \in 1 .. i - 1 : todo[j] = "key"
    /\ c.viewOnly => /\ \A p \in 1 .. Len(sent) : sent[p].part # "provide"
                     /\ \A i \in 1 .. Len(todo) : todo[i] # "provide"

----------------------------------------------------------------------------
(***************************************************************************)
(* The client: what it has made of the first n tokens, and where in the    *)
(* stream it is.                                                           *)
(***************************************************************************)

Heard(told, n) ==
    /\ {told[i] : i \in 1 .. Len(told)} = {p \in 1 .. n : Token(p).d = "told"}
    /\ \A i, j \in 1 .. Len(told) : i < j => told[i] < told[j]

Shows(op) ==
    IF IsDrawing(op) THEN op.d = Token(op.p).d /\ (op.own \/ Token(op.p).k \in {"line", "pixels"})
    ELSE op.p \in Ends \cup Resized
Logged(log, n) ==
    /\ \A i \in 1 .. Len(log) : log[i].p \in 1 .. n /\ Shows(log[i])
    /\ \A i, j \in 1 .. Len(log) : i < j => /\ log[i].p <= log[j].p
                                            /\ IsDrawing(log[j]) => log[i].p < log[j].p
    /\ \A p \in 1 .. n : Token(p).d \in Drawing => \E i \in 1 .. Len(log) : IsDrawing(log[i]) /\ log[i].p = p

\* Between the drawing operations queued no update ends, nor after them up to n.
Single(queue) ==
    \A i, j \in 1 .. Len(queue) :
      IsDrawing(queue[i]) /\ IsDrawing(queue[j]) => ~\E e \in Ends : queue[i].p <= e /\ e < queue[j].p
Current(queue, n) ==
    \A i \in 1 .. Len(queue) : IsDrawing(queue[i]) => ~\E e \in Ends : queue[i].p <= e /\ e < n

Core(s, n) ==
    /\ s \in Client /\ s.ok /\ ~s.failed
    /\ s.at <= arrived /\ arrived \in Nat /\ arrived <= Len(sent)
    /\ Heard(s.told, n) /\ Logged(s.drawn \o s.queue, n) /\ Single(s.queue)
    /\ \A p \in Keys : p <= n => s.video
    \* it may type or only view as before, and one that only views asks for nothing
    /\ s.viewOnly = c.viewOnly /\ (s.viewOnly => ~Contains(s.said, "request"))
\* ... and the zlib streams have been fed.
Whole(s, n) == Core(s, n) /\ s.inflated = Blocks(n)

\* In a rectangle that was begun.
Begun(s) ==
    /\ ~s.flushing /\ ~s.flushed /\ Current(s.queue, s.at)
    /\ s.at > 0 /\ sent[s.at].part \in Rects /\ s.rects = sent[s.at].left + 1
    /\ s.enc = Part[sent[s.at].part][1].v /\ s.n = Part[sent[s.at].part][1].n
Amid(s, n) == Whole(s, n) /\ Begun(s)

\* What the decoders keep while they wait: nothing but in the fields that are busy.
Nothing == [lines |-> 0, subrects |-> 0, tiles |-> 0, len |-> {}, ctl |-> "none", filter |-> "none",
            colours |-> FALSE, segments |-> {}]
Work == {"lines", "subrects", "tiles", "len", "ctl", "filter", "colours", "segments"}
Idle(s, busy) == \A field \in Work \ busy : s[field] = Nothing[field]
Rests(s) == Idle(s, {})

\* Where a decoder may be left, after the i-th token of the part, and with what.
AtRaw(s, i) ==
    /\ Idle(s, {"lines"})
    /\ \/ i = 1 /\ s.lines \in {0, 2}
       \/ i = 2 /\ s.lines = 1
AtRRE(s, i) ==
    /\ Idle(s, {"subrects"})
    /\ \/ i = 1 /\ s.subrects = 0
       \/ i = 2 /\ s.subrects = 1
AtHextile(s, i) ==
    /\ Idle(s, {"tiles"})
    /\ \/ i = 1 /\ s.tiles \in {0, 4}
       \/ i = 5 /\ s.tiles = 3 /\ s.lastsub = "some"
       \/ i = 6 /\ s.tiles = 2
       \/ i = 8 /\ s.tiles = 1
AtBlock(s, i, z) ==
    /\ Idle(s, {"len"})
    /\ \/ i = 1 /\ s.len = {}
       \/ i = 2 /\ s.len = {z}
AtFill(s, i) ==
    /\ Idle(s, {"ctl"})
    /\ \/ i = 1 /\ s.ctl = "none"
       \/ i = 2 /\ s.ctl = "fill"
AtPicture(s, i, ctl) ==
    /\ Idle(s, {"ctl", "len"})
    /\ \/ i = 1 /\ s.ctl = "none" /\ s.len = {}
       \/ i = 2 /\ s.ctl = ctl /\ s.len = {}
       \/ i = 3 /\ s.ctl = ctl /\ s.len = {"tight"}
AtBasic(s, i) ==
    /\ Idle(s, {"ctl", "filter", "len"})
    /\ \/ i = 1 /\ s.ctl = "none" /\ s.filter = "none" /\ s.len = {}
       \/ i = 2 /\ s.ctl = "basic" /\ s.filter \in {"none", "copy"} /\ s.len = {}
       \/ i = 3 /\ s.ctl = "basic" /\ s.filter = "copy" /\ s.len = {"tight"}
AtReset(s, i) ==
    /\ Idle(s, {"ctl", "filter", "len"})
    /\ \/ i = 1 /\ s.ctl = "none" /\ s.filter = "none" /\ s.len = {}
       \/ i = 2 /\ s.ctl = "filter" /\ s.filter = "none" /\ s.len = {}
       \/ i = 3 /\ s.ctl = "filter" /\ s.filter = "gradient" /\ s.len = {}
       \/ i = 4 /\ s.ctl = "filter" /\ s.filter = "gradient" /\ s.len = {"tight"}
AtPalette(s, i) ==
    /\ Idle(s, {"ctl", "filter", "colours", "len"})
    /\ \/ i = 1 /\ s.ctl = "none" /\ s.filter = "none" /\ ~s.colours /\ s.len = {}
       \/ i = 2 /\ s.ctl = "filter" /\ s.filter = "none" /\ ~s.colours /\ s.len = {}
       \/ i = 3 /\ s.ctl = "filter" /\ s.filter = "palette" /\ ~s.colours /\ s.len = {}
       \/ i = 5 /\ s.ctl = "filter" /\ s.filter = "palette" /\ s.colours /\ s.len = {}
       \/ i = 6 /\ s.ctl = "filter" /\ s.filter = "palette" /\ s.colours /\ s.len = {"tight"}
AtJPEG(s, i) ==
    /\ Idle(s, {"segments"})
    /\ \/ i = 1 /\ s.segments = {}
       \/ i = 2 /\ s.segments = {"SOI"}
       \/ i = 4 /\ s.segments = {"SOI", "tables"}
       \/ i = 6 /\ s.segments = {"SOI", "tables", "SOF"}
       \/ i = 8 /\ s.segments = {"SOI", "tables", "SOF", "SOS"}
AtBare(s, i) ==
    /\ Idle(s, {"segments"})
    /\ \/ i = 1 /\ s.segments = {}
       \/ i = 2 /\ s.segments = {"SOI"}
       \/ i = 4 /\ s.segments = {"SOI", "SOF"}
Left(s, part, i) ==
    CASE part = "raw" -> AtRaw(s, i)
      [] part = "rre" -> AtRRE(s, i)
      [] part = "hextile" -> AtHextile(s, i)
      [] part \in {"zlib", "zrle"} -> AtBlock(s, i, part)
      [] part = "fill" -> AtFill(s, i)
      [] part = "photo" -> AtPicture(s, i, "jpeg")
      [] part = "png" -> AtPicture(s, i, "png")
      [] part = "dots" -> AtBasic(s, i) /\ i # 3
      [] part = "basic" -> AtBasic(s, i)
      [] part = "reset" -> AtReset(s, i)
      [] part = "palette" -> AtPalette(s, i)
      [] part = "jpeg" -> AtJPEG(s, i)
      [] part = "bare" -> AtBare(s, i)
      [] OTHER -> i = 1 /\ Rests(s)
Within(s) == Amid(s, s.at) /\ Left(s, sent[s.at].part, sent[s.at].i)

\* Between the rectangles of an update, or between messages.
Before(s) ==
    /\ Whole(s, s.at) /\ s.enc = "none" /\ Rests(s)
    /\ s.rects = 0 => (s.at = 0 \/ s.at \in Ends) /\ ~s.flushing /\ (s.run => s.at < arrived)
    /\ s.rects > 0 => /\ s.at > 0 /\ Closes(s.at) /\ s.at \notin Ends /\ sent[s.at].left = s.rects
                      /\ s.flushing \/ Current(s.queue, s.at)
    /\ s.flushed => s.flushing /\ s.queue = <<>>
Good(s) == Before(s) \/ Within(s)

IInv == /\ Stream /\ Pending /\ Depends /\ Good(c) /\ sends \in 0 .. MaxMessages

----------------------------------------------------------------------------
(***************************************************************************)
(* What each part consists of.                                             *)
(***************************************************************************)

LEMMA HeaderPart ==
    /\ Size("header") = 2
    /\ Part["header"][1] = Of("msg", "FramebufferUpdate", 0, "none")
    /\ Part["header"][2] = Of("rects", "none", 0, "none")
  <1>1. Part["header"] = <<Of("msg", "FramebufferUpdate", 0, "none"),
                       Of("rects", "none", 0, "none")>>
    BY DEF Part, Tok, Val, Num, Does, Rect, Zipped, Marker, Of
  <1> QED BY <1>1 DEF Size

LEMMA RawPart ==
    /\ Size("raw") = 3
    /\ Part["raw"][1] = Of("rect", "raw", 2, "none")
    /\ Part["raw"][2] = Of("line", "none", 0, "blit")
    /\ Part["raw"][3] = Of("line", "none", 0, "blit")
  <1>1. Part["raw"] = <<Of("rect", "raw", 2, "none"),
                    Of("line", "none", 0, "blit"),
                    Of("line", "none", 0, "blit")>>
    BY DEF Part, Tok, Val, Num, Does, Rect, Zipped, Marker, Of
  <1> QED BY <1>1 DEF Size

LEMMA NothingPart ==
    /\ Size("nothing") = 1
    /\ Part["nothing"][1] = Of("rect", "raw", 0, "none")
  <1>1. Part["nothing"] = <<Of("rect", "raw", 0, "none")>>
    BY DEF Part, Tok, Val, Num, Does, Rect, Zipped, Marker, Of
  <1> QED BY <1>1 DEF Size

LEMMA CopyrectPart ==
    /\ Size("copyrect") = 2
    /\ Part["copyrect"][1] = Of("rect", "copyrect", 1, "none")
    /\ Part["copyrect"][2] = Of("from", "none", 0, "copy")
  <1>1. Part["copyrect"] = <<Of("rect", "copyrect", 1, "none"),
                         Of("from", "none", 0, "copy")>>
    BY DEF Part, Tok, Val, Num, Does, Rect, Zipped, Marker, Of
  <1> QED BY <1>1 DEF Size

LEMMA RrePart ==
    /\ Size("rre") = 3
    /\ Part["rre"][1] = Of("rect", "rre", 1, "none")
    /\ Part["rre"][2] = Of("back", "none", 1, "fill")
    /\ Part["rre"][3] = Of("subrect", "none", 0, "fill")
  <1>1. Part["rre"] = <<Of("rect", "rre", 1, "none"),
                    Of("back", "none", 1, "fill"),
                    Of("subrect", "none", 0, "fill")>>
    BY DEF Part, Tok, Val, Num, Does, Rect, Zipped, Marker, Of
  <1> QED BY <1>1 DEF Size

LEMMA HextilePart ==
    /\ Size("hextile") = 10
    /\ Part["hextile"][1] = Of("rect", "hextile", 4, "none")
    /\ Part["hextile"][2] = Of("sub", "some", 0, "none")
    /\ Part["hextile"][3] = Of("colours", "none", 0, "none")
    /\ Part["hextile"][4] = Of("count", "none", 0, "none")
    /\ Part["hextile"][5] = Of("subrects", "none", 0, "blit")
    /\ Part["hextile"][6] = Of("sub", "blank", 0, "fill")
    /\ Part["hextile"][7] = Of("sub", "raw", 0, "none")
    /\ Part["hextile"][8] = Of("pixels", "none", 0, "blit")
    /\ Part["hextile"][9] = Of("sub", "plain", 0, "none")
    /\ Part["hextile"][10] = Of("colours", "none", 0, "blit")
  <1>1. Part["hextile"] = <<Of("rect", "hextile", 4, "none"),
                        Of("sub", "some", 0, "none"),
                        Of("colours", "none", 0, "none"),
                        Of("count", "none", 0, "none"),
                        Of("subrects", "none", 0, "blit"),
                        Of("sub", "blank", 0, "fill"),
                        Of("sub", "raw", 0, "none"),
                        Of("pixels", "none", 0, "blit"),
                        Of("sub", "plain", 0, "none"),
                        Of("colours", "none", 0, "blit")>>
    BY DEF Part, Tok, Val, Num, Does, Rect, Zipped, Marker, Of
  <1> QED BY <1>1 DEF Size

LEMMA ZlibPart ==
    /\ Size("zlib") = 3
    /\ Part["zlib"][1] = Of("rect", "zlib", 1, "none")
    /\ Part["zlib"][2] = Of("len", "none", 0, "none")
    /\ Part["zlib"][3] = Of("zdata", "zlib", 0, "blit")
  <1>1. Part["zlib"] = <<Of("rect", "zlib", 1, "none"),
                     Of("len", "none", 0, "none"),
                     Of("zdata", "zlib", 0, "blit")>>
    BY DEF Part, Tok, Val, Num, Does, Rect, Zipped, Marker, Of
  <1> QED BY <1>1 DEF Size

LEMMA ZrlePart ==
    /\ Size("zrle") = 3
    /\ Part["zrle"][1] = Of("rect", "zrle", 1, "none")
    /\ Part["zrle"][2] = Of("len", "none", 0, "none")
    /\ Part["zrle"][3] = Of("zdata", "zrle", 0, "blit")
  <1>1. Part["zrle"] = <<Of("rect", "zrle", 1, "none"),
                     Of("len", "none", 0, "none"),
                     Of("zdata", "zrle", 0, "blit")>>
    BY DEF Part, Tok, Val, Num, Does, Rect, Zipped, Marker, Of
  <1> QED BY <1>1 DEF Size

LEMMA FillPart ==
    /\ Size("fill") = 3
    /\ Part["fill"][1] = Of("rect", "tight", 1, "none")
    /\ Part["fill"][2] = Of("ctl", "fill", 0, "none")
    /\ Part["fill"][3] = Of("pixel", "none", 0, "fill")
  <1>1. Part["fill"] = <<Of("rect", "tight", 1, "none"),
                     Of("ctl", "fill", 0, "none"),
                     Of("pixel", "none", 0, "fill")>>
    BY DEF Part, Tok, Val, Num, Does, Rect, Zipped, Marker, Of
  <1> QED BY <1>1 DEF Size

LEMMA PhotoPart ==
    /\ Size("photo") = 4
    /\ Part["photo"][1] = Of("rect", "tight", 2, "none")
    /\ Part["photo"][2] = Of("ctl", "jpeg", 0, "none")
    /\ Part["photo"][3] = Of("len", "none", 0, "none")
    /\ Part["photo"][4] = Of("image", "none", 0, "img")
  <1>1. Part["photo"] = <<Of("rect", "tight", 2, "none"),
                      Of("ctl", "jpeg", 0, "none"),
                      Of("len", "none", 0, "none"),
                      Of("image", "none", 0, "img")>>
    BY DEF Part, Tok, Val, Num, Does, Rect, Zipped, Marker, Of
  <1> QED BY <1>1 DEF Size

LEMMA PngPart ==
    /\ Size("png") = 4
    /\ Part["png"][1] = Of("rect", "tightPNG", 2, "none")
    /\ Part["png"][2] = Of("ctl", "png", 0, "none")
    /\ Part["png"][3] = Of("len", "none", 0, "none")
    /\ Part["png"][4] = Of("image", "none", 0, "img")
  <1>1. Part["png"] = <<Of("rect", "tightPNG", 2, "none"),
                    Of("ctl", "png", 0, "none"),
                    Of("len", "none", 0, "none"),
                    Of("image", "none", 0, "img")>>
    BY DEF Part, Tok, Val, Num, Does, Rect, Zipped, Marker, Of
  <1> QED BY <1>1 DEF Size

LEMMA DotsPart ==
    /\ Size("dots") = 3
    /\ Part["dots"][1] = Of("rect", "tight", 1, "none")
    /\ Part["dots"][2] = Of("ctl", "basic", 0, "none")
    /\ Part["dots"][3] = Of("few", "none", 0, "blit")
  <1>1. Part["dots"] = <<Of("rect", "tight", 1, "none"),
                     Of("ctl", "basic", 0, "none"),
                     Of("few", "none", 0, "blit")>>
    BY DEF Part, Tok, Val, Num, Does, Rect, Zipped, Marker, Of
  <1> QED BY <1>1 DEF Size

LEMMA BasicPart ==
    /\ Size("basic") = 4
    /\ Part["basic"][1] = Of("rect", "tight", 2, "none")
    /\ Part["basic"][2] = Of("ctl", "basic", 0, "none")
    /\ Part["basic"][3] = Of("len", "none", 0, "none")
    /\ Part["basic"][4] = Of("zdata", "tight", 0, "blit")
  <1>1. Part["basic"] = <<Of("rect", "tight", 2, "none"),
                      Of("ctl", "basic", 0, "none"),
                      Of("len", "none", 0, "none"),
                      Of("zdata", "tight", 0, "blit")>>
    BY DEF Part, Tok, Val, Num, Does, Rect, Zipped, Marker, Of
  <1> QED BY <1>1 DEF Size

LEMMA ResetPart ==
    /\ Size("reset") = 5
    /\ Part["reset"][1] = Of("rect", "tight", 2, "none")
    /\ Part["reset"][2] = Of("ctl", "filter", 1, "none")
    /\ Part["reset"][3] = Of("filter", "gradient", 0, "none")
    /\ Part["reset"][4] = Of("len", "none", 0, "none")
    /\ Part["reset"][5] = Of("zdata", "tight", 0, "blit")
  <1>1. Part["reset"] = <<Of("rect", "tight", 2, "none"),
                      Of("ctl", "filter", 1, "none"),
                      Of("filter", "gradient", 0, "none"),
                      Of("len", "none", 0, "none"),
                      Of("zdata", "tight", 0, "blit")>>
    BY DEF Part, Tok, Val, Num, Does, Rect, Zipped, Marker, Of
  <1> QED BY <1>1 DEF Size

LEMMA PalettePart ==
    /\ Size("palette") = 7
    /\ Part["palette"][1] = Of("rect", "tight", 2, "none")
    /\ Part["palette"][2] = Of("ctl", "filter", 0, "none")
    /\ Part["palette"][3] = Of("filter", "palette", 0, "none")
    /\ Part["palette"][4] = Of("colours", "none", 0, "none")
    /\ Part["palette"][5] = Of("palette", "none", 0, "none")
    /\ Part["palette"][6] = Of("len", "none", 0, "none")
    /\ Part["palette"][7] = Of("zdata", "tight", 0, "blit")
  <1>1. Part["palette"] = <<Of("rect", "tight", 2, "none"),
                        Of("ctl", "filter", 0, "none"),
                        Of("filter", "palette", 0, "none"),
                        Of("colours", "none", 0, "none"),
                        Of("palette", "none", 0, "none"),
                        Of("len", "none", 0, "none"),
                        Of("zdata", "tight", 0, "blit")>>
    BY DEF Part, Tok, Val, Num, Does, Rect, Zipped, Marker, Of
  <1> QED BY <1>1 DEF Size

LEMMA JpegPart ==
    /\ Size("jpeg") = 9
    /\ Part["jpeg"][1] = Of("rect", "jpeg", 1, "none")
    /\ Part["jpeg"][2] = Of("marker", "SOI", 0, "none")
    /\ Part["jpeg"][3] = Of("marker", "tables", 0, "none")
    /\ Part["jpeg"][4] = Of("body", "none", 0, "none")
    /\ Part["jpeg"][5] = Of("marker", "SOF", 0, "none")
    /\ Part["jpeg"][6] = Of("body", "none", 0, "none")
    /\ Part["jpeg"][7] = Of("marker", "SOS", 0, "none")
    /\ Part["jpeg"][8] = Of("body", "none", 0, "none")
    /\ Part["jpeg"][9] = Of("marker", "EOI", 0, "img")
  <1>1. Part["jpeg"] = <<Of("rect", "jpeg", 1, "none"),
                     Of("marker", "SOI", 0, "none"),
                     Of("marker", "tables", 0, "none"),
                     Of("body", "none", 0, "none"),
                     Of("marker", "SOF", 0, "none"),
                     Of("body", "none", 0, "none"),
                     Of("marker", "SOS", 0, "none"),
                     Of("body", "none", 0, "none"),
                     Of("marker", "EOI", 0, "img")>>
    BY DEF Part, Tok, Val, Num, Does, Rect, Zipped, Marker, Of
  <1> QED BY <1>1 DEF Size

LEMMA BarePart ==
    /\ Size("bare") = 5
    /\ Part["bare"][1] = Of("rect", "jpeg", 1, "none")
    /\ Part["bare"][2] = Of("marker", "SOI", 0, "none")
    /\ Part["bare"][3] = Of("marker", "SOF", 0, "none")
    /\ Part["bare"][4] = Of("body", "none", 0, "none")
    /\ Part["bare"][5] = Of("marker", "EOI", 0, "img")
  <1>1. Part["bare"] = <<Of("rect", "jpeg", 1, "none"),
                     Of("marker", "SOI", 0, "none"),
                     Of("marker", "SOF", 0, "none"),
                     Of("body", "none", 0, "none"),
                     Of("marker", "EOI", 0, "img")>>
    BY DEF Part, Tok, Val, Num, Does, Rect, Zipped, Marker, Of
  <1> QED BY <1>1 DEF Size

LEMMA KeyPart ==
    /\ Size("key") = 3
    /\ Part["key"][1] = Of("rect", "h264", 1, "none")
    /\ Part["key"][2] = Of("h264", "reset", 0, "none")
    /\ Part["key"][3] = Of("payload", "key", 0, "frame")
  <1>1. Part["key"] = <<Of("rect", "h264", 1, "none"),
                    Of("h264", "reset", 0, "none"),
                    Of("payload", "key", 0, "frame")>>
    BY DEF Part, Tok, Val, Num, Does, Rect, Zipped, Marker, Of
  <1> QED BY <1>1 DEF Size

LEMMA DeltaPart ==
    /\ Size("delta") = 3
    /\ Part["delta"][1] = Of("rect", "h264", 1, "none")
    /\ Part["delta"][2] = Of("h264", "none", 0, "none")
    /\ Part["delta"][3] = Of("payload", "delta", 0, "frame")
  <1>1. Part["delta"] = <<Of("rect", "h264", 1, "none"),
                      Of("h264", "none", 0, "none"),
                      Of("payload", "delta", 0, "frame")>>
    BY DEF Part, Tok, Val, Num, Does, Rect, Zipped, Marker, Of
  <1> QED BY <1>1 DEF Size

LEMMA LastPart ==
    /\ Size("last") = 1
    /\ Part["last"][1] = Of("rect", "LastRect", 0, "none")
  <1>1. Part["last"] = <<Of("rect", "LastRect", 0, "none")>>
    BY DEF Part, Tok, Val, Num, Does, Rect, Zipped, Marker, Of
  <1> QED BY <1>1 DEF Size

LEMMA CursorPart ==
    /\ Size("cursor") = 2
    /\ Part["cursor"][1] = Of("rect", "Cursor", 1, "none")
    /\ Part["cursor"][2] = Of("cursor", "none", 0, "told")
  <1>1. Part["cursor"] = <<Of("rect", "Cursor", 1, "none"),
                       Of("cursor", "none", 0, "told")>>
    BY DEF Part, Tok, Val, Num, Does, Rect, Zipped, Marker, Of
  <1> QED BY <1>1 DEF Size

LEMMA VmwarePart ==
    /\ Size("vmware") = 4
    /\ Part["vmware"][1] = Of("rect", "VMwareCursor", 1, "none")
    /\ Part["vmware"][2] = Of("type", "none", 0, "none")
    /\ Part["vmware"][3] = Of("pad", "none", 0, "none")
    /\ Part["vmware"][4] = Of("cursor", "none", 0, "told")
  <1>1. Part["vmware"] = <<Of("rect", "VMwareCursor", 1, "none"),
                       Of("type", "none", 0, "none"),
                       Of("pad", "none", 0, "none"),
                       Of("cursor", "none", 0, "told")>>
    BY DEF Part, Tok, Val, Num, Does, Rect, Zipped, Marker, Of
  <1> QED BY <1>1 DEF Size

LEMMA NamePart ==
    /\ Size("name") = 3
    /\ Part["name"][1] = Of("rect", "DesktopName", 0, "none")
    /\ Part["name"][2] = Of("len", "none", 0, "none")
    /\ Part["name"][3] = Of("text", "none", 0, "told")
  <1>1. Part["name"] = <<Of("rect", "DesktopName", 0, "none"),
                     Of("len", "none", 0, "none"),
                     Of("text", "none", 0, "told")>>
    BY DEF Part, Tok, Val, Num, Does, Rect, Zipped, Marker, Of
  <1> QED BY <1>1 DEF Size

LEMMA LedsPart ==
    /\ Size("leds") = 2
    /\ Part["leds"][1] = Of("rect", "QEMULedEvent", 0, "none")
    /\ Part["leds"][2] = Of("leds", "none", 0, "told")
  <1>1. Part["leds"] = <<Of("rect", "QEMULedEvent", 0, "none"),
                     Of("leds", "none", 0, "told")>>
    BY DEF Part, Tok, Val, Num, Does, Rect, Zipped, Marker, Of
  <1> QED BY <1>1 DEF Size

LEMMA KeysPart ==
    /\ Size("keys") = 1
    /\ Part["keys"][1] = Of("rect", "QEMUExtendedKeyEvent", 0, "none")
  <1>1. Part["keys"] = <<Of("rect", "QEMUExtendedKeyEvent", 0, "none")>>
    BY DEF Part, Tok, Val, Num, Does, Rect, Zipped, Marker, Of
  <1> QED BY <1>1 DEF Size

LEMMA ButtonsPart ==
    /\ Size("buttons") = 1
    /\ Part["buttons"][1] = Of("rect", "ExtendedMouseButtons", 0, "none")
  <1>1. Part["buttons"] = <<Of("rect", "ExtendedMouseButtons", 0, "none")>>
    BY DEF Part, Tok, Val, Num, Does, Rect, Zipped, Marker, Of
  <1> QED BY <1>1 DEF Size

LEMMA SizePart ==
    /\ Size("size") = 1
    /\ Part["size"][1] = Of("rect", "DesktopSize", 1, "none")
  <1>1. Part["size"] = <<Of("rect", "DesktopSize", 1, "none")>>
    BY DEF Part, Tok, Val, Num, Does, Rect, Zipped, Marker, Of
  <1> QED BY <1>1 DEF Size

LEMMA LayoutPart ==
    /\ Size("layout") = 3
    /\ Part["layout"][1] = Of("rect", "ExtendedDesktopSize", 2, "none")
    /\ Part["layout"][2] = Of("screens", "none", 0, "none")
    /\ Part["layout"][3] = Of("layout", "none", 0, "told")
  <1>1. Part["layout"] = <<Of("rect", "ExtendedDesktopSize", 2, "none"),
                       Of("screens", "none", 0, "none"),
                       Of("layout", "none", 0, "told")>>
    BY DEF Part, Tok, Val, Num, Does, Rect, Zipped, Marker, Of
  <1> QED BY <1>1 DEF Size

LEMMA BellPart ==
    /\ Size("bell") = 1
    /\ Part["bell"][1] = Of("msg", "Bell", 0, "told")
  <1>1. Part["bell"] = <<Of("msg", "Bell", 0, "told")>>
    BY DEF Part, Tok, Val, Num, Does, Rect, Zipped, Marker, Of
  <1> QED BY <1>1 DEF Size

LEMMA ContinuousPart ==
    /\ Size("continuous") = 1
    /\ Part["continuous"][1] = Of("msg", "EndOfContinuousUpdates", 0, "told")
  <1>1. Part["continuous"] = <<Of("msg", "EndOfContinuousUpdates", 0, "told")>>
    BY DEF Part, Tok, Val, Num, Does, Rect, Zipped, Marker, Of
  <1> QED BY <1>1 DEF Size

LEMMA FencePart ==
    /\ Size("fence") = 3
    /\ Part["fence"][1] = Of("msg", "ServerFence", 0, "none")
    /\ Part["fence"][2] = Of("fence", "none", 0, "none")
    /\ Part["fence"][3] = Of("payload", "none", 0, "told")
  <1>1. Part["fence"] = <<Of("msg", "ServerFence", 0, "none"),
                      Of("fence", "none", 0, "none"),
                      Of("payload", "none", 0, "told")>>
    BY DEF Part, Tok, Val, Num, Does, Rect, Zipped, Marker, Of
  <1> QED BY <1>1 DEF Size

LEMMA XvpPart ==
    /\ Size("xvp") = 2
    /\ Part["xvp"][1] = Of("msg", "XVP", 0, "none")
    /\ Part["xvp"][2] = Of("xvp", "init", 0, "told")
  <1>1. Part["xvp"] = <<Of("msg", "XVP", 0, "none"),
                    Of("xvp", "init", 0, "told")>>
    BY DEF Part, Tok, Val, Num, Does, Rect, Zipped, Marker, Of
  <1> QED BY <1>1 DEF Size

LEMMA TextPart ==
    /\ Size("text") = 3
    /\ Part["text"][1] = Of("msg", "ServerCutText", 0, "none")
    /\ Part["text"][2] = Of("len", "none", 1, "none")
    /\ Part["text"][3] = Of("text", "none", 0, "told")
  <1>1. Part["text"] = <<Of("msg", "ServerCutText", 0, "none"),
                     Of("len", "none", 1, "none"),
                     Of("text", "none", 0, "told")>>
    BY DEF Part, Tok, Val, Num, Does, Rect, Zipped, Marker, Of
  <1> QED BY <1>1 DEF Size

LEMMA CapsPart ==
    /\ Size("caps") = 4
    /\ Part["caps"][1] = Of("msg", "ServerCutText", 0, "none")
    /\ Part["caps"][2] = Of("len", "none", 2, "none")
    /\ Part["caps"][3] = Of("flags", "caps", 0, "none")
    /\ Part["caps"][4] = Of("sizes", "none", 0, "told")
  <1>1. Part["caps"] = <<Of("msg", "ServerCutText", 0, "none"),
                     Of("len", "none", 2, "none"),
                     Of("flags", "caps", 0, "none"),
                     Of("sizes", "none", 0, "told")>>
    BY DEF Part, Tok, Val, Num, Does, Rect, Zipped, Marker, Of
  <1> QED BY <1>1 DEF Size

LEMMA RequestPart ==
    /\ Size("request") = 3
    /\ Part["request"][1] = Of("msg", "ServerCutText", 0, "none")
    /\ Part["request"][2] = Of("len", "none", 1, "none")
    /\ Part["request"][3] = Of("flags", "request", 0, "told")
  <1>1. Part["request"] = <<Of("msg", "ServerCutText", 0, "none"),
                        Of("len", "none", 1, "none"),
                        Of("flags", "request", 0, "told")>>
    BY DEF Part, Tok, Val, Num, Does, Rect, Zipped, Marker, Of
  <1> QED BY <1>1 DEF Size

LEMMA PeekPart ==
    /\ Size("peek") = 3
    /\ Part["peek"][1] = Of("msg", "ServerCutText", 0, "none")
    /\ Part["peek"][2] = Of("len", "none", 1, "none")
    /\ Part["peek"][3] = Of("flags", "peek", 0, "told")
  <1>1. Part["peek"] = <<Of("msg", "ServerCutText", 0, "none"),
                     Of("len", "none", 1, "none"),
                     Of("flags", "peek", 0, "told")>>
    BY DEF Part, Tok, Val, Num, Does, Rect, Zipped, Marker, Of
  <1> QED BY <1>1 DEF Size

LEMMA NotifyPart ==
    /\ Size("notify") = 3
    /\ Part["notify"][1] = Of("msg", "ServerCutText", 0, "none")
    /\ Part["notify"][2] = Of("len", "none", 1, "none")
    /\ Part["notify"][3] = Of("flags", "notify", 0, "told")
  <1>1. Part["notify"] = <<Of("msg", "ServerCutText", 0, "none"),
                       Of("len", "none", 1, "none"),
                       Of("flags", "notify", 0, "told")>>
    BY DEF Part, Tok, Val, Num, Does, Rect, Zipped, Marker, Of
  <1> QED BY <1>1 DEF Size

LEMMA ProvidePart ==
    /\ Size("provide") = 4
    /\ Part["provide"][1] = Of("msg", "ServerCutText", 0, "none")
    /\ Part["provide"][2] = Of("len", "none", 2, "none")
    /\ Part["provide"][3] = Of("flags", "provide", 0, "none")
    /\ Part["provide"][4] = Of("data", "none", 0, "told")
  <1>1. Part["provide"] = <<Of("msg", "ServerCutText", 0, "none"),
                        Of("len", "none", 2, "none"),
                        Of("flags", "provide", 0, "none"),
                        Of("data", "none", 0, "told")>>
    BY DEF Part, Tok, Val, Num, Does, Rect, Zipped, Marker, Of
  <1> QED BY <1>1 DEF Size

----------------------------------------------------------------------------
(***************************************************************************)
(* Moving along the stream.                                                *)
(***************************************************************************)

LEMMA SizeFacts == \A part \in Parts : Size(part) \in Nat /\ Size(part) >= 1
  <1>1. \A part \in Rects : Size(part) \in Nat /\ Size(part) >= 1
    BY RawPart, NothingPart, CopyrectPart, RrePart, HextilePart, ZlibPart, ZrlePart, FillPart, PhotoPart,
       PngPart, DotsPart, BasicPart, ResetPart, PalettePart, JpegPart, BarePart, KeyPart, DeltaPart,
       LastPart, CursorPart, VmwarePart, NamePart, LedsPart, KeysPart, ButtonsPart, SizePart,
       LayoutPart DEF Rects
  <1>2. \A part \in NoUpdates : Size(part) \in Nat /\ Size(part) >= 1
    BY BellPart, ContinuousPart, FencePart, XvpPart, TextPart, CapsPart, RequestPart, PeekPart,
       NotifyPart, ProvidePart DEF NoUpdates
  <1> QED BY <1>1, <1>2, HeaderPart DEF Parts

LEMMA PartKinds == "header" \notin Rects \cup NoUpdates /\ Rects \cap NoUpdates = {} /\ "last" \in Rects
  BY DEF Rects, NoUpdates

\* Every rectangle begins with its encoding.
LEMMA RectFacts ==
    \A part \in Rects : /\ Part[part][1].k = "rect" /\ Part[part][1].d = "none"
                        /\ Part[part][1].v \in Encodings /\ Part[part][1].n \in Nat
  <1> DEFINE Opens(part) == /\ Part[part][1].k = "rect" /\ Part[part][1].d = "none"
                            /\ Part[part][1].v \in Encodings /\ Part[part][1].n \in Nat
  <1> SUFFICES \A part \in Rects : Opens(part)
    OBVIOUS
  <1>1. \A part \in {"raw", "nothing", "copyrect", "rre", "hextile", "zlib", "zrle"} : Opens(part)
    BY RawPart, NothingPart, CopyrectPart, RrePart, HextilePart, ZlibPart, ZrlePart DEF Of, Encodings
  <1>2. \A part \in {"fill", "photo", "png", "dots", "basic", "reset", "palette"} : Opens(part)
    BY FillPart, PhotoPart, PngPart, DotsPart, BasicPart, ResetPart, PalettePart DEF Of, Encodings
  <1>3. \A part \in {"jpeg", "bare", "key", "delta", "last", "cursor"} : Opens(part)
    BY JpegPart, BarePart, KeyPart, DeltaPart, LastPart, CursorPart DEF Of, Encodings
  <1>4. \A part \in {"vmware", "name", "leds", "keys", "buttons", "size", "layout"} : Opens(part)
    BY VmwarePart, NamePart, LedsPart, KeysPart, ButtonsPart, SizePart, LayoutPart DEF Of, Encodings
  <1> HIDE DEF Opens
  <1> QED BY <1>1, <1>2, <1>3, <1>4 DEF Rects

LEMMA StreamParts ==
    ASSUME Stream, NEW p \in 1 .. Len(sent)
    PROVE  /\ sent[p].part \in Parts /\ sent[p].i \in Nat /\ sent[p].left \in Nat
           /\ sent[p].i >= 1 /\ sent[p].i <= Size(sent[p].part)
           /\ Size(sent[p].part) \in Nat /\ Len(sent) \in Nat
  <1>1. sent[p] \in Items /\ Len(sent) \in Nat
    BY ElementOfSeq, LenProperties DEF Stream
  <1>2. sent[p].part \in Parts /\ sent[p].i \in Nat /\ sent[p].left \in Nat
    BY <1>1 DEF Items
  <1> QED BY <1>1, <1>2, SizeFacts DEF Stream

\* A part that was begun goes on.
LEMMA NextToken ==
    ASSUME Stream, NEW p \in 1 .. Len(sent), sent[p].i < Size(sent[p].part)
    PROVE  /\ p + 1 \in 1 .. Len(sent) /\ sent[p + 1].part = sent[p].part
           /\ sent[p + 1].i = sent[p].i + 1 /\ sent[p + 1].left = sent[p].left
           /\ ~Closes(p) /\ p \notin Ends /\ p \notin Keys /\ p \notin Resized
  <1>1. ~Closes(p) /\ p \notin Ends /\ p \notin Keys /\ p \notin Resized
    BY StreamParts DEF Closes, Ends, Keys, Resized
  <1>2. sent # <<>>
    BY DEF Stream
  <1>3. p < Len(sent)
    BY <1>1, <1>2, StreamParts DEF Stream
  <1>4. Follows(p, p + 1)
    BY <1>3, StreamParts DEF Stream
  <1>5. sent[p + 1] = [part |-> sent[p].part, i |-> sent[p].i + 1, left |-> sent[p].left]
    BY <1>1, <1>4 DEF Follows
  <1> QED BY <1>1, <1>3, <1>5, StreamParts

\* Within a part the tokens are those of the part, and nothing ends before the last.
Inside(p, k) ==
    /\ p + k \in 1 .. Len(sent) /\ sent[p + k].part = sent[p].part
    /\ sent[p + k].i = sent[p].i + k /\ sent[p + k].left = sent[p].left
    /\ \A q \in p .. p + k - 1 : ~Closes(q) /\ q \notin Ends /\ q \notin Keys /\ q \notin Resized
LEMMA InsideFacts ==
    ASSUME Stream, NEW p \in 1 .. Len(sent), NEW k \in 0 .. 4, sent[p].i + k <= Size(sent[p].part)
    PROVE  Inside(p, k)
  <1> DEFINE size == Size(sent[p].part)
  <1>a. /\ Len(sent) \in Nat /\ p \in Nat /\ k \in Nat /\ size \in Nat
        /\ sent[p].i \in Nat /\ sent[p].left \in Nat /\ sent[p].i + k <= size
    BY StreamParts
  <1>0. Inside(p, 0)
    BY <1>a DEF Inside
  <1>1. ASSUME NEW j \in 0 .. 3, j < k, Inside(p, j) PROVE Inside(p, j + 1)
    <2>1. /\ p + j \in 1 .. Len(sent) /\ sent[p + j].part = sent[p].part
          /\ sent[p + j].i = sent[p].i + j /\ sent[p + j].left = sent[p].left
      BY <1>1 DEF Inside
    <2>a. sent[p + j].i < Size(sent[p + j].part)
      <3>1. sent[p].i + j < size
        BY <1>1, <1>a
      <3> QED BY <2>1, <3>1
    <2>2. /\ p + j + 1 \in 1 .. Len(sent) /\ sent[p + j + 1].part = sent[p + j].part
          /\ sent[p + j + 1].i = sent[p + j].i + 1 /\ sent[p + j + 1].left = sent[p + j].left
          /\ ~Closes(p + j) /\ p + j \notin Ends /\ p + j \notin Keys /\ p + j \notin Resized
      BY <2>1, <2>a, NextToken
    <2>3. \A q \in p .. p + (j + 1) - 1 : q \in p .. p + j - 1 \/ q = p + j
      BY <1>1, <1>a
    <2>4. \A q \in p .. p + (j + 1) - 1 : ~Closes(q) /\ q \notin Ends /\ q \notin Keys /\ q \notin Resized
      BY <1>1, <2>2, <2>3 DEF Inside
    <2>5. p + (j + 1) = p + j + 1 /\ sent[p].i + (j + 1) = sent[p].i + j + 1
      BY <1>1, <1>a
    <2>6. p + (j + 1) \in 1 .. Len(sent) /\ sent[p + (j + 1)].i = sent[p].i + (j + 1)
      BY <2>1, <2>2, <2>5
    <2>7. sent[p + (j + 1)].part = sent[p].part /\ sent[p + (j + 1)].left = sent[p].left
      BY <2>1, <2>2, <2>5
    <2> QED BY <2>4, <2>6, <2>7 DEF Inside
  <1>2. k = 0 \/ k = 1 \/ k = 2 \/ k = 3 \/ k = 4
    OBVIOUS
  <1>3. 1 <= k => Inside(p, 1)
    BY <1>0, <1>1
  <1>4. 2 <= k => Inside(p, 2)
    BY <1>1, <1>3
  <1>5. 3 <= k => Inside(p, 3)
    BY <1>1, <1>4
  <1>6. 4 <= k => Inside(p, 4)
    BY <1>1, <1>5
  <1> QED BY <1>0, <1>2, <1>3, <1>4, <1>5, <1>6

\* Where a part has ended, or nothing was sent, comes the next one.
LEMMA NextPart ==
    ASSUME Stream, NEW p \in 1 .. Len(sent) - 1, Closes(p)
    PROVE  IF p \in Ends THEN Begins(sent[p + 1]) ELSE Continues(sent[p + 1], sent[p].left - 1)
  BY DEF Stream, Follows

----------------------------------------------------------------------------
(***************************************************************************)
(* What was told and drawn, and what is in the zlib streams, when more of  *)
(* the stream was read.                                                    *)
(***************************************************************************)

LEMMA HeardOn ==
    ASSUME NEW told \in Seq(Nat), NEW a \in Nat, NEW b \in Nat, a <= b, Heard(told, a),
           \A p \in a + 1 .. b : Token(p).d # "told"
    PROVE  Heard(told, b)
  <1>1. \A p \in 1 .. b : p \in 1 .. a \/ p \in a + 1 .. b
    OBVIOUS
  <1>2. \A p \in 1 .. a : p \in 1 .. b
    OBVIOUS
  <1>3. {p \in 1 .. b : Token(p).d = "told"} = {p \in 1 .. a : Token(p).d = "told"}
    BY <1>1, <1>2
  <1> QED BY <1>3 DEF Heard

LEMMA HeardOne ==
    ASSUME NEW told \in Seq(Nat), NEW a \in Nat, Heard(told, a), Token(a + 1).d = "told"
    PROVE  Heard(Append(told, a + 1), a + 1)
  <1> DEFINE more == Append(told, a + 1)
  <1>1. /\ Len(told) \in Nat /\ Len(more) = Len(told) + 1
        /\ \A i \in 1 .. Len(told) : more[i] = told[i]
        /\ more[Len(told) + 1] = a + 1
    BY AppendProperties
  <1>2. \A i \in 1 .. Len(told) : told[i] \in 1 .. a /\ Token(told[i]).d = "told"
    BY DEF Heard
  <1>3. \A i \in 1 .. Len(more) : i \in 1 .. Len(told) \/ i = Len(told) + 1
    BY <1>1
  <1> HIDE DEF more
  <1>4. \A i, j \in 1 .. Len(more) : i < j => more[i] < more[j]
    <2> SUFFICES ASSUME NEW i \in 1 .. Len(more), NEW j \in 1 .. Len(more), i < j PROVE more[i] < more[j]
      OBVIOUS
    <2>1. i \in 1 .. Len(told)
      BY <1>1, <1>3
    <2>2. CASE j \in 1 .. Len(told)
      BY <1>1, <2>1, <2>2 DEF Heard
    <2>3. CASE j = Len(told) + 1
      BY <1>1, <1>2, <2>1, <2>3
    <2> QED BY <1>3, <2>2, <2>3
  <1>5. \A i \in 1 .. Len(more) : more[i] \in {p \in 1 .. a + 1 : Token(p).d = "told"}
    BY <1>1, <1>2, <1>3
  <1>6. \A p \in 1 .. a + 1 : Token(p).d = "told" => \E i \in 1 .. Len(more) : more[i] = p
    <2> SUFFICES ASSUME NEW p \in 1 .. a + 1, Token(p).d = "told" PROVE \E i \in 1 .. Len(more) : more[i] = p
      OBVIOUS
    <2>1. CASE p \in 1 .. a
      <3>1. PICK i \in 1 .. Len(told) : told[i] = p
        BY <2>1 DEF Heard
      <3>2. i \in 1 .. Len(more) /\ more[i] = p
        BY <1>1, <3>1
      <3> QED BY <3>2
    <2>2. CASE p = a + 1
      <3>1. Len(told) + 1 \in 1 .. Len(more)
        BY <1>1
      <3> QED BY <1>1, <2>2, <3>1
    <2> QED BY <2>1, <2>2
  <1>7. {more[i] : i \in 1 .. Len(more)} = {p \in 1 .. a + 1 : Token(p).d = "told"}
    BY <1>5, <1>6
  <1> QED BY <1>4, <1>7 DEF Heard, more

LEMMA LoggedOn ==
    ASSUME NEW log \in Seq(OpType), NEW a \in Nat, NEW b \in Nat, a <= b, Logged(log, a),
           \A p \in a + 1 .. b : Token(p).d \notin Drawing
    PROVE  Logged(log, b)
  <1>1. \A p \in 1 .. b : p \in 1 .. a \/ p \in a + 1 .. b
    OBVIOUS
  <1>2. \A p \in 1 .. a : p \in 1 .. b
    OBVIOUS
  <1> QED BY <1>1, <1>2 DEF Logged

\* One more operation, at the place where the stream was read to.
LEMMA LoggedMore ==
    ASSUME NEW log \in Seq(OpType), NEW a \in Nat, NEW b \in Nat, a <= b, NEW op \in OpType, Logged(log, a),
           op.p = b, b > 0, Shows(op), IsDrawing(op) => a < b,
           \A p \in a + 1 .. b : Token(p).d \in Drawing => p = b /\ IsDrawing(op)
    PROVE  Logged(Append(log, op), b)
  <1> DEFINE more == Append(log, op)
  <1>1. /\ Len(log) \in Nat /\ Len(more) = Len(log) + 1
        /\ \A i \in 1 .. Len(log) : more[i] = log[i]
        /\ more[Len(log) + 1] = op
    BY AppendProperties
  <1>2. \A i \in 1 .. Len(more) : i \in 1 .. Len(log) \/ i = Len(log) + 1
    BY <1>1
  <1>3. Len(log) + 1 \in 1 .. Len(more) /\ \A i \in 1 .. Len(log) : i \in 1 .. Len(more)
    BY <1>1
  <1> HIDE DEF more
  <1>4. \A i \in 1 .. Len(log) : log[i].p \in 1 .. a /\ Shows(log[i])
    BY DEF Logged
  <1>5. \A i \in 1 .. Len(more) : more[i].p \in 1 .. b /\ Shows(more[i])
    <2>1. \A i \in 1 .. Len(log) : more[i].p \in 1 .. b /\ Shows(more[i])
      BY <1>1, <1>4
    <2>2. more[Len(log) + 1].p \in 1 .. b /\ Shows(more[Len(log) + 1])
      BY <1>1
    <2> QED BY <1>2, <2>1, <2>2
  <1>6. \A i, j \in 1 .. Len(more) : i < j => /\ more[i].p <= more[j].p
                                              /\ IsDrawing(more[j]) => more[i].p < more[j].p
    <2> SUFFICES ASSUME NEW i \in 1 .. Len(more), NEW j \in 1 .. Len(more), i < j
                 PROVE  /\ more[i].p <= more[j].p
                        /\ IsDrawing(more[j]) => more[i].p < more[j].p
      OBVIOUS
    <2>1. i \in 1 .. Len(log) /\ more[i] = log[i] /\ log[i].p \in 1 .. a
      BY <1>1, <1>2, <1>4
    <2>2. CASE j \in 1 .. Len(log)
      <3>1. more[j] = log[j]
        BY <1>1, <2>2
      <3>2. log[i].p <= log[j].p /\ (IsDrawing(log[j]) => log[i].p < log[j].p)
        BY <2>1, <2>2 DEF Logged
      <3> QED BY <2>1, <3>1, <3>2
    <2>3. CASE j = Len(log) + 1
      <3>1. more[j] = op
        BY <1>1, <2>3
      <3> QED BY <2>1, <3>1
    <2> QED BY <1>2, <2>2, <2>3
  <1>7. ASSUME NEW p \in 1 .. b, Token(p).d \in Drawing
        PROVE  \E i \in 1 .. Len(more) : IsDrawing(more[i]) /\ more[i].p = p
    <2>1. CASE p \in 1 .. a
      <3>1. PICK i \in 1 .. Len(log) : IsDrawing(log[i]) /\ log[i].p = p
        BY <1>7, <2>1 DEF Logged
      <3> QED BY <1>1, <1>3, <3>1
    <2>2. CASE p \in a + 1 .. b
      <3>1. p = b /\ IsDrawing(op)
        BY <1>7, <2>2
      <3> QED BY <1>1, <1>3, <3>1
    <2> QED BY <2>1, <2>2
  <1> QED BY <1>5, <1>6, <1>7 DEF Logged, more

\* Only what an operation draws, from where and with whose pixels matters.
LEMMA LoggedAlike ==
    ASSUME NEW log, NEW other, NEW n \in Nat, Logged(log, n), Len(other) = Len(log),
           \A i \in 1 .. Len(log) : other[i].d = log[i].d /\ other[i].p = log[i].p /\ other[i].own = log[i].own
    PROVE  Logged(other, n)
  <1>1. \A i \in 1 .. Len(log) : (IsDrawing(other[i]) <=> IsDrawing(log[i])) /\ (Shows(other[i]) <=> Shows(log[i]))
    BY DEF IsDrawing, Shows
  <1> QED BY <1>1 DEF Logged

LEMMA BlocksOn ==
    ASSUME NEW a \in Nat, NEW b \in Nat, a <= b, \A p \in a + 1 .. b : Token(p).k # "zdata" /\ ~Resets(p)
    PROVE  Blocks(b) = Blocks(a)
  <1>1. \A p \in 1 .. b : p \in 1 .. a \/ p \in a + 1 .. b
    OBVIOUS
  <1>2. \A p \in 1 .. a : p \in 1 .. b
    OBVIOUS
  <1>3. ASSUME NEW p \in 1 .. a PROVE (\A q \in p .. b : ~Resets(q)) <=> (\A q \in p .. a : ~Resets(q))
    <2>1. \A q \in p .. b : q \in p .. a \/ q \in a + 1 .. b
      OBVIOUS
    <2>2. \A q \in p .. a : q \in p .. b
      OBVIOUS
    <2> QED BY <2>1, <2>2
  <1>4. \A p : p \in Blocks(b) => p \in Blocks(a)
    BY <1>1, <1>3 DEF Blocks
  <1>5. \A p : p \in Blocks(a) => p \in Blocks(b)
    BY <1>2, <1>3 DEF Blocks
  <1> QED BY <1>4, <1>5

LEMMA BlocksOne ==
    ASSUME NEW a \in Nat, Token(a + 1).k = "zdata"
    PROVE  /\ Blocks(a + 1) = Blocks(a) \cup {a + 1}
           /\ {p \in Blocks(a + 1) : p < a + 1} = Blocks(a)
  <1>1. ~Resets(a + 1)
    BY DEF Resets
  <1>2. \A p \in 1 .. a + 1 : p \in 1 .. a \/ p = a + 1
    OBVIOUS
  <1>3. a + 1 \in Blocks(a + 1)
    <2>1. \A q \in a + 1 .. a + 1 : q = a + 1
      OBVIOUS
    <2> QED BY <1>1, <2>1 DEF Blocks
  <1>4. ASSUME NEW p \in 1 .. a PROVE (\A q \in p .. a + 1 : ~Resets(q)) <=> (\A q \in p .. a : ~Resets(q))
    <2>1. \A q \in p .. a + 1 : q \in p .. a \/ q = a + 1
      OBVIOUS
    <2>2. \A q \in p .. a : q \in p .. a + 1
      OBVIOUS
    <2> QED BY <1>1, <2>1, <2>2
  <1>5. \A p \in 1 .. a : p \in Blocks(a + 1) <=> p \in Blocks(a)
    BY <1>4 DEF Blocks
  <1>6. \A p : p \in Blocks(a + 1) => p \in 1 .. a + 1
    BY DEF Blocks
  <1>7. \A p : p \in Blocks(a) => p \in 1 .. a
    BY DEF Blocks
  <1> QED BY <1>2, <1>3, <1>5, <1>6, <1>7

\* Where Tight's streams are reset, only the others stay.
LEMMA BlocksReset ==
    ASSUME NEW a \in Nat, Token(a + 1).k = "ctl"
    PROVE  Blocks(a + 1) = {p \in Blocks(a) : Token(p).v = "tight" => Token(a + 1).n # 1}
  <1>1. Resets(a + 1) <=> Token(a + 1).n = 1
    BY DEF Resets
  <1>2. \A p \in 1 .. a + 1 : p \in 1 .. a \/ p = a + 1
    OBVIOUS
  <1>3. a + 1 \notin Blocks(a + 1)
    BY DEF Blocks
  <1>4. ASSUME NEW p \in 1 .. a
        PROVE  (\A q \in p .. a + 1 : ~Resets(q)) <=> (\A q \in p .. a : ~Resets(q)) /\ ~Resets(a + 1)
    <2>1. \A q \in p .. a + 1 : q \in p .. a \/ q = a + 1
      OBVIOUS
    <2>2. (\A q \in p .. a : q \in p .. a + 1) /\ a + 1 \in p .. a + 1
      OBVIOUS
    <2> QED BY <2>1, <2>2
  <1>5. \A p \in 1 .. a : p \in Blocks(a + 1) <=> p \in Blocks(a) /\ (Token(p).v = "tight" => ~Resets(a + 1))
    BY <1>4 DEF Blocks
  <1>6. \A p : p \in Blocks(a + 1) => p \in 1 .. a
    BY <1>2, <1>3 DEF Blocks
  <1>7. \A p : p \in Blocks(a) => p \in 1 .. a
    BY DEF Blocks
  <1> QED BY <1>1, <1>5, <1>6, <1>7

LEMMA BlocksBelow == ASSUME NEW n \in Nat PROVE Blocks(n) \in SUBSET Nat
  BY DEF Blocks

\* The render queue.
LEMMA SingleMore ==
    ASSUME NEW queue \in Seq(OpType), NEW op \in OpType, Single(queue), Current(queue, op.p),
           \A i \in 1 .. Len(queue) : queue[i].p <= op.p
    PROVE  Single(Append(queue, op)) /\ Current(Append(queue, op), op.p)
  <1> DEFINE more == Append(queue, op)
  <1>1. /\ Len(queue) \in Nat /\ Len(more) = Len(queue) + 1
        /\ \A i \in 1 .. Len(queue) : more[i] = queue[i]
        /\ more[Len(queue) + 1] = op
    BY AppendProperties
  <1>2. \A i \in 1 .. Len(more) : i \in 1 .. Len(queue) \/ i = Len(queue) + 1
    BY <1>1
  <1>3. \A i \in 1 .. Len(queue) : queue[i].p \in Nat
    <2>1. \A i \in 1 .. Len(queue) : queue[i] \in OpType
      BY ElementOfSeq
    <2> QED BY <2>1 DEF OpType
  <1>4. op.p \in Nat /\ Ends \subseteq Nat
    <2>1. Ends \subseteq Nat
      BY DEF Ends
    <2> QED BY <2>1 DEF OpType
  <1> HIDE DEF more
  <1>5. Current(more, op.p)
    <2> SUFFICES ASSUME NEW i \in 1 .. Len(more), IsDrawing(more[i])
                 PROVE  ~\E e \in Ends : more[i].p <= e /\ e < op.p
      BY DEF Current
    <2>1. CASE i \in 1 .. Len(queue)
      BY <1>1, <2>1 DEF Current
    <2>2. CASE i = Len(queue) + 1
      BY <1>1, <1>4, <2>2
    <2> QED BY <1>2, <2>1, <2>2
  <1>6. Single(more)
    <2> SUFFICES ASSUME NEW i \in 1 .. Len(more), NEW j \in 1 .. Len(more),
                        IsDrawing(more[i]), IsDrawing(more[j])
                 PROVE  ~\E e \in Ends : more[i].p <= e /\ e < more[j].p
      BY DEF Single
    <2>1. CASE j = Len(queue) + 1
      BY <1>1, <1>5, <2>1 DEF Current
    <2>2. CASE j \in 1 .. Len(queue) /\ i \in 1 .. Len(queue)
      BY <1>1, <2>2 DEF Single
    <2>3. CASE j \in 1 .. Len(queue) /\ i = Len(queue) + 1
      <3>1. more[i].p = op.p /\ more[j].p = queue[j].p /\ queue[j].p <= op.p /\ queue[j].p \in Nat
        BY <1>1, <1>3, <2>3
      <3>2. \A e \in Ends : ~(op.p <= e /\ e < queue[j].p)
        BY <1>4, <3>1
      <3> QED BY <3>1, <3>2
    <2> QED BY <1>2, <2>1, <2>2, <2>3
  <1> QED BY <1>5, <1>6 DEF more

\* A part of a sequence of operations is queued as they were.
LEMMA SinglePart ==
    ASSUME NEW queue, NEW other, NEW n \in Nat, NEW m \in Nat, Len(other) <= Len(queue), Len(other) \in Nat,
           Len(queue) \in Nat, m + Len(other) <= Len(queue),
           \A i \in 1 .. Len(other) : other[i].d = queue[m + i].d /\ other[i].p = queue[m + i].p
    PROVE  /\ Single(queue) => Single(other)
           /\ Current(queue, n) => Current(other, n)
  <1>1. \A i \in 1 .. Len(other) : m + i \in 1 .. Len(queue) /\ (IsDrawing(other[i]) <=> IsDrawing(queue[m + i]))
    BY DEF IsDrawing
  <1>2. Single(queue) => Single(other)
    BY <1>1 DEF Single
  <1>3. Current(queue, n) => Current(other, n)
    BY <1>1 DEF Current
  <1> QED BY <1>2, <1>3

----------------------------------------------------------------------------
(***************************************************************************)
(* Changing some fields of the client.                                     *)
(***************************************************************************)

SetTaken(s, at, fresh, first, ok) == [s EXCEPT !.at = at, !.fresh = fresh, !.first = first, !.ok = ok]
LEMMA SetTakenFacts ==
    ASSUME NEW s \in Client, NEW at \in Nat, NEW fresh \in BOOLEAN, NEW first \in BOOLEAN, NEW ok \in BOOLEAN
    PROVE  /\ SetTaken(s, at, fresh, first, ok) \in Client
           /\ Same(s, SetTaken(s, at, fresh, first, ok), {"at", "fresh", "first", "ok"})
           /\ SetTaken(s, at, fresh, first, ok).at = at
           /\ SetTaken(s, at, fresh, first, ok).fresh = fresh
           /\ SetTaken(s, at, fresh, first, ok).first = first
           /\ SetTaken(s, at, fresh, first, ok).ok = ok
  <1>1. SetTaken(s, at, fresh, first, ok) \in Client
    BY ZenonT(40) DEF Client, SetTaken
  <1>2. Same(s, SetTaken(s, at, fresh, first, ok), {"at", "fresh", "first", "ok"})
    BY ZenonT(40) DEF Client, Same, Fields, SetTaken
  <1>3. /\ SetTaken(s, at, fresh, first, ok).at = at
        /\ SetTaken(s, at, fresh, first, ok).fresh = fresh
        /\ SetTaken(s, at, fresh, first, ok).first = first
        /\ SetTaken(s, at, fresh, first, ok).ok = ok
    BY ZenonT(40) DEF Client, SetTaken
  <1> QED BY <1>1, <1>2, <1>3

SetRun(s, run) == [s EXCEPT !.run = run]
LEMMA SetRunFacts ==
    ASSUME NEW s \in Client, NEW run \in BOOLEAN
    PROVE  /\ SetRun(s, run) \in Client /\ Same(s, SetRun(s, run), {"run"})
           /\ SetRun(s, run).run = run
  <1>1. SetRun(s, run) \in Client
    BY ZenonT(40) DEF Client, SetRun
  <1>2. Same(s, SetRun(s, run), {"run"})
    BY ZenonT(40) DEF Client, Same, Fields, SetRun
  <1>3. SetRun(s, run).run = run
    BY ZenonT(40) DEF Client, SetRun
  <1> QED BY <1>1, <1>2, <1>3

SetSaid(s, said) == [s EXCEPT !.said = said]
LEMMA SetSaidFacts ==
    ASSUME NEW s \in Client, NEW said \in Seq(Words)
    PROVE  /\ SetSaid(s, said) \in Client /\ Same(s, SetSaid(s, said), {"said"})
           /\ SetSaid(s, said).said = said
  <1>1. SetSaid(s, said) \in Client
    BY ZenonT(40) DEF Client, SetSaid
  <1>2. Same(s, SetSaid(s, said), {"said"})
    BY ZenonT(40) DEF Client, Same, Fields, SetSaid
  <1>3. SetSaid(s, said).said = said
    BY ZenonT(40) DEF Client, SetSaid
  <1> QED BY <1>1, <1>2, <1>3

SetTold(s, told) == [s EXCEPT !.told = told]
LEMMA SetToldFacts ==
    ASSUME NEW s \in Client, NEW told \in Seq(Nat)
    PROVE  /\ SetTold(s, told) \in Client /\ Same(s, SetTold(s, told), {"told"})
           /\ SetTold(s, told).told = told
  <1>1. SetTold(s, told) \in Client
    BY ZenonT(40) DEF Client, SetTold
  <1>2. Same(s, SetTold(s, told), {"told"})
    BY ZenonT(40) DEF Client, Same, Fields, SetTold
  <1>3. SetTold(s, told).told = told
    BY ZenonT(40) DEF Client, SetTold
  <1> QED BY <1>1, <1>2, <1>3

SetQueue(s, queue) == [s EXCEPT !.queue = queue]
LEMMA SetQueueFacts ==
    ASSUME NEW s \in Client, NEW queue \in Seq(OpType)
    PROVE  /\ SetQueue(s, queue) \in Client /\ Same(s, SetQueue(s, queue), {"queue"})
           /\ SetQueue(s, queue).queue = queue
  <1>1. SetQueue(s, queue) \in Client
    BY ZenonT(40) DEF Client, SetQueue
  <1>2. Same(s, SetQueue(s, queue), {"queue"})
    BY ZenonT(40) DEF Client, Same, Fields, SetQueue
  <1>3. SetQueue(s, queue).queue = queue
    BY ZenonT(40) DEF Client, SetQueue
  <1> QED BY <1>1, <1>2, <1>3

SetDrawn(s, drawn) == [s EXCEPT !.drawn = drawn]
LEMMA SetDrawnFacts ==
    ASSUME NEW s \in Client, NEW drawn \in Seq(OpType)
    PROVE  /\ SetDrawn(s, drawn) \in Client /\ Same(s, SetDrawn(s, drawn), {"drawn"})
           /\ SetDrawn(s, drawn).drawn = drawn
  <1>1. SetDrawn(s, drawn) \in Client
    BY ZenonT(40) DEF Client, SetDrawn
  <1>2. Same(s, SetDrawn(s, drawn), {"drawn"})
    BY ZenonT(40) DEF Client, Same, Fields, SetDrawn
  <1>3. SetDrawn(s, drawn).drawn = drawn
    BY ZenonT(40) DEF Client, SetDrawn
  <1> QED BY <1>1, <1>2, <1>3

SetScanned(s, queue, drawn, flushed) == [s EXCEPT !.queue = queue, !.drawn = drawn, !.flushed = flushed]
LEMMA SetScannedFacts ==
    ASSUME NEW s \in Client, NEW queue \in Seq(OpType), NEW drawn \in Seq(OpType), NEW flushed \in BOOLEAN
    PROVE  /\ SetScanned(s, queue, drawn, flushed) \in Client
           /\ Same(s, SetScanned(s, queue, drawn, flushed), {"queue", "drawn", "flushed"})
           /\ SetScanned(s, queue, drawn, flushed).queue = queue
           /\ SetScanned(s, queue, drawn, flushed).drawn = drawn
           /\ SetScanned(s, queue, drawn, flushed).flushed = flushed
  <1>1. SetScanned(s, queue, drawn, flushed) \in Client
    BY ZenonT(40) DEF Client, SetScanned
  <1>2. Same(s, SetScanned(s, queue, drawn, flushed), {"queue", "drawn", "flushed"})
    BY ZenonT(40) DEF Client, Same, Fields, SetScanned
  <1>3. /\ SetScanned(s, queue, drawn, flushed).queue = queue
        /\ SetScanned(s, queue, drawn, flushed).drawn = drawn
        /\ SetScanned(s, queue, drawn, flushed).flushed = flushed
    BY ZenonT(40) DEF Client, SetScanned
  <1> QED BY <1>1, <1>2, <1>3

SetSize(s, size) == [s EXCEPT !.size = size]
LEMMA SetSizeFacts ==
    ASSUME NEW s \in Client, NEW size \in Nat
    PROVE  /\ SetSize(s, size) \in Client /\ Same(s, SetSize(s, size), {"size"})
           /\ SetSize(s, size).size = size
  <1>1. SetSize(s, size) \in Client
    BY ZenonT(40) DEF Client, SetSize
  <1>2. Same(s, SetSize(s, size), {"size"})
    BY ZenonT(40) DEF Client, Same, Fields, SetSize
  <1>3. SetSize(s, size).size = size
    BY ZenonT(40) DEF Client, SetSize
  <1> QED BY <1>1, <1>2, <1>3

SetDone(s, rects, enc) == [s EXCEPT !.rects = rects, !.enc = enc]
LEMMA SetDoneFacts ==
    ASSUME NEW s \in Client, NEW rects \in Nat, NEW enc \in Encodings \cup {"none"}
    PROVE  /\ SetDone(s, rects, enc) \in Client /\ Same(s, SetDone(s, rects, enc), {"rects", "enc"})
           /\ SetDone(s, rects, enc).rects = rects /\ SetDone(s, rects, enc).enc = enc
  <1>1. SetDone(s, rects, enc) \in Client
    BY ZenonT(40) DEF Client, SetDone
  <1>2. Same(s, SetDone(s, rects, enc), {"rects", "enc"})
    BY ZenonT(40) DEF Client, Same, Fields, SetDone
  <1>3. SetDone(s, rects, enc).rects = rects /\ SetDone(s, rects, enc).enc = enc
    BY ZenonT(40) DEF Client, SetDone
  <1> QED BY <1>1, <1>2, <1>3

SetAsked(s, asked) == [s EXCEPT !.asked = asked]
LEMMA SetAskedFacts ==
    ASSUME NEW s \in Client, NEW asked \in BOOLEAN
    PROVE  /\ SetAsked(s, asked) \in Client /\ Same(s, SetAsked(s, asked), {"asked"})
           /\ SetAsked(s, asked).asked = asked
  <1>1. SetAsked(s, asked) \in Client
    BY ZenonT(40) DEF Client, SetAsked
  <1>2. Same(s, SetAsked(s, asked), {"asked"})
    BY ZenonT(40) DEF Client, Same, Fields, SetAsked
  <1>3. SetAsked(s, asked).asked = asked
    BY ZenonT(40) DEF Client, SetAsked
  <1> QED BY <1>1, <1>2, <1>3

SetRects(s, rects) == [s EXCEPT !.rects = rects]
LEMMA SetRectsFacts ==
    ASSUME NEW s \in Client, NEW rects \in Nat
    PROVE  /\ SetRects(s, rects) \in Client /\ Same(s, SetRects(s, rects), {"rects"})
           /\ SetRects(s, rects).rects = rects
  <1>1. SetRects(s, rects) \in Client
    BY ZenonT(40) DEF Client, SetRects
  <1>2. Same(s, SetRects(s, rects), {"rects"})
    BY ZenonT(40) DEF Client, Same, Fields, SetRects
  <1>3. SetRects(s, rects).rects = rects
    BY ZenonT(40) DEF Client, SetRects
  <1> QED BY <1>1, <1>2, <1>3

SetLines(s, lines) == [s EXCEPT !.lines = lines]
LEMMA SetLinesFacts ==
    ASSUME NEW s \in Client, NEW lines \in Nat
    PROVE  /\ SetLines(s, lines) \in Client /\ Same(s, SetLines(s, lines), {"lines"})
           /\ SetLines(s, lines).lines = lines
  <1>1. SetLines(s, lines) \in Client
    BY ZenonT(40) DEF Client, SetLines
  <1>2. Same(s, SetLines(s, lines), {"lines"})
    BY ZenonT(40) DEF Client, Same, Fields, SetLines
  <1>3. SetLines(s, lines).lines = lines
    BY ZenonT(40) DEF Client, SetLines
  <1> QED BY <1>1, <1>2, <1>3

SetSubrects(s, subrects) == [s EXCEPT !.subrects = subrects]
LEMMA SetSubrectsFacts ==
    ASSUME NEW s \in Client, NEW subrects \in Nat
    PROVE  /\ SetSubrects(s, subrects) \in Client /\ Same(s, SetSubrects(s, subrects), {"subrects"})
           /\ SetSubrects(s, subrects).subrects = subrects
  <1>1. SetSubrects(s, subrects) \in Client
    BY ZenonT(40) DEF Client, SetSubrects
  <1>2. Same(s, SetSubrects(s, subrects), {"subrects"})
    BY ZenonT(40) DEF Client, Same, Fields, SetSubrects
  <1>3. SetSubrects(s, subrects).subrects = subrects
    BY ZenonT(40) DEF Client, SetSubrects
  <1> QED BY <1>1, <1>2, <1>3

SetTiles(s, tiles) == [s EXCEPT !.tiles = tiles]
LEMMA SetTilesFacts ==
    ASSUME NEW s \in Client, NEW tiles \in Nat
    PROVE  /\ SetTiles(s, tiles) \in Client /\ Same(s, SetTiles(s, tiles), {"tiles"})
           /\ SetTiles(s, tiles).tiles = tiles
  <1>1. SetTiles(s, tiles) \in Client
    BY ZenonT(40) DEF Client, SetTiles
  <1>2. Same(s, SetTiles(s, tiles), {"tiles"})
    BY ZenonT(40) DEF Client, Same, Fields, SetTiles
  <1>3. SetTiles(s, tiles).tiles = tiles
    BY ZenonT(40) DEF Client, SetTiles
  <1> QED BY <1>1, <1>2, <1>3

SetTile(s, tiles, lastsub) == [s EXCEPT !.tiles = tiles, !.lastsub = lastsub]
LEMMA SetTileFacts ==
    ASSUME NEW s \in Client, NEW tiles \in Nat, NEW lastsub \in Subs \cup {"none"}
    PROVE  /\ SetTile(s, tiles, lastsub) \in Client /\ Same(s, SetTile(s, tiles, lastsub), {"tiles", "lastsub"})
           /\ SetTile(s, tiles, lastsub).tiles = tiles /\ SetTile(s, tiles, lastsub).lastsub = lastsub
  <1>1. SetTile(s, tiles, lastsub) \in Client
    BY ZenonT(40) DEF Client, SetTile
  <1>2. Same(s, SetTile(s, tiles, lastsub), {"tiles", "lastsub"})
    BY ZenonT(40) DEF Client, Same, Fields, SetTile
  <1>3. SetTile(s, tiles, lastsub).tiles = tiles /\ SetTile(s, tiles, lastsub).lastsub = lastsub
    BY ZenonT(40) DEF Client, SetTile
  <1> QED BY <1>1, <1>2, <1>3

SetLen(s, len) == [s EXCEPT !.len = len]
LEMMA SetLenFacts ==
    ASSUME NEW s \in Client, NEW len \in SUBSET {"zlib", "zrle", "tight"}
    PROVE  /\ SetLen(s, len) \in Client /\ Same(s, SetLen(s, len), {"len"})
           /\ SetLen(s, len).len = len
  <1>1. SetLen(s, len) \in Client
    BY ZenonT(40) DEF Client, SetLen
  <1>2. Same(s, SetLen(s, len), {"len"})
    BY ZenonT(40) DEF Client, Same, Fields, SetLen
  <1>3. SetLen(s, len).len = len
    BY ZenonT(40) DEF Client, SetLen
  <1> QED BY <1>1, <1>2, <1>3

SetInflated(s, inflated) == [s EXCEPT !.inflated = inflated]
LEMMA SetInflatedFacts ==
    ASSUME NEW s \in Client, NEW inflated \in SUBSET Nat
    PROVE  /\ SetInflated(s, inflated) \in Client /\ Same(s, SetInflated(s, inflated), {"inflated"})
           /\ SetInflated(s, inflated).inflated = inflated
  <1>1. SetInflated(s, inflated) \in Client
    BY ZenonT(40) DEF Client, SetInflated
  <1>2. Same(s, SetInflated(s, inflated), {"inflated"})
    BY ZenonT(40) DEF Client, Same, Fields, SetInflated
  <1>3. SetInflated(s, inflated).inflated = inflated
    BY ZenonT(40) DEF Client, SetInflated
  <1> QED BY <1>1, <1>2, <1>3

SetTight(s, ctl, filter) == [s EXCEPT !.ctl = ctl, !.filter = filter]
LEMMA SetTightFacts ==
    ASSUME NEW s \in Client, NEW ctl \in Ctls \cup {"none"}, NEW filter \in Filters \cup {"none"}
    PROVE  /\ SetTight(s, ctl, filter) \in Client /\ Same(s, SetTight(s, ctl, filter), {"ctl", "filter"})
           /\ SetTight(s, ctl, filter).ctl = ctl /\ SetTight(s, ctl, filter).filter = filter
  <1>1. SetTight(s, ctl, filter) \in Client
    BY ZenonT(40) DEF Client, SetTight
  <1>2. Same(s, SetTight(s, ctl, filter), {"ctl", "filter"})
    BY ZenonT(40) DEF Client, Same, Fields, SetTight
  <1>3. SetTight(s, ctl, filter).ctl = ctl /\ SetTight(s, ctl, filter).filter = filter
    BY ZenonT(40) DEF Client, SetTight
  <1> QED BY <1>1, <1>2, <1>3

SetColours(s, colours) == [s EXCEPT !.colours = colours]
LEMMA SetColoursFacts ==
    ASSUME NEW s \in Client, NEW colours \in BOOLEAN
    PROVE  /\ SetColours(s, colours) \in Client /\ Same(s, SetColours(s, colours), {"colours"})
           /\ SetColours(s, colours).colours = colours
  <1>1. SetColours(s, colours) \in Client
    BY ZenonT(40) DEF Client, SetColours
  <1>2. Same(s, SetColours(s, colours), {"colours"})
    BY ZenonT(40) DEF Client, Same, Fields, SetColours
  <1>3. SetColours(s, colours).colours = colours
    BY ZenonT(40) DEF Client, SetColours
  <1> QED BY <1>1, <1>2, <1>3

SetFilter(s, filter) == [s EXCEPT !.filter = filter]
LEMMA SetFilterFacts ==
    ASSUME NEW s \in Client, NEW filter \in Filters \cup {"none"}
    PROVE  /\ SetFilter(s, filter) \in Client /\ Same(s, SetFilter(s, filter), {"filter"})
           /\ SetFilter(s, filter).filter = filter
  <1>1. SetFilter(s, filter) \in Client
    BY ZenonT(40) DEF Client, SetFilter
  <1>2. Same(s, SetFilter(s, filter), {"filter"})
    BY ZenonT(40) DEF Client, Same, Fields, SetFilter
  <1>3. SetFilter(s, filter).filter = filter
    BY ZenonT(40) DEF Client, SetFilter
  <1> QED BY <1>1, <1>2, <1>3

SetCtl(s, ctl, inflated) == [s EXCEPT !.ctl = ctl, !.inflated = inflated]
LEMMA SetCtlFacts ==
    ASSUME NEW s \in Client, NEW ctl \in Ctls \cup {"none"}, NEW inflated \in SUBSET Nat
    PROVE  /\ SetCtl(s, ctl, inflated) \in Client /\ Same(s, SetCtl(s, ctl, inflated), {"ctl", "inflated"})
           /\ SetCtl(s, ctl, inflated).ctl = ctl /\ SetCtl(s, ctl, inflated).inflated = inflated
  <1>1. SetCtl(s, ctl, inflated) \in Client
    BY ZenonT(40) DEF Client, SetCtl
  <1>2. Same(s, SetCtl(s, ctl, inflated), {"ctl", "inflated"})
    BY ZenonT(40) DEF Client, Same, Fields, SetCtl
  <1>3. SetCtl(s, ctl, inflated).ctl = ctl /\ SetCtl(s, ctl, inflated).inflated = inflated
    BY ZenonT(40) DEF Client, SetCtl
  <1> QED BY <1>1, <1>2, <1>3

SetSegments(s, segments) == [s EXCEPT !.segments = segments]
LEMMA SetSegmentsFacts ==
    ASSUME NEW s \in Client, NEW segments \in SUBSET Segments
    PROVE  /\ SetSegments(s, segments) \in Client /\ Same(s, SetSegments(s, segments), {"segments"})
           /\ SetSegments(s, segments).segments = segments
  <1>1. SetSegments(s, segments) \in Client
    BY ZenonT(40) DEF Client, SetSegments
  <1>2. Same(s, SetSegments(s, segments), {"segments"})
    BY ZenonT(40) DEF Client, Same, Fields, SetSegments
  <1>3. SetSegments(s, segments).segments = segments
    BY ZenonT(40) DEF Client, SetSegments
  <1> QED BY <1>1, <1>2, <1>3

SetCached(s, segments, cached) == [s EXCEPT !.segments = segments, !.cached = cached]
LEMMA SetCachedFacts ==
    ASSUME NEW s \in Client, NEW segments \in SUBSET Segments, NEW cached \in BOOLEAN
    PROVE  /\ SetCached(s, segments, cached) \in Client
           /\ Same(s, SetCached(s, segments, cached), {"segments", "cached"})
           /\ SetCached(s, segments, cached).segments = segments /\ SetCached(s, segments, cached).cached = cached
  <1>1. SetCached(s, segments, cached) \in Client
    BY ZenonT(40) DEF Client, SetCached
  <1>2. Same(s, SetCached(s, segments, cached), {"segments", "cached"})
    BY ZenonT(40) DEF Client, Same, Fields, SetCached
  <1>3. SetCached(s, segments, cached).segments = segments /\ SetCached(s, segments, cached).cached = cached
    BY ZenonT(40) DEF Client, SetCached
  <1> QED BY <1>1, <1>2, <1>3

SetVideo(s, video) == [s EXCEPT !.video = video]
LEMMA SetVideoFacts ==
    ASSUME NEW s \in Client, NEW video \in BOOLEAN
    PROVE  /\ SetVideo(s, video) \in Client /\ Same(s, SetVideo(s, video), {"video"})
           /\ SetVideo(s, video).video = video
  <1>1. SetVideo(s, video) \in Client
    BY ZenonT(40) DEF Client, SetVideo
  <1>2. Same(s, SetVideo(s, video), {"video"})
    BY ZenonT(40) DEF Client, Same, Fields, SetVideo
  <1>3. SetVideo(s, video).video = video
    BY ZenonT(40) DEF Client, SetVideo
  <1> QED BY <1>1, <1>2, <1>3

SetRect(s, enc, n) == [s EXCEPT !.enc = enc, !.n = n]
LEMMA SetRectFacts ==
    ASSUME NEW s \in Client, NEW enc \in Encodings \cup {"none"}, NEW n \in Nat
    PROVE  /\ SetRect(s, enc, n) \in Client /\ Same(s, SetRect(s, enc, n), {"enc", "n"})
           /\ SetRect(s, enc, n).enc = enc /\ SetRect(s, enc, n).n = n
  <1>1. SetRect(s, enc, n) \in Client
    BY ZenonT(40) DEF Client, SetRect
  <1>2. Same(s, SetRect(s, enc, n), {"enc", "n"})
    BY ZenonT(40) DEF Client, Same, Fields, SetRect
  <1>3. SetRect(s, enc, n).enc = enc /\ SetRect(s, enc, n).n = n
    BY ZenonT(40) DEF Client, SetRect
  <1> QED BY <1>1, <1>2, <1>3

SetFlushing(s, flushing) == [s EXCEPT !.flushing = flushing]
LEMMA SetFlushingFacts ==
    ASSUME NEW s \in Client, NEW flushing \in BOOLEAN
    PROVE  /\ SetFlushing(s, flushing) \in Client /\ Same(s, SetFlushing(s, flushing), {"flushing"})
           /\ SetFlushing(s, flushing).flushing = flushing
  <1>1. SetFlushing(s, flushing) \in Client
    BY ZenonT(40) DEF Client, SetFlushing
  <1>2. Same(s, SetFlushing(s, flushing), {"flushing"})
    BY ZenonT(40) DEF Client, Same, Fields, SetFlushing
  <1>3. SetFlushing(s, flushing).flushing = flushing
    BY ZenonT(40) DEF Client, SetFlushing
  <1> QED BY <1>1, <1>2, <1>3

SetCont(s, canCont, cont) == [s EXCEPT !.canCont = canCont, !.cont = cont]
LEMMA SetContFacts ==
    ASSUME NEW s \in Client, NEW canCont \in BOOLEAN, NEW cont \in BOOLEAN
    PROVE  /\ SetCont(s, canCont, cont) \in Client /\ Same(s, SetCont(s, canCont, cont), {"canCont", "cont"})
           /\ SetCont(s, canCont, cont).canCont = canCont /\ SetCont(s, canCont, cont).cont = cont
  <1>1. SetCont(s, canCont, cont) \in Client
    BY ZenonT(40) DEF Client, SetCont
  <1>2. Same(s, SetCont(s, canCont, cont), {"canCont", "cont"})
    BY ZenonT(40) DEF Client, Same, Fields, SetCont
  <1>3. SetCont(s, canCont, cont).canCont = canCont /\ SetCont(s, canCont, cont).cont = cont
    BY ZenonT(40) DEF Client, SetCont
  <1> QED BY <1>1, <1>2, <1>3

SetCaps(s, caps) == [s EXCEPT !.caps = caps]
LEMMA SetCapsFacts ==
    ASSUME NEW s \in Client, NEW caps \in SUBSET ServerActions
    PROVE  /\ SetCaps(s, caps) \in Client /\ Same(s, SetCaps(s, caps), {"caps"})
           /\ SetCaps(s, caps).caps = caps
  <1>1. SetCaps(s, caps) \in Client
    BY ZenonT(40) DEF Client, SetCaps
  <1>2. Same(s, SetCaps(s, caps), {"caps"})
    BY ZenonT(40) DEF Client, Same, Fields, SetCaps
  <1>3. SetCaps(s, caps).caps = caps
    BY ZenonT(40) DEF Client, SetCaps
  <1> QED BY <1>1, <1>2, <1>3

SetText(s, text) == [s EXCEPT !.text = text]
LEMMA SetTextFacts ==
    ASSUME NEW s \in Client, NEW text \in BOOLEAN
    PROVE  /\ SetText(s, text) \in Client /\ Same(s, SetText(s, text), {"text"})
           /\ SetText(s, text).text = text
  <1>1. SetText(s, text) \in Client
    BY ZenonT(40) DEF Client, SetText
  <1>2. Same(s, SetText(s, text), {"text"})
    BY ZenonT(40) DEF Client, Same, Fields, SetText
  <1>3. SetText(s, text).text = text
    BY ZenonT(40) DEF Client, SetText
  <1> QED BY <1>1, <1>2, <1>3

SetFresh(s, run, fresh) == [s EXCEPT !.run = run, !.fresh = fresh]
LEMMA SetFreshFacts ==
    ASSUME NEW s \in Client, NEW run \in BOOLEAN, NEW fresh \in BOOLEAN
    PROVE  /\ SetFresh(s, run, fresh) \in Client /\ Same(s, SetFresh(s, run, fresh), {"run", "fresh"})
           /\ SetFresh(s, run, fresh).run = run /\ SetFresh(s, run, fresh).fresh = fresh
  <1>1. SetFresh(s, run, fresh) \in Client
    BY ZenonT(40) DEF Client, SetFresh
  <1>2. Same(s, SetFresh(s, run, fresh), {"run", "fresh"})
    BY ZenonT(40) DEF Client, Same, Fields, SetFresh
  <1>3. SetFresh(s, run, fresh).run = run /\ SetFresh(s, run, fresh).fresh = fresh
    BY ZenonT(40) DEF Client, SetFresh
  <1> QED BY <1>1, <1>2, <1>3

SetResumed(s, flushing, flushed, run) == [s EXCEPT !.flushing = flushing, !.flushed = flushed, !.run = run]
LEMMA SetResumedFacts ==
    ASSUME NEW s \in Client, NEW flushing \in BOOLEAN, NEW flushed \in BOOLEAN, NEW run \in BOOLEAN
    PROVE  /\ SetResumed(s, flushing, flushed, run) \in Client
           /\ Same(s, SetResumed(s, flushing, flushed, run), {"flushing", "flushed", "run"})
           /\ SetResumed(s, flushing, flushed, run).flushing = flushing
           /\ SetResumed(s, flushing, flushed, run).flushed = flushed
           /\ SetResumed(s, flushing, flushed, run).run = run
  <1>1. SetResumed(s, flushing, flushed, run) \in Client
    BY ZenonT(40) DEF Client, SetResumed
  <1>2. Same(s, SetResumed(s, flushing, flushed, run), {"flushing", "flushed", "run"})
    BY ZenonT(40) DEF Client, Same, Fields, SetResumed
  <1>3. /\ SetResumed(s, flushing, flushed, run).flushing = flushing
        /\ SetResumed(s, flushing, flushed, run).flushed = flushed
        /\ SetResumed(s, flushing, flushed, run).run = run
    BY ZenonT(40) DEF Client, SetResumed
  <1> QED BY <1>1, <1>2, <1>3

SetPasted(s, pasted, text) == [s EXCEPT !.pasted = pasted, !.text = text]
LEMMA SetPastedFacts ==
    ASSUME NEW s \in Client, NEW pasted \in BOOLEAN, NEW text \in BOOLEAN
    PROVE  /\ SetPasted(s, pasted, text) \in Client /\ Same(s, SetPasted(s, pasted, text), {"pasted", "text"})
           /\ SetPasted(s, pasted, text).pasted = pasted /\ SetPasted(s, pasted, text).text = text
  <1>1. SetPasted(s, pasted, text) \in Client
    BY ZenonT(40) DEF Client, SetPasted
  <1>2. Same(s, SetPasted(s, pasted, text), {"pasted", "text"})
    BY ZenonT(40) DEF Client, Same, Fields, SetPasted
  <1>3. SetPasted(s, pasted, text).pasted = pasted /\ SetPasted(s, pasted, text).text = text
    BY ZenonT(40) DEF Client, SetPasted
  <1> QED BY <1>1, <1>2, <1>3

SetPastedOnly(s, pasted) == [s EXCEPT !.pasted = pasted]
LEMMA SetPastedOnlyFacts ==
    ASSUME NEW s \in Client, NEW pasted \in BOOLEAN
    PROVE  /\ SetPastedOnly(s, pasted) \in Client /\ Same(s, SetPastedOnly(s, pasted), {"pasted"})
           /\ SetPastedOnly(s, pasted).pasted = pasted
  <1>1. SetPastedOnly(s, pasted) \in Client
    BY ZenonT(40) DEF Client, SetPastedOnly
  <1>2. Same(s, SetPastedOnly(s, pasted), {"pasted"})
    BY ZenonT(40) DEF Client, Same, Fields, SetPastedOnly
  <1>3. SetPastedOnly(s, pasted).pasted = pasted
    BY ZenonT(40) DEF Client, SetPastedOnly
  <1> QED BY <1>1, <1>2, <1>3

----------------------------------------------------------------------------
(***************************************************************************)
(* What the client's own operations make of such a state.                  *)
(***************************************************************************)

LEMMA ClientParts ==
    ASSUME NEW s \in Client
    PROVE  /\ s.run \in BOOLEAN /\ s.at \in Nat /\ s.ok \in BOOLEAN /\ s.fresh \in BOOLEAN /\ s.first \in BOOLEAN
           /\ s.viewOnly \in BOOLEAN /\ s.failed \in BOOLEAN /\ s.asked \in BOOLEAN /\ s.cont \in BOOLEAN
           /\ s.canCont \in BOOLEAN /\ s.flushing \in BOOLEAN /\ s.flushed \in BOOLEAN
           /\ s.rects \in Nat /\ s.enc \in Encodings \cup {"none"} /\ s.n \in Nat /\ s.size \in Nat
           /\ s.lines \in Nat /\ s.subrects \in Nat /\ s.tiles \in Nat /\ s.lastsub \in Subs \cup {"none"}
           /\ s.len \in SUBSET {"zlib", "zrle", "tight"} /\ s.inflated \in SUBSET Nat
           /\ s.ctl \in Ctls \cup {"none"} /\ s.filter \in Filters \cup {"none"} /\ s.colours \in BOOLEAN
           /\ s.segments \in SUBSET Segments /\ s.cached \in BOOLEAN /\ s.video \in BOOLEAN
           /\ s.queue \in Seq(OpType) /\ s.drawn \in Seq(OpType)
           /\ s.caps \in SUBSET ServerActions /\ s.text \in BOOLEAN /\ s.pasted \in BOOLEAN
           /\ s.said \in Seq(Words) /\ s.told \in Seq(Nat)
  BY DEF Client

LEMMA SameMore ==
    ASSUME NEW s, NEW t, NEW A, NEW B, Same(s, t, A), A \subseteq B
    PROVE  Same(s, t, B)
  BY DEF Same

LEMMA SameTrans ==
    ASSUME NEW s, NEW t, NEW u, NEW A, NEW B, Same(s, t, A), Same(t, u, B)
    PROVE  Same(s, u, A \cup B)
  BY DEF Same

\* What neither says what was read nor where the client is.
Loose == {"run", "fresh", "first", "asked", "cont", "canCont", "size", "lines", "subrects", "tiles",
          "lastsub", "len", "ctl", "filter", "colours", "segments", "cached", "caps", "text", "pasted"}

LEMMA CoreLoose ==
    ASSUME NEW s, NEW t \in Client, NEW n, Same(s, t, {"inflated", "flushing", "flushed", "rects", "enc", "n"} \cup Loose)
    PROVE  Core(s, n) => Core(t, n)
  <1>1. /\ t.at = s.at /\ t.ok = s.ok /\ t.failed = s.failed /\ t.told = s.told /\ t.drawn = s.drawn
        /\ t.queue = s.queue /\ t.video = s.video /\ t.viewOnly = s.viewOnly /\ t.said = s.said
    BY DEF Same, Fields, Loose
  <1> QED BY <1>1 DEF Core

LEMMA WholeLoose ==
    ASSUME NEW s, NEW t \in Client, NEW n, Same(s, t, {"flushing", "flushed", "rects", "enc", "n"} \cup Loose)
    PROVE  Whole(s, n) => Whole(t, n)
  <1>1. t.inflated = s.inflated
    BY DEF Same, Fields, Loose
  <1>2. Same(s, t, {"inflated", "flushing", "flushed", "rects", "enc", "n"} \cup Loose)
    BY SameMore
  <1>3. Core(s, n) => Core(t, n)
    BY <1>2, CoreLoose
  <1> QED BY <1>1, <1>3 DEF Whole

LEMMA BegunSame ==
    ASSUME NEW s, NEW t, Same(s, t, {"ok", "failed", "told", "drawn", "inflated", "video", "viewOnly", "said", "queue"} \cup Loose),
           Begun(s), Current(t.queue, s.at)
    PROVE  Begun(t)
  <1>1. t.at = s.at /\ t.flushing = s.flushing /\ t.flushed = s.flushed /\ t.rects = s.rects /\ t.enc = s.enc /\ t.n = s.n
    BY DEF Same, Fields, Loose
  <1> QED BY <1>1 DEF Begun

LEMMA AmidLoose ==
    ASSUME NEW s, NEW t \in Client, NEW n, Same(s, t, Loose), Amid(s, n)
    PROVE  Amid(t, n)
  <1>1. Same(s, t, {"flushing", "flushed", "rects", "enc", "n"} \cup Loose)
    BY SameMore
  <1>2. Same(s, t, {"ok", "failed", "told", "drawn", "inflated", "video", "viewOnly", "said", "queue"} \cup Loose)
    BY SameMore
  <1>4. t.queue = s.queue /\ t.at = s.at
    BY DEF Same, Fields, Loose
  <1>5. Begun(t)
    BY <1>2, <1>4, BegunSame DEF Amid, Begun
  <1>6. Whole(t, n)
    BY <1>1, WholeLoose DEF Amid
  <1> QED BY <1>5, <1>6 DEF Amid

\* Tokens that leave nothing to be done but to be read.
Silent(token) == token.d \notin Drawing \cup {"told"} /\ token.k # "zdata" /\ (token.k = "ctl" => token.n # 1)

LEMMA CoreReads ==
    ASSUME NEW s, NEW a \in Nat, NEW b \in Nat, a <= b, Core(s, a),
           \A p \in a + 1 .. b : Token(p).d \notin Drawing \cup {"told"} /\ (p \in Keys => s.video)
    PROVE  Core(s, b)
  <1>1. s \in Client /\ s.told \in Seq(Nat) /\ s.drawn \o s.queue \in Seq(OpType)
    BY ClientParts, ConcatProperties DEF Core
  <1>2. Heard(s.told, b)
    BY <1>1, HeardOn DEF Core
  <1>3. Logged(s.drawn \o s.queue, b)
    BY <1>1, LoggedOn DEF Core
  <1>5. \A p \in Keys : p <= b => s.video
    <2>1. \A p \in Keys : p \in Nat
      BY DEF Keys
    <2>2. \A p \in Keys : p <= b => p <= a \/ p \in a + 1 .. b
      BY <2>1
    <2> QED BY <2>2 DEF Core
  <1> QED BY <1>2, <1>3, <1>5 DEF Core

LEMMA CoreOn ==
    ASSUME NEW s, NEW a \in Nat, NEW b \in Nat, a <= b, Core(s, a),
           \A p \in a + 1 .. b : Silent(Token(p)) /\ (p \in Keys => s.video)
    PROVE  Core(s, b) /\ (Whole(s, a) => Whole(s, b))
  <1>1. Core(s, b)
    BY CoreReads DEF Silent
  <1>2. Blocks(b) = Blocks(a)
    BY BlocksOn DEF Silent, Resets
  <1> QED BY <1>1, <1>2 DEF Whole

LEMMA TakeIs ==
    ASSUME NEW s \in Client, NEW kinds \in Seq(Kinds)
    PROVE  /\ Take(s, kinds) \in Client /\ Take(s, kinds).at = s.at + Len(kinds)
           /\ Take(s, kinds).ok = (s.ok /\ \A i \in 1 .. Len(kinds) : Ahead(s, i).k = kinds[i])
           /\ Take(s, kinds).first = (s.fresh /\ Len(kinds) = 1)
           /\ Same(s, Take(s, kinds), {"at", "fresh", "first", "ok"})
  <1> DEFINE a == s.at + Len(kinds)
             b == s.fresh /\ Len(kinds) = 1
             d == s.ok /\ \A i \in 1 .. Len(kinds) : Ahead(s, i).k = kinds[i]
             no == FALSE
  <1>1. no \in BOOLEAN /\ a \in Nat /\ b \in BOOLEAN /\ d \in BOOLEAN
    BY LenProperties, ClientParts
  <1>2. Take(s, kinds) = SetTaken(s, a, no, b, d)
    BY Zenon DEF Take, SetTaken
  <1> HIDE DEF a, b, d, no
  <1>3. /\ Take(s, kinds) \in Client /\ Take(s, kinds).at = a /\ Take(s, kinds).ok = d /\ Take(s, kinds).first = b
        /\ Same(s, Take(s, kinds), {"at", "fresh", "first", "ok"})
    <2>1. SetTaken(s, a, no, b, d) \in Client
      BY <1>1, SetTakenFacts
    <2>2. Same(s, SetTaken(s, a, no, b, d), {"at", "fresh", "first", "ok"})
      BY <1>1, SetTakenFacts
    <2>3. SetTaken(s, a, no, b, d).at = a
      BY <1>1, SetTakenFacts
    <2>4. SetTaken(s, a, no, b, d).ok = d
      BY <1>1, SetTakenFacts
    <2>5. SetTaken(s, a, no, b, d).first = b
      BY <1>1, SetTakenFacts
    <2> QED BY <1>2, <2>1, <2>2, <2>3, <2>4, <2>5, Zenon
  <1> QED BY <1>3, Zenon DEF a, b, d

\* A token or some of the part the client is in were taken.
Took(s, t, m) ==
    /\ t \in Client /\ t.at = s.at + m /\ t.at \in 1 .. Len(sent) /\ Same(s, t, {"at", "fresh", "first", "ok"})
    /\ Amid(t, t.at - 1)
    /\ sent[t.at].part = sent[s.at].part /\ sent[t.at].i = sent[s.at].i + m /\ sent[t.at].left = sent[s.at].left

LEMMA Offsets ==
    ASSUME NEW at \in Nat, NEW m \in 1 .. 4, NEW p \in at + 1 .. at + m - 1
    PROVE  p - at \in 1 .. m - 1 /\ p - at \in 1 .. m /\ at + (p - at) = p
  OBVIOUS

\* Tokens of a part of which all but the last leave nothing to be done are taken.
LEMMA TakeFacts ==
    ASSUME Stream, NEW s, Amid(s, s.at), NEW kinds \in Seq(Kinds), NEW m \in 1 .. 4, m = Len(kinds),
           NEW part, NEW i, part = sent[s.at].part, i = sent[s.at].i, i + m <= Size(part),
           ~Waits(s, m),
           \A j \in 1 .. m : Part[part][i + j].k = kinds[j],
           \A j \in 1 .. m - 1 : Silent(Part[part][i + j])
    PROVE  Took(s, Take(s, kinds), m)
  <1> DEFINE t == Take(s, kinds)
  <1>1. /\ s \in Client /\ s.at \in Nat /\ s.at > 0 /\ s.at <= Len(sent) /\ Len(sent) \in Nat /\ arrived \in Nat
        /\ s.at <= arrived /\ s.ok /\ s.queue \in Seq(OpType) /\ s.at + m <= arrived
    <2>1. s \in Client /\ s.ok
      BY SMTT(30) DEF Amid, Whole, Core
    <2>2. s.at <= arrived /\ arrived \in Nat /\ arrived <= Len(sent) /\ s.at > 0
      BY DEF Amid, Whole, Core, Begun
    <2>3. sent \in Seq(Items)
      BY DEF Stream
    <2>4. Len(sent) \in Nat
      BY <2>3, LenProperties
    <2>5. s.at \in Nat /\ s.queue \in Seq(OpType)
      BY <2>1, ClientParts
    <2>6. s.at + m <= arrived
      BY <2>2, <2>5 DEF Waits
    <2> QED BY <2>1, <2>2, <2>4, <2>5, <2>6
  <1>2. \A j \in 1 .. m : Inside(s.at, j)
    <2>1. s.at \in 1 .. Len(sent)
      BY <1>1
    <2>2. \A j \in 1 .. m : j \in 0 .. 4 /\ sent[s.at].i + j <= Size(sent[s.at].part)
      <3>1. i \in Nat /\ Size(part) \in Nat
        BY <2>1, StreamParts
      <3>2. \A j \in 1 .. m : j \in 0 .. 4 /\ i + j <= Size(part)
        BY <3>1, SMTT(30)
      <3> QED BY <3>2
    <2> QED BY <2>1, <2>2, InsideFacts
  <1>3. \A j \in 1 .. m : /\ s.at + j \in 1 .. Len(sent) /\ sent[s.at + j].part = part
                          /\ sent[s.at + j].i = i + j /\ sent[s.at + j].left = sent[s.at].left
                          /\ Token(s.at + j) = Part[part][i + j]
    BY <1>2 DEF Inside, Token
  <1>4. \A q \in s.at .. s.at + m - 1 : q \notin Ends /\ q \notin Keys
    BY <1>2 DEF Inside
  <1>5. t \in Client /\ t.at = s.at + m /\ Same(s, t, {"at", "fresh", "first", "ok"}) /\ t.ok
    <2>1. t \in Client /\ t.at = s.at + m /\ Same(s, t, {"at", "fresh", "first", "ok"})
      BY <1>1, TakeIs
    <2>2. \A j \in 1 .. Len(kinds) : Ahead(s, j).k = kinds[j]
      BY <1>3 DEF Ahead
    <2>3. t.ok = (s.ok /\ \A j \in 1 .. Len(kinds) : Ahead(s, j).k = kinds[j])
      BY <1>1, TakeIs, Zenon
    <2> QED BY <1>1, <2>1, <2>2, <2>3
  <1> HIDE DEF t
  <1>6. /\ t.failed = s.failed /\ t.told = s.told /\ t.drawn = s.drawn /\ t.queue = s.queue
        /\ t.inflated = s.inflated /\ t.video = s.video /\ t.viewOnly = s.viewOnly /\ t.said = s.said
        /\ t.flushing = s.flushing /\ t.flushed = s.flushed /\ t.rects = s.rects /\ t.enc = s.enc /\ t.n = s.n
    BY <1>5 DEF Same, Fields
  <1>7. Whole(t, s.at)
    BY <1>1, <1>5, <1>6, SMTT(30) DEF Amid, Whole, Core
  <1>8. Current(t.queue, t.at)
    <2>1. Ends \subseteq Nat
      BY DEF Ends
    <2>2. ASSUME NEW e \in Ends, e < t.at PROVE e < s.at
      <3>1. e \in Nat /\ e < s.at + m
        BY <1>5, <2>1, <2>2
      <3>2. e \in s.at .. s.at + m - 1 => FALSE
        BY <1>4, SMTT(30)
      <3> QED BY <1>1, <3>1, <3>2
    <2> QED BY <1>6, <2>2 DEF Amid, Begun, Current
  <1>9. Begun(t)
    <2>1. m \in 1 .. m
      OBVIOUS
    <2>2. sent[s.at + m].part = part /\ sent[s.at + m].left = sent[s.at].left
      BY <1>3, <2>1
    <2>3. sent[t.at].part = sent[s.at].part /\ sent[t.at].left = sent[s.at].left
      BY <1>5, <2>2
    <2>4. t.at > 0
      BY <1>1, <1>5
    <2> QED BY <1>6, <1>8, <2>3, <2>4 DEF Amid, Begun
  <1>10. Whole(t, s.at + m - 1)
    <2>1. ASSUME NEW p \in s.at + 1 .. s.at + m - 1 PROVE Silent(Token(p)) /\ p \notin Keys
      <3>1. p - s.at \in 1 .. m - 1 /\ p - s.at \in 1 .. m /\ s.at + (p - s.at) = p
        <4>1. s.at \in Nat /\ m \in 1 .. 4 /\ p \in s.at + 1 .. s.at + m - 1
          BY <1>1
        <4> QED BY <4>1, Offsets
      <3>2. Token(p) = Part[part][i + (p - s.at)]
        BY <1>3, <3>1
      <3>3. Silent(Token(p))
        BY <3>1, <3>2
      <3>4. p \in s.at .. s.at + m - 1
        BY <1>1
      <3> QED BY <1>4, <3>3, <3>4
    <2>2. s.at + m - 1 \in Nat /\ s.at <= s.at + m - 1
      BY <1>1
    <2>3. Core(t, s.at)
      BY <1>7 DEF Whole
    <2> QED BY <1>1, <1>7, <2>1, <2>2, <2>3, CoreOn
  <1>11. s.at + m \in 1 .. Len(sent) /\ sent[s.at + m].part = part /\ sent[s.at + m].i = i + m /\ sent[s.at + m].left = sent[s.at].left
    <2>1. m \in 1 .. m
      OBVIOUS
    <2> QED BY <1>3, <2>1
  <1>12. s.at + m - 1 = t.at - 1
    BY <1>1, <1>5
  <1>13. Amid(t, t.at - 1)
    BY <1>9, <1>10, <1>12 DEF Amid
  <1>14. Took(s, t, m)
    BY <1>5, <1>11, <1>13 DEF Took
  <1> QED BY <1>14 DEF t

\* The last of them needs nothing to be done either.
LEMMA Reads ==
    ASSUME NEW t, t.at \in Nat, t.at > 0, Amid(t, t.at - 1), Silent(Token(t.at)), t.at \in Keys => t.video
    PROVE  Amid(t, t.at)
  <1>1. t.at - 1 \in Nat /\ t.at - 1 <= t.at /\ \A p \in (t.at - 1) + 1 .. t.at : p = t.at
    OBVIOUS
  <1>2. Core(t, t.at - 1) /\ Whole(t, t.at - 1) /\ Begun(t)
    BY DEF Amid, Whole
  <1>3. Whole(t, t.at)
    BY <1>1, <1>2, CoreOn
  <1> QED BY <1>2, <1>3 DEF Amid

LEMMA TakeOne ==
    ASSUME Stream, NEW s, Amid(s, s.at), NEW k \in Kinds, sent[s.at].i + 1 <= Size(sent[s.at].part), ~Waits(s, 1),
           Part[sent[s.at].part][sent[s.at].i + 1].k = k
    PROVE  Took(s, Take(s, <<k>>), 1)
  <1> DEFINE kinds == <<k>>
  <1>1. kinds \in Seq(Kinds) /\ Len(kinds) = 1 /\ kinds[1] = k
    OBVIOUS
  <1>2. \A j \in 1 .. 1 : j = 1
    OBVIOUS
  <1>3. \A j \in 1 .. 1 - 1 : FALSE
    OBVIOUS
  <1> HIDE DEF kinds
  <1>5. \A j \in 1 .. 1 : Part[sent[s.at].part][sent[s.at].i + j].k = kinds[j]
    BY <1>1, <1>2
  <1>6. \A j \in 1 .. 1 - 1 : Silent(Part[sent[s.at].part][sent[s.at].i + j])
    BY <1>3
  <1>7. 1 \in 1 .. 4
    OBVIOUS
  <1>4. Took(s, Take(s, kinds), 1)
    BY ZenonT(40), <1>1, <1>5, <1>6, <1>7, TakeFacts
  <1> QED BY <1>4 DEF kinds

LEMMA TwoKinds ==
    ASSUME NEW k \in Kinds, NEW l \in Kinds
    PROVE  <<k, l>> \in Seq(Kinds) /\ Len(<<k, l>>) = 2 /\ <<k, l>>[1] = k /\ <<k, l>>[2] = l
  OBVIOUS

LEMMA UpToTwo ==
    /\ \A j \in 1 .. 2 : j = 1 \/ j = 2
    /\ \A j \in 1 .. 2 - 1 : j = 1
    /\ 2 \in 1 .. 4
  OBVIOUS

LEMMA TakeTwo ==
    ASSUME Stream, NEW s, Amid(s, s.at), NEW k \in Kinds, NEW l \in Kinds, sent[s.at].i + 2 <= Size(sent[s.at].part),
           ~Waits(s, 2), Part[sent[s.at].part][sent[s.at].i + 1].k = k, Silent(Part[sent[s.at].part][sent[s.at].i + 1]),
           Part[sent[s.at].part][sent[s.at].i + 2].k = l
    PROVE  Took(s, Take(s, <<k, l>>), 2)
  <1> DEFINE kinds == <<k, l>>
  <1>1. kinds \in Seq(Kinds) /\ Len(kinds) = 2 /\ kinds[1] = k /\ kinds[2] = l
    BY Zenon, TwoKinds
  <1> HIDE DEF kinds
  <1>2. \A j \in 1 .. 2 : j = 1 \/ j = 2
    BY Zenon, UpToTwo
  <1>3. \A j \in 1 .. 2 - 1 : j = 1
    BY Zenon, UpToTwo
  <1>5. \A j \in 1 .. 2 : Part[sent[s.at].part][sent[s.at].i + j].k = kinds[j]
    BY <1>1, <1>2, ZenonT(60)
  <1>6. \A j \in 1 .. 2 - 1 : Silent(Part[sent[s.at].part][sent[s.at].i + j])
    BY <1>3, ZenonT(60)
  <1>7. 2 \in 1 .. 4
    BY Zenon, UpToTwo
  <1>4. Took(s, Take(s, kinds), 2)
    BY ZenonT(40), <1>1, <1>5, <1>6, <1>7, TakeFacts
  <1> QED BY <1>4 DEF kinds

LEMMA ThreeKinds ==
    ASSUME NEW k \in Kinds, NEW l \in Kinds, NEW o \in Kinds
    PROVE  <<k, l, o>> \in Seq(Kinds)
  OBVIOUS

LEMMA ThreePlaces ==
    ASSUME NEW k, NEW l, NEW o
    PROVE  Len(<<k, l, o>>) = 3 /\ <<k, l, o>>[1] = k /\ <<k, l, o>>[2] = l /\ <<k, l, o>>[3] = o
  OBVIOUS

LEMMA UpToThree ==
    /\ \A j \in 1 .. 3 : j = 1 \/ j = 2 \/ j = 3
    /\ \A j \in 1 .. 3 - 1 : j = 1 \/ j = 2
    /\ 3 \in 1 .. 4
  OBVIOUS

LEMMA TakeThree ==
    ASSUME Stream, NEW s, Amid(s, s.at), NEW k \in Kinds, NEW l \in Kinds, NEW o \in Kinds,
           sent[s.at].i + 3 <= Size(sent[s.at].part), ~Waits(s, 3),
           Part[sent[s.at].part][sent[s.at].i + 1].k = k, Silent(Part[sent[s.at].part][sent[s.at].i + 1]),
           Part[sent[s.at].part][sent[s.at].i + 2].k = l, Silent(Part[sent[s.at].part][sent[s.at].i + 2]),
           Part[sent[s.at].part][sent[s.at].i + 3].k = o
    PROVE  Took(s, Take(s, <<k, l, o>>), 3)
  <1> DEFINE kinds == <<k, l, o>>
  <1>0. kinds \in Seq(Kinds)
    BY Zenon, ThreeKinds
  <1>1. Len(kinds) = 3 /\ kinds[1] = k /\ kinds[2] = l /\ kinds[3] = o
    BY Zenon, ThreePlaces
  <1> HIDE DEF kinds
  <1>2. \A j \in 1 .. 3 : j = 1 \/ j = 2 \/ j = 3
    BY Zenon, UpToThree
  <1>3. \A j \in 1 .. 3 - 1 : j = 1 \/ j = 2
    BY Zenon, UpToThree
  <1>5. \A j \in 1 .. 3 : Part[sent[s.at].part][sent[s.at].i + j].k = kinds[j]
    BY <1>1, <1>2, ZenonT(60)
  <1>6. \A j \in 1 .. 3 - 1 : Silent(Part[sent[s.at].part][sent[s.at].i + j])
    BY <1>3, ZenonT(60)
  <1>7. 3 \in 1 .. 4
    BY Zenon, UpToThree
  <1>4. Took(s, Take(s, kinds), 3)
    BY ZenonT(40), <1>0, <1>1, <1>5, <1>6, <1>7, TakeFacts
  <1> QED BY <1>4 DEF kinds

LEMMA FourKinds ==
    ASSUME NEW k \in Kinds, NEW l \in Kinds, NEW o \in Kinds, NEW r \in Kinds
    PROVE  <<k, l, o, r>> \in Seq(Kinds)
  OBVIOUS

LEMMA FourPlaces ==
    ASSUME NEW k, NEW l, NEW o, NEW r
    PROVE  /\ Len(<<k, l, o, r>>) = 4
           /\ <<k, l, o, r>>[1] = k /\ <<k, l, o, r>>[2] = l /\ <<k, l, o, r>>[3] = o /\ <<k, l, o, r>>[4] = r
  OBVIOUS

LEMMA UpToFour ==
    /\ \A j \in 1 .. 4 : j = 1 \/ j = 2 \/ j = 3 \/ j = 4
    /\ \A j \in 1 .. 4 - 1 : j = 1 \/ j = 2 \/ j = 3
    /\ 4 \in 1 .. 4
  OBVIOUS

LEMMA TakeFour ==
    ASSUME Stream, NEW s, Amid(s, s.at), NEW k \in Kinds, NEW l \in Kinds, NEW o \in Kinds, NEW r \in Kinds,
           sent[s.at].i + 4 <= Size(sent[s.at].part), ~Waits(s, 4),
           Part[sent[s.at].part][sent[s.at].i + 1].k = k, Silent(Part[sent[s.at].part][sent[s.at].i + 1]),
           Part[sent[s.at].part][sent[s.at].i + 2].k = l, Silent(Part[sent[s.at].part][sent[s.at].i + 2]),
           Part[sent[s.at].part][sent[s.at].i + 3].k = o, Silent(Part[sent[s.at].part][sent[s.at].i + 3]),
           Part[sent[s.at].part][sent[s.at].i + 4].k = r
    PROVE  Took(s, Take(s, <<k, l, o, r>>), 4)
  <1> DEFINE kinds == <<k, l, o, r>>
  <1>0. kinds \in Seq(Kinds)
    BY Zenon, FourKinds
  <1>1. Len(kinds) = 4 /\ kinds[1] = k /\ kinds[2] = l /\ kinds[3] = o /\ kinds[4] = r
    BY Zenon, FourPlaces
  <1> HIDE DEF kinds
  <1>2. \A j \in 1 .. 4 : j = 1 \/ j = 2 \/ j = 3 \/ j = 4
    BY Zenon, UpToFour
  <1>3. \A j \in 1 .. 4 - 1 : j = 1 \/ j = 2 \/ j = 3
    BY Zenon, UpToFour
  <1>5. \A j \in 1 .. 4 : Part[sent[s.at].part][sent[s.at].i + j].k = kinds[j]
    BY <1>1, <1>2, ZenonT(60)
  <1>6. \A j \in 1 .. 4 - 1 : Silent(Part[sent[s.at].part][sent[s.at].i + j])
    BY <1>3
  <1>7. 4 \in 1 .. 4
    BY Zenon, UpToFour
  <1>4. Took(s, Take(s, kinds), 4)
    BY ZenonT(40), <1>0, <1>1, <1>5, <1>6, <1>7, TakeFacts
  <1> QED BY <1>4 DEF kinds

\* What is ahead of the client is the rest of the part.
LEMMA AheadFacts ==
    ASSUME Stream, NEW s, Amid(s, s.at), NEW j \in 1 .. 4, sent[s.at].i + j <= Size(sent[s.at].part)
    PROVE  Ahead(s, j) = Part[sent[s.at].part][sent[s.at].i + j]
  <1>1. s.at \in 1 .. Len(sent)
    <2>1. s \in Client /\ s.at <= arrived /\ arrived \in Nat /\ arrived <= Len(sent) /\ s.at > 0
      BY DEF Amid, Whole, Core, Begun
    <2>2. sent \in Seq(Items)
      BY DEF Stream
    <2>3. Len(sent) \in Nat /\ s.at \in Nat
      BY <2>1, <2>2, LenProperties, ClientParts
    <2> QED BY <2>1, <2>3
  <1>2. Inside(s.at, j)
    <2>1. j \in 0 .. 4
      OBVIOUS
    <2> QED BY <1>1, <2>1, InsideFacts
  <1> QED BY <1>2 DEF Inside, Ahead, Token

LEMMA OpsAssociative ==
    ASSUME NEW x \in Seq(OpType), NEW y \in Seq(OpType), NEW z \in Seq(OpType)
    PROVE  (x \o y) \o z = x \o (y \o z)
  BY ConcatAssociative

\* An operation is the last of the log whether it is drawn or has to wait.
LEMMA LogAppend ==
    ASSUME NEW drawn \in Seq(OpType), NEW queue \in Seq(OpType), NEW op \in OpType
    PROVE  /\ drawn \o queue \in Seq(OpType)
           /\ drawn \o Append(queue, op) = Append(drawn \o queue, op)
           /\ queue = <<>> => Append(drawn, op) \o queue = Append(drawn \o queue, op)
  <1>1. drawn \o queue \in Seq(OpType)
    BY ConcatProperties
  <1>2. drawn \o Append(queue, op) = Append(drawn \o queue, op)
    <2>1. <<op>> \in Seq(OpType)
      OBVIOUS
    <2>2. Append(queue, op) = queue \o <<op>>
      BY AppendIsConcat
    <2>3. Append(drawn \o queue, op) = (drawn \o queue) \o <<op>>
      BY <1>1, AppendIsConcat
    <2> QED BY <2>1, <2>2, <2>3, OpsAssociative
  <1>3. ASSUME queue = <<>> PROVE Append(drawn, op) \o queue = Append(drawn \o queue, op)
    <2>1. drawn \o queue = drawn
      BY <1>3, ConcatEmptySeq
    <2>2. Append(drawn, op) \in Seq(OpType)
      BY AppendProperties
    <2>3. Append(drawn, op) \o <<>> = Append(drawn, op)
      BY <2>2, ConcatEmptySeq
    <2> QED BY <1>3, <2>1, <2>3
  <1> QED BY <1>1, <1>2, <1>3

LEMMA LogQueue ==
    ASSUME NEW drawn \in Seq(OpType), NEW queue \in Seq(OpType), NEW n, Logged(drawn \o queue, n)
    PROVE  \A i \in 1 .. Len(queue) : queue[i] \in OpType /\ queue[i].p \in 1 .. n
  <1> SUFFICES ASSUME NEW i \in 1 .. Len(queue) PROVE queue[i] \in OpType /\ queue[i].p \in 1 .. n
    OBVIOUS
  <1>1. /\ Len(drawn) \in Nat /\ Len(queue) \in Nat /\ Len(drawn \o queue) = Len(drawn) + Len(queue)
        /\ i \in Nat /\ i >= 1 /\ i <= Len(queue)
    BY LenProperties, ConcatProperties
  <1>2. Len(drawn) + i \in 1 .. Len(drawn) + Len(queue) /\ ~(Len(drawn) + i <= Len(drawn)) /\ Len(drawn) + i - Len(drawn) = i
    BY <1>1
  <1>3. (drawn \o queue)[Len(drawn) + i] = queue[i]
    BY <1>2, ConcatProperties
  <1>4. (drawn \o queue)[Len(drawn) + i].p \in 1 .. n
    BY <1>1, <1>2 DEF Logged
  <1> QED BY <1>3, <1>4, ElementOfSeq

\* The client comes to an operation of the display, at the place it has read to.
LEMMA PutFacts ==
    ASSUME NEW s, NEW t \in Client, NEW op \in OpType, NEW a \in Nat, Core(s, a), Current(s.queue, s.at),
           op.p = s.at, s.at > 0, Shows(op), a <= s.at, IsDrawing(op) => a < s.at,
           \A p \in a + 1 .. s.at : /\ Token(p).d \in Drawing => p = s.at /\ IsDrawing(op)
                                    /\ Token(p).d # "told" /\ (p \in Keys => s.video),
           Same(s, t, {"queue", "drawn"}),
           \/ s.queue = <<>> /\ t.queue = <<>> /\ t.drawn = Append(s.drawn, op)
           \/ t.drawn = s.drawn /\ t.queue = Append(s.queue, op)
    PROVE  Core(t, s.at) /\ Current(t.queue, s.at)
  <1> DEFINE log == s.drawn \o s.queue
  <1>1. /\ s \in Client /\ s.drawn \in Seq(OpType) /\ s.queue \in Seq(OpType) /\ s.told \in Seq(Nat)
        /\ s.at \in Nat
    BY ClientParts DEF Core
  <1>2. t.drawn \o t.queue = Append(log, op) /\ log \in Seq(OpType)
    <2>1. /\ log \in Seq(OpType) /\ s.drawn \o Append(s.queue, op) = Append(log, op)
          /\ s.queue = <<>> => Append(s.drawn, op) \o s.queue = Append(log, op)
      BY ZenonT(40), <1>1, LogAppend
    <2>2. CASE s.queue = <<>> /\ t.queue = <<>> /\ t.drawn = Append(s.drawn, op)
      BY <2>1, <2>2, Zenon
    <2>3. CASE t.drawn = s.drawn /\ t.queue = Append(s.queue, op)
      BY <2>1, <2>3, Zenon
    <2> QED BY <2>1, <2>2, <2>3
  <1>4. Logged(log, a) /\ Heard(s.told, a) /\ Single(s.queue)
    BY DEF Core
  <1>5. Logged(Append(log, op), s.at)
    <2> HIDE DEF log
    <2> QED BY <1>1, <1>2, <1>4, LoggedMore
  <1>6. \A i \in 1 .. Len(s.queue) : s.queue[i].p <= op.p
    <2>1. \A i \in 1 .. Len(s.queue) : s.queue[i].p \in 1 .. a
      BY <1>1, <1>4, LogQueue
    <2> QED BY <1>1, <2>1
  <1>7. Single(t.queue) /\ Current(t.queue, s.at)
    <2>1. CASE t.queue = s.queue
      BY <1>4, <2>1
    <2>2. CASE t.queue = Append(s.queue, op)
      <3>1. Single(Append(s.queue, op)) /\ Current(Append(s.queue, op), op.p)
        BY <1>1, <1>4, <1>6, SingleMore
      <3> QED BY <2>2, <3>1
    <2> QED BY <2>1, <2>2
  <1>8. Heard(s.told, s.at)
    BY <1>1, <1>4, HeardOn
  <1>9. /\ t.at = s.at /\ t.ok = s.ok /\ t.failed = s.failed /\ t.told = s.told /\ t.video = s.video
        /\ t.viewOnly = s.viewOnly /\ t.said = s.said
    BY DEF Same, Fields
  <1>10. \A p \in Keys : p <= s.at => s.video
    <2>1. \A p \in Keys : p \in Nat
      BY DEF Keys
    <2>2. \A p \in Keys : p <= s.at => p <= a \/ p \in a + 1 .. s.at
      BY <1>1, <2>1
    <2> QED BY <2>2 DEF Core
  <1> HIDE DEF log
  <1> QED BY <1>2, <1>5, <1>7, <1>8, <1>9, <1>10 DEF Core

LEMMA DrawIs ==
    ASSUME NEW s \in Client, NEW d \in Drawing \cup {"flip"}, NEW view \in BOOLEAN
    PROVE  \E op \in OpType :
             /\ op.d = d /\ op.p = s.at /\ (view \/ op.own)
             /\ Draw(s, d, view) \in Client /\ Same(s, Draw(s, d, view), {"queue", "drawn"})
             /\ \/ s.queue = <<>> /\ Draw(s, d, view).queue = <<>> /\ Draw(s, d, view).drawn = Append(s.drawn, op)
                \/ Draw(s, d, view).drawn = s.drawn /\ Draw(s, d, view).queue = Append(s.queue, op)
  <1>1. s.drawn \in Seq(OpType) /\ s.queue \in Seq(OpType) /\ s.at \in Nat /\ s.first \in BOOLEAN
    BY ClientParts
  <1>2. CASE s.queue = <<>>
    <2> DEFINE op == Op(s, d, "ready")
               log == Append(s.drawn, op)
    <2>1. op \in OpType /\ op.d = d /\ op.p = s.at /\ op.own
      BY <1>1 DEF Op, OpType
    <2>2. Draw(s, d, view) = SetDrawn(s, log)
      BY <1>2, Zenon DEF Draw, SetDrawn
    <2> HIDE DEF op
    <2>3. log \in Seq(OpType)
      BY <1>1, <2>1, AppendProperties
    <2>4. SetDrawn(s, log) \in Client /\ Same(s, SetDrawn(s, log), {"drawn"}) /\ SetDrawn(s, log).drawn = log
      <3> HIDE DEF log
      <3> QED BY <2>3, SetDrawnFacts
    <2>5. Same(s, SetDrawn(s, log), {"queue", "drawn"}) /\ SetDrawn(s, log).queue = s.queue
      <3> HIDE DEF log
      <3> QED BY <2>4 DEF Same, Fields
    <2> QED BY <1>2, <2>1, <2>2, <2>4, <2>5, Zenon
  <1>3. CASE s.queue # <<>>
    <2> DEFINE op == [Op(s, d, "ready") EXCEPT !.own = ~view \/ s.first]
               log == Append(s.queue, op)
    <2>1. op \in OpType /\ op.d = d /\ op.p = s.at /\ (view \/ op.own)
      BY <1>1 DEF Op, OpType
    <2>2. Draw(s, d, view) = SetQueue(s, log)
      BY <1>3, Zenon DEF Draw, SetQueue
    <2> HIDE DEF op
    <2>3. log \in Seq(OpType)
      BY <1>1, <2>1, AppendProperties
    <2>4. SetQueue(s, log) \in Client /\ Same(s, SetQueue(s, log), {"queue"}) /\ SetQueue(s, log).queue = log
      <3> HIDE DEF log
      <3> QED BY <2>3, SetQueueFacts
    <2>5. Same(s, SetQueue(s, log), {"queue", "drawn"}) /\ SetQueue(s, log).drawn = s.drawn
      <3> HIDE DEF log
      <3> QED BY <2>4 DEF Same, Fields
    <2> QED BY <2>1, <2>2, <2>4, <2>5, Zenon
  <1> QED BY <1>2, <1>3

LEMMA DrawLaterIs ==
    \A s \in Client, d \in Drawing, st \in {"loading", "broken"} :
       \E op \in OpType :
          /\ op.d = d /\ op.p = s.at /\ op.own
          /\ DrawLater(s, d, st) \in Client /\ Same(s, DrawLater(s, d, st), {"queue", "drawn"})
          /\ DrawLater(s, d, st).drawn = s.drawn /\ DrawLater(s, d, st).queue = Append(s.queue, op)
  <1> TAKE s \in Client, d \in Drawing, st \in {"loading", "broken"}
  <1>1. s.queue \in Seq(OpType) /\ s.at \in Nat
    BY ClientParts
  <1> DEFINE op == Op(s, d, st)
             log == Append(s.queue, op)
  <1>2. op \in OpType /\ op.d = d /\ op.p = s.at /\ op.own
    BY <1>1 DEF Op, OpType
  <1>3. DrawLater(s, d, st) = SetQueue(s, log)
    BY Zenon DEF DrawLater, SetQueue
  <1> HIDE DEF op
  <1>4. log \in Seq(OpType)
    BY <1>1, <1>2, AppendProperties
  <1>5. SetQueue(s, log) \in Client /\ Same(s, SetQueue(s, log), {"queue"}) /\ SetQueue(s, log).queue = log
    <2> HIDE DEF log
    <2> QED BY <1>4, SetQueueFacts
  <1>6. Same(s, SetQueue(s, log), {"queue", "drawn"}) /\ SetQueue(s, log).drawn = s.drawn
    <2> HIDE DEF log
    <2> QED BY <1>5 DEF Same, Fields
  <1> QED BY <1>2, <1>3, <1>5, <1>6, Zenon

LEMMA AmidParts ==
    ASSUME NEW s, NEW n, Amid(s, n)
    PROVE  /\ s \in Client /\ s.at \in Nat /\ s.at > 0 /\ s.at - 1 \in Nat /\ s.at - 1 < s.at
           /\ arrived \in Nat /\ s.at <= arrived /\ arrived <= Len(sent)
           /\ Core(s, n) /\ Whole(s, n) /\ Begun(s) /\ Current(s.queue, s.at)
           /\ \A p \in (s.at - 1) + 1 .. s.at : p = s.at
  <1>1. /\ s \in Client /\ s.at > 0 /\ arrived \in Nat /\ s.at <= arrived /\ arrived <= Len(sent)
        /\ Core(s, n) /\ Whole(s, n) /\ Begun(s) /\ Current(s.queue, s.at)
    BY DEF Amid, Whole, Core, Begun
  <1>2. s.at \in Nat
    BY <1>1, ClientParts
  <1> QED BY <1>1, <1>2

\* What was drawn accounts for the token it was drawn from.
LEMMA Drawn ==
    ASSUME NEW s, NEW t \in Client, NEW op \in OpType, Amid(s, s.at - 1), Same(s, t, {"queue", "drawn"}),
           op.d = Token(s.at).d, op.p = s.at, op.d \in Drawing, op.own \/ Token(s.at).k \in {"line", "pixels"},
           Token(s.at).k \notin {"zdata", "ctl"}, s.at \in Keys => s.video,
           \/ s.queue = <<>> /\ t.queue = <<>> /\ t.drawn = Append(s.drawn, op)
           \/ t.drawn = s.drawn /\ t.queue = Append(s.queue, op)
    PROVE  Amid(t, t.at) /\ t.at = s.at
  <1>1. /\ s.at \in Nat /\ s.at > 0 /\ s.at - 1 \in Nat /\ s.at - 1 < s.at /\ s.at - 1 <= s.at
        /\ Core(s, s.at - 1) /\ Begun(s) /\ Current(s.queue, s.at)
        /\ \A p \in (s.at - 1) + 1 .. s.at : p = s.at
    BY AmidParts
  <1>2. IsDrawing(op) /\ Shows(op) /\ op.d # "told"
    BY DEF Drawing, IsDrawing, Shows
  <1>3. Core(t, s.at) /\ Current(t.queue, s.at)
    <2>1. \A p \in (s.at - 1) + 1 .. s.at : /\ Token(p).d \in Drawing => p = s.at /\ IsDrawing(op)
                                            /\ Token(p).d # "told" /\ (p \in Keys => s.video)
      BY <1>1, <1>2
    <2> QED BY <1>1, <1>2, <2>1, PutFacts
  <1>4. Blocks(s.at) = Blocks(s.at - 1)
    BY <1>1, BlocksOn DEF Resets
  <1>5. t.inflated = s.inflated /\ t.at = s.at
    BY DEF Same, Fields
  <1>6. Begun(t)
    <2>1. Same(s, t, {"ok", "failed", "told", "drawn", "inflated", "video", "viewOnly", "said", "queue"} \cup Loose)
      BY SameMore
    <2> QED BY <1>1, <1>3, <2>1, BegunSame
  <1> QED BY <1>3, <1>4, <1>5, <1>6 DEF Amid, Whole

LEMMA DrawFacts ==
    ASSUME NEW s, NEW d \in Drawing, NEW view \in BOOLEAN, Amid(s, s.at - 1), Token(s.at).d = d,
           view => Token(s.at).k \in {"line", "pixels"},
           Token(s.at).k \notin {"zdata", "ctl"}, s.at \in Keys => s.video
    PROVE  LET t == Draw(s, d, view)
           IN  t \in Client /\ t.at = s.at /\ Amid(t, t.at) /\ Same(s, t, {"queue", "drawn"})
  <1>1. s \in Client
    BY AmidParts
  <1> DEFINE t == Draw(s, d, view)
  <1>2. PICK op \in OpType :
             /\ op.d = d /\ op.p = s.at /\ (view \/ op.own)
             /\ t \in Client /\ Same(s, t, {"queue", "drawn"})
             /\ \/ s.queue = <<>> /\ t.queue = <<>> /\ t.drawn = Append(s.drawn, op)
                \/ t.drawn = s.drawn /\ t.queue = Append(s.queue, op)
    BY <1>1, DrawIs
  <1> HIDE DEF t
  <1>3. Amid(t, t.at) /\ t.at = s.at
    BY <1>2, Drawn
  <1> QED BY <1>2, <1>3 DEF t

LEMMA DrawLaterFacts ==
    ASSUME NEW s, NEW d \in Drawing, NEW st \in {"loading", "broken"}, Amid(s, s.at - 1), Token(s.at).d = d,
           Token(s.at).k \notin {"zdata", "ctl"}, s.at \in Keys => s.video
    PROVE  LET t == DrawLater(s, d, st)
           IN  t \in Client /\ t.at = s.at /\ Amid(t, t.at) /\ Same(s, t, {"queue", "drawn"})
  <1>1. s \in Client
    BY AmidParts
  <1> DEFINE t == DrawLater(s, d, st)
  <1>2. PICK op \in OpType :
             /\ op.d = d /\ op.p = s.at /\ op.own
             /\ t \in Client /\ Same(s, t, {"queue", "drawn"})
             /\ t.drawn = s.drawn /\ t.queue = Append(s.queue, op)
    BY <1>1, DrawLaterIs, ZenonT(60)
  <1> HIDE DEF t
  <1>3. Amid(t, t.at) /\ t.at = s.at
    BY <1>2, Drawn
  <1> QED BY <1>2, <1>3 DEF t

\* A block of a zlib stream comes after all those it depends on.
LEMMA InflateFacts ==
    ASSUME NEW s, NEW z, Amid(s, s.at - 1), Token(s.at).k = "zdata", Token(s.at).v = z, Token(s.at).d = "blit",
           s.at \notin Keys
    PROVE  LET t == Inflate(s, z)
           IN  t \in Client /\ t.at = s.at /\ Amid(t, t.at) /\ Same(s, t, {"queue", "drawn", "inflated"})
  <1>1. /\ s \in Client /\ s.at \in Nat /\ s.at > 0 /\ s.at - 1 \in Nat /\ s.at - 1 < s.at /\ s.at - 1 <= s.at
        /\ Core(s, s.at - 1) /\ Whole(s, s.at - 1) /\ Begun(s) /\ Current(s.queue, s.at)
        /\ \A p \in (s.at - 1) + 1 .. s.at : p = s.at
    BY AmidParts
  <1> DEFINE more == s.inflated \cup {s.at}
             u == SetInflated(s, more)
             t == Draw(u, "blit", FALSE)
  <1>2. Blocks(s.at) = Blocks(s.at - 1) \cup {s.at} /\ {p \in Blocks(s.at) : p < s.at} = Blocks(s.at - 1)
    <2>1. (s.at - 1) + 1 = s.at
      BY <1>1
    <2> QED BY <1>1, <2>1, BlocksOne
  <1>3. more = Blocks(s.at) /\ more \in SUBSET Nat
    <2>1. s.inflated = Blocks(s.at - 1)
      BY <1>1 DEF Whole
    <2> QED BY <1>1, <1>2, <2>1, BlocksBelow
  <1>4. {p \in s.inflated : Token(p).v = z} = {p \in Blocks(s.at) : Token(p).v = z /\ p < s.at}
    <2>1. s.inflated = Blocks(s.at - 1)
      BY <1>1 DEF Whole
    <2>2. \A p : p \in Blocks(s.at - 1) <=> p \in Blocks(s.at) /\ p < s.at
      BY <1>2
    <2> QED BY <2>1, <2>2
  <1>5. Inflate(s, z) = t
    BY <1>4, Zenon DEF Inflate, SetInflated
  <1> HIDE DEF more
  <1>6. u \in Client /\ Same(s, u, {"inflated"}) /\ u.inflated = more
    BY <1>1, <1>3, SetInflatedFacts
  <1> HIDE DEF u
  <1>7. PICK op \in OpType :
             /\ op.d = "blit" /\ op.p = u.at /\ op.own
             /\ t \in Client /\ Same(u, t, {"queue", "drawn"})
             /\ \/ u.queue = <<>> /\ t.queue = <<>> /\ t.drawn = Append(u.drawn, op)
                \/ t.drawn = u.drawn /\ t.queue = Append(u.queue, op)
    <2>1. "blit" \in Drawing \cup {"flip"}
      BY DEF Drawing
    <2> QED BY <1>6, <2>1, DrawIs, ZenonT(60)
  <1> HIDE DEF t
  <1>8. u.at = s.at /\ u.queue = s.queue /\ t.inflated = more /\ t.at = s.at /\ u.video = s.video
    BY <1>6, <1>7 DEF Same, Fields
  <1>9. Core(u, s.at - 1)
    <2>1. Same(s, u, {"inflated", "flushing", "flushed", "rects", "enc", "n"} \cup Loose)
      BY <1>6, SameMore
    <2> QED BY <1>1, <1>6, <2>1, CoreLoose
  <1>10. IsDrawing(op) /\ Shows(op) /\ op.d # "told"
    BY <1>7, <1>8 DEF Drawing, IsDrawing, Shows
  <1>11. Core(t, s.at) /\ Current(t.queue, s.at)
    <2>1. \A p \in (s.at - 1) + 1 .. s.at : /\ Token(p).d \in Drawing => p = s.at /\ IsDrawing(op)
                                            /\ Token(p).d # "told" /\ (p \in Keys => u.video)
      BY <1>1, <1>10
    <2>2. op.p = u.at /\ u.at > 0 /\ s.at - 1 <= u.at /\ (IsDrawing(op) => s.at - 1 < u.at) /\ Current(u.queue, u.at)
      BY <1>1, <1>7, <1>8
    <2>3. Core(t, u.at) /\ Current(t.queue, u.at)
      BY <1>1, <1>7, <1>8, <1>9, <1>10, <2>1, <2>2, PutFacts
    <2> QED BY <1>8, <2>3
  <1>12. Same(s, t, {"queue", "drawn", "inflated"})
    <2>1. Same(s, t, {"inflated"} \cup {"queue", "drawn"})
      BY <1>6, <1>7, SameTrans
    <2> QED BY <2>1, SameMore
  <1>13. Begun(t)
    <2>1. Same(s, t, {"ok", "failed", "told", "drawn", "inflated", "video", "viewOnly", "said", "queue"} \cup Loose)
      BY <1>12, SameMore
    <2> QED BY <1>1, <1>11, <2>1, BegunSame
  <1> QED BY <1>3, <1>5, <1>7, <1>8, <1>11, <1>12, <1>13 DEF Amid, Whole

LEMMA TellFacts ==
    ASSUME NEW s, s.at > 0, Whole(s, s.at - 1), Token(s.at).d = "told", Token(s.at).k \notin {"zdata", "ctl"},
           s.at \notin Keys
    PROVE  LET t == Tell(s)
           IN  t \in Client /\ t.at = s.at /\ Whole(t, t.at) /\ Same(s, t, {"told"})
  <1>1. s \in Client /\ s.told \in Seq(Nat) /\ s.at \in Nat /\ s.drawn \in Seq(OpType) /\ s.queue \in Seq(OpType)
    BY ClientParts DEF Whole, Core
  <1>2. s.at - 1 \in Nat /\ s.at - 1 <= s.at /\ (s.at - 1) + 1 = s.at /\ \A p \in (s.at - 1) + 1 .. s.at : p = s.at
    BY <1>1
  <1> DEFINE more == Append(s.told, s.at)
             t == SetTold(s, more)
  <1>3. Tell(s) = t
    BY Zenon DEF Tell, SetTold
  <1>4. more \in Seq(Nat)
    BY <1>1, AppendProperties
  <1>5. Heard(more, s.at)
    <2>1. Heard(s.told, s.at - 1)
      BY DEF Whole, Core
    <2>2. Heard(Append(s.told, (s.at - 1) + 1), (s.at - 1) + 1)
      BY <1>1, <1>2, <2>1, HeardOne
    <2> QED BY <1>2, <2>2
  <1> HIDE DEF more
  <1>6. t \in Client /\ Same(s, t, {"told"}) /\ t.told = more
    BY <1>1, <1>4, SetToldFacts
  <1> HIDE DEF t
  <1>7. Logged(s.drawn \o s.queue, s.at)
    <2>1. s.drawn \o s.queue \in Seq(OpType) /\ Logged(s.drawn \o s.queue, s.at - 1)
      BY <1>1, ConcatProperties DEF Whole, Core
    <2>2. \A p \in (s.at - 1) + 1 .. s.at : Token(p).d \notin Drawing
      BY <1>2 DEF Drawing
    <2> QED BY <1>1, <1>2, <2>1, <2>2, LoggedOn
  <1>8. Blocks(s.at) = Blocks(s.at - 1)
    BY <1>1, <1>2, BlocksOn DEF Resets
  <1>9. /\ t.at = s.at /\ t.ok = s.ok /\ t.failed = s.failed /\ t.drawn = s.drawn /\ t.queue = s.queue
        /\ t.video = s.video /\ t.viewOnly = s.viewOnly /\ t.said = s.said /\ t.inflated = s.inflated
    BY <1>6 DEF Same, Fields
  <1>10. \A p \in Keys : p <= s.at => s.video
    <2>1. \A p \in Keys : p \in Nat
      BY DEF Keys
    <2>2. \A p \in Keys : p <= s.at => p <= s.at - 1
      BY <1>1, <2>1
    <2> QED BY <2>2 DEF Whole, Core
  <1>11. Core(t, s.at)
    BY <1>5, <1>6, <1>7, <1>9, <1>10 DEF Whole, Core
  <1> QED BY <1>3, <1>6, <1>8, <1>9, <1>11 DEF Whole

LEMMA AmidTell ==
    ASSUME NEW s, Amid(s, s.at - 1), Token(s.at).d = "told", Token(s.at).k \notin {"zdata", "ctl"}, s.at \notin Keys
    PROVE  LET t == Tell(s)
           IN  t \in Client /\ t.at = s.at /\ Amid(t, t.at) /\ Same(s, t, {"told"})
  <1> DEFINE t == Tell(s)
  <1>1. s.at > 0 /\ Whole(s, s.at - 1) /\ Begun(s) /\ Current(s.queue, s.at)
    BY AmidParts
  <1>2. t \in Client /\ t.at = s.at /\ Whole(t, t.at) /\ Same(s, t, {"told"})
    BY <1>1, TellFacts
  <1> HIDE DEF t
  <1>3. t.queue = s.queue
    BY <1>2 DEF Same, Fields
  <1>4. Same(s, t, {"ok", "failed", "told", "drawn", "inflated", "video", "viewOnly", "said", "queue"} \cup Loose)
    BY <1>2, SameMore
  <1>5. Begun(t)
    BY <1>1, <1>3, <1>4, BegunSame
  <1> QED BY <1>2, <1>5 DEF Amid, t

LEMMA SayFacts ==
    ASSUME NEW s, NEW what \in Words, NEW n, Whole(s, n), s.viewOnly => what # "request"
    PROVE  LET t == Say(s, what) IN t \in Client /\ Same(s, t, {"said"}) /\ Whole(t, n)
  <1>1. s \in Client /\ s.said \in Seq(Words) /\ (s.viewOnly => ~Contains(s.said, "request"))
    BY ClientParts DEF Whole, Core
  <1> DEFINE more == Append(s.said, what)
             t == SetSaid(s, more)
  <1>2. Say(s, what) = t
    BY Zenon DEF Say, SetSaid
  <1>3. /\ more \in Seq(Words) /\ Len(s.said) \in Nat /\ Len(more) = Len(s.said) + 1
        /\ \A i \in 1 .. Len(s.said) : more[i] = s.said[i]
        /\ more[Len(s.said) + 1] = what
    BY <1>1, AppendProperties
  <1> HIDE DEF more
  <1>4. s.viewOnly => ~Contains(more, "request")
    <2> SUFFICES ASSUME s.viewOnly, NEW i \in 1 .. Len(more), more[i] = "request" PROVE FALSE
      BY DEF Contains
    <2>1. CASE i \in 1 .. Len(s.said)
      BY <1>1, <1>3, <2>1 DEF Contains
    <2>2. CASE i = Len(s.said) + 1
      BY <1>3, <2>2
    <2> QED BY <1>3, <2>1, <2>2
  <1>5. t \in Client /\ Same(s, t, {"said"}) /\ t.said = more
    BY <1>1, <1>3, SetSaidFacts
  <1> HIDE DEF t
  <1>6. /\ t.at = s.at /\ t.ok = s.ok /\ t.failed = s.failed /\ t.drawn = s.drawn /\ t.queue = s.queue
        /\ t.video = s.video /\ t.viewOnly = s.viewOnly /\ t.told = s.told /\ t.inflated = s.inflated
    BY <1>5 DEF Same, Fields
  <1>7. Whole(t, n)
    BY <1>4, <1>5, <1>6 DEF Whole, Core
  <1> QED BY <1>2, <1>5, <1>7

LEMMA FlipFacts ==
    ASSUME NEW s, Whole(s, s.at), Current(s.queue, s.at), s.at > 0, s.at \in Ends \cup Resized
    PROVE  LET t == Flip(s)
           IN  /\ t \in Client /\ t.at = s.at /\ Whole(t, t.at) /\ Current(t.queue, t.at)
               /\ Same(s, t, {"queue", "drawn"})
  <1>1. s \in Client /\ s.at \in Nat /\ Core(s, s.at)
    BY ClientParts DEF Whole, Core
  <1> DEFINE t == Draw(s, "flip", FALSE)
  <1>2. PICK op \in OpType :
             /\ op.d = "flip" /\ op.p = s.at
             /\ t \in Client /\ Same(s, t, {"queue", "drawn"})
             /\ \/ s.queue = <<>> /\ t.queue = <<>> /\ t.drawn = Append(s.drawn, op)
                \/ t.drawn = s.drawn /\ t.queue = Append(s.queue, op)
    <2>1. "flip" \in Drawing \cup {"flip"} /\ FALSE \in BOOLEAN
      OBVIOUS
    <2>2. PICK op \in OpType :
             /\ op.d = "flip" /\ op.p = s.at /\ (FALSE \/ op.own)
             /\ t \in Client /\ Same(s, t, {"queue", "drawn"})
             /\ \/ s.queue = <<>> /\ t.queue = <<>> /\ t.drawn = Append(s.drawn, op)
                \/ t.drawn = s.drawn /\ t.queue = Append(s.queue, op)
      BY Zenon, <1>1, <2>1, DrawIs
    <2> HIDE DEF t
    <2> QED BY <2>2
  <1> HIDE DEF t
  <1>3. ~IsDrawing(op) /\ Shows(op)
    BY <1>2 DEF IsDrawing, Shows
  <1>4. Core(t, s.at) /\ Current(t.queue, s.at)
    <2>1. s.at <= s.at /\ \A p \in s.at + 1 .. s.at : FALSE
      BY <1>1
    <2> QED BY <1>1, <1>2, <1>3, <2>1, PutFacts
  <1>5. t.inflated = s.inflated /\ t.at = s.at
    BY <1>2 DEF Same, Fields
  <1>6. Flip(s) = t
    BY DEF Flip, t
  <1> QED BY <1>2, <1>4, <1>5, <1>6 DEF Whole

\* A message is over.
Over(s) ==
    /\ Whole(s, s.at) /\ s.enc = "none" /\ Rests(s) /\ s.rects = 0 /\ s.at \in Ends
    /\ ~s.flushing /\ ~s.flushed

LEMMA IdleSame ==
    ASSUME NEW s, NEW t, NEW changed, NEW busy, Same(s, t, changed), Idle(s, busy), changed \cap Work \subseteq busy
    PROVE  Idle(t, busy)
  <1>1. Work \subseteq Fields
    BY DEF Work, Fields
  <1> QED BY <1>1 DEF Same, Idle

LEMMA RestsSame ==
    ASSUME NEW s, NEW t, NEW changed, Rests(s), Same(s, t, changed), changed \cap Work = {}
    PROVE  Rests(t)
  BY IdleSame DEF Rests

LEMMA IdleParts ==
    ASSUME NEW s, NEW busy, Idle(s, busy)
    PROVE  /\ "lines" \notin busy => s.lines = 0
           /\ "subrects" \notin busy => s.subrects = 0
           /\ "tiles" \notin busy => s.tiles = 0
           /\ "len" \notin busy => s.len = {}
           /\ "ctl" \notin busy => s.ctl = "none"
           /\ "filter" \notin busy => s.filter = "none"
           /\ "colours" \notin busy => ~s.colours
           /\ "segments" \notin busy => s.segments = {}
  BY DEF Idle, Work, Nothing

LEMMA ReturnFacts ==
    ASSUME NEW s, Over(s)
    PROVE  Good(Return(s))
  <1>1. s \in Client /\ arrived \in Nat /\ s.at \in Nat
    BY ClientParts DEF Over, Whole, Core
  <1> DEFINE run == ~Waits(s, 1)
             t == SetRun(s, run)
  <1>2. run \in BOOLEAN /\ (run => s.at < arrived)
    BY <1>1 DEF Waits
  <1>3. Return(s) = t
    BY Zenon DEF Return, SetRun
  <1> HIDE DEF run
  <1>4. t \in Client /\ Same(s, t, {"run"}) /\ t.run = run
    BY <1>1, <1>2, SetRunFacts
  <1> HIDE DEF t
  <1>5. Whole(t, s.at)
    <2>1. Same(s, t, {"flushing", "flushed", "rects", "enc", "n"} \cup Loose)
      BY <1>4 DEF Same, Loose
    <2> QED BY <1>4, <2>1, WholeLoose DEF Over
  <1>6. Rests(t)
    <2>1. {"run"} \cap Work = {}
      BY DEF Work
    <2> QED BY <1>4, <2>1, RestsSame DEF Over
  <1>7. t.at = s.at /\ t.enc = s.enc /\ t.rects = s.rects /\ t.flushing = s.flushing /\ t.flushed = s.flushed
    BY <1>4 DEF Same, Fields
  <1>8. Before(t)
    BY <1>2, <1>4, <1>5, <1>6, <1>7 DEF Before, Over
  <1> QED BY <1>3, <1>8 DEF Good

\* The rectangle was read and drawn, the last of its update if it is where one ends.
Finishes(s) ==
    /\ Whole(s, s.at) /\ Current(s.queue, s.at) /\ ~s.flushing /\ ~s.flushed
    /\ s.at > 0 /\ Closes(s.at) /\ sent[s.at].part \in Rects
    /\ s.rects = IF s.at \in Ends THEN 1 ELSE sent[s.at].left + 1
    /\ Rests(s)

LEMMA FinishFacts ==
    ASSUME Stream, NEW s, Finishes(s)
    PROVE  Good(Finish(s))
  <1>1. /\ s \in Client /\ arrived \in Nat /\ s.at \in Nat /\ s.at \in 1 .. Len(sent) /\ s.rects \in Nat
    <2>1. s \in Client /\ arrived \in Nat /\ s.at <= arrived /\ arrived <= Len(sent) /\ s.at > 0 /\ sent \in Seq(Items)
      BY DEF Finishes, Whole, Core, Stream
    <2>2. s.at \in Nat /\ s.rects \in Nat /\ Len(sent) \in Nat
      BY <2>1, ClientParts, LenProperties
    <2> QED BY <2>1, <2>2
  <1>2. sent[s.at].left \in Nat /\ (s.at \in Ends \/ sent[s.at].left > 0) /\ s.rects >= 1
    <2>1. sent[s.at].left \in Nat
      BY <1>1, StreamParts
    <2>2. s.at \in Ends \/ sent[s.at].left # 0
      BY <1>1 DEF Finishes, Ends
    <2> QED BY <2>1, <2>2 DEF Finishes
  <1> DEFINE rects == s.rects - 1
             t == SetDone(s, rects, "none")
  <1>3. rects \in Nat /\ (rects > 0 <=> s.at \notin Ends) /\ (rects > 0 => rects = sent[s.at].left) /\ (s.at \in Ends => rects = 0)
    BY <1>1, <1>2 DEF Finishes
  <1>4. Finish(s) = IF t.rects > 0 THEN t ELSE Return([Flip(t) EXCEPT !.asked = @ \/ ~t.cont])
    BY Zenon DEF Finish, SetDone
  <1> HIDE DEF rects
  <1>5. t \in Client /\ Same(s, t, {"rects", "enc"}) /\ t.rects = rects /\ t.enc = "none"
    BY <1>1, <1>3, SetDoneFacts
  <1> HIDE DEF t
  <1>6. Whole(t, s.at)
    <2>1. Same(s, t, {"flushing", "flushed", "rects", "enc", "n"} \cup Loose)
      BY <1>5, SameMore
    <2> QED BY <1>5, <2>1, WholeLoose DEF Finishes
  <1>7. Rests(t)
    <2>1. {"rects", "enc"} \cap Work = {}
      BY DEF Work
    <2> QED BY <1>5, <2>1, RestsSame DEF Finishes
  <1>8. t.at = s.at /\ t.flushing = s.flushing /\ t.flushed = s.flushed /\ t.queue = s.queue /\ t.run = s.run
    BY <1>5 DEF Same, Fields
  <1>9. CASE rects > 0
    <2>1. Before(t)
      BY <1>1, <1>3, <1>5, <1>6, <1>7, <1>8, <1>9 DEF Before, Finishes
    <2> QED BY <1>4, <1>5, <1>9, <2>1 DEF Good
  <1>10. CASE ~(rects > 0)
    <2> DEFINE u == Flip(t)
               asked == u.asked \/ ~t.cont
               v == SetAsked(u, asked)
    <2>1. s.at \in Ends /\ rects = 0
      BY <1>3, <1>10
    <2>2. u \in Client /\ u.at = t.at /\ Whole(u, u.at) /\ Same(t, u, {"queue", "drawn"})
      <3>1. Whole(t, t.at) /\ Current(t.queue, t.at) /\ t.at > 0 /\ t.at \in Ends \cup Resized
        BY <1>1, <1>6, <1>8, <2>1 DEF Finishes
      <3> QED BY <3>1, FlipFacts
    <2>3. Finish(s) = Return(v)
      BY <1>4, <1>5, <1>10, Zenon DEF SetAsked
    <2> HIDE DEF u
    <2>4. asked \in BOOLEAN
      BY <1>5, <2>2, ClientParts
    <2> HIDE DEF asked
    <2>5. v \in Client /\ Same(u, v, {"asked"})
      BY <2>2, <2>4, SetAskedFacts
    <2> HIDE DEF v
    <2>6. Whole(v, u.at)
      <3>1. Same(u, v, {"flushing", "flushed", "rects", "enc", "n"} \cup Loose)
        BY <2>5 DEF Same, Loose
      <3> QED BY <2>2, <2>5, <3>1, WholeLoose
    <2>7. Same(t, v, {"queue", "drawn"} \cup {"asked"})
      BY <2>2, <2>5, SameTrans
    <2>8. Rests(v)
      <3>1. ({"queue", "drawn"} \cup {"asked"}) \cap Work = {}
        BY DEF Work
      <3> QED BY <1>7, <2>7, <3>1, RestsSame
    <2>9. v.at = t.at /\ v.enc = t.enc /\ v.rects = t.rects /\ v.flushing = t.flushing /\ v.flushed = t.flushed /\ u.at = t.at
      BY <2>2, <2>7 DEF Same, Fields
    <2>10. Over(v)
      BY <1>5, <1>8, <2>1, <2>6, <2>8, <2>9 DEF Over, Finishes
    <2> QED BY <2>3, <2>10, ReturnFacts
  <1> QED BY <1>9, <1>10

LEMMA AmidFinish ==
    ASSUME Stream, NEW s, Amid(s, s.at), Closes(s.at), sent[s.at].part # "last", Rests(s)
    PROVE  Good(Finish(s))
  <1>1. s.at \in Ends => sent[s.at].left = 0
    BY DEF Ends
  <1>2. Finishes(s)
    BY <1>1 DEF Finishes, Amid, Begun
  <1> QED BY <1>2, FinishFacts

\* What a decoder is left with is not touched.
LEMMA LeftSame ==
    ASSUME NEW s, NEW t, NEW changed, NEW part, NEW i, Same(s, t, changed), Left(s, part, i),
           changed \cap (Work \cup {"lastsub"}) = {}
    PROVE  Left(t, part, i)
  <1>1. /\ t.lines = s.lines /\ t.subrects = s.subrects /\ t.tiles = s.tiles /\ t.lastsub = s.lastsub
        /\ t.len = s.len /\ t.ctl = s.ctl /\ t.filter = s.filter /\ t.colours = s.colours /\ t.segments = s.segments
    BY DEF Same, Fields, Work
  <1>2. \A busy : Idle(s, busy) => Idle(t, busy)
    <2>1. changed \cap Work = {}
      OBVIOUS
    <2> QED BY <2>1, IdleSame
  <1>3. /\ AtRaw(s, i) => AtRaw(t, i)
        /\ AtRRE(s, i) => AtRRE(t, i)
        /\ AtHextile(s, i) => AtHextile(t, i)
        /\ AtBlock(s, i, part) => AtBlock(t, i, part)
        /\ AtFill(s, i) => AtFill(t, i)
        /\ AtPicture(s, i, "jpeg") => AtPicture(t, i, "jpeg")
        /\ AtPicture(s, i, "png") => AtPicture(t, i, "png")
    BY <1>1, <1>2 DEF AtRaw, AtRRE, AtHextile, AtBlock, AtFill, AtPicture
  <1>4. /\ AtBasic(s, i) => AtBasic(t, i)
        /\ AtReset(s, i) => AtReset(t, i)
        /\ AtPalette(s, i) => AtPalette(t, i)
        /\ AtJPEG(s, i) => AtJPEG(t, i)
        /\ AtBare(s, i) => AtBare(t, i)
        /\ Rests(s) => Rests(t)
    BY <1>1, <1>2 DEF AtBasic, AtReset, AtPalette, AtJPEG, AtBare, Rests
  <1> QED BY <1>3, <1>4 DEF Left

LEMMA WithinSame ==
    ASSUME NEW s, NEW t \in Client, Same(s, t, {"run", "fresh", "first", "asked", "cont", "canCont", "size", "cached", "caps", "text", "pasted"}),
           Within(s)
    PROVE  Within(t)
  <1>1. Same(s, t, Loose) /\ t.at = s.at
    BY DEF Same, Loose, Fields
  <1>2. Amid(t, s.at)
    BY <1>1, AmidLoose DEF Within
  <1>3. {"run", "fresh", "first", "asked", "cont", "canCont", "size", "cached", "caps", "text", "pasted"}
        \cap (Work \cup {"lastsub"}) = {}
    BY DEF Work
  <1>4. Left(t, sent[s.at].part, sent[s.at].i)
    BY <1>3, LeftSame DEF Within
  <1> QED BY <1>1, <1>2, <1>4 DEF Within

LEMMA BeforeSame ==
    ASSUME NEW s, NEW t \in Client, Same(s, t, {"run", "fresh", "first", "asked", "cont", "canCont", "size", "cached", "caps", "text", "pasted"}),
           Before(s), t.run => s.run \/ s.at < arrived \/ s.rects > 0
    PROVE  Before(t)
  <1>1. Same(s, t, {"flushing", "flushed", "rects", "enc", "n"} \cup Loose)
    BY DEF Same, Loose
  <1>2. Whole(t, s.at)
    BY <1>1, WholeLoose DEF Before
  <1>3. Rests(t)
    <2>1. {"run", "fresh", "first", "asked", "cont", "canCont", "size", "cached", "caps", "text", "pasted"} \cap Work = {}
      BY DEF Work
    <2> QED BY <2>1, RestsSame DEF Before
  <1>4. /\ t.at = s.at /\ t.enc = s.enc /\ t.rects = s.rects /\ t.flushing = s.flushing /\ t.flushed = s.flushed
        /\ t.queue = s.queue
    BY DEF Same, Fields
  <1>5. s.rects \in Nat
    BY ClientParts DEF Before, Whole, Core
  <1> QED BY <1>2, <1>3, <1>4, <1>5 DEF Before

LEMMA WaitFacts ==
    ASSUME NEW s
    PROVE  (Within(s) => Good(Wait(s))) /\ (Before(s) => Good(Wait(s)))
  <1> DEFINE t == Wait(s)
  <1>1. ASSUME s \in Client
        PROVE  /\ t \in Client /\ ~t.run
               /\ Same(s, t, {"run", "fresh", "first", "asked", "cont", "canCont", "size", "cached", "caps", "text", "pasted"})
    <2> DEFINE no == FALSE
    <2>1. no \in BOOLEAN
      OBVIOUS
    <2>2. t = SetRun(s, no)
      BY Zenon DEF Wait, SetRun
    <2>3. ~no
      OBVIOUS
    <2> HIDE DEF no
    <2>4. SetRun(s, no) \in Client /\ Same(s, SetRun(s, no), {"run"}) /\ SetRun(s, no).run = no
      BY <1>1, <2>1, SetRunFacts
    <2>5. Same(s, SetRun(s, no), {"run", "fresh", "first", "asked", "cont", "canCont", "size", "cached", "caps", "text", "pasted"})
      BY <2>4, SameMore
    <2> QED BY <2>2, <2>3, <2>4, <2>5, Zenon
  <1> HIDE DEF t
  <1>2. (Within(s) \/ Before(s)) => s \in Client
    BY DEF Within, Before, Amid, Whole, Core
  <1>3. Within(s) => Within(t)
    BY <1>1, <1>2, WithinSame
  <1>4. Before(s) => Before(t)
    BY <1>1, <1>2, BeforeSame
  <1> QED BY <1>3, <1>4 DEF Good, t

LEMMA ResizeFacts ==
    ASSUME NEW s, NEW n \in Nat, Amid(s, s.at), s.at \in Resized
    PROVE  LET t == Resize(s, n)
           IN  t \in Client /\ t.at = s.at /\ Amid(t, t.at) /\ Same(s, t, {"size", "queue", "drawn", "said"})
  <1> DEFINE u == SetSize(s, n)
             v == Flip(u)
             t == IF n = s.size THEN s ELSE v
             what == "enableContinuousUpdates"
             w == Say(t, what)
             x == IF t.cont THEN w ELSE t
  <1>1. s \in Client /\ s.at > 0 /\ Whole(s, s.at) /\ Begun(s) /\ Current(s.queue, s.at)
    BY AmidParts
  <1>2. Resize(s, n) = x
    BY Zenon DEF Resize, SetSize
  <1>3. u \in Client /\ Same(s, u, {"size"})
    BY <1>1, SetSizeFacts
  <1> HIDE DEF u
  <1>4. u.at = s.at /\ u.queue = s.queue
    BY <1>3 DEF Same, Fields
  <1>5. Whole(u, u.at)
    <2>1. Same(s, u, {"flushing", "flushed", "rects", "enc", "n"} \cup Loose)
      BY <1>3 DEF Same, Loose
    <2> QED BY <1>1, <1>3, <1>4, <2>1, WholeLoose
  <1>6. v \in Client /\ v.at = u.at /\ Whole(v, v.at) /\ Current(v.queue, v.at) /\ Same(u, v, {"queue", "drawn"})
    BY <1>1, <1>4, <1>5, FlipFacts
  <1> HIDE DEF v
  <1>7. Same(s, v, {"size", "queue", "drawn"})
    <2>1. Same(s, v, {"size"} \cup {"queue", "drawn"})
      BY <1>3, <1>6, SameTrans
    <2> QED BY <2>1, SameMore
  <1>8. t \in Client /\ t.at = s.at /\ Whole(t, s.at) /\ Current(t.queue, s.at) /\ Same(s, t, {"size", "queue", "drawn"})
    <2>1. Same(s, s, {"size", "queue", "drawn"})
      BY DEF Same
    <2> QED BY <1>1, <1>4, <1>6, <1>7, <2>1
  <1> HIDE DEF t
  <1>9. w \in Client /\ Same(t, w, {"said"}) /\ Whole(w, s.at)
    <2>1. what \in Words /\ what # "request"
      BY DEF Words
    <2> HIDE DEF what
    <2> QED BY <1>8, <2>1, SayFacts
  <1> HIDE DEF w
  <1>10. w.at = s.at /\ w.queue = t.queue /\ Same(s, w, {"size", "queue", "drawn", "said"})
    <2>1. Same(s, w, {"size", "queue", "drawn"} \cup {"said"})
      BY <1>8, <1>9, SameTrans
    <2>2. Same(s, w, {"size", "queue", "drawn", "said"})
      BY <2>1, SameMore
    <2>3. w.at = t.at /\ w.queue = t.queue
      BY <1>9 DEF Same, Fields
    <2> QED BY <1>8, <2>2, <2>3
  <1>11. x \in Client /\ x.at = s.at /\ Whole(x, s.at) /\ Current(x.queue, s.at) /\ Same(s, x, {"size", "queue", "drawn", "said"})
    <2>1. Same(s, t, {"size", "queue", "drawn", "said"})
      BY <1>8, SameMore
    <2> QED BY <1>8, <1>9, <1>10, <2>1
  <1> HIDE DEF x
  <1>12. Begun(x)
    <2>1. Same(s, x, {"ok", "failed", "told", "drawn", "inflated", "video", "viewOnly", "said", "queue"} \cup Loose)
      BY <1>11 DEF Same, Loose
    <2> QED BY <1>1, <1>11, <2>1, BegunSame
  <1> QED BY <1>2, <1>11, <1>12 DEF Amid

----------------------------------------------------------------------------
(***************************************************************************)
(* In a rectangle: after the i-th token of a part, or with that token taken*)
(* and still to be dealt with.                                             *)
(***************************************************************************)

At(s, part, i) == Amid(s, s.at) /\ sent[s.at].part = part /\ sent[s.at].i = i
Taken(s, part, i) ==
    /\ s \in Client /\ Amid(s, s.at - 1) /\ sent[s.at].part = part /\ sent[s.at].i = i
    /\ Token(s.at) = Part[part][i]

\* What reading and drawing touch, none of it being what a decoder remembers.
Moved == {"run", "at", "fresh", "first", "ok", "queue", "drawn", "told", "inflated", "video", "cached"}

LEMMA MovedParts ==
    ASSUME NEW s, NEW t, Same(s, t, Moved)
    PROVE  /\ t.n = s.n /\ t.enc = s.enc /\ t.rects = s.rects
           /\ t.lines = s.lines /\ t.subrects = s.subrects /\ t.tiles = s.tiles /\ t.lastsub = s.lastsub
           /\ t.len = s.len /\ t.ctl = s.ctl /\ t.filter = s.filter /\ t.colours = s.colours
           /\ t.segments = s.segments
           /\ \A busy : Idle(s, busy) => Idle(t, busy)
  <1>1. /\ t.n = s.n /\ t.enc = s.enc /\ t.rects = s.rects
        /\ t.lines = s.lines /\ t.subrects = s.subrects /\ t.tiles = s.tiles /\ t.lastsub = s.lastsub
        /\ t.len = s.len /\ t.ctl = s.ctl /\ t.filter = s.filter /\ t.colours = s.colours
        /\ t.segments = s.segments
    BY DEF Same, Fields, Moved
  <1>2. Moved \cap Work = {}
    BY DEF Moved, Work
  <1>3. \A busy : Idle(s, busy) => Idle(t, busy)
    BY <1>2, IdleSame
  <1> QED BY <1>1, <1>3

LEMMA MovedTrans ==
    ASSUME NEW s, NEW t, NEW u, Same(s, t, Moved), Same(t, u, Moved)
    PROVE  Same(s, u, Moved)
  BY DEF Same

LEMMA AtParts ==
    ASSUME Stream, NEW s, NEW part, NEW i, At(s, part, i)
    PROVE  /\ s \in Client /\ s.at \in Nat /\ s.at > 0 /\ s.at \in 1 .. Len(sent) /\ Amid(s, s.at)
           /\ part \in Rects /\ i \in Nat /\ i >= 1 /\ i <= Size(part) /\ Size(part) \in Nat
           /\ s.enc = Part[part][1].v /\ s.n = Part[part][1].n /\ Token(s.at) = Part[part][i]
  <1>1. /\ s \in Client /\ s.at \in Nat /\ s.at > 0 /\ s.at <= arrived /\ arrived \in Nat /\ arrived <= Len(sent) /\ Begun(s)
    BY AmidParts DEF At
  <1>2. Len(sent) \in Nat /\ s.at \in 1 .. Len(sent)
    <2>1. sent \in Seq(Items)
      BY DEF Stream
    <2>2. Len(sent) \in Nat
      BY <2>1, LenProperties
    <2> QED BY <1>1, <2>2
  <1>3. i \in Nat /\ i >= 1 /\ i <= Size(part) /\ Size(part) \in Nat
    BY <1>2, StreamParts DEF At
  <1> QED BY <1>1, <1>2, <1>3 DEF At, Begun, Token

LEMMA AtLoose ==
    ASSUME NEW s, NEW t \in Client, NEW part, NEW i, At(s, part, i), Same(s, t, Loose)
    PROVE  At(t, part, i)
  <1>1. t.at = s.at
    BY DEF Same, Fields, Loose
  <1>2. Amid(t, s.at)
    BY AmidLoose DEF At
  <1> QED BY <1>1, <1>2 DEF At

LEMMA AtWithin ==
    ASSUME NEW s, NEW part, NEW i, At(s, part, i), Left(s, part, i)
    PROVE  Within(s) /\ Good(s) /\ Good(Wait(s))
  <1>1. Within(s)
    BY DEF At, Within
  <1> QED BY <1>1, WaitFacts DEF Good

LEMMA WithinAt ==
    ASSUME Stream, NEW s, Within(s)
    PROVE  \E part \in Rects, i \in Nat : At(s, part, i) /\ Left(s, part, i)
  <1>1. At(s, sent[s.at].part, sent[s.at].i)
    BY DEF At, Within
  <1>2. sent[s.at].part \in Rects /\ sent[s.at].i \in Nat
    BY <1>1, AtParts
  <1> QED BY <1>1, <1>2 DEF Within

LEMMA AtFinish ==
    ASSUME Stream, NEW s, NEW part, NEW i, At(s, part, i), i = Size(part), part # "last", Rests(s)
    PROVE  Good(Finish(s))
  BY AmidFinish DEF At, Closes

LEMMA TookTaken ==
    ASSUME Stream, NEW s, NEW part, NEW i, At(s, part, i), NEW t, NEW m, Took(s, t, m)
    PROVE  Taken(t, part, i + m) /\ Same(s, t, Moved)
  <1>1. Same(s, t, Moved)
    BY DEF Took, Same, Moved
  <1> QED BY <1>1 DEF Took, Taken, At, Token

\* One token is taken.
LEMMA TakenOne ==
    ASSUME Stream, NEW s, NEW part, NEW i, At(s, part, i), i + 1 <= Size(part), ~Waits(s, 1),
           NEW k \in Kinds, Part[part][i + 1].k = k
    PROVE  Taken(Take(s, <<k>>), part, i + 1) /\ Same(s, Take(s, <<k>>), Moved)
  <1>1. Took(s, Take(s, <<k>>), 1)
    BY TakeOne DEF At
  <1> QED BY <1>1, TookTaken

\* The token was the last that nothing needs to be done for.
LEMMA TakenSilent ==
    ASSUME NEW s, NEW part, NEW i, Taken(s, part, i), Silent(Part[part][i]), part # "key"
    PROVE  At(s, part, i)
  <1>1. s.at \notin Keys
    BY DEF Keys, Taken
  <1>2. s.at \in Nat /\ s.at > 0
    BY AmidParts DEF Taken
  <1>3. Amid(s, s.at)
    BY <1>1, <1>2, Reads DEF Taken
  <1> QED BY <1>3 DEF At, Taken

LEMMA TakenDraw ==
    ASSUME NEW s, NEW part, NEW i, Taken(s, part, i), NEW d \in Drawing, Part[part][i].d = d, NEW view \in BOOLEAN,
           view => Part[part][i].k \in {"line", "pixels"}, Part[part][i].k \notin {"zdata", "ctl"}, part # "key"
    PROVE  LET t == Draw(s, d, view)
           IN  t \in Client /\ At(t, part, i) /\ Same(s, t, Moved)
  <1> DEFINE t == Draw(s, d, view)
  <1>1. s.at \notin Keys
    BY DEF Keys, Taken
  <1>2. t \in Client /\ t.at = s.at /\ Amid(t, t.at) /\ Same(s, t, {"queue", "drawn"})
    BY <1>1, DrawFacts DEF Taken
  <1> HIDE DEF t
  <1>3. Same(s, t, Moved)
    BY <1>2 DEF Same, Moved
  <1> QED BY <1>2, <1>3 DEF At, Taken, t

LEMMA TakenLater ==
    ASSUME NEW s, NEW part, NEW i, Taken(s, part, i), NEW d \in Drawing, Part[part][i].d = d,
           NEW st \in {"loading", "broken"},
           Part[part][i].k \notin {"zdata", "ctl"}, part # "key"
    PROVE  LET t == DrawLater(s, d, st)
           IN  t \in Client /\ At(t, part, i) /\ Same(s, t, Moved)
  <1> DEFINE t == DrawLater(s, d, st)
  <1>1. s.at \notin Keys
    BY DEF Keys, Taken
  <1>2. t \in Client /\ t.at = s.at /\ Amid(t, t.at) /\ Same(s, t, {"queue", "drawn"})
    BY <1>1, DrawLaterFacts DEF Taken
  <1> HIDE DEF t
  <1>3. Same(s, t, Moved)
    BY <1>2 DEF Same, Moved
  <1> QED BY <1>2, <1>3 DEF At, Taken, t

LEMMA TakenInflate ==
    ASSUME NEW s, NEW part, NEW i, NEW z, Taken(s, part, i), Part[part][i] = Of("zdata", z, 0, "blit"), part # "key"
    PROVE  LET t == Inflate(s, z)
           IN  t \in Client /\ At(t, part, i) /\ Same(s, t, Moved)
  <1> DEFINE t == Inflate(s, z)
  <1>1. s.at \notin Keys
    BY DEF Keys, Taken
  <1>2. Token(s.at).k = "zdata" /\ Token(s.at).v = z /\ Token(s.at).d = "blit"
    BY DEF Taken, Of
  <1>3. t \in Client /\ t.at = s.at /\ Amid(t, t.at) /\ Same(s, t, {"queue", "drawn", "inflated"})
    BY <1>1, <1>2, InflateFacts DEF Taken
  <1> HIDE DEF t
  <1>4. Same(s, t, Moved)
    BY <1>3 DEF Same, Moved
  <1> QED BY <1>3, <1>4 DEF At, Taken, t

LEMMA TakenTell ==
    ASSUME NEW s, NEW part, NEW i, Taken(s, part, i), Part[part][i].d = "told",
           Part[part][i].k \notin {"zdata", "ctl"}, part # "key"
    PROVE  LET t == Tell(s)
           IN  t \in Client /\ At(t, part, i) /\ Same(s, t, Moved)
  <1> DEFINE t == Tell(s)
  <1>1. s.at \notin Keys
    BY DEF Keys, Taken
  <1>2. t \in Client /\ t.at = s.at /\ Amid(t, t.at) /\ Same(s, t, {"told"})
    BY <1>1, AmidTell DEF Taken
  <1> HIDE DEF t
  <1>3. Same(s, t, Moved)
    BY <1>2 DEF Same, Moved
  <1> QED BY <1>2, <1>3 DEF At, Taken, t

\* What was taken can be noted before it is dealt with.
LEMMA TakenLoose ==
    ASSUME NEW s, NEW t \in Client, NEW part, NEW i, Taken(s, part, i), Same(s, t, Loose)
    PROVE  Taken(t, part, i)
  <1>1. t.at = s.at
    BY DEF Same, Fields, Loose
  <1>2. Amid(t, s.at - 1)
    BY AmidLoose DEF Taken
  <1> QED BY <1>1, <1>2 DEF Taken

\* Only busy fields were changed.
LEMMA IdleBut ==
    ASSUME NEW s, NEW t, NEW changed, NEW busy, NEW more, Same(s, t, changed), Idle(s, busy),
           changed \cap Work \subseteq more, busy \subseteq more
    PROVE  Idle(t, more)
  <1>1. Idle(s, more)
    BY DEF Idle
  <1> QED BY <1>1, IdleSame

----------------------------------------------------------------------------
(***************************************************************************)
(* The decoders: a step of one leaves the client where it can be.          *)
(***************************************************************************)

\* Which rectangles an encoding stands for.
LEMMA EncodingParts ==
    \A part \in Rects :
      LET v == Part[part][1].v
      IN  /\ v = "raw" => part \in {"raw", "nothing"}
          /\ v = "copyrect" => part = "copyrect"
          /\ v = "rre" => part = "rre"
          /\ v = "hextile" => part = "hextile"
          /\ v = "zlib" => part = "zlib"
          /\ v = "zrle" => part = "zrle"
          /\ v = "tight" => part \in {"fill", "photo", "dots", "basic", "reset", "palette"}
          /\ v = "tightPNG" => part = "png"
          /\ v = "jpeg" => part \in {"jpeg", "bare"}
          /\ v = "h264" => part \in {"key", "delta"}
          /\ v = "LastRect" => part = "last"
          /\ v = "Cursor" => part = "cursor"
          /\ v = "VMwareCursor" => part = "vmware"
          /\ v = "DesktopName" => part = "name"
          /\ v = "QEMULedEvent" => part = "leds"
          /\ v = "QEMUExtendedKeyEvent" => part = "keys"
          /\ v = "ExtendedMouseButtons" => part = "buttons"
          /\ v = "DesktopSize" => part = "size"
          /\ v = "ExtendedDesktopSize" => part = "layout"
  <1>1. /\ Part["raw"][1].v = "raw" /\ Part["nothing"][1].v = "raw" /\ Part["copyrect"][1].v = "copyrect"
        /\ Part["rre"][1].v = "rre" /\ Part["hextile"][1].v = "hextile"
        /\ Part["zlib"][1].v = "zlib" /\ Part["zrle"][1].v = "zrle"
    BY RawPart, NothingPart, CopyrectPart, RrePart, HextilePart, ZlibPart, ZrlePart DEF Of
  <1>2. /\ Part["fill"][1].v = "tight" /\ Part["photo"][1].v = "tight" /\ Part["png"][1].v = "tightPNG"
        /\ Part["dots"][1].v = "tight" /\ Part["basic"][1].v = "tight" /\ Part["reset"][1].v = "tight"
        /\ Part["palette"][1].v = "tight"
    BY FillPart, PhotoPart, PngPart, DotsPart, BasicPart, ResetPart, PalettePart DEF Of
  <1>3. /\ Part["jpeg"][1].v = "jpeg" /\ Part["bare"][1].v = "jpeg"
        /\ Part["key"][1].v = "h264" /\ Part["delta"][1].v = "h264" /\ Part["last"][1].v = "LastRect"
        /\ Part["cursor"][1].v = "Cursor" /\ Part["vmware"][1].v = "VMwareCursor"
        /\ Part["name"][1].v = "DesktopName"
    BY JpegPart, BarePart, KeyPart, DeltaPart, LastPart, CursorPart, VmwarePart, NamePart DEF Of
  <1>4. /\ Part["leds"][1].v = "QEMULedEvent" /\ Part["keys"][1].v = "QEMUExtendedKeyEvent"
        /\ Part["buttons"][1].v = "ExtendedMouseButtons" /\ Part["size"][1].v = "DesktopSize"
        /\ Part["layout"][1].v = "ExtendedDesktopSize"
    BY LedsPart, KeysPart, ButtonsPart, SizePart, LayoutPart DEF Of
  <1> QED BY <1>1, <1>2, <1>3, <1>4 DEF Rects

\* The rectangle the client is in, by its encoding.
LEMMA InEncoding ==
    ASSUME Stream, NEW s, Within(s), NEW parts,
           \A part \in Rects : Part[part][1].v = s.enc => part \in parts
    PROVE  \E part \in parts, i \in Nat : At(s, part, i) /\ Left(s, part, i)
  <1>1. PICK part \in Rects, i \in Nat : At(s, part, i) /\ Left(s, part, i)
    BY WithinAt
  <1>2. part \in parts
    BY <1>1, AtParts
  <1> QED BY <1>1, <1>2

LEMMA RawFacts ==
    ASSUME Stream, NEW s, Within(s), s.enc = "raw"
    PROVE  Good(RawRect(s))
  <1>0. \A part \in Rects : Part[part][1].v = s.enc => part \in {"raw", "nothing"}
    BY EncodingParts
  <1>1. PICK part \in {"raw", "nothing"}, i \in Nat : At(s, part, i) /\ Left(s, part, i)
    BY <1>0, InEncoding
  <1> DEFINE left == IF s.lines = 0 THEN s.n ELSE s.lines
             w == SetLines(s, left)
             u == Take(s, <<"line">>)
             v == Draw(u, "blit", TRUE)
             x == left - 1
             t == SetLines(v, x)
  <1>2. RawRect(s) = IF s.n = 0 THEN Finish(s)
                     ELSE IF Waits(s, 1) THEN Wait(w)
                     ELSE IF left = 1 THEN Finish(t) ELSE t
    BY Zenon DEF RawRect, SetLines
  <1>3. s \in Client /\ s.n = Part[part][1].n
    BY <1>1, AtParts
  <1>4. CASE part = "nothing"
    <2>1. s.n = 0 /\ i = 1 /\ Size(part) = 1 /\ Rests(s)
      BY <1>1, <1>3, <1>4, NothingPart DEF Of, Left
    <2>2. Good(Finish(s))
      BY <1>1, <1>4, <2>1, AtFinish
    <2> QED BY <1>2, <2>1, <2>2
  <1>5. CASE part = "raw"
    <2>1. AtRaw(s, i) /\ s.n = 2 /\ Size(part) = 3
      BY <1>1, <1>3, <1>5, RawPart DEF Of, Left
    <2>2. i \in {1, 2} /\ left = 3 - i /\ Idle(s, {"lines"})
      BY <2>1 DEF AtRaw
    <2> HIDE DEF left
    <2>3. left \in Nat /\ x \in Nat
      BY <2>2
    <2>4. CASE Waits(s, 1)
      <3>1. w \in Client /\ Same(s, w, {"lines"}) /\ w.lines = left
        BY <1>3, <2>3, SetLinesFacts
      <3> HIDE DEF w
      <3>2. At(w, part, i)
        <4>1. Same(s, w, Loose)
          BY <3>1 DEF Same, Loose
        <4> QED BY <1>1, <3>1, <4>1, AtLoose
      <3>3. Idle(w, {"lines"})
        BY <2>2, <3>1, IdleSame
      <3>4. Left(w, part, i)
        BY <1>5, <2>2, <3>1, <3>3 DEF Left, AtRaw
      <3>5. Good(Wait(w))
        BY <3>2, <3>4, AtWithin
      <3> QED BY <1>2, <2>1, <2>4, <3>5
    <2>5. CASE ~Waits(s, 1)
      <3>1. Part[part][i + 1] = Of("line", "none", 0, "blit") /\ i + 1 <= Size(part)
        BY <1>5, <2>1, <2>2, RawPart
      <3>2. Part[part][i + 1].k = "line" /\ Part[part][i + 1].d = "blit" /\ "line" \in Kinds /\ "blit" \in Drawing
        BY <3>1 DEF Of, Kinds, Drawing
      <3>3. Taken(u, part, i + 1) /\ Same(s, u, Moved)
        BY <1>1, <2>5, <3>1, <3>2, TakenOne
      <3> HIDE DEF u
      <3>4. v \in Client /\ At(v, part, i + 1) /\ Same(u, v, Moved)
        BY <1>5, <3>2, <3>3, TakenDraw
      <3> HIDE DEF v
      <3>5. Idle(v, {"lines"})
        BY <2>2, <3>3, <3>4, MovedParts
      <3>6. t \in Client /\ Same(v, t, {"lines"}) /\ t.lines = x
        BY <2>3, <3>4, SetLinesFacts
      <3> HIDE DEF t
      <3>7. At(t, part, i + 1) /\ Idle(t, {"lines"})
        <4>1. Same(v, t, Loose)
          BY <3>6 DEF Same, Loose
        <4> QED BY <3>4, <3>5, <3>6, <4>1, AtLoose, IdleSame
      <3>8. CASE left = 1
        <4>1. Rests(t)
          BY <3>6, <3>7, <3>8 DEF Rests, Idle, Nothing
        <4>2. i + 1 = Size(part)
          BY <2>1, <2>2, <3>8
        <4>3. Good(Finish(t))
          BY <1>5, <3>7, <4>1, <4>2, AtFinish
        <4> QED BY <1>2, <2>1, <2>5, <3>8, <4>3
      <3>9. CASE left # 1
        <4>1. i + 1 = 2 /\ t.lines = 1
          BY <2>2, <3>6, <3>9
        <4>2. Left(t, part, i + 1)
          BY <1>5, <3>7, <4>1 DEF Left, AtRaw
        <4>3. Good(t)
          BY <3>7, <4>2, AtWithin
        <4> QED BY <1>2, <2>1, <2>5, <3>9, <4>3
      <3> QED BY <3>8, <3>9
    <2> QED BY <2>4, <2>5
  <1> QED BY <1>4, <1>5

LEMMA CopyFacts ==
    ASSUME Stream, NEW s, Within(s), s.enc = "copyrect"
    PROVE  Good(CopyRect(s))
  <1>0. \A part \in Rects : Part[part][1].v = s.enc => part \in {"copyrect"}
    BY EncodingParts
  <1>1. PICK part \in {"copyrect"}, i \in Nat : At(s, part, i) /\ Left(s, part, i)
    BY <1>0, InEncoding
  <1> DEFINE u == Take(s, <<"from">>)
             v == Draw(u, "copy", FALSE)
  <1>2. CopyRect(s) = IF Waits(s, 1) THEN Wait(s) ELSE Finish(IF s.n = 0 THEN u ELSE v)
    BY Zenon DEF CopyRect
  <1>3. s.n = 1 /\ i = 1 /\ Size(part) = 2 /\ Rests(s) /\ Part[part][i + 1] = Of("from", "none", 0, "copy")
    BY <1>1, AtParts, CopyrectPart DEF Of, Left
  <1>4. Part[part][i + 1].k = "from" /\ Part[part][i + 1].d = "copy" /\ "from" \in Kinds /\ "copy" \in Drawing
    BY <1>3 DEF Of, Kinds, Drawing
  <1>5. CASE Waits(s, 1)
    BY <1>1, <1>2, <1>5, AtWithin
  <1>6. CASE ~Waits(s, 1)
    <2>1. Taken(u, part, i + 1) /\ Same(s, u, Moved)
      BY <1>1, <1>3, <1>4, <1>6, TakenOne
    <2> HIDE DEF u
    <2>2. v \in Client /\ At(v, part, i + 1) /\ Same(u, v, Moved)
      BY <1>1, <1>4, <2>1, TakenDraw
    <2> HIDE DEF v
    <2>3. Rests(v)
      BY <1>3, <2>1, <2>2, MovedParts DEF Rests
    <2>4. Good(Finish(v))
      BY <1>1, <1>3, <2>2, <2>3, AtFinish
    <2> QED BY <1>2, <1>3, <1>6, <2>4
  <1> QED BY <1>5, <1>6

LEMMA RREFacts ==
    ASSUME Stream, NEW s, Within(s), s.enc = "rre"
    PROVE  Good(RRERect(s))
  <1>0. \A part \in Rects : Part[part][1].v = s.enc => part \in {"rre"}
    BY EncodingParts
  <1>1. PICK part \in {"rre"}, i \in Nat : At(s, part, i) /\ Left(s, part, i)
    BY <1>0, InEncoding
  <1> DEFINE k == IF s.subrects = 0 THEN "back" ELSE "subrect"
             u == Take(s, <<k>>)
             v == Draw(u, "fill", FALSE)
             x == IF s.subrects = 0 THEN Token(v.at).n ELSE v.subrects - 1
             t == SetSubrects(v, x)
  <1>2. RRERect(s) = IF Waits(s, 1) THEN Wait(s) ELSE IF t.subrects = 0 THEN Finish(t) ELSE t
    <2>1. <<k>> = IF s.subrects = 0 THEN <<"back">> ELSE <<"subrect">>
      OBVIOUS
    <2> HIDE DEF k
    <2> QED BY <2>1, Zenon DEF RRERect, SetSubrects, Now
  <1>3. AtRRE(s, i) /\ Size(part) = 3
    BY <1>1, RrePart DEF Left
  <1>4. i \in {1, 2} /\ s.subrects = i - 1 /\ Idle(s, {"subrects"})
    BY <1>3 DEF AtRRE
  <1>5. /\ i + 1 <= Size(part) /\ Part[part][i + 1].k = k /\ Part[part][i + 1].d = "fill"
        /\ i = 1 => Part[part][i + 1].n = 1
    BY <1>1, <1>3, <1>4, RrePart DEF Of
  <1>6. k \in Kinds /\ k \notin {"zdata", "ctl"} /\ "fill" \in Drawing
    BY DEF Kinds, Drawing
  <1>7. CASE Waits(s, 1)
    BY <1>1, <1>2, <1>7, AtWithin
  <1>8. CASE ~Waits(s, 1)
    <2> HIDE DEF k
    <2>1. Taken(u, part, i + 1) /\ Same(s, u, Moved)
      BY <1>1, <1>5, <1>6, <1>8, TakenOne
    <2> HIDE DEF u
    <2>2. v \in Client /\ At(v, part, i + 1) /\ Same(u, v, Moved)
      BY <1>1, <1>5, <1>6, <2>1, TakenDraw
    <2> HIDE DEF v
    <2>3. Idle(v, {"subrects"}) /\ v.subrects = s.subrects /\ Token(v.at) = Part[part][i + 1]
      BY <1>4, <2>1, <2>2, MovedParts, AtParts
    <2>4. x = 2 - i /\ x \in Nat
      BY <1>4, <1>5, <2>3
    <2> HIDE DEF x
    <2>5. t \in Client /\ Same(v, t, {"subrects"}) /\ t.subrects = x
      BY <2>2, <2>4, SetSubrectsFacts
    <2> HIDE DEF t
    <2>6. At(t, part, i + 1) /\ Idle(t, {"subrects"})
      <3>1. Same(v, t, Loose)
        BY <2>5 DEF Same, Loose
      <3> QED BY <2>2, <2>3, <2>5, <3>1, AtLoose, IdleSame
    <2>7. CASE i = 2
      <3>1. Rests(t)
        BY <2>4, <2>5, <2>6, <2>7 DEF Rests, Idle, Nothing
      <3>2. Good(Finish(t))
        BY <1>1, <1>3, <2>6, <2>7, <3>1, AtFinish
      <3> QED BY <1>2, <1>8, <2>4, <2>5, <2>7, <3>2
    <2>8. CASE i = 1
      <3>1. Left(t, part, i + 1)
        BY <1>1, <2>4, <2>5, <2>6, <2>8 DEF Left, AtRRE
      <3>2. Good(t)
        BY <2>6, <3>1, AtWithin
      <3> QED BY <1>2, <1>8, <2>4, <2>5, <2>8, <3>2
    <2> QED BY <1>4, <2>7, <2>8
  <1> QED BY <1>7, <1>8

\* A tile was drawn.
LEMMA TileFacts ==
    ASSUME Stream, NEW s, NEW u \in Client, NEW i, NEW left \in 1 .. 4, NEW sub \in Subs,
           AtHextile(s, i), Same(s, u, Moved),
           NEW j, At(u, "hextile", j),
           \/ left = 4 /\ j = 5 /\ sub = "some"
           \/ left = 3 /\ j = 6
           \/ left = 2 /\ j = 8
           \/ left = 1 /\ j = 10
    PROVE  LET v == [u EXCEPT !.tiles = left - 1, !.lastsub = sub]
           IN  Good(IF left = 1 THEN Finish(v) ELSE v)
  <1> DEFINE x == left - 1
             v == SetTile(u, x, sub)
  <1>1. x \in Nat /\ sub \in Subs \cup {"none"} /\ Idle(u, {"tiles"}) /\ Size("hextile") = 10
    BY MovedParts, HextilePart DEF AtHextile
  <1>2. (IF left = 1 THEN Finish(v) ELSE v)
        = LET w == [u EXCEPT !.tiles = left - 1, !.lastsub = sub] IN IF left = 1 THEN Finish(w) ELSE w
    BY Zenon DEF SetTile
  <1> HIDE DEF x
  <1>3. v \in Client /\ Same(u, v, {"tiles", "lastsub"}) /\ v.tiles = x /\ v.lastsub = sub
    BY <1>1, SetTileFacts
  <1> HIDE DEF v
  <1>4. At(v, "hextile", j) /\ Idle(v, {"tiles"})
    <2>1. Same(u, v, Loose)
      BY <1>3 DEF Same, Loose
    <2>2. {"tiles", "lastsub"} \cap Work \subseteq {"tiles"}
      BY DEF Work
    <2> QED BY <1>1, <1>3, <2>1, <2>2, AtLoose, IdleSame
  <1>5. CASE left = 1
    <2>1. Rests(v)
      BY <1>3, <1>4, <1>5 DEF Rests, Idle, Nothing, x
    <2>2. Good(Finish(v))
      BY <1>1, <1>4, <1>5, <2>1, AtFinish
    <2> QED BY <1>2, <1>5, <2>2
  <1>6. CASE left # 1
    <2>1. AtHextile(v, j)
      BY <1>3, <1>4, <1>6 DEF AtHextile, x
    <2>2. Good(v)
      BY <1>4, <2>1, AtWithin DEF Left
    <2> QED BY <1>2, <1>6, <2>2
  <1> QED BY <1>5, <1>6

LEMMA TileKindsFacts ==
    /\ DOMAIN TileKinds = Subs
    /\ TileKinds["blank"] = <<"sub">> /\ Len(TileKinds["blank"]) = 1
    /\ TileKinds["raw"] = <<"sub", "pixels">> /\ Len(TileKinds["raw"]) = 2
    /\ TileKinds["plain"] = <<"sub", "colours">> /\ Len(TileKinds["plain"]) = 2
    /\ TileKinds["some"] = <<"sub", "colours", "count", "subrects">> /\ Len(TileKinds["some"]) = 4
  BY DEF TileKinds, Subs

LEMMA HextileFacts ==
    ASSUME Stream, NEW s, Within(s), s.enc = "hextile"
    PROVE  Good(HextileRect(s))
  <1>0. \A part \in Rects : Part[part][1].v = s.enc => part \in {"hextile"}
    BY EncodingParts
  <1>1. PICK part \in {"hextile"}, i \in Nat : At(s, part, i) /\ Left(s, part, i)
    BY <1>0, InEncoding
  <1> DEFINE left == IF s.tiles = 0 THEN s.n ELSE s.tiles
             sub == Ahead(s, 1).v
             w == SetTiles(s, left)
             t == Take(s, TileKinds[sub])
             u == IF sub # "blank" THEN Draw(t, "blit", sub = "raw")
                  ELSE IF s.lastsub = "raw" THEN t ELSE Draw(t, "fill", FALSE)
             v == [u EXCEPT !.tiles = left - 1, !.lastsub = sub]
  <1>2. HextileRect(s) = IF left = 0 THEN Finish(s)
                         ELSE IF Waits(s, 1) THEN Wait(w)
                         ELSE IF sub \notin DOMAIN TileKinds THEN Fail(s)
                         ELSE IF Waits(s, Len(TileKinds[sub])) THEN Wait(w)
                         ELSE IF left = 1 THEN Finish(v) ELSE v
    BY Zenon DEF HextileRect, SetTiles
  <1>3. /\ s \in Client /\ AtHextile(s, i) /\ Idle(s, {"tiles"}) /\ s.n = 4 /\ Size("hextile") = 10
        /\ At(s, "hextile", i) /\ Amid(s, s.at) /\ sent[s.at].part = "hextile" /\ sent[s.at].i = i
    <2>1. At(s, "hextile", i) /\ Left(s, "hextile", i)
      BY <1>1
    <2>2. s \in Client /\ s.n = Part["hextile"][1].n
      BY <2>1, AtParts
    <2>3. Part["hextile"][1].n = 4 /\ Size("hextile") = 10
      BY HextilePart DEF Of
    <2>4. AtHextile(s, i)
      BY <2>1 DEF Left
    <2>5. Idle(s, {"tiles"})
      BY <2>4 DEF AtHextile
    <2> QED BY <2>1, <2>2, <2>3, <2>4, <2>5 DEF At
  <1>4. /\ left \in 1 .. 4 /\ left \in Nat
        /\ \/ left = 4 /\ i = 1
           \/ left = 3 /\ i = 5 /\ s.lastsub = "some"
           \/ left = 2 /\ i = 6
           \/ left = 1 /\ i = 8
    BY <1>3 DEF AtHextile
  <1>5. Good(Wait(w))
    <2> HIDE DEF left
    <2>1. w \in Client /\ Same(s, w, {"tiles"}) /\ w.tiles = left
      BY <1>3, <1>4, SetTilesFacts
    <2> HIDE DEF w
    <2>2. At(w, "hextile", i) /\ Idle(w, {"tiles"})
      <3>1. Same(s, w, Loose)
        BY <2>1 DEF Same, Loose
      <3> QED BY <1>3, <2>1, <3>1, AtLoose, IdleSame
    <2>3. w.lastsub = s.lastsub
      BY <2>1 DEF Same, Fields
    <2>4. Left(w, "hextile", i)
      BY <1>4, <2>1, <2>2, <2>3 DEF Left, AtHextile
    <2> QED BY <2>2, <2>4, AtWithin
  <1>6. Ahead(s, 1) = Part["hextile"][i + 1]
    BY <1>3, <1>4, AheadFacts
  <1>7. ASSUME ~Waits(s, Len(TileKinds[sub])), sub \in Subs,
               u \in Client, Same(s, u, Moved), NEW j, At(u, "hextile", j),
               \/ left = 4 /\ j = 5 /\ sub = "some"
               \/ left = 3 /\ j = 6
               \/ left = 2 /\ j = 8
               \/ left = 1 /\ j = 10
        PROVE  Good(IF left = 1 THEN Finish(v) ELSE v)
    <2> HIDE DEF u, left, sub
    <2> QED BY <1>3, <1>4, <1>7, TileFacts
  <1>8. sub \in Subs
    BY <1>4, <1>6, HextilePart DEF Of, Subs
  <1>9. left # 0 /\ sub \in DOMAIN TileKinds
    BY <1>4, <1>8, TileKindsFacts
  <1>10. \A k \in {"sub", "colours", "count", "subrects", "pixels"} : k \in Kinds /\ k \notin {"zdata", "ctl"}
    BY DEF Kinds
  <1>11. "blit" \in Drawing /\ "fill" \in Drawing
    BY DEF Drawing
  <1>12. ASSUME ~Waits(s, Len(TileKinds[sub])) PROVE Good(IF left = 1 THEN Finish(v) ELSE v)
    <2>1. CASE left = 4 /\ i = 1
      <3>1. /\ Part["hextile"][2] = Of("sub", "some", 0, "none") /\ Part["hextile"][3] = Of("colours", "none", 0, "none")
            /\ Part["hextile"][4] = Of("count", "none", 0, "none") /\ Part["hextile"][5] = Of("subrects", "none", 0, "blit")
        BY HextilePart
      <3>2. /\ Part["hextile"][2].k = "sub" /\ Part["hextile"][2].v = "some" /\ Silent(Part["hextile"][2])
            /\ Part["hextile"][3].k = "colours" /\ Silent(Part["hextile"][3])
            /\ Part["hextile"][4].k = "count" /\ Silent(Part["hextile"][4])
            /\ Part["hextile"][5].k = "subrects" /\ Part["hextile"][5].d = "blit"
        BY <3>1 DEF Of, Silent, Drawing
      <3>3. sub = "some" /\ t = Take(s, <<"sub", "colours", "count", "subrects">>) /\ ~Waits(s, 4)
        <4>1. sub = "some"
          BY <1>6, <2>1, <3>2
        <4>2. TileKinds[sub] = <<"sub", "colours", "count", "subrects">> /\ Len(TileKinds[sub]) = 4
          BY <4>1, TileKindsFacts
        <4> QED BY <1>12, <4>1, <4>2, Zenon
      <3>4. u = Draw(t, "blit", FALSE)
        BY <3>3
      <3>5. Took(s, t, 4)
        <4>1. /\ sent[s.at].part = "hextile" /\ sent[s.at].i + 1 = 2 /\ sent[s.at].i + 2 = 3
              /\ sent[s.at].i + 3 = 4 /\ sent[s.at].i + 4 = 5 /\ sent[s.at].i + 4 <= Size("hextile")
          BY <1>3, <2>1
        <4>2. "sub" \in Kinds /\ "colours" \in Kinds /\ "count" \in Kinds /\ "subrects" \in Kinds
          BY <1>10
        <4> HIDE DEF t, sub
        <4>3. Took(s, Take(s, <<"sub", "colours", "count", "subrects">>), 4)
          BY <1>3, <3>2, <3>3, <4>1, <4>2, TakeFour
        <4> QED BY <3>3, <4>3
      <3> HIDE DEF t
      <3>6. Taken(t, "hextile", 5) /\ Same(s, t, Moved)
        BY <1>3, <2>1, <3>5, TookTaken
      <3>7. u \in Client /\ At(u, "hextile", 5) /\ Same(t, u, Moved)
        BY <1>10, <1>11, <3>2, <3>4, <3>6, TakenDraw
      <3>8. Same(s, u, Moved)
        BY <3>6, <3>7, MovedTrans
      <3> QED BY <1>7, <1>8, <1>12, <2>1, <3>3, <3>7, <3>8
    <2>2. CASE left = 3 /\ i = 5 /\ s.lastsub = "some"
      <3>1. Part["hextile"][6] = Of("sub", "blank", 0, "fill")
        BY HextilePart
      <3>2. Part["hextile"][6].k = "sub" /\ Part["hextile"][6].v = "blank" /\ Part["hextile"][6].d = "fill"
        BY <3>1 DEF Of
      <3>3. sub = "blank" /\ t = Take(s, <<"sub">>) /\ ~Waits(s, 1)
        <4>1. sub = "blank"
          BY <1>6, <2>2, <3>2
        <4>2. TileKinds[sub] = <<"sub">> /\ Len(TileKinds[sub]) = 1
          BY <4>1, TileKindsFacts
        <4> QED BY <1>12, <4>1, <4>2, Zenon
      <3>4. u = Draw(t, "fill", FALSE)
        BY <2>2, <3>3
      <3>6. Taken(t, "hextile", 6) /\ Same(s, t, Moved)
        BY <1>3, <1>10, <2>2, <3>2, <3>3, TakenOne
      <3> HIDE DEF t
      <3>7. u \in Client /\ At(u, "hextile", 6) /\ Same(t, u, Moved)
        BY <1>10, <1>11, <3>2, <3>4, <3>6, TakenDraw
      <3>8. Same(s, u, Moved)
        BY <3>6, <3>7, MovedTrans
      <3> QED BY <1>7, <1>8, <1>12, <2>2, <3>7, <3>8
    <2>3. CASE left = 2 /\ i = 6
      <3>1. Part["hextile"][7] = Of("sub", "raw", 0, "none") /\ Part["hextile"][8] = Of("pixels", "none", 0, "blit")
        BY HextilePart
      <3>2. /\ Part["hextile"][7].k = "sub" /\ Part["hextile"][7].v = "raw" /\ Silent(Part["hextile"][7])
            /\ Part["hextile"][8].k = "pixels" /\ Part["hextile"][8].d = "blit"
        BY <3>1 DEF Of, Silent, Drawing
      <3>3. sub = "raw" /\ t = Take(s, <<"sub", "pixels">>) /\ ~Waits(s, 2)
        <4>1. sub = "raw"
          BY <1>6, <2>3, <3>2
        <4>2. TileKinds[sub] = <<"sub", "pixels">> /\ Len(TileKinds[sub]) = 2
          BY <4>1, TileKindsFacts
        <4> QED BY <1>12, <4>1, <4>2, Zenon
      <3>4. u = Draw(t, "blit", TRUE)
        BY <3>3
      <3>5. Took(s, t, 2)
        BY <1>3, <1>10, <2>3, <3>2, <3>3, TakeTwo
      <3> HIDE DEF t
      <3>6. Taken(t, "hextile", 8) /\ Same(s, t, Moved)
        BY <1>3, <2>3, <3>5, TookTaken
      <3>7. u \in Client /\ At(u, "hextile", 8) /\ Same(t, u, Moved)
        BY <1>10, <1>11, <3>2, <3>4, <3>6, TakenDraw
      <3>8. Same(s, u, Moved)
        BY <3>6, <3>7, MovedTrans
      <3> QED BY <1>7, <1>8, <1>12, <2>3, <3>7, <3>8
    <2>4. CASE left = 1 /\ i = 8
      <3>1. Part["hextile"][9] = Of("sub", "plain", 0, "none") /\ Part["hextile"][10] = Of("colours", "none", 0, "blit")
        BY HextilePart
      <3>2. /\ Part["hextile"][9].k = "sub" /\ Part["hextile"][9].v = "plain" /\ Silent(Part["hextile"][9])
            /\ Part["hextile"][10].k = "colours" /\ Part["hextile"][10].d = "blit"
        BY <3>1 DEF Of, Silent, Drawing
      <3>3. sub = "plain" /\ t = Take(s, <<"sub", "colours">>) /\ ~Waits(s, 2)
        <4>1. sub = "plain"
          BY <1>6, <2>4, <3>2
        <4>2. TileKinds[sub] = <<"sub", "colours">> /\ Len(TileKinds[sub]) = 2
          BY <4>1, TileKindsFacts
        <4> QED BY <1>12, <4>1, <4>2, Zenon
      <3>4. u = Draw(t, "blit", FALSE)
        BY <3>3
      <3>5. Took(s, t, 2)
        BY <1>3, <1>10, <2>4, <3>2, <3>3, TakeTwo
      <3> HIDE DEF t
      <3>6. Taken(t, "hextile", 10) /\ Same(s, t, Moved)
        BY <1>3, <2>4, <3>5, TookTaken
      <3>7. u \in Client /\ At(u, "hextile", 10) /\ Same(t, u, Moved)
        BY <1>10, <1>11, <3>2, <3>4, <3>6, TakenDraw
      <3>8. Same(s, u, Moved)
        BY <3>6, <3>7, MovedTrans
      <3> QED BY <1>7, <1>8, <1>12, <2>4, <3>7, <3>8
    <2> QED BY <1>4, <2>1, <2>2, <2>3, <2>4
  <1> HIDE DEF left, sub, w, v
  <1>13. CASE Waits(s, 1) \/ Waits(s, Len(TileKinds[sub]))
    BY <1>2, <1>5, <1>9, <1>13
  <1>14. CASE ~Waits(s, 1) /\ ~Waits(s, Len(TileKinds[sub]))
    BY <1>2, <1>9, <1>12, <1>14
  <1> QED BY <1>13, <1>14

\* A length is read, and then the data it is the length of.
Measured(s, d) == [Take(s, <<"len">>) EXCEPT !.len = @ \cup {d}]
Fed(s, kind, d) == [Take(s, <<kind>>) EXCEPT !.len = @ \ {d}]
LEMMA LengthFacts ==
    ASSUME Stream, NEW s, NEW part, NEW i, At(s, part, i), NEW d \in {"zlib", "zrle", "tight"}, i + 1 <= Size(part),
           Part[part][i + 1] = Of("len", "none", 0, "none"), ~Waits(s, 1), part # "key"
    PROVE  LET t == Measured(s, d)
           IN  t \in Client /\ At(t, part, i + 1) /\ t.len = s.len \cup {d} /\ Same(s, t, Moved \cup {"len"})
  <1> DEFINE u == Take(s, <<"len">>)
             len == u.len \cup {d}
             t == SetLen(u, len)
  <1>1. t = Measured(s, d)
    BY Zenon DEF SetLen, Measured
  <1>2. "len" \in Kinds /\ Part[part][i + 1].k = "len" /\ Silent(Part[part][i + 1])
    BY DEF Kinds, Of, Silent, Drawing
  <1>3. Taken(u, part, i + 1) /\ Same(s, u, Moved)
    BY <1>2, TakenOne
  <1> HIDE DEF u
  <1>4. At(u, part, i + 1)
    BY <1>2, <1>3, TakenSilent
  <1>5. u \in Client /\ len \in SUBSET {"zlib", "zrle", "tight"} /\ len = s.len \cup {d}
    BY <1>3, MovedParts, ClientParts DEF Taken
  <1> HIDE DEF len
  <1>6. t \in Client /\ Same(u, t, {"len"}) /\ t.len = len
    BY <1>5, SetLenFacts
  <1> HIDE DEF t
  <1>7. Same(u, t, Loose)
    BY <1>6 DEF Same, Loose
  <1>8. At(t, part, i + 1)
    BY <1>4, <1>6, <1>7, AtLoose
  <1>9. Same(s, t, Moved \cup {"len"})
    BY <1>3, <1>6, SameTrans
  <1> QED BY <1>1, <1>5, <1>6, <1>8, <1>9

LEMMA DataFacts ==
    ASSUME Stream, NEW s, NEW part, NEW i, At(s, part, i), NEW d \in {"zlib", "zrle", "tight"}, i + 1 <= Size(part),
           NEW kind \in Kinds, Part[part][i + 1].k = kind, ~Waits(s, 1)
    PROVE  LET t == Fed(s, kind, d)
           IN  t \in Client /\ Taken(t, part, i + 1) /\ (s.len = {d} => t.len = {}) /\ Same(s, t, Moved \cup {"len"})
  <1> DEFINE u == Take(s, <<kind>>)
             len == u.len \ {d}
             t == SetLen(u, len)
  <1>1. t = Fed(s, kind, d)
    BY Zenon DEF SetLen, Fed
  <1>3. Taken(u, part, i + 1) /\ Same(s, u, Moved)
    BY TakenOne
  <1> HIDE DEF u
  <1>5. u \in Client /\ len \in SUBSET {"zlib", "zrle", "tight"} /\ len = s.len \ {d}
    BY <1>3, MovedParts, ClientParts DEF Taken
  <1> HIDE DEF len
  <1>6. t \in Client /\ Same(u, t, {"len"}) /\ t.len = len
    BY <1>5, SetLenFacts
  <1> HIDE DEF t
  <1>7. Same(u, t, Loose)
    BY <1>6 DEF Same, Loose
  <1>8. Taken(t, part, i + 1)
    BY <1>3, <1>6, <1>7, TakenLoose
  <1>9. Same(s, t, Moved \cup {"len"})
    BY <1>3, <1>6, SameTrans
  <1> QED BY <1>1, <1>5, <1>6, <1>8, <1>9

\* All but the length, and what reading and drawing touch, is as it was.
LEMMA DataParts ==
    ASSUME NEW s, NEW t, Same(s, t, Moved \cup {"len"})
    PROVE  /\ t.n = s.n /\ t.ctl = s.ctl /\ t.filter = s.filter /\ t.colours = s.colours
           /\ \A busy : Idle(s, busy) /\ "len" \in busy => Idle(t, busy)
  <1>1. t.n = s.n /\ t.ctl = s.ctl /\ t.filter = s.filter /\ t.colours = s.colours
    BY DEF Same, Fields, Moved
  <1>2. (Moved \cup {"len"}) \cap Work = {"len"}
    BY DEF Moved, Work
  <1>3. \A busy : Idle(s, busy) /\ "len" \in busy => Idle(t, busy)
    BY <1>2, IdleSame
  <1> QED BY <1>1, <1>3

\* A rectangle of one block.
LEMMA BlockFacts ==
    ASSUME Stream, NEW s, NEW z \in {"zlib", "zrle"}, NEW i, At(s, z, i), Left(s, z, i)
    PROVE  LET t == Measured(s, z)
               u == Fed(s, "zdata", z)
           IN  Good(IF Waits(s, 1) THEN Wait(s) ELSE IF z \notin s.len THEN t ELSE Finish(Inflate(u, z)))
  <1> DEFINE t == Measured(s, z)
             u == Fed(s, "zdata", z)
             v == Inflate(u, z)
  <1>1. /\ AtBlock(s, i, z) /\ Size(z) = 3 /\ Part[z][2] = Of("len", "none", 0, "none")
        /\ Part[z][3] = Of("zdata", z, 0, "blit")
    BY ZlibPart, ZrlePart DEF Left
  <1>2. /\ Idle(s, {"len"})
        /\ (i = 1 /\ s.len = {}) \/ (i = 2 /\ s.len = {z})
    BY <1>1 DEF AtBlock
  <1>3. CASE Waits(s, 1)
    BY <1>3, AtWithin
  <1>4. CASE ~Waits(s, 1) /\ z \notin s.len
    <2>1. i = 1 /\ s.len = {}
      BY <1>2, <1>4
    <2>a. i + 1 = 2 /\ i + 1 <= Size(z) /\ Part[z][i + 1] = Of("len", "none", 0, "none") /\ z # "key" /\ z \in {"zlib", "zrle", "tight"}
      BY <1>1, <2>1
    <2>b. t \in Client /\ At(t, z, i + 1) /\ t.len = s.len \cup {z} /\ Same(s, t, Moved \cup {"len"})
      BY <1>4, <2>a, LengthFacts
    <2> HIDE DEF t
    <2>2. t \in Client /\ At(t, z, 2) /\ t.len = s.len \cup {z} /\ Same(s, t, Moved \cup {"len"})
      BY <2>a, <2>b
    <2> HIDE DEF t
    <2>3. Idle(t, {"len"}) /\ t.len = {z}
      BY <1>2, <2>1, <2>2, DataParts
    <2>4. Left(t, z, 2)
      BY <2>3 DEF Left, AtBlock
    <2>5. Good(t)
      BY <2>2, <2>4, AtWithin
    <2> QED BY <1>4, <2>5 DEF t
  <1>5. CASE ~Waits(s, 1) /\ z \in s.len
    <2>1. i = 2 /\ s.len = {z}
      BY <1>2, <1>5
    <2> DEFINE kind == "zdata"
    <2>2. kind \in Kinds /\ Part[z][3].k = kind /\ u = Fed(s, kind, z)
      BY <1>1 DEF Kinds, Of
    <2>c. v = Inflate(u, z) /\ z # "key"
      OBVIOUS
    <2> HIDE DEF u, v, t, kind
    <2>a. i + 1 = 3 /\ i + 1 <= Size(z) /\ Part[z][i + 1].k = kind /\ z \in {"zlib", "zrle", "tight"}
      BY <1>1, <2>1, <2>2
    <2>b. /\ Fed(s, kind, z) \in Client /\ Taken(Fed(s, kind, z), z, i + 1)
          /\ s.len = {z} => Fed(s, kind, z).len = {}
          /\ Same(s, Fed(s, kind, z), Moved \cup {"len"})
      BY Zenon, <1>5, <2>2, <2>a, DataFacts
    <2>3. u \in Client /\ Taken(u, z, 3) /\ (s.len = {z} => u.len = {}) /\ Same(s, u, Moved \cup {"len"})
      BY <2>2, <2>a, <2>b
    <2>4. Idle(u, {"len"}) /\ u.len = {}
      BY <1>2, <2>1, <2>3, DataParts
    <2>5. v \in Client /\ At(v, z, 3) /\ Same(u, v, Moved)
      BY <1>1, <2>3, <2>c, TakenInflate
    <2>6. Idle(v, {"len"}) /\ v.len = {}
      BY <2>4, <2>5, MovedParts
    <2>7. Rests(v)
      BY <2>6 DEF Rests, Idle, Nothing
    <2>8. Good(Finish(v))
      BY <1>1, <2>5, <2>7, AtFinish
    <2> QED BY <1>5, <2>8 DEF u, v
  <1> QED BY <1>3, <1>4, <1>5

LEMMA ZlibFacts ==
    ASSUME Stream, NEW s, Within(s), s.enc = "zlib"
    PROVE  Good(ZlibRect(s))
  <1>0. \A part \in Rects : Part[part][1].v = s.enc => part \in {"zlib"}
    BY EncodingParts
  <1>1. PICK part \in {"zlib"}, i \in Nat : At(s, part, i) /\ Left(s, part, i)
    BY <1>0, InEncoding
  <1>2. s.n = 1
    BY <1>1, AtParts, ZlibPart DEF Of
  <1> DEFINE t == Measured(s, "zlib")
             u == Fed(s, "zdata", "zlib")
             r == IF Waits(s, 1) THEN Wait(s) ELSE IF "zlib" \notin s.len THEN t ELSE Finish(Inflate(u, "zlib"))
  <1>3. ZlibRect(s) = IF s.n = 0 THEN Finish(s) ELSE r
    BY Zenon DEF ZlibRect, WithData, Measured, Fed
  <1>4. Good(r)
    BY <1>1, BlockFacts
  <1> HIDE DEF r
  <1> QED BY <1>2, <1>3, <1>4

LEMMA ZRLEFacts ==
    ASSUME Stream, NEW s, Within(s), s.enc = "zrle"
    PROVE  Good(ZRLERect(s))
  <1>0. \A part \in Rects : Part[part][1].v = s.enc => part \in {"zrle"}
    BY EncodingParts
  <1>1. PICK part \in {"zrle"}, i \in Nat : At(s, part, i) /\ Left(s, part, i)
    BY <1>0, InEncoding
  <1> DEFINE t == Measured(s, "zrle")
             u == Fed(s, "zdata", "zrle")
             r == IF Waits(s, 1) THEN Wait(s) ELSE IF "zrle" \notin s.len THEN t ELSE Finish(Inflate(u, "zrle"))
  <1>3. ZRLERect(s) = r
    BY Zenon DEF ZRLERect, WithData, Measured, Fed
  <1>4. Good(r)
    BY <1>1, BlockFacts
  <1> HIDE DEF r
  <1> QED BY <1>3, <1>4

----------------------------------------------------------------------------
(***************************************************************************)
(* Tight.                                                                  *)
(***************************************************************************)

LEMMA EndTightFacts ==
    ASSUME Stream, NEW s, NEW part, NEW i, At(s, part, i), i = Size(part), part # "last", Idle(s, {"ctl", "filter"})
    PROVE  Good(EndTight(s))
  <1> DEFINE none == "none"
             t == SetTight(s, none, none)
  <1>1. s \in Client /\ none \in Ctls \cup {"none"} /\ none \in Filters \cup {"none"}
    BY AtParts
  <1>2. EndTight(s) = Finish(t)
    BY Zenon DEF EndTight, SetTight
  <1>3. none = "none"
    OBVIOUS
  <1> HIDE DEF none
  <1>4. t \in Client /\ Same(s, t, {"ctl", "filter"}) /\ t.ctl = none /\ t.filter = none
    BY <1>1, SetTightFacts
  <1> HIDE DEF t
  <1>5. Same(s, t, Loose)
    BY <1>4 DEF Same, Loose
  <1>6. At(t, part, i)
    BY <1>4, <1>5, AtLoose
  <1>7. Idle(t, {"ctl", "filter"})
    BY <1>4, IdleSame
  <1>8. Rests(t)
    BY <1>3, <1>4, <1>7 DEF Rests, Idle, Nothing
  <1>9. Good(Finish(t))
    BY <1>6, <1>8, AtFinish
  <1> QED BY <1>2, <1>9

\* The control byte says how the rectangle goes on, and whether a stream is reset.
LEMMA TakenControl ==
    ASSUME NEW u, NEW part, NEW i, Taken(u, part, i), Part[part][i].k = "ctl", Part[part][i].d = "none", part # "key",
           NEW ctl \in Ctls \cup {"none"}, NEW inflated,
           inflated = {p \in u.inflated : Token(p).v = "tight" => Part[part][i].n # 1}
    PROVE  LET t == SetCtl(u, ctl, inflated)
           IN  t \in Client /\ At(t, part, i) /\ t.ctl = ctl /\ Same(u, t, {"ctl", "inflated"})
  <1> DEFINE t == SetCtl(u, ctl, inflated)
  <1>1. /\ u \in Client /\ u.at \in Nat /\ u.at > 0 /\ u.at - 1 \in Nat /\ u.at - 1 <= u.at
        /\ Core(u, u.at - 1) /\ Whole(u, u.at - 1) /\ Begun(u) /\ Current(u.queue, u.at)
        /\ (u.at - 1) + 1 = u.at /\ \A p \in (u.at - 1) + 1 .. u.at : p = u.at
    BY AmidParts DEF Taken
  <1>2. u.at \notin Keys /\ Token(u.at) = Part[part][i] /\ "none" \notin Drawing \cup {"told"}
    BY DEF Keys, Taken, Drawing
  <1>3. inflated = Blocks(u.at) /\ inflated \in SUBSET Nat
    <2>1. u.inflated = Blocks(u.at - 1)
      BY <1>1 DEF Whole
    <2>2. Blocks(u.at) = {p \in Blocks(u.at - 1) : Token(p).v = "tight" => Token(u.at).n # 1}
      BY <1>1, <1>2, BlocksReset
    <2>3. inflated = Blocks(u.at)
      BY <1>2, <2>1, <2>2
    <2> QED BY <1>1, <2>3, BlocksBelow
  <1>4. t \in Client /\ Same(u, t, {"ctl", "inflated"}) /\ t.ctl = ctl /\ t.inflated = inflated
    BY <1>1, <1>3, SetCtlFacts
  <1> HIDE DEF t
  <1>5. t.at = u.at /\ t.queue = u.queue
    BY <1>4 DEF Same, Fields
  <1>6. Core(t, u.at)
    <2>1. Same(u, t, {"inflated", "flushing", "flushed", "rects", "enc", "n"} \cup Loose)
      BY <1>4 DEF Same, Loose
    <2>2. Core(t, u.at - 1)
      BY <1>1, <1>4, <2>1, CoreLoose
    <2> QED BY <1>1, <1>2, <2>2, CoreReads
  <1>7. Begun(t)
    <2>1. Same(u, t, {"ok", "failed", "told", "drawn", "inflated", "video", "viewOnly", "said", "queue"} \cup Loose)
      BY <1>4 DEF Same, Loose
    <2> QED BY <1>1, <1>5, <2>1, BegunSame
  <1>8. At(t, part, i)
    BY <1>3, <1>4, <1>5, <1>6, <1>7 DEF At, Amid, Whole, Taken
  <1> QED BY <1>4, <1>8 DEF t

TightParts == {"fill", "photo", "png", "dots", "basic", "reset", "palette"}
LEMMA ControlParts ==
    \A part \in TightParts :
      LET token == Part[part][2]
      IN  /\ Size(part) >= 3 /\ Size(part) \in Nat
          /\ token.k = "ctl" /\ token.d = "none" /\ token.v \in Ctls
          /\ part = "fill" => token.v = "fill"
          /\ part = "photo" => token.v = "jpeg"
          /\ part = "png" => token.v = "png"
          /\ part \in {"dots", "basic"} => token.v = "basic"
          /\ part \in {"reset", "palette"} => token.v = "filter"
  <1>1. /\ Part["fill"][2] = Of("ctl", "fill", 0, "none") /\ Part["photo"][2] = Of("ctl", "jpeg", 0, "none")
        /\ Part["png"][2] = Of("ctl", "png", 0, "none") /\ Part["dots"][2] = Of("ctl", "basic", 0, "none")
        /\ Part["basic"][2] = Of("ctl", "basic", 0, "none") /\ Part["reset"][2] = Of("ctl", "filter", 1, "none")
        /\ Part["palette"][2] = Of("ctl", "filter", 0, "none")
    BY FillPart, PhotoPart, PngPart, DotsPart, BasicPart, ResetPart, PalettePart
  <1>2. /\ Size("fill") = 3 /\ Size("photo") = 4 /\ Size("png") = 4 /\ Size("dots") = 3 /\ Size("basic") = 4
        /\ Size("reset") = 5 /\ Size("palette") = 7
    BY FillPart, PhotoPart, PngPart, DotsPart, BasicPart, ResetPart, PalettePart
  <1> QED BY <1>1, <1>2 DEF TightParts, Of, Ctls

LEMMA ControlFacts ==
    ASSUME Stream, NEW s, NEW part \in TightParts, NEW i, At(s, part, i), Left(s, part, i), s.ctl = "none", ~Waits(s, 1)
    PROVE  Good([Take(s, <<"ctl">>) EXCEPT !.ctl = Ahead(s, 1).v,
                   !.inflated = {p \in @ : Token(p).v = "tight" => Ahead(s, 1).n # 1}])
  <1> DEFINE u == Take(s, <<"ctl">>)
             ctl == Ahead(s, 1).v
             inflated == {p \in u.inflated : Token(p).v = "tight" => Ahead(s, 1).n # 1}
             t == SetCtl(u, ctl, inflated)
  <1>1. t = [Take(s, <<"ctl">>) EXCEPT !.ctl = Ahead(s, 1).v,
               !.inflated = {p \in @ : Token(p).v = "tight" => Ahead(s, 1).n # 1}]
    BY Zenon DEF SetCtl
  <1>2. i = 1
    <2>1. CASE part = "fill"
      BY <2>1 DEF Left, AtFill
    <2>2. CASE part = "photo"
      BY <2>2 DEF Left, AtPicture
    <2>3. CASE part = "png"
      BY <2>3 DEF Left, AtPicture
    <2>4. CASE part = "dots"
      BY <2>4 DEF Left, AtBasic
    <2>5. CASE part = "basic"
      BY <2>5 DEF Left, AtBasic
    <2>6. CASE part = "reset"
      BY <2>6 DEF Left, AtReset
    <2>7. CASE part = "palette"
      BY <2>7 DEF Left, AtPalette
    <2> QED BY <2>1, <2>2, <2>3, <2>4, <2>5, <2>6, <2>7 DEF TightParts
  <1>3. /\ Size(part) >= 3 /\ Size(part) \in Nat /\ Part[part][2].k = "ctl" /\ Part[part][2].d = "none"
        /\ Part[part][2].v \in Ctls /\ i + 1 = 2 /\ i + 1 <= Size(part) /\ "ctl" \in Kinds /\ part # "key"
    BY <1>2, ControlParts DEF Kinds, TightParts
  <1>4. Ahead(s, 1) = Part[part][2]
    <2>1. Ahead(s, 1) = Part[sent[s.at].part][sent[s.at].i + 1]
      BY <1>3, AheadFacts DEF At
    <2> QED BY <1>3, <2>1 DEF At
  <1>5. Taken(u, part, 2) /\ Same(s, u, Moved)
    <2>1. Taken(u, part, i + 1) /\ Same(s, u, Moved)
      BY <1>3, TakenOne
    <2> QED BY <1>3, <2>1
  <1> HIDE DEF u
  <1>6. inflated = {p \in u.inflated : Token(p).v = "tight" => Part[part][2].n # 1} /\ ctl \in Ctls \cup {"none"}
        /\ ctl = Part[part][2].v
    BY <1>3, <1>4
  <1> HIDE DEF ctl, inflated
  <1>7. t \in Client /\ At(t, part, 2) /\ t.ctl = ctl /\ Same(u, t, {"ctl", "inflated"})
    BY <1>3, <1>5, <1>6, TakenControl
  <1> HIDE DEF t
  <1>8. /\ t.filter = s.filter /\ t.colours = s.colours /\ t.len = s.len
        /\ \A busy : Idle(s, busy) => Idle(t, busy \cup {"ctl"})
    <2>1. u.filter = s.filter /\ u.colours = s.colours /\ u.len = s.len /\ \A busy : Idle(s, busy) => Idle(u, busy)
      BY <1>5, MovedParts
    <2>2. t.filter = u.filter /\ t.colours = u.colours /\ t.len = u.len
      BY <1>7 DEF Same, Fields
    <2>3. ASSUME NEW busy, Idle(u, busy) PROVE Idle(t, busy \cup {"ctl"})
      <3>1. {"ctl", "inflated"} \cap Work \subseteq busy \cup {"ctl"}
        BY DEF Work
      <3> QED BY <1>7, <2>3, <3>1, IdleBut
    <2> QED BY <2>1, <2>2, <2>3
  <1>9. Left(t, part, 2)
    <2>1. CASE part = "fill"
      <3>1. Idle(t, {"ctl"}) /\ t.ctl = "fill"
        <4>1. Idle(s, {"ctl"}) /\ {"ctl"} \cup {"ctl"} = {"ctl"}
          BY <2>1 DEF Left, AtFill
        <4> QED BY <1>6, <1>7, <1>8, <2>1, <4>1, ControlParts
      <3> QED BY <2>1, <3>1 DEF Left, AtFill
    <2>2. CASE part \in {"photo", "png"}
      <3>1. Idle(s, {"ctl", "len"}) /\ {"ctl", "len"} \cup {"ctl"} = {"ctl", "len"} /\ s.len = {}
        BY <1>2, <2>2 DEF Left, AtPicture
      <3>2. Idle(t, {"ctl", "len"}) /\ t.len = {}
        BY <1>8, <3>1
      <3>3. (part = "photo" => t.ctl = "jpeg") /\ (part = "png" => t.ctl = "png")
        BY <1>6, <1>7, ControlParts
      <3> QED BY <2>2, <3>2, <3>3 DEF Left, AtPicture
    <2>3. CASE part \in {"dots", "basic"}
      <3>1. Idle(s, {"ctl", "filter", "len"}) /\ {"ctl", "filter", "len"} \cup {"ctl"} = {"ctl", "filter", "len"}
            /\ s.len = {} /\ s.filter = "none"
        BY <1>2, <2>3 DEF Left, AtBasic
      <3>2. Idle(t, {"ctl", "filter", "len"}) /\ t.len = {} /\ t.filter = "none"
        BY <1>8, <3>1
      <3>3. t.ctl = "basic"
        BY <1>6, <1>7, <2>3, ControlParts
      <3> QED BY <2>3, <3>2, <3>3 DEF Left, AtBasic
    <2>4. CASE part = "reset"
      <3>1. Idle(s, {"ctl", "filter", "len"}) /\ {"ctl", "filter", "len"} \cup {"ctl"} = {"ctl", "filter", "len"}
            /\ s.len = {} /\ s.filter = "none"
        BY <1>2, <2>4 DEF Left, AtReset
      <3>2. Idle(t, {"ctl", "filter", "len"}) /\ t.len = {} /\ t.filter = "none"
        BY <1>8, <3>1
      <3>3. t.ctl = "filter"
        BY <1>6, <1>7, <2>4, ControlParts
      <3> QED BY <2>4, <3>2, <3>3 DEF Left, AtReset
    <2>5. CASE part = "palette"
      <3>1. Idle(s, {"ctl", "filter", "colours", "len"}) /\ {"ctl", "filter", "colours", "len"} \cup {"ctl"} = {"ctl", "filter", "colours", "len"}
            /\ s.len = {} /\ s.filter = "none" /\ ~s.colours
        BY <1>2, <2>5 DEF Left, AtPalette
      <3>2. Idle(t, {"ctl", "filter", "colours", "len"}) /\ t.len = {} /\ t.filter = "none" /\ ~t.colours
        BY <1>8, <3>1
      <3>3. t.ctl = "filter"
        BY <1>6, <1>7, <2>5, ControlParts
      <3> QED BY <2>5, <3>2, <3>3 DEF Left, AtPalette
    <2> QED BY <2>1, <2>2, <2>3, <2>4, <2>5 DEF TightParts
  <1>10. Good(t)
    BY <1>7, <1>9, AtWithin
  <1> QED BY <1>1, <1>10

LEMMA FillFacts ==
    ASSUME Stream, NEW s, NEW i, At(s, "fill", i), Left(s, "fill", i), s.ctl # "none"
    PROVE  Good(FillRect(s))
  <1> DEFINE u == Take(s, <<"pixel">>)
             v == Draw(u, "fill", FALSE)
  <1>1. FillRect(s) = IF Waits(s, 1) THEN Wait(s) ELSE EndTight(v)
    BY Zenon DEF FillRect
  <1>2. i = 2 /\ Idle(s, {"ctl"})
    BY DEF Left, AtFill
  <1>3. i + 1 = 3 /\ i + 1 <= Size("fill") /\ Size("fill") = 3 /\ Part["fill"][i + 1] = Of("pixel", "none", 0, "fill")
    BY <1>2, FillPart
  <1>4. Part["fill"][i + 1].k = "pixel" /\ Part["fill"][i + 1].d = "fill" /\ "pixel" \in Kinds /\ "fill" \in Drawing
    BY <1>3 DEF Of, Kinds, Drawing
  <1>5. CASE Waits(s, 1)
    BY <1>1, <1>5, AtWithin
  <1>6. CASE ~Waits(s, 1)
    <2>1. Taken(u, "fill", i + 1) /\ Same(s, u, Moved)
      BY <1>3, <1>4, <1>6, TakenOne
    <2> HIDE DEF u
    <2>2. v \in Client /\ At(v, "fill", i + 1) /\ Same(u, v, Moved)
      BY <1>4, <2>1, TakenDraw
    <2> HIDE DEF v
    <2>3. Idle(v, {"ctl", "filter"})
      <3>1. Idle(v, {"ctl"})
        BY <1>2, <2>1, <2>2, MovedParts
      <3> QED BY <3>1 DEF Idle
    <2>4. Good(EndTight(v))
      BY <1>3, <2>2, <2>3, EndTightFacts
    <2> QED BY <1>1, <1>6, <2>4
  <1> QED BY <1>5, <1>6

LEMMA PictureFacts ==
    ASSUME Stream, NEW s, NEW part \in {"photo", "png"}, NEW i, At(s, part, i), Left(s, part, i), s.ctl # "none"
    PROVE  Good(PictureRect(s))
  <1> DEFINE d == "tight"
             kind == "image"
             ctl == IF part = "photo" THEN "jpeg" ELSE "png"
             t == Measured(s, d)
             u == Fed(s, kind, d)
             v == DrawLater(u, "img", "loading")
  <1>1. PictureRect(s) = IF Waits(s, 1) THEN Wait(s) ELSE IF d \notin s.len THEN t
                         ELSE EndTight(IF u.n = 0 THEN u ELSE v)
    BY Zenon DEF PictureRect, WithData, Measured, Fed
  <1>2. /\ Size(part) = 4 /\ Part[part][1].n = 2 /\ Part[part][3] = Of("len", "none", 0, "none")
        /\ Part[part][4].k = "image" /\ Part[part][4].d = "img"
    BY PhotoPart, PngPart DEF Of
  <1>3. s.n = 2
    BY <1>2, AtParts
  <1>4. AtPicture(s, i, ctl)
    BY DEF Left
  <1>5. /\ Idle(s, {"ctl", "len"}) /\ s.ctl = ctl
        /\ \/ i = 2 /\ s.len = {}
           \/ i = 3 /\ s.len = {"tight"}
    BY <1>4 DEF AtPicture
  <1>6. d = "tight" /\ d \in {"zlib", "zrle", "tight"} /\ kind \in Kinds /\ kind = "image" /\ "img" \in Drawing
        /\ part # "key" /\ part # "last" /\ "loading" \in {"loading", "broken"}
    BY DEF Kinds, Drawing
  <1> HIDE DEF d, kind, ctl
  <1>7. CASE Waits(s, 1)
    BY <1>1, <1>7, AtWithin
  <1>8. CASE ~Waits(s, 1) /\ d \notin s.len
    <2>1. i = 2 /\ s.len = {}
      BY <1>5, <1>6, <1>8
    <2>2. i + 1 = 3 /\ i + 1 <= Size(part) /\ Part[part][i + 1] = Of("len", "none", 0, "none")
      BY <1>2, <2>1
    <2>3. t \in Client /\ At(t, part, i + 1) /\ t.len = s.len \cup {d} /\ Same(s, t, Moved \cup {"len"})
      BY <1>6, <1>8, <2>2, LengthFacts
    <2> HIDE DEF t
    <2>4. Idle(t, {"ctl", "len"}) /\ t.len = {"tight"} /\ t.ctl = ctl
      BY <1>5, <1>6, <2>1, <2>3, DataParts
    <2>5. Left(t, part, i + 1)
      BY <2>2, <2>4 DEF Left, AtPicture, ctl
    <2>6. Good(t)
      BY <2>3, <2>5, AtWithin
    <2> QED BY <1>1, <1>8, <2>6
  <1>9. CASE ~Waits(s, 1) /\ d \in s.len
    <2>1. i = 3 /\ s.len = {"tight"}
      BY <1>5, <1>9
    <2>2. i + 1 = 4 /\ i + 1 = Size(part) /\ i + 1 <= Size(part) /\ Part[part][i + 1].k = kind /\ Part[part][i + 1].d = "img"
      BY <1>2, <1>6, <2>1
    <2>a. d \in {"zlib", "zrle", "tight"} /\ kind \in Kinds /\ i + 1 <= Size(part) /\ Part[part][i + 1].k = kind
      BY <1>6, <2>2
    <2>3. u \in Client /\ Taken(u, part, i + 1) /\ (s.len = {d} => u.len = {}) /\ Same(s, u, Moved \cup {"len"})
      BY <1>9, <2>a, DataFacts
    <2> HIDE DEF u
    <2>4. Idle(u, {"ctl", "len"}) /\ u.len = {} /\ u.n = 2
      BY <1>3, <1>5, <1>6, <2>1, <2>3, DataParts
    <2>5. v \in Client /\ At(v, part, i + 1) /\ Same(u, v, Moved)
      BY <1>6, <2>2, <2>3, TakenLater
    <2> HIDE DEF v
    <2>6. Idle(v, {"ctl", "len"}) /\ v.len = {}
      BY <2>4, <2>5, MovedParts
    <2>7. Idle(v, {"ctl", "filter"})
      BY <2>6 DEF Idle, Nothing
    <2>8. Good(EndTight(v))
      BY <1>6, <2>2, <2>5, <2>7, EndTightFacts
    <2> QED BY <1>1, <1>9, <2>4, <2>8
  <1> QED BY <1>7, <1>8, <1>9

\* The pixels of a rectangle were drawn.
LEMMA EndPixels ==
    ASSUME Stream, NEW s \in Client, NEW part \in {"dots", "basic", "reset", "palette"}, NEW i, At(s, part, i), i = Size(part),
           Idle(s, {"ctl", "filter", "colours", "len"}), s.len = {}
    PROVE  Good(EndTight([s EXCEPT !.colours = FALSE]))
  <1> DEFINE no == FALSE
             t == SetColours(s, no)
  <1>1. t = [s EXCEPT !.colours = FALSE] /\ no \in BOOLEAN /\ no = FALSE
    BY Zenon DEF SetColours
  <1> HIDE DEF no
  <1>2. t \in Client /\ Same(s, t, {"colours"}) /\ t.colours = no
    BY <1>1, SetColoursFacts
  <1>3. Same(s, t, Loose) /\ t.len = {}
    <2> HIDE DEF t
    <2> QED BY <1>2 DEF Same, Loose, Fields
  <1>4. At(t, part, i)
    BY <1>2, <1>3, AtLoose
  <1>5. Idle(t, {"ctl", "filter", "colours", "len"})
    BY <1>2, IdleSame
  <1>6. Idle(t, {"ctl", "filter"})
    <2> HIDE DEF t
    <2>1. t["colours"] = FALSE /\ t["len"] = {} /\ Nothing["colours"] = FALSE /\ Nothing["len"] = {}
      BY <1>1, <1>2, <1>3 DEF Nothing
    <2>2. \A field \in Work \ {"ctl", "filter", "colours", "len"} : t[field] = Nothing[field]
      BY <1>5 DEF Idle
    <2> QED BY <2>1, <2>2 DEF Idle
  <1>7. Good(EndTight(t))
    BY <1>4, <1>6, EndTightFacts
  <1> QED BY <1>1, <1>7

\* The decoder has come to the pixels.
AtPixels(s, part, i) ==
    \/ part = "dots" /\ s.filter = "copy"
    \/ part = "basic" /\ s.filter = "copy"
    \/ part = "reset" /\ s.filter = "gradient"
    \/ part = "palette" /\ s.filter = "palette" /\ s.colours

LEMMA DotsFacts ==
    ASSUME Stream, NEW s, NEW i, At(s, "dots", i), Left(s, "dots", i), AtPixels(s, "dots", i)
    PROVE  Good(Pixels(s))
  <1> DEFINE u == Take(s, <<"few">>)
             v == Draw(u, "blit", FALSE)
             w == [v EXCEPT !.colours = FALSE]
  <1>1. Size("dots") = 3 /\ Part["dots"][1].n = 1 /\ Part["dots"][3].k = "few" /\ Part["dots"][3].d = "blit"
    BY DotsPart DEF Of
  <1>2. s.n = 1
    BY <1>1, AtParts
  <1>3. Pixels(s) = IF s.n = 0 THEN EndTight(s) ELSE IF s.n = 2 THEN Pixels(s)
                    ELSE IF Waits(s, 1) THEN Wait(s) ELSE EndTight(w)
    BY Zenon DEF Pixels
  <1>4. i = 2 /\ Idle(s, {"ctl", "filter", "len"}) /\ s.len = {}
    BY DEF Left, AtBasic, AtPixels
  <1>5. i + 1 = 3 /\ i + 1 = Size("dots") /\ i + 1 <= Size("dots") /\ "few" \in Kinds /\ "blit" \in Drawing
        /\ Part["dots"][i + 1].k = "few" /\ Part["dots"][i + 1].d = "blit"
    BY <1>1, <1>4 DEF Kinds, Drawing
  <1>6. CASE Waits(s, 1)
    BY <1>2, <1>3, <1>6, AtWithin
  <1>7. CASE ~Waits(s, 1)
    <2>1. Taken(u, "dots", i + 1) /\ Same(s, u, Moved)
      BY <1>5, <1>7, TakenOne
    <2> HIDE DEF u
    <2>2. v \in Client /\ At(v, "dots", i + 1) /\ Same(u, v, Moved)
      BY <1>5, <2>1, TakenDraw
    <2> HIDE DEF v
    <2>3. Idle(v, {"ctl", "filter", "len"}) /\ v.len = {}
      BY <1>4, <2>1, <2>2, MovedParts
    <2>4. Idle(v, {"ctl", "filter", "colours", "len"})
      BY <2>3 DEF Idle
    <2>5. Good(EndTight(w))
      BY <1>5, <2>2, <2>3, <2>4, EndPixels
    <2> HIDE DEF w
    <2> QED BY <1>2, <1>3, <1>7, <2>5
  <1> QED BY <1>6, <1>7

\* Compressed pixels follow their length.
LEMMA PixelsParts ==
    ASSUME NEW part \in {"basic", "reset", "palette"}
    PROVE  /\ Size(part) \in Nat /\ Part[part][1].n = 2
           /\ Part[part][Size(part) - 1] = Of("len", "none", 0, "none")
           /\ Part[part][Size(part)] = Of("zdata", "tight", 0, "blit")
  <1>1. CASE part = "basic"
    BY <1>1, BasicPart DEF Of
  <1>2. CASE part = "reset"
    BY <1>2, ResetPart DEF Of
  <1>3. CASE part = "palette"
    BY <1>3, PalettePart DEF Of
  <1> QED BY <1>1, <1>2, <1>3

LEMMA PixelsFacts ==
    ASSUME Stream, NEW s, NEW part \in {"basic", "reset", "palette"}, NEW i, At(s, part, i), Left(s, part, i),
           AtPixels(s, part, i)
    PROVE  Good(Pixels(s))
  <1> DEFINE d == "tight"
             kind == "zdata"
             t == Measured(s, d)
             u == Fed(s, kind, d)
             v == Inflate(u, "tight")
             w == [v EXCEPT !.colours = FALSE]
  <1>1. /\ Size(part) \in Nat /\ Part[part][1].n = 2
        /\ Part[part][Size(part) - 1] = Of("len", "none", 0, "none")
        /\ Part[part][Size(part)] = Of("zdata", "tight", 0, "blit")
    BY PixelsParts
  <1>2. s.n = 2 /\ i \in Nat
    BY <1>1, AtParts
  <1>3. Pixels(s) = IF s.n = 0 THEN EndTight(s)
                    ELSE IF s.n = 2 THEN IF Waits(s, 1) THEN Wait(s) ELSE IF d \notin s.len THEN t ELSE EndTight(w)
                    ELSE Pixels(s)
    BY Zenon DEF Pixels, WithData, Measured, Fed
  <1>4. /\ Idle(s, {"ctl", "filter", "colours", "len"})
        /\ \/ i = Size(part) - 2 /\ s.len = {}
           \/ i = Size(part) - 1 /\ s.len = {"tight"}
    <2>1. CASE part = "basic"
      BY <2>1, BasicPart DEF Left, AtBasic, AtPixels, Idle
    <2>2. CASE part = "reset"
      BY <2>2, ResetPart DEF Left, AtReset, AtPixels, Idle
    <2>3. CASE part = "palette"
      BY <2>3, PalettePart DEF Left, AtPalette, AtPixels, Idle
    <2> QED BY <2>1, <2>2, <2>3
  <1>6. d = "tight" /\ d \in {"zlib", "zrle", "tight"} /\ kind \in Kinds /\ kind = "zdata" /\ part # "key"
        /\ part \in {"dots", "basic", "reset", "palette"}
    BY DEF Kinds
  <1> HIDE DEF d, kind
  <1>7. CASE Waits(s, 1)
    BY <1>2, <1>3, <1>7, AtWithin
  <1>8. CASE ~Waits(s, 1) /\ d \notin s.len
    <2>1. i = Size(part) - 2 /\ s.len = {}
      BY <1>4, <1>6, <1>8
    <2>2. i + 1 = Size(part) - 1 /\ i + 1 <= Size(part)
      BY <1>1, <1>2, <2>1
    <2>3. t \in Client /\ At(t, part, i + 1) /\ t.len = s.len \cup {d} /\ Same(s, t, Moved \cup {"len"})
      BY <1>1, <1>6, <1>8, <2>2, LengthFacts
    <2> HIDE DEF t
    <2>4. /\ t.len = {"tight"} /\ t.ctl = s.ctl /\ t.filter = s.filter /\ t.colours = s.colours
          /\ \A busy : Idle(s, busy) /\ "len" \in busy => Idle(t, busy)
      BY <1>6, <2>1, <2>3, DataParts
    <2>5. Left(t, part, i + 1)
      <3>1. CASE part = "basic"
        <4>1. Idle(t, {"ctl", "filter", "len"}) /\ i = 2 /\ s.ctl = "basic" /\ s.filter = "copy"
          BY <2>1, <2>4, <3>1, BasicPart DEF Left, AtBasic, AtPixels
        <4> QED BY <2>4, <3>1, <4>1 DEF Left, AtBasic
      <3>2. CASE part = "reset"
        <4>1. Idle(t, {"ctl", "filter", "len"}) /\ i = 3 /\ s.ctl = "filter" /\ s.filter = "gradient"
          BY <2>1, <2>4, <3>2, ResetPart DEF Left, AtReset, AtPixels
        <4> QED BY <2>4, <3>2, <4>1 DEF Left, AtReset
      <3>3. CASE part = "palette"
        <4>1. Idle(t, {"ctl", "filter", "colours", "len"}) /\ i = 5 /\ s.ctl = "filter" /\ s.filter = "palette" /\ s.colours
          BY <2>1, <2>4, <3>3, PalettePart DEF Left, AtPalette, AtPixels
        <4> QED BY <2>4, <3>3, <4>1 DEF Left, AtPalette
      <3> QED BY <3>1, <3>2, <3>3
    <2>6. Good(t)
      BY <2>3, <2>5, AtWithin
    <2> QED BY <1>2, <1>3, <1>8, <2>6
  <1>9. CASE ~Waits(s, 1) /\ d \in s.len
    <2>1. i = Size(part) - 1 /\ s.len = {"tight"}
      BY <1>4, <1>9
    <2>2. /\ i + 1 = Size(part) /\ i + 1 <= Size(part) /\ Part[part][i + 1].k = kind
          /\ Part[part][i + 1] = Of("zdata", "tight", 0, "blit")
      BY <1>1, <1>2, <1>6, <2>1 DEF Of
    <2>a. d \in {"zlib", "zrle", "tight"} /\ kind \in Kinds /\ i + 1 <= Size(part) /\ Part[part][i + 1].k = kind
      BY <1>6, <2>2
    <2>3. u \in Client /\ Taken(u, part, i + 1) /\ (s.len = {d} => u.len = {}) /\ Same(s, u, Moved \cup {"len"})
      BY <1>9, <2>a, DataFacts
    <2> HIDE DEF u
    <2>4. Idle(u, {"ctl", "filter", "colours", "len"}) /\ u.len = {}
      <3>1. u.len = {}
        BY <1>6, <2>1, <2>3
      <3>2. Idle(u, {"ctl", "filter", "colours", "len"})
        BY <1>4, <2>3, DataParts
      <3> QED BY <3>1, <3>2
    <2>5. v \in Client /\ At(v, part, i + 1) /\ Same(u, v, Moved)
      BY <1>6, <2>2, <2>3, TakenInflate
    <2> HIDE DEF v
    <2>6. Idle(v, {"ctl", "filter", "colours", "len"}) /\ v.len = {}
      BY <2>4, <2>5, MovedParts
    <2>8. Good(EndTight(w))
      BY <1>6, <2>2, <2>5, <2>6, EndPixels
    <2> HIDE DEF w
    <2> QED BY <1>2, <1>3, <1>9, <2>8
  <1> QED BY <1>7, <1>8, <1>9

\* The filter of a rectangle that names one is read.
LEMMA FilterFacts ==
    ASSUME Stream, NEW s, NEW part \in {"reset", "palette"}, At(s, part, 2), Left(s, part, 2)
    PROVE  LET u == Take(s, <<"filter">>)
           IN  Good(IF Waits(s, 1) THEN Wait(s) ELSE [u EXCEPT !.filter = Now(u).v])
  <1> DEFINE u == Take(s, <<"filter">>)
             filter == Token(u.at).v
             t == SetFilter(u, filter)
  <1>1. t = [u EXCEPT !.filter = Now(u).v]
    BY Zenon DEF SetFilter, Now
  <1>2. /\ 2 + 1 = 3 /\ 3 <= Size(part) /\ Part[part][3].k = "filter" /\ Silent(Part[part][3])
        /\ Part[part][3].v \in Filters /\ "filter" \in Kinds /\ part # "key"
        /\ part = "reset" => Part[part][3].v = "gradient"
        /\ part = "palette" => Part[part][3].v = "palette"
    BY ResetPart, PalettePart DEF Of, Kinds, Filters, Silent, Drawing
  <1>3. CASE Waits(s, 1)
    BY <1>3, AtWithin
  <1>4. CASE ~Waits(s, 1)
    <2>1. Taken(u, part, 3) /\ Same(s, u, Moved)
      BY <1>2, <1>4, TakenOne
    <2> HIDE DEF u
    <2>2. At(u, part, 3)
      BY <1>2, <2>1, TakenSilent
    <2>3. u \in Client /\ filter = Part[part][3].v /\ filter \in Filters \cup {"none"}
      BY <1>2, <2>1 DEF Taken
    <2> HIDE DEF filter
    <2>4. t \in Client /\ Same(u, t, {"filter"}) /\ t.filter = filter
      BY <2>3, SetFilterFacts
    <2> HIDE DEF t
    <2>5. At(t, part, 3) /\ t.ctl = u.ctl /\ t.len = u.len /\ t.colours = u.colours
      <3>1. Same(u, t, Loose)
        BY <2>4 DEF Same, Loose
      <3> QED BY <2>2, <2>4, <3>1, AtLoose DEF Same, Fields
    <2>6. \A busy : Idle(u, busy) /\ "filter" \in busy => Idle(t, busy)
      BY <2>4, IdleSame
    <2>7. u.ctl = s.ctl /\ u.len = s.len /\ u.colours = s.colours /\ \A busy : Idle(s, busy) => Idle(u, busy)
      BY <2>1, MovedParts
    <2>8. Left(t, part, 3)
      <3>1. CASE part = "reset"
        <4>1. Idle(s, {"ctl", "filter", "len"}) /\ s.ctl = "filter" /\ s.len = {}
          BY <3>1 DEF Left, AtReset
        <4>2. Idle(t, {"ctl", "filter", "len"})
          BY <2>6, <2>7, <4>1
        <4> QED BY <1>2, <2>3, <2>4, <2>5, <2>7, <3>1, <4>1, <4>2 DEF Left, AtReset
      <3>2. CASE part = "palette"
        <4>1. Idle(s, {"ctl", "filter", "colours", "len"}) /\ s.ctl = "filter" /\ s.len = {} /\ ~s.colours
          BY <3>2 DEF Left, AtPalette
        <4>2. Idle(t, {"ctl", "filter", "colours", "len"})
          BY <2>6, <2>7, <4>1
        <4> QED BY <1>2, <2>3, <2>4, <2>5, <2>7, <3>2, <4>1, <4>2 DEF Left, AtPalette
      <3> QED BY <3>1, <3>2
    <2>9. Good(t)
      BY <2>5, <2>8, AtWithin
    <2> QED BY <1>1, <1>4, <2>9 DEF u
  <1> QED BY <1>3, <1>4

LEMMA ColoursFacts ==
    ASSUME Stream, NEW s, At(s, "palette", 3), Left(s, "palette", 3)
    PROVE  Good(IF Waits(s, 2) THEN Wait(s) ELSE [Take(s, <<"colours", "palette">>) EXCEPT !.colours = TRUE])
  <1> DEFINE yes == TRUE
             u == Take(s, <<"colours", "palette">>)
             t == SetColours(u, yes)
  <1>1. t = [u EXCEPT !.colours = TRUE] /\ yes \in BOOLEAN /\ yes = TRUE
    BY Zenon DEF SetColours
  <1> HIDE DEF yes
  <1>2. /\ 3 + 2 = 5 /\ 3 + 1 = 4 /\ Size("palette") = 7 /\ Part["palette"][4].k = "colours" /\ Silent(Part["palette"][4])
        /\ Part["palette"][5].k = "palette" /\ Silent(Part["palette"][5]) /\ "colours" \in Kinds /\ "palette" \in Kinds
    BY PalettePart DEF Of, Kinds, Silent, Drawing
  <1>3. CASE Waits(s, 2)
    BY <1>3, AtWithin
  <1>4. CASE ~Waits(s, 2)
    <2>0. Took(s, u, 2)
      BY <1>2, <1>4, TakeTwo DEF At
    <2> HIDE DEF u
    <2>1. Taken(u, "palette", 5) /\ Same(s, u, Moved)
      BY <1>2, <2>0, TookTaken
    <2>2. At(u, "palette", 5) /\ u \in Client
      BY <1>2, <2>1, TakenSilent DEF Taken
    <2>3. u.ctl = s.ctl /\ u.len = s.len /\ u.filter = s.filter /\ \A busy : Idle(s, busy) => Idle(u, busy)
      BY <2>1, MovedParts
    <2>4. t \in Client /\ Same(u, t, {"colours"}) /\ t.colours = yes
      BY <1>1, <2>2, SetColoursFacts
    <2>5. t = [u EXCEPT !.colours = TRUE]
      BY <1>1
    <2> HIDE DEF t
    <2>6. At(t, "palette", 5) /\ t.ctl = u.ctl /\ t.len = u.len /\ t.filter = u.filter
      <3>1. Same(u, t, Loose)
        BY <2>4 DEF Same, Loose
      <3> QED BY <2>2, <2>4, <3>1, AtLoose DEF Same, Fields
    <2>7. Idle(t, {"ctl", "filter", "colours", "len"})
      <3>1. Idle(s, {"ctl", "filter", "colours", "len"})
        BY DEF Left, AtPalette
      <3> QED BY <2>3, <2>4, <3>1, IdleSame
    <2>8. s.ctl = "filter" /\ s.filter = "palette" /\ s.len = {}
      BY DEF Left, AtPalette
    <2>9. t.colours
      BY <1>1, <2>4
    <2>10. Left(t, "palette", 5)
      BY <2>3, <2>6, <2>7, <2>8, <2>9 DEF Left, AtPalette
    <2>11. Good(t)
      BY <2>6, <2>10, AtWithin
    <2> QED BY <1>4, <2>5, <2>11 DEF u
  <1> QED BY <1>3, <1>4

\* Without a filter of its own, a rectangle is copied.
LEMMA CopiesFacts ==
    ASSUME Stream, NEW s, NEW part \in {"dots", "basic"}, NEW i, At(s, part, i), Left(s, part, i),
           s.ctl # "none", s.filter = "none"
    PROVE  Good([s EXCEPT !.filter = "copy"])
  <1> DEFINE copy == "copy"
             t == SetFilter(s, copy)
  <1>1. t = [s EXCEPT !.filter = "copy"] /\ copy \in Filters \cup {"none"} /\ copy = "copy"
    BY Zenon DEF SetFilter, Filters
  <1> HIDE DEF copy
  <1>2. s \in Client
    BY AtParts
  <1>3. t \in Client /\ Same(s, t, {"filter"}) /\ t.filter = copy
    BY <1>1, <1>2, SetFilterFacts
  <1>4. Idle(s, {"ctl", "filter", "len"}) /\ i = 2 /\ s.ctl = "basic" /\ s.len = {}
    BY DEF Left, AtBasic
  <1> HIDE DEF t
  <1>5. At(t, part, i) /\ t.ctl = s.ctl /\ t.len = s.len
    <2>1. Same(s, t, Loose)
      BY <1>3 DEF Same, Loose
    <2> QED BY <1>3, <2>1, AtLoose DEF Same, Fields
  <1>6. Idle(t, {"ctl", "filter", "len"})
    BY <1>3, <1>4, IdleSame
  <1>7. Left(t, part, i)
    BY <1>1, <1>3, <1>4, <1>5, <1>6 DEF Left, AtBasic
  <1>8. Good(t)
    BY <1>5, <1>7, AtWithin
  <1> QED BY <1>1, <1>8

LEMMA BasicFacts ==
    ASSUME Stream, NEW s, NEW part \in {"dots", "basic", "reset", "palette"}, NEW i, At(s, part, i), Left(s, part, i),
           s.ctl # "none"
    PROVE  Good(BasicRect(s))
  <1> DEFINE copies == [s EXCEPT !.filter = "copy"]
             u == Take(s, <<"filter">>)
             named == IF Waits(s, 1) THEN Wait(s) ELSE [u EXCEPT !.filter = Now(u).v]
             coloured == IF Waits(s, 2) THEN Wait(s) ELSE [Take(s, <<"colours", "palette">>) EXCEPT !.colours = TRUE]
  <1>1. BasicRect(s) = IF s.filter = "palette" THEN IF s.colours THEN Pixels(s) ELSE coloured
                       ELSE IF s.filter = "copy" THEN Pixels(s)
                       ELSE IF s.filter = "gradient" THEN Pixels(s)
                       ELSE IF s.ctl = "basic" THEN copies
                       ELSE named
    BY Zenon DEF BasicRect, PaletteFilter, CopyFilter, GradientFilter
  <1>2. AtPixels(s, part, i) => Good(Pixels(s))
    BY DotsFacts, PixelsFacts
  <1>3. CASE part \in {"dots", "basic"}
    <2>1. s.ctl = "basic" /\ s.filter \in {"none", "copy"}
      BY <1>3 DEF Left, AtBasic
    <2>2. s.filter = "none" => Good(copies)
      BY <1>3, CopiesFacts
    <2>3. s.filter = "copy" => AtPixels(s, part, i)
      BY <1>3 DEF AtPixels
    <2> HIDE DEF copies, named, coloured
    <2> QED BY <1>1, <1>2, <2>1, <2>2, <2>3
  <1>4. CASE part = "reset"
    <2>1. s.ctl = "filter" /\ ((i = 2 /\ s.filter = "none") \/ s.filter = "gradient")
      BY <1>4 DEF Left, AtReset
    <2>2. i = 2 => Good(named)
      BY <1>4, FilterFacts
    <2>3. s.filter = "gradient" => AtPixels(s, part, i)
      BY <1>4 DEF AtPixels
    <2> HIDE DEF copies, named, coloured
    <2> QED BY <1>1, <1>2, <2>1, <2>2, <2>3
  <1>5. CASE part = "palette"
    <2>1. /\ s.ctl = "filter"
          /\ \/ i = 2 /\ s.filter = "none"
             \/ i = 3 /\ s.filter = "palette" /\ ~s.colours
             \/ s.filter = "palette" /\ s.colours
      BY <1>5 DEF Left, AtPalette
    <2>2. i = 2 => Good(named)
      BY <1>5, FilterFacts
    <2>3. i = 3 => Good(coloured)
      BY <1>5, ColoursFacts
    <2>4. s.filter = "palette" /\ s.colours => AtPixels(s, part, i)
      BY <1>5 DEF AtPixels
    <2> HIDE DEF copies, named, coloured
    <2> QED BY <1>1, <1>2, <2>1, <2>2, <2>3, <2>4
  <1> QED BY <1>3, <1>4, <1>5

LEMMA TightFacts ==
    ASSUME Stream, NEW s, Within(s), s.enc \in {"tight", "tightPNG"}
    PROVE  Good(TightRect(s))
  <1>0. \A part \in Rects : Part[part][1].v = s.enc => part \in TightParts
    BY EncodingParts DEF TightParts
  <1>1. PICK part \in TightParts, i \in Nat : At(s, part, i) /\ Left(s, part, i)
    BY <1>0, InEncoding
  <1>2. s.enc = IF part = "png" THEN "tightPNG" ELSE "tight"
    BY <1>1, AtParts, FillPart, PhotoPart, PngPart, DotsPart, BasicPart, ResetPart, PalettePart DEF TightParts, Of
  <1> DEFINE t == [Take(s, <<"ctl">>) EXCEPT !.ctl = Ahead(s, 1).v,
                     !.inflated = {p \in @ : Token(p).v = "tight" => Ahead(s, 1).n # 1}]
  <1>3. TightRect(s) = IF s.ctl = "none" THEN IF Waits(s, 1) THEN Wait(s) ELSE t
                       ELSE IF s.ctl = "fill" THEN FillRect(s)
                       ELSE IF s.ctl = "jpeg" \/ (s.ctl = "png" /\ s.enc = "tightPNG") THEN PictureRect(s)
                       ELSE IF s.ctl \in {"basic", "filter"} /\ s.enc = "tight" THEN BasicRect(s)
                       ELSE Fail(s)
    BY Zenon DEF TightRect
  <1>4. CASE s.ctl = "none"
    <2>1. ~Waits(s, 1) => Good(t)
      BY <1>1, <1>4, ControlFacts
    <2> HIDE DEF t
    <2>2. Good(Wait(s))
      BY <1>1, AtWithin
    <2> QED BY <1>3, <1>4, <2>1, <2>2
  <1>5. CASE s.ctl # "none"
    <2> HIDE DEF t
    <2>1. CASE part = "fill"
      <3>1. s.ctl = "fill"
        BY <1>1, <1>5, <2>1 DEF Left, AtFill
      <3> QED BY <1>1, <1>3, <1>5, <2>1, <3>1, FillFacts
    <2>2. CASE part \in {"photo", "png"}
      <3>1. s.ctl = IF part = "photo" THEN "jpeg" ELSE "png"
        BY <1>1, <1>5, <2>2 DEF Left, AtPicture
      <3>2. Good(PictureRect(s))
        BY <1>1, <1>5, <2>2, PictureFacts
      <3> QED BY <1>2, <1>3, <1>5, <2>2, <3>1, <3>2
    <2>3. CASE part \in {"dots", "basic", "reset", "palette"}
      <3>1. s.ctl \in {"basic", "filter"}
        BY <1>1, <1>5, <2>3 DEF Left, AtBasic, AtReset, AtPalette
      <3>2. Good(BasicRect(s))
        BY <1>1, <1>5, <2>3, BasicFacts
      <3> QED BY <1>2, <1>3, <1>5, <2>3, <3>1, <3>2
    <2> QED BY <2>1, <2>2, <2>3 DEF TightParts
  <1> QED BY <1>4, <1>5

----------------------------------------------------------------------------
(***************************************************************************)
(* Pictures segment by segment, and video.                                 *)
(***************************************************************************)

\* A segment was read.
Noted(u, type) == [u EXCEPT !.segments = @ \cup {type}]

LEMMA SegmentFacts ==
    ASSUME Stream, NEW s, NEW part \in {"jpeg", "bare"}, NEW i, At(s, part, i), Left(s, part, i),
           NEW u, NEW m, Took(s, u, m), Silent(Part[part][i + m]), NEW type \in Segments
    PROVE  /\ At(Noted(u, type), part, i + m) /\ Idle(Noted(u, type), {"segments"})
           /\ Noted(u, type).segments = s.segments \cup {type}
  <1> DEFINE segments == u.segments \cup {type}
             t == SetSegments(u, segments)
  <1>1. t = Noted(u, type)
    BY Zenon DEF Noted, SetSegments
  <1>2. Taken(u, part, i + m) /\ Same(s, u, Moved) /\ part # "key"
    BY TookTaken
  <1>3. At(u, part, i + m) /\ u \in Client
    BY <1>2, TakenSilent DEF Taken
  <1>4. u.segments = s.segments /\ Idle(u, {"segments"})
    <2>1. Idle(s, {"segments"})
      BY DEF Left, AtJPEG, AtBare
    <2> QED BY <1>2, <2>1, MovedParts
  <1>5. segments \in SUBSET Segments /\ segments = s.segments \cup {type}
    BY <1>3, <1>4, ClientParts
  <1> HIDE DEF segments
  <1>6. t \in Client /\ Same(u, t, {"segments"}) /\ t.segments = segments
    BY <1>3, <1>5, SetSegmentsFacts
  <1> HIDE DEF t
  <1>7. Same(u, t, Loose)
    BY <1>6 DEF Same, Loose
  <1>8. At(t, part, i + m)
    BY <1>3, <1>6, <1>7, AtLoose
  <1>9. Idle(t, {"segments"})
    BY <1>4, <1>6, IdleSame
  <1> QED BY <1>1, <1>5, <1>6, <1>8, <1>9

\* ... and the last.
LEMMA EndOfImage ==
    ASSUME Stream, NEW s, NEW part \in {"jpeg", "bare"}, NEW i, At(s, part, i), Left(s, part, i), ~Waits(s, 1),
           i + 1 = Size(part), Part[part][i + 1] = Of("marker", "EOI", 0, "img")
    PROVE  LET t == [Take(s, <<"marker">>) EXCEPT !.segments = @ \cup {"EOI"}]
               tables == "tables" \in t.segments
               u == DrawLater([t EXCEPT !.segments = {}, !.cached = @ \/ tables], "img",
                              IF tables \/ s.cached THEN "loading" ELSE "broken")
           IN  Good(Finish(u)) /\ t.segments = s.segments \cup {"EOI"}
  <1> DEFINE r == Take(s, <<"marker">>)
             segments == r.segments \cup {"EOI"}
             t == SetSegments(r, segments)
             tables == "tables" \in t.segments
             none == {}
             cached == t.cached \/ tables
             w == SetCached(t, none, cached)
             st == IF tables \/ s.cached THEN "loading" ELSE "broken"
             u == DrawLater(w, "img", st)
  <1>1. t = [Take(s, <<"marker">>) EXCEPT !.segments = @ \cup {"EOI"}]
    BY Zenon DEF SetSegments
  <1>2. w = [t EXCEPT !.segments = {}, !.cached = @ \/ tables]
    BY Zenon DEF SetCached
  <1>3. Part[part][i + 1].k = "marker" /\ Part[part][i + 1].d = "img" /\ "marker" \in Kinds /\ "img" \in Drawing
        /\ i + 1 <= Size(part) /\ part # "key" /\ part # "last"
    BY AtParts DEF Of, Kinds, Drawing
  <1>4. Taken(r, part, i + 1) /\ Same(s, r, Moved)
    BY <1>3, TakenOne
  <1> HIDE DEF r
  <1>5. r \in Client /\ r.segments = s.segments /\ Idle(r, {"segments"})
    <2>1. Idle(s, {"segments"})
      BY DEF Left, AtJPEG, AtBare
    <2> QED BY <1>4, <2>1, MovedParts DEF Taken
  <1>6. segments \in SUBSET Segments /\ segments = s.segments \cup {"EOI"}
    BY <1>5, ClientParts DEF Segments
  <1> HIDE DEF segments
  <1>7. t \in Client /\ Same(r, t, {"segments"}) /\ t.segments = segments
    BY <1>5, <1>6, SetSegmentsFacts
  <1> HIDE DEF t
  <1>8. Taken(t, part, i + 1) /\ Idle(t, {"segments"})
    <2>1. Same(r, t, Loose)
      BY <1>7 DEF Same, Loose
    <2> QED BY <1>4, <1>5, <1>7, <2>1, TakenLoose, IdleSame
  <1>9. none \in SUBSET Segments /\ cached \in BOOLEAN /\ none = {} /\ st \in {"loading", "broken"}
    BY <1>7, ClientParts
  <1>10. u = DrawLater([t EXCEPT !.segments = {}, !.cached = @ \/ tables], "img", st)
    BY <1>2
  <1> HIDE DEF none, cached
  <1>11. w \in Client /\ Same(t, w, {"segments", "cached"}) /\ w.segments = none
    BY <1>7, <1>9, SetCachedFacts
  <1> HIDE DEF w, st
  <1>12. Taken(w, part, i + 1) /\ Rests(w)
    <2>1. Same(t, w, Loose)
      BY <1>11 DEF Same, Loose
    <2>2. {"segments", "cached"} \cap Work \subseteq {"segments"}
      BY DEF Work
    <2>3. Idle(w, {"segments"})
      BY <1>8, <1>11, <2>2, IdleSame
    <2>4. Rests(w)
      BY <1>9, <1>11, <2>3 DEF Rests, Idle, Nothing
    <2> QED BY <1>8, <1>11, <2>1, <2>4, TakenLoose
  <1>13. u \in Client /\ At(u, part, i + 1) /\ Same(w, u, Moved)
    BY <1>3, <1>9, <1>12, TakenLater
  <1> HIDE DEF u
  <1>14. Rests(u)
    BY <1>12, <1>13, MovedParts DEF Rests
  <1>15. Good(Finish(u))
    BY <1>3, <1>13, <1>14, AtFinish
  <1> QED BY <1>1, <1>6, <1>7, <1>10, <1>15 DEF st

LEMMA JPEGFacts ==
    ASSUME Stream, NEW s, Within(s), s.enc = "jpeg"
    PROVE  Good(JPEGRect(s))
  <1>0. \A part \in Rects : Part[part][1].v = s.enc => part \in {"jpeg", "bare"}
    BY EncodingParts
  <1>1. PICK part \in {"jpeg", "bare"}, i \in Nat : At(s, part, i) /\ Left(s, part, i)
    BY <1>0, InEncoding
  <1> DEFINE type == Ahead(s, 1).v
             need == CASE type \in {"SOI", "EOI"} -> 1 [] type = "SOS" -> 3 [] OTHER -> 2
             one == Noted(Take(s, <<"marker">>), type)
             two == Noted(Take(s, <<"marker", "body">>), type)
             t == [Take(s, IF need = 1 THEN <<"marker">> ELSE <<"marker", "body">>) EXCEPT !.segments = @ \cup {type}]
             tables == "tables" \in t.segments
             u == DrawLater([t EXCEPT !.segments = {}, !.cached = @ \/ tables], "img",
                            IF tables \/ s.cached THEN "loading" ELSE "broken")
  <1>2. JPEGRect(s) = IF Waits(s, 1) \/ Waits(s, need) THEN Wait(s)
                      ELSE IF type # "EOI" THEN t
                      ELSE IF "SOF" \notin t.segments THEN Fail(t)
                      ELSE Finish(u)
    BY Zenon DEF JPEGRect
  <1>3. Good(Wait(s))
    BY <1>1, AtWithin
  <1> HIDE DEF u
  <1> SUFFICES ASSUME ~Waits(s, 1), ~Waits(s, need)
               PROVE  Good(IF type # "EOI" THEN t ELSE IF "SOF" \notin t.segments THEN Fail(t) ELSE Finish(u))
    BY <1>2, <1>3
  <1>4. \/ part = "jpeg" /\ i \in {1, 2, 4, 6, 8} /\ AtJPEG(s, i)
        \/ part = "bare" /\ i \in {1, 2, 4} /\ AtBare(s, i)
    BY <1>1 DEF Left, AtJPEG, AtBare
  <1>5. /\ Size("jpeg") = 9 /\ Size("bare") = 5
        /\ Part["jpeg"][2] = Of("marker", "SOI", 0, "none") /\ Part["jpeg"][3] = Of("marker", "tables", 0, "none")
        /\ Part["jpeg"][4] = Of("body", "none", 0, "none") /\ Part["jpeg"][5] = Of("marker", "SOF", 0, "none")
        /\ Part["jpeg"][6] = Of("body", "none", 0, "none") /\ Part["jpeg"][7] = Of("marker", "SOS", 0, "none")
        /\ Part["jpeg"][8] = Of("body", "none", 0, "none") /\ Part["jpeg"][9] = Of("marker", "EOI", 0, "img")
        /\ Part["bare"][2] = Of("marker", "SOI", 0, "none") /\ Part["bare"][3] = Of("marker", "SOF", 0, "none")
        /\ Part["bare"][4] = Of("body", "none", 0, "none") /\ Part["bare"][5] = Of("marker", "EOI", 0, "img")
    BY JpegPart, BarePart
  <1>6. \A v \in Segments : /\ Of("marker", v, 0, "none").k = "marker" /\ Of("marker", v, 0, "none").v = v
                            /\ Silent(Of("marker", v, 0, "none")) /\ Silent(Of("body", "none", 0, "none"))
                            /\ Of("body", "none", 0, "none").k = "body" /\ Of("marker", v, 0, "img").v = v
    BY DEF Of, Silent, Drawing
  <1>7. Ahead(s, 1) = Part[part][i + 1] /\ i + 1 <= Size(part)
    <2>1. i + 1 <= Size(part) /\ sent[s.at].part = part /\ sent[s.at].i = i /\ Amid(s, s.at)
      BY <1>1, <1>4, <1>5 DEF At
    <2> QED BY <2>1, AheadFacts
  <1>8. "marker" \in Kinds /\ "body" \in Kinds /\ Segments = {"SOI", "tables", "SOF", "SOS", "EOI"}
    BY DEF Kinds, Segments
  <1>9. CASE i = 1
    <2>1. type = "SOI" /\ Part[part][i + 1].k = "marker" /\ Silent(Part[part][i + 1])
      BY <1>4, <1>5, <1>6, <1>7, <1>8, <1>9
    <2>2. t = one
      BY <2>1 DEF Noted
    <2>3. Took(s, Take(s, <<"marker">>), 1)
      BY <1>1, <1>7, <1>8, <2>1, TakeOne DEF At
    <2>4. At(one, part, i + 1) /\ Idle(one, {"segments"}) /\ one.segments = s.segments \cup {type}
      BY <1>1, <1>8, <2>1, <2>3, SegmentFacts
    <2> HIDE DEF one, type
    <2>5. one.segments = {"SOI"} /\ i + 1 = 2
      BY <1>4, <1>9, <2>1, <2>4 DEF AtJPEG, AtBare
    <2>6. Left(one, part, i + 1)
      BY <1>4, <2>4, <2>5 DEF Left, AtJPEG, AtBare
    <2>7. Good(one)
      BY <2>4, <2>6, AtWithin
    <2> QED BY <2>1, <2>2, <2>7
  <1>10. CASE i # 1 /\ i + 1 # Size(part)
    <2>1. /\ type \in {"tables", "SOF", "SOS"} /\ Part[part][i + 1].k = "marker" /\ Silent(Part[part][i + 1])
          /\ Part[part][i + 2].k = "body" /\ Silent(Part[part][i + 2]) /\ i + 2 <= Size(part)
      <3>1. CASE part = "jpeg" /\ i = 2
        BY <1>5, <1>6, <1>7, <1>8, <3>1
      <3>2. CASE part = "jpeg" /\ i = 4
        BY <1>5, <1>6, <1>7, <1>8, <3>2
      <3>3. CASE part = "jpeg" /\ i = 6
        BY <1>5, <1>6, <1>7, <1>8, <3>3
      <3>4. CASE part = "bare" /\ i = 2
        BY <1>5, <1>6, <1>7, <1>8, <3>4
      <3> QED BY <1>4, <1>5, <1>10, <3>1, <3>2, <3>3, <3>4
    <2>2. t = two /\ ~Waits(s, 2)
      <3>1. need \in {2, 3} /\ need # 1
        BY <2>1
      <3>2. ~Waits(s, 3) => ~Waits(s, 2)
        <4>1. s.at \in Nat /\ arrived \in Nat
          BY <1>1, AtParts, AmidParts
        <4> QED BY <4>1 DEF Waits
      <3>3. t = two
        BY <3>1 DEF Noted
      <3> QED BY <3>1, <3>2, <3>3
    <2>3. Took(s, Take(s, <<"marker", "body">>), 2)
      BY <1>1, <1>8, <2>1, <2>2, TakeTwo DEF At
    <2>4. At(two, part, i + 2) /\ Idle(two, {"segments"}) /\ two.segments = s.segments \cup {type}
      BY <1>1, <1>8, <2>1, <2>3, SegmentFacts
    <2>5. /\ part = "jpeg" /\ i = 2 => type = "tables"
          /\ part = "jpeg" /\ i = 4 => type = "SOF"
          /\ part = "jpeg" /\ i = 6 => type = "SOS"
          /\ part = "bare" /\ i = 2 => type = "SOF"
      BY <1>5, <1>6, <1>7, <1>8
    <2> HIDE DEF two, type
    <2>6. Left(two, part, i + 2)
      <3>1. CASE part = "jpeg" /\ i = 2
        BY <1>4, <2>4, <2>5, <3>1 DEF Left, AtJPEG
      <3>2. CASE part = "jpeg" /\ i = 4
        BY <1>4, <2>4, <2>5, <3>2 DEF Left, AtJPEG
      <3>3. CASE part = "jpeg" /\ i = 6
        BY <1>4, <2>4, <2>5, <3>3 DEF Left, AtJPEG
      <3>4. CASE part = "bare" /\ i = 2
        BY <1>4, <2>4, <2>5, <3>4 DEF Left, AtBare
      <3> QED BY <1>4, <1>5, <1>10, <3>1, <3>2, <3>3, <3>4
    <2>7. Good(two)
      BY <2>4, <2>6, AtWithin
    <2> QED BY <2>1, <2>2, <2>7
  <1>11. CASE i + 1 = Size(part)
    <2>1. /\ Part[part][i + 1] = Of("marker", "EOI", 0, "img") /\ "SOF" \in s.segments
          /\ type = "EOI"
      <3>1. CASE part = "jpeg" /\ i = 8
        BY <1>4, <1>5, <1>6, <1>7, <1>8, <3>1 DEF AtJPEG
      <3>2. CASE part = "bare" /\ i = 4
        BY <1>4, <1>5, <1>6, <1>7, <1>8, <3>2 DEF AtBare
      <3> QED BY <1>4, <1>5, <1>11, <3>1, <3>2
    <2>2. t = [Take(s, <<"marker">>) EXCEPT !.segments = @ \cup {"EOI"}]
      BY <2>1
    <2>3. Good(Finish(u)) /\ t.segments = s.segments \cup {"EOI"}
      <3> DEFINE r == [Take(s, <<"marker">>) EXCEPT !.segments = @ \cup {"EOI"}]
                 full == "tables" \in r.segments
                 v == DrawLater([r EXCEPT !.segments = {}, !.cached = @ \/ full], "img",
                                IF full \/ s.cached THEN "loading" ELSE "broken")
      <3>1. Good(Finish(v)) /\ r.segments = s.segments \cup {"EOI"}
        BY <1>1, <1>11, <2>1, EndOfImage
      <3>2. t = r
        BY <2>2
      <3> HIDE DEF t, r
      <3>3. u = v
        BY <3>2 DEF u
      <3> HIDE DEF v
      <3> QED BY <3>1, <3>2, <3>3
    <2> HIDE DEF t
    <2> QED BY <2>1, <2>3
  <1> QED BY <1>9, <1>10, <1>11

\* A frame is drawn later, by a decoder that has been given a key frame.
LEMMA H264Facts ==
    ASSUME Stream, Depends, NEW s, Within(s), s.enc = "h264"
    PROVE  Good(H264Rect(s))
  <1>0. \A part \in Rects : Part[part][1].v = s.enc => part \in {"key", "delta"}
    BY EncodingParts
  <1>1. PICK part \in {"key", "delta"}, i \in Nat : At(s, part, i) /\ Left(s, part, i)
    BY <1>0, InEncoding
  <1> DEFINE yes == TRUE
             t == Take(s, <<"h264", "payload">>)
             video == (s.video /\ Ahead(s, 1).v # "reset") \/ Token(t.at).v = "key"
             v == DrawLater(t, "frame", "loading")
             w == SetVideo(t, yes)
             u == SetVideo(v, yes)
  <1>2. video => H264Rect(s) = IF Waits(s, 2) THEN Wait(s) ELSE Finish(u)
    BY Zenon DEF H264Rect, SetVideo, Now
  <1>3. i = 1 /\ Rests(s) /\ 1 + 1 = 2 /\ 1 + 2 = 3 /\ 3 <= Size(part) /\ Size(part) = 3
    BY <1>1, KeyPart, DeltaPart DEF Left
  <1>4. /\ Part[part][2].k = "h264" /\ Silent(Part[part][2]) /\ Part[part][3].k = "payload" /\ Part[part][3].d = "frame"
        /\ part = "key" => Part[part][3].v = "key"
        /\ part = "delta" => Part[part][2].v # "reset"
        /\ "h264" \in Kinds /\ "payload" \in Kinds /\ "frame" \in Drawing
    BY KeyPart, DeltaPart DEF Of, Silent, Kinds, Drawing
  <1>5. CASE Waits(s, 2)
    <2>1. H264Rect(s) = Wait(s)
      BY <1>5, Zenon DEF H264Rect
    <2> QED BY <1>1, <2>1, AtWithin
  <1>6. CASE ~Waits(s, 2)
    <2>1. Took(s, t, 2)
      BY <1>1, <1>3, <1>4, <1>6, TakeTwo DEF At
    <2>2. Taken(t, part, 3) /\ Same(s, t, Moved)
      <3> HIDE DEF t
      <3> QED BY <1>1, <1>3, <2>1, TookTaken
    <2>3. video
      <3>1. CASE part = "key"
        BY <1>4, <2>2, <3>1 DEF Taken
      <3>2. CASE part = "delta"
        <4>1. s.at \in 1 .. Len(sent) /\ sent[s.at].part = "delta" /\ s.at \in Nat /\ Core(s, s.at)
              /\ sent[s.at].i = 1 /\ Amid(s, s.at)
          BY <1>1, <1>3, <3>2, AtParts, AmidParts DEF At
        <4>2. PICK q \in Keys : q < s.at
          BY <4>1 DEF Depends
        <4>3. q \in Nat /\ q <= s.at
          BY <4>1, <4>2 DEF Keys
        <4>4. s.video
          BY <4>1, <4>2, <4>3 DEF Core
        <4>5. Ahead(s, 1) = Part[part][2]
          BY <1>3, <3>2, <4>1, AheadFacts
        <4> QED BY <1>4, <3>2, <4>4, <4>5
      <3> QED BY <3>1, <3>2
    <2>4. H264Rect(s) = Finish(u)
      BY <1>2, <1>6, <2>3
    <2> HIDE DEF t, video
    <2>5. /\ t \in Client /\ t.at \in Nat /\ t.at > 0 /\ Amid(t, t.at - 1) /\ Token(t.at) = Part[part][3]
          /\ sent[t.at].part = part /\ sent[t.at].i = 3
      BY <2>2, AmidParts DEF Taken
    <2>6. v \in Client /\ \E op \in OpType : /\ op.d = "frame" /\ op.p = t.at /\ op.own
                                             /\ Same(t, v, {"queue", "drawn"})
                                             /\ v.drawn = t.drawn /\ v.queue = Append(t.queue, op)
      BY <1>4, <2>5, DrawLaterIs
    <2>7. PICK op \in OpType : /\ op.d = "frame" /\ op.p = t.at /\ op.own
                               /\ Same(t, v, {"queue", "drawn"})
                               /\ v.drawn = t.drawn /\ v.queue = Append(t.queue, op)
      BY <2>6
    <2> HIDE DEF v
    <2>8. yes \in BOOLEAN /\ yes = TRUE
      OBVIOUS
    <2> HIDE DEF yes
    <2>9. /\ w \in Client /\ Same(t, w, {"video"}) /\ w.video = yes
          /\ u \in Client /\ Same(v, u, {"video"}) /\ u.video = yes
      BY <2>5, <2>6, <2>8, SetVideoFacts
    <2> HIDE DEF w, u
    <2>10. Same(w, u, {"queue", "drawn"}) /\ u.drawn = w.drawn /\ u.queue = Append(w.queue, op) /\ w.at = t.at
      <3>1. w.at = t.at /\ w.queue = t.queue /\ w.drawn = t.drawn /\ u.queue = v.queue /\ u.drawn = v.drawn
        BY <2>9 DEF Same, Fields
      <3>2. Same(w, u, {"queue", "drawn"})
        BY <2>7, <2>9 DEF Same
      <3> QED BY <2>7, <3>1, <3>2
    <2>11. Amid(w, w.at - 1)
      <3>1. /\ w.at = t.at /\ w.ok = t.ok /\ w.failed = t.failed /\ w.told = t.told /\ w.drawn = t.drawn /\ w.queue = t.queue
            /\ w.inflated = t.inflated /\ w.viewOnly = t.viewOnly /\ w.said = t.said
            /\ w.flushing = t.flushing /\ w.flushed = t.flushed /\ w.rects = t.rects /\ w.enc = t.enc /\ w.n = t.n
        BY <2>9 DEF Same, Fields
      <3>2. w.video
        BY <2>8, <2>9
      <3> QED BY <2>5, <2>9, <3>1, <3>2 DEF Amid, Whole, Core, Begun
    <2>12. Amid(u, u.at) /\ u.at = w.at
      <3>1. w.video /\ op.p = w.at /\ op.d = Token(w.at).d /\ op.d \in Drawing /\ Token(w.at).k \notin {"zdata", "ctl"}
        BY <1>4, <2>5, <2>7, <2>8, <2>9, <2>10
      <3> QED BY <2>7, <2>9, <2>10, <2>11, <3>1, Drawn
    <2>13. At(u, part, 3) /\ part # "last"
      BY <2>5, <2>10, <2>12 DEF At
    <2>14. Rests(u)
      <3>1. Rests(t)
        BY <1>3, <2>2, MovedParts DEF Rests
      <3>2. {"queue", "drawn"} \cap Work = {} /\ {"video"} \cap Work = {}
        BY DEF Work
      <3>3. Rests(v)
        BY <2>7, <3>1, <3>2, RestsSame
      <3> QED BY <2>9, <3>2, <3>3, RestsSame
    <2>15. Good(Finish(u))
      BY <1>3, <2>13, <2>14, AtFinish
    <2> QED BY <2>4, <2>15
  <1> QED BY <1>5, <1>6

----------------------------------------------------------------------------
(***************************************************************************)
(* Rectangles that are no pictures.                                        *)
(***************************************************************************)

\* The last token was taken, and the client acted on it.
LEMMA Told ==
    ASSUME Stream, NEW s, NEW part, NEW i, At(s, part, i), Rests(s), NEW t, NEW m, Took(s, t, m),
           i + m = Size(part), part # "last", part # "key", Part[part][i + m].d = "told",
           Part[part][i + m].k \notin {"zdata", "ctl"}
    PROVE  LET u == Tell(t) IN u \in Client /\ At(u, part, i + m) /\ Rests(u) /\ Good(Finish(u))
  <1> DEFINE u == Tell(t)
  <1>1. Taken(t, part, i + m) /\ Same(s, t, Moved)
    BY TookTaken
  <1>2. u \in Client /\ At(u, part, i + m) /\ Same(t, u, Moved)
    BY <1>1, TakenTell
  <1> HIDE DEF u
  <1>3. Rests(u)
    BY <1>1, <1>2, MovedParts DEF Rests
  <1>4. Good(Finish(u))
    BY <1>2, <1>3, AtFinish
  <1> QED BY <1>2, <1>3, <1>4 DEF u

LEMMA CursorFacts ==
    ASSUME Stream, NEW s, Within(s), s.enc = "Cursor"
    PROVE  Good(HandleCursor(s))
  <1>0. \A part \in Rects : Part[part][1].v = s.enc => part \in {"cursor"}
    BY EncodingParts
  <1>1. PICK part \in {"cursor"}, i \in Nat : At(s, part, i) /\ Left(s, part, i)
    BY <1>0, InEncoding
  <1> DEFINE t == Take(s, <<"cursor">>)
             u == Tell(t)
  <1>2. HandleCursor(s) = IF Waits(s, 1) THEN Wait(s) ELSE Finish(u)
    <2>1. HandleCursor(s) = IF Waits(s, Len(<<"cursor">>)) THEN Wait(s) ELSE Finish(u)
      BY Zenon DEF HandleCursor, Pseudo
    <2>2. Len(<<"cursor">>) = 1
      OBVIOUS
    <2> HIDE DEF u
    <2> QED BY <2>1, <2>2
  <1>3. /\ i = 1 /\ Rests(s) /\ i + 1 = Size(part) /\ Part[part][i + 1].k = "cursor" /\ Part[part][i + 1].d = "told"
        /\ "cursor" \in Kinds
    BY <1>1, CursorPart DEF Left, Of, Kinds
  <1>4. CASE Waits(s, 1)
    BY <1>1, <1>2, <1>4, AtWithin
  <1>5. CASE ~Waits(s, 1)
    <2>1. sent[s.at].part = part /\ sent[s.at].i = i /\ Amid(s, s.at) /\ i + 1 <= Size(part)
      BY <1>1, <1>3, AtParts DEF At
    <2>2. Took(s, t, 1)
      BY <1>3, <1>5, <2>1, TakeOne
    <2> HIDE DEF t
    <2>3. Good(Finish(u))
      BY <1>1, <1>3, <2>2, Told
    <2> QED BY <1>2, <1>5, <2>3
  <1> QED BY <1>4, <1>5

LEMMA LedFacts ==
    ASSUME Stream, NEW s, Within(s), s.enc = "QEMULedEvent"
    PROVE  Good(HandleLedEvent(s))
  <1>0. \A part \in Rects : Part[part][1].v = s.enc => part \in {"leds"}
    BY EncodingParts
  <1>1. PICK part \in {"leds"}, i \in Nat : At(s, part, i) /\ Left(s, part, i)
    BY <1>0, InEncoding
  <1> DEFINE t == Take(s, <<"leds">>)
             u == Tell(t)
  <1>2. HandleLedEvent(s) = IF Waits(s, 1) THEN Wait(s) ELSE Finish(u)
    <2>1. HandleLedEvent(s) = IF Waits(s, Len(<<"leds">>)) THEN Wait(s) ELSE Finish(u)
      BY Zenon DEF HandleLedEvent, Pseudo
    <2>2. Len(<<"leds">>) = 1
      OBVIOUS
    <2> HIDE DEF u
    <2> QED BY <2>1, <2>2
  <1>3. /\ i = 1 /\ Rests(s) /\ i + 1 = Size(part) /\ Part[part][i + 1].k = "leds" /\ Part[part][i + 1].d = "told"
        /\ "leds" \in Kinds
    BY <1>1, LedsPart DEF Left, Of, Kinds
  <1>4. CASE Waits(s, 1)
    BY <1>1, <1>2, <1>4, AtWithin
  <1>5. CASE ~Waits(s, 1)
    <2>1. sent[s.at].part = part /\ sent[s.at].i = i /\ Amid(s, s.at) /\ i + 1 <= Size(part)
      BY <1>1, <1>3, AtParts DEF At
    <2>2. Took(s, t, 1)
      BY <1>3, <1>5, <2>1, TakeOne
    <2> HIDE DEF t
    <2>3. Good(Finish(u))
      BY <1>1, <1>3, <2>2, Told
    <2> QED BY <1>2, <1>5, <2>3
  <1> QED BY <1>4, <1>5

LEMMA NameFacts ==
    ASSUME Stream, NEW s, Within(s), s.enc = "DesktopName"
    PROVE  Good(HandleDesktopName(s))
  <1>0. \A part \in Rects : Part[part][1].v = s.enc => part \in {"name"}
    BY EncodingParts
  <1>1. PICK part \in {"name"}, i \in Nat : At(s, part, i) /\ Left(s, part, i)
    BY <1>0, InEncoding
  <1> DEFINE t == Take(s, <<"len", "text">>)
             u == Tell(t)
  <1>2. HandleDesktopName(s) = IF Waits(s, 2) THEN Wait(s) ELSE Finish(u)
    <2>1. HandleDesktopName(s) = IF Waits(s, Len(<<"len", "text">>)) THEN Wait(s) ELSE Finish(u)
      BY Zenon DEF HandleDesktopName, Pseudo
    <2>2. Len(<<"len", "text">>) = 2
      OBVIOUS
    <2> HIDE DEF u
    <2> QED BY <2>1, <2>2
  <1>3. /\ i = 1 /\ Rests(s) /\ i + 2 = Size(part) /\ i + 1 = 2 /\ i + 2 = 3
        /\ Part[part][2].k = "len" /\ Silent(Part[part][2]) /\ Part[part][3].k = "text" /\ Part[part][3].d = "told"
        /\ "len" \in Kinds /\ "text" \in Kinds
    BY <1>1, NamePart DEF Left, Of, Kinds, Silent, Drawing
  <1>4. CASE Waits(s, 2)
    BY <1>1, <1>2, <1>4, AtWithin
  <1>5. CASE ~Waits(s, 2)
    <2>1. sent[s.at].part = part /\ sent[s.at].i = i /\ Amid(s, s.at) /\ i + 2 <= Size(part)
      BY <1>1, <1>3, AtParts DEF At
    <2>2. Took(s, t, 2)
      BY <1>3, <1>5, <2>1, TakeTwo
    <2> HIDE DEF t
    <2>3. Good(Finish(u))
      BY <1>1, <1>3, <2>2, Told
    <2> QED BY <1>2, <1>5, <2>3
  <1> QED BY <1>4, <1>5

LEMMA VMwareFacts ==
    ASSUME Stream, NEW s, Within(s), s.enc = "VMwareCursor"
    PROVE  Good(HandleVMwareCursor(s))
  <1>0. \A part \in Rects : Part[part][1].v = s.enc => part \in {"vmware"}
    BY EncodingParts
  <1>1. PICK part \in {"vmware"}, i \in Nat : At(s, part, i) /\ Left(s, part, i)
    BY <1>0, InEncoding
  <1> DEFINE t == Take(s, <<"type", "pad", "cursor">>)
             u == Tell(t)
  <1>2. HandleVMwareCursor(s) = IF Waits(s, 3) THEN Wait(s) ELSE Finish(u)
    <2>1. HandleVMwareCursor(s) = IF Waits(s, Len(<<"type", "pad", "cursor">>)) THEN Wait(s) ELSE Finish(u)
      BY Zenon DEF HandleVMwareCursor, Pseudo
    <2>2. Len(<<"type", "pad", "cursor">>) = 3
      OBVIOUS
    <2> HIDE DEF u
    <2> QED BY <2>1, <2>2
  <1>3. /\ i = 1 /\ Rests(s) /\ i + 3 = Size(part) /\ i + 1 = 2 /\ i + 2 = 3 /\ i + 3 = 4
        /\ Part[part][2].k = "type" /\ Silent(Part[part][2]) /\ Part[part][3].k = "pad" /\ Silent(Part[part][3])
        /\ Part[part][4].k = "cursor" /\ Part[part][4].d = "told"
        /\ "type" \in Kinds /\ "pad" \in Kinds /\ "cursor" \in Kinds
    BY <1>1, VmwarePart DEF Left, Of, Kinds, Silent, Drawing
  <1>4. CASE Waits(s, 3)
    BY <1>1, <1>2, <1>4, AtWithin
  <1>5. CASE ~Waits(s, 3)
    <2>1. sent[s.at].part = part /\ sent[s.at].i = i /\ Amid(s, s.at) /\ i + 3 <= Size(part)
      BY <1>1, <1>3, AtParts DEF At
    <2>2. Took(s, t, 3)
      BY <1>3, <1>5, <2>1, TakeThree
    <2> HIDE DEF t
    <2>3. Good(Finish(u))
      BY <1>1, <1>3, <2>2, Told
    <2> QED BY <1>2, <1>5, <2>3
  <1> QED BY <1>4, <1>5

\* What the server supports is known by a rectangle that has nothing in it.
LEMMA SupportFacts ==
    ASSUME Stream, NEW s, Within(s), s.enc \in {"QEMUExtendedKeyEvent", "ExtendedMouseButtons"}
    PROVE  Good(Finish(s))
  <1>0. \A part \in Rects : Part[part][1].v = s.enc => part \in {"keys", "buttons"}
    BY EncodingParts
  <1>1. PICK part \in {"keys", "buttons"}, i \in Nat : At(s, part, i) /\ Left(s, part, i)
    BY <1>0, InEncoding
  <1>2. i = Size(part) /\ part # "last" /\ Rests(s)
    BY <1>1, KeysPart, ButtonsPart DEF Left
  <1> QED BY <1>1, <1>2, AtFinish

\* The last rectangle of an update that did not know how many there would be.
LEMMA LastFacts ==
    ASSUME Stream, NEW s, Within(s), s.enc = "LastRect"
    PROVE  Good(Finish([s EXCEPT !.rects = 1]))
  <1>0. \A part \in Rects : Part[part][1].v = s.enc => part \in {"last"}
    BY EncodingParts
  <1>1. PICK part \in {"last"}, i \in Nat : At(s, part, i) /\ Left(s, part, i)
    BY <1>0, InEncoding
  <1> DEFINE one == 1
             t == SetRects(s, one)
  <1>2. [s EXCEPT !.rects = 1] = t
    BY Zenon DEF SetRects
  <1>3. part \in Rects /\ i = Size(part) /\ Rests(s) /\ s \in Client /\ s.at > 0 /\ s.at \in 1 .. Len(sent)
        /\ Amid(s, s.at)
    BY <1>1, AtParts, LastPart DEF Left
  <1>4. one \in Nat /\ one = 1
    OBVIOUS
  <1> HIDE DEF one
  <1>5. t \in Client /\ Same(s, t, {"rects"}) /\ t.rects = one
    BY <1>3, <1>4, SetRectsFacts
  <1> HIDE DEF t
  <1>6. t.at = s.at /\ t.queue = s.queue /\ t.flushing = s.flushing /\ t.flushed = s.flushed
    BY <1>5 DEF Same, Fields
  <1>7. Closes(s.at) /\ s.at \in Ends /\ sent[s.at].part = part
    BY <1>1, <1>3 DEF At, Closes, Ends
  <1>8. Whole(t, s.at)
    <2>1. Same(s, t, {"flushing", "flushed", "rects", "enc", "n"} \cup Loose)
      BY <1>5 DEF Same
    <2> QED BY <1>3, <1>5, <2>1, WholeLoose, AmidParts
  <1>9. Rests(t)
    <2>1. {"rects"} \cap Work = {}
      BY DEF Work
    <2> QED BY <1>3, <1>5, <2>1, RestsSame
  <1>10. Finishes(t)
    BY <1>3, <1>4, <1>5, <1>6, <1>7, <1>8, <1>9 DEF Finishes, Amid, Begun
  <1> QED BY <1>2, <1>10, FinishFacts

\* A framebuffer was resized, with the last token of the rectangle read.
LEMMA Sized ==
    ASSUME Stream, NEW s, NEW part \in {"size", "layout"}, NEW i, At(s, part, i), i = Size(part), Rests(s), NEW n \in Nat
    PROVE  Good(Finish(Resize(s, n)))
  <1> DEFINE t == Resize(s, n)
  <1>1. s.at \in 1 .. Len(sent) /\ Amid(s, s.at) /\ sent[s.at].part = part /\ sent[s.at].i = i
    BY AtParts DEF At
  <1>2. s.at \in Resized
    BY <1>1 DEF Resized, Closes
  <1>3. t \in Client /\ t.at = s.at /\ Amid(t, t.at) /\ Same(s, t, {"size", "queue", "drawn", "said"})
    BY <1>1, <1>2, ResizeFacts
  <1> HIDE DEF t
  <1>4. At(t, part, i)
    BY <1>1, <1>3 DEF At
  <1>5. Rests(t)
    <2>1. {"size", "queue", "drawn", "said"} \cap Work = {}
      BY DEF Work
    <2> QED BY <1>3, <2>1, RestsSame
  <1>6. Good(Finish(t))
    BY <1>4, <1>5, AtFinish
  <1> QED BY <1>6 DEF t

LEMMA DesktopSizeFacts ==
    ASSUME Stream, NEW s, Within(s), s.enc = "DesktopSize"
    PROVE  Good(Finish(Resize(s, s.n)))
  <1>0. \A part \in Rects : Part[part][1].v = s.enc => part \in {"size"}
    BY EncodingParts
  <1>1. PICK part \in {"size"}, i \in Nat : At(s, part, i) /\ Left(s, part, i)
    BY <1>0, InEncoding
  <1>2. i = Size(part) /\ Rests(s) /\ s.n \in Nat
    BY <1>1, AtParts, ClientParts, SizePart DEF Left
  <1> QED BY <1>1, <1>2, Sized

LEMMA ExtendedDesktopSizeFacts ==
    ASSUME Stream, NEW s, Within(s), s.enc = "ExtendedDesktopSize"
    PROVE  Good(HandleExtendedDesktopSize(s))
  <1>0. \A part \in Rects : Part[part][1].v = s.enc => part \in {"layout"}
    BY EncodingParts
  <1>1. PICK part \in {"layout"}, i \in Nat : At(s, part, i) /\ Left(s, part, i)
    BY <1>0, InEncoding
  <1> DEFINE t == Take(s, <<"screens", "layout">>)
             u == Tell(t)
  <1>2. HandleExtendedDesktopSize(s) = IF Waits(s, 2) THEN Wait(s) ELSE Finish(Resize(u, s.n))
    BY Zenon DEF HandleExtendedDesktopSize
  <1>3. /\ i = 1 /\ Rests(s) /\ i + 2 = Size(part) /\ i + 1 = 2 /\ i + 2 = 3 /\ s.n \in Nat
        /\ Part[part][2].k = "screens" /\ Silent(Part[part][2]) /\ Part[part][3].k = "layout" /\ Part[part][3].d = "told"
        /\ "screens" \in Kinds /\ "layout" \in Kinds
    BY <1>1, AtParts, ClientParts, LayoutPart DEF Left, Of, Kinds, Silent, Drawing
  <1>4. CASE Waits(s, 2)
    BY <1>1, <1>2, <1>4, AtWithin
  <1>5. CASE ~Waits(s, 2)
    <2>1. sent[s.at].part = part /\ sent[s.at].i = i /\ Amid(s, s.at) /\ i + 2 <= Size(part)
      BY <1>1, <1>3, AtParts DEF At
    <2>2. Took(s, t, 2)
      BY <1>3, <1>5, <2>1, TakeTwo
    <2> HIDE DEF t
    <2>3. u \in Client /\ At(u, part, i + 2) /\ Rests(u)
      BY <1>1, <1>3, <2>2, Told
    <2> HIDE DEF u
    <2>4. Good(Finish(Resize(u, s.n)))
      BY <1>1, <1>3, <2>3, Sized
    <2> QED BY <1>2, <1>5, <2>4
  <1> QED BY <1>4, <1>5

\* A rectangle of any encoding.
LEMMA DataRectFacts ==
    ASSUME Stream, Depends, NEW s, Within(s),
           s.enc \in {"raw", "copyrect", "rre", "hextile", "zlib", "zrle", "tight", "tightPNG", "jpeg", "h264"}
    PROVE  Good(HandleDataRect(s))
  <1>1. CASE s.enc = "raw"
    BY <1>1, RawFacts DEF HandleDataRect
  <1>2. CASE s.enc = "copyrect"
    BY <1>2, CopyFacts DEF HandleDataRect
  <1>3. CASE s.enc = "rre"
    BY <1>3, RREFacts DEF HandleDataRect
  <1>4. CASE s.enc = "hextile"
    BY <1>4, HextileFacts DEF HandleDataRect
  <1>5. CASE s.enc = "zlib"
    BY <1>5, ZlibFacts DEF HandleDataRect
  <1>6. CASE s.enc = "zrle"
    BY <1>6, ZRLEFacts DEF HandleDataRect
  <1>7. CASE s.enc \in {"tight", "tightPNG"}
    BY <1>7, TightFacts DEF HandleDataRect
  <1>8. CASE s.enc = "jpeg"
    BY <1>8, JPEGFacts DEF HandleDataRect
  <1>9. CASE s.enc = "h264"
    BY <1>9, H264Facts DEF HandleDataRect
  <1> QED BY <1>1, <1>2, <1>3, <1>4, <1>5, <1>6, <1>7, <1>8, <1>9

LEMMA HandleRectFacts ==
    ASSUME Stream, Depends, NEW s, Within(s)
    PROVE  Good(HandleRect(s))
  <1>0. s.enc \in Encodings
    <2>1. PICK part \in Rects, i \in Nat : At(s, part, i)
      BY WithinAt
    <2> QED BY <2>1, AtParts, RectFacts
  <1>1. CASE s.enc = "LastRect"
    BY <1>1, LastFacts DEF HandleRect
  <1>2. CASE s.enc = "VMwareCursor"
    BY <1>2, VMwareFacts DEF HandleRect
  <1>3. CASE s.enc = "Cursor"
    BY <1>3, CursorFacts DEF HandleRect
  <1>4. CASE s.enc \in {"QEMUExtendedKeyEvent", "ExtendedMouseButtons"}
    BY <1>4, SupportFacts DEF HandleRect
  <1>5. CASE s.enc = "DesktopName"
    BY <1>5, NameFacts DEF HandleRect
  <1>6. CASE s.enc = "DesktopSize"
    BY <1>6, DesktopSizeFacts DEF HandleRect
  <1>7. CASE s.enc = "ExtendedDesktopSize"
    BY <1>7, ExtendedDesktopSizeFacts DEF HandleRect
  <1>8. CASE s.enc = "QEMULedEvent"
    BY <1>8, LedFacts DEF HandleRect
  <1>9. CASE s.enc \in {"raw", "copyrect", "rre", "hextile", "zlib", "zrle", "tight", "tightPNG", "jpeg", "h264"}
    <2>1. HandleRect(s) = HandleDataRect(s)
      BY <1>9 DEF HandleRect
    <2> QED BY <1>9, <2>1, DataRectFacts
  <1> QED BY <1>0, <1>1, <1>2, <1>3, <1>4, <1>5, <1>6, <1>7, <1>8, <1>9 DEF Encodings

----------------------------------------------------------------------------
(***************************************************************************)
(* Messages: what the client takes outside of a rectangle.                 *)
(***************************************************************************)

\* The i + 1-st token of a part comes next. And t is where m tokens were taken,
\* the last of which is still to be dealt with.
Near(s, part, i) ==
    /\ Whole(s, s.at) /\ s.at + 1 \in 1 .. Len(sent)
    /\ sent[s.at + 1].part = part /\ sent[s.at + 1].i = i + 1
Came(s, t, part, i, m) ==
    /\ t \in Client /\ Same(s, t, {"at", "fresh", "first", "ok"})
    /\ t.at = s.at + m /\ t.at \in 1 .. Len(sent) /\ Whole(t, t.at - 1)
    /\ sent[t.at].part = part /\ sent[t.at].i = i + m /\ sent[t.at].left = sent[s.at + 1].left
    /\ Token(t.at) = Part[part][i + m]

LEMMA NearInside ==
    ASSUME Stream, NEW s, NEW part, NEW i \in Nat, Near(s, part, i), NEW j \in 1 .. 4, i + j <= Size(part)
    PROVE  /\ s.at + j \in 1 .. Len(sent) /\ sent[s.at + j].part = part /\ sent[s.at + j].i = i + j
           /\ sent[s.at + j].left = sent[s.at + 1].left /\ Token(s.at + j) = Part[part][i + j]
           /\ \A q \in s.at + 1 .. s.at + j - 1 : q \notin Keys
  <1> DEFINE p == s.at + 1
             k == j - 1
  <1>1. s.at \in Nat
    BY ClientParts DEF Near, Whole, Core
  <1>2. p \in 1 .. Len(sent) /\ sent[p].part = part /\ sent[p].i = i + 1 /\ k \in 0 .. 4
    BY DEF Near
  <1>3. p + k = s.at + j /\ sent[p].i + k = i + j
    BY <1>1, <1>2, SMTT(30)
  <1> HIDE DEF k
  <1>4. Inside(p, k)
    <2>1. sent[p].i + k <= Size(sent[p].part)
      BY <1>2, <1>3
    <2> HIDE DEF p
    <2> QED BY <1>2, <2>1, InsideFacts
  <1>5. /\ p + k \in 1 .. Len(sent) /\ sent[p + k].part = sent[p].part /\ sent[p + k].i = sent[p].i + k
        /\ sent[p + k].left = sent[p].left
    BY <1>4 DEF Inside
  <1>6. \A q \in p .. p + k - 1 : q \notin Keys
    BY <1>4 DEF Inside
  <1>7. s.at + j \in 1 .. Len(sent) /\ sent[s.at + j].part = part /\ sent[s.at + j].i = i + j
        /\ sent[s.at + j].left = sent[p].left
    BY <1>2, <1>3, <1>5
  <1>8. Token(s.at + j) = Part[part][i + j]
    BY <1>7 DEF Token
  <1>9. \A q \in s.at + 1 .. s.at + j - 1 : q \notin Keys
    BY <1>1, <1>2, <1>3, <1>6
  <1> QED BY <1>7, <1>8, <1>9

LEMMA AheadNear ==
    ASSUME Stream, NEW s, NEW part, NEW i \in Nat, Near(s, part, i), NEW j \in 1 .. 4, i + j <= Size(part)
    PROVE  Ahead(s, j) = Part[part][i + j]
  BY NearInside DEF Ahead

LEMMA UpTo ==
    ASSUME NEW i \in Nat, NEW m \in 1 .. 4, NEW size \in Nat, i + m <= size
    PROVE  \A j \in 1 .. m : j \in 1 .. 4 /\ i + j <= size
  OBVIOUS

LEMMA TakeNear ==
    ASSUME Stream, NEW s, NEW part, NEW i \in Nat, Near(s, part, i), NEW kinds \in Seq(Kinds), NEW m \in 1 .. 4,
           m = Len(kinds), i + m <= Size(part), Size(part) \in Nat, ~Waits(s, m),
           \A j \in 1 .. m : Part[part][i + j].k = kinds[j],
           \A j \in 1 .. m - 1 : Silent(Part[part][i + j])
    PROVE  Came(s, Take(s, kinds), part, i, m)
  <1> DEFINE t == Take(s, kinds)
  <1>1. /\ s \in Client /\ s.at \in Nat /\ s.at <= Len(sent) /\ arrived \in Nat /\ s.ok /\ s.at + m <= arrived
        /\ arrived <= Len(sent) /\ s.at + m \in Nat
    <2>1. s \in Client /\ s.ok /\ s.at <= arrived /\ arrived \in Nat /\ arrived <= Len(sent)
      BY DEF Near, Whole, Core
    <2>2. s.at \in Nat /\ s.at + 1 \in 1 .. Len(sent)
      BY <2>1, ClientParts DEF Near
    <2>3. s.at + m <= arrived
      BY <2>1, <2>2 DEF Waits
    <2> QED BY <2>1, <2>2, <2>3
  <1>2. \A j \in 1 .. m : j \in 1 .. 4 /\ i + j <= Size(part)
    BY Zenon, UpTo
  <1>3. \A j \in 1 .. m : /\ s.at + j \in 1 .. Len(sent) /\ sent[s.at + j].part = part /\ sent[s.at + j].i = i + j
                          /\ sent[s.at + j].left = sent[s.at + 1].left /\ Token(s.at + j) = Part[part][i + j]
                          /\ \A q \in s.at + 1 .. s.at + j - 1 : q \notin Keys
    BY <1>2, NearInside
  <1>5. t \in Client /\ t.at = s.at + m /\ Same(s, t, {"at", "fresh", "first", "ok"}) /\ t.ok
    <2>1. t \in Client /\ t.at = s.at + m /\ Same(s, t, {"at", "fresh", "first", "ok"})
      BY <1>1, TakeIs
    <2>2. \A j \in 1 .. Len(kinds) : Ahead(s, j).k = kinds[j]
      BY <1>3 DEF Ahead
    <2>3. t.ok = (s.ok /\ \A j \in 1 .. Len(kinds) : Ahead(s, j).k = kinds[j])
      BY <1>1, TakeIs, Zenon
    <2> QED BY <1>1, <2>1, <2>2, <2>3
  <1> HIDE DEF t
  <1>6. /\ t.failed = s.failed /\ t.told = s.told /\ t.drawn = s.drawn /\ t.queue = s.queue
        /\ t.inflated = s.inflated /\ t.video = s.video /\ t.viewOnly = s.viewOnly /\ t.said = s.said
    BY <1>5 DEF Same, Fields
  <1>7. Whole(t, s.at)
    BY <1>1, <1>5, <1>6 DEF Near, Whole, Core
  <1>8. Whole(t, s.at + m - 1)
    <2>1. ASSUME NEW p \in s.at + 1 .. s.at + m - 1 PROVE Silent(Token(p)) /\ p \notin Keys
      <3>1. p - s.at \in 1 .. m - 1 /\ p - s.at \in 1 .. m /\ s.at + (p - s.at) = p
        BY <1>1, SMTT(30)
      <3>2. Token(p) = Part[part][i + (p - s.at)]
        BY <1>3, <3>1
      <3>3. Silent(Token(p))
        BY <3>1, <3>2
      <3>4. m \in 1 .. m
        OBVIOUS
      <3> QED BY <1>3, <3>3, <3>4
    <2>2. s.at + m - 1 \in Nat /\ s.at <= s.at + m - 1
      BY <1>1, SMTT(30)
    <2>3. Core(t, s.at)
      BY <1>7 DEF Whole
    <2> QED BY <1>1, <1>7, <2>1, <2>2, <2>3, CoreOn
  <1>9. /\ s.at + m \in 1 .. Len(sent) /\ sent[s.at + m].part = part /\ sent[s.at + m].i = i + m
        /\ sent[s.at + m].left = sent[s.at + 1].left /\ Token(s.at + m) = Part[part][i + m]
    <2>1. m \in 1 .. m
      OBVIOUS
    <2> QED BY <1>3, <2>1
  <1>10. s.at + m - 1 = t.at - 1
    <2>1. t.at = s.at + m /\ s.at \in Nat /\ m \in Nat
      BY <1>1, <1>5
    <2>2. \A x, y \in Nat : x + y - 1 = (x + y) - 1
      OBVIOUS
    <2> QED BY Zenon, <2>1, <2>2
  <1>11. Came(s, t, part, i, m)
    BY <1>5, <1>8, <1>9, <1>10 DEF Came
  <1> QED BY <1>11 DEF t

LEMMA NearOne ==
    ASSUME Stream, NEW s, NEW part, NEW i \in Nat, Near(s, part, i), NEW k \in Kinds, i + 1 <= Size(part),
           Size(part) \in Nat, ~Waits(s, 1), Part[part][i + 1].k = k
    PROVE  Came(s, Take(s, <<k>>), part, i, 1)
  <1> DEFINE kinds == <<k>>
  <1>1. kinds \in Seq(Kinds) /\ Len(kinds) = 1 /\ kinds[1] = k
    OBVIOUS
  <1>2. (\A j \in 1 .. 1 : j = 1) /\ (\A j \in 1 .. 1 - 1 : FALSE) /\ 1 \in 1 .. 4
    OBVIOUS
  <1> HIDE DEF kinds
  <1>3. \A j \in 1 .. 1 : Part[part][i + j].k = kinds[j]
    BY <1>1, <1>2
  <1>4. \A j \in 1 .. 1 - 1 : Silent(Part[part][i + j])
    BY <1>2
  <1>5. Came(s, Take(s, kinds), part, i, 1)
    BY <1>1, <1>2, <1>3, <1>4, TakeNear
  <1> QED BY <1>5 DEF kinds

LEMMA NearTwo ==
    ASSUME Stream, NEW s, NEW part, NEW i \in Nat, Near(s, part, i), NEW k \in Kinds, NEW l \in Kinds,
           i + 2 <= Size(part), Size(part) \in Nat, ~Waits(s, 2), Part[part][i + 1].k = k,
           Silent(Part[part][i + 1]), Part[part][i + 2].k = l
    PROVE  Came(s, Take(s, <<k, l>>), part, i, 2)
  <1> DEFINE kinds == <<k, l>>
  <1>1. kinds \in Seq(Kinds) /\ Len(kinds) = 2 /\ kinds[1] = k /\ kinds[2] = l
    OBVIOUS
  <1>2. (\A j \in 1 .. 2 : j = 1 \/ j = 2) /\ (\A j \in 1 .. 2 - 1 : j = 1) /\ 2 \in 1 .. 4
    OBVIOUS
  <1> HIDE DEF kinds
  <1>3. \A j \in 1 .. 2 : Part[part][i + j].k = kinds[j]
    BY <1>1, <1>2
  <1>4. \A j \in 1 .. 2 - 1 : Silent(Part[part][i + j])
    BY <1>2
  <1>5. Came(s, Take(s, kinds), part, i, 2)
    BY <1>1, <1>2, <1>3, <1>4, TakeNear
  <1> QED BY <1>5 DEF kinds

LEMMA NearThree ==
    ASSUME Stream, NEW s, NEW part, NEW i \in Nat, Near(s, part, i), NEW k \in Kinds, NEW l \in Kinds, NEW o \in Kinds,
           i + 3 <= Size(part), Size(part) \in Nat, ~Waits(s, 3), Part[part][i + 1].k = k, Silent(Part[part][i + 1]),
           Part[part][i + 2].k = l, Silent(Part[part][i + 2]), Part[part][i + 3].k = o
    PROVE  Came(s, Take(s, <<k, l, o>>), part, i, 3)
  <1> DEFINE kinds == <<k, l, o>>
  <1>1. kinds \in Seq(Kinds) /\ Len(kinds) = 3 /\ kinds[1] = k /\ kinds[2] = l /\ kinds[3] = o
    OBVIOUS
  <1>2. (\A j \in 1 .. 3 : j = 1 \/ j = 2 \/ j = 3) /\ (\A j \in 1 .. 3 - 1 : j = 1 \/ j = 2) /\ 3 \in 1 .. 4
    OBVIOUS
  <1> HIDE DEF kinds
  <1>3. \A j \in 1 .. 3 : Part[part][i + j].k = kinds[j]
    BY <1>1, <1>2
  <1>4. \A j \in 1 .. 3 - 1 : Silent(Part[part][i + j])
    BY <1>2
  <1>5. Came(s, Take(s, kinds), part, i, 3)
    BY <1>1, <1>2, <1>3, <1>4, TakeNear
  <1> QED BY <1>5 DEF kinds

\* What leaves nothing to be done was read.
LEMMA CameSilent ==
    ASSUME NEW s, NEW t, NEW part, NEW i, NEW m, Came(s, t, part, i, m), Silent(Part[part][i + m]), part # "key"
    PROVE  Whole(t, t.at)
  <1>1. t \in Client /\ t.at \in Nat /\ t.at > 0 /\ Whole(t, t.at - 1) /\ Silent(Token(t.at)) /\ t.at \notin Keys
    BY ClientParts DEF Came, Keys
  <1>2. t.at - 1 \in Nat /\ t.at - 1 <= t.at /\ \A p \in (t.at - 1) + 1 .. t.at : p = t.at
    BY <1>1
  <1>3. Core(t, t.at - 1)
    BY <1>1 DEF Whole
  <1> QED BY <1>1, <1>2, <1>3, CoreOn

LEMMA CameNear ==
    ASSUME Stream, NEW s, NEW t, NEW part, NEW i \in Nat, NEW m \in 1 .. 4, Came(s, t, part, i, m),
           Silent(Part[part][i + m]), part # "key", i + m < Size(part)
    PROVE  Near(t, part, i + m)
  <1>1. Whole(t, t.at)
    BY CameSilent
  <1>2. t.at \in 1 .. Len(sent) /\ sent[t.at].i < Size(sent[t.at].part) /\ sent[t.at].part = part /\ sent[t.at].i = i + m
    BY DEF Came
  <1>3. t.at + 1 \in 1 .. Len(sent) /\ sent[t.at + 1].part = sent[t.at].part /\ sent[t.at + 1].i = sent[t.at].i + 1
    BY <1>2, NextToken
  <1> QED BY <1>1, <1>2, <1>3 DEF Near

\* Between messages, and between the rectangles of an update.
LEMMA BeforeNear ==
    ASSUME Stream, NEW s, Before(s), ~s.flushing, s.at < arrived
    PROVE  LET next == sent[s.at + 1]
           IN  /\ Near(s, next.part, 0) /\ next.i = 1
               /\ s.rects = 0 => next.part \in {"header"} \cup NoUpdates
               /\ s.rects > 0 => next.part \in Rects /\ s.rects = next.left + 1
  <1>1. /\ s \in Client /\ s.at \in Nat /\ arrived \in Nat /\ arrived <= Len(sent) /\ sent \in Seq(Items)
        /\ s.rects \in Nat /\ Whole(s, s.at)
    BY ClientParts DEF Before, Whole, Core, Stream
  <1>2. Len(sent) \in Nat /\ s.at + 1 \in 1 .. Len(sent) /\ (s.at > 0 => s.at \in 1 .. Len(sent) - 1) /\ s.at + 1 <= Len(sent)
    BY <1>1, LenProperties
  <1>3. CASE s.rects = 0
    <2>1. CASE s.at = 0
      <3>1. sent # <<>>
        BY <1>1, <1>2, <2>1
      <3>2. Begins(sent[1]) /\ s.at + 1 = 1
        BY <2>1, <3>1 DEF Stream
      <3> QED BY <1>1, <1>2, <1>3, <3>2 DEF Near, Begins
    <2>2. CASE s.at # 0
      <3>1. s.at \in Ends /\ s.at \in 1 .. Len(sent) - 1
        BY <1>1, <1>2, <1>3, <2>2 DEF Before
      <3>2. Begins(sent[s.at + 1])
        BY <3>1, NextPart DEF Ends
      <3> QED BY <1>1, <1>2, <1>3, <3>2 DEF Near, Begins
    <2> QED BY <2>1, <2>2
  <1>4. CASE s.rects # 0
    <2>1. s.rects > 0
      BY <1>1, <1>4
    <2>2. s.at > 0 /\ Closes(s.at) /\ s.at \notin Ends /\ sent[s.at].left = s.rects
      BY <2>1 DEF Before
    <2>3. Continues(sent[s.at + 1], s.rects - 1)
      BY <1>2, <2>2, NextPart
    <2>4. sent[s.at + 1].part \in Rects /\ sent[s.at + 1].i = 1 /\ s.rects = sent[s.at + 1].left + 1
      BY <1>1, <2>3 DEF Continues
    <2> QED BY <1>1, <1>2, <1>4, <2>4 DEF Near
  <1> QED BY <1>3, <1>4

----------------------------------------------------------------------------
(***************************************************************************)
(* The headers of an update and of its rectangles.                         *)
(***************************************************************************)

\* Where every decoder begins.
LEMMA LeftFirst ==
    ASSUME NEW s, NEW part \in Rects, Rests(s)
    PROVE  Left(s, part, 1)
  <1>1. /\ s.lines = 0 /\ s.subrects = 0 /\ s.tiles = 0 /\ s.len = {} /\ s.ctl = "none" /\ s.filter = "none"
        /\ ~s.colours /\ s.segments = {}
    BY IdleParts DEF Rests
  <1>2. \A busy : Idle(s, busy)
    BY DEF Rests, Idle
  <1>3. AtRaw(s, 1) /\ AtRRE(s, 1) /\ AtHextile(s, 1) /\ AtFill(s, 1)
    BY <1>1, <1>2 DEF AtRaw, AtRRE, AtHextile, AtFill
  <1>4. AtBlock(s, 1, part) /\ AtPicture(s, 1, "jpeg") /\ AtPicture(s, 1, "png") /\ AtBasic(s, 1)
    BY <1>1, <1>2 DEF AtBlock, AtPicture, AtBasic
  <1>5. AtReset(s, 1) /\ AtPalette(s, 1) /\ AtJPEG(s, 1) /\ AtBare(s, 1)
    BY <1>1, <1>2 DEF AtReset, AtPalette, AtJPEG, AtBare
  <1> QED BY <1>3, <1>4, <1>5 DEF Left

LEMMA RectHeaderFacts ==
    ASSUME Stream, NEW s, Before(s), ~s.flushing, s.rects > 0, ~Waits(s, 1)
    PROVE  LET t == Take(s, <<"rect">>) IN Good([t EXCEPT !.enc = Now(t).v, !.n = Now(t).n])
  <1> DEFINE t == Take(s, <<"rect">>)
             enc == Now(t).v
             n == Now(t).n
             u == SetRect(t, enc, n)
             part == sent[s.at + 1].part
  <1>1. [t EXCEPT !.enc = Now(t).v, !.n = Now(t).n] = u
    BY Zenon DEF SetRect
  <1>2. s \in Client /\ s.at \in Nat /\ arrived \in Nat /\ s.at < arrived /\ s.rects # 0
    <2>1. s \in Client /\ arrived \in Nat
      BY DEF Before, Whole, Core
    <2>2. s.at \in Nat
      BY <2>1, ClientParts
    <2>3. s.at < arrived
      BY <2>1, <2>2 DEF Waits
    <2>4. s.rects \in Nat
      BY <2>1, ClientParts
    <2> QED BY <2>1, <2>2, <2>3, <2>4
  <1>3. Near(s, part, 0) /\ part \in Rects /\ s.rects = sent[s.at + 1].left + 1
    BY <1>2, BeforeNear
  <1> HIDE DEF part
  <1>4. Part[part][1].k = "rect" /\ Part[part][1].d = "none" /\ Part[part][1].v \in Encodings /\ Part[part][1].n \in Nat
        /\ "rect" \in Kinds /\ Silent(Part[part][1]) /\ Size(part) \in Nat /\ 1 <= Size(part) /\ 0 + 1 = 1
    <2>1. Part[part][1].k = "rect" /\ Part[part][1].d = "none" /\ Part[part][1].v \in Encodings /\ Part[part][1].n \in Nat
      BY <1>3, RectFacts
    <2>2. part \in Parts
      BY <1>3 DEF Parts
    <2>3. Size(part) \in Nat /\ 1 <= Size(part)
      BY <2>2, SizeFacts
    <2>4. Silent(Part[part][1])
      BY <2>1 DEF Silent, Drawing
    <2> QED BY <2>1, <2>3, <2>4 DEF Kinds
  <1>5. Came(s, t, part, 0, 1)
    <2> HIDE DEF t
    <2>1. Came(s, Take(s, <<"rect">>), part, 0, 1)
      BY <1>3, <1>4, NearOne
    <2> QED BY <2>1 DEF t
  <1> HIDE DEF t
  <1>6. /\ t \in Client /\ t.at = s.at + 1 /\ Same(s, t, {"at", "fresh", "first", "ok"})
        /\ sent[t.at].part = part /\ sent[t.at].i = 1 /\ sent[t.at].left = sent[s.at + 1].left
        /\ Whole(t, t.at - 1)
        /\ Token(t.at) = Part[part][1]
    BY <1>4, <1>5 DEF Came
  <1>7. Whole(t, t.at)
    <2>1. t.at \notin Keys /\ t.at \in Nat /\ t.at > 0 /\ Silent(Token(t.at))
      BY <1>2, <1>4, <1>6, KeyPart DEF Keys, Closes
    <2>2. t.at - 1 \in Nat /\ t.at - 1 <= t.at /\ \A p \in (t.at - 1) + 1 .. t.at : p = t.at
      BY <2>1
    <2>3. Core(t, t.at - 1)
      BY <1>6 DEF Whole
    <2> QED BY <1>6, <2>1, <2>2, <2>3, CoreOn
  <1>8. enc \in Encodings \cup {"none"} /\ n \in Nat /\ enc = Part[part][1].v /\ n = Part[part][1].n
    BY <1>4, <1>6 DEF Now
  <1> HIDE DEF enc, n
  <1>9. u \in Client /\ Same(t, u, {"enc", "n"}) /\ u.enc = enc /\ u.n = n
    BY <1>6, <1>8, SetRectFacts
  <1> HIDE DEF u
  <1>10. /\ u.at = t.at /\ u.queue = s.queue /\ u.flushing = s.flushing /\ u.flushed = s.flushed /\ u.rects = s.rects
    BY <1>6, <1>9 DEF Same, Fields
  <1>11. Whole(u, u.at)
    <2>1. Same(t, u, {"flushing", "flushed", "rects", "enc", "n"} \cup Loose)
      BY <1>9 DEF Same
    <2> QED BY <1>7, <1>9, <1>10, <2>1, WholeLoose
  <1>12. Current(u.queue, u.at)
    <2>1. Current(s.queue, s.at) /\ s.at \notin Ends
      BY <1>2 DEF Before
    <2>2. \A e \in Ends : e \in Nat
      BY DEF Ends
    <2>3. \A e \in Ends : e < u.at => e < s.at
      BY <1>2, <1>6, <1>10, <2>1, <2>2
    <2> QED BY <1>10, <2>1, <2>3 DEF Current
  <1>13. Begun(u)
    <2>1. ~s.flushed
      BY DEF Before
    <2>2. u.at > 0
      BY <1>2, <1>6, <1>10
    <2> QED BY <1>3, <1>6, <1>8, <1>9, <1>10, <1>12, <2>1, <2>2 DEF Begun
  <1>14. Rests(u)
    <2>1. {"at", "fresh", "first", "ok"} \cap Work = {} /\ {"enc", "n"} \cap Work = {}
      BY DEF Work
    <2>2. Rests(t)
      BY <1>6, <2>1, RestsSame DEF Before
    <2> QED BY <1>9, <2>1, <2>2, RestsSame
  <1>15. Within(u)
    BY <1>3, <1>6, <1>10, <1>11, <1>13, <1>14, LeftFirst DEF Within, Amid
  <1>16. Good([t EXCEPT !.enc = Now(t).v, !.n = Now(t).n])
    BY <1>1, <1>15 DEF Good
  <1> QED BY <1>16, Zenon DEF t

\* An update begins, when the one before was drawn.
LEMMA UpdateHeaderFacts ==
    ASSUME Stream, NEW s, Before(s), ~s.flushing, s.rects = 0, s.at < arrived, sent[s.at + 1].part = "header"
    PROVE  Good(UpdateHeader(s))
  <1> DEFINE t == Take(s, <<"msg", "rects">>)
             rects == sent[t.at].left
             u == SetRects(t, rects)
             yes == TRUE
             v == SetFlushing(u, yes)
  <1>1. UpdateHeader(s) = IF Waits(s, 2) THEN Wait(s) ELSE IF s.queue # <<>> THEN Wait(v) ELSE u
    BY Zenon DEF UpdateHeader, SetRects, SetFlushing
  <1>2. CASE Waits(s, 2)
    BY <1>1, <1>2, WaitFacts
  <1>3. CASE ~Waits(s, 2)
    <2>1. Near(s, "header", 0)
      BY BeforeNear
    <2>2. /\ Part["header"][1].k = "msg" /\ Silent(Part["header"][1]) /\ Part["header"][2].k = "rects"
          /\ Silent(Part["header"][2]) /\ Size("header") = 2 /\ "msg" \in Kinds /\ "rects" \in Kinds
          /\ 0 + 1 = 1 /\ 0 + 2 = 2 /\ 0 + 2 <= Size("header") /\ Size("header") \in Nat
      BY HeaderPart DEF Of, Silent, Drawing, Kinds
    <2>3. Came(s, t, "header", 0, 2)
      <3>1. Came(s, Take(s, <<"msg", "rects">>), "header", 0, 2)
        BY <1>3, <2>1, <2>2, NearTwo
      <3> QED BY <3>1
    <2> HIDE DEF t
    <2>4. Whole(t, t.at)
      BY <2>2, <2>3, CameSilent
    <2>5. /\ t \in Client /\ t.at \in Nat /\ t.at > 0 /\ t.at \in 1 .. Len(sent) /\ Same(s, t, {"at", "fresh", "first", "ok"})
          /\ sent[t.at].part = "header" /\ sent[t.at].i = 2
      BY <2>2, <2>3, ClientParts DEF Came
    <2>6. rects \in Nat /\ rects >= 1 /\ Closes(t.at) /\ t.at \notin Ends
      <3>1. rects \in Nat
        BY <2>5, StreamParts
      <3>2. rects >= 1
        BY <2>5 DEF Stream
      <3>3. Closes(t.at)
        BY <2>2, <2>5 DEF Closes
      <3>4. t.at \notin Ends
        BY <2>5, <3>1, <3>2 DEF Ends
      <3> QED BY <3>1, <3>2, <3>3, <3>4
    <2>7. rects = sent[t.at].left
      OBVIOUS
    <2> HIDE DEF rects
    <2>8. u \in Client /\ Same(t, u, {"rects"}) /\ u.rects = rects
      BY <2>5, <2>6, SetRectsFacts
    <2> HIDE DEF u
    <2>9. yes \in BOOLEAN /\ yes = TRUE
      OBVIOUS
    <2> HIDE DEF yes
    <2>10. v \in Client /\ Same(u, v, {"flushing"}) /\ v.flushing = yes
      BY <2>8, <2>9, SetFlushingFacts
    <2> HIDE DEF v
    <2>11. /\ u.at = t.at /\ u.enc = s.enc /\ u.queue = s.queue /\ u.flushing = s.flushing /\ u.flushed = s.flushed
           /\ v.at = t.at /\ v.enc = s.enc /\ v.rects = rects /\ v.flushed = s.flushed
      BY <2>5, <2>8, <2>10 DEF Same, Fields
    <2>12. Whole(u, t.at) /\ Whole(v, t.at)
      <3>1. Same(t, u, {"flushing", "flushed", "rects", "enc", "n"} \cup Loose)
        BY <2>8 DEF Same
      <3>2. Same(u, v, {"flushing", "flushed", "rects", "enc", "n"} \cup Loose)
        BY <2>10 DEF Same
      <3>3. Whole(u, t.at)
        BY <2>4, <2>8, <3>1, WholeLoose
      <3> QED BY <2>10, <3>2, <3>3, WholeLoose
    <2>13. Rests(u) /\ Rests(v)
      <3>1. {"at", "fresh", "first", "ok"} \cap Work = {} /\ {"rects"} \cap Work = {} /\ {"flushing"} \cap Work = {}
        BY DEF Work
      <3>2. Rests(t)
        BY <2>5, <3>1, RestsSame DEF Before
      <3>3. Rests(u)
        BY <2>8, <3>1, <3>2, RestsSame
      <3> QED BY <2>10, <3>1, <3>3, RestsSame
    <2>14. s.enc = "none" /\ ~s.flushed
      BY DEF Before
    <2>15. CASE s.queue # <<>>
      <3>1. Before(v)
        BY <2>5, <2>6, <2>7, <2>9, <2>10, <2>11, <2>12, <2>13, <2>14 DEF Before
      <3> QED BY <1>1, <1>3, <2>15, <3>1, WaitFacts
    <2>16. CASE s.queue = <<>>
      <3>1. Current(u.queue, u.at)
        BY <2>11, <2>16 DEF Current
      <3>2. Before(u)
        BY <2>5, <2>6, <2>7, <2>8, <2>11, <2>12, <2>13, <2>14, <3>1 DEF Before
      <3> QED BY <1>1, <1>3, <2>16, <3>2 DEF Good
    <2> QED BY <2>15, <2>16
  <1> QED BY <1>2, <1>3

\* An update's rectangles, one step.
LEMMA UpdateFacts ==
    ASSUME Stream, Depends, NEW s, Good(s), s.rects > 0, ~s.flushing
    PROVE  Good(FramebufferUpdate(s))
  <1>1. CASE Within(s)
    <2>1. PICK part \in Rects, i \in Nat : At(s, part, i)
      BY <1>1, WithinAt
    <2>2. s.enc \in Encodings
      BY <2>1, AtParts, RectFacts
    <2>3. s.enc # "none"
      BY <2>2 DEF Encodings
    <2>4. FramebufferUpdate(s) = HandleRect(s)
      BY <2>3 DEF FramebufferUpdate
    <2> QED BY <1>1, <2>4, HandleRectFacts
  <1>2. CASE Before(s)
    <2> DEFINE t == Take(s, <<"rect">>)
               u == [t EXCEPT !.enc = Now(t).v, !.n = Now(t).n]
    <2>1. FramebufferUpdate(s) = IF Waits(s, 1) THEN Wait(s) ELSE u
      <3>1. s.enc = "none"
        BY <1>2 DEF Before
      <3> QED BY <3>1, Zenon DEF FramebufferUpdate
    <2>2. CASE Waits(s, 1)
      BY <1>2, <2>1, <2>2, WaitFacts
    <2>3. CASE ~Waits(s, 1)
      <3>1. Good(u)
        BY <1>2, <2>3, RectHeaderFacts
      <3> QED BY <2>1, <2>3, <3>1
    <2> QED BY <2>2, <2>3
  <1> QED BY <1>1, <1>2 DEF Good

----------------------------------------------------------------------------
(***************************************************************************)
(* The other messages.                                                     *)
(***************************************************************************)

Pauses(s) == s.enc = "none" /\ Rests(s) /\ s.rects = 0 /\ ~s.flushing /\ ~s.flushed

LEMMA PausesSame ==
    ASSUME NEW s, NEW t, Pauses(s),
           Same(s, t, {"run", "at", "fresh", "first", "ok", "told", "said", "cont", "canCont", "caps", "text"})
    PROVE  Pauses(t)
  <1>1. {"run", "at", "fresh", "first", "ok", "told", "said", "cont", "canCont", "caps", "text"} \cap Work = {}
    BY DEF Work
  <1>2. Rests(t)
    BY <1>1, RestsSame DEF Pauses
  <1>3. t.enc = s.enc /\ t.rects = s.rects /\ t.flushing = s.flushing /\ t.flushed = s.flushed
    BY DEF Same, Fields
  <1> QED BY <1>2, <1>3 DEF Pauses

\* The last token of a message was taken, and has to be acted on.
Answers(s) ==
    /\ s \in Client /\ Pauses(s) /\ s.at > 0 /\ Whole(s, s.at - 1) /\ s.at \in Ends /\ s.at \notin Keys
    /\ Token(s.at).d = "told" /\ Token(s.at).k \notin {"zdata", "ctl"}

LEMMA CameAnswers ==
    ASSUME Stream, NEW s, Pauses(s), NEW t, NEW part \in NoUpdates, NEW i, NEW m, Came(s, t, part, i, m),
           i + m = Size(part), Part[part][i + m].d = "told", Part[part][i + m].k \notin {"zdata", "ctl"}
    PROVE  Answers(t)
  <1>1. t \in Client /\ t.at \in Nat /\ t.at > 0 /\ t.at \in 1 .. Len(sent) /\ sent[t.at].part = part
        /\ Same(s, t, {"at", "fresh", "first", "ok"}) /\ Token(t.at) = Part[part][i + m] /\ Whole(t, t.at - 1)
        /\ sent[t.at].i = Size(part)
    BY ClientParts DEF Came
  <1>2. Pauses(t)
    <2>1. Same(s, t, {"run", "at", "fresh", "first", "ok", "told", "said", "cont", "canCont", "caps", "text"})
      BY <1>1, SameMore
    <2> QED BY <2>1, PausesSame
  <1>3. t.at \in Ends
    <2>1. sent[t.at].left = 0
      BY <1>1 DEF Stream
    <2> QED BY <1>1, <2>1 DEF Ends, Closes
  <1>4. t.at \notin Keys
    BY <1>1 DEF Keys, NoUpdates
  <1> QED BY <1>1, <1>2, <1>3, <1>4 DEF Answers

\* What is noted in between changes nothing of that.
LEMMA AnswersLoose ==
    ASSUME NEW s, NEW t \in Client, Answers(s), Same(s, t, {"cont", "canCont", "caps", "text"})
    PROVE  Answers(t)
  <1>1. Same(s, t, {"flushing", "flushed", "rects", "enc", "n"} \cup Loose)
    BY DEF Same, Loose
  <1>2. t.at = s.at
    BY DEF Same, Fields
  <1>3. Whole(t, s.at - 1)
    BY <1>1, WholeLoose DEF Answers
  <1>4. Pauses(t)
    <2>1. Same(s, t, {"run", "at", "fresh", "first", "ok", "told", "said", "cont", "canCont", "caps", "text"})
      BY SameMore
    <2> QED BY <2>1, PausesSame DEF Answers
  <1> QED BY <1>2, <1>3, <1>4 DEF Answers

LEMMA AnswersTell ==
    ASSUME NEW s, Answers(s)
    PROVE  LET t == Tell(s) IN t \in Client /\ Over(t) /\ Same(s, t, {"told"})
  <1> DEFINE t == Tell(s)
  <1>1. t \in Client /\ t.at = s.at /\ Whole(t, t.at) /\ Same(s, t, {"told"})
    BY TellFacts DEF Answers
  <1> HIDE DEF t
  <1>2. Pauses(t)
    <2>1. Same(s, t, {"run", "at", "fresh", "first", "ok", "told", "said", "cont", "canCont", "caps", "text"})
      BY <1>1, SameMore
    <2> QED BY <2>1, PausesSame DEF Answers
  <1>3. Over(t)
    BY <1>1, <1>2 DEF Over, Pauses, Answers
  <1> QED BY <1>1, <1>3 DEF t

LEMMA OverLoose ==
    ASSUME NEW s, NEW t \in Client, Over(s), Same(s, t, {"cont", "canCont", "caps", "text"})
    PROVE  Over(t)
  <1>1. Same(s, t, {"flushing", "flushed", "rects", "enc", "n"} \cup Loose)
    BY DEF Same, Loose
  <1>2. t.at = s.at
    BY DEF Same, Fields
  <1>3. Whole(t, s.at)
    BY <1>1, WholeLoose DEF Over
  <1>4. Pauses(t)
    <2>1. Same(s, t, {"run", "at", "fresh", "first", "ok", "told", "said", "cont", "canCont", "caps", "text"})
      BY SameMore
    <2> QED BY <2>1, PausesSame DEF Over, Pauses
  <1> QED BY <1>2, <1>3, <1>4 DEF Over, Pauses

\* What the client says is its own affair, but one that may not type does not ask
\* for the clipboard.
LEMMA OverSaid ==
    ASSUME NEW s, NEW said \in Seq(Words), Over(s), s.viewOnly => ~Contains(said, "request")
    PROVE  Over([s EXCEPT !.said = said])
  <1> DEFINE t == SetSaid(s, said)
  <1>1. t \in Client /\ Same(s, t, {"said"}) /\ t.said = said
    BY SetSaidFacts DEF Over, Whole, Core
  <1>2. t = [s EXCEPT !.said = said]
    BY Zenon DEF SetSaid
  <1> HIDE DEF t
  <1>3. Pauses(t)
    <2>1. Same(s, t, {"run", "at", "fresh", "first", "ok", "told", "said", "cont", "canCont", "caps", "text"})
      BY <1>1, SameMore
    <2> QED BY <2>1, PausesSame DEF Over, Pauses
  <1>4. /\ t.at = s.at /\ t.ok = s.ok /\ t.failed = s.failed /\ t.told = s.told /\ t.drawn = s.drawn
        /\ t.queue = s.queue /\ t.video = s.video /\ t.viewOnly = s.viewOnly /\ t.inflated = s.inflated
    BY <1>1 DEF Same, Fields
  <1>5. Whole(t, s.at)
    BY <1>1, <1>4 DEF Over, Whole, Core
  <1> QED BY <1>2, <1>3, <1>4, <1>5 DEF Over, Pauses

LEMMA OverSay ==
    ASSUME NEW s, NEW what \in Words, Over(s), s.viewOnly => what # "request"
    PROVE  Over(Say(s, what))
  <1> DEFINE t == Say(s, what)
  <1>1. t \in Client /\ Same(s, t, {"said"}) /\ Whole(t, s.at)
    BY SayFacts DEF Over
  <1> HIDE DEF t
  <1>2. t.at = s.at
    BY <1>1 DEF Same, Fields
  <1>3. Pauses(t)
    <2>1. Same(s, t, {"run", "at", "fresh", "first", "ok", "told", "said", "cont", "canCont", "caps", "text"})
      BY <1>1, SameMore
    <2> QED BY <2>1, PausesSame DEF Over, Pauses
  <1>4. Over(t)
    BY <1>1, <1>2, <1>3 DEF Over, Pauses
  <1> QED BY <1>4 DEF t

\* Ones that are only acted on.
LEMMA BellFacts ==
    ASSUME Stream, NEW s, Pauses(s), Near(s, "bell", 0), ~Waits(s, 1)
    PROVE  Good(Return(Tell(Take(s, <<"msg">>))))
  <1> DEFINE t == Take(s, <<"msg">>)
             u == Tell(t)
  <1>1. /\ Part["bell"][1].k = "msg" /\ Part["bell"][1].d = "told" /\ Size("bell") = 1 /\ Size("bell") \in Nat
        /\ 0 + 1 = 1 /\ 0 + 1 <= Size("bell") /\ "msg" \in Kinds /\ "bell" \in NoUpdates
    BY BellPart DEF Of, Kinds, NoUpdates
  <1>2. Came(s, t, "bell", 0, 1)
    <2>1. Came(s, Take(s, <<"msg">>), "bell", 0, 1)
      BY <1>1, NearOne
    <2> QED BY <2>1
  <1> HIDE DEF t
  <1>3. Answers(t)
    BY <1>1, <1>2, CameAnswers
  <1>4. Over(u)
    BY <1>3, AnswersTell
  <1>5. Good(Return(u))
    BY <1>4, ReturnFacts
  <1> QED BY <1>5 DEF t

LEMMA XvpFacts ==
    ASSUME Stream, NEW s, Before(s), Pauses(s), Near(s, "xvp", 0)
    PROVE  Good(HandleXvpMsg(s))
  <1> DEFINE t == Take(s, <<"msg", "xvp">>)
             u == Tell(t)
  <1>0. HandleXvpMsg(s) = IF Waits(s, 2) THEN Wait(s) ELSE Return(u)
    BY Zenon DEF HandleXvpMsg
  <1>1. /\ Part["xvp"][1].k = "msg" /\ Silent(Part["xvp"][1]) /\ Part["xvp"][2].k = "xvp" /\ Part["xvp"][2].d = "told"
        /\ Size("xvp") = 2 /\ Size("xvp") \in Nat /\ 0 + 1 = 1 /\ 0 + 2 = 2 /\ 0 + 2 <= Size("xvp")
        /\ "msg" \in Kinds /\ "xvp" \in Kinds /\ "xvp" \in NoUpdates
    BY XvpPart DEF Of, Kinds, NoUpdates, Silent, Drawing
  <1>2. CASE Waits(s, 2)
    BY <1>0, <1>2, WaitFacts
  <1>3. CASE ~Waits(s, 2)
    <2>1. Came(s, t, "xvp", 0, 2)
      <3>1. Came(s, Take(s, <<"msg", "xvp">>), "xvp", 0, 2)
        BY <1>1, <1>3, NearTwo
      <3> QED BY <3>1
    <2> HIDE DEF t
    <2>2. Answers(t)
      BY <1>1, <2>1, CameAnswers
    <2>3. Over(u)
      BY <2>2, AnswersTell
    <2> QED BY <1>0, <1>3, <2>3, ReturnFacts
  <1> QED BY <1>2, <1>3

LEMMA FenceFacts ==
    ASSUME Stream, NEW s, Before(s), Pauses(s), Near(s, "fence", 0)
    PROVE  Good(HandleServerFence(s))
  <1> DEFINE t == Take(s, <<"msg", "fence", "payload">>)
             u == Tell(t)
             what == "fence"
             v == Say(u, what)
  <1>0. HandleServerFence(s) = IF Waits(s, 3) THEN Wait(s) ELSE Return(v)
    BY Zenon DEF HandleServerFence
  <1>1. /\ Part["fence"][1].k = "msg" /\ Silent(Part["fence"][1]) /\ Part["fence"][2].k = "fence"
        /\ Silent(Part["fence"][2]) /\ Part["fence"][3].k = "payload" /\ Part["fence"][3].d = "told"
        /\ Size("fence") = 3 /\ Size("fence") \in Nat /\ 0 + 1 = 1 /\ 0 + 2 = 2 /\ 0 + 3 = 3 /\ 0 + 3 <= Size("fence")
        /\ "msg" \in Kinds /\ "fence" \in Kinds /\ "payload" \in Kinds /\ "fence" \in NoUpdates
    BY FencePart DEF Of, Kinds, NoUpdates, Silent, Drawing
  <1>2. CASE Waits(s, 3)
    BY <1>0, <1>2, WaitFacts
  <1>3. CASE ~Waits(s, 3)
    <2>1. Came(s, t, "fence", 0, 3)
      <3>1. Came(s, Take(s, <<"msg", "fence", "payload">>), "fence", 0, 3)
        BY <1>1, <1>3, NearThree
      <3> QED BY <3>1
    <2> HIDE DEF t
    <2>2. Answers(t)
      BY <1>1, <2>1, CameAnswers
    <2>3. Over(u)
      BY <2>2, AnswersTell
    <2> HIDE DEF u
    <2>4. what \in Words /\ what # "request"
      BY DEF Words
    <2> HIDE DEF what
    <2>5. Over(v)
      BY <2>3, <2>4, OverSay
    <2> QED BY <1>0, <1>3, <2>5, ReturnFacts
  <1> QED BY <1>2, <1>3

LEMMA ContinuousFacts ==
    ASSUME Stream, NEW s, Pauses(s), Near(s, "continuous", 0), ~Waits(s, 1)
    PROVE  Good(EndOfContinuousUpdates(s))
  <1> DEFINE t == Take(s, <<"msg">>)
             u == Tell(t)
             first == ~s.canCont
             yes == TRUE
             v == SetCont(u, yes, first)
             what == "enableContinuousUpdates"
  <1>0. EndOfContinuousUpdates(s) = Return(IF first THEN Say(v, what) ELSE v)
    BY Zenon DEF EndOfContinuousUpdates, SetCont
  <1>1. /\ Part["continuous"][1].k = "msg" /\ Part["continuous"][1].d = "told" /\ Size("continuous") = 1
        /\ Size("continuous") \in Nat /\ 0 + 1 = 1 /\ 0 + 1 <= Size("continuous") /\ "msg" \in Kinds
        /\ "continuous" \in NoUpdates
    BY ContinuousPart DEF Of, Kinds, NoUpdates
  <1>2. Came(s, t, "continuous", 0, 1)
    <2>1. Came(s, Take(s, <<"msg">>), "continuous", 0, 1)
      BY <1>1, NearOne
    <2> QED BY <2>1
  <1> HIDE DEF t
  <1>3. Answers(t)
    BY <1>1, <1>2, CameAnswers
  <1>4. u \in Client /\ Over(u)
    BY <1>3, AnswersTell
  <1> HIDE DEF u
  <1>5. yes \in BOOLEAN /\ first \in BOOLEAN /\ what \in Words /\ what # "request"
    BY DEF Words
  <1> HIDE DEF yes, first, what
  <1>6. v \in Client /\ Same(u, v, {"canCont", "cont"})
    BY <1>4, <1>5, SetContFacts
  <1> HIDE DEF v
  <1>7. Over(v)
    <2>1. Same(u, v, {"cont", "canCont", "caps", "text"})
      BY <1>6, SameMore
    <2> QED BY <1>4, <1>6, <2>1, OverLoose
  <1>8. Over(Say(v, what))
    BY <1>5, <1>7, OverSay
  <1>9. Over(IF first THEN Say(v, what) ELSE v)
    BY <1>7, <1>8
  <1> QED BY <1>0, <1>9, ReturnFacts

\* What an extended clipboard message asks for is done, unless the user may only view.
LEMMA AnswerFacts ==
    ASSUME NEW s, Answers(s), NEW answer \in Seq(Words)
    PROVE  /\ s.viewOnly => Over(Tell(s))
           /\ ~s.viewOnly => Over([Tell(s) EXCEPT !.said = @ \o answer])
  <1> DEFINE t == Tell(s)
             said == t.said \o answer
  <1>1. t \in Client /\ Over(t) /\ Same(s, t, {"told"})
    BY AnswersTell
  <1> HIDE DEF t
  <1>2. said \in Seq(Words) /\ t.viewOnly = s.viewOnly
    <2>1. t.said \in Seq(Words)
      BY <1>1, ClientParts
    <2>2. said \in Seq(Words)
      BY <2>1, ConcatProperties
    <2> QED BY <1>1, <2>2 DEF Same, Fields
  <1>3. [t EXCEPT !.said = @ \o answer] = [t EXCEPT !.said = said]
    BY Zenon
  <1> HIDE DEF said
  <1>4. ~s.viewOnly => Over([t EXCEPT !.said = said])
    BY <1>1, <1>2, OverSaid
  <1>5. ~s.viewOnly => Over([t EXCEPT !.said = @ \o answer])
    BY <1>3, <1>4
  <1> QED BY <1>1, <1>5 DEF t

\* Asked for: the flags are the whole of it.
LEMMA AskedFacts ==
    ASSUME NEW s, Answers(s), Now(s).v \in {"request", "peek", "notify"}
    PROVE  Over(ExtendedClipboard(s))
  <1> DEFINE action == Now(s).v
             answer == CASE action = "request" /\ s.text /\ "provide" \in s.caps -> <<"provide">>
                         [] action = "peek" /\ "notify" \in s.caps -> <<"notify">>
                         [] action = "notify" /\ "request" \in s.caps -> <<"request">>
                         [] OTHER -> <<>>
             none == <<>>
  <1>1. action # "caps" /\ action # "provide"
    OBVIOUS
  <1>2. answer \in Seq(Words)
    <2>1. <<"provide">> \in Seq(Words) /\ <<"notify">> \in Seq(Words) /\ <<"request">> \in Seq(Words) /\ <<>> \in Seq(Words)
      BY DEF Words
    <2>2. answer \in {<<"provide">>, <<"notify">>, <<"request">>, <<>>}
      OBVIOUS
    <2> HIDE DEF answer
    <2> QED BY <2>1, <2>2
  <1>3. ExtendedClipboard(s) = IF s.viewOnly THEN Tell(s) ELSE [Tell(s) EXCEPT !.said = @ \o answer]
    BY <1>1, Zenon DEF ExtendedClipboard
  <1> HIDE DEF answer
  <1>4. Over(IF s.viewOnly THEN Tell(s) ELSE [Tell(s) EXCEPT !.said = @ \o answer])
    BY <1>2, AnswerFacts
  <1> QED BY <1>3, <1>4

\* What a message of the clipboard looks like.
LEMMA ClipboardParts ==
    ASSUME NEW part \in {"text", "caps", "request", "peek", "notify", "provide"}
    PROVE  /\ Part[part][1].k = "msg" /\ Part[part][1].v = "ServerCutText" /\ Silent(Part[part][1])
           /\ Part[part][2].k = "len" /\ Silent(Part[part][2])
           /\ Size(part) = Part[part][2].n + 2 /\ Part[part][2].n \in {1, 2}
           /\ Part[part][Size(part)].d = "told" /\ Part[part][Size(part)].k \notin {"zdata", "ctl"}
           /\ part \in NoUpdates
  <1>2. CASE part = "text"
    BY <1>2, TextPart DEF Of, Silent, Drawing, NoUpdates
  <1>3. CASE part = "caps"
    BY <1>3, CapsPart DEF Of, Silent, Drawing, NoUpdates
  <1>4. CASE part = "request"
    BY <1>4, RequestPart DEF Of, Silent, Drawing, NoUpdates
  <1>5. CASE part = "peek"
    BY <1>5, PeekPart DEF Of, Silent, Drawing, NoUpdates
  <1>6. CASE part = "notify"
    BY <1>6, NotifyPart DEF Of, Silent, Drawing, NoUpdates
  <1>7. CASE part = "provide"
    BY <1>7, ProvidePart DEF Of, Silent, Drawing, NoUpdates
  <1> QED BY <1>2, <1>3, <1>4, <1>5, <1>6, <1>7

\* Its length was read, and all of it is there.
LEMMA LengthRead ==
    ASSUME Stream, NEW s, Pauses(s), NEW part \in {"text", "caps", "request", "peek", "notify", "provide"},
           Near(s, part, 0), ~Waits(s, 2), ~Waits(s, 2 + Ahead(s, 2).n)
    PROVE  LET t == Take(s, <<"msg", "len">>)
           IN  /\ t \in Client /\ Pauses(t) /\ Near(t, part, 2) /\ ~Waits(t, 1)
               /\ Size(part) = 4 => arrived - t.at >= 2
               /\ t.viewOnly = s.viewOnly /\ t.at \in Nat /\ arrived \in Nat
  <1> DEFINE t == Take(s, <<"msg", "len">>)
             n == Part[part][2].n
  <1>1. /\ Part[part][1].k = "msg" /\ Silent(Part[part][1]) /\ Part[part][2].k = "len" /\ Silent(Part[part][2])
        /\ Size(part) = n + 2 /\ n \in {1, 2} /\ part \in NoUpdates
    BY ClipboardParts
  <1> HIDE DEF n
  <1>2. 0 + 1 = 1 /\ 0 + 2 = 2 /\ 0 + 2 <= Size(part) /\ Size(part) \in Nat /\ 2 < Size(part) /\ part # "key"
        /\ "msg" \in Kinds /\ "len" \in Kinds /\ 2 \in 1 .. 4 /\ 0 \in Nat
    BY <1>1 DEF Kinds
  <1>3. Ahead(s, 2) = Part[part][2]
    <2>1. Ahead(s, 2) = Part[part][0 + 2]
      BY <1>2, AheadNear
    <2> QED BY <1>2, <2>1
  <1>4. Came(s, t, part, 0, 2)
    <2>1. Came(s, Take(s, <<"msg", "len">>), part, 0, 2)
      BY <1>1, <1>2, NearTwo
    <2> QED BY <2>1
  <1>5. s.at \in Nat /\ arrived \in Nat
    BY ClientParts DEF Near, Whole, Core
  <1>6. arrived - s.at >= 2 + n
    BY <1>1, <1>3, <1>5 DEF Waits, n
  <1> HIDE DEF t
  <1>7. t \in Client /\ Same(s, t, {"at", "fresh", "first", "ok"}) /\ t.at = s.at + 2
    BY <1>4 DEF Came
  <1>8. Near(t, part, 2)
    <2>1. Near(t, part, 0 + 2)
      BY <1>1, <1>2, <1>4, CameNear
    <2> QED BY <1>2, <2>1
  <1>9. Pauses(t)
    <2>1. Same(s, t, {"run", "at", "fresh", "first", "ok", "told", "said", "cont", "canCont", "caps", "text"})
      BY <1>7, SameMore
    <2> QED BY <2>1, PausesSame
  <1>10. t.viewOnly = s.viewOnly
    BY <1>7 DEF Same, Fields
  <1>11. arrived - t.at >= n /\ t.at \in Nat
    BY <1>1, <1>5, <1>6, <1>7
  <1>12. ~Waits(t, 1) /\ (Size(part) = 4 => arrived - t.at >= 2)
    BY <1>1, <1>5, <1>11 DEF Waits
  <1> QED BY <1>5, <1>7, <1>8, <1>9, <1>10, <1>11, <1>12 DEF t

\* Plain text.
LEMMA TextFacts ==
    ASSUME Stream, NEW t, Pauses(t), Near(t, "text", 2), ~Waits(t, 1)
    PROVE  Good(Return(Tell(Take(t, <<"text">>))))
  <1> DEFINE u == Take(t, <<"text">>)
             v == Tell(u)
  <1>1. /\ Part["text"][3].k = "text" /\ Part["text"][3].d = "told" /\ Size("text") = 3 /\ Size("text") \in Nat
        /\ 2 + 1 = 3 /\ 2 + 1 <= Size("text") /\ "text" \in Kinds /\ "text" \in NoUpdates /\ 2 \in Nat
    BY TextPart DEF Of, Kinds, NoUpdates
  <1>2. Came(t, u, "text", 2, 1)
    <2>1. Came(t, Take(t, <<"text">>), "text", 2, 1)
      BY <1>1, NearOne
    <2> QED BY <2>1
  <1> HIDE DEF u
  <1>3. Answers(u)
    BY <1>1, <1>2, CameAnswers
  <1>4. Over(v)
    BY <1>3, AnswersTell
  <1>5. Good(Return(v))
    BY <1>4, ReturnFacts
  <1> QED BY <1>5 DEF u

\* Only flags.
LEMMA FlagsFacts ==
    ASSUME Stream, NEW t, Pauses(t), NEW part \in {"request", "peek", "notify"}, Near(t, part, 2), ~Waits(t, 1)
    PROVE  Good(Return(ExtendedClipboard(Take(t, <<"flags">>))))
  <1> DEFINE u == Take(t, <<"flags">>)
  <1>1. /\ Part[part][3].k = "flags" /\ Part[part][3].d = "told" /\ Part[part][3].v = part
        /\ Size(part) = 3 /\ Size(part) \in Nat /\ 2 + 1 = 3 /\ 2 + 1 <= Size(part) /\ "flags" \in Kinds
        /\ part \in NoUpdates /\ 2 \in Nat
    BY RequestPart, PeekPart, NotifyPart DEF Of, Kinds, NoUpdates
  <1>2. Came(t, u, part, 2, 1)
    <2>1. Came(t, Take(t, <<"flags">>), part, 2, 1)
      BY <1>1, NearOne
    <2> QED BY <2>1
  <1> HIDE DEF u
  <1>3. Answers(u)
    BY <1>1, <1>2, CameAnswers
  <1>4. Now(u).v = part
    BY <1>1, <1>2 DEF Came, Now
  <1>5. Over(ExtendedClipboard(u))
    BY <1>3, <1>4, AskedFacts
  <1>6. Good(Return(ExtendedClipboard(u)))
    BY <1>5, ReturnFacts
  <1> QED BY <1>6 DEF u

\* Flags, and what comes with them.
LEMMA FlagsRead ==
    ASSUME Stream, NEW t, Pauses(t), t \in Client, NEW part \in {"caps", "provide"}, Near(t, part, 2), arrived - t.at >= 2,
           t.at \in Nat, arrived \in Nat, ~Waits(t, 1)
    PROVE  LET u == Take(t, <<"flags">>)
           IN  u \in Client /\ Pauses(u) /\ Near(u, part, 3) /\ ~Waits(u, 1) /\ Now(u).v = part /\ u.viewOnly = t.viewOnly
  <1> DEFINE u == Take(t, <<"flags">>)
  <1>1. /\ Part[part][3].k = "flags" /\ Silent(Part[part][3]) /\ Part[part][3].v = part
        /\ Size(part) = 4 /\ Size(part) \in Nat /\ 2 + 1 = 3 /\ 2 + 1 < Size(part) /\ 2 + 1 <= Size(part)
        /\ "flags" \in Kinds /\ part # "key" /\ 2 \in Nat /\ 1 \in 1 .. 4
    BY CapsPart, ProvidePart DEF Of, Kinds, Silent, Drawing
  <1>2. Came(t, u, part, 2, 1)
    <2>1. Came(t, Take(t, <<"flags">>), part, 2, 1)
      BY <1>1, NearOne
    <2> QED BY <2>1
  <1> HIDE DEF u
  <1>3. Near(u, part, 3)
    <2>1. Near(u, part, 2 + 1)
      BY <1>1, <1>2, CameNear
    <2> QED BY <1>1, <2>1
  <1>4. u \in Client /\ u.at = t.at + 1 /\ Same(t, u, {"at", "fresh", "first", "ok"}) /\ Now(u).v = part
    BY <1>1, <1>2 DEF Came, Now
  <1>5. Pauses(u)
    <2>1. Same(t, u, {"run", "at", "fresh", "first", "ok", "told", "said", "cont", "canCont", "caps", "text"})
      BY <1>4, SameMore
    <2> QED BY <2>1, PausesSame
  <1>6. ~Waits(u, 1)
    BY <1>4 DEF Waits
  <1>7. u.viewOnly = t.viewOnly
    BY <1>4 DEF Same, Fields
  <1> QED BY <1>3, <1>4, <1>5, <1>6, <1>7 DEF u

LEMMA CapsFacts ==
    ASSUME Stream, NEW u, Pauses(u), Near(u, "caps", 3), ~Waits(u, 1), Now(u).v = "caps"
    PROVE  Over(ExtendedClipboard(u))
  <1> DEFINE v == Take(u, <<"sizes">>)
             caps == ServerActions
             w == SetCaps(v, caps)
             x == Tell(w)
             what == "caps"
  <1>0. ExtendedClipboard(u) = Say(x, what)
    BY Zenon DEF ExtendedClipboard, SetCaps
  <1>1. /\ Part["caps"][4].k = "sizes" /\ Part["caps"][4].d = "told" /\ Size("caps") = 4 /\ Size("caps") \in Nat
        /\ 3 + 1 = 4 /\ 3 + 1 <= Size("caps") /\ "sizes" \in Kinds /\ "caps" \in NoUpdates /\ 3 \in Nat
    BY CapsPart DEF Of, Kinds, NoUpdates
  <1>2. Came(u, v, "caps", 3, 1)
    <2>1. Came(u, Take(u, <<"sizes">>), "caps", 3, 1)
      BY <1>1, NearOne
    <2> QED BY <2>1
  <1> HIDE DEF v
  <1>3. Answers(v) /\ v \in Client
    BY <1>1, <1>2, CameAnswers DEF Came
  <1>4. caps \in SUBSET ServerActions
    OBVIOUS
  <1> HIDE DEF caps
  <1>5. w \in Client /\ Same(v, w, {"caps"})
    BY <1>3, <1>4, SetCapsFacts
  <1> HIDE DEF w
  <1>6. Answers(w)
    <2>1. Same(v, w, {"cont", "canCont", "caps", "text"})
      BY <1>5, SameMore
    <2> QED BY <1>3, <1>5, <2>1, AnswersLoose
  <1>7. Over(x)
    BY <1>6, AnswersTell
  <1> HIDE DEF x
  <1>8. what \in Words /\ what # "request"
    BY DEF Words
  <1> HIDE DEF what
  <1> QED BY <1>0, <1>7, <1>8, OverSay

LEMMA ProvideFacts ==
    ASSUME Stream, NEW u, Pauses(u), Near(u, "provide", 3), ~Waits(u, 1), Now(u).v = "provide", ~u.viewOnly
    PROVE  Over(ExtendedClipboard(u))
  <1> DEFINE v == Take(u, <<"data">>)
             text == FALSE
             w == SetText(v, text)
             x == Tell(w)
  <1>0. ExtendedClipboard(u) = x
    <2>1. Now(u).v # "caps"
      OBVIOUS
    <2> QED BY <2>1, Zenon DEF ExtendedClipboard, SetText
  <1>1. /\ Part["provide"][4].k = "data" /\ Part["provide"][4].d = "told" /\ Size("provide") = 4 /\ Size("provide") \in Nat
        /\ 3 + 1 = 4 /\ 3 + 1 <= Size("provide") /\ "data" \in Kinds /\ "provide" \in NoUpdates /\ 3 \in Nat
    BY ProvidePart DEF Of, Kinds, NoUpdates
  <1>2. Came(u, v, "provide", 3, 1)
    <2>1. Came(u, Take(u, <<"data">>), "provide", 3, 1)
      BY <1>1, NearOne
    <2> QED BY <2>1
  <1> HIDE DEF v
  <1>3. Answers(v) /\ v \in Client
    BY <1>1, <1>2, CameAnswers DEF Came
  <1>4. text \in BOOLEAN
    OBVIOUS
  <1> HIDE DEF text
  <1>5. w \in Client /\ Same(v, w, {"text"})
    BY <1>3, <1>4, SetTextFacts
  <1> HIDE DEF w
  <1>6. Answers(w)
    <2>1. Same(v, w, {"cont", "canCont", "caps", "text"})
      BY <1>5, SameMore
    <2> QED BY <1>3, <1>5, <2>1, AnswersLoose
  <1>7. Over(x)
    BY <1>6, AnswersTell
  <1> QED BY <1>0, <1>7

LEMMA CutTextFacts ==
    ASSUME Stream, NEW s, Before(s), Pauses(s), NEW part \in {"text", "caps", "request", "peek", "notify", "provide"},
           Near(s, part, 0), part = "provide" => ~s.viewOnly
    PROVE  Good(HandleServerCutText(s))
  <1> DEFINE t == Take(s, <<"msg", "len">>)
             u == Take(t, <<"flags">>)
             wait == Waits(s, 2) \/ Waits(s, 2 + Ahead(s, 2).n)
  <1>1. HandleServerCutText(s) = IF wait THEN Wait(s)
                                 ELSE IF Ahead(t, 1).k = "text" THEN Return(Tell(Take(t, <<"text">>)))
                                 ELSE Return(ExtendedClipboard(u))
    BY Zenon DEF HandleServerCutText
  <1>2. CASE wait
    <2>1. HandleServerCutText(s) = Wait(s)
      BY <1>1, <1>2
    <2> QED BY <2>1, WaitFacts
  <1>3. CASE ~wait
    <2>1. /\ t \in Client /\ Pauses(t) /\ Near(t, part, 2) /\ ~Waits(t, 1)
          /\ Size(part) = 4 => arrived - t.at >= 2
          /\ t.viewOnly = s.viewOnly /\ t.at \in Nat /\ arrived \in Nat
      BY <1>3, LengthRead
    <2> HIDE DEF t, wait
    <2>2. Ahead(t, 1) = Part[part][3] /\ Size(part) \in {3, 4}
      <3>1. Size(part) \in {3, 4} /\ Size(part) = Part[part][2].n + 2
        BY ClipboardParts
      <3>2. 2 \in Nat /\ 1 \in 1 .. 4 /\ 2 + 1 = 3 /\ 2 + 1 <= Size(part)
        BY <3>1
      <3>3. Ahead(t, 1) = Part[part][2 + 1]
        BY <2>1, <3>2, AheadNear
      <3> QED BY <3>1, <3>2, <3>3
    <2>3. CASE part = "text"
      <3>1. Ahead(t, 1).k = "text"
        BY <2>2, <2>3, TextPart DEF Of
      <3>2. Good(Return(Tell(Take(t, <<"text">>))))
        BY <2>1, <2>3, TextFacts
      <3> QED BY <1>1, <1>3, <3>1, <3>2
    <2>4. part # "text" => HandleServerCutText(s) = Return(ExtendedClipboard(u))
      <3>1. part # "text" => Part[part][3].k = "flags"
        BY CapsPart, RequestPart, PeekPart, NotifyPart, ProvidePart DEF Of
      <3>2. part # "text" => Ahead(t, 1).k # "text"
        BY <2>2, <3>1
      <3> HIDE DEF u
      <3> QED BY <1>1, <1>3, <3>2
    <2>5. CASE part \in {"request", "peek", "notify"}
      <3>1. Good(Return(ExtendedClipboard(Take(t, <<"flags">>))))
        BY <2>1, <2>5, FlagsFacts
      <3> QED BY <2>4, <2>5, <3>1
    <2>6. CASE part \in {"caps", "provide"}
      <3>1. arrived - t.at >= 2
        BY <2>1, <2>6, CapsPart, ProvidePart
      <3>2. u \in Client /\ Pauses(u) /\ Near(u, part, 3) /\ ~Waits(u, 1) /\ Now(u).v = part /\ u.viewOnly = t.viewOnly
        BY <2>1, <2>6, <3>1, FlagsRead
      <3> HIDE DEF u
      <3>3. Over(ExtendedClipboard(u))
        <4>1. CASE part = "caps"
          BY <3>2, <4>1, CapsFacts
        <4>2. CASE part = "provide"
          BY <2>1, <3>2, <4>2, ProvideFacts
        <4> QED BY <2>6, <4>1, <4>2
      <3> QED BY <2>4, <2>6, <3>3, ReturnFacts
    <2> QED BY <2>3, <2>5, <2>6
  <1> QED BY <1>2, <1>3

\* What a message begins with tells which it is.
LEMMA MessageParts ==
    \A part \in {"header"} \cup NoUpdates :
      LET v == Part[part][1].v
      IN  /\ Part[part][1].k = "msg"
          /\ part = "header" => v = "FramebufferUpdate"
          /\ part = "bell" => v = "Bell"
          /\ part \in {"text", "caps", "request", "peek", "notify", "provide"} => v = "ServerCutText"
          /\ part = "continuous" => v = "EndOfContinuousUpdates"
          /\ part = "fence" => v = "ServerFence"
          /\ part = "xvp" => v = "XVP"
  <1>1. /\ Part["header"][1] = Of("msg", "FramebufferUpdate", 0, "none")
        /\ Part["bell"][1] = Of("msg", "Bell", 0, "told")
        /\ Part["continuous"][1] = Of("msg", "EndOfContinuousUpdates", 0, "told")
        /\ Part["fence"][1] = Of("msg", "ServerFence", 0, "none")
        /\ Part["xvp"][1] = Of("msg", "XVP", 0, "none")
    BY HeaderPart, BellPart, ContinuousPart, FencePart, XvpPart
  <1>2. \A part \in {"text", "caps", "request", "peek", "notify", "provide"} :
          Part[part][1].k = "msg" /\ Part[part][1].v = "ServerCutText"
    BY ClipboardParts
  <1> QED BY <1>1, <1>2 DEF Of, NoUpdates

\* One step of the loop of _handleMessage leaves the client where it can be.
LEMMA NormalMsgFacts ==
    ASSUME Stream, Depends, Good(c), c.run
    PROVE  Good(NormalMsg(c))
  <1>1. CASE c.flushing
    <2>1. NormalMsg(c) = Wait(c)
      BY <1>1, Zenon DEF NormalMsg
    <2> QED BY <2>1, WaitFacts DEF Good
  <1>2. CASE ~c.flushing /\ c.rects > 0
    <2>1. NormalMsg(c) = FramebufferUpdate(c)
      BY <1>2, Zenon DEF NormalMsg
    <2> QED BY <1>2, <2>1, UpdateFacts
  <1>3. CASE ~c.flushing /\ ~(c.rects > 0)
    <2>1. Before(c)
      <3> SUFFICES ASSUME Within(c) PROVE FALSE
        BY DEF Good
      <3>1. PICK part \in Rects, i \in Nat : At(c, part, i)
        BY WithinAt
      <3>2. c.rects = sent[c.at].left + 1 /\ c.at \in 1 .. Len(sent)
        BY <3>1, AtParts DEF At, Amid, Begun
      <3>3. sent[c.at].left \in Nat
        BY <3>2, StreamParts
      <3> QED BY <1>3, <3>2, <3>3
    <2>2. c \in Client /\ c.rects = 0 /\ c.at < arrived /\ c.at \in Nat /\ arrived \in Nat
      <3>1. c \in Client /\ arrived \in Nat
        BY <2>1 DEF Before, Whole, Core
      <3>2. c.rects \in Nat /\ c.at \in Nat
        BY <3>1, ClientParts
      <3>3. c.rects = 0
        BY <1>3, <3>2
      <3> QED BY <2>1, <3>1, <3>2, <3>3 DEF Before
    <2>3. Pauses(c)
      BY <1>3, <2>1, <2>2 DEF Before, Pauses
    <2> DEFINE part == sent[c.at + 1].part
    <2>4. Near(c, part, 0) /\ part \in {"header"} \cup NoUpdates /\ c.at + 1 \in 1 .. Len(sent)
      BY <1>3, <2>1, <2>2, BeforeNear DEF Near
    <2>5. part = "provide" => ~c.viewOnly
      BY <2>4 DEF Depends
    <2>6. part = sent[c.at + 1].part
      OBVIOUS
    <2> HIDE DEF part
    <2>7. Ahead(c, 1) = Part[part][1]
      <3>1. part \in Parts /\ 0 \in Nat /\ 1 \in 1 .. 4 /\ 0 + 1 = 1
        BY <2>4 DEF Parts
      <3>2. 0 + 1 <= Size(part)
        BY <3>1, SizeFacts
      <3>3. Ahead(c, 1) = Part[part][0 + 1]
        BY <2>4, <3>1, <3>2, AheadNear
      <3> QED BY <3>1, <3>3
    <2>8. ~Waits(c, 1)
      BY <2>2 DEF Waits
    <2>9. Ahead(c, 1).k = "msg"
      BY <2>4, <2>7, MessageParts
    <2> DEFINE type == Ahead(c, 1).v
    <2>10. NormalMsg(c) = CASE type = "FramebufferUpdate" -> UpdateHeader(c)
                            [] type = "Bell" -> Return(Tell(Take(c, <<"msg">>)))
                            [] type = "ServerCutText" -> HandleServerCutText(c)
                            [] type = "EndOfContinuousUpdates" -> EndOfContinuousUpdates(c)
                            [] type = "ServerFence" -> HandleServerFence(c)
                            [] type = "XVP" -> HandleXvpMsg(c)
                            [] OTHER -> Fail(c)
      BY <1>3, <2>9, Zenon DEF NormalMsg
    <2>11. type = Part[part][1].v
      BY <2>7
    <2> HIDE DEF type
    <2>12. CASE part = "header"
      <3>1. type = "FramebufferUpdate"
        BY <2>11, <2>12, MessageParts
      <3>2. Good(UpdateHeader(c))
        BY <1>3, <2>1, <2>2, <2>6, <2>12, UpdateHeaderFacts
      <3> QED BY <2>10, <3>1, <3>2
    <2>13. CASE part = "bell"
      <3>1. type = "Bell"
        BY <2>4, <2>11, <2>13, MessageParts
      <3>2. Good(Return(Tell(Take(c, <<"msg">>))))
        BY <2>3, <2>4, <2>8, <2>13, BellFacts
      <3> QED BY <2>10, <3>1, <3>2
    <2>14. CASE part \in {"text", "caps", "request", "peek", "notify", "provide"}
      <3>1. type = "ServerCutText"
        BY <2>4, <2>11, <2>14, MessageParts
      <3>2. Good(HandleServerCutText(c))
        BY <2>1, <2>3, <2>4, <2>5, <2>14, CutTextFacts
      <3> QED BY <2>10, <3>1, <3>2
    <2>15. CASE part = "continuous"
      <3>1. type = "EndOfContinuousUpdates"
        BY <2>4, <2>11, <2>15, MessageParts
      <3>2. Good(EndOfContinuousUpdates(c))
        BY <2>3, <2>4, <2>8, <2>15, ContinuousFacts
      <3> QED BY <2>10, <3>1, <3>2
    <2>16. CASE part = "fence"
      <3>1. type = "ServerFence"
        BY <2>4, <2>11, <2>16, MessageParts
      <3>2. Good(HandleServerFence(c))
        BY <2>1, <2>3, <2>4, <2>16, FenceFacts
      <3> QED BY <2>10, <3>1, <3>2
    <2>17. CASE part = "xvp"
      <3>1. type = "XVP"
        BY <2>4, <2>11, <2>17, MessageParts
      <3>2. Good(HandleXvpMsg(c))
        BY <2>1, <2>3, <2>4, <2>17, XvpFacts
      <3> QED BY <2>10, <3>1, <3>2
    <2> QED BY <2>4, <2>12, <2>13, <2>14, <2>15, <2>16, <2>17 DEF NoUpdates
  <1> QED BY <1>1, <1>2, <1>3

----------------------------------------------------------------------------
(***************************************************************************)
(* The server sends more, and the network delivers it: what the client has *)
(* made of the stream so far stays right.                                  *)
(***************************************************************************)

Grows ==
    /\ sent' \in Seq(Items) /\ Len(sent) <= Len(sent') /\ \A p \in 1 .. Len(sent) : sent'[p] = sent[p]
    /\ arrived \in Nat /\ arrived' \in Nat /\ arrived <= arrived' /\ arrived <= Len(sent) /\ arrived' <= Len(sent')

LEMMA SentGrows ==
    ASSUME Stream, Grows
    PROVE  /\ Len(sent) \in Nat /\ Len(sent') \in Nat
           /\ \A p \in 1 .. Len(sent) : /\ p \in 1 .. Len(sent') /\ sent'[p] = sent[p]
                                        /\ Token(p)' = Token(p) /\ Closes(p)' = Closes(p) /\ Resets(p)' = Resets(p)
                                        /\ p \in Ends' <=> p \in Ends
                                        /\ p \in Keys' <=> p \in Keys
                                        /\ p \in Resized' <=> p \in Resized
           /\ Ends' \subseteq Nat \ {0} /\ Keys' \subseteq Nat \ {0}
  <1>1. Len(sent) \in Nat /\ Len(sent') \in Nat
    BY LenProperties DEF Stream, Grows
  <1>2. ASSUME NEW p \in 1 .. Len(sent)
        PROVE  /\ p \in 1 .. Len(sent') /\ sent'[p] = sent[p]
               /\ Token(p)' = Token(p) /\ Closes(p)' = Closes(p) /\ Resets(p)' = Resets(p)
    <2>1. p \in 1 .. Len(sent') /\ sent'[p] = sent[p]
      BY <1>1 DEF Grows
    <2>2. Token(p)' = Token(p) /\ Closes(p)' = Closes(p)
      BY <2>1 DEF Token, Closes
    <2> QED BY <2>1, <2>2 DEF Resets
  <1>3. ASSUME NEW p \in 1 .. Len(sent)
        PROVE  /\ p \in Ends' <=> p \in Ends
               /\ p \in Keys' <=> p \in Keys
               /\ p \in Resized' <=> p \in Resized
    BY <1>2 DEF Ends, Keys, Resized
  <1>4. Ends' \subseteq Nat \ {0} /\ Keys' \subseteq Nat \ {0}
    BY <1>1 DEF Ends, Keys
  <1> QED BY <1>1, <1>2, <1>3, <1>4

LEMMA CoreGrows ==
    ASSUME Stream, Grows, Core(c', c'.at)
    PROVE  Core(c, c.at)' /\ c'.at \in Nat /\ c'.at <= Len(sent)
  <1>1. /\ c' \in Client /\ c'.ok /\ ~c'.failed /\ c'.at \in Nat /\ c'.at <= arrived /\ c'.at <= Len(sent)
        /\ c'.told \in Seq(Nat) /\ c'.drawn \in Seq(OpType) /\ c'.queue \in Seq(OpType)
        /\ Len(sent) \in Nat
    <2>1. c' \in Client /\ c'.ok /\ ~c'.failed /\ c'.at <= arrived
      BY DEF Core
    <2>2. c'.at \in Nat /\ c'.told \in Seq(Nat) /\ c'.drawn \in Seq(OpType) /\ c'.queue \in Seq(OpType)
      BY <2>1, ClientParts
    <2>3. Len(sent) \in Nat
      BY SentGrows
    <2>4. c'.at <= Len(sent)
      BY <2>1, <2>2, <2>3 DEF Grows
    <2> QED BY <2>1, <2>2, <2>3, <2>4
  <1>2. \A p \in 1 .. c'.at : p \in 1 .. Len(sent) /\ Token(p)' = Token(p)
    BY <1>1, SentGrows
  <1>3. Heard(c.told, c.at)'
    <2>1. Heard(c'.told, c'.at)
      BY DEF Core
    <2> QED BY <1>2, <2>1 DEF Heard
  <1>4. Logged(c.drawn \o c.queue, c.at)'
    <2> DEFINE log == c.drawn \o c.queue
    <2>1. Logged(log', c'.at)
      BY DEF Core
    <2> HIDE DEF log
    <2>2. ASSUME NEW i \in 1 .. Len(log') PROVE log'[i].p \in 1 .. c'.at /\ Shows(log[i])'
      <3>1. log'[i].p \in 1 .. c'.at /\ Shows(log'[i])
        BY <2>1 DEF Logged
      <3>2. (Token(log[i].p))' = Token(log'[i].p) /\ log'[i].p \in 1 .. Len(sent)
        <4>1. log'[i].p \in 1 .. Len(sent) /\ sent'[log'[i].p] = sent[log'[i].p]
          BY <1>2, <3>1, SentGrows
        <4> QED BY <4>1 DEF Token
      <3>3. log'[i].p \in Ends \cup Resized => log'[i].p \in Ends' \cup Resized'
        BY <3>2, SentGrows
      <3> QED BY <3>1, <3>2, <3>3 DEF Shows, IsDrawing
    <2>3. ASSUME NEW p \in 1 .. c'.at, (Token(p).d)' \in Drawing
          PROVE  \E i \in 1 .. Len(log') : IsDrawing(log'[i]) /\ log'[i].p = p
      BY <1>2, <2>1, <2>3 DEF Logged
    <2>4. \A i, j \in 1 .. Len(log') : i < j => log'[i].p <= log'[j].p /\ (IsDrawing(log'[j]) => log'[i].p < log'[j].p)
      BY <2>1 DEF Logged
    <2>5. Logged(log, c.at)'
      BY <2>2, <2>3, <2>4 DEF Logged, IsDrawing
    <2> QED BY <2>5 DEF log
  <1>5. Single(c.queue)'
    <2>1. Single(c'.queue) /\ Logged(c'.drawn \o c'.queue, c'.at)
      BY DEF Core
    <2>2. \A i \in 1 .. Len(c'.queue) : c'.queue[i].p \in 1 .. c'.at
      BY <1>1, <2>1, LogQueue
    <2>3. SUFFICES ASSUME NEW i \in 1 .. Len(c'.queue), NEW j \in 1 .. Len(c'.queue), IsDrawing(c'.queue[i]),
                          IsDrawing(c'.queue[j]), NEW e \in Ends', c'.queue[i].p <= e, e < c'.queue[j].p
                   PROVE  FALSE
      BY DEF Single, IsDrawing
    <2>4. e \in Nat /\ e > 0
      BY SentGrows
    <2>5. e \in 1 .. Len(sent)
      BY <1>1, <2>2, <2>3, <2>4
    <2>6. e \in Ends
      BY <2>3, <2>5, SentGrows
    <2> QED BY <2>1, <2>3, <2>6 DEF Single
  <1>6. (\A p \in Keys : p <= c.at => c.video)'
    <2> SUFFICES ASSUME NEW p \in Keys', p <= c'.at PROVE c'.video
      OBVIOUS
    <2>1. p \in Nat /\ p > 0
      BY SentGrows
    <2>2. p \in 1 .. Len(sent)
      BY <1>1, <2>1
    <2>3. p \in Keys
      BY <2>2, SentGrows
    <2> QED BY <2>3 DEF Core
  <1>7. c'.viewOnly => ~Contains(c'.said, "request")
    BY DEF Core
  <1>8. c'.at <= arrived' /\ arrived' \in Nat /\ arrived' <= Len(sent')
    BY <1>1 DEF Grows
  <1> QED BY <1>1, <1>3, <1>4, <1>5, <1>6, <1>7, <1>8 DEF Core

LEMMA WholeGrows ==
    ASSUME Stream, Grows, Whole(c', c'.at)
    PROVE  Whole(c, c.at)'
  <1>1. Core(c, c.at)' /\ c'.at \in Nat /\ c'.at <= Len(sent)
    BY CoreGrows DEF Whole
  <1> DEFINE at == c'.at
  <1>2. at \in Nat /\ at <= Len(sent) /\ c'.inflated = Blocks(at)
    BY <1>1 DEF Whole
  <1>3. Blocks(c.at)' = Blocks(c'.at)
    <2>1. \A p \in 1 .. at : p \in 1 .. Len(sent) /\ Token(p)' = Token(p) /\ Resets(p)' = Resets(p)
      BY <1>2, SentGrows
    <2>2. \A p \in 1 .. at : \A q \in p .. at : q \in 1 .. at
      BY <1>2
    <2>3. ASSUME NEW p \in 1 .. at PROVE p \in Blocks(c.at)' <=> p \in Blocks(at)
      BY <2>1, <2>2 DEF Blocks
    <2>4. Blocks(c.at)' \subseteq 1 .. at /\ Blocks(at) \subseteq 1 .. at
      BY DEF Blocks
    <2> QED BY <2>3, <2>4
  <1> QED BY <1>1, <1>2, <1>3 DEF Whole

LEMMA CurrentGrows ==
    ASSUME Stream, Grows, Core(c', c'.at), Current(c'.queue, c'.at)
    PROVE  Current(c.queue, c.at)'
  <1>1. c'.at \in Nat /\ c'.at <= Len(sent) /\ Len(sent) \in Nat
    BY CoreGrows, SentGrows
  <1>2. ASSUME NEW e \in Ends', e < c'.at PROVE e \in Ends
    <2>1. e \in Nat /\ e > 0
      BY SentGrows
    <2>2. e \in 1 .. Len(sent)
      BY <1>1, <1>2, <2>1
    <2> QED BY <2>2, SentGrows
  <1> QED BY <1>2 DEF Current

\* Between rectangles or messages, whether or not it goes on.
Between(s) ==
    /\ Whole(s, s.at) /\ s.enc = "none" /\ Rests(s)
    /\ s.rects = 0 => (s.at = 0 \/ s.at \in Ends) /\ ~s.flushing
    /\ s.rects > 0 => /\ s.at > 0 /\ Closes(s.at) /\ s.at \notin Ends /\ sent[s.at].left = s.rects
                      /\ s.flushing \/ Current(s.queue, s.at)
    /\ s.flushed => s.flushing /\ s.queue = <<>>

LEMMA GoodGrows ==
    ASSUME Stream, Grows, Between(c') \/ Within(c'), c'.rects = 0 /\ c'.run => c'.at < arrived'
    PROVE  Good(c)'
  <1>1. Whole(c', c'.at) /\ Core(c', c'.at)
    BY DEF Between, Within, Amid, Whole
  <1>2. Whole(c, c.at)'
    BY <1>1, WholeGrows
  <1>3. c'.at \in Nat /\ c'.at <= Len(sent) /\ (c'.at > 0 => c'.at \in 1 .. Len(sent))
    BY <1>1, CoreGrows, SentGrows
  <1>4. c'.at > 0 => /\ sent'[c'.at] = sent[c'.at]
                     /\ (Closes(c.at))' = Closes(c'.at)
                     /\ c'.at \in Ends' <=> c'.at \in Ends
    <2>1. c'.at > 0 => sent'[c'.at] = sent[c'.at] /\ (c'.at \in Ends' <=> c'.at \in Ends)
      BY <1>3, SentGrows
    <2> QED BY <2>1 DEF Closes
  <1>5. CASE Within(c')
    <2>1. Begun(c') /\ c'.at > 0 /\ Left(c', sent[c'.at].part, sent[c'.at].i)
      BY <1>5 DEF Within, Amid, Begun
    <2>2. Current(c.queue, c.at)'
      BY <1>1, <2>1, CurrentGrows DEF Begun
    <2>3. sent'[c'.at] = sent[c'.at]
      BY <1>4, <2>1
    <2>4. Begun(c)'
      BY <2>1, <2>2, <2>3 DEF Begun
    <2>5. Left(c, sent[c.at].part, sent[c.at].i)'
      BY <2>1, <2>3
    <2>6. Within(c)'
      BY <1>2, <2>4, <2>5 DEF Within, Amid
    <2> QED BY <2>6 DEF Good
  <1>6. CASE Between(c')
    <2>1. /\ c'.enc = "none" /\ Rests(c') /\ (c'.flushed => c'.flushing /\ c'.queue = <<>>)
          /\ c'.rects = 0 => (c'.at = 0 \/ c'.at \in Ends) /\ ~c'.flushing
          /\ c'.rects > 0 => /\ c'.at > 0 /\ Closes(c'.at) /\ c'.at \notin Ends /\ sent[c'.at].left = c'.rects
                             /\ c'.flushing \/ Current(c'.queue, c'.at)
      BY <1>6 DEF Between
    <2>2. c'.rects = 0 => c'.at = 0 \/ c'.at \in Ends'
      BY <1>3, <1>4, <2>1
    <2>3. c'.rects > 0 => /\ c'.at > 0 /\ Closes(c.at)' /\ c'.at \notin Ends' /\ sent'[c'.at].left = c'.rects
      BY <1>4, <2>1
    <2>4. c'.rects > 0 => c'.flushing \/ Current(c.queue, c.at)'
      BY <1>1, <2>1, CurrentGrows
    <2>5. Before(c)'
      BY <1>2, <2>1, <2>2, <2>3, <2>4 DEF Before
    <2> QED BY <2>5 DEF Good
  <1> QED BY <1>5, <1>6

\* A step that changes neither what was read nor where the client is in it.
LEMMA Touched ==
    ASSUME NEW s, NEW t, Same(s, t, {"run", "fresh", "asked", "said", "pasted", "text", "queue", "drawn", "flushed"}),
           Whole(t, s.at), Current(s.queue, s.at) => Current(t.queue, s.at), t.flushed => t.flushing /\ t.queue = <<>>,
           Between(s) \/ Within(s)
    PROVE  Between(t) \/ Within(t)
  <1>1. t.at = s.at /\ t.enc = s.enc /\ t.rects = s.rects /\ t.flushing = s.flushing /\ t.n = s.n
    BY DEF Same, Fields
  <1>2. {"run", "fresh", "asked", "said", "pasted", "text", "queue", "drawn", "flushed"} \cap (Work \cup {"lastsub"}) = {}
        /\ {"run", "fresh", "asked", "said", "pasted", "text", "queue", "drawn", "flushed"} \cap Work = {}
    BY DEF Work
  <1>3. CASE Between(s)
    <2>1. Rests(t)
      BY <1>2, <1>3, RestsSame DEF Between
    <2> QED BY <1>1, <1>3, <2>1 DEF Between
  <1>4. CASE Within(s)
    <2>1. Begun(s) /\ Left(s, sent[s.at].part, sent[s.at].i)
      BY <1>4 DEF Within, Amid
    <2>2. Left(t, sent[s.at].part, sent[s.at].i)
      BY <1>2, <2>1, LeftSame
    <2>3. Begun(t)
      BY <1>1, <2>1 DEF Begun
    <2> QED BY <1>1, <2>2, <2>3 DEF Within, Amid
  <1> QED BY <1>3, <1>4

LEMMA GoodParts ==
    ASSUME Stream, NEW s, Good(s)
    PROVE  /\ s \in Client /\ s.at \in Nat /\ arrived \in Nat /\ s.at <= arrived /\ arrived <= Len(sent)
           /\ sent \in Seq(Items) /\ Len(sent) \in Nat
           /\ Whole(s, s.at) /\ Core(s, s.at) /\ (Between(s) \/ Within(s))
           /\ s.rects = 0 /\ s.run => s.at < arrived
           /\ s.flushed => s.flushing /\ s.queue = <<>> /\ s.rects > 0
  <1>1. Whole(s, s.at) /\ Core(s, s.at)
    BY DEF Good, Before, Within, Amid, Whole
  <1>2. s \in Client /\ s.at \in Nat /\ arrived \in Nat /\ s.at <= arrived /\ arrived <= Len(sent)
    BY <1>1, ClientParts DEF Core
  <1>3. sent \in Seq(Items) /\ Len(sent) \in Nat
    BY LenProperties DEF Stream
  <1>4. CASE Before(s)
    <2>1. s.rects \in Nat
      BY <1>2, ClientParts
    <2> QED BY <1>1, <1>2, <1>3, <1>4, <2>1 DEF Before, Between
  <1>5. CASE Within(s)
    <2>1. ~s.flushed /\ s.rects = sent[s.at].left + 1 /\ s.at > 0
      BY <1>5 DEF Within, Amid, Begun
    <2>2. s.at \in 1 .. Len(sent)
      BY <1>2, <1>3, <2>1
    <2>3. sent[s.at].left \in Nat
      BY <2>2, StreamParts
    <2> QED BY <1>1, <1>2, <1>3, <1>5, <2>1, <2>3
  <1> QED BY <1>4, <1>5 DEF Good

LEMMA GoodTouched ==
    ASSUME Stream, Grows, Good(c),
           Same(c, c', {"run", "fresh", "asked", "said", "pasted", "text", "queue", "drawn", "flushed"}),
           Whole(c', c.at), Current(c.queue, c.at) => Current(c'.queue, c.at), c'.flushed => c'.flushing /\ c'.queue = <<>>,
           c'.run => c.at < arrived' \/ c.rects # 0
    PROVE  Good(c)'
  <1>1. Between(c) \/ Within(c)
    BY GoodParts
  <1>2. Between(c') \/ Within(c')
    BY <1>1, Touched
  <1>3. c'.at = c.at /\ c'.rects = c.rects
    BY DEF Same, Fields
  <1> QED BY <1>2, <1>3, GoodGrows

\* The stream, and what is still to be sent, stay as they are.
LEMMA StreamStays ==
    ASSUME sent' = sent, arrived \in Nat, arrived <= Len(sent), Stream, arrived' \in Nat, arrived <= arrived', arrived' <= Len(sent)
    PROVE  Stream' /\ Grows
  <1>1. Stream'
    BY DEF Stream, Follows, Begins, Continues, Closes, Ends
  <1>2. sent \in Seq(Items) /\ Len(sent) \in Nat
    BY LenProperties DEF Stream
  <1> QED BY <1>1, <1>2 DEF Grows

LEMMA PendingStays ==
    ASSUME sent' = sent, todo' = todo, Pending
    PROVE  Pending'
  BY DEF Pending, Ended, Ends, Closes, Remaining

LEMMA DependsStays ==
    ASSUME sent' = sent, todo' = todo, c'.viewOnly = c.viewOnly, Depends
    PROVE  Depends'
  BY DEF Depends, Keys, Closes

----------------------------------------------------------------------------
(***************************************************************************)
(* The steps of the client.                                                *)
(***************************************************************************)

LEMMA HandleMessageStep ==
    ASSUME IInv, HandleMessage
    PROVE  IInv'
  <1>1. Stream /\ Pending /\ Depends /\ Good(c) /\ c.run /\ c' = NormalMsg(c)
        /\ sent' = sent /\ todo' = todo /\ sends' = sends /\ arrived' = arrived
    BY DEF IInv, HandleMessage
  <1>2. Good(c')
    BY <1>1, NormalMsgFacts
  <1>3. Stream' /\ Grows
    BY <1>1, GoodParts, StreamStays
  <1>4. Between(c') \/ Within(c')
    BY <1>1, <1>2, GoodParts
  <1>5. c'.rects = 0 /\ c'.run => c'.at < arrived
    BY <1>1, <1>2, GoodParts
  <1>6. Core(c', c'.at)
    BY <1>1, <1>2, GoodParts
  <1>7. Good(c)'
    BY <1>1, <1>3, <1>4, <1>5, GoodGrows
  <1>8. c'.viewOnly = c.viewOnly
    BY <1>6 DEF Core
  <1> QED BY <1>1, <1>3, <1>7, <1>8, PendingStays, DependsStays DEF IInv

LEMMA DeliverStep ==
    ASSUME IInv, NEW n \in 1 .. Len(sent) - arrived, NEW full \in BOOLEAN, Deliver(n, full)
    PROVE  IInv'
  <1>1. Stream /\ Pending /\ Depends /\ Good(c) /\ ~c.run /\ ~c.flushed
        /\ sent' = sent /\ todo' = todo /\ sends' = sends /\ arrived' = arrived + n
    BY DEF IInv, Deliver, idle
  <1>2. /\ c \in Client /\ c.at \in Nat /\ arrived \in Nat /\ c.at <= arrived /\ arrived <= Len(sent)
        /\ Len(sent) \in Nat /\ Whole(c, c.at)
    BY <1>1, GoodParts
  <1>3. arrived' \in Nat /\ arrived <= arrived' /\ arrived' <= Len(sent) /\ c.at < arrived'
    BY <1>1, <1>2
  <1>4. Stream' /\ Grows
    BY <1>1, <1>2, <1>3, StreamStays
  <1> DEFINE run == ~c.failed
             fresh == c.fresh \/ full \/ c.at = arrived
  <1>5. c' = SetFresh(c, run, fresh)
    BY Zenon DEF Deliver, SetFresh
  <1>6. run \in BOOLEAN /\ fresh \in BOOLEAN
    BY <1>2, ClientParts
  <1> HIDE DEF run, fresh
  <1>7. c' \in Client /\ Same(c, c', {"run", "fresh"})
    BY <1>2, <1>5, <1>6, SetFreshFacts
  <1>8. Whole(c', c.at)
    <2>1. Same(c, c', {"flushing", "flushed", "rects", "enc", "n"} \cup Loose)
      BY <1>7 DEF Same, Loose
    <2> QED BY <1>2, <1>7, <2>1, WholeLoose
  <1>9. c'.queue = c.queue /\ c'.flushed = c.flushed /\ c'.viewOnly = c.viewOnly
    BY <1>7 DEF Same, Fields
  <1>10. Same(c, c', {"run", "fresh", "asked", "said", "pasted", "text", "queue", "drawn", "flushed"})
    BY <1>7, SameMore
  <1>11. Good(c)'
    BY <1>1, <1>3, <1>4, <1>8, <1>9, <1>10, GoodTouched
  <1> QED BY <1>1, <1>4, <1>9, <1>11, PendingStays, DependsStays DEF IInv

LEMMA FlushedStep ==
    ASSUME IInv, Flushed
    PROVE  IInv'
  <1>1. Stream /\ Pending /\ Depends /\ Good(c) /\ c.flushed
        /\ sent' = sent /\ todo' = todo /\ sends' = sends /\ arrived' = arrived
    BY DEF IInv, Flushed
  <1>2. /\ c \in Client /\ c.at \in Nat /\ arrived \in Nat /\ c.at <= arrived /\ arrived <= Len(sent)
        /\ Len(sent) \in Nat /\ Whole(c, c.at) /\ c.queue = <<>> /\ c.rects > 0 /\ c.flushing
    BY <1>1, GoodParts
  <1>3. Stream' /\ Grows
    BY <1>1, <1>2, StreamStays
  <1> DEFINE no == FALSE
             run == ~Waits(c, 1)
  <1>4. c' = SetResumed(c, no, no, run)
    BY Zenon DEF Flushed, SetResumed
  <1>5. no \in BOOLEAN /\ no = FALSE /\ run \in BOOLEAN
    OBVIOUS
  <1> HIDE DEF no, run
  <1>6. /\ c' \in Client /\ Same(c, c', {"flushing", "flushed", "run"})
        /\ c'.flushing = no /\ c'.flushed = no
    BY <1>2, <1>4, <1>5, SetResumedFacts
  <1>7. Whole(c', c.at)
    <2>1. Same(c, c', {"flushing", "flushed", "rects", "enc", "n"} \cup Loose)
      BY <1>6 DEF Same, Loose
    <2> QED BY <1>2, <1>6, <2>1, WholeLoose
  <1>8. /\ c'.at = c.at /\ c'.queue = <<>> /\ c'.rects = c.rects /\ c'.enc = c.enc /\ c'.viewOnly = c.viewOnly
    BY <1>2, <1>6 DEF Same, Fields
  <1>9. Between(c)
    BY <1>1, <1>2, GoodParts DEF Within, Amid, Begun
  <1>10. Rests(c')
    <2>1. {"flushing", "flushed", "run"} \cap Work = {}
      BY DEF Work
    <2> QED BY <1>6, <1>9, <2>1, RestsSame DEF Between
  <1>11. Current(c'.queue, c'.at)
    BY <1>8 DEF Current
  <1>12. c.rects # 0
    BY <1>2
  <1>13. Between(c')
    BY <1>5, <1>6, <1>7, <1>8, <1>9, <1>10, <1>11, <1>12 DEF Between
  <1>14. Good(c)'
    BY <1>1, <1>3, <1>8, <1>12, <1>13, GoodGrows
  <1> QED BY <1>1, <1>3, <1>8, <1>14, PendingStays, DependsStays DEF IInv

\* The operations of the display stay the same, in the same order.
LEMMA WholeAlike ==
    ASSUME NEW s, NEW t \in Client, NEW n, Same(s, t, {"queue", "drawn", "flushed"}), Whole(s, n),
           Logged(t.drawn \o t.queue, n), Single(t.queue)
    PROVE  Whole(t, n)
  <1>1. /\ t.at = s.at /\ t.ok = s.ok /\ t.failed = s.failed /\ t.told = s.told
        /\ t.video = s.video /\ t.viewOnly = s.viewOnly /\ t.said = s.said /\ t.inflated = s.inflated
    BY DEF Same, Fields
  <1> QED BY <1>1 DEF Whole, Core

\* What a sequence consists of when it is joined from two.
LEMMA JoinParts ==
    ASSUME NEW a \in Seq(OpType), NEW b \in Seq(OpType)
    PROVE  /\ a \o b \in Seq(OpType) /\ Len(a) \in Nat /\ Len(b) \in Nat /\ Len(a \o b) = Len(a) + Len(b)
           /\ \A j \in 1 .. Len(a \o b) : /\ (a \o b)[j] = (IF j <= Len(a) THEN a[j] ELSE b[j - Len(a)])
                                          /\ j <= Len(a) => j \in 1 .. Len(a)
                                          /\ ~(j <= Len(a)) => j - Len(a) \in 1 .. Len(b)
  <1>1. a \o b \in Seq(OpType) /\ Len(a \o b) = Len(a) + Len(b) /\ Len(a) \in Nat /\ Len(b) \in Nat
    BY ConcatProperties, LenProperties
  <1>2. \A j \in 1 .. Len(a) + Len(b) : (a \o b)[j] = IF j <= Len(a) THEN a[j] ELSE b[j - Len(a)]
    BY ConcatProperties
  <1> QED BY <1>1, <1>2

LEMMA PictureDecodedStep ==
    ASSUME IInv, NEW i \in 1 .. Len(c.queue), PictureDecoded(i)
    PROVE  IInv'
  <1>1. Stream /\ Pending /\ Depends /\ Good(c) /\ ~c.run /\ ~c.flushed
        /\ sent' = sent /\ todo' = todo /\ sends' = sends /\ arrived' = arrived
    BY DEF IInv, PictureDecoded, idle
  <1>2. /\ c \in Client /\ c.at \in Nat /\ arrived \in Nat /\ c.at <= arrived /\ arrived <= Len(sent)
        /\ Len(sent) \in Nat /\ Whole(c, c.at)
    BY <1>1, GoodParts
  <1>3. Stream' /\ Grows
    BY <1>1, <1>2, StreamStays
  <1>4. c.queue \in Seq(OpType) /\ c.drawn \in Seq(OpType) /\ c.queue[i] \in OpType /\ Len(c.queue) \in Nat
    BY <1>2, ClientParts, ElementOfSeq, LenProperties
  <1> DEFINE op == [c.queue[i] EXCEPT !.st = "decoded"]
             queue == [c.queue EXCEPT ![i] = op]
  <1>5. c' = SetQueue(c, queue)
    BY Zenon DEF PictureDecoded, SetQueue
  <1>6. op \in OpType /\ op.d = c.queue[i].d /\ op.p = c.queue[i].p /\ op.own = c.queue[i].own
    BY <1>4 DEF OpType
  <1> HIDE DEF op
  <1>7. /\ queue \in Seq(OpType) /\ Len(queue) = Len(c.queue)
        /\ \A j \in 1 .. Len(c.queue) : queue[j] = IF j = i THEN op ELSE c.queue[j]
    BY <1>4, <1>6, ExceptSeq
  <1> HIDE DEF queue
  <1>8. \A j \in 1 .. Len(c.queue) :
          queue[j].d = c.queue[j].d /\ queue[j].p = c.queue[j].p /\ queue[j].own = c.queue[j].own
    BY <1>6, <1>7
  <1>9. c' \in Client /\ Same(c, c', {"queue"}) /\ c'.queue = queue
    BY <1>2, <1>5, <1>7, SetQueueFacts
  <1>10. c'.drawn = c.drawn /\ c'.flushed = c.flushed /\ c'.run = c.run /\ c'.viewOnly = c.viewOnly
    BY <1>9 DEF Same, Fields
  <1>11. Logged(c.drawn \o queue, c.at)
    <2> DEFINE log == c.drawn \o c.queue
               other == c.drawn \o queue
    <2>1. Logged(log, c.at)
      BY <1>2 DEF Whole, Core
    <2>2. /\ Len(log) = Len(c.drawn) + Len(c.queue) /\ Len(c.drawn) \in Nat
          /\ \A j \in 1 .. Len(log) : /\ log[j] = (IF j <= Len(c.drawn) THEN c.drawn[j] ELSE c.queue[j - Len(c.drawn)])
                                      /\ ~(j <= Len(c.drawn)) => j - Len(c.drawn) \in 1 .. Len(c.queue)
      BY <1>4, JoinParts
    <2>3. /\ Len(other) = Len(c.drawn) + Len(queue)
          /\ \A j \in 1 .. Len(other) : other[j] = IF j <= Len(c.drawn) THEN c.drawn[j] ELSE queue[j - Len(c.drawn)]
      BY <1>4, <1>7, JoinParts
    <2> HIDE DEF log, other
    <2>4. Len(other) = Len(log)
      BY <1>7, <2>2, <2>3
    <2>5. \A j \in 1 .. Len(log) : other[j].d = log[j].d /\ other[j].p = log[j].p /\ other[j].own = log[j].own
      BY <1>8, <2>2, <2>3, <2>4
    <2>6. Logged(other, c.at)
      BY <1>2, <2>1, <2>4, <2>5, LoggedAlike
    <2> QED BY <2>6 DEF other
  <1>12. Single(queue) /\ (Current(c.queue, c.at) => Current(queue, c.at))
    <2>1. \A j \in 1 .. Len(queue) : queue[j].d = c.queue[0 + j].d /\ queue[j].p = c.queue[0 + j].p
      BY <1>4, <1>7, <1>8
    <2>2. 0 \in Nat /\ Len(queue) <= Len(c.queue) /\ 0 + Len(queue) <= Len(c.queue) /\ Len(queue) \in Nat
      BY <1>4, <1>7
    <2>3. Single(c.queue)
      BY <1>2 DEF Whole, Core
    <2> QED BY <1>2, <1>4, <2>1, <2>2, <2>3, SinglePart
  <1>13. Whole(c', c.at)
    <2>1. Same(c, c', {"queue", "drawn", "flushed"})
      BY <1>9, SameMore
    <2> QED BY <1>2, <1>9, <1>10, <1>11, <1>12, <2>1, WholeAlike
  <1>14. Same(c, c', {"run", "fresh", "asked", "said", "pasted", "text", "queue", "drawn", "flushed"})
    BY <1>9, SameMore
  <1>15. Good(c)'
    BY <1>1, <1>3, <1>9, <1>10, <1>12, <1>13, <1>14, GoodTouched
  <1> QED BY <1>1, <1>3, <1>10, <1>15, PendingStays, DependsStays DEF IInv

LEMMA LeastNat ==
    ASSUME NEW T, T \subseteq Nat, T # {}
    PROVE  \E x \in T : \A y \in T : x <= y
  <1>1. PICK x \in T : \A y \in T : ~(<<y, x>> \in OpToRel(<, Nat))
    BY Zenon, NatLessThanWellFounded, WFMin
  <1>2. \A y \in T : ~(y < x)
    BY <1>1 DEF OpToRel
  <1> QED BY <1>2

\* What is drawn is the first part of the queue.
LEMMA ScanFacts ==
    ASSUME NEW s, s \in Client
    PROVE  \E n \in 0 .. Len(s.queue), flushed \in BOOLEAN :
             /\ ScanRenderQ(s) = SetScanned(s, SubSeq(s.queue, n + 1, Len(s.queue)), s.drawn \o SubSeq(s.queue, 1, n), flushed)
             /\ flushed => s.flushed \/ (s.flushing /\ n = Len(s.queue))
  <1> DEFINE Upto(n) == /\ \A i \in 1 .. n : ~Missing(s.queue[i])
                        /\ n < Len(s.queue) => Missing(s.queue[n + 1])
             n == CHOOSE n \in 0 .. Len(s.queue) : Upto(n)
             flushed == s.flushed \/ (n = Len(s.queue) /\ s.flushing)
  <1>1. s.queue \in Seq(OpType) /\ Len(s.queue) \in Nat /\ s.flushed \in BOOLEAN /\ s.flushing \in BOOLEAN
    BY ClientParts, LenProperties
  <1>2. \E m \in 0 .. Len(s.queue) : Upto(m)
    <2>1. CASE \A i \in 1 .. Len(s.queue) : ~Missing(s.queue[i])
      <3>1. Upto(Len(s.queue)) /\ Len(s.queue) \in 0 .. Len(s.queue)
        BY <1>1, <2>1
      <3> QED BY <3>1
    <2>2. CASE \E i \in 1 .. Len(s.queue) : Missing(s.queue[i])
      <3> DEFINE S == {i \in 1 .. Len(s.queue) : Missing(s.queue[i])}
      <3>1. S # {} /\ S \in SUBSET Nat
        BY <1>1, <2>2
      <3>2. PICK i \in S : \A j \in S : i <= j
        BY <3>1, LeastNat
      <3>3. i \in 1 .. Len(s.queue) /\ Missing(s.queue[i]) /\ \A j \in 1 .. Len(s.queue) : Missing(s.queue[j]) => i <= j
        BY <3>2
      <3>4. i - 1 \in 0 .. Len(s.queue) /\ (i - 1) + 1 = i
        BY <1>1, <3>3
      <3>5. \A j \in 1 .. i - 1 : ~Missing(s.queue[j])
        BY <1>1, <3>3
      <3>6. Upto(i - 1)
        BY <3>3, <3>4, <3>5
      <3> QED BY <3>4, <3>6
    <2> QED BY <2>1, <2>2
  <1>3. ScanRenderQ(s) = SetScanned(s, SubSeq(s.queue, n + 1, Len(s.queue)), s.drawn \o SubSeq(s.queue, 1, n), flushed)
    BY Zenon DEF ScanRenderQ, SetScanned
  <1>4. n \in 0 .. Len(s.queue)
    BY <1>2
  <1>5. flushed \in BOOLEAN /\ (flushed => s.flushed \/ (s.flushing /\ n = Len(s.queue)))
    BY <1>1
  <1> HIDE DEF n, flushed
  <1> QED BY <1>3, <1>4, <1>5

\* What moves from the queue to what is drawn leaves the order as it is.
LEMMA Moves ==
    ASSUME NEW drawn \in Seq(OpType), NEW queue \in Seq(OpType), NEW n \in 0 .. Len(queue), NEW at \in Nat,
           Logged(drawn \o queue, at)
    PROVE  /\ SubSeq(queue, 1, n) \in Seq(OpType) /\ SubSeq(queue, n + 1, Len(queue)) \in Seq(OpType)
           /\ drawn \o SubSeq(queue, 1, n) \in Seq(OpType)
           /\ Logged((drawn \o SubSeq(queue, 1, n)) \o SubSeq(queue, n + 1, Len(queue)), at)
           /\ Single(queue) => Single(SubSeq(queue, n + 1, Len(queue)))
           /\ Current(queue, at) => Current(SubSeq(queue, n + 1, Len(queue)), at)
           /\ n = Len(queue) => SubSeq(queue, n + 1, Len(queue)) = <<>>
  <1> DEFINE front == SubSeq(queue, 1, n)
             rest == SubSeq(queue, n + 1, Len(queue))
             before == drawn \o front
             log == drawn \o queue
             other == before \o rest
  <1>1. Len(queue) \in Nat /\ n \in Nat /\ n <= Len(queue)
    BY LenProperties
  <1>2. front \in Seq(OpType) /\ Len(front) = n /\ \A j \in 1 .. n : front[j] = queue[j]
    BY <1>1, SubSeqProperties
  <1>3. rest \in Seq(OpType) /\ Len(rest) = Len(queue) - n /\ \A j \in 1 .. Len(queue) - n : rest[j] = queue[n + j]
    <2>1. CASE n < Len(queue)
      <3>1. n + 1 \in 1 .. Len(queue) /\ Len(queue) \in n .. Len(queue) /\ n + 1 - 1 = n
        BY <1>1, <2>1
      <3>2. rest \in Seq(OpType) /\ Len(rest) = Len(queue) - (n + 1) + 1
        BY <1>1, <2>1, SubSeqProperties
      <3>3. \A j \in 1 .. Len(queue) - (n + 1) + 1 : rest[j] = queue[n + 1 + j - 1]
        BY <1>1, <2>1, SubSeqProperties
      <3> HIDE DEF rest
      <3> QED BY <1>1, <2>1, <3>2, <3>3
    <2>2. CASE n = Len(queue)
      <3>1. rest = <<>>
        BY <1>1, <2>2, SubSeqProperties
      <3> HIDE DEF rest
      <3> QED BY <1>1, <2>2, <3>1, EmptySeq
    <2> QED BY <1>1, <2>1, <2>2
  <1>4. n = Len(queue) => rest = <<>>
    BY <1>1, SubSeqProperties
  <1> HIDE DEF front, rest
  <1>5. /\ before \in Seq(OpType) /\ Len(before) = Len(drawn) + n /\ Len(drawn) \in Nat
        /\ \A j \in 1 .. Len(drawn) + n : before[j] = IF j <= Len(drawn) THEN drawn[j] ELSE queue[j - Len(drawn)]
    <2>1. before \in Seq(OpType) /\ Len(before) = Len(drawn) + n /\ Len(drawn) \in Nat
      BY <1>2, JoinParts
    <2>2. \A j \in 1 .. Len(before) : before[j] = IF j <= Len(drawn) THEN drawn[j] ELSE front[j - Len(drawn)]
      BY <1>2, JoinParts
    <2> HIDE DEF before
    <2>3. \A j \in 1 .. Len(drawn) + n : ~(j <= Len(drawn)) => j - Len(drawn) \in 1 .. n
      BY <1>1, <2>1
    <2> QED BY <1>2, <2>1, <2>2, <2>3
  <1> HIDE DEF before
  <1>6. /\ Len(log) = Len(drawn) + Len(queue)
        /\ \A j \in 1 .. Len(log) : log[j] = IF j <= Len(drawn) THEN drawn[j] ELSE queue[j - Len(drawn)]
    BY JoinParts
  <1>7. /\ Len(other) = Len(before) + Len(rest)
        /\ \A j \in 1 .. Len(other) : other[j] = IF j <= Len(before) THEN before[j] ELSE rest[j - Len(before)]
    BY <1>3, <1>5, JoinParts
  <1> HIDE DEF log, other
  <1>8. Len(other) = Len(log)
    BY <1>1, <1>3, <1>5, <1>6, <1>7
  <1>9. \A j \in 1 .. Len(log) : other[j] = log[j]
    <2> TAKE j \in 1 .. Len(log)
    <2>1. j \in Nat /\ j >= 1 /\ j <= Len(drawn) + Len(queue)
      BY <1>1, <1>5, <1>6
    <2>2. CASE j <= Len(drawn) + n
      <3>1. j \in 1 .. Len(drawn) + n
        BY <1>1, <1>5, <2>1, <2>2
      <3>2. other[j] = before[j]
        BY <1>5, <1>7, <1>8, <2>2
      <3>3. before[j] = IF j <= Len(drawn) THEN drawn[j] ELSE queue[j - Len(drawn)]
        BY <1>5, <3>1
      <3> QED BY <1>6, <3>2, <3>3
    <2>3. CASE ~(j <= Len(drawn) + n)
      <3>1. j - (Len(drawn) + n) \in 1 .. Len(queue) - n /\ n + (j - (Len(drawn) + n)) = j - Len(drawn) /\ ~(j <= Len(drawn))
        BY <1>1, <1>5, <2>1, <2>3
      <3>2. other[j] = rest[j - (Len(drawn) + n)]
        BY <1>5, <1>7, <1>8, <2>3
      <3>3. rest[j - (Len(drawn) + n)] = queue[j - Len(drawn)]
        BY <1>3, <3>1
      <3> QED BY <1>6, <3>1, <3>2, <3>3
    <2> QED BY <2>2, <2>3
  <1>10. Logged(other, at)
    <2>1. Logged(log, at)
      BY DEF log
    <2> QED BY <1>8, <1>9, <2>1, LoggedAlike
  <1>11. (Single(queue) => Single(rest)) /\ (Current(queue, at) => Current(rest, at))
    <2>1. Len(rest) <= Len(queue) /\ Len(rest) \in Nat /\ n + Len(rest) <= Len(queue)
      BY <1>1, <1>3
    <2>2. \A j \in 1 .. Len(rest) : rest[j].d = queue[n + j].d /\ rest[j].p = queue[n + j].p
      BY <1>3
    <2> QED BY <1>1, <2>1, <2>2, SinglePart
  <1> QED BY <1>2, <1>3, <1>4, <1>5, <1>10, <1>11 DEF other, before, front, rest

LEMMA PictureLoadedStep ==
    ASSUME IInv, PictureLoaded
    PROVE  IInv'
  <1>1. Stream /\ Pending /\ Depends /\ Good(c) /\ ~c.run /\ ~c.flushed
        /\ sent' = sent /\ todo' = todo /\ sends' = sends /\ arrived' = arrived
    BY DEF IInv, PictureLoaded, idle
  <1>2. /\ c \in Client /\ c.at \in Nat /\ arrived \in Nat /\ c.at <= arrived /\ arrived <= Len(sent)
        /\ Len(sent) \in Nat /\ Whole(c, c.at)
    BY <1>1, GoodParts
  <1>3. Stream' /\ Grows
    BY <1>1, <1>2, StreamStays
  <1>4. PICK n \in 0 .. Len(c.queue), flushed \in BOOLEAN :
          /\ ScanRenderQ(c) = SetScanned(c, SubSeq(c.queue, n + 1, Len(c.queue)), c.drawn \o SubSeq(c.queue, 1, n), flushed)
          /\ flushed => c.flushed \/ (c.flushing /\ n = Len(c.queue))
    BY <1>2, ScanFacts
  <1> DEFINE queue == SubSeq(c.queue, n + 1, Len(c.queue))
             drawn == c.drawn \o SubSeq(c.queue, 1, n)
  <1>5. c.queue \in Seq(OpType) /\ c.drawn \in Seq(OpType)
    BY <1>2, ClientParts
  <1>6. Logged(c.drawn \o c.queue, c.at) /\ Single(c.queue)
    BY <1>2 DEF Whole, Core
  <1>7. /\ queue \in Seq(OpType) /\ drawn \in Seq(OpType) /\ Logged(drawn \o queue, c.at) /\ Single(queue)
        /\ Current(c.queue, c.at) => Current(queue, c.at)
        /\ n = Len(c.queue) => queue = <<>>
    BY <1>2, <1>5, <1>6, Moves
  <1>8. c' = SetScanned(c, queue, drawn, flushed) /\ (flushed => c.flushing /\ queue = <<>>)
    BY <1>1, <1>4, <1>7 DEF PictureLoaded
  <1> HIDE DEF queue, drawn
  <1>9. c' \in Client /\ Same(c, c', {"queue", "drawn", "flushed"}) /\ c'.queue = queue /\ c'.drawn = drawn /\ c'.flushed = flushed
    BY <1>2, <1>7, <1>8, SetScannedFacts
  <1>10. c'.flushing = c.flushing /\ c'.run = c.run /\ c'.viewOnly = c.viewOnly
    BY <1>9 DEF Same, Fields
  <1>11. Whole(c', c.at)
    BY <1>2, <1>7, <1>9, WholeAlike
  <1>12. Same(c, c', {"run", "fresh", "asked", "said", "pasted", "text", "queue", "drawn", "flushed"})
    BY <1>9, SameMore
  <1>13. Good(c)'
    BY <1>1, <1>3, <1>7, <1>8, <1>9, <1>10, <1>11, <1>12, GoodTouched
  <1> QED BY <1>1, <1>3, <1>10, <1>13, PendingStays, DependsStays DEF IInv

LEMMA ClipboardPasteFromStep ==
    ASSUME IInv, ClipboardPasteFrom
    PROVE  IInv'
  <1>1. Stream /\ Pending /\ Depends /\ Good(c) /\ ~c.run /\ ~c.flushed /\ ~c.viewOnly
        /\ sent' = sent /\ todo' = todo /\ sends' = sends /\ arrived' = arrived
    BY DEF IInv, ClipboardPasteFrom, idle
  <1>2. /\ c \in Client /\ c.at \in Nat /\ arrived \in Nat /\ c.at <= arrived /\ arrived <= Len(sent)
        /\ Len(sent) \in Nat /\ Whole(c, c.at)
    BY <1>1, GoodParts
  <1>3. Stream' /\ Grows
    BY <1>1, <1>2, StreamStays
  <1>4. c' \in Client /\ Same(c, c', {"said", "pasted", "text"}) /\ Whole(c', c.at)
    <2> DEFINE yes == TRUE
               s == Say(c, "notify")
               t == Say(c, "cuttext")
    <2>1. c' = IF "notify" \in c.caps THEN SetPasted(s, yes, yes) ELSE SetPastedOnly(t, yes)
      BY Zenon DEF ClipboardPasteFrom, SetPasted, SetPastedOnly
    <2>2. yes \in BOOLEAN
      OBVIOUS
    <2>3. s \in Client /\ Same(c, s, {"said"}) /\ Whole(s, c.at)
      BY <1>1, <1>2, SayFacts DEF Words
    <2>4. t \in Client /\ Same(c, t, {"said"}) /\ Whole(t, c.at)
      BY <1>1, <1>2, SayFacts DEF Words
    <2> HIDE DEF s, t, yes
    <2>5. SetPasted(s, yes, yes) \in Client /\ Same(s, SetPasted(s, yes, yes), {"pasted", "text"})
      BY <2>2, <2>3, SetPastedFacts
    <2>6. SetPastedOnly(t, yes) \in Client /\ Same(t, SetPastedOnly(t, yes), {"pasted"})
      BY <2>2, <2>4, SetPastedOnlyFacts
    <2> DEFINE u == SetPasted(s, yes, yes)
               v == SetPastedOnly(t, yes)
    <2> HIDE DEF u, v
    <2>7. CASE "notify" \in c.caps
      <3>1. u \in Client /\ Same(s, u, {"pasted", "text"}) /\ c' = u
        BY <2>1, <2>5, <2>7 DEF u
      <3>2. Same(c, u, {"said"} \cup {"pasted", "text"})
        BY <2>3, <3>1, SameTrans
      <3>3. Same(s, u, {"flushing", "flushed", "rects", "enc", "n"} \cup Loose)
        BY <3>1 DEF Same, Loose
      <3>4. Whole(u, c.at)
        BY <2>3, <3>1, <3>3, WholeLoose
      <3> QED BY <3>1, <3>2, <3>4 DEF Same
    <2>8. CASE "notify" \notin c.caps
      <3>1. v \in Client /\ Same(t, v, {"pasted"}) /\ c' = v
        BY <2>1, <2>6, <2>8 DEF v
      <3>2. Same(c, v, {"said"} \cup {"pasted"})
        BY <2>4, <3>1, SameTrans
      <3>3. Same(t, v, {"flushing", "flushed", "rects", "enc", "n"} \cup Loose)
        BY <3>1 DEF Same, Loose
      <3>4. Whole(v, c.at)
        BY <2>4, <3>1, <3>3, WholeLoose
      <3> QED BY <3>1, <3>2, <3>4 DEF Same
    <2> QED BY <2>7, <2>8
  <1>5. c'.queue = c.queue /\ c'.flushed = c.flushed /\ c'.run = c.run /\ c'.viewOnly = c.viewOnly
    BY <1>4 DEF Same, Fields
  <1>6. Same(c, c', {"run", "fresh", "asked", "said", "pasted", "text", "queue", "drawn", "flushed"})
    BY <1>4, SameMore
  <1>7. Good(c)'
    BY <1>1, <1>3, <1>4, <1>5, <1>6, GoodTouched
  <1> QED BY <1>1, <1>3, <1>5, <1>7, PendingStays, DependsStays DEF IInv

----------------------------------------------------------------------------
(***************************************************************************)
(* The steps of the server.                                                *)
(***************************************************************************)

\* A part that was begun was sent as a whole.
LEMMA KeySent ==
    ASSUME Stream, NEW p \in 1 .. Len(sent), sent[p].part = "key"
    PROVE  Keys # {}
  <1>1. sent[p].i \in Nat /\ sent[p].i >= 1 /\ sent[p].i <= Size("key") /\ Size("key") = 3
    BY StreamParts, KeyPart
  <1> DEFINE k == 3 - sent[p].i
  <1>2. k \in 0 .. 4 /\ sent[p].i + k = 3
    BY <1>1
  <1> HIDE DEF k
  <1>3. sent[p].i + k <= Size(sent[p].part)
    BY <1>1, <1>2
  <1>4. Inside(p, k)
    BY <1>2, <1>3, InsideFacts
  <1>5. p + k \in 1 .. Len(sent) /\ sent[p + k].part = "key" /\ sent[p + k].i = 3
    BY <1>2, <1>4 DEF Inside
  <1>6. Closes(p + k)
    BY <1>1, <1>5 DEF Closes
  <1> QED BY <1>5, <1>6 DEF Keys

\* What the server is about to write.
LEMMA AnnouncedFacts ==
    ASSUME NEW m \in Seq(Rects), m # <<>>
    PROVE  LET q == <<"header">> \o m
           IN  /\ q \in Seq(Parts) /\ Len(q) = Len(m) + 1 /\ Len(m) \in Nat /\ Len(m) > 0 /\ q[1] = "header"
               /\ \A i \in 2 .. Len(q) : i - 1 \in 1 .. Len(m) /\ q[i] = m[i - 1] /\ q[i] \in Rects
  <1> DEFINE q == <<"header">> \o m
  <1>1. m \in Seq(Parts) /\ <<"header">> \in Seq(Parts) /\ Len(<<"header">>) = 1 /\ <<"header">>[1] = "header"
    BY DEF Parts
  <1>2. Len(m) \in Nat /\ Len(m) > 0
    BY EmptySeq, LenProperties
  <1>3. /\ q \in Seq(Parts) /\ Len(q) = 1 + Len(m)
        /\ \A i \in 1 .. 1 + Len(m) : q[i] = IF i <= 1 THEN <<"header">>[i] ELSE m[i - 1]
    BY <1>1, ConcatProperties
  <1> HIDE DEF q
  <1>4. q[1] = "header"
    BY <1>1, <1>2, <1>3
  <1>5. \A i \in 2 .. Len(q) : i - 1 \in 1 .. Len(m) /\ q[i] = m[i - 1]
    BY <1>2, <1>3
  <1>6. \A i \in 1 .. Len(m) : m[i] \in Rects
    BY ElementOfSeq
  <1>7. \A i \in 2 .. Len(q) : q[i] \in Rects
    BY <1>5, <1>6
  <1> QED BY <1>2, <1>3, <1>4, <1>5, <1>7 DEF q

LEMMA ServerSendsStep ==
    ASSUME IInv, NEW m \in Messages, ServerSends(m)
    PROVE  IInv'
  <1>1. Stream /\ Pending /\ Depends /\ Good(c) /\ ~c.run /\ Legal(m) /\ todo = <<>>
        /\ sent' = sent /\ arrived' = arrived
        /\ todo' = IF IsUpdate(m) THEN <<"header">> \o m ELSE m
    BY DEF IInv, ServerSends
  <1>2. /\ c \in Client /\ c.at \in Nat /\ arrived \in Nat /\ c.at <= arrived /\ arrived <= Len(sent)
        /\ Len(sent) \in Nat /\ Whole(c, c.at)
        /\ c.flushed => c.flushing /\ c.queue = <<>> /\ c.rects > 0
    BY <1>1, GoodParts
  <1>3. Stream' /\ Grows
    BY <1>1, <1>2, StreamStays
  <1>4. c' \in Client /\ Same(c, c', {"asked"})
    <2> DEFINE asked == c.asked /\ (~IsUpdate(m) \/ c.cont)
    <2>1. c' = SetAsked(c, asked)
      BY Zenon DEF ServerSends, SetAsked
    <2>2. asked \in BOOLEAN
      BY <1>2, ClientParts
    <2> HIDE DEF asked
    <2> QED BY <1>2, <2>1, <2>2, SetAskedFacts
  <1>5. c'.queue = c.queue /\ c'.flushed = c.flushed /\ c'.flushing = c.flushing /\ c'.run = c.run /\ c'.viewOnly = c.viewOnly
    BY <1>4 DEF Same, Fields
  <1>6. Good(c)'
    <2>1. Same(c, c', {"run", "fresh", "asked", "said", "pasted", "text", "queue", "drawn", "flushed"})
      BY <1>4, SameMore
    <2>2. Same(c, c', {"flushing", "flushed", "rects", "enc", "n"} \cup Loose)
      BY <1>4 DEF Same, Loose
    <2>3. Whole(c', c.at)
      BY <1>2, <1>4, <2>2, WholeLoose
    <2> QED BY <1>1, <1>2, <1>3, <1>5, <2>1, <2>3, GoodTouched
  <1>7. m \in Seq(Rects) \cup Seq(NoUpdates) /\ m # <<>> /\ \A i \in 1 .. Len(m) - 1 : m[i] # "last"
    BY MessagesAssumption
  <1>8. Ended /\ (Ended <=> Ended')
    BY <1>1 DEF Pending, Ended, Ends, Closes
  <1>9. c.viewOnly => \A i \in 1 .. Len(m) : m[i] # "provide"
    <2>1. c.viewOnly => ~Contains(c.said, "request")
      BY <1>2 DEF Whole, Core
    <2>2. \A i \in 1 .. Len(m) : m[i] = "provide" => Contains(c.said, "request")
      BY <1>1 DEF Legal
    <2> QED BY <2>1, <2>2
  <1>10. \A i \in 1 .. Len(m) : m[i] = "delta" => Keys # {} \/ \E j \in 1 .. i - 1 : m[j] = "key"
    BY <1>1, KeySent DEF Legal
  <1>11. Keys' = Keys
    BY <1>1 DEF Keys, Closes
  <1>a. sends' \in 0 .. MaxMessages
    <2>1. sends \in 0 .. MaxMessages /\ sends < MaxMessages /\ sends' = sends + 1
      BY DEF IInv, ServerSends
    <2> QED BY <2>1, MaxMessagesAssumption
  <1>12. CASE m \in Seq(Rects)
    <2> DEFINE q == <<"header">> \o m
    <2>1. IsUpdate(m)
      BY <1>7, <1>12, HeadTailProperties DEF IsUpdate
    <2>2. todo' = q
      BY <1>1, <2>1
    <2>3. /\ q \in Seq(Parts) /\ Len(q) = Len(m) + 1 /\ Len(m) \in Nat /\ Len(m) > 0 /\ q[1] = "header"
          /\ \A i \in 2 .. Len(q) : i - 1 \in 1 .. Len(m) /\ q[i] = m[i - 1] /\ q[i] \in Rects
      BY <1>7, <1>12, AnnouncedFacts
    <2> HIDE DEF q
    <2>4. \A i \in 1 .. Len(q) - 1 : q[i] # "last"
      <3> TAKE i \in 1 .. Len(q) - 1
      <3>1. CASE i = 1
        BY <2>3, <3>1
      <3>2. CASE i > 1
        <4>1. i \in 2 .. Len(q) /\ i - 1 \in 1 .. Len(m) - 1
          BY <2>3, <3>2
        <4> QED BY <1>7, <2>3, <4>1
      <3> QED BY <2>3, <3>1, <3>2
    <2>5. Pending'
      <3>1. Len(q) > 1
        BY <2>3
      <3> QED BY <1>8, <2>2, <2>3, <2>4, <3>1 DEF Pending
    <2>6. \A i \in 1 .. Len(q) : q[i] = "delta" => Keys # {} \/ \E j \in 1 .. i - 1 : q[j] = "key"
      <3> SUFFICES ASSUME NEW i \in 1 .. Len(q), q[i] = "delta", Keys = {}
                   PROVE  \E j \in 1 .. i - 1 : q[j] = "key"
        OBVIOUS
      <3>1. i \in 2 .. Len(q)
        BY <2>3
      <3>2. i - 1 \in 1 .. Len(m) /\ m[i - 1] = "delta"
        BY <2>3, <3>1
      <3>3. PICK j \in 1 .. (i - 1) - 1 : m[j] = "key"
        BY <1>10, <3>2
      <3>4. j + 1 \in 2 .. Len(q) /\ (j + 1) - 1 = j /\ j + 1 \in 1 .. i - 1
        BY <2>3, <3>1, <3>2
      <3>5. q[j + 1] = "key"
        BY <2>3, <3>3, <3>4
      <3> QED BY <3>4, <3>5
    <2>7. c.viewOnly => \A i \in 1 .. Len(q) : q[i] # "provide"
      <3>1. \A i \in 1 .. Len(q) : i = 1 \/ i \in 2 .. Len(q)
        BY <2>3
      <3> QED BY <1>9, <2>3, <3>1
    <2>8. Depends'
      BY <1>1, <1>5, <1>11, <2>2, <2>6, <2>7 DEF Depends
    <2> QED BY <1>a, <1>3, <1>6, <2>5, <2>8 DEF IInv
  <1>13. CASE m \in Seq(NoUpdates)
    <2>1. \A i \in 1 .. Len(m) : m[i] \in NoUpdates
      BY <1>13, ElementOfSeq
    <2>2. ~IsUpdate(m)
      BY <1>7, <1>13, HeadTailProperties, PartKinds DEF IsUpdate
    <2>3. todo' = m
      BY <1>1, <2>2
    <2>4. m \in Seq(Parts)
      BY <1>13 DEF Parts
    <2>5. Pending'
      BY <1>7, <1>8, <2>1, <2>3, <2>4 DEF Pending
    <2>6. Depends'
      BY <1>1, <1>5, <1>9, <1>10, <1>11, <2>3 DEF Depends
    <2> QED BY <1>a, <1>3, <1>6, <2>5, <2>6 DEF IInv
  <1> QED BY <1>7, <1>12, <1>13

\* What was sent, and the part that is written.
LEMMA WrittenFacts ==
    ASSUME Stream, NEW h \in Parts, NEW left \in Nat, sent' = sent \o Tokens(h, left)
    PROVE  /\ sent' \in Seq(Items) /\ Len(sent) \in Nat /\ Size(h) \in Nat /\ Size(h) >= 1
           /\ Len(sent') = Len(sent) + Size(h)
           /\ \A p \in 1 .. Len(sent) : p \in 1 .. Len(sent') /\ sent'[p] = sent[p]
           /\ \A p \in 1 .. Len(sent') : ~(p <= Len(sent)) =>
                /\ p - Len(sent) \in 1 .. Size(h)
                /\ sent'[p].part = h /\ sent'[p].i = p - Len(sent) /\ sent'[p].left = left
  <1> DEFINE more == Tokens(h, left)
  <1>1. sent \in Seq(Items) /\ Len(sent) \in Nat /\ Size(h) \in Nat /\ Size(h) >= 1
    BY SizeFacts, LenProperties DEF Stream
  <1>2. more = [i \in 1 .. Size(h) |-> [part |-> h, i |-> i, left |-> left]]
    BY DEF Tokens
  <1>3. \A i \in 1 .. Size(h) : [part |-> h, i |-> i, left |-> left] \in Items
    BY <1>1 DEF Items
  <1> HIDE DEF more
  <1>4. more \in Seq(Items) /\ Len(more) = Size(h)
    BY <1>1, <1>2, <1>3, SMTT(30)
  <1>5. \A i \in 1 .. Size(h) : more[i].part = h /\ more[i].i = i /\ more[i].left = left
    BY <1>2
  <1> DEFINE all == sent \o more
  <1>6. sent' = all
    BY DEF more
  <1>a. /\ all \in Seq(Items) /\ Len(all) = Len(sent) + Len(more)
        /\ \A p \in 1 .. Len(sent) + Len(more) : all[p] = IF p <= Len(sent) THEN sent[p] ELSE more[p - Len(sent)]
    BY <1>1, <1>4, ConcatProperties
  <1> HIDE DEF all
  <1>7. /\ sent' \in Seq(Items) /\ Len(sent') = Len(sent) + Size(h)
        /\ \A p \in 1 .. Len(sent) + Size(h) : sent'[p] = IF p <= Len(sent) THEN sent[p] ELSE more[p - Len(sent)]
    BY <1>4, <1>6, <1>a
  <1>8. \A p \in 1 .. Len(sent) : p \in 1 .. Len(sent') /\ sent'[p] = sent[p]
    BY <1>1, <1>7
  <1>9. \A p \in 1 .. Len(sent') : ~(p <= Len(sent)) =>
                /\ p - Len(sent) \in 1 .. Size(h)
                /\ sent'[p].part = h /\ sent'[p].i = p - Len(sent) /\ sent'[p].left = left
    <2> SUFFICES ASSUME NEW p \in 1 .. Len(sent'), ~(p <= Len(sent))
                 PROVE  /\ p - Len(sent) \in 1 .. Size(h)
                        /\ sent'[p].part = h /\ sent'[p].i = p - Len(sent) /\ sent'[p].left = left
      OBVIOUS
    <2>1. p - Len(sent) \in 1 .. Size(h)
      BY <1>1, <1>7
    <2>2. sent'[p] = more[p - Len(sent)]
      BY <1>7
    <2> QED BY <1>5, <2>1, <2>2
  <1> QED BY <1>1, <1>7, <1>8, <1>9

\* What is written continues what was sent.
LEMMA WrittenStream ==
    ASSUME Stream, Grows, NEW h \in Parts, NEW left \in Nat, sent' = sent \o Tokens(h, left),
           Ended => h \in {"header"} \cup NoUpdates,
           ~Ended => h \in Rects /\ left = sent[Len(sent)].left - 1,
           h = "header" => left >= 1, h \in NoUpdates => left = 0
    PROVE  Stream' /\ Closes(Len(sent))'
  <1>1. /\ sent' \in Seq(Items) /\ Len(sent) \in Nat /\ Size(h) \in Nat /\ Size(h) >= 1
        /\ Len(sent') = Len(sent) + Size(h) /\ Len(sent') \in Nat
        /\ \A p \in 1 .. Len(sent) : p \in 1 .. Len(sent') /\ sent'[p] = sent[p]
        /\ \A p \in 1 .. Len(sent') : ~(p <= Len(sent)) =>
             /\ p - Len(sent) \in 1 .. Size(h)
             /\ sent'[p].part = h /\ sent'[p].i = p - Len(sent) /\ sent'[p].left = left
    BY WrittenFacts
  <1>2. \A p \in 1 .. Len(sent) : Closes(p)' = Closes(p) /\ (p \in Ends' <=> p \in Ends)
    BY SentGrows
  <1>3. \A p \in 1 .. Len(sent') : p \in 1 .. Len(sent) \/ ~(p <= Len(sent))
    BY <1>1
  <1>4. \A p \in 1 .. Len(sent') : /\ sent'[p].i \in 1 .. Size(sent'[p].part)
                                   /\ sent'[p].part = "header" => sent'[p].left >= 1
                                   /\ sent'[p].part \in NoUpdates => sent'[p].left = 0
    <2> TAKE p \in 1 .. Len(sent')
    <2>1. CASE p \in 1 .. Len(sent)
      BY <1>1, <2>1 DEF Stream
    <2>2. CASE ~(p <= Len(sent))
      BY <1>1, <2>2
    <2> QED BY <1>3, <2>1, <2>2
  <1>5. sent' # <<>> /\ Len(sent') \in 1 .. Len(sent') /\ Closes(Len(sent))'
    <2>1. Len(sent') \in 1 .. Len(sent') /\ ~(Len(sent') <= Len(sent)) /\ Len(sent') - Len(sent) = Size(h)
      BY <1>1
    <2>2. sent'[Len(sent')].part = h /\ sent'[Len(sent')].i = Size(h)
      BY <1>1, <2>1
    <2> QED BY <1>1, <2>1, <2>2, EmptySeq DEF Closes
  <1>6. Begins(sent'[1])
    <2>1. CASE sent = <<>>
      <3>1. Len(sent) = 0 /\ h \in {"header"} \cup NoUpdates
        BY <2>1, EmptySeq DEF Ended
      <3>2. 1 \in 1 .. Len(sent') /\ ~(1 <= Len(sent)) /\ 1 - Len(sent) = 1
        BY <1>1, <3>1
      <3> QED BY <1>1, <3>1, <3>2 DEF Begins
    <2>2. CASE sent # <<>>
      <3>1. 1 \in 1 .. Len(sent)
        BY <1>1, <2>2, EmptySeq DEF Stream
      <3> QED BY <1>1, <2>2, <3>1 DEF Stream
    <2> QED BY <2>1, <2>2
  <1>7. \A p \in 1 .. Len(sent') - 1 :
          IF ~Closes(p)' THEN sent'[p + 1] = [part |-> sent'[p].part, i |-> sent'[p].i + 1, left |-> sent'[p].left]
          ELSE IF p \in Ends' THEN Begins(sent'[p + 1])
          ELSE Continues(sent'[p + 1], sent'[p].left - 1)
    <2> TAKE p \in 1 .. Len(sent') - 1
    <2>0. Len(sent) \in Nat /\ Len(sent') \in Nat /\ Size(h) \in Nat /\ Len(sent') = Len(sent) + Size(h)
      BY <1>1
    <2>1. p \in Nat /\ p \in 1 .. Len(sent') /\ p + 1 \in 1 .. Len(sent')
      BY <2>0
    <2>2. CASE p < Len(sent)
      <3>1. p \in 1 .. Len(sent) /\ p + 1 \in 1 .. Len(sent) /\ p \in 1 .. Len(sent) - 1
        BY <2>0, <2>1, <2>2
      <3>2. Follows(p, p + 1)
        BY <3>1 DEF Stream
      <3>3. sent'[p] = sent[p] /\ sent'[p + 1] = sent[p + 1]
        BY <1>1, <3>1
      <3> QED BY <1>2, <3>1, <3>2, <3>3 DEF Follows
    <2>3. CASE p = Len(sent)
      <3>1. p \in 1 .. Len(sent) /\ sent'[p] = sent[p] /\ sent # <<>>
        <4>1. p \in 1 .. Len(sent) /\ Len(sent) # 0
          BY <2>0, <2>1, <2>3
        <4> QED BY <1>1, <4>1, EmptySeq
      <3>2. Closes(p)' /\ (p \in Ends' <=> Ended)
        BY <1>2, <2>3, <3>1 DEF Stream, Ended
      <3>3. p + 1 - Len(sent) = 1 /\ ~(p + 1 <= Len(sent))
        BY <2>0, <2>3
      <3>4. sent'[p + 1].part = h /\ sent'[p + 1].i = 1 /\ sent'[p + 1].left = left
        BY <1>1, <2>1, <3>3, SMTT(30)
      <3> QED BY <2>3, <3>1, <3>2, <3>4 DEF Begins, Continues
    <2>4. CASE p > Len(sent)
      <3>1. ~(p <= Len(sent)) /\ ~(p + 1 <= Len(sent)) /\ p + 1 - Len(sent) = (p - Len(sent)) + 1 /\ p - Len(sent) < Size(h)
        BY <2>0, <2>1, <2>4
      <3>2. sent'[p].part = h /\ sent'[p].i = p - Len(sent) /\ sent'[p].left = left
        BY <1>1, <2>1, <3>1
      <3>3. sent'[p + 1].part = h /\ sent'[p + 1].i = (p - Len(sent)) + 1 /\ sent'[p + 1].left = left
        <4>1. sent'[p + 1].part = h /\ sent'[p + 1].i = p + 1 - Len(sent) /\ sent'[p + 1].left = left
          BY <1>1, <2>1, <3>1
        <4> QED BY <3>1, <4>1
      <3>4. ~Closes(p)'
        BY <1>1, <3>1, <3>2 DEF Closes
      <3>5. sent'[p + 1] \in Items
        BY <1>1, <2>1, ElementOfSeq
      <3>6. sent'[p + 1] = [part |-> h, i |-> (p - Len(sent)) + 1, left |-> left]
        BY <3>3, <3>5 DEF Items
      <3> QED BY <3>2, <3>4, <3>6
    <2>5. p < Len(sent) \/ p = Len(sent) \/ p > Len(sent)
      BY <2>0, <2>1
    <2> QED BY Zenon, <2>2, <2>3, <2>4, <2>5
  <1>8. \A p \in 1 .. Len(sent') - 1 : Follows(p, p + 1)'
    BY <1>7 DEF Follows
  <1> QED BY <1>1, <1>4, <1>5, <1>6, <1>8 DEF Stream

LEMMA ServerWritesStep ==
    ASSUME IInv, ServerWrites
    PROVE  IInv'
  <1> DEFINE h == Head(todo)
             left == IF h \in NoUpdates THEN 0 ELSE IF Last(todo) = "last" THEN Len(todo) ELSE Len(todo) - 1
  <1>1. /\ Stream /\ Pending /\ Depends /\ Good(c) /\ todo # <<>>
        /\ sent' = sent \o Tokens(h, left) /\ todo' = Tail(todo)
        /\ sends' = sends /\ arrived' = arrived /\ c' = c
    BY DEF IInv, ServerWrites
  <1>2. /\ todo \in Seq(Parts) /\ Len(todo) \in Nat /\ Len(todo) >= 1 /\ h = todo[1] /\ h \in Parts
        /\ todo' \in Seq(Parts) /\ Len(todo') = Len(todo) - 1
        /\ \A i \in 1 .. Len(todo') : todo'[i] = todo[i + 1]
    BY <1>1, HeadTailProperties, EmptySeq, LenProperties DEF Pending
  <1>3. /\ left \in Nat /\ (h \in NoUpdates => left = 0) /\ Remaining \in Nat
        /\ h \notin NoUpdates => left = Remaining - 1
    BY <1>2 DEF Remaining
  <1>4. Len(todo) > 1 => h # "last" /\ Last(todo') = Last(todo) /\ todo' # <<>>
    <2> SUFFICES ASSUME Len(todo) > 1
                 PROVE  h # "last" /\ Last(todo') = Last(todo) /\ todo' # <<>>
      OBVIOUS
    <2>1. 1 \in 1 .. Len(todo) - 1 /\ Len(todo') \in 1 .. Len(todo') /\ Len(todo') + 1 = Len(todo)
      BY <1>2
    <2>2. h # "last"
      BY <1>1, <1>2, <2>1 DEF Pending
    <2>3. todo'[Len(todo')] = todo[Len(todo)]
      BY <1>2, <2>1
    <2>4. todo' # <<>>
      BY <2>1, EmptySeq
    <2> QED BY <2>2, <2>3, <2>4 DEF Last
  <1>5. Len(todo) = 1 => Last(todo) = h /\ todo' = <<>>
    BY <1>2, EmptySeq DEF Last
  <1>6. Remaining = IF Last(todo) = "last" THEN Len(todo) + 1 ELSE Len(todo)
    BY DEF Remaining
  <1> HIDE DEF left, h
  <1>7. /\ sent' \in Seq(Items) /\ Len(sent) \in Nat /\ Size(h) \in Nat /\ Size(h) >= 1
        /\ Len(sent') = Len(sent) + Size(h) /\ Len(sent') \in Nat
        /\ \A p \in 1 .. Len(sent) : p \in 1 .. Len(sent') /\ sent'[p] = sent[p]
        /\ \A p \in 1 .. Len(sent') : ~(p <= Len(sent)) =>
             /\ p - Len(sent) \in 1 .. Size(h)
             /\ sent'[p].part = h /\ sent'[p].i = p - Len(sent) /\ sent'[p].left = left
    <2>1. Stream /\ h \in Parts /\ left \in Nat /\ sent' = sent \o Tokens(h, left)
      BY <1>1, <1>2, <1>3
    <2>2. /\ sent' \in Seq(Items) /\ Len(sent) \in Nat /\ Size(h) \in Nat /\ Size(h) >= 1
          /\ Len(sent') = Len(sent) + Size(h)
          /\ \A p \in 1 .. Len(sent) : p \in 1 .. Len(sent') /\ sent'[p] = sent[p]
          /\ \A p \in 1 .. Len(sent') : ~(p <= Len(sent)) =>
               /\ p - Len(sent) \in 1 .. Size(h)
               /\ sent'[p].part = h /\ sent'[p].i = p - Len(sent) /\ sent'[p].left = left
      BY Zenon, <2>1, WrittenFacts
    <2>3. Len(sent') \in Nat
      BY <2>2, LenProperties
    <2> QED BY <2>2, <2>3
  <1>8. /\ c \in Client /\ c.at \in Nat /\ arrived \in Nat /\ c.at <= arrived /\ arrived <= Len(sent)
        /\ (Between(c) \/ Within(c)) /\ (c.rects = 0 /\ c.run => c.at < arrived)
    BY <1>1, GoodParts
  <1>9. Grows
    BY <1>1, <1>7, <1>8 DEF Grows
  <1>10. Good(c)'
    <2>1. (Between(c') \/ Within(c')) /\ (c'.rects = 0 /\ c'.run => c'.at < arrived')
      BY Zenon, <1>1, <1>8
    <2> QED BY <1>1, <1>9, <2>1, GoodGrows
  <1>11. /\ Ended => h \in {"header"} \cup NoUpdates
         /\ ~Ended => h \in Rects /\ sent[Len(sent)].left = Remaining
         /\ h \in Rects => ~Ended
    BY <1>1, <1>2, PartKinds DEF Pending
  <1>12. h = "header" => left >= 1 /\ Len(todo) > 1 /\ h \notin NoUpdates
    <2> SUFFICES ASSUME h = "header" PROVE left >= 1 /\ Len(todo) > 1 /\ h \notin NoUpdates
      OBVIOUS
    <2>1. h \notin NoUpdates /\ h \notin Rects /\ 1 \in 1 .. Len(todo)
      BY <1>2, PartKinds
    <2>2. Ended
      BY <1>11, <2>1
    <2>3. Len(todo) > 1
      BY <1>1, <1>2, <2>1, <2>2 DEF Pending
    <2> QED BY <1>2, <1>3, <1>6, <2>1, <2>3
  <1>13. ~Ended => h \notin NoUpdates /\ left = sent[Len(sent)].left - 1
    BY <1>3, <1>11, PartKinds
  <1>14. Stream'
    BY <1>1, <1>2, <1>3, <1>9, <1>11, <1>12, <1>13, WrittenStream
  <1> DEFINE N == Len(sent')
  <1>15. N \in 1 .. N /\ sent'[N].part = h /\ sent'[N].i = Size(h) /\ sent'[N].left = left /\ sent' # <<>> /\ N > Len(sent)
    <2>1. N \in 1 .. N /\ ~(N <= Len(sent)) /\ N - Len(sent) = Size(h)
      BY <1>7
    <2> QED BY <1>7, <2>1, EmptySeq
  <1>16. Ended' <=> (left = 0 \/ h = "last")
    <2>1. N \in Ends' <=> (left = 0 \/ h = "last")
      BY <1>15 DEF Ends, Closes
    <2> QED BY <1>15, <2>1 DEF Ended
  <1>17. Pending'
    <2>1. \A i \in 1 .. Len(todo') - 1 : todo'[i] # "last"
      <3>1. \A i \in 1 .. Len(todo') - 1 : i \in 1 .. Len(todo') /\ i + 1 \in 1 .. Len(todo) - 1
        BY <1>2
      <3> QED BY <1>1, <1>2, <3>1 DEF Pending
    <2>2. CASE h \in NoUpdates
      <3>1. Ended /\ h \notin Rects /\ h # "header"
        BY <1>11, <2>2, PartKinds
      <3>2. \A i \in 1 .. Len(todo) : todo[i] \in NoUpdates
        BY <1>1, <1>2, <3>1 DEF Pending
      <3>3. \A i \in 1 .. Len(todo') : i + 1 \in 1 .. Len(todo)
        BY <1>2
      <3>4. \A i \in 1 .. Len(todo') : todo'[i] \in NoUpdates
        BY <1>2, <3>2, <3>3
      <3>5. Ended'
        BY <1>3, <1>16, <2>2
      <3> QED BY <1>2, <2>1, <3>4, <3>5 DEF Pending
    <2>3. CASE h \notin NoUpdates /\ Len(todo) > 1
      <3>1. \A i \in 2 .. Len(todo) : todo[i] \in Rects
        <4>1. CASE Ended
          BY <1>1, <1>2, <2>3, <4>1 DEF Pending
        <4>2. CASE ~Ended
          <5>1. \A i \in 2 .. Len(todo) : i \in 1 .. Len(todo)
            BY <1>2
          <5> QED BY <1>1, <4>2, <5>1 DEF Pending
        <4> QED BY <4>1, <4>2
      <3>2. \A i \in 1 .. Len(todo') : i + 1 \in 2 .. Len(todo)
        BY <1>2
      <3>3. \A i \in 1 .. Len(todo') : todo'[i] \in Rects
        BY <1>2, <3>1, <3>2
      <3>4. todo' # <<>> /\ Last(todo') = Last(todo) /\ h # "last"
        BY <1>4, <2>3
      <3>5. Remaining' = left /\ left # 0
        <4>1. Remaining' = IF Last(todo') = "last" THEN Len(todo') + 1 ELSE Len(todo')
          BY DEF Remaining
        <4>2. left = Remaining - 1
          BY <1>3, <2>3
        <4> QED BY <1>2, <1>6, <2>3, <3>4, <4>1, <4>2
      <3>6. ~Ended'
        BY <1>16, <3>4, <3>5
      <3> QED BY <1>2, <1>15, <2>1, <3>3, <3>4, <3>5, <3>6 DEF Pending
    <2>4. CASE h \notin NoUpdates /\ Len(todo) = 1
      <3>1. todo' = <<>> /\ Last(todo) = h /\ Len(todo') = 0
        BY <1>2, <1>5, <2>4
      <3>2. left = 0 \/ h = "last"
        BY <1>3, <1>6, <2>4, <3>1
      <3>3. Ended'
        BY <1>16, <3>2
      <3>4. \A i \in 1 .. Len(todo') : FALSE
        BY <3>1
      <3>5. \A i \in 1 .. Len(todo') - 1 : FALSE
        BY <3>1
      <3> QED BY <1>2, <3>3, <3>4, <3>5 DEF Pending
    <2>5. Len(todo) > 1 \/ Len(todo) = 1
      BY <1>2
    <2> QED BY <2>2, <2>3, <2>4, <2>5
  <1>18. Depends'
    <2>1. \A p \in Keys : p \in Keys' /\ p \in Nat /\ p <= Len(sent)
      BY <1>1, <1>7, <1>9, SentGrows DEF Keys
    <2>2. \A p \in 1 .. Len(sent') : p \in 1 .. Len(sent) \/ (~(p <= Len(sent)) /\ p > Len(sent) /\ sent'[p].part = h)
      BY <1>7
    <2>3. 1 \in 1 .. Len(todo) /\ \A i \in 1 .. Len(todo') : i + 1 \in 1 .. Len(todo)
      BY <1>2
    <2>4. \A p \in 1 .. Len(sent') : sent'[p].part = "delta" => \E q \in Keys' : q < p
      <3> SUFFICES ASSUME NEW p \in 1 .. Len(sent'), sent'[p].part = "delta" PROVE \E q \in Keys' : q < p
        OBVIOUS
      <3>1. CASE p \in 1 .. Len(sent)
        <4>1. PICK q \in Keys : q < p
          BY <1>1, <1>7, <3>1 DEF Depends
        <4> QED BY <2>1, <4>1
      <3>2. CASE p > Len(sent) /\ h = "delta"
        <4>1. Keys # {} \/ \E j \in 1 .. 1 - 1 : todo[j] = "key"
          BY <1>1, <1>2, <2>3, <3>2 DEF Depends
        <4>2. PICK q \in Keys : TRUE
          BY <4>1
        <4>3. q < p
          BY <1>7, <2>1, <3>2
        <4> QED BY <2>1, <4>3
      <3> QED BY <2>2, <3>1, <3>2
    <2>5. \A i \in 1 .. Len(todo') : todo'[i] = "delta" => Keys' # {} \/ \E j \in 1 .. i - 1 : todo'[j] = "key"
      <3> SUFFICES ASSUME NEW i \in 1 .. Len(todo'), todo'[i] = "delta"
                   PROVE  Keys' # {} \/ \E j \in 1 .. i - 1 : todo'[j] = "key"
        OBVIOUS
      <3>1. Keys # {} \/ \E j \in 1 .. (i + 1) - 1 : todo[j] = "key"
        BY <1>1, <1>2, <2>3 DEF Depends
      <3>2. CASE Keys # {}
        BY <2>1, <3>2
      <3>3. CASE \E j \in 1 .. (i + 1) - 1 : todo[j] = "key"
        <4>1. PICK j \in 1 .. (i + 1) - 1 : todo[j] = "key"
          BY <3>3
        <4>2. CASE j = 1
          <5>1. N \in Keys'
            BY <1>2, <1>15, <4>1, <4>2 DEF Keys, Closes
          <5> QED BY <5>1
        <4>3. CASE j # 1
          <5>1. j - 1 \in 1 .. i - 1 /\ j - 1 \in 1 .. Len(todo') /\ (j - 1) + 1 = j
            BY <1>2, <4>3
          <5>2. todo'[j - 1] = "key"
            BY <1>2, <4>1, <5>1
          <5> QED BY <5>1, <5>2
        <4> QED BY <4>2, <4>3
      <3> QED BY <3>1, <3>2, <3>3
    <2>6. c'.viewOnly => /\ \A p \in 1 .. Len(sent') : sent'[p].part # "provide"
                         /\ \A i \in 1 .. Len(todo') : todo'[i] # "provide"
      <3> SUFFICES ASSUME c.viewOnly
                   PROVE  /\ \A p \in 1 .. Len(sent') : sent'[p].part # "provide"
                          /\ \A i \in 1 .. Len(todo') : todo'[i] # "provide"
        BY <1>1
      <3>1. h # "provide"
        BY <1>1, <1>2, <2>3 DEF Depends
      <3>2. \A p \in 1 .. Len(sent') : sent'[p].part # "provide"
        BY <1>1, <1>7, <2>2, <3>1 DEF Depends
      <3>3. \A i \in 1 .. Len(todo') : todo'[i] # "provide"
        BY <1>1, <1>2, <2>3 DEF Depends
      <3> QED BY <3>2, <3>3
    <2> QED BY <2>4, <2>5, <2>6 DEF Depends
  <1>19. sends' \in 0 .. MaxMessages
    BY <1>1 DEF IInv
  <1> QED BY <1>10, <1>14, <1>17, <1>18, <1>19 DEF IInv

----------------------------------------------------------------------------
(***************************************************************************)
(* The invariant, and what it says of the screen.                          *)
(***************************************************************************)

LEMMA InitFacts ==
    ASSUME Init
    PROVE  IInv
  <1>1. sent = <<>> /\ todo = <<>> /\ sends = 0 /\ arrived = 0
    BY DEF Init
  <1>2. Len(sent) = 0 /\ Len(todo) = 0
    BY <1>1
  <1>3. sends \in 0 .. MaxMessages
    BY <1>1, MaxMessagesAssumption
  <1>4. Stream
    BY <1>1, <1>2 DEF Stream
  <1>5. Pending
    <2>1. Ended /\ todo \in Seq(Parts)
      BY <1>1 DEF Ended
    <2> QED BY <1>2, <2>1 DEF Pending
  <1>6. Depends /\ Keys = {} /\ Ends = {}
    BY <1>2 DEF Depends, Keys, Ends
  <1>7. c \in Client
    BY DEF Init, Client
  <1>8. /\ c.at = 0 /\ c.ok /\ ~c.failed /\ ~c.run /\ ~c.flushing /\ ~c.flushed /\ c.rects = 0 /\ c.enc = "none"
        /\ c.inflated = {} /\ c.queue = <<>> /\ c.drawn = <<>> /\ c.said = <<>> /\ c.told = <<>>
    BY DEF Init
  <1>9. Rests(c)
    <2>1. /\ c.lines = 0 /\ c.subrects = 0 /\ c.tiles = 0 /\ c.len = {} /\ c.ctl = "none" /\ c.filter = "none"
          /\ c.colours = FALSE /\ c.segments = {}
      BY DEF Init
    <2>2. /\ Nothing.lines = 0 /\ Nothing.subrects = 0 /\ Nothing.tiles = 0 /\ Nothing.len = {} /\ Nothing.ctl = "none"
          /\ Nothing.filter = "none" /\ Nothing.colours = FALSE /\ Nothing.segments = {}
      BY DEF Nothing
    <2>3. \A field \in Work : c[field] = Nothing[field]
      BY Zenon, <2>1, <2>2 DEF Work
    <2> QED BY <2>3 DEF Rests, Idle
  <1>10. Heard(c.told, 0)
    BY <1>8 DEF Heard
  <1>11. Logged(c.drawn \o c.queue, 0)
    <2>1. Len(c.drawn \o c.queue) = 0
      BY <1>8
    <2> HIDE DEF IsDrawing
    <2> QED BY <2>1 DEF Logged
  <1>12. Single(c.queue)
    <2>1. Len(c.queue) = 0
      BY <1>8
    <2> QED BY <2>1 DEF Single
  <1>13. ~Contains(c.said, "request")
    <2>1. Len(c.said) = 0
      BY <1>8
    <2> QED BY <2>1 DEF Contains
  <1>14. Blocks(0) = {}
    BY DEF Blocks
  <1>15. c.at <= arrived /\ arrived \in Nat /\ arrived <= Len(sent)
    BY <1>1, <1>2, <1>8
  <1>16. Whole(c, c.at)
    BY <1>6, <1>7, <1>8, <1>10, <1>11, <1>12, <1>13, <1>14, <1>15 DEF Whole, Core
  <1>17. Before(c)
    BY <1>8, <1>9, <1>16 DEF Before
  <1> QED BY <1>3, <1>4, <1>5, <1>6, <1>17 DEF IInv, Good

LEMMA StutterStep ==
    ASSUME IInv, UNCHANGED vars
    PROVE  IInv'
  <1>1. /\ Stream /\ Pending /\ Depends /\ Good(c) /\ sends \in 0 .. MaxMessages
        /\ sent' = sent /\ todo' = todo /\ sends' = sends /\ arrived' = arrived /\ c' = c
    BY DEF IInv, vars
  <1>2. /\ arrived \in Nat /\ arrived <= Len(sent) /\ Len(sent) \in Nat
        /\ (Between(c) \/ Within(c)) /\ (c.rects = 0 /\ c.run => c.at < arrived)
    BY <1>1, GoodParts
  <1>3. Stream' /\ Grows
    BY <1>1, <1>2, StreamStays
  <1>4. (Between(c') \/ Within(c')) /\ (c'.rects = 0 /\ c'.run => c'.at < arrived')
    BY Zenon, <1>1, <1>2
  <1>5. Good(c)'
    BY <1>1, <1>3, <1>4, GoodGrows
  <1>6. c'.viewOnly = c.viewOnly /\ sends' \in 0 .. MaxMessages
    BY <1>1
  <1> QED BY <1>1, <1>3, <1>5, <1>6, PendingStays, DependsStays DEF IInv

LEMMA InductiveInvariant ==
    ASSUME IInv, [Next]_vars
    PROVE  IInv'
  <1>1. ASSUME NEW m \in Messages, ServerSends(m) PROVE IInv'
    BY <1>1, ServerSendsStep
  <1>2. CASE ServerWrites
    BY <1>2, ServerWritesStep
  <1>3. ASSUME NEW n \in 1 .. Len(sent) - arrived, NEW full \in BOOLEAN, Deliver(n, full) PROVE IInv'
    BY <1>3, DeliverStep
  <1>4. CASE HandleMessage
    BY <1>4, HandleMessageStep
  <1>5. ASSUME NEW i \in 1 .. Len(c.queue), PictureDecoded(i) PROVE IInv'
    BY <1>5, PictureDecodedStep
  <1>6. CASE PictureLoaded
    BY <1>6, PictureLoadedStep
  <1>7. CASE Flushed
    BY <1>7, FlushedStep
  <1>8. CASE ClipboardPasteFrom
    BY <1>8, ClipboardPasteFromStep
  <1>9. CASE UNCHANGED vars
    BY <1>9, StutterStep
  <1> QED BY <1>1, <1>2, <1>3, <1>4, <1>5, <1>6, <1>7, <1>8, <1>9 DEF Next

LEMMA Invariance == Spec => []IInv
  <1>1. Init => IInv
    BY InitFacts
  <1>2. IInv /\ [Next]_vars => IInv'
    BY InductiveInvariant
  <1> QED BY <1>1, <1>2, PTL DEF Spec

LEMMA LogFacts ==
    ASSUME IInv
    PROVE  /\ c \in Client /\ c.at \in Nat /\ Core(c, c.at)
           /\ Log \in Seq(OpType) /\ Len(Log) \in Nat /\ \A i \in 1 .. Len(Log) : Log[i] \in OpType
           /\ Logged(Log, c.at)
  <1>1. c \in Client /\ c.at \in Nat /\ Core(c, c.at)
    BY GoodParts DEF IInv
  <1>2. Log \in Seq(OpType)
    BY <1>1, ClientParts, JoinParts DEF Log
  <1>3. Len(Log) \in Nat /\ \A i \in 1 .. Len(Log) : Log[i] \in OpType
    BY <1>2, LenProperties, ElementOfSeq
  <1>4. Logged(Log, c.at)
    BY <1>1 DEF Core, Log
  <1> QED BY <1>1, <1>2, <1>3, <1>4

\* However the network cuts the stream, every field is read as the one it is, no
\* block of a zlib stream is missed, nothing legal makes the session fail, and
\* what the client has to act on it acts on once and in order (the handlers of
\* rfb.js and the decoders). And every variable keeps its type.
THEOREM KeepsInStep == Spec => []Inv
  <1>1. IInv => Inv
    <2> SUFFICES ASSUME IInv PROVE Inv
      OBVIOUS
    <2>1. /\ c \in Client /\ c.at \in Nat /\ arrived \in Nat /\ c.at <= arrived /\ arrived <= Len(sent)
          /\ Core(c, c.at)
      BY GoodParts DEF IInv
    <2>2. InStep
      BY <2>1 DEF InStep, Core, Heard
    <2>3. sent \in Seq([part : Parts, i : Nat, left : Nat]) /\ todo \in Seq(Parts) /\ sends <= MaxMessages
      BY MaxMessagesAssumption DEF IInv, Stream, Pending, Items
    <2>4. /\ c.enc \in Encodings \cup {"none"} /\ {c.rects, c.n, c.size, c.lines, c.subrects, c.tiles} \subseteq Nat
          /\ c.queue \in Seq(OpType) /\ c.drawn \in Seq(OpType) /\ c.caps \subseteq ServerActions
      BY <2>1, ClientParts
    <2>5. c.filter \in {"none", "copy", "palette", "gradient"} /\ c.ctl \in {"none", "fill", "jpeg", "png", "basic", "filter"}
      BY <2>1, ClientParts DEF Filters, Ctls
    <2>6. {c.run, c.ok, c.fresh, c.first, c.viewOnly, c.failed, c.asked, c.cont, c.canCont,
           c.flushing, c.flushed, c.colours, c.cached, c.video, c.text, c.pasted} \subseteq BOOLEAN
      <3>1. /\ c.run \in BOOLEAN /\ c.ok \in BOOLEAN /\ c.fresh \in BOOLEAN /\ c.first \in BOOLEAN
            /\ c.viewOnly \in BOOLEAN /\ c.failed \in BOOLEAN /\ c.asked \in BOOLEAN /\ c.cont \in BOOLEAN
            /\ c.canCont \in BOOLEAN /\ c.flushing \in BOOLEAN /\ c.flushed \in BOOLEAN /\ c.colours \in BOOLEAN
            /\ c.cached \in BOOLEAN /\ c.video \in BOOLEAN /\ c.text \in BOOLEAN /\ c.pasted \in BOOLEAN
        BY <2>1, ClientParts
      <3> QED BY Zenon, <3>1
    <2>7. TypeOK
      BY <2>1, <2>3, <2>4, <2>5, <2>6 DEF TypeOK
    <2> QED BY <2>2, <2>7 DEF Inv
  <1> QED BY <1>1, Invariance, PTL

\* What the client was sent is drawn exactly once and in the order it was sent,
\* pictures that load late included, and apart from raw pixels with what it was
\* given (the render queue of display.js).
THEOREM DrawsInOrder == Spec => []DrawnInOrder
  <1>1. IInv => DrawnInOrder
    <2> SUFFICES ASSUME IInv PROVE DrawnInOrder
      OBVIOUS
    <2>1. /\ c.at \in Nat /\ Len(Log) \in Nat /\ \A i \in 1 .. Len(Log) : Log[i] \in OpType
          /\ Logged(Log, c.at)
      BY LogFacts
    <2>2. \A i \in Drawings : /\ i \in 1 .. Len(Log) /\ IsDrawing(Log[i]) /\ Log[i].p \in 1 .. c.at
                              /\ Log[i].d = Token(Log[i].p).d
                              /\ Log[i].own \/ Token(Log[i].p).k \in {"line", "pixels"}
      BY <2>1 DEF Drawings, Logged, Shows
    <2>3. \A i \in Drawings : Log[i].d \in Drawing
      BY <2>1, <2>2 DEF OpType, IsDrawing
    <2>4. \A i, j \in Drawings : i < j => Log[i].p < Log[j].p
      BY <2>1, <2>2 DEF Logged
    <2>5. {Log[i].p : i \in Drawings} = {p \in 1 .. c.at : Token(p).d \in Drawing}
      <3>1. \A p \in 1 .. c.at : Token(p).d \in Drawing => \E i \in Drawings : Log[i].p = p
        BY <2>1 DEF Logged, Drawings
      <3>2. \A i \in Drawings : Log[i].p \in 1 .. c.at /\ Token(Log[i].p).d \in Drawing
        BY <2>2, <2>3
      <3> QED BY Zenon, <3>1, <3>2
    <2> QED BY <2>2, <2>4, <2>5 DEF DrawnInOrder
  <1> QED BY <1>1, Invariance, PTL

\* The canvas is brought up to date with all of an update and nothing of the
\* next, whatever is still queued, or else with a new size (_framebufferUpdate
\* and Display.flip).
THEOREM ShowsWholeUpdates == Spec => []WholeUpdates
  <1>1. IInv => WholeUpdates
    <2> SUFFICES ASSUME IInv, NEW f \in Flips
                 PROVE  \E e \in Ends \cup Resized :
                          e <= c.at /\ \A i \in Drawings : i < f <=> Log[i].p <= e
      BY DEF WholeUpdates
    <2>1. /\ c.at \in Nat /\ Len(Log) \in Nat /\ \A i \in 1 .. Len(Log) : Log[i] \in OpType
          /\ Logged(Log, c.at)
      BY LogFacts
    <2>2. f \in 1 .. Len(Log) /\ ~IsDrawing(Log[f])
      BY DEF Flips
    <2> DEFINE e == Log[f].p
    <2>3. e \in Ends \cup Resized /\ e \in 1 .. c.at
      BY <2>1, <2>2 DEF Logged, Shows
    <2>4. ASSUME NEW i \in Drawings
          PROVE  i < f <=> Log[i].p <= e
      <3>1. i \in 1 .. Len(Log) /\ IsDrawing(Log[i]) /\ i # f /\ Log[i].p \in 1 .. c.at
        BY <2>1, <2>2 DEF Drawings, Logged
      <3>2. i < f => Log[i].p <= e
        BY <2>1, <2>2, <3>1 DEF Logged
      <3>3. f < i => e < Log[i].p
        BY <2>1, <2>2, <3>1 DEF Logged
      <3> HIDE DEF e
      <3> QED BY <2>1, <2>2, <2>3, <3>1, <3>2, <3>3
    <2>5. e <= c.at
      BY <2>1, <2>3
    <2> HIDE DEF e
    <2> QED BY <2>3, <2>4, <2>5
  <1> QED BY <1>1, Invariance, PTL

\* The render queue is bounded by one update: the next update is not begun
\* before what is queued of the last was drawn (flush in _framebufferUpdate).
THEOREM QueuesOneUpdate == Spec => []OneUpdateQueued
  <1>1. IInv => OneUpdateQueued
    BY LogFacts DEF Core, Single, OneUpdateQueued
  <1> QED BY <1>1, Invariance, PTL
=============================================================================
