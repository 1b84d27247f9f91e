------------------------------ MODULE IsoFile -------------------------------
(***************************************************************************)
(* The reader of MP4 and QuickTime files                                   *)
(* (crates/tpt-app-media-qc-probe/src/iso_bmff.rs).  A file is a length    *)
(* and its top-level boxes: kind, large (a header of 16 bytes), size (as   *)
(* declared; 0 reaches to the end) and moov, the content of a moov box:    *)
(* mvhd and traks.  A trak has by name the boxes the reader looks for: the *)
(* place and size, in bytes from the payload of moov, and what they hold;  *)
(* those that are cut by the end of the file hold less.  Boxes inside of   *)
(* moov fit into each other.  A sample entry that is cut keeps its name    *)
(* only.  Payloads of cues are the metrics of their text.                  *)
(***************************************************************************)
EXTENDS Codecs

CONSTANTS MaxTopLevelBoxes, MaxSubtitleSample, MaxSubtitleBytes

ASSUME IsoAssumption == {MaxTopLevelBoxes, MaxSubtitleSample, MaxSubtitleBytes} \subseteq Nat

ToMs(ticks, scale) == (1000 * ticks) \div scale

-----------------------------------------------------------------------------
(* The top level.                                                          *)

NoTop == [pos |-> 0, stopped |-> FALSE, corrupt |-> FALSE, tooLarge |-> FALSE, moov |-> {}, moof |-> FALSE]

HeaderOf(box) == IF box.large THEN 16 ELSE 8

\* One box: what is declared beyond the end of the file is cut and leaves the mark of
\* corruption; the first moov is read.
WalkBox(length, top, box) ==
  LET remaining == length - top.pos
      header == HeaderOf(box)
      size   == IF box.size = 0 /\ ~box.large THEN remaining ELSE box.size
      end    == Least(top.pos + size, length)
      room   == Greatest(0, end - top.pos - header)
      reads  == box.kind = "moov" /\ top.moov = {}
  IN  IF top.stopped \/ remaining < header THEN [top EXCEPT !.stopped = TRUE]
      ELSE IF size < header THEN [top EXCEPT !.corrupt = TRUE, !.stopped = TRUE]
      ELSE IF reads /\ room > MaxBuffered THEN [top EXCEPT !.tooLarge = TRUE, !.stopped = TRUE]
      ELSE [top EXCEPT !.pos = end, !.corrupt = @ \/ top.pos + size > length, !.moof = @ \/ box.kind = "moof",
                       !.moov = IF reads THEN {[content |-> box.moov, room |-> room]} ELSE @]

\* The walk ends without a word at the limit, whatever follows.
WalkTopLevel(file) ==
  LET walked == Least(Len(file.boxes), MaxTopLevelBoxes)
      upTo[n \in 0 .. walked] == IF n = 0 THEN NoTop ELSE WalkBox(file.length, upTo[n - 1], file.boxes[n])
  IN  upTo[walked]

-----------------------------------------------------------------------------
(* Boxes in a moov of which room bytes are there.                          *)

\* The bytes without which the content of a box is not read, and the size of the entries
\* of a table after its head.
NeededBytes == [mvhd |-> 28, tkhd |-> 24, mdhd |-> 30, hdlr |-> 20, stsd |-> 24]
EntryBytes  == [stts |-> 8, stsc |-> 12, stsz |-> 4, stco |-> 4, co64 |-> 8]
TableHead   == [stts |-> 16, stsc |-> 16, stsz |-> 20, stco |-> 16, co64 |-> 16]

Named(boxes, name) == {boxes[n] : n \in {name} \cap DOMAIN boxes}

Complete(box, room) == box.at + box.size <= room

HeaderBox(name, boxes, room) ==
  {b \in Named(boxes, name) : b.at + Least(b.size, NeededBytes[name]) <= room}

\* Entries that are declared and there.
TableBox(name, boxes, room) ==
  {SubSeq(b.entries, 1, Least(Len(b.entries), (Greatest(0, room - b.at - TableHead[name])) \div EntryBytes[name])) :
     b \in {x \in Named(boxes, name) : x.at + TableHead[name] <= room}}

Declared(name, boxes) == Len(boxes[name].entries)

TableOf(name, boxes, room) == IF TableBox(name, boxes, room) = {} THEN <<>>
                              ELSE CHOOSE q \in TableBox(name, boxes, room) : TRUE

-----------------------------------------------------------------------------
(* Sample tables.  Entries of stts are <<count, delta>>, of stsc           *)
(* <<first chunk, samples per chunk>>.                                     *)

\* The deltas of the samples one after another.
Deltas(stts) == FlattenSeq([i \in DOMAIN stts |-> [k \in 1 .. stts[i][1] |-> stts[i][2]]])

StartsOf(deltas) ==
  LET At[k \in 0 .. Len(deltas)] == IF k = 0 THEN 0 ELSE At[k - 1] + deltas[k]
  IN  [k \in 1 .. Len(deltas) |-> At[k - 1]]

CountIn(q, S) == Len(SelectSeq(q, LAMBDA x : x \in S))

\* The most common delta, the smaller of equals.
Mode(q) ==
  LET often(x) == CountIn(q, {x})
      best == {x \in Range(q) : \A y \in Range(q) : often(y) <= often(x)}
  IN  Smallest(best)

\* A delta is a gap if it is more than half again as long as the median and 20 ms longer;
\* the last sample has none.
GapsAfter(deltas, starts, median, scale) ==
  LET least  == (20 * scale + 999) \div 1000
      big(k) == 2 * deltas[k] > 3 * median /\ deltas[k] - median >= least
      found  == SelectSeq([k \in 1 .. Len(deltas) - 1 |-> k], LAMBDA k : median > 0 /\ big(k))
      gap(k) == <<starts[k] + median, starts[k] + deltas[k]>>
  IN  {gap(found[i]) : i \in 1 .. Least(Len(found), MaxGaps)}

SttsStats(deltas, scale) ==
  IF deltas = <<>> \/ scale = 0 THEN {}
  ELSE {[samples |-> Len(deltas), ticks |-> SumOf(deltas), mode |-> CHOOSE d \in Mode(deltas) : TRUE,
         gaps |-> GapsAfter(deltas, StartsOf(deltas), m, scale)] : m \in Median(deltas)}

\* The place of each sample in the file: chunk by chunk, as the runs of stsc say.
SampleLocations(offsets, stsc, sizes) ==
  LET run(c) == CHOOSE r \in DOMAIN stsc : /\ \A i \in 2 .. r : stsc[i][1] <= c
                                           /\ r = Len(stsc) \/ stsc[r + 1][1] > c
      holds(c) == IF stsc[run(c)][1] > c THEN 0 ELSE stsc[run(c)][2]
      chunkOf == IF stsc = <<>> THEN <<>>
                 ELSE FlattenSeq([c \in DOMAIN offsets |-> [k \in 1 .. holds(c) |-> c]])
      before(k) == SumOf([j \in 1 .. k - 1 |-> IF chunkOf[j] = chunkOf[k] THEN sizes[j] ELSE 0])
  IN  [k \in 1 .. Least(Len(chunkOf), Len(sizes)) |-> [offset |-> offsets[chunkOf[k]] + before(k), size |-> sizes[k]]]

\* The cues of a subtitle track; text samples hold one, WebVTT samples any number.
ReadCues(length, locations, deltas, texts, scale) ==
  LET starts == StartsOf(deltas)
      Sample(acc, k) ==
        LET l    == locations[k]
            from == ToMs(starts[k], scale)
            to   == ToMs(starts[k] + deltas[k], scale)
            new  == [i \in DOMAIN texts[k] |-> [start |-> from, end |-> to, text |-> texts[k][i]]]
        IN  IF acc.stopped \/ l.size = 0 \/ l.size > MaxSubtitleSample THEN acc
            ELSE IF l.offset + l.size > length THEN [acc EXCEPT !.corrupt = TRUE, !.stopped = TRUE]
            ELSE IF l.size > acc.budget THEN [acc EXCEPT !.stopped = TRUE]
            ELSE [acc EXCEPT !.budget = @ - l.size,
                             !.cues = SubSeq(@ \o new, 1, Least(Len(@) + Len(new), MaxCues)),
                             !.stopped = Len(acc.cues) + Len(new) > MaxCues]
      n == Least(MaxCues, Least(Len(locations), Len(deltas)))
  IN  FoldLeft(Sample, [cues |-> <<>>, corrupt |-> FALSE, stopped |-> FALSE, budget |-> MaxSubtitleBytes],
               [k \in 1 .. n |-> k])

-----------------------------------------------------------------------------
(* Tracks.                                                                 *)

Unspecified(tag) == tag \ {"unspecified"}

\* nclx, config (av1C with a sequence header, or vpcC) and light: optional content of the
\* sample entry; fields: optional <<count, detail>> of a fiel box.
ParseVideo(entry) ==
  LET tagsOf(S) == IF S = {} THEN NoColor
                   ELSE LET c == CHOOSE x \in S : TRUE
                        IN  [transfer |-> Unspecified(c.transfer), primaries |-> Unspecified(c.primaries),
                             matrix |-> Unspecified(c.matrix), range |-> c.range]
      order(f) == CASE f[1] = 1 -> "progressive" [] f = <<2, 1>> -> "top_first" [] f = <<2, 6>> -> "bottom_first"
                    [] OTHER -> "unknown"
  IN  [size |-> entry.size, tags |-> FillTags(tagsOf(entry.nclx), tagsOf(entry.config)),
       order |-> OrElse({order(f) : f \in entry.fields}, {"progressive"}),
       profile |-> {c.profile : c \in entry.config},
       pixels |-> UNION {PixelFormat(c.depth, c.chroma) : c \in entry.config},
       light |-> entry.light]

\* channels, rate and bits as the entry says; dops, dfla, pcmc: what the codec's own box says.
ParseAudio(fourcc, entry, scale) ==
  LET flac  == entry.dfla
      bits  == CASE fourcc = "Opus" -> 0
                 [] fourcc = "fLaC" -> IF flac # {} THEN (CHOOSE f \in flac : TRUE).bits ELSE entry.bits
                 [] fourcc \in {"in24", "in32", "fl32", "fl64", "raw"} ->
                      [in24 |-> 24, in32 |-> 32, fl32 |-> 32, fl64 |-> 64, raw |-> 8][fourcc]
                 [] fourcc \in {"sowt", "twos"} -> IF entry.bits = 0 THEN 16 ELSE entry.bits
                 [] fourcc = "lpcm" -> entry.bits
                 [] OTHER -> IF entry.pcmc # {} THEN (CHOOSE p \in entry.pcmc : TRUE).bits ELSE entry.bits
      big   == IF fourcc \in {"ipcm", "fpcm"} THEN ~\E p \in entry.pcmc : p.little
               ELSE IF entry.enda # {} THEN entry.enda = {0}
               ELSE fourcc \in {"twos", "in24", "in32", "fl32", "fl64"} \/ (fourcc = "lpcm" /\ "big" \in entry.flags)
      float == fourcc \in {"fl32", "fl64", "fpcm"} \/ (fourcc = "lpcm" /\ "float" \in entry.flags)
      rate  == CASE fourcc = "Opus" -> 48000
                 [] fourcc = "fLaC" /\ flac # {} -> (CHOOSE f \in flac : TRUE).rate
                 [] OTHER -> entry.rate
      channels == CASE fourcc = "Opus" /\ entry.dops # {} -> CHOOSE c \in entry.dops : TRUE
                    [] fourcc = "fLaC" /\ flac # {} -> (CHOOSE f \in flac : TRUE).channels
                    [] OTHER -> entry.channels
      known(x) == {x} \ {0}
  IN  [codec |-> IF fourcc = "Opus" THEN "opus" ELSE IF fourcc = "fLaC" THEN "flac" ELSE PcmCodec(float, bits, big),
       bits |-> known(bits), channels |-> known(channels), layout |-> LayoutOf(channels),
       rate |-> IF rate # 0 THEN {rate} ELSE scale]

\* What the reader takes from the boxes of a trak.
ReadTrak(trak, room) ==
  LET mdhd == HeaderBox("mdhd", trak, room)
      stsd == HeaderBox("stsd", trak, room)
      named(S) == IF S = {} THEN "none" ELSE CHOOSE x \in S : TRUE
      table(name) == TableOf(name, trak, room)
  IN  [id       |-> {b.id : b \in HeaderBox("tkhd", trak, room)},
       scale    |-> {b.scale : b \in mdhd} \ {0},
       ticks    |-> UNION {b.duration : b \in mdhd},
       language |-> UNION {b.language : b \in mdhd},
       handler  |-> named({b.handler : b \in HeaderBox("hdlr", trak, room)}),
       fourcc   |-> named({b.fourcc : b \in stsd}),
       entry    |-> {b.entry : b \in {x \in stsd : Complete(x, room)}},
       texts    |-> {b.texts : b \in stsd},
       deltas   |-> Deltas(table("stts")), stsc |-> table("stsc"), sizes |-> table("stsz"),
       declared |-> {Declared("stsz", trak) : q \in TableBox("stsz", trak, room)},
       offsets  |-> IF TableBox("stco", trak, room) # {} THEN table("stco") ELSE table("co64")]

Class(t) == ClassifyIso(t.handler, t.fourcc)

\* What it computes from them; class as a parameter.
MeasureTrak(length, t, class) ==
  LET is(kind) == class.class = "supported" /\ class.kind = kind
      only(P, S) == IF P THEN S ELSE {}
  IN  [stats |-> only(class.class = "supported", UNION {SttsStats(t.deltas, s) : s \in t.scale}),
       video |-> only(is("video"), {ParseVideo(e) : e \in t.entry}),
       audio |-> only(is("audio"), {ParseAudio(t.fourcc, e, t.scale) : e \in t.entry}),
       cues  |-> only(is("subtitle"),
                      {ReadCues(length, SampleLocations(t.offsets, t.stsc, t.sizes), t.deltas, q, s) :
                         q \in t.texts, s \in t.scale})]

TrackStream(t, class, m) ==
  LET timed == class.class = "supported" /\ class.kind \in {"video", "audio"}
      paced == OrElse(t.ticks \ {0}, {st.ticks : st \in m.stats})
      video(P(_)) == UNION {P(v) : v \in m.video}
      audio(P(_)) == UNION {P(a) : a \in m.audio}
      pace(P(_, _)) == IF class.kind = "video" THEN UNION {P(s, st) : s \in t.scale, st \in m.stats} ELSE {}
  IN  [BlankStream(class.kind, class.codec) EXCEPT
        !.native = OrElse(t.id, {0}), !.timebase = {<<1, s>> : s \in t.scale},
        !.duration = Seconds({ToMs(d, s) : d \in t.ticks, s \in t.scale}), !.language = t.language,
        !.bitrate = IF timed THEN {(8 * SumOf(t.sizes) * s) \div d : d \in paced \ {0}, s \in t.scale} ELSE {},
        !.codec = IF m.audio # {} THEN (CHOOSE a \in m.audio : TRUE).codec ELSE @,
        !.size = video(LAMBDA v : v.size), !.order = video(LAMBDA v : v.order),
        !.profile = video(LAMBDA v : v.profile), !.pixels = video(LAMBDA v : v.pixels),
        !.color = video(LAMBDA v : ColorSpaceOf(v.tags)), !.hdr = video(LAMBDA v : HdrOf(v.tags, v.light)),
        !.rate = pace(LAMBDA s, st : IF st.mode > 0 THEN {(1000 * s) \div st.mode} ELSE {}),
        !.observed = pace(LAMBDA s, st : IF st.ticks > 0 THEN {(1000 * st.samples * s) \div st.ticks} ELSE {}),
        !.channels = audio(LAMBDA a : a.channels), !.layout = audio(LAMBDA a : a.layout),
        !.sampleRate = audio(LAMBDA a : a.rate), !.bitDepth = audio(LAMBDA a : a.bits),
        !.cues = IF m.cues = {} THEN <<>> ELSE (CHOOSE c \in m.cues : TRUE).cues]

FinishTrack(length, t, class, m) ==
  LET timed == class.class = "supported" /\ class.kind \in {"video", "audio"}
  IN  [stream   |-> TrackStream(t, class, m),
       duration |-> {ToMs(d, s) : d \in t.ticks, s \in t.scale},
       timed    |-> timed /\ m.stats # {},
       gaps     |-> IF timed THEN {<<ToMs(g[1], s), ToMs(g[2], s)>> : s \in t.scale, g \in UNION {x.gaps : x \in m.stats}}
                    ELSE {},
       notes    |-> (IF t.id = {} THEN {"tkhd"} ELSE {}) \cup (IF t.scale = {} THEN {"mdhd"} ELSE {})
                    \cup (IF t.texts = {} THEN {"stsd"} ELSE {})
                    \cup {"stsz" : x \in {y \in m.stats : \E n \in t.declared : n # y.samples}},
       corrupt  |-> \/ class.class = "supported" /\ \E i \in DOMAIN t.offsets : t.offsets[i] >= length
                    \/ \E c \in m.cues : c.corrupt]

BuildTrack(length, t) == FinishTrack(length, t, Class(t), MeasureTrak(length, t, Class(t)))

-----------------------------------------------------------------------------
(* The file.                                                               *)

\* traks: those that are read; built: what became of them; mvhd: the movie header.
IsoContainer(corrupt, mvhd, traks, built, more) ==
  LET movie   == UNION {{ToMs(d, b.scale) : d \in b.duration} : b \in {x \in mvhd : x.scale > 0}} \ {0}
      longest == Largest(UNION {built[i].duration : i \in DOMAIN built}) \ {0}
      gaps    == UNION {built[i].gaps : i \in DOMAIN built}
  IN  [NewContainer EXCEPT
        !.streams = [i \in DOMAIN built |-> built[i].stream],
        !.duration = OrElse(movie, longest),
        !.timecode = {\E i \in DOMAIN traks : "tmcd" \in {traks[i].handler, traks[i].fourcc}},
        !.contiguous = IF \E i \in DOMAIN built : built[i].timed THEN {gaps = {}} ELSE {},
        !.gaps = gaps,
        !.malformed = UNION {{<<i, n>> : n \in built[i].notes} : i \in DOMAIN built}
                      \cup (IF mvhd = {} THEN {<<0, "mvhd">>} ELSE {})
                      \cup (IF more THEN {<<0, "tracks">>} ELSE {}),
        !.validity = IF corrupt \/ \E i \in DOMAIN built : built[i].corrupt THEN "corrupt" ELSE "ok"]

\* The traks that begin in the room that is there.
TraksIn(moov, room) == Only(moov.traks, {i \in DOMAIN moov.traks : \E b \in Range(moov.traks[i]) : b.at + 8 <= room})

ReadTraks(moov, room) ==
  LET there == TraksIn(moov, room) IN [i \in 1 .. Least(Len(there), MaxTracks) |-> ReadTrak(there[i], room)]

\* A track that is refused ends the probe before any sample entry is read: an error ({}).
ReadMoov(length, corrupt, moov, room) ==
  LET Build(traks) ==
        IF HasRefusal([i \in DOMAIN traks |-> Class(traks[i])]) THEN {}
        ELSE {IsoContainer(corrupt, HeaderBox("mvhd", moov.mvhd, room), traks,
                           [i \in DOMAIN traks |-> BuildTrack(length, traks[i])], Len(TraksIn(moov, room)) > MaxTracks)}
  IN  Build(ReadTraks(moov, room))

ReadTop(length, top) ==
  IF top.tooLarge \/ top.moov = {} THEN {Corrupt}
  ELSE UNION {ReadMoov(length, top.corrupt, m.content, m.room) : m \in top.moov}

ProbeIso(file) == ReadTop(file.length, WalkTopLevel(file))
=============================================================================
