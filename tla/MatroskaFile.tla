---------------------------- MODULE MatroskaFile ----------------------------
(***************************************************************************)
(* The reader of Matroska and WebM files                                   *)
(* (crates/tpt-app-media-qc-probe/src/matroska.rs).  A file is a length,   *)
(* head (the size of the EBML header, optional: absent if it is not one)   *)
(* and segment (optional): header and size in bytes and the elements in    *)
(* it. An element has an id, the bytes of its header, its size (optional:  *)
(* unknown) and what it holds: a cluster its elements, a tracks element    *)
(* its entries, a block its track, time, duration, bytes and text.  Damage *)
(* is a file that is shorter than its elements, elements of unknown size,  *)
(* and headers that are none (id "junk").  A track entry that is cut has   *)
(* lost its codec id; other elements that are cut hold nothing.  Times are *)
(* in ticks of scale microseconds.  Lacing and the caps on candidates and  *)
(* on distinct distances are left out.                                     *)
(***************************************************************************)
EXTENDS Codecs

CONSTANTS MaxBlocks, MaxTracksBytes

ASSUME MatroskaAssumption == MaxBlocks \in Nat /\ MaxTracksBytes \in Nat

TicksToMs(ticks, scale) == (Greatest(ticks, 0) * scale) \div 1000

-----------------------------------------------------------------------------
(* The walk.                                                               *)

\* The longest header of an element: at the end of a file less of it is no error of the header.
MaxHeader == 12

NoWalk == [pos |-> 0, stopped |-> FALSE, truncated |-> FALSE, broken |-> FALSE, scale |-> 1000,
           info |-> {}, tracks |-> <<>>, tracksSeen |-> FALSE, blocks |-> <<>>, cluster |-> 0,
           timecode |-> FALSE, notes |-> {}]

\* Where the body of an element ends, and whether it had to be cut.
EndOf(e, pos, limit) ==
  LET declared == {pos + e.header + n : n \in e.size}
      within   == {d \in declared : d <= limit}
  IN  [at |-> IF within # {} THEN CHOOSE d \in within : TRUE ELSE limit, clipped |-> declared # within]

BadHeader(w, length) ==
  [w EXCEPT !.stopped = TRUE, !.truncated = @ \/ length - w.pos < MaxHeader, !.broken = @ \/ length - w.pos >= MaxHeader]

HasHeader(w, e, length) == e.id # "junk" /\ w.pos + e.header <= length

\* A block counts with the time of its cluster; one with an invalid header does not.
Account(w, b) ==
  IF b.track = {} THEN [w EXCEPT !.notes = @ \cup {"block"}]
  ELSE IF Len(w.blocks) >= MaxBlocks THEN [w EXCEPT !.stopped = TRUE]
  ELSE [w EXCEPT !.blocks = Append(@, [track |-> CHOOSE t \in b.track : TRUE, at |-> w.cluster + b.rel,
                                       duration |-> b.duration, bytes |-> b.bytes, text |-> b.text])]

\* An element of a cluster that ends at limit.
ScanElement(w, e, limit, length) ==
  LET end == EndOf(e, w.pos, limit)
      there == [w EXCEPT !.pos = end.at, !.truncated = @ \/ end.clipped]
  IN  IF w.stopped \/ w.pos >= limit THEN w
      ELSE IF ~HasHeader(w, e, length) THEN BadHeader(w, length)
      ELSE IF e.size = {} THEN [w EXCEPT !.broken = TRUE, !.stopped = TRUE]
      ELSE CASE e.id = "timestamp" -> [there EXCEPT !.cluster = IF end.clipped THEN 0 ELSE e.time]
             [] e.id = "block"     -> Account(there, e)
             [] OTHER              -> there

\* A cluster of unknown size ends at the next element of its parent.
ScanCluster(w, c, limit, length) ==
  LET end   == EndOf(c, w.pos, limit)
      start == [w EXCEPT !.pos = @ + c.header, !.cluster = 0, !.truncated = @ \/ end.clipped]
      upTo[n \in 0 .. Len(c.elements)] ==
        IF n = 0 THEN start ELSE ScanElement(upTo[n - 1], c.elements[n], end.at, length)
      done  == upTo[Len(c.elements)]
  IN  IF c.size = {} \/ done.stopped THEN done ELSE [done EXCEPT !.pos = end.at]

HandleInfo(w, e, clipped) ==
  IF w.info # {} THEN w
  ELSE LET held == IF clipped THEN [scale |-> 1000, duration |-> {}] ELSE e.info
       IN  [w EXCEPT !.info = {held}, !.scale = IF held.scale = 0 THEN @ ELSE held.scale,
                     !.notes = @ \cup (IF held.scale = 0 THEN {"scale"} ELSE {})
                               \cup (IF held.duration = {} THEN {"duration"} ELSE {})]

\* Entries that begin in the room that is there, each with its class; nothing of what
\* follows a refused one matters.
HandleTracks(w, e, room) ==
  LET began == SelectSeq(e.entries, LAMBDA t : t.at < room)
      entry(t) == IF t.at + t.size <= room THEN t ELSE [t EXCEPT !.codecId = {}]
      read  == [i \in DOMAIN began |-> entry(began[i])]
      class(t) == IF t.codecId = {} THEN Passive("", "data") ELSE ClassifyMatroska(CHOOSE c \in t.codecId : TRUE, t.type)
      classes == [i \in DOMAIN read |-> class(read[i])]
      n == Least(Len(read), MaxTracks)
      twice == \E i, j \in 1 .. n : i # j /\ read[i].number = read[j].number
  IN  IF w.tracksSeen THEN [w EXCEPT !.notes = @ \cup {"tracks"}]
      ELSE IF room > MaxTracksBytes THEN [w EXCEPT !.notes = @ \cup {"too large"}]
      ELSE [w EXCEPT !.tracksSeen = TRUE,
                     !.tracks = [i \in 1 .. (IF HasRefusal(classes) THEN Len(read) ELSE n) |->
                                   [entry |-> read[i], class |-> classes[i]]],
                     !.notes = @ \cup (IF twice THEN {"number"} ELSE {})
                               \cup (IF \E t \in Range(read) : t.codecId = {} THEN {"codec"} ELSE {})
                               \cup (IF n < Len(read) THEN {"limit"} ELSE {})]

\* An element of the segment.
WalkElement(w, e, limit, length) ==
  LET end   == EndOf(e, w.pos, limit)
      there == [w EXCEPT !.pos = end.at, !.truncated = @ \/ end.clipped]
  IN  IF w.stopped \/ w.pos >= limit THEN w
      ELSE IF ~HasHeader(w, e, length) THEN BadHeader(w, length)
      ELSE IF e.id = "cluster" THEN ScanCluster(w, e, limit, length)
      ELSE IF e.size = {} THEN [w EXCEPT !.broken = TRUE, !.stopped = TRUE]
      ELSE CASE e.id = "info"   -> HandleInfo(there, e, end.clipped)
             [] e.id = "tracks" -> HandleTracks(there, e, end.at - w.pos - e.header)
             [] e.id = "tags"   -> [there EXCEPT !.timecode = @ \/ (e.timecode /\ ~end.clipped)]
             [] OTHER           -> there

WalkSegment(length, start, s) ==
  LET end  == EndOf(s, start, length)
      body == [NoWalk EXCEPT !.pos = start + s.header, !.truncated = end.clipped]
      upTo[n \in 0 .. Len(s.elements)] ==
        IF n = 0 THEN body ELSE WalkElement(upTo[n - 1], s.elements[n], end.at, length)
  IN  upTo[Len(s.elements)]

-----------------------------------------------------------------------------
(* The times of the blocks of one track.                                   *)

TimesOf(blocks, number) ==
  LET own == SelectSeq(blocks, LAMBDA b : b.track = number) IN [k \in DOMAIN own |-> own[k].at]

\* The distances that go forward, of the first n blocks.
Forward(times, n) == SelectSeq([k \in 1 .. n - 1 |-> times[k + 1] - times[k]], LAMBDA d : d > 0)

\* After how many of n distances the running median was taken.
Settled(n) == IF n <= 64 THEN n ELSE Greatest(64, 256 * (n \div 256))

\* Pairs of neighbours that are kept for the final look: those that go back, and those half
\* again as far apart as the running median, which has this distance in it already.
Candidates(times) ==
  LET pair(k) == <<times[k], times[k + 1]>>
      steps(k) == Forward(times, k + 1)
      estimate(k) == Median(SubSeq(steps(k), 1, Settled(Len(steps(k)))))
      d(k) == times[k + 1] - times[k]
  IN  {pair(k) : k \in {j \in 1 .. Len(times) - 1 :
        d(j) < 0 \/ (d(j) > 0 /\ \A m \in estimate(j) : 2 * d(j) > 3 * m)}}

\* Against the final median: a step back of more than it, a step forward of more than half
\* again and of 20 ms.
TrackGaps(times, scale) ==
  LET median == Median(Forward(times, Len(times)))
      back == {c \in Candidates(times) : c[2] < c[1] /\ \A m \in OrElse(median, {0}) : c[1] - c[2] > m}
      skip == {c \in Candidates(times) : c[2] > c[1] /\ (c[2] - c[1]) * scale >= 20000
                                         /\ \A m \in median : 2 * (c[2] - c[1]) > 3 * m}
      ms(t) == TicksToMs(t, scale)
  IN  {<<ms(c[2]), ms(c[1])>> : c \in back} \cup {<<ms(c[1] + m), ms(c[2])>> : c \in skip, m \in median}

ObservedTicks(times, scale) ==
  LET span == {t - s : t \in Largest(Range(times)), s \in Smallest(Range(times))}
  IN  {(1000000 * (Len(times) - 1)) \div ((d * scale) \div 1000) : d \in {x \in span : x * scale >= 1000}}

-----------------------------------------------------------------------------
(* Streams.                                                                *)

\* What the Colour element says; the range is 1 (tv) or 2 (pc).
MatroskaColor(c) ==
  [transfer |-> c.transfer, primaries |-> c.primaries, matrix |-> c.matrix,
   range |-> {CASE r = 1 -> "tv" [] OTHER -> "pc" : r \in c.range \cap {1, 2}}]

MatroskaOrder(e) ==
  IF e.interlaced = 2 THEN "progressive"
  ELSE IF e.order \cap {1, 14} # {} THEN "top_first"
  ELSE IF e.order \cap {6, 9} # {} THEN "bottom_first"
  ELSE IF e.interlaced = 1 THEN "unknown" ELSE "progressive"

BuildMatroskaStream(t, w, duration) ==
  LET e == t.entry
      video == t.class = Supported(t.class.codec, "video")
      audio == t.class = Supported(t.class.codec, "audio")
      sub   == t.class = Supported(t.class.codec, "subtitle")
      own   == SelectSeq(w.blocks, LAMBDA b : b.track = e.number)
      times == TimesOf(w.blocks, e.number)
      bytes == SumOf([k \in DOMAIN own |-> own[k].bytes])
      tags  == MatroskaColor(e.color)
      only(P, S) == IF P THEN S ELSE {}
      median == {m \in Median(Forward(times, Len(times))) : m > 0}
      cue(b) == [start |-> TicksToMs(b.at, w.scale), text |-> b.text,
                 end |-> IF b.duration = {} THEN TicksToMs(b.at, w.scale)
                         ELSE TicksToMs(b.at + (CHOOSE d \in b.duration : TRUE), w.scale)]
      cues  == [k \in DOMAIN own |-> cue(own[k])]
  IN  [BlankStream(t.class.kind, t.class.codec) EXCEPT
        !.native = {e.number}, !.timebase = {<<w.scale, 1000000>>}, !.duration = Seconds(duration),
        !.language = e.language, !.metadata = e.metadata,
        !.bitrate = only(t.class.kind \in {"audio", "video"} /\ bytes > 0, BitsPerSecond(bytes, duration)),
        !.size = only(video /\ e.width > 0 /\ e.height > 0, {<<e.width, e.height>>}),
        !.profile = only(video, {c.profile : c \in e.config}),
        !.pixels = only(video, UNION {PixelFormat(c.depth, c.chroma) : c \in e.config}),
        !.order = only(video, {MatroskaOrder(e)}),
        !.rate = only(video, OrElse({1000000000 \div d : d \in e.defaultDuration \ {0}},
                                    {1000000000 \div (m * w.scale) : m \in median})),
        !.observed = only(video, ObservedTicks(times, w.scale)),
        !.color = only(video, ColorSpaceOf(tags)),
        !.hdr = only(video, HdrOf(tags, e.color.light)),
        !.channels = only(audio, {e.channels} \ {0}),
        !.layout = only(audio, LayoutOf(e.channels)),
        !.bitDepth = only(audio, {e.bits} \ {0}),
        !.sampleRate = only(audio, IF t.class.codec = "opus" THEN {48000} ELSE e.sampling),
        !.codec = IF audio /\ @ = "pcm" /\ e.bits > 0 THEN PcmCodec(e.float, e.bits, e.big) ELSE @,
        !.cues = IF sub THEN SubSeq(cues, 1, Least(Len(cues), MaxCues)) ELSE <<>>]

\* The container of what the walk found.
MatroskaContainer(w, duration, gaps) ==
  LET timed == {t \in Range(w.tracks) : t.class.kind \in {"audio", "video"}}
      examined == \E t \in timed : TimesOf(w.blocks, t.entry.number) # <<>>
      numbers == {t.entry.number : t \in Range(w.tracks)}
  IN  [NewContainer EXCEPT
        !.streams = [i \in DOMAIN w.tracks |-> BuildMatroskaStream(w.tracks[i], w, duration)],
        !.duration = duration, !.timecode = {w.timecode},
        !.contiguous = IF examined THEN {gaps = {}} ELSE {}, !.gaps = gaps,
        !.malformed = w.notes \cup (IF \E b \in Range(w.blocks) : b.track \notin numbers THEN {"unknown track"} ELSE {}),
        !.validity = IF w.broken \/ w.truncated THEN "corrupt" ELSE "ok"]

\* No result is an error: a track is refused.
BuildMatroska(w) ==
  LET last == Largest({0} \cup {b.at + (IF b.duration = {} THEN 0 ELSE CHOOSE d \in b.duration : TRUE) :
                                  b \in Range(w.blocks)})
      duration == OrElse({TicksToMs(d, w.scale) : d \in UNION {i.duration : i \in w.info}},
                         {TicksToMs(t, w.scale) : t \in last \ {0}})
      timed == {t \in Range(w.tracks) : t.class.kind \in {"audio", "video"}}
  IN  IF HasRefusal([i \in DOMAIN w.tracks |-> w.tracks[i].class]) THEN {}
      ELSE IF w.tracks = <<>> THEN {Corrupt}
      ELSE {MatroskaContainer(w, duration, UNION {TrackGaps(TimesOf(w.blocks, t.entry.number), w.scale) : t \in timed})}

ProbeMatroska(file) ==
  LET headed == {n \in file.head : n <= file.length}
      found  == {p \in headed \X file.segment : p[1] + p[2].header <= file.length}
  IN  IF found = {} THEN {Corrupt}
      ELSE UNION {BuildMatroska(WalkSegment(file.length, f[1], f[2])) : f \in found}
=============================================================================
