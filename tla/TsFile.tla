------------------------------- MODULE TsFile -------------------------------
(***************************************************************************)
(* The reader of MPEG transport streams                                    *)
(* (crates/tpt-app-media-qc-probe/src/mpegts.rs).  A file is a sequence of *)
(* items: packets, junk (bytes that are no packet) and, at the end, part   *)
(* of a packet; bytes is the length of an item.  A packet has its error    *)
(* flag, pid, counter, discontinuity flag, pcr (optional), whether it has  *)
(* a payload, whether a unit starts in it, what it holds of sections (psi) *)
(* and of a unit (pes).  A section has the place of its pieces: tail is    *)
(* the piece that continues the open section, heads are the sections that  *)
(* begin, with the bytes that are here.  A section is a table, a PAT       *)
(* (programs: pairs of program and pid) or a PMT (program, streams), with  *)
(* whether it is long enough to be read (sound) and its CRC holds (intact).*)
(* Timestamps are in 90 kHz ticks and wrap at Wrap.                        *)
(***************************************************************************)
EXTENDS Codecs

CONSTANTS Wrap,          \* 2^33
          MaxTsPackets, MaxSequenceUnits

ASSUME TsAssumption == Wrap \in Nat \ {0} /\ MaxTsPackets \in Nat /\ MaxSequenceUnits \in Nat

PacketBytes == 188
TicksPerMs  == 90
NoPid       == 8191

Lookup(f, k, default) == IF k \in DOMAIN f THEN f[k] ELSE default
Put(f, k, v)      == [x \in DOMAIN f \cup {k} |-> IF x = k THEN v ELSE f[x]]

-----------------------------------------------------------------------------
(* Timestamps.                                                             *)

\* Variant of Unwrapped: the wrap of the counter is taken for a step back.
UnwrappedRaw(times, raw) == Append(times, raw)

\* The nearest time that has these bits, after the last one.
Unwrapped(times, raw) ==
  LET last == times[Len(times)]
      d    == raw - (last % Wrap)
      step == IF d < -(Wrap \div 2) THEN d + Wrap ELSE IF d > Wrap \div 2 THEN d - Wrap ELSE d
  IN  Append(times, IF times = <<>> THEN raw ELSE last + step)

Steps(times)     == [k \in 1 .. Len(times) - 1 |-> <<times[k], times[k + 1]>>]
TsMedian(times)  == Median(SelectSeq([k \in DOMAIN Steps(times) |-> Steps(times)[k][2] - Steps(times)[k][1]],
                                     LAMBDA d : d > 0))
Span(times)      == {x - y : x \in Largest(Range(times)), y \in Smallest(Range(times))} \ {0}
TsMs(ticks)      == Greatest(ticks, 0) \div TicksPerMs

\* Steps of at least 20 ms, half again as long as the median; and all steps back.
TsJumps(times) ==
  LET steps == Range(Steps(times))
      m == CHOOSE x \in OrElse(TsMedian(times), {0}) : TRUE
      skips == {s \in steps : s[2] - s[1] >= 20 * TicksPerMs /\ 2 * (s[2] - s[1]) > 3 * m}
      back  == {<<s[2], s[1]>> : s \in {x \in steps : x[2] < x[1]}}
  IN  skips \cup back

TsGaps(times) == {<<TsMs(s[1]), TsMs(s[2])>> : s \in TsJumps(times)}

-----------------------------------------------------------------------------
(* Sections.                                                               *)

NewTs == [packets |-> 0, transport |-> FALSE, crc |-> FALSE, synced |-> FALSE, losses |-> 0, refused |-> FALSE,
          counter |-> <<>>, missed |-> {}, seen |-> {}, clocks |-> <<>>, open |-> <<>>,
          programs |-> <<>>, done |-> {}, streams |-> <<>>, tracks |-> <<>>]

NewTrack == [bytes |-> 0, times |-> <<>>, sequence |-> {}, tried |-> 0]

\* Only the first table of a program counts, and only the first entry of a pid.
HandlePmt(st, section) ==
  LET entries == section.streams
      class(e) == ClassifyTs(e.type, e.registration, e.tags)
      first(p) == CHOOSE i \in DOMAIN entries : entries[i].pid = p /\ \A j \in 1 .. i - 1 : entries[j].pid # p
      new == {e.pid : e \in Range(entries)} \ DOMAIN st.streams
      entry(p) == [class |-> class(entries[first(p)]), entry |-> entries[first(p)]]
      timed == {p \in new : entry(p).class.class = "supported"}
  IN  IF HasRefusal([i \in DOMAIN entries |-> class(entries[i])]) THEN [st EXCEPT !.refused = TRUE]
      ELSE [st EXCEPT !.done = @ \cup {section.program},
                      !.streams = [p \in DOMAIN @ \cup new |-> IF p \in new THEN entry(p) ELSE @[p]],
                      !.tracks = [p \in DOMAIN @ \cup timed |-> IF p \in timed THEN NewTrack ELSE @[p]]]

HandleSection(st, pid, section) ==
  LET named(s, i) == LET p == section.programs[i]
                     IN  IF p[1] = 0 \/ p[1] \in DOMAIN s THEN s ELSE Put(s, p[1], p[2])
  IN  IF st.refused \/ ~section.sound THEN st
      ELSE IF ~section.intact THEN [st EXCEPT !.crc = TRUE]
      ELSE IF section.table = "pat" /\ pid = 0
      THEN [st EXCEPT !.programs = FoldLeft(named, @, [i \in DOMAIN section.programs |-> i])]
      ELSE IF section.table = "pmt" /\ Lookup(st.programs, section.program, NoPid) = pid /\ section.program \notin st.done
      THEN HandlePmt(st, section) ELSE st

\* open: the section that is not complete, how many bytes and pieces of it are here.  The
\* bytes of a piece that is not the next one break its CRC.
FeedPsi(st, pid, p) ==
  LET open == Lookup(st.open, pid, {})
      more(o) == [o EXCEPT !.got = @ + p.psi.tail.bytes, !.pieces = @ + 1,
                           !.section.intact = @ /\ p.psi.tail.piece = o.pieces + 1]
      continued == {more(o) : o \in open}
      begun == {[section |-> h.section, got |-> h.bytes, pieces |-> 1] : h \in Range(p.psi.heads)}
      whole(o) == o.got >= o.section.length
      ended == SetToSeq({o.section : o \in {x \in continued : whole(x)}})
      heads == SelectSeq(p.psi.heads, LAMBDA h : h.bytes >= h.section.length)
      rest  == {o \in (IF p.start THEN begun ELSE continued) : ~whole(o)}
      st1   == [st EXCEPT !.open = Put(@, pid, rest)]
  IN  FoldLeft(LAMBDA s, x : HandleSection(s, pid, x), st1,
               ended \o (IF p.start THEN [i \in DOMAIN heads |-> heads[i].section] ELSE <<>>))

\* A unit gives its timestamp; the first ones of an AV1 stream are searched for a sequence
\* header.
FeedPes(track, av1, p) ==
  LET t == [track EXCEPT !.bytes = @ + p.pes.bytes]
      wants == av1 /\ track.sequence = {} /\ track.tried < MaxSequenceUnits
  IN  IF ~p.start \/ ~p.pes.valid THEN t
      ELSE [t EXCEPT !.times = FoldLeft(Unwrapped, @, SetToSeq(p.pes.pts)),
                     !.sequence = IF wants THEN p.pes.sequence ELSE @,
                     !.tried = IF wants THEN @ + 1 ELSE @]

-----------------------------------------------------------------------------
(* Packets.                                                                *)

\* A repeated counter is a packet that was sent twice; one that skips is noted and used.
ProcessPacket(s, p) ==
  LET st    == [s EXCEPT !.packets = @ + 1]
      last  == Lookup(st.counter, p.pid, {})
      clock == [st EXCEPT !.seen = @ \cup {p.pid},
                          !.clocks = IF p.pcr = {} THEN @
                                     ELSE Put(@, p.pid, FoldLeft(Unwrapped, Lookup(@, p.pid, <<>>), SetToSeq(p.pcr)))]
      jump  == ~p.discontinuity /\ \E c \in last : p.counter # (c + 1) % 16
      used  == [clock EXCEPT !.counter = Put(@, p.pid, {p.counter}),
                             !.missed = IF jump THEN @ \cup {p.pid} ELSE @]
  IN  IF p.error THEN [st EXCEPT !.transport = TRUE]
      ELSE IF p.pid = NoPid \/ ~p.sound THEN st
      ELSE IF ~p.payload \/ (~p.discontinuity /\ last = {p.counter}) THEN clock
      ELSE IF p.pid = 0 \/ \E n \in DOMAIN st.programs : st.programs[n] = p.pid THEN FeedPsi(used, p.pid, p)
      ELSE IF p.pid \in DOMAIN st.tracks
      THEN [used EXCEPT !.tracks[p.pid] = FeedPes(@, st.streams[p.pid].class.codec = "av1", p)]
      ELSE used

\* In sync a packet is taken as it comes; out of sync only before another one, or at the end.
ScanItem(items, st, i) ==
  LET room == SumOf([k \in 1 .. Len(items) - i + 1 |-> items[i + k - 1].bytes])
      next == i = Len(items) \/ items[i + 1].kind # "junk"
  IN  IF st.refused \/ room < PacketBytes \/ st.packets >= MaxTsPackets THEN st
      ELSE IF items[i].kind = "packet" /\ (st.synced \/ next) THEN ProcessPacket([st EXCEPT !.synced = TRUE], items[i])
      ELSE [st EXCEPT !.losses = IF st.synced THEN @ + 1 ELSE @, !.synced = FALSE]

BuildTsStream(st, pid) ==
  LET e == st.streams[pid]
      t == Lookup(st.tracks, pid, NewTrack)
      is(kind) == e.class.class = "supported" /\ e.class.kind = kind
      ms == {TsMs(d) : d \in Span(t.times)}
      only(P, S) == IF P THEN S ELSE {}
      order == {"progressive"}
      name(profile) == CASE profile = 0 -> {"Main"} [] profile = 1 -> {"High"} [] profile = 2 -> {"Professional"}
                         [] OTHER -> {}
  IN  [BlankStream(e.class.kind, e.class.codec) EXCEPT
        !.native = {pid}, !.language = e.entry.language, !.metadata = [stream_type |-> e.entry.type],
        !.timebase = only(e.class.class = "supported", {<<1, 1000 * TicksPerMs>>}),
        !.duration = Seconds(ms), !.bitrate = BitsPerSecond(t.bytes, ms),
        !.order = only(is("video"), order),
        !.rate = only(is("video"), {(1000000 * TicksPerMs) \div m : m \in TsMedian(t.times)}),
        !.observed = only(is("video"), {((Len(t.times) - 1) * 1000000 * TicksPerMs) \div d : d \in Span(t.times)}),
        !.size = {a.size : a \in t.sequence}, !.profile = UNION {name(a.profile) : a \in t.sequence},
        !.pixels = UNION {PixelFormat(a.depth, a.chroma) : a \in t.sequence},
        !.bitDepth = {a.depth : a \in t.sequence},
        !.hdr = UNION {HdrOf(a.tags, NoLight) : a \in t.sequence},
        !.color = UNION {ColorSpaceOf(a.tags) : a \in t.sequence},
        !.sampleRate = only(e.class.codec = "opus", {48000}),
        !.channels = only(e.class.codec = "opus", e.entry.channels),
        !.layout = only(e.class.codec = "opus", UNION {LayoutOf(c) : c \in e.entry.channels})]

\* No result is an error: a stream is refused.
BuildTs(st, pids, times) ==
  LET spans == UNION {Span(q) : q \in times}
      clocks == UNION {Span(st.clocks[p]) : p \in DOMAIN st.clocks}
      gaps == UNION {TsGaps(q) : q \in times}
      notes == {<<"sync", 0>> : x \in {y \in {st.losses} : y > 0}} \cup {<<"counter", p>> : p \in st.missed}
               \cup (IF st.transport THEN {<<"transport", 0>>} ELSE {}) \cup (IF st.crc THEN {<<"crc", 0>>} ELSE {})
      absent == {<<"absent", p>> : p \in (DOMAIN st.streams \cup {st.programs[n] : n \in DOMAIN st.programs}) \ st.seen}
  IN  IF st.refused THEN {}
      ELSE IF st.done = {} THEN {[Corrupt EXCEPT !.malformed = notes]}
      ELSE {[NewContainer EXCEPT
              !.streams = [i \in DOMAIN pids |-> BuildTsStream(st, pids[i])],
              !.duration = {TsMs(d) : d \in OrElse(Largest(spans), Largest(clocks))},
              !.contiguous = IF \E q \in times : Len(q) >= 2 THEN {gaps = {}} ELSE {},
              !.gaps = gaps, !.malformed = notes \cup absent]}

ScanItems(items) == FoldLeft(LAMBDA s, i : ScanItem(items, s, i), NewTs, [i \in DOMAIN items |-> i])

ProbeTs(items) ==
  LET built(st) == BuildTs(st, SetToSortSeq(DOMAIN st.streams, LAMBDA a, b : a < b),
                           {st.tracks[p].times : p \in DOMAIN st.tracks})
  IN  built(ScanItems(items))
=============================================================================
