----------------------------- MODULE MCAnalysis -----------------------------
(***************************************************************************)
(* The instance of Analysis: files in seven formats, whole, cut and with   *)
(* what the readers refuse, pictures of two cells, three frames at most,   *)
(* two profiles, and the questions.  It also checks three algorithms,      *)
(* which no behaviour is about, against what they promise, for all inputs  *)
(* of the instance.                                                        *)
(***************************************************************************)
EXTENDS Analysis

-----------------------------------------------------------------------------
\* What every file has: magic, length, name, the times of its frames and its tracks.
OfFile(magic, length, extension, times, tracks) ==
  [magic |-> magic, length |-> length, extension |-> extension, times |-> times, tracks |-> tracks,
   fits |-> TRUE,
   sidecars |-> [expected |-> [there |-> TRUE, text |-> {<<"a", "b">>}], plain |-> [there |-> TRUE, text |-> {<<"a", "c">>}],
                 json |-> [there |-> FALSE, text |-> {}]],
   speech |-> {[regions |-> <<<<0, 10>>, <<30, 60>>>>, turns |-> <<"x", "y">>, speakers |-> 2, total |-> 100]}]

With(f, content) == [k \in DOMAIN f \cup DOMAIN content |-> IF k \in DOMAIN content THEN content[k] ELSE f[k]]

-----------------------------------------------------------------------------
(* MP4.                                                                    *)

Tags709  == [transfer |-> {"bt709"}, primaries |-> {"bt709"}, matrix |-> {"bt709"}, range |-> {"tv"}]
TagsPq   == [transfer |-> {"pq"}, primaries |-> {"bt2020"}, matrix |-> {"unspecified"}, range |-> {"tv"}]
SomeLight == [cll |-> {400}, fall |-> {100}, minNits |-> {1}, maxNits |-> {1000}, mastering |-> TRUE]

VideoEntry == [nclx |-> {TagsPq}, light |-> SomeLight, fields |-> {}, size |-> {<<2, 1>>},
               config |-> {[transfer |-> {}, primaries |-> {}, matrix |-> {"bt2020"}, range |-> {}, profile |-> "Main",
                            depth |-> 10, chroma |-> 420]}]
SoundEntry == [dfla |-> {}, dops |-> {2}, pcmc |-> {}, enda |-> {}, flags |-> {}, bits |-> 16, rate |-> 48000,
               channels |-> 2]

Trak(base, id, handler, fourcc, entry, texts, deltas, offset) ==
  [tkhd |-> [at |-> base, size |-> 92, id |-> id],
   mdhd |-> [at |-> base + 100, size |-> 32, scale |-> 1000, duration |-> {SumOf(deltas)}, language |-> {"en"}],
   hdlr |-> [at |-> base + 140, size |-> 40, handler |-> handler],
   stsd |-> [at |-> base + 190, size |-> 100, fourcc |-> fourcc, entry |-> entry, texts |-> texts],
   stts |-> [at |-> base + 290, size |-> 64, entries |-> [i \in DOMAIN deltas |-> <<1, deltas[i]>>]],
   stsc |-> [at |-> base + 360, size |-> 28, entries |-> <<<<1, Len(deltas)>>>>],
   stsz |-> [at |-> base + 390, size |-> 64, entries |-> [i \in DOMAIN deltas |-> 10]],
   stco |-> [at |-> base + 460, size |-> 20, entries |-> <<offset>>]]

TrakBytes == 490

Mvhd == [mvhd |-> [at |-> 0, size |-> 108, scale |-> 1000, duration |-> {}]]

Moov(traks) == [mvhd |-> Mvhd, traks |-> traks]
MoovBytes(n) == 8 + 108 + n * TrakBytes

Box(kind, size, moov) == [kind |-> kind, large |-> FALSE, size |-> size, moov |-> moov]

NoMoov == Moov(<<>>)

\* A moov of n tracks and its samples, in either order.
IsoFirst(traks, data) ==
  <<Box("ftyp", 16, NoMoov), Box("moov", MoovBytes(Len(traks)), Moov(traks)), Box("mdat", 8 + data, NoMoov)>>
IsoLast(traks, data) ==
  <<Box("ftyp", 16, NoMoov), Box("mdat", 8 + data, NoMoov), Box("moov", MoovBytes(Len(traks)), Moov(traks))>>

IsoBytes(traks, data) == 24 + MoovBytes(Len(traks)) + data

Cue == {[valid |-> TRUE, chars |-> 10, lines |-> 1]}

Gapped == <<40, 40, 40, 240, 40>>
Steady == <<40, 40>>

\* The first byte of the samples: behind a moov of n tracks, or before it.
DataAt(n, last) == IF last THEN 24 ELSE 24 + MoovBytes(n)

FilmTraks(deltas, at) ==
  <<Trak(116, 1, "vide", "av01", VideoEntry, <<>>, deltas, at),
    Trak(116 + TrakBytes, 2, "soun", "Opus", SoundEntry, <<>>, Steady, at + 50),
    Trak(116 + 2 * TrakBytes, 3, "text", "tx3g", SoundEntry, <<<<Cue>>, <<Cue>>>>, Steady, at + 70)>>

FilmTracks(n) == <<[id |-> 2, codec |-> "opus", samples |-> {2}], [id |-> 1, codec |-> "av1", samples |-> {n}]>>

Film(deltas, cut, last) ==
  LET traks == FilmTraks(deltas, DataAt(3, last))
  IN  With(OfFile("mp4", IsoBytes(traks, 100) - cut, "mp4", StartsOf(deltas), FilmTracks(Len(deltas))),
           [boxes |-> IF last THEN IsoLast(traks, 100) ELSE IsoFirst(traks, 100)])

\* Cut behind the first byte of its samples: no place of a sample lies beyond the end.
ShortFilm(cut) ==
  LET traks == SubSeq(FilmTraks(Steady, DataAt(2, FALSE)), 1, 2)
  IN  With(OfFile("mp4", IsoBytes(traks, 1500) - cut, "mp4", StartsOf(Steady), FilmTracks(2)),
           [boxes |-> IsoFirst(traks, 1500)])

\* Two video tracks, of which the demuxer finds what tracks says.
TwoPictures(handler, tracks) ==
  LET traks == <<Trak(116, 1, handler, "av01", VideoEntry, <<>>, Steady, DataAt(2, TRUE)),
                 Trak(116 + TrakBytes, 5, "vide", "vp09", VideoEntry, <<>>, Steady, DataAt(2, TRUE) + 20)>>
  IN  With(OfFile("mp4", IsoBytes(traks, 100), "mp4", <<>>, tracks), [boxes |-> IsoLast(traks, 100)])

Vp9Track == [id |-> 5, codec |-> "vp9", samples |-> {2}]

\* The demuxer drops the damaged first track; the second then stands at its place.
DroppedFilm == TwoPictures("vide", <<Vp9Track>>)

\* The first track is auxiliary: data for the metadata pass, video for the demuxer.
AuxiliaryFilm == TwoPictures("auxv", <<[id |-> 1, codec |-> "av1", samples |-> {2}], Vp9Track>>)

\* The last of four boxes is cut; the reader walks three.
LongFilm ==
  LET traks == <<Trak(116, 1, "vide", "av01", VideoEntry, <<>>, Steady, DataAt(1, FALSE))>>
  IN  With(OfFile("mp4", IsoBytes(traks, 100) + 28, "mp4", <<>>, <<[id |-> 1, codec |-> "av1", samples |-> {2}]>>),
           [boxes |-> IsoFirst(traks, 100) \o <<Box("mdat", 58, NoMoov)>>])

Licensed ==
  LET traks == <<Trak(116, 1, "vide", "avc1", VideoEntry, <<>>, Steady, DataAt(1, TRUE))>>
  IN  With(OfFile("mp4", IsoBytes(traks, 100), "mp4", <<>>, <<>>), [boxes |-> IsoLast(traks, 100)])

-----------------------------------------------------------------------------
(* Matroska.                                                               *)

MkvTrack(at, number, type, id) ==
  [at |-> at, size |-> 50, number |-> number, type |-> type, codecId |-> {id}, language |-> {"de"}, metadata |-> NoTags,
   width |-> 2, height |-> 1, interlaced |-> 2, order |-> {}, defaultDuration |-> {}, channels |-> 2, bits |-> 0,
   float |-> FALSE, big |-> FALSE, sampling |-> {48000}, config |-> {},
   color |-> [transfer |-> {}, primaries |-> {}, matrix |-> {"bt709"}, range |-> {1}, light |-> NoLight]]

Element(id, bytes, content) == With([id |-> id, header |-> 5, size |-> {bytes}], content)

Block1(track, rel, text) ==
  Element("block", 20, [track |-> {track}, rel |-> rel, duration |-> IF text = {} THEN {} ELSE {100}, bytes |-> 20,
                        text |-> text])

MkvBlocks(times) == [i \in DOMAIN times |-> Block1(1, times[i] - 1000, {})]

Cluster(size, blocks) ==
  [id |-> "cluster", header |-> 5, size |-> size,
   elements |-> <<Element("timestamp", 5, [time |-> 1000])>> \o blocks]

MkvTimes == <<1000, 1040, 1080, 1120, 1360, 1400>>

MkvElements(known) ==
  LET blocks == MkvBlocks(MkvTimes) \o <<Block1(2, 0, {}), Block1(3, 0, Cue), Block1(3, 50, Cue)>>
      bytes  == 10 + 25 * Len(blocks)
  IN  <<Element("info", 20, [info |-> [scale |-> 1000, duration |-> {1500}]]),
        Element("tracks", 150, [entries |-> <<MkvTrack(0, 1, "video", "vp9"), MkvTrack(50, 2, "audio", "vorbis"),
                                              MkvTrack(100, 3, "subtitle", "utf8")>>]),
        Cluster(IF known THEN {bytes} ELSE {}, blocks),
        Element("tags", 10, [timecode |-> TRUE])>>

MkvBytes == 40 + 12 + 25 + 155 + 5 + 10 + 25 * 9 + 15

MkvFile(known, cut) ==
  With(OfFile("mkv", MkvBytes - cut, "mkv", MkvTimes,
             <<[id |-> 1, codec |-> "vp9", samples |-> {}], [id |-> 2, codec |-> "vorbis", samples |-> {}]>>),
       [head |-> {40},
        segment |-> {[header |-> 12, size |-> IF known THEN {MkvBytes - 52} ELSE {}, elements |-> MkvElements(known)]}])

-----------------------------------------------------------------------------
(* Transport streams: the clock wraps after 728 ms.                        *)

NoPes == [valid |-> FALSE, bytes |-> 0, pts |-> {}, sequence |-> {}]
NoPsi == [tail |-> [piece |-> 1, bytes |-> 0], heads |-> <<>>]

Packet(pid, counter, start, psi, pes) ==
  [kind |-> "packet", bytes |-> 188, error |-> FALSE, pid |-> pid, sound |-> TRUE, counter |-> counter,
   discontinuity |-> FALSE, pcr |-> IF pid = 256 THEN pes.pts ELSE {}, payload |-> TRUE, start |-> start, psi |-> psi,
   pes |-> pes]

SectionIn(section, bytes) == [tail |-> [piece |-> 1, bytes |-> 0], heads |-> <<[section |-> section, bytes |-> bytes]>>]

Pat == [table |-> "pat", length |-> 16, sound |-> TRUE, intact |-> TRUE, programs |-> <<<<1, 100>>>>]

TsEntry(pid, registration) ==
  [pid |-> pid, type |-> "private", registration |-> {registration}, tags |-> {}, language |-> {}, channels |-> {2}]

Pmt == [table |-> "pmt", length |-> 300, sound |-> TRUE, intact |-> TRUE, program |-> 1,
        streams |-> <<TsEntry(257, "Opus"), TsEntry(256, "AV01")>>]

Sequence == [size |-> <<2, 1>>, profile |-> 0, depth |-> 8, chroma |-> 420, tags |-> Tags709]

Unit(times, i) ==
  Packet(256, i - 1, TRUE, NoPsi,
         [valid |-> TRUE, bytes |-> 100, pts |-> {(90 * times[i]) % Wrap}, sequence |-> IF i = 1 THEN {Sequence} ELSE {}])

TsTimes == <<600, 640, 680, 720, 760, 800, 1040, 1080>>

TsItems(lost) ==
  <<Packet(0, 0, TRUE, SectionIn(Pat, 16), NoPes),
    Packet(100, 0, TRUE, SectionIn(Pmt, 183), NoPes),
    Packet(100, IF lost THEN 2 ELSE 1, FALSE, [tail |-> [piece |-> IF lost THEN 3 ELSE 2, bytes |-> 184], heads |-> <<>>], NoPes)>>
  \o [i \in DOMAIN TsTimes |-> Unit(TsTimes, i)]
  \o <<[kind |-> "junk", bytes |-> 7], Packet(257, 0, TRUE, NoPsi, NoPes), Packet(257, 0, TRUE, NoPsi, NoPes)>>

TsVideo(lost) ==
  With(OfFile("ts", 188 * 13 + 7, "ts", IF lost THEN <<>> ELSE TsTimes,
             IF lost THEN <<>> ELSE <<[id |-> 256, codec |-> "av1", samples |-> {}]>>),
       [items |-> TsItems(lost)])

-----------------------------------------------------------------------------
(* Sound files.                                                            *)

Fmt == [id |-> "fmt", size |-> 16, declared |-> {16},
        format |-> {[tag |-> "integer", channels |-> 2, rate |-> 10, bits |-> 16, valid |-> {}]}]
Data(size) == [id |-> "data", size |-> size, declared |-> {size}, format |-> {}]

Wav(cut) == With(OfFile("wav", 12 + 24 + 8 + 100 - cut, "wav", <<>>, <<>>), [chunks |-> <<Fmt, Data(100)>>])

Aiff == With(OfFile("aiff", 200, "aiff", <<>>, <<>>),
             [chunks |-> <<[id |-> "COMM", size |-> 18, declared |-> {18},
                            format |-> {[channels |-> 1, frames |-> 20, bits |-> 16, rate |-> 10, compression |-> "NONE"]}],
                           [id |-> "SSND", size |-> 48, declared |-> {48}, format |-> {}]>>])

\* A name that promises another format.
Flac == With(OfFile("flac", 500, "wav", <<>>, <<>>),
             [info |-> {[rate |-> 10, channels |-> 2, bits |-> 24, samples |-> 30]}])

Ogg == With(OfFile("ogg", 500, "ogg", <<>>, <<>>),
            [packet |-> {[codec |-> "vorbis", channels |-> 2, rate |-> 10, nominal |-> {}]}, last |-> {30}])

Empty   == OfFile("none", 0, "wav", <<>>, <<>>)

\* The film that is 108 bytes short ends with its moov: none of its boxes is cut.
CutFiles == {Film(Steady, 150, TRUE), ShortFilm(60), Film(Steady, 108, FALSE), MkvFile(TRUE, 40), Wav(20)}

MCFiles == {Film(Gapped, 0, FALSE), Film(Steady, 0, TRUE), ShortFilm(0), DroppedFilm, AuxiliaryFilm, LongFilm, Licensed,
            MkvFile(TRUE, 0), MkvFile(FALSE, 0), TsVideo(FALSE), TsVideo(TRUE), Wav(0), Aiff, Flac, Ogg, Empty}
           \cup CutFiles

\* Lost tells the files that are cut where their reader looks from the others.
ASSUME LostIsCut == {f \in MCFiles : Lost(f)} = CutFiles

\* Decode and metadata are to "agree on which stream a measurement belongs to even when a
\* container parser drops a damaged track the other one kept" (decode/src/lib.rs:103-105).  When
\* the demuxer dropped the preferred track they do not: the frames of another track count for
\* the stream that has the number of its place.
ASSUME FallbackCollides ==
  \E c \in ChooseTrack(DroppedFilm, Metadata(DroppedFilm).streams), s \in PreferredVideo(Metadata(DroppedFilm).streams) :
    s.index = c.stream /\ s.native # {DroppedFilm.tracks[c.track].id}

-----------------------------------------------------------------------------
(* Pictures of two cells, and sounds.                                      *)

MCLuminance == [v \in {10, 100, 220} |-> (v * 1000) \div 255]

Picture(q) == [luma |-> q, red |-> <<0, 0>>, block |-> {}, blur |-> {50}, noise |-> {1}]

MCPictures == {Picture(<<10, 10>>), Picture(<<100, 220>>)}

MCGaps == {0 - 40, 0, 40}

MCSounds == {[samples |-> <<0, 0>>, energy |-> 0, reach |-> 0], [samples |-> <<10, 5>>, energy |-> 60, reach |-> 11]}

MCVoice == [speech |-> TRUE, transcript |-> TRUE]

-----------------------------------------------------------------------------
(* The profiles of the checks: every rule of the catalogue, and a few.     *)

None == [severity |-> "error"]

AllRules ==
  [container |-> [readable |-> None, container_validity |-> None, malformed_metadata |-> None, timecode_present |-> None,
                  unexpected_streams |-> None, duration_consistency |-> [tolerance |-> 1000], bitrate |-> [min |-> 1],
                  timebase |-> [value |-> <<1, 1000>>], timestamp_continuity |-> [max |-> 100],
                  stream_presence |-> [minVideo |-> 0, minAudio |-> 1, maxStreams |-> 4]],
   video |-> [resolution |-> [expected |-> <<2, 1>>], frame_rate |-> [expected |-> 25000, tolerance |-> 10],
              aspect_ratio |-> [num |-> 2, den |-> 1, tolerance |-> 10], color_space |-> [expected |-> "bt709"],
              black_frames |-> [max |-> 50], freeze_frames |-> [max |-> 90], duplicate_frames |-> [max |-> 0],
              corrupt_frames |-> [max |-> 0], luma_range |-> [max |-> 400],
              scan_format |-> [scan |-> "progressive", fields |-> "any"], photosensitivity |-> [limit |-> 1],
              hdr |-> [mode |-> "hdr10", needStatic |-> TRUE, maxCll |-> {1000}, maxFall |-> {}],
              dead_pixels |-> [flicker |-> TRUE, max |-> 0, maxClusters |-> 0, needAll |-> FALSE],
              blockiness |-> [minShare |-> 50, max |-> 2, maxFrame |-> {}], blur |-> [min |-> 10],
              noise |-> [minShare |-> 50, max |-> 3]],
   audio |-> [sample_rate |-> [expected |-> 48000], bit_depth |-> [expected |-> 16],
              channel_layout |-> [channels |-> 2, layout |-> {"stereo"}], silence |-> [max |-> 150],
              clipping |-> [max |-> 1], peak |-> [max |-> 9], true_peak |-> [max |-> 10],
              loudness |-> [target |-> 50, tolerance |-> 20], phase |-> [min |-> 0], dc_offset |-> [max |-> 2]],
   subtitle |-> [presence |-> [min |-> 0, max |-> {2}], language |-> [required |-> {"eng"}, minTracks |-> 1],
                 timing |-> [maxInvalid |-> 0, maxOverlaps |-> 0, maxGap |-> {1000}, maxCue |-> {1000}],
                 content |-> [maxMalformed |-> 0, maxEmpty |-> 0, maxChars |-> {42}, maxLines |-> {2}],
                 duration_match |-> [tolerance |-> 500, allowLonger |-> TRUE]],
   voice |-> [speech |-> [expect |-> "present", minRatio |-> 20], silence |-> [max |-> 50],
              speakers |-> [min |-> {1}, max |-> {2}], speaker_changes |-> [max |-> 60],
              transcript |-> [maxWer |-> 60, maxUnexpected |-> 1]]]

FewRules ==
  [container |-> [readable |-> None, timestamp_continuity |-> [max |-> 100]],
   video |-> [black_frames |-> [max |-> 50], blur |-> [min |-> 10]]]

MCProfiles == {AllRules, FewRules}

Rule(name, scope, metric, op, operands) ==
  [id |-> <<"custom", name>>, scope |-> scope, target |-> IF scope = "container" THEN "unset" ELSE "all", metric |-> metric,
   op |-> op, operands |-> operands, tolerance |-> 0]

Wide1  == Rule("wide", "video", "width", "ge", <<Number(2)>>)
Codec1 == Rule("codec", "audio", "codec", "one_of", <<Text("opus"), Text("vorbis")>>)

MCCustom == <<Wide1, Codec1>>

-----------------------------------------------------------------------------
(* Questions.                                                              *)

Sample(kind) ==
  CASE kind \in {"u64", "u32"} -> Whole(1) [] kind = "f64" -> Real(50) [] kind = "bool" -> Flag(TRUE)
    [] kind = "string" -> Txt("x") [] kind = "strings" -> List(<<"eng">>) [] kind = "scan" -> Txt("progressive")
    [] kind = "hdr_mode" -> Txt("hlg") [] kind = "standard" -> Txt("bs1770") [] kind = "expect" -> Txt("present")
    [] kind = "resolution" -> Txt("2x1") [] kind = "ratio" -> Txt("2:1") [] kind = "rational" -> Txt("25")
    [] kind = "fields" -> Txt("tff")

\* Each rule with all its keys, with a key too many, without any, and as a scalar.
Entries(schema) ==
  LET full == [k \in DOMAIN schema.kinds |-> Sample(schema.kinds[k])]
  IN  {Keys(full), Keys(With(full, [unknown |-> Whole(1)])), Keys(NoKeys), Txt("error"), Whole(5)}

MCDocuments ==
  UNION {UNION {{[x \in {g} |-> [y \in {r} |-> e]] : e \in Entries(Groups[g][r])} : r \in DOMAIN Groups[g]} : g \in DOMAIN Groups}
  \cup {[g \in DOMAIN Groups |-> [r \in DOMAIN Groups[g] |->
          Keys([k \in DOMAIN Groups[g][r].kinds |-> Sample(Groups[g][r].kinds[k])])]]}

MCCustomLists == {<<>>, MCCustom, <<Wide1, Wide1>>}
MCPluginLists == {<<>>, <<<<"acme", "wide">>>>, <<<<"custom", "wide">>>>}

Operands == {<<Number(1)>>, <<Text("av1")>>, <<Number(1), Number(3)>>, <<Text("av1"), Number(2)>>, <<>>}

MCCustomRulesAsked ==
  {[Rule("asked", "video", m, op, q) EXCEPT !.tolerance = t] :
     m \in {"width", "codec"}, op \in Ops, q \in Operands, t \in {0, 1}}

MCReadings == {Number(1), Number(2), Number(4), Text("av1"), Text("vp9")}

Cumulated(q) == [k \in DOMAIN q |-> SumOf(SubSeq(q, 1, k))]

MCFlashTimes == {Cumulated(q) : q \in BoundedSeq({150, 400, 900}, 6)}
MCFlashLimits == {1, 2}

-----------------------------------------------------------------------------
(* References for the algorithms that are functions of their input only.   *)

\* Texts of up to three of three words.
SomeTexts == BoundedSeq({"a", "b", "c"}, 3)

\* The cost of the alignment that EditCounts finds is the least of all.
ASSUME EditCountsAreMinimal ==
  \A r, h \in SomeTexts :
    {Cost(EditCounts(r, h))} = Smallest({CostOf(A, r, h) : A \in Alignments(r, h)})

\* A gain that is planned brings the loudness to the target and no peak above the ceiling;
\* one that would not is refused.
ASSUME PlannedGainIsSafe ==
  \A target, level \in {-30, -23, -10}, peak \in {-20, -5, 0} :
    LET plan == PlanCorrection([loudness |-> {level}, truePeak |-> {peak}, dc |-> 0],
                               [target |-> {target}, ceiling |-> -1, offset |-> FALSE])
    IN  /\ \A g \in plan.gain : level + g = target /\ peak + g <= -1
        /\ plan.gain = {} => level = target \/ plan.refused

\* What correct leaves behind: never a staged file, never a changed output.
ASSUME CorrectionLeavesNoTrace ==
  \A gain \in {{}, {3}}, offset, decodes \in BOOLEAN, output \in {"none", "other"} :
    LET r == ApplyCorrection([gain |-> gain, offset |-> offset, refused |-> FALSE], output, decodes)
    IN  r.staged = "none" /\ (output = "other" => r.output = "other")
=============================================================================
