------------------------------- MODULE Codecs -------------------------------
(***************************************************************************)
(* What the readers of container formats share                             *)
(* (crates/tpt-app-media-qc-probe/src: codec.rs, common.rs, hdr.rs and     *)
(* sniff.rs): the kind of a file by its first bytes, the list of codecs    *)
(* that are read, the records of a stream and of a container, and colors.  *)
(* Handler types, sample entries, codec ids and stream types are names.    *)
(* Rates are in thousandths of a frame per second.                         *)
(***************************************************************************)
EXTENDS Values

CONSTANTS MaxBuffered,   \* bytes of a box or a chunk that are read
          MaxTracks, MaxGaps, MaxCues

ASSUME CodecsAssumption == {MaxBuffered, MaxTracks, MaxGaps, MaxCues} \subseteq Nat

-----------------------------------------------------------------------------
(* The kind of a file.  head: the magic it starts with and how much of it  *)
(* is there (bytes).                                                       *)

SniffNeed == [wav |-> 12, aiff |-> 12, flac |-> 4, ogg |-> 4, mkv |-> 4, mp4 |-> 12, ts |-> 565]

Sniff(magic, length) ==
  IF magic \in DOMAIN SniffNeed /\ length >= SniffNeed[magic] THEN {magic} ELSE {}

-----------------------------------------------------------------------------
(* Classes of tracks.                                                      *)

Supported(codec, kind) == [class |-> "supported", codec |-> codec, kind |-> kind]
Passive(codec, kind)   == [class |-> "passive", codec |-> codec, kind |-> kind]
Refused                == [class |-> "refused", codec |-> "none", kind |-> "unknown"]

IsoPcm == {"ipcm", "fpcm", "sowt", "twos", "in24", "in32", "fl32", "fl64", "raw", "lpcm"}

\* By the handler type and the first sample entry.
ClassifyIso(handler, fourcc) ==
  CASE handler = "vide" -> IF fourcc = "av01" THEN Supported("av1", "video")
                           ELSE IF fourcc = "vp09" THEN Supported("vp9", "video") ELSE Refused
    [] handler = "soun" -> IF fourcc = "Opus" THEN Supported("opus", "audio")
                           ELSE IF fourcc = "fLaC" THEN Supported("flac", "audio")
                           ELSE IF fourcc \in IsoPcm THEN Supported("pcm", "audio") ELSE Refused
    [] handler \in {"text", "sbtl", "subt"} ->
                           IF fourcc = "wvtt" THEN Supported("webvtt", "subtitle")
                           ELSE IF fourcc = "tx3g" THEN Supported("tx3g", "subtitle") ELSE Passive(fourcc, "subtitle")
    [] OTHER            -> Passive(fourcc, "data")

MatroskaSubtitles == [utf8 |-> "subrip", ass |-> "ass", ssa |-> "ssa", webvtt |-> "webvtt"]

\* By the codec id and the track type.
ClassifyMatroska(id, type) ==
  CASE type = "video"    -> IF id \in {"av1", "vp9"} THEN Supported(id, "video") ELSE Refused
    [] type = "audio"    -> IF id \in {"opus", "vorbis", "flac", "pcm"} THEN Supported(id, "audio") ELSE Refused
    [] type = "subtitle" -> IF id \in DOMAIN MatroskaSubtitles THEN Supported(MatroskaSubtitles[id], "subtitle")
                            ELSE Passive(id, "subtitle")
    [] OTHER             -> Passive(id, "data")

\* By the stream type, the registration (optional) and the tags of the other descriptors.
\* Types: private (0x06), sections (0x05), metadata (0x14, 0x15, 0x86), dolby (0x81), other
\* video and audio types by their family.
ClassifyTs(type, registration, tags) ==
  CASE type \in {"private", "dolby"} /\ registration = {"AV01"} -> Supported("av1", "video")
    [] type = "private" /\ registration = {"av01"} -> Supported("av1", "video")
    [] type = "private" /\ registration = {"vp09"} -> Supported("vp9", "video")
    [] type = "private" /\ registration = {"Opus"} -> Supported("opus", "audio")
    [] type = "private" /\ registration = {"fLaC"} -> Supported("flac", "audio")
    [] type = "private" /\ tags \cap {"teletext", "dvb"} # {} -> Passive("dvb_subtitle", "subtitle")
    [] type = "private" /\ tags \cap {"ac3", "eac3", "dts"} # {} -> Refused
    [] type \in {"private", "sections", "metadata"} -> Passive(type, "data")
    [] type \in {"mpeg_video", "mpeg_audio", "dolby"} -> Refused
    [] OTHER -> Passive(type, "data")

\* A file with one such track is not read at all.
HasRefusal(classes) == \E i \in DOMAIN classes : classes[i].class = "refused"

-----------------------------------------------------------------------------
(* Streams and containers.                                                 *)

NoTags == [k \in {} |-> ""]

BlankStream(kind, codec) ==
  [index |-> 0, native |-> {}, kind |-> kind, codec |-> codec, profile |-> {}, size |-> {}, pixels |-> {},
   order |-> {}, rate |-> {}, timebase |-> {}, bitrate |-> {}, duration |-> {}, language |-> {}, layout |-> {},
   channels |-> {}, sampleRate |-> {}, bitDepth |-> {}, observed |-> {}, color |-> {}, hdr |-> {},
   cues |-> <<>>, metadata |-> NoTags]

NewContainer ==
  [streams |-> <<>>, duration |-> {}, timecode |-> {}, contiguous |-> {}, gaps |-> {}, malformed |-> {},
   validity |-> "ok"]

Corrupt == [NewContainer EXCEPT !.validity = "corrupt"]

\* What the names of the PCM codecs tell apart: kind of number, bits, and byte order.
PcmCodec(float, bits, big) ==
  CASE bits = 8 /\ ~float               -> "pcm_u8"
    [] bits \in {16, 24, 32} /\ ~float  -> IF big THEN "pcm_int_be" ELSE "pcm_int_le"
    [] bits \in {32, 64} /\ float       -> IF big THEN "pcm_float_be" ELSE "pcm_float_le"
    [] OTHER                            -> "pcm"

\* A pixel format is known for three depths.
PixelFormat(depth, chroma) ==
  IF depth \in {8, 10, 12} THEN {[name |-> <<chroma, depth>>, depth |-> depth]} ELSE {}

LayoutOf(channels) ==
  CASE channels = 1 -> {"mono"} [] channels = 2 -> {"stereo"} [] channels = 6 -> {"5.1"}
    [] channels = 8 -> {"7.1"} [] OTHER -> {}

\* bytes over ms, in bits per second.
BitsPerSecond(bytes, duration) == {(8000 * bytes) \div d : d \in {x \in duration : x > 0}}

\* A stream keeps whole seconds, rounded.
Seconds(duration) == {(d + 500) \div 1000 : d \in duration}

-----------------------------------------------------------------------------
(* Color.  tags: primaries, transfer, matrix, range as code points of      *)
(* ITU-T H.273 (optional); the names are those of the instance.            *)

ColorName(code) == IF code \in {"unspecified", "reserved"} THEN {} ELSE {code}

\* hdr: what the container knows of the light levels; {} if nothing at all is signalled.
HdrOf(tags, light) ==
  LET named(S) == UNION {ColorName(c) : c \in S}
      h == [transfer |-> named(tags.transfer), primaries |-> named(tags.primaries), matrix |-> named(tags.matrix),
            range |-> tags.range, cll |-> light.cll, fall |-> light.fall, minNits |-> light.minNits,
            maxNits |-> light.maxNits, mastering |-> light.mastering, dolby |-> FALSE]
      empty == /\ h.transfer = {} /\ h.primaries = {} /\ h.matrix = {} /\ h.range = {}
               /\ h.cll = {} /\ h.fall = {} /\ ~h.mastering
  IN  IF empty THEN {} ELSE {h}

ColorSpaceOf(tags) == UNION {ColorName(c) : c \in tags.matrix}

\* Tags of two sources: the second one fills what the first one does not have.
FillTags(first, second) == [t \in DOMAIN first |-> OrElse(first[t], second[t])]

NoColor == [transfer |-> {}, primaries |-> {}, matrix |-> {}, range |-> {}]
NoLight == [cll |-> {}, fall |-> {}, minNits |-> {}, maxNits |-> {}, mastering |-> FALSE]
=============================================================================
