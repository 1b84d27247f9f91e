------------------------------- MODULE Probe --------------------------------
(***************************************************************************)
(* The metadata pass (crates/tpt-app-media-qc-probe/src: lib.rs and        *)
(* subtitles.rs): the reader of a file is chosen by its first bytes; what  *)
(* it found becomes an inspection, with the measurements of the subtitle   *)
(* cues.  The text of a cue is nothing (no payload) or whether it is text  *)
(* (valid), the characters of its longest line and its lines.              *)
(***************************************************************************)
EXTENDS IsoFile, MatroskaFile, TsFile, AudioFiles

\* Nothing is an error: an unknown kind of file, or a codec that is not read.
ProbeFile(f) ==
  LET read(kind) ==
        CASE kind = "mp4"  -> ProbeIso(f)  [] kind = "mkv" -> ProbeMatroska(f)  [] kind = "ts" -> ProbeTs(f.items)
          [] kind = "wav"  -> ProbeWav(f)  [] kind = "aiff" -> ProbeAiff(f)
          [] kind = "flac" -> ProbeFlac(f) [] kind = "ogg" -> ProbeOgg(f)
  IN  UNION {read(kind) : kind \in Sniff(f.magic, f.length)}

-----------------------------------------------------------------------------
(* Subtitles.                                                              *)

TextSubtitles == {"subrip", "srt", "ass", "ssa", "webvtt", "tx3g", "text"}

\* In order of presentation; a cue is compared with the next one only.
MeasureSubtitle(index, codec, found) ==
  LET cues == SortSeq(SubSeq(found, 1, Least(Len(found), MaxCues)),
                      LAMBDA a, b : a.start < b.start \/ (a.start = b.start /\ a.end < b.end))
      text == codec \in TextSubtitles
      count(P(_)) == Len(SelectSeq(cues, P))
      meets == [k \in 1 .. Len(cues) - 1 |-> cues[k + 1].start - cues[k].end]
      lines == UNION {cues[k].text : k \in {j \in DOMAIN cues : text}}
      read  == {l \in lines : l.valid}
  IN  [stream |-> index, text |-> text, cues |-> {Len(cues)},
       invalid   |-> count(LAMBDA c : c.end <= c.start),
       overlaps  |-> Len(SelectSeq(meets, LAMBDA d : d < 0)),
       gap       |-> Largest({d \in Range(meets) : d >= 0}),
       empty     |-> count(LAMBDA c : text /\ \E l \in c.text : l.valid /\ l.chars = 0 /\ l.lines = 0),
       malformed |-> count(LAMBDA c : text /\ \E l \in c.text : ~l.valid),
       longest   |-> Largest({Greatest(0, c.end - c.start) : c \in Range(cues)}),
       covered   |-> Largest({c.end : c \in Range(cues)}),
       chars     |-> Largest({l.chars : l \in read}),
       lines     |-> Largest({l.lines : l \in read})]

-----------------------------------------------------------------------------
(* The inspection.                                                         *)

NoVideoMeasure(index) ==
  [stream |-> index, rate |-> {}, colorspace |-> {}, order |-> {}, hdr |-> {}, frames |-> {}, errors |-> 0,
   black |-> {}, freeze |-> {}, duplicates |-> 0, luma |-> {}, dead |-> {}, perceptual |-> {}, flash |-> {}]

NoAudioMeasure(index) ==
  [stream |-> index, frames |-> {}, errors |-> 0, silence |-> {}, truncated |-> FALSE, clipping |-> 0, peak |-> {},
   truePeak |-> {}, loudness |-> {}, range |-> {}, phase |-> {}, dcOffset |-> {}]

\* Streams are numbered by their place and keep the container's own id.
NumberedStreams(c) ==
  [i \in DOMAIN c.streams |->
     [c.streams[i] EXCEPT !.index = i - 1, !.metadata = Put(@, "native_id", c.streams[i].native)]]

OfKind(streams, kind) == Only(streams, {i \in DOMAIN streams : streams[i].kind = kind})

\* What the container says of a stream, nothing of its frames.
BlankVideos(videos) ==
  [i \in DOMAIN videos |->
     [NoVideoMeasure(videos[i].index) EXCEPT !.rate = videos[i].observed, !.colorspace = videos[i].color,
                                             !.order = videos[i].order, !.hdr = videos[i].hdr]]

BlankAudios(audios) == [i \in DOMAIN audios |-> NoAudioMeasure(audios[i].index)]

MeasureSubtitles(subtitles) ==
  [i \in DOMAIN subtitles |-> MeasureSubtitle(subtitles[i].index, subtitles[i].codec, subtitles[i].cues)]

BuildInspection(c, length) ==
  LET streams == NumberedStreams(c)
  IN  [streams   |-> streams,
       container |-> [validity |-> c.validity, bitrate |-> BitsPerSecond(length, c.duration), duration |-> c.duration,
                      timecode |-> c.timecode, contiguous |-> c.contiguous, malformed |-> c.malformed,
                      places |-> c.gaps, gaps |-> {g[2] - g[1] : g \in c.gaps}],
       video     |-> BlankVideos(OfKind(streams, "video")),
       audio     |-> BlankAudios(OfKind(streams, "audio")),
       subtitle  |-> MeasureSubtitles(OfKind(streams, "subtitle")),
       voice     |-> <<>>]

\* An empty file is an error too.
InspectFile(f) == IF f.length = 0 THEN {} ELSE {BuildInspection(c, f.length) : c \in ProbeFile(f)}
=============================================================================
