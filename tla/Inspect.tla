------------------------------ MODULE Inspect ------------------------------
(***************************************************************************)
(* One check of one asset: QcEngine.check                                  *)
(* (crates/tpt-app-media-qc-pipeline/src/engine.rs) with the inspector of  *)
(* full scans (cli/src/probe.rs), whose parts are the metadata pass        *)
(* (probe/src/lib.rs), the decode of one video track (decode/src/lib.rs),  *)
(* the decode of a standalone audio file (decode/src/audio.rs) and voice   *)
(* analysis.  The demuxers and decoders are external: each step of them    *)
(* gives a packet, a frame, an error or the end.                           *)
(*                                                                         *)
(* A file has its content as the readers of the metadata pass see it, what *)
(* its name promises (extension), whether it is small enough to decode     *)
(* (fits), the tracks the demuxer finds (samples: the count in the tables  *)
(* of an MP4 track, none in the other formats), the transcripts next to it *)
(* (sidecars) and what the detectors hear in it (speech).                  *)
(***************************************************************************)
EXTENDS FrameAnalysis, AudioAnalysis, Transcripts, Probe

CONSTANTS Files,         \* the files of the instance
          Pictures,      \* frames without their time
          Sounds,        \* sample frames
          Gaps,          \* distances between the times of two frames, in ms
          MaxPackets, MaxSounds,   \* bounds of the instance
          Wide,          \* cells in a row of a picture
          Voice          \* the voice analyses that the profile asks for

ASSUME InspectAssumption ==
  /\ MaxPackets \in Nat /\ MaxSounds \in Nat /\ Wide \in Nat \ {0}
  /\ Gaps \subseteq Int
  /\ \A p \in Pictures : IsList(p.luma) /\ p.luma # <<>> /\ Range(p.luma) \subseteq 0 .. 255
  /\ \A f \in Files : \A c \in ProbeFile(f) :
       IsList(c.streams) /\ \A i \in DOMAIN c.streams : "index" \in DOMAIN c.streams[i]

\* Lengths and sizes are numbers, and what follows each other in a file is a list.
ASSUME FilesAssumption ==
  \A f \in Files :
    /\ f.length \in Nat /\ IsList(f.tracks)
    /\ f.magic = "mp4" => IsList(f.boxes) /\ \A b \in Range(f.boxes) : b.size \in Nat
    /\ f.magic = "mkv" => /\ f.head \subseteq Nat
                           /\ \A s \in f.segment :
                                /\ s.header \in Nat /\ s.size \subseteq Nat /\ IsList(s.elements)
                                /\ \A e \in Range(s.elements) : e.id = "cluster" => IsList(e.elements)
    /\ f.magic = "wav" => IsList(f.chunks) /\ \A c \in Range(f.chunks) : c.size \in Nat /\ c.declared \subseteq Nat

VARIABLES file,        \* the file that is checked, {} before
          stage,       \* what comes next
          inspection,  \* streams, container, video, audio, voice
          source,      \* the chosen track: its place in the demuxer, codec and expected packets
                       \* (optional), and the stream that its frames are reported under
          seen,        \* packets of that track
          held,        \* the frame that the decoder keeps back, if there is one
          analyzer,    \* of the video frames
          shown,       \* history: the frames the analyzer got, with their times
          ear,         \* the analyzer of the sample frames
          heard        \* history: the sample frames it got

inspectVars == <<file, stage, inspection, source, seen, held, analyzer, shown, ear, heard>>

NoSource == [track |-> 0, codec |-> "none", expected |-> {}, stream |-> 0]

InspectInit ==
  /\ file = {} /\ stage = "idle" /\ inspection = {} /\ source = NoSource /\ seen = 0 /\ held = <<>>
  /\ analyzer = {} /\ shown = <<>> /\ ear = {} /\ heard = <<>>

TheFile == CHOOSE f \in file : TRUE
Found   == CHOOSE i \in inspection : TRUE

-----------------------------------------------------------------------------
(* Lists of measurements.                                                  *)

Without(q, S) == Only(q, {i \in DOMAIN q : q[i].stream \notin S})

\* In order of their streams; those of one stream keep their order.
ByStream(q) ==
  LET behind(s, m) == Cardinality({i \in DOMAIN s : s[i].stream <= m.stream})
      upTo[n \in 0 .. Len(q)] ==
        IF n = 0 THEN <<>> ELSE InsertAt(upTo[n - 1], behind(upTo[n - 1], q[n]) + 1, q[n])
  IN  upTo[Len(q)]

-----------------------------------------------------------------------------
(* The metadata pass.                                                      *)

\* What the metadata pass finds in a file that it reads.
Metadata(f) == CHOOSE m \in InspectFile(f) : TRUE

\* A file that is not read ends the check.
InspectMetadata ==
  /\ stage = "idle"
  /\ \E f \in Files :
       /\ file' = {f}
       /\ inspection' = IF InspectFile(f) = {} THEN {} ELSE {Metadata(f)}
       /\ stage' = IF inspection' = {} THEN "failed" ELSE "video"
  /\ UNCHANGED <<source, seen, held, analyzer, shown, ear, heard>>

\* A check of the metadata alone goes to the rules.
SkipDecode ==
  /\ stage = "video" /\ stage' = "rules"
  /\ UNCHANGED <<file, inspection, source, seen, held, analyzer, shown, ear, heard>>

-----------------------------------------------------------------------------
(* Opening the video.                                                      *)

\* The first AV1 or VP9 stream of the metadata that names its track.
PreferredVideo(streams) ==
  LET I == {i \in DOMAIN streams : /\ streams[i].kind = "video" /\ streams[i].codec \in {"av1", "vp9"}
                                   /\ streams[i].native # {}}
  IN  {streams[i] : i \in {j \in I : \A k \in I : j <= k}}

DecodableTracks(f) == {i \in DOMAIN f.tracks : f.tracks[i].codec \in {"av1", "vp9"}}

\* The tracks that the demuxer finds under the id of the preferred stream.
PreferredTracks(f, streams) ==
  {i \in DecodableTracks(f) : \E s \in PreferredVideo(streams) : s.native = {f.tracks[i].id}}

FirstOf(S) == CHOOSE i \in S : \A j \in S : i <= j

\* Variant of ChooseTrack: whatever the demuxer lists first is taken for the preferred track.
ChooseFirstTrack(f, streams) ==
  {[track |-> FirstOf(DecodableTracks(f)), stream |-> s.index] :
     s \in {p \in PreferredVideo(streams) : DecodableTracks(f) # {}}}

\* The track that the metadata pass chose, under its stream; else the first one, under its
\* place in the demuxer, whatever stream the metadata pass has there.
ChooseTrack(f, streams) ==
  LET C == DecodableTracks(f)
      named == PreferredTracks(f, streams)
  IN  IF C = {} THEN {}
      ELSE IF named # {} THEN {[track |-> FirstOf(named), stream |-> s.index] : s \in PreferredVideo(streams)}
      ELSE {[track |-> FirstOf(C), stream |-> FirstOf(C) - 1]}

\* No frame was measured: every video stream says so.
IncompleteVideo(videos, failed) ==
  [i \in DOMAIN videos |-> [videos[i] EXCEPT !.frames = {0}, !.errors = IF failed THEN @ + 1 ELSE @]]

GiveUpVideo(failed) ==
  /\ stage' = "audio" /\ inspection' = {[Found EXCEPT !.video = IncompleteVideo(@, failed)]}
  /\ UNCHANGED <<file, ear, heard>>
  /\ source' = NoSource /\ seen' = 0 /\ held' = <<>> /\ analyzer' = {} /\ shown' = <<>>

NominalRate(found, stream) ==
  UNION {found.video[i].rate : i \in {j \in DOMAIN found.video : found.video[j].stream = stream}}

OpenVideo ==
  /\ stage = "video"
  /\ LET f == TheFile
         chosen == ChooseTrack(f, Found.streams)
     IN  IF Found.video = <<>>
         THEN stage' = "audio" /\ UNCHANGED <<file, inspection, source, seen, held, analyzer, shown, ear, heard>>
         ELSE IF ~f.fits \/ chosen = {} THEN GiveUpVideo(FALSE)
         ELSE \E c \in chosen : LET track == f.tracks[c.track] IN
           IF track.samples = {0} THEN GiveUpVideo(TRUE)
           ELSE /\ stage' = "packets"
                /\ source' = [track |-> c.track, codec |-> track.codec, expected |-> track.samples, stream |-> c.stream]
                /\ analyzer' = {NewAnalyzer(NominalRate(Found, c.stream))}
                /\ UNCHANGED <<file, inspection, seen, held, shown, ear, heard>>

\* The demuxer cannot make sense of the file.
DemuxFails ==
  /\ stage = "video" /\ Found.video # <<>> /\ TheFile.fits
  /\ GiveUpVideo(TRUE)

-----------------------------------------------------------------------------
(* Packets.                                                                *)

\* A frame passes the analyzer; the history keeps its time.
Push(frame) ==
  \E a \in analyzer :
    LET at == FrameTime(a, frame)
    IN  /\ analyzer' = {AnalyzerPush(a, frame)}
        /\ shown' = Append(shown, [at |-> at, for |-> FrameDuration(a, at), picture |-> frame])

\* Variant of EnoughPackets: the end of the file is never early.
EnoughPacketsAlways(n) == TRUE

EnoughPackets(n) == \A e \in source.expected : n >= e

\* The time of the next frame: none, or some distance after the last one.
NextTimes ==
  LET last == IF shown = <<>> /\ held = <<>> THEN {0}
              ELSE IF held # <<>> THEN held[Len(held)].pts ELSE {shown[Len(shown)].at}
  IN  {{}} \cup {{t + g} : t \in last, g \in Gaps}

\* The decoder returns the oldest frame it has, or keeps the new one too (only AV1 does).
\* All expected packets were seen: the loop is left.
ReadPacket ==
  /\ stage = "packets" /\ seen < MaxPackets
  /\ \E picture \in Pictures, pts \in NextTimes :
       LET frame == [luma |-> picture.luma, red |-> picture.red, block |-> picture.block, blur |-> picture.blur,
                     noise |-> picture.noise, pts |-> pts]
           queue == Append(held, frame)
       IN  \/ /\ held' = Tail(queue) /\ Push(Head(queue))
           \/ /\ source.codec = "av1" /\ held = <<>>
              /\ held' = queue /\ UNCHANGED <<analyzer, shown>>
  /\ seen' = seen + 1
  /\ stage' = IF source.expected # {} /\ EnoughPackets(seen + 1) THEN "flush" ELSE "packets"
  /\ UNCHANGED <<file, inspection, source, ear, heard>>

\* A packet that gives no picture: a sequence header, a frame that is not shown.
ReadSilentPacket ==
  /\ stage = "packets" /\ seen < MaxPackets /\ seen' = seen + 1
  /\ stage' = IF source.expected # {} /\ EnoughPackets(seen + 1) THEN "flush" ELSE "packets"
  /\ UNCHANGED <<file, inspection, source, held, analyzer, shown, ear, heard>>

\* The demuxer or the decoder reports an error; a stream that cannot be rebuilt exactly is
\* only unsupported.
DecodeFails ==
  /\ stage \in {"packets", "flush"}
  /\ \E failed \in BOOLEAN : GiveUpVideo(failed)

\* The end of the file: too early if the container promised more.
EndOfPackets ==
  /\ stage = "packets"
  /\ IF EnoughPackets(seen)
     THEN stage' = "flush" /\ UNCHANGED <<file, inspection, source, seen, held, analyzer, shown, ear, heard>>
     ELSE GiveUpVideo(TRUE)

FlushDecoder ==
  /\ stage = "flush" /\ stage' = "finish" /\ held' = <<>>
  /\ IF held = <<>> THEN UNCHANGED <<analyzer, shown>> ELSE Push(Head(held))
  /\ UNCHANGED <<file, inspection, source, seen, ear, heard>>

\* The measurements replace those of the stream; they keep its color.
FinishVideo ==
  /\ stage = "finish"
  /\ \E a \in analyzer :
       IF a.count = 0 THEN GiveUpVideo(FALSE)
       ELSE LET m == AnalyzerFinish(a, Wide)
                before == {v \in Range(Found.video) : v.stream = source.stream}
                entry == [m EXCEPT !.stream = source.stream, !.colorspace = UNION {v.colorspace : v \in before},
                                   !.hdr = UNION {v.hdr : v \in before}]
            IN  /\ inspection' = {[Found EXCEPT !.video = ByStream(Append(Without(@, {source.stream}), entry))]}
                /\ stage' = "audio"
                /\ UNCHANGED <<file, source, seen, held, analyzer, shown, ear, heard>>

-----------------------------------------------------------------------------
(* Audio: the first audio stream of a standalone file.                     *)

FirstAudio == Bottom({Found.audio[i].stream : i \in DOMAIN Found.audio})

\* A stream that could not be decoded counts an error, one of another kind stays as it was.
IncompleteAudio(audios, first, failed) ==
  [i \in DOMAIN audios |->
     IF failed /\ audios[i].stream = first THEN [audios[i] EXCEPT !.frames = {0}, !.errors = @ + 1] ELSE audios[i]]

GiveUpAudio(failed) ==
  /\ stage' = "voice"
  /\ inspection' = {[Found EXCEPT !.audio = IncompleteAudio(@, FirstAudio, failed)]}
  /\ ear' = {} /\ heard' = <<>>
  /\ UNCHANGED <<file, source, seen, held, analyzer, shown>>

OpenAudio ==
  /\ stage = "audio"
  /\ IF Found.audio = <<>>
     THEN stage' = "voice" /\ UNCHANGED <<file, inspection, source, seen, held, analyzer, shown, ear, heard>>
     ELSE IF TheFile.extension \notin {"wav", "aiff", "flac"} THEN GiveUpAudio(FALSE)
     ELSE IF TheFile.extension # TheFile.magic THEN GiveUpAudio(TRUE)
     ELSE /\ stage' = "samples" /\ ear' = {NewAudio}
          /\ UNCHANGED <<file, inspection, source, seen, held, analyzer, shown, heard>>

DecodeSamples ==
  /\ stage = "samples" /\ Len(heard) < MaxSounds
  /\ \E sound \in Sounds : /\ ear' = {AudioPush(a, sound) : a \in ear}
                           /\ heard' = Append(heard, sound)
  /\ UNCHANGED <<file, stage, inspection, source, seen, held, analyzer, shown>>

SamplesFail ==
  /\ stage = "samples"
  /\ \E failed \in BOOLEAN : GiveUpAudio(failed)

FinishAudio ==
  /\ stage = "samples"
  /\ IF heard = <<>> THEN GiveUpAudio(TRUE)
     ELSE /\ \E a \in ear :
               LET entry == [AudioFinish(a) EXCEPT !.stream = FirstAudio]
               IN  inspection' = {[Found EXCEPT !.audio = ByStream(Append(Without(@, {FirstAudio}), entry))]}
          /\ stage' = "voice"
          /\ UNCHANGED <<file, source, seen, held, analyzer, shown, ear, heard>>

-----------------------------------------------------------------------------
(* Voice, merging, and the next asset.                                     *)

\* What the decode pass found replaces what the metadata pass found, stream by stream.
MergeByStream(metadata, decoded) ==
  LET new == {decoded[i].stream : i \in DOMAIN decoded}
  IN  ByStream(Without(metadata, new) \o decoded)

MergeInspections(metadata, decoded) ==
  [metadata EXCEPT !.container = decoded.container,
                   !.streams = IF decoded.streams = <<>> THEN @ ELSE decoded.streams,
                   !.video = MergeByStream(@, decoded.video), !.audio = MergeByStream(@, decoded.audio),
                   !.voice = MergeByStream(@, decoded.voice)]

AnalyzeAndMerge ==
  /\ stage = "voice" /\ stage' = "rules"
  /\ LET f == TheFile
         streams == {Found.audio[i].stream : i \in DOMAIN Found.audio}
         decoded == [Found EXCEPT !.voice = AnalyzeVoice(Voice, @, streams, f.sidecars, f.speech)]
     IN  inspection' = {MergeInspections(Metadata(f), decoded)}
  /\ UNCHANGED <<file, source, seen, held, analyzer, shown, ear, heard>>

NextAsset ==
  /\ stage \in {"judged", "failed"}
  /\ stage' = "idle" /\ file' = {} /\ inspection' = {} /\ source' = NoSource /\ seen' = 0 /\ held' = <<>>
  /\ analyzer' = {} /\ shown' = <<>> /\ ear' = {} /\ heard' = <<>>

InspectNext ==
  \/ InspectMetadata \/ SkipDecode \/ OpenVideo \/ DemuxFails \/ ReadPacket \/ ReadSilentPacket \/ DecodeFails \/ EndOfPackets
  \/ FlushDecoder \/ FinishVideo \/ OpenAudio \/ DecodeSamples \/ SamplesFail \/ FinishAudio
  \/ AnalyzeAndMerge \/ NextAsset
=============================================================================
