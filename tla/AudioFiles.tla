----------------------------- MODULE AudioFiles -----------------------------
(***************************************************************************)
(* The readers of standalone audio files                                   *)
(* (crates/tpt-app-media-qc-probe/src/audio_files.rs): WAV, AIFF, FLAC and *)
(* Ogg.  A WAV or AIFF file is a length and its chunks: id, size and, for  *)
(* a format chunk, what it holds.  A FLAC file has its stream information, *)
(* an Ogg file its first packet and the positions of its pages.            *)
(***************************************************************************)
EXTENDS Codecs

OneAudioStream(codec, channels, rate, bits, bitrate, duration) ==
  [BlankStream("audio", codec) EXCEPT
     !.native = {0}, !.channels = {channels}, !.layout = LayoutOf(channels), !.sampleRate = {rate},
     !.bitDepth = bits, !.bitrate = bitrate, !.duration = Seconds(duration), !.timebase = {<<1, rate>>}]

AudioContainer(stream, duration) ==
  {[NewContainer EXCEPT !.streams = <<stream>>, !.duration = duration, !.timecode = {FALSE}]}

\* Where each chunk begins: they are aligned to words.
ChunkStarts(chunks) ==
  LET Start[i \in 1 .. Len(chunks) + 1] ==
        IF i = 1 THEN 12 ELSE Start[i - 1] + 8 + chunks[i - 1].size + (chunks[i - 1].size % 2)
  IN  Start

\* The chunks whose headers are there, up to the first one with sound (kind).
ChunksUntil(file, kind) ==
  LET starts == ChunkStarts(file.chunks)
  IN  {i \in DOMAIN file.chunks : starts[i] + 8 <= file.length /\ \A j \in 1 .. i - 1 : file.chunks[j].id # kind}

\* The last format chunk, its payload, and whether one of them could not be read.
FormatChunk(file, kind, sound) ==
  LET I == {i \in ChunksUntil(file, sound) : file.chunks[i].id = kind}
  IN  UNION {file.chunks[i].format : i \in Largest(I)}

BadFormat(file, kind, sound, least) ==
  \E i \in ChunksUntil(file, sound) :
    /\ file.chunks[i].id = kind
    /\ \/ file.chunks[i].size < least \/ file.chunks[i].size > MaxBuffered
       \/ ChunkStarts(file.chunks)[i] + 8 + file.chunks[i].size > file.length

\* Variant of WavData: a chunk larger than the file is not noticed.
WavDataUnchecked(declared, available) ==
  [bytes |-> IF declared = {} \/ declared = {0} THEN available ELSE Least(CHOOSE d \in declared : TRUE, available),
   truncated |-> FALSE]

\* No declared size (a stream) and zero stand for all that is there.
WavData(declared, available) ==
  LET more == Over(declared, available)
  IN  [bytes |-> IF declared = {} \/ declared = {0} \/ more THEN available ELSE CHOOSE d \in declared : TRUE,
       truncated |-> more]

\* tag: integer or float numbers, or what is not read; valid: bits in use (optional).
ProbeWav(file) ==
  LET format == FormatChunk(file, "fmt", "data")
      f == CHOOSE x \in format : TRUE
      sound == {i \in ChunksUntil(file, "data") : file.chunks[i].id = "data"}
      i == CHOOSE x \in sound : TRUE
      data  == WavData(file.chunks[i].declared, file.length - ChunkStarts(file.chunks)[i] - 8)
      frame == f.channels * ((f.bits + 7) \div 8)
      duration == {((data.bytes \div frame) * 1000) \div f.rate}
      stream == OneAudioStream(PcmCodec(f.tag = "float", f.bits, FALSE), f.channels, f.rate, OrElse(f.valid, {f.bits}),
                            {f.rate * f.channels * f.bits}, duration)
  IN  IF BadFormat(file, "fmt", "data", 16) \/ format = {} THEN {Corrupt}
      ELSE IF f.tag \notin {"integer", "float"} THEN {}
      ELSE IF 0 \in {f.channels, f.rate, f.bits} \/ sound = {} THEN {Corrupt}
      ELSE {[c EXCEPT !.validity = IF data.truncated THEN "corrupt" ELSE "ok",
                      !.malformed = IF data.bytes % frame # 0 THEN {"partial frame"} ELSE {}] :
              c \in AudioContainer(stream, duration)}

\* The number of frames is what the header says, whatever sound there is.
ProbeAiff(file) ==
  LET format == FormatChunk(file, "COMM", "SSND")
      f == CHOOSE x \in format : TRUE
      sound == \E i \in ChunksUntil(file, "SSND") : file.chunks[i].id = "SSND"
      duration == {(f.frames * 1000) \div f.rate}
      float == f.compression \in {"fl32", "fl64"}
      stream == OneAudioStream(PcmCodec(float, f.bits, f.compression # "sowt"), f.channels, f.rate, {f.bits},
                            {f.rate * f.channels * f.bits}, duration)
  IN  IF BadFormat(file, "COMM", "SSND", 18) \/ format = {} THEN {Corrupt}
      ELSE IF f.compression \notin {"NONE", "twos", "sowt", "fl32", "fl64"} THEN {}
      ELSE IF 0 \in {f.channels, f.rate, f.bits} THEN {Corrupt}
      ELSE {[c EXCEPT !.validity = IF sound THEN "ok" ELSE "corrupt"] : c \in AudioContainer(stream, duration)}

\* info: the first metadata block if it is stream information of the right size and there.
ProbeFlac(file) ==
  LET f == CHOOSE x \in file.info : TRUE
      duration == {(n * 1000) \div f.rate : n \in {f.samples} \ {0}}
  IN  IF file.info = {} \/ f.rate = 0 \/ file.length < 42 THEN {Corrupt}
      ELSE AudioContainer(OneAudioStream("flac", f.channels, f.rate, {f.bits}, BitsPerSecond(file.length, duration), duration),
                          duration)

\* packet: the first one, if it can be read; last: the position of the last page (optional).
ProbeOgg(file) ==
  LET p == CHOOSE x \in file.packet : TRUE
      rate == IF p.codec = "opus" THEN 48000 ELSE p.rate
      skip == IF p.codec = "opus" THEN p.skip ELSE 0
      duration == {(Greatest(g - skip, 0) * 1000) \div rate : g \in file.last}
      nominal == IF p.codec = "vorbis" THEN p.nominal ELSE {}
  IN  IF file.packet = {} THEN {Corrupt}
      ELSE IF p.codec \notin {"opus", "vorbis"} THEN {}
      ELSE IF p.channels = 0 \/ rate = 0 THEN {Corrupt}
      ELSE AudioContainer(OneAudioStream(p.codec, p.channels, rate, {},
                                      OrElse(nominal, BitsPerSecond(file.length, duration)), duration), duration)
=============================================================================
