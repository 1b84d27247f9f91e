--------------------------- MODULE ContainerRules ---------------------------
(***************************************************************************)
(* The container rules (crates/tpt-app-media-qc-rules/src/container.rs).   *)
(* ctx.container: validity ("ok", "corrupt", "unreadable", "not_scanned"), *)
(* bitrate, duration and timecode (optional), gaps (lengths of the         *)
(* timestamp gaps), malformed (entries).                                   *)
(***************************************************************************)
EXTENDS Rules

Scanned(ctx) == ctx.container.validity # "not_scanned"

Readable(cfg, ctx) ==
  Needs(Scanned(ctx), FailIf(ctx.container.validity \in {"unreadable", "corrupt"}))

\* A file that is not readable at all is left to Readable.
Validity(cfg, ctx) ==
  Needs(Scanned(ctx), FailIf(ctx.container.validity = "corrupt"))

\* One failure for each entry; a container nobody scanned has none.
MalformedMetadata(cfg, ctx) == FailIf(ctx.container.malformed # {})

\* Every pair of the container's and the streams' durations, in milliseconds; a stream
\* keeps whole seconds.
DurationConsistency(cfg, ctx) ==
  LET durations == ctx.container.duration
                   \cup UNION {{1000 * d : d \in ctx.streams[i].duration} : i \in DOMAIN ctx.streams}
  IN  Needs(durations # {},
            WithInfo(FailIf(\E d, e \in durations : Distance(d, e) > cfg.tolerance)))

Bitrate(cfg, ctx) ==
  Needs(Scanned(ctx) /\ ctx.container.bitrate # {},
        WithInfo(FailIf(Under(ctx.container.bitrate, cfg.min))))

TimecodePresent(cfg, ctx) ==
  Needs(ctx.container.timecode # {}, FailIf(ctx.container.timecode = {FALSE}))

\* Each video stream by itself: the findings are of both kinds, or none without video.
Timebase(cfg, ctx) ==
  LET video == StreamsOf(ctx, "video")
  IN  IF \A s \in video : s.timebase = {cfg.value}
      THEN IF video = {} THEN NoFindings ELSE Info
      ELSE UNION {Needs(s.timebase # {}, FailIf(s.timebase # {cfg.value})) : s \in video}

\* A gap list is empty too if the timestamps were never examined.
TimestampContinuity(cfg, ctx) ==
  Needs(Scanned(ctx),
        IF ctx.container.gaps = {} THEN Info
        ELSE FailIf(\E g \in ctx.container.gaps : g > cfg.max))

UnexpectedStreams(cfg, ctx) ==
  LET kinds == {ctx.streams[i].kind : i \in DOMAIN ctx.streams}
  IN  IF kinds \cap {"data", "attachment", "unknown"} # {} THEN Failure
      ELSE IF kinds = {} THEN NoFindings ELSE Info

CountOf(ctx, kind) ==
  Len(SelectSeq(ctx.streams, LAMBDA s : s.kind = kind))

StreamPresence(cfg, ctx) ==
  Needs(Scanned(ctx),
        FailIf(\/ CountOf(ctx, "video") < cfg.minVideo
               \/ CountOf(ctx, "audio") < cfg.minAudio
               \/ Len(ctx.streams) > cfg.maxStreams))

\* The rules in the order in which build makes them.
ContainerRule(name, cfg, ctx) ==
  CASE name = "readable"              -> Readable(cfg, ctx)
    [] name = "container_validity"    -> Validity(cfg, ctx)
    [] name = "malformed_metadata"    -> MalformedMetadata(cfg, ctx)
    [] name = "duration_consistency"  -> DurationConsistency(cfg, ctx)
    [] name = "bitrate"               -> Bitrate(cfg, ctx)
    [] name = "timecode_present"      -> TimecodePresent(cfg, ctx)
    [] name = "timebase"              -> Timebase(cfg, ctx)
    [] name = "timestamp_continuity"  -> TimestampContinuity(cfg, ctx)
    [] name = "unexpected_streams"    -> UnexpectedStreams(cfg, ctx)
    [] name = "stream_presence"       -> StreamPresence(cfg, ctx)
=============================================================================
