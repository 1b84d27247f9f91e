----------------------------- MODULE AudioRules -----------------------------
(***************************************************************************)
(* The audio rules (crates/tpt-app-media-qc-rules/src/audio.rs).  They     *)
(* look at the first audio stream (sampleRate, bitDepth, channels, layout: *)
(* optional) and at its measurements, which count only if frames were      *)
(* decoded: errors, silence (segment lengths), truncated, clipping, peak,  *)
(* truePeak, loudness, phase, dcOffset (optional).                         *)
(***************************************************************************)
EXTENDS Rules

AudioStream(ctx) == PrimaryStream(ctx, "audio")

AudioMeasurement(ctx) == {m \in MeasuredFor(ctx.audio, ctx, "audio") : Frames(m) > 0}

AudioErrors(ctx) == IF \E m \in AudioMeasurement(ctx) : m.errors > 0 THEN 1 ELSE 0

\* What the stream reports is the expected value.
Expected(reported, cfg) == Needs(reported # {}, FailIf(reported # {cfg.expected}))

SampleRate(cfg, ctx) == Expected(UNION {s.sampleRate : s \in AudioStream(ctx)}, cfg)

BitDepth(cfg, ctx) == Expected(UNION {s.bitDepth : s \in AudioStream(ctx)}, cfg)

\* The layout is compared if both sides have one.
ChannelLayout(cfg, ctx) ==
  LET channels == UNION {s.channels : s \in AudioStream(ctx)}
      layout   == UNION {s.layout : s \in AudioStream(ctx)}
  IN  Needs(channels # {},
            FailIf(\/ channels # {cfg.channels}
                   \/ cfg.layout # {} /\ layout # {} /\ layout # cfg.layout))

-----------------------------------------------------------------------------
\* A failure counts whatever went wrong; a clean result needs the whole list, and a
\* decode without errors.
Silence(cfg, ctx) ==
  LET M == AudioMeasurement(ctx)
  IN  Needs(M # {},
            UnlessErrors(IF \E m \in M : m.truncated THEN 1 ELSE AudioErrors(ctx),
              FailIf(\E m \in M : \E d \in m.silence : d > cfg.max)))

Clipping(cfg, ctx) ==
  LET M == AudioMeasurement(ctx)
  IN  Needs(M # {}, UnlessErrors(AudioErrors(ctx), FailIf(\E m \in M : m.clipping > cfg.max)))

\* A level against its limit; the value is reported if all is well.
DbRule(level, cfg, ctx) ==
  Needs(level # {},
        LET judged == UnlessErrors(AudioErrors(ctx), FailIf(Over(level, cfg.max)))
        IN  WithInfo(judged))

Peak(cfg, ctx)     == DbRule(UNION {m.peak : m \in AudioMeasurement(ctx)}, cfg, ctx)
TruePeak(cfg, ctx) == DbRule(UNION {m.truePeak : m \in AudioMeasurement(ctx)}, cfg, ctx)

Loudness(cfg, ctx) ==
  LET lufs == UNION {m.loudness : m \in AudioMeasurement(ctx)}
  IN  Needs(lufs # {},
            WithInfo(UnlessErrors(AudioErrors(ctx),
                       FailIf(\E l \in lufs : Distance(l, cfg.target) > cfg.tolerance))))

Phase(cfg, ctx) ==
  LET correlation == UNION {m.phase : m \in AudioMeasurement(ctx)}
  IN  Needs(correlation # {}, UnlessErrors(AudioErrors(ctx), FailIf(Under(correlation, cfg.min))))

\* In either direction.
DcOffset(cfg, ctx) ==
  LET offset == UNION {m.dcOffset : m \in AudioMeasurement(ctx)}
  IN  Needs(offset # {},
            UnlessErrors(AudioErrors(ctx), FailIf(\E o \in offset : Distance(o, 0) > cfg.max)))

-----------------------------------------------------------------------------
AudioDecodeNeed(name) ==
  IF name \in {"sample_rate", "bit_depth", "channel_layout"} THEN "none" ELSE "stream"

AudioRule(name, cfg, ctx) ==
  CASE name = "sample_rate"    -> SampleRate(cfg, ctx)
    [] name = "bit_depth"      -> BitDepth(cfg, ctx)
    [] name = "channel_layout" -> ChannelLayout(cfg, ctx)
    [] name = "silence"        -> Silence(cfg, ctx)
    [] name = "clipping"       -> Clipping(cfg, ctx)
    [] name = "peak"           -> Peak(cfg, ctx)
    [] name = "true_peak"      -> TruePeak(cfg, ctx)
    [] name = "loudness"       -> Loudness(cfg, ctx)
    [] name = "phase"          -> Phase(cfg, ctx)
    [] name = "dc_offset"      -> DcOffset(cfg, ctx)
=============================================================================
