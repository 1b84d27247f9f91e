---------------------------- MODULE CustomRules ----------------------------
(***************************************************************************)
(* The rules a profile declares itself                                     *)
(* (crates/tpt-app-media-qc-rules/src/custom.rs).  A rule compares one     *)
(* metric with its operands: cfg.op, cfg.operands (a sequence), cfg.scope, *)
(* cfg.target, cfg.metric, cfg.tolerance.  A reading is a number or a text *)
(* in lower case.                                                          *)
(***************************************************************************)
EXTENDS ContainerRules

Number(n) == [type |-> "number", value |-> n]
Text(t)   == [type |-> "text", value |-> t]

NumericMetrics == {"bitrate", "width", "height", "channels", "sample_rate", "bit_depth", "frame_rate", "duration_seconds"}
TextMetrics    == {"codec", "codec_profile", "language", "pixel_format", "channel_layout", "field_order"}

\* container.size is always known, the duration is the asset's.
ContainerReading(ctx, metric) ==
  CASE metric = "duration_seconds"      -> {Number(d) : d \in ctx.duration}
    [] metric = "size_bytes"            -> {Number(ctx.size)}
    [] metric = "stream_count"          -> {Number(Len(ctx.streams))}
    [] metric = "video_stream_count"    -> {Number(CountOf(ctx, "video"))}
    [] metric = "audio_stream_count"    -> {Number(CountOf(ctx, "audio"))}
    [] metric = "subtitle_stream_count" -> {Number(CountOf(ctx, "subtitle"))}
    [] OTHER                            -> {}

\* Each field that the probe could fill; free-form tags by their key.
StreamReading(s, metric) ==
  LET numbers(S) == {Number(n) : n \in S}
      texts(S)   == {Text(t) : t \in S}
  IN  IF metric \in DOMAIN s.metadata THEN texts({s.metadata[metric]})
      ELSE CASE metric = "codec"            -> texts({s.codec})
             [] metric = "codec_profile"    -> texts(s.profile)
             [] metric = "language"         -> texts(s.language)
             [] metric = "pixel_format"     -> texts({p.name : p \in s.pixels})
             [] metric = "channel_layout"   -> texts(s.layout)
             [] metric = "field_order"      -> texts(s.order)
             [] metric = "bitrate"          -> numbers(s.bitrate)
             [] metric = "width"            -> numbers({wh[1] : wh \in s.size})
             [] metric = "height"           -> numbers({wh[2] : wh \in s.size})
             [] metric = "channels"         -> numbers(s.channels)
             [] metric = "sample_rate"      -> numbers(s.sampleRate)
             [] metric = "bit_depth"        -> numbers(s.bitDepth)
             [] metric = "frame_rate"       -> numbers(s.rate)
             [] metric = "duration_seconds" -> numbers(s.duration)
             [] OTHER                       -> {}

\* Operands of the other type are skipped: one_of needs an operand that agrees,
\* none_of that none does, and the plain comparisons look at the first.
Holds(cfg, reading) ==
  LET same  == Only(cfg.operands, {i \in DOMAIN cfg.operands : cfg.operands[i].type = reading.type})
      m     == reading.value
      near(o) == IF reading.type = "number" THEN Distance(m, o.value) <= cfg.tolerance ELSE m = o.value
      anyOf == \E i \in DOMAIN same : near(same[i])
      first(P(_)) == same # <<>> /\ P(same[1])
      number == reading.type = "number"
  IN  CASE cfg.op = "one_of"  -> anyOf
        [] cfg.op = "none_of" -> ~anyOf
        [] cfg.op = "eq"      -> IF number THEN first(near) ELSE anyOf
        [] cfg.op = "ne"      -> IF number THEN first(LAMBDA o : ~near(o)) ELSE ~anyOf
        [] cfg.op = "lt"      -> number /\ first(LAMBDA o : m < o.value)
        [] cfg.op = "le"      -> number /\ first(LAMBDA o : m <= o.value)
        [] cfg.op = "gt"      -> number /\ first(LAMBDA o : m > o.value)
        [] cfg.op = "ge"      -> number /\ first(LAMBDA o : m >= o.value)

Evaluate(cfg, readings) ==
  Needs(readings # {}, FailIf(\E r \in readings : ~Holds(cfg, r)))

\* A scope without a stream has nothing to complain about.
CustomRule(cfg, ctx) ==
  IF cfg.scope = "container"
  THEN Needs(Scanned(ctx), Evaluate(cfg, ContainerReading(ctx, cfg.metric)))
  ELSE LET S == IF cfg.target = "primary" THEN PrimaryStream(ctx, cfg.scope) ELSE StreamsOf(ctx, cfg.scope)
       IN  UNION {Evaluate(cfg, StreamReading(s, cfg.metric)) : s \in S}
=============================================================================
