----------------------------- MODULE VideoRules -----------------------------
(***************************************************************************)
(* The video rules (crates/tpt-app-media-qc-rules/src/video.rs).  They     *)
(* look at the first video stream s (size, rate, order, pixels: optional)  *)
(* and at its measurements m: rate, colorspace, order, hdr, frames,        *)
(* errors, black, freeze (segment lengths), duplicates (count), luma,      *)
(* dead, perceptual, flash.  Rates are in thousandths, other fractions in  *)
(* whole units of the instance.                                            *)
(***************************************************************************)
EXTENDS Rules

VideoStream(ctx)      == PrimaryStream(ctx, "video")
VideoMeasurement(ctx) == MeasuredFor(ctx.video, ctx, "video")

\* Frames were decoded: what the rules of segments, counts and luma ask first.
VideoDecoded(ctx) == \E m \in VideoMeasurement(ctx) : Frames(m) > 0

VideoErrors(ctx) == IF \E m \in VideoMeasurement(ctx) : m.errors > 0 THEN 1 ELSE 0

-----------------------------------------------------------------------------
(* What the stream says of itself.                                         *)

Resolution(cfg, ctx) ==
  LET size == UNION {s.size : s \in VideoStream(ctx)}
  IN  Needs(size # {}, FailIf(size # {cfg.expected}))

\* The measured value, or what the stream reports.
FrameRate(cfg, ctx) ==
  LET fps == OrElse(UNION {m.rate : m \in VideoMeasurement(ctx)},
                    UNION {s.rate : s \in VideoStream(ctx)})
  IN  Needs(fps # {}, FailIf(\E f \in fps : Distance(f, cfg.expected) > cfg.tolerance))

\* Width by height against num by den, as a relative difference in units of 1/1000.
\* In floating point 0 by 0 is no number, and no comparison with it holds.
AspectRatio(cfg, ctx) ==
  LET size == UNION {s.size : s \in VideoStream(ctx)}
  IN  Needs(size # {},
            FailIf(\E wh \in size :
              LET w == wh[1]  h == wh[2] IN
              \/ cfg.num = 0
              \/ h = 0 /\ w > 0
              \/ h > 0 /\ 1000 * Distance(w * cfg.den, h * cfg.num) > cfg.tolerance * h * cfg.num))

ColorSpace(cfg, ctx) ==
  LET tag == UNION {m.colorspace : m \in VideoMeasurement(ctx)}
  IN  Needs(tag # {}, FailIf(tag # {cfg.expected}))

Interlaced == {"top_first", "bottom_first"}

\* An unsignalled order cannot disprove progressive, but fails interlaced and a
\* pinned order of fields.
ScanFormat(cfg, ctx) ==
  LET order == OrElse(UNION {m.order : m \in VideoMeasurement(ctx)},
                      UNION {s.order : s \in VideoStream(ctx)})
      is(o) == order = {o}
  IN  IF order = {} THEN Inconclusive
      ELSE IF cfg.scan = "progressive" /\ order \subseteq Interlaced THEN Failure
      ELSE IF cfg.scan = "progressive" /\ is("unknown") THEN Inconclusive
      ELSE IF cfg.scan = "interlaced" /\ (is("progressive") \/ is("unknown")) THEN Failure
      ELSE WithInfo(FailIf(cfg.fields \in Interlaced /\ ~is(cfg.fields)))

-----------------------------------------------------------------------------
(* Dynamic range.  hdr: transfer, primaries, matrix, range, cll, fall,     *)
(* minNits, maxNits (optional), mastering and dolby (whether present).     *)

IsBt2020(tag) == tag \subseteq {"bt2020"}

\* Every transfer that is neither PQ nor HLG counts as SDR.
DynamicRange(transfer) == CASE transfer = "pq" -> "pq" [] transfer = "hlg" -> "hlg" [] OTHER -> "sdr"

MatchesMode(mode, actual) ==
  CASE mode = "sdr" -> actual = "sdr" [] mode = "hdr10" -> actual = "pq"
    [] mode = "hlg" -> actual = "hlg" [] mode = "hdr" -> actual \in {"pq", "hlg"}

\* Each problem is a failure of its own.
Hdr(cfg, ctx) ==
  LET found == {h \in UNION {m.hdr : m \in VideoMeasurement(ctx)} : h.transfer # {}}
      depth == UNION {{p.depth : p \in s.pixels} : s \in VideoStream(ctx)}
  IN  Needs(found # {},
        FailIf(\E h \in found : \E t \in h.transfer :
          LET actual == DynamicRange(t) IN
          \/ ~MatchesMode(cfg.mode, actual)
          \/ /\ actual # "sdr"
             /\ \/ h.primaries = {} \/ ~IsBt2020(h.primaries)
                \/ ~IsBt2020(h.matrix)
                \/ h.range \notin {{}, {"tv"}}
                \/ depth # {} /\ depth \cap {10, 12, 16} = {}
          \/ /\ actual = "pq" /\ cfg.needStatic /\ ~h.dolby
             /\ ~h.mastering \/ h.cll = {} \/ h.fall = {}
          \/ \E c \in h.cll, f \in h.fall : f > c
          \/ \E l \in cfg.maxCll : Over(h.cll, l)
          \/ \E l \in cfg.maxFall : Over(h.fall, l)
          \/ \E lo \in h.minNits, hi \in h.maxNits : lo >= hi))

-----------------------------------------------------------------------------
(* What the decoder saw.                                                   *)

SegmentRule(ctx, segments, cfg) ==
  Needs(VideoDecoded(ctx),
        UnlessErrors(VideoErrors(ctx), FailIf(\E d \in segments : d > cfg.max)))

BlackFrames(cfg, ctx)  == SegmentRule(ctx, UNION {m.black : m \in VideoMeasurement(ctx)}, cfg)
FreezeFrames(cfg, ctx) == SegmentRule(ctx, UNION {m.freeze : m \in VideoMeasurement(ctx)}, cfg)

CountRule(counts, cfg) == FailIf(Over(counts, cfg.max))

DuplicateFrames(cfg, ctx) ==
  Needs(VideoDecoded(ctx), CountRule({m.duplicates : m \in VideoMeasurement(ctx)}, cfg))

\* Errors of a decode that gave no frame say nothing of the frames.
CorruptFrames(cfg, ctx) ==
  Needs(VideoDecoded(ctx), CountRule({m.errors : m \in VideoMeasurement(ctx)}, cfg))

LumaRange(cfg, ctx) ==
  LET out == UNION {m.luma : m \in VideoMeasurement(ctx)}
  IN  Needs(VideoDecoded(ctx) /\ out # {}, WithInfo(FailIf(Over(out, cfg.max))))

\* dead: sampled, limited, dark, bright, flicker, clusters and flickerClusters.
DeadPixels(cfg, ctx) ==
  LET stats == UNION {m.dead : m \in VideoMeasurement(ctx)}
      flicker(n) == IF cfg.flicker THEN n ELSE 0
      offends == \E d \in stats :
                   \/ d.dark + d.bright + flicker(d.flicker) > cfg.max
                   \/ d.clusters + flicker(d.flickerClusters) > cfg.maxClusters
      listed  == \E d \in stats : d.clusters + d.flickerClusters > 0
  IN  Needs(\E d \in stats : d.sampled > 0 /\ ~(d.limited /\ cfg.needAll),
            IF offends THEN Failure \cup (IF listed THEN Info ELSE {}) ELSE NoFindings)

-----------------------------------------------------------------------------
(* perceptual: sampled, blockiness, worst, blur, noise (optional), blocky  *)
(* and flat: the frames that had evidence for blockiness and for noise.    *)

Perceptual(ctx) ==
  {p \in UNION {m.perceptual : m \in VideoMeasurement(ctx)} : p.sampled > 0}

\* The share of the frames that had evidence, in hundredths.
EnoughEvidence(frames, sampled, share) == 100 * frames >= share * sampled

Blockiness(cfg, ctx) ==
  LET found == {p \in Perceptual(ctx) : /\ EnoughEvidence(p.blocky, p.sampled, cfg.minShare)
                                        /\ p.blockiness # {}}
  IN  Needs(found # {},
            FailIf(\E p \in found : \/ Over(p.blockiness, cfg.max)
                                    \/ \E l \in cfg.maxFrame : Over(p.worst, l)))

Blur(cfg, ctx) ==
  LET sharpness == UNION {p.blur : p \in Perceptual(ctx)}
  IN  Needs(sharpness # {}, FailIf(Under(sharpness, cfg.min)))

Noise(cfg, ctx) ==
  LET sigma == UNION {p.noise : p \in {q \in Perceptual(ctx) : EnoughEvidence(q.flat, q.sampled, cfg.minShare)}}
  IN  Needs(sigma # {}, FailIf(Over(sigma, cfg.max)))

-----------------------------------------------------------------------------
(* Flashes.  A channel is the sequence of the times of its transitions.    *)

Second == 1000

\* The first transition less than a second before the k-th.
BurstStart(t, k) == CHOOSE i \in 1 .. k : /\ t[k] - t[i] < Second
                                          /\ \A j \in 1 .. i - 1 : t[k] - t[j] >= Second

\* Variant of AddTransition: a new window wherever the last one does not start.
AddTransitionSplit(windows, t, k, limit) ==
  LET from == BurstStart(t, k)
      last == Len(windows)
  IN  IF k - from + 1 <= 2 * limit THEN windows
      ELSE IF windows # <<>> /\ t[from] = windows[last][1]
      THEN [windows EXCEPT ![last] = <<@[1], t[k]>>]
      ELSE Append(windows, <<t[from], t[k]>>)

\* The windows after the k-th transition: one that touches the last is merged with it.
AddTransition(windows, t, k, limit) ==
  LET from == BurstStart(t, k)
      last == Len(windows)
  IN  IF k - from + 1 <= 2 * limit THEN windows
      ELSE IF windows # <<>> /\ t[from] <= windows[last][2]
      THEN [windows EXCEPT ![last] = <<@[1], t[k]>>]
      ELSE Append(windows, <<t[from], t[k]>>)

FlashWindows(t, limit) ==
  LET W[k \in 0 .. Len(t)] == IF k = 0 THEN <<>> ELSE AddTransition(W[k - 1], t, k, limit)
  IN  W[Len(t)]

\* flash: the channels, general and red, each judged by itself.
Photosensitivity(cfg, ctx) ==
  LET flash == UNION {m.flash : m \in VideoMeasurement(ctx)}
  IN  Needs(VideoDecoded(ctx) /\ flash # {},
            UnlessErrors(VideoErrors(ctx),
              FailIf(\E channels \in flash : \E c \in DOMAIN channels :
                       FlashWindows(channels[c], cfg.limit) # <<>>)))

-----------------------------------------------------------------------------
\* How much of the decode a rule declares that it needs.
VideoDecodeNeed(name) ==
  CASE name \in {"resolution", "frame_rate", "aspect_ratio", "color_space",
               "scan_format", "hdr"} -> "none"
    [] name = "corrupt_frames" -> "stream"
    [] OTHER -> "full_frame"

VideoRule(name, cfg, ctx) ==
  CASE name = "resolution"       -> Resolution(cfg, ctx)
    [] name = "frame_rate"       -> FrameRate(cfg, ctx)
    [] name = "aspect_ratio"     -> AspectRatio(cfg, ctx)
    [] name = "color_space"      -> ColorSpace(cfg, ctx)
    [] name = "black_frames"     -> BlackFrames(cfg, ctx)
    [] name = "freeze_frames"    -> FreezeFrames(cfg, ctx)
    [] name = "duplicate_frames" -> DuplicateFrames(cfg, ctx)
    [] name = "corrupt_frames"   -> CorruptFrames(cfg, ctx)
    [] name = "luma_range"       -> LumaRange(cfg, ctx)
    [] name = "scan_format"      -> ScanFormat(cfg, ctx)
    [] name = "photosensitivity" -> Photosensitivity(cfg, ctx)
    [] name = "hdr"              -> Hdr(cfg, ctx)
    [] name = "dead_pixels"      -> DeadPixels(cfg, ctx)
    [] name = "blockiness"       -> Blockiness(cfg, ctx)
    [] name = "blur"             -> Blur(cfg, ctx)
    [] name = "noise"            -> Noise(cfg, ctx)
=============================================================================
