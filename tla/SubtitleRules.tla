--------------------------- MODULE SubtitleRules ---------------------------
(***************************************************************************)
(* The subtitle rules (crates/tpt-app-media-qc-rules/src/subtitle.rs).     *)
(* They look at every subtitle stream (language: optional) and at its      *)
(* measurement in ctx.subtitle: cues (optional count), invalid, overlaps,  *)
(* malformed, empty (counts), gap, longest, chars, lines and covered       *)
(* (optional), text (whether the text could be decoded).                   *)
(***************************************************************************)
EXTENDS ContainerRules

SubtitleMeasurements(ctx) ==
  {m \in {ctx.subtitle[i] : i \in DOMAIN ctx.subtitle} :
     \E s \in StreamsOf(ctx, "subtitle") : s.index = m.stream}

\* Streams that were never examined have no count of cues.
CuesRead(ctx) == {m \in SubtitleMeasurements(ctx) : m.cues # {}}

\* The video stream's own duration comes first.
VideoDuration(ctx) ==
  OrElse({1000 * d : d \in UNION {s.duration : s \in PrimaryStream(ctx, "video")}}, ctx.container.duration)

\* Some of the two-letter codes and what they are short for: a tag is its primary
\* subtag in lower case.
ThreeLetter == [en |-> "eng", de |-> "deu", fr |-> "fre"]

LanguageMatches(tag, wanted) ==
  LET code(l) == IF l \in DOMAIN ThreeLetter THEN ThreeLetter[l] ELSE l
  IN  code(tag) = code(wanted)

-----------------------------------------------------------------------------
SubtitlePresence(cfg, ctx) ==
  LET count == CountOf(ctx, "subtitle")
  IN  Needs(Scanned(ctx), FailIf(count < cfg.min \/ \E max \in cfg.max : count > max))

\* One failure for each required language.
SubtitleLanguage(cfg, ctx) ==
  LET spoken(s, wanted) == s.kind = "subtitle" /\ \E tag \in s.language : LanguageMatches(tag, wanted)
      tracks(wanted) == Len(SelectSeq(ctx.streams, LAMBDA s : spoken(s, wanted)))
  IN  Needs(Scanned(ctx),
            FailIf(\/ StreamsOf(ctx, "subtitle") = {}
                   \/ \E wanted \in cfg.required : tracks(wanted) < cfg.minTracks))

SubtitleTiming(cfg, ctx) ==
  LET M == CuesRead(ctx)
  IN  Needs(M # {},
            FailIf(\E m \in M : \/ m.invalid > cfg.maxInvalid
                                \/ m.overlaps > cfg.maxOverlaps
                                \/ \E l \in cfg.maxGap : Over(m.gap, l)
                                \/ \E l \in cfg.maxCue : Over(m.longest, l)))

\* Without text in any track the verdict is open, whatever else was found.
SubtitleContent(cfg, ctx) ==
  LET M    == {m \in CuesRead(ctx) : Over(m.cues, 0)}
      text == {m \in M : m.text}
  IN  Needs(text # {},
            FailIf(\/ \E m \in M : m.malformed > cfg.maxMalformed \/ m.empty > cfg.maxEmpty
                   \/ \E m \in text : \/ \E l \in cfg.maxChars : Over(m.chars, l)
                                      \/ \E l \in cfg.maxLines : Over(m.lines, l)))

SubtitleDuration(cfg, ctx) ==
  LET video   == VideoDuration(ctx)
      covered == UNION {m.covered : m \in SubtitleMeasurements(ctx)}
  IN  Needs(video # {} /\ covered # {},
            FailIf(\E v \in video, c \in covered :
                     \/ c + cfg.tolerance < v
                     \/ ~cfg.allowLonger /\ c > v + cfg.tolerance))

SubtitleRule(name, cfg, ctx) ==
  CASE name = "presence"       -> SubtitlePresence(cfg, ctx)
    [] name = "language"       -> SubtitleLanguage(cfg, ctx)
    [] name = "timing"         -> SubtitleTiming(cfg, ctx)
    [] name = "content"        -> SubtitleContent(cfg, ctx)
    [] name = "duration_match" -> SubtitleDuration(cfg, ctx)
=============================================================================
