----------------------------- MODULE VoiceRules -----------------------------
(***************************************************************************)
(* The voice rules (crates/tpt-app-media-qc-rules/src/voice.rs).  They     *)
(* judge every voice measurement by itself: analysed (ms), speechAnalysed, *)
(* speech (ms), gap (longest stretch without speech), speakers and         *)
(* transcript (optional), changes (of the speaker).                        *)
(***************************************************************************)
EXTENDS Rules

\* The measurements a rule can use, and its result with what each of them says: without one
\* it does not judge.
Measurements(ctx, needsSpeech) ==
  {ctx.voice[i] : i \in {j \in DOMAIN ctx.voice : needsSpeech => ctx.voice[j].speechAnalysed}}

All(usable, results) == Needs(usable # {}, UNION results)

\* speech / analysed against minRatio, a percentage.
Speech(cfg, ctx) ==
  LET Judge(m) ==
        Needs(m.analysed > 0,
              LET enough == 100 * m.speech >= cfg.minRatio * m.analysed
              IN  FailIf(enough # (cfg.expect = "present")))
  IN  All(Measurements(ctx, TRUE), {Judge(m) : m \in Measurements(ctx, TRUE)})

\* No gap, no complaint.
VoiceSilence(cfg, ctx) ==
  LET Judge(m) == FailIf(Over(m.gap, cfg.max))
  IN  All(Measurements(ctx, TRUE), {Judge(m) : m \in Measurements(ctx, TRUE)})

Speakers(cfg, ctx) ==
  LET Judge(m) == Needs(m.speakers # {},
                        FailIf(\/ \E l \in cfg.min : Under(m.speakers, l)
                               \/ \E l \in cfg.max : Over(m.speakers, l)))
  IN  All(Measurements(ctx, TRUE), {Judge(m) : m \in Measurements(ctx, TRUE)})

Minute == 60000

\* Changes per minute of audio; no audio, no complaint.
SpeakerChanges(cfg, ctx) ==
  LET Judge(m) == FailIf(m.analysed > 0 /\ Minute * m.changes > cfg.max * m.analysed)
  IN  All(Measurements(ctx, TRUE), {Judge(m) : m \in Measurements(ctx, TRUE)})

\* transcript: the word error rate (in percent) and the count of unexpected words.
Transcript(cfg, ctx) ==
  LET Judge(m) == Needs(m.transcript # {},
                        FailIf(\E t \in m.transcript : t.wer > cfg.maxWer \/ t.unexpected > cfg.maxUnexpected))
  IN  All(Measurements(ctx, FALSE), {Judge(m) : m \in Measurements(ctx, FALSE)})

VoiceRule(name, cfg, ctx) ==
  CASE name = "speech"          -> Speech(cfg, ctx)
    [] name = "silence"         -> VoiceSilence(cfg, ctx)
    [] name = "speakers"        -> Speakers(cfg, ctx)
    [] name = "speaker_changes" -> SpeakerChanges(cfg, ctx)
    [] name = "transcript"      -> Transcript(cfg, ctx)
=============================================================================
