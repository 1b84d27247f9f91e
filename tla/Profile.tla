------------------------------ MODULE Profile ------------------------------
(***************************************************************************)
(* Profiles (crates/tpt-app-media-qc-profile/src/parse.rs): which YAML     *)
(* documents are accepted.  A YAML value is a record: is names its type,   *)
(* yaml is its content.  Numbers that are no non-negative integers are     *)
(* "real" and in hundredths; infinities and NaN are "odd".  A rule has a   *)
(* schema: the type of each key it reads, the keys it requires,            *)
(* whether it rejects other keys, and what a scalar in its place means.    *)
(* Severities, names and messages are left out, but for the malformed      *)
(* severity: a rule with one becomes a warning (rule_spec).                *)
(***************************************************************************)
EXTENDS Values, FiniteSets

CONSTANT U32              \* counts are cut to 32 bits: the modulus
ASSUME U32Assumption == U32 \in Nat \ {0}

Whole(n) == [is |-> "int", yaml |-> n]
Real(h)  == [is |-> "real", yaml |-> h]
Odd      == [is |-> "odd", yaml |-> 0]
Txt(s)   == [is |-> "text", yaml |-> s]
Flag(b)  == [is |-> "bool", yaml |-> b]
List(q)  == [is |-> "list", yaml |-> q]
Keys(f)  == [is |-> "map", yaml |-> f]

Hundredths(n) == IF n.is = "int" THEN 100 * n.yaml ELSE n.yaml
Within(n, lo, hi) == n.is # "odd" /\ lo <= Hundredths(n) /\ Hundredths(n) <= hi
NonNegative(n) == n.is # "odd" /\ Hundredths(n) >= 0

Texts(kind) ==
  CASE kind = "scan"       -> {"progressive", "interlaced", "any"}
    [] kind = "fields"     -> {"tff", "bff", "any"}
    [] kind = "hdr_mode"   -> {"sdr", "hdr10", "hlg", "hdr"}
    [] kind = "standard"   -> {"ebu-r128", "atsc-a85", "bs1770"}
    [] kind = "expect"     -> {"present", "absent"}
    [] kind = "resolution" -> {"2x1", "0x0"}
    [] kind = "ratio"      -> {"2:1", "1/1"}
    [] kind = "rational"   -> {"25", "1/25"}
    [] OTHER               -> {}

\* What as_u64, as_f64, string_from_value ... make of a value: nothing, or the value.
Read(kind, v) ==
  CASE kind = "u64"      -> IF v.is = "int" THEN {v} ELSE {}
    [] kind = "u32"      -> IF v.is = "int" THEN {Whole(v.yaml % U32)} ELSE {}
    [] kind = "f64"      -> IF v.is \in {"int", "real", "odd"} THEN {v} ELSE {}
    [] kind = "bool"     -> IF v.is = "bool" THEN {v} ELSE {}
    [] kind = "string"   -> IF v.is \in {"text", "int", "real", "odd", "bool"} THEN {v} ELSE {}
    [] kind = "strings"  -> IF v.is = "list" /\ v.yaml # <<>> THEN {v} ELSE {}
    [] kind = "rational" -> IF v.is = "int" \/ (v.is = "text" /\ v.yaml \in Texts(kind)) THEN {v} ELSE {}
    [] OTHER             -> IF v.is = "text" /\ v.yaml \in Texts(kind) THEN {v} ELSE {}

-----------------------------------------------------------------------------
(* Schemas.  scalar: "defaults" (a scalar is only a severity), "reject",   *)
(* or the key whose value the scalar is.                                   *)

Schema(kinds, required, closed, scalar) ==
  [kinds |-> kinds, required |-> required, closed |-> closed, scalar |-> scalar]

NoKeys == [k \in {} |-> "u64"]

SeveritySchema      == Schema(NoKeys, {}, FALSE, "severity")
ToleranceSchema     == Schema([tolerance_ms |-> "u64"], {"tolerance_ms"}, FALSE, "reject")
BitrateSchema       == Schema([min_bps |-> "u64"], {"min_bps"}, FALSE, "reject")
TimebaseSchema      == Schema([value |-> "rational"], {"value"}, FALSE, "value")
ContinuitySchema    == Schema([max_gap_ms |-> "u64"], {}, FALSE, "defaults")
PresenceSchema      == Schema([min_video |-> "u64", min_audio |-> "u64", max_streams |-> "u64"], {}, FALSE, "defaults")

ResolutionSchema    == Schema([expected |-> "resolution"], {"expected"}, FALSE, "expected")
FrameRateSchema     == Schema([expected |-> "rational", tolerance |-> "f64"], {"expected"}, FALSE, "expected")
AspectSchema        == Schema([expected |-> "ratio", tolerance |-> "f64"], {"expected"}, FALSE, "expected")
SegmentSchema       == Schema([max_duration_ms |-> "u64"], {"max_duration_ms"}, FALSE, "reject")
CountSchema         == Schema([max_events |-> "u64"], {"max_events"}, FALSE, "reject")
LumaSchema          == Schema([max_out_of_legal |-> "f64"], {}, FALSE, "defaults")
HdrSchema           == Schema([mode |-> "hdr_mode", require_static_metadata |-> "bool", max_cll_nits |-> "u32",
                               max_fall_nits |-> "u32"], {"mode"}, FALSE, "mode")
DeadPixelSchema     == Schema([max_pixels |-> "u64", max_clusters |-> "u32", include_flicker |-> "bool",
                               fail_on_limited_resolution |-> "bool"], {}, TRUE, "defaults")
BlockinessSchema    == Schema([max_ratio |-> "f64", max_frame_ratio |-> "f64", min_evidence_share |-> "f64"],
                              {"max_ratio"}, TRUE, "reject")
BlurSchema          == Schema([min_sharpness |-> "f64"], {"min_sharpness"}, TRUE, "reject")
NoiseSchema         == Schema([max_sigma |-> "f64", min_evidence_share |-> "f64"], {"max_sigma"}, TRUE, "reject")
FlashSchema         == Schema([max_flashes_per_second |-> "f64"], {}, FALSE, "defaults")
ColorSpaceSchema    == Schema([expected |-> "string"], {"expected"}, FALSE, "expected")
ScanSchema          == Schema([scan |-> "scan", field_order |-> "fields"], {}, FALSE, "scan")

SampleRateSchema    == Schema([expected |-> "u64"], {"expected"}, FALSE, "expected")
BitDepthSchema      == Schema([expected |-> "u64"], {"expected"}, FALSE, "expected")
AudioSegmentSchema  == Schema([max_duration_ms |-> "u64"], {"max_duration_ms"}, FALSE, "reject")
AudioCountSchema    == Schema([max_events |-> "u64"], {"max_events"}, FALSE, "reject")
LayoutSchema        == Schema([channels |-> "u64", layout |-> "string"], {"channels"}, FALSE, "channels")
DbSchema            == Schema([max_db |-> "f64"], {"max_db"}, FALSE, "reject")
LoudnessSchema      == Schema([standard |-> "standard", target_lufs |-> "f64", tolerance_lu |-> "f64"], {}, FALSE, "defaults")
PhaseSchema         == Schema([min_correlation |-> "f64"], {}, FALSE, "defaults")
DcOffsetSchema      == Schema([max_offset_percent |-> "f64"], {}, FALSE, "defaults")

TracksSchema        == Schema([min_subtitle |-> "u32", max_subtitle |-> "u32"], {}, TRUE, "defaults")
LanguageSchema      == Schema([required |-> "strings", min_tracks |-> "u32"], {"required"}, TRUE, "reject")
TimingSchema        == Schema([max_overlaps |-> "u32", max_invalid_durations |-> "u32", max_gap_ms |-> "u64",
                               max_cue_duration_ms |-> "u64"], {}, TRUE, "defaults")
ContentSchema       == Schema([max_malformed |-> "u32", max_empty |-> "u32", max_chars_per_line |-> "u32",
                               max_lines_per_cue |-> "u32"], {}, TRUE, "defaults")
CoverageSchema      == Schema([tolerance_ms |-> "u64", allow_longer |-> "bool"], {}, TRUE, "defaults")

VoiceSchema(kinds, required) == Schema(kinds, required, TRUE, "reject")
SpeechSchema        == VoiceSchema([expect |-> "expect", min_ratio |-> "f64"], {"expect"})
NonSpeechSchema     == VoiceSchema([max_non_speech_ms |-> "u64"], {"max_non_speech_ms"})
SpeakersSchema      == VoiceSchema([min |-> "u32", max |-> "u32"], {})
ChangesSchema       == VoiceSchema([max_per_minute |-> "f64"], {"max_per_minute"})
TranscriptSchema    == VoiceSchema([max_wer |-> "f64", max_unexpected_words |-> "u64"], {"max_wer"})

-----------------------------------------------------------------------------
(* The groups of rules a profile can name, and the schema of each rule.    *)

ContainerGroup ==
  [readable |-> SeveritySchema, container_validity |-> SeveritySchema, malformed_metadata |-> SeveritySchema,
   duration_consistency |-> ToleranceSchema, bitrate |-> BitrateSchema, timecode_present |-> SeveritySchema,
   timebase |-> TimebaseSchema, timestamp_continuity |-> ContinuitySchema, unexpected_streams |-> SeveritySchema,
   stream_presence |-> PresenceSchema]

VideoGroup ==
  [resolution |-> ResolutionSchema, frame_rate |-> FrameRateSchema, aspect_ratio |-> AspectSchema,
   black_frames |-> SegmentSchema, freeze_frames |-> SegmentSchema, duplicate_frames |-> CountSchema,
   corrupt_frames |-> CountSchema, luma_range |-> LumaSchema, color_space |-> ColorSpaceSchema,
   scan_format |-> ScanSchema, photosensitivity |-> FlashSchema, hdr |-> HdrSchema,
   dead_pixels |-> DeadPixelSchema, blockiness |-> BlockinessSchema, blur |-> BlurSchema, noise |-> NoiseSchema]

AudioGroup ==
  [sample_rate |-> SampleRateSchema, bit_depth |-> BitDepthSchema, channel_layout |-> LayoutSchema,
   silence |-> AudioSegmentSchema, clipping |-> AudioCountSchema, peak |-> DbSchema, true_peak |-> DbSchema,
   loudness |-> LoudnessSchema, phase |-> PhaseSchema, dc_offset |-> DcOffsetSchema]

SubtitleGroup ==
  [presence |-> TracksSchema, language |-> LanguageSchema, timing |-> TimingSchema,
   content |-> ContentSchema, duration_match |-> CoverageSchema]

VoiceGroup ==
  [speech |-> SpeechSchema, silence |-> NonSpeechSchema, speakers |-> SpeakersSchema,
   speaker_changes |-> ChangesSchema, transcript |-> TranscriptSchema]

Groups == [container |-> ContainerGroup, video |-> VideoGroup, audio |-> AudioGroup,
           subtitle |-> SubtitleGroup, voice |-> VoiceGroup]

-----------------------------------------------------------------------------
(* Reading one rule.  A configuration has the keys that were given.        *)

Severities == {"info", "warning", "error", "critical"}

IsSeverity(v) == v.is = "text" /\ v.yaml \in Severities

\* The severity of an entry as rule_spec reads it: one it does not know is a warning.
SeverityOf(entry) ==
  LET given == IF entry.is # "map" THEN {entry}
               ELSE IF "severity" \in DOMAIN entry.yaml THEN {entry.yaml.severity} ELSE {}
  IN  IF \E v \in given : IsSeverity(v) THEN (CHOOSE v \in given : TRUE).yaml ELSE "warning"

\* The keys of the mapping that the rule reads, with what it makes of them.
ReadKeys(schema, m) ==
  LET known == DOMAIN m \cap DOMAIN schema.kinds
  IN  IF /\ schema.required \subseteq DOMAIN m
         /\ schema.closed => DOMAIN m \subseteq DOMAIN schema.kinds \cup {"severity"}
         /\ \A k \in known : Read(schema.kinds[k], m[k]) # {}
      THEN {[k \in known |-> CHOOSE v \in Read(schema.kinds[k], m[k]) : TRUE]}
      ELSE {}

ReadScalar(schema, v) ==
  CASE schema.scalar = "reject"   -> {}
    [] schema.scalar = "defaults" -> {NoKeys}
    [] schema.scalar = "severity" -> IF IsSeverity(v) THEN {NoKeys} ELSE {}
    [] OTHER -> {[k \in {schema.scalar} |-> x] : x \in Read(schema.kinds[schema.scalar], v)}

\* What a rule asks of its keys taken together.
Sensible(group, rule, cfg) ==
  LET has(k) == k \in DOMAIN cfg
      expects(k) == has(k) /\ cfg[k].yaml # "any"
  IN  CASE group = "video" /\ rule \in {"blockiness", "noise"} ->
             has("min_evidence_share") => Within(cfg.min_evidence_share, 0, 100)
        [] group = "video" /\ rule = "photosensitivity" ->
             has("max_flashes_per_second") => NonNegative(cfg.max_flashes_per_second)
        [] group = "video" /\ rule = "scan_format" -> expects("scan") \/ expects("field_order")
        [] group = "voice" /\ rule = "speech" -> has("min_ratio") => Within(cfg.min_ratio, 0, 100)
        [] group = "voice" /\ rule = "speakers" ->
             /\ has("min") \/ has("max")
             /\ has("min") /\ has("max") => cfg.min.yaml <= cfg.max.yaml
        [] group = "voice" /\ rule = "speaker_changes" -> NonNegative(cfg.max_per_minute)
        [] group = "voice" /\ rule = "transcript" -> NonNegative(cfg.max_wer)
        [] OTHER -> TRUE

\* The configuration of a rule from its entry; a severity that the severity rules
\* cannot read is an error, everywhere else it is not.
ParseRule(group, rule, entry) ==
  LET schema == Groups[group][rule]
      read   == IF entry.is # "map" THEN ReadScalar(schema, entry)
                ELSE IF schema = SeveritySchema /\ "severity" \in DOMAIN entry.yaml /\ ~IsSeverity(entry.yaml.severity)
                THEN {}
                ELSE ReadKeys(schema, entry.yaml)
  IN  {cfg \in read : Sensible(group, rule, cfg)}

\* A document: for each group its entries by name.
ParseProfile(doc) ==
  IF /\ DOMAIN doc \subseteq DOMAIN Groups
     /\ \A g \in DOMAIN doc : /\ DOMAIN doc[g] \subseteq DOMAIN Groups[g]
                              /\ \A r \in DOMAIN doc[g] : ParseRule(g, r, doc[g][r]) # {}
  THEN {[g \in DOMAIN doc |-> [r \in DOMAIN doc[g] |-> CHOOSE c \in ParseRule(g, r, doc[g][r]) : TRUE]]}
  ELSE {}
=============================================================================
