----------------------------- MODULE Catalogue ------------------------------
(***************************************************************************)
(* The rules a profile gets: user-defined and plugin rules as parse.rs     *)
(* accepts them, the rules that build_rules makes, the catalogue of known  *)
(* ids and the configuration hashes of the cache.  Five lists of rule      *)
(* names are kept by hand in the code: the groups of parse.rs (Groups),    *)
(* the build functions, the RULE_IDS and the hash table here, and the      *)
(* prefixes plugins may not use.                                           *)
(* An id is a pair of a prefix and a name.                                 *)
(***************************************************************************)
EXTENDS Profile, CustomRules

-----------------------------------------------------------------------------
(* User-defined rules: rules.custom.                                       *)

Scopes == {"container", "video", "audio", "subtitle"}

CONSTANT MetadataKeys      \* metric names of the form metadata.<key>
ASSUME MetadataAssumption == MetadataKeys \cap (NumericMetrics \cup TextMetrics) = {}

\* The metrics a scope offers, with their types.
MetricKind(scope, metric) ==
  IF scope = "container"
  THEN IF metric \in {"duration_seconds", "size_bytes", "stream_count", "video_stream_count",
                      "audio_stream_count", "subtitle_stream_count"} THEN {"number"} ELSE {}
  ELSE IF metric \in MetadataKeys \cup {"codec", "codec_profile", "language"} THEN {"text"}
  ELSE IF metric \in {"bitrate", "duration_seconds"} THEN {"number"}
  ELSE IF scope = "video" /\ metric \in {"width", "height", "frame_rate"} THEN {"number"}
  ELSE IF scope = "video" /\ metric \in {"pixel_format", "field_order"} THEN {"text"}
  ELSE IF scope = "audio" /\ metric \in {"channels", "sample_rate", "bit_depth"} THEN {"number"}
  ELSE IF scope = "audio" /\ metric = "channel_layout" THEN {"text"}
  ELSE {}

Ordering == {"lt", "le", "gt", "ge"}
SetOps   == {"one_of", "none_of"}
Ops      == {"eq", "ne"} \cup Ordering \cup SetOps

\* Variant of AcceptsCustom: operands are not compared with the type of the metric.
AcceptsCustomAnyOperand(rule) ==
  /\ rule.scope = "container" => rule.target = "unset"
  /\ \E kind \in MetricKind(rule.scope, rule.metric) :
       /\ rule.operands # <<>>
       /\ rule.op \notin SetOps => Len(rule.operands) = 1
       /\ rule.op \in Ordering => kind = "number"
       /\ rule.tolerance > 0 => kind = "number" /\ rule.op \in {"eq", "ne"}

AcceptsCustom(rule) ==
  /\ rule.scope = "container" => rule.target = "unset"
  /\ \E kind \in MetricKind(rule.scope, rule.metric) :
       /\ rule.operands # <<>>
       /\ rule.op \notin SetOps => Len(rule.operands) = 1
       /\ rule.op \in Ordering => kind = "number"
       /\ \A i \in DOMAIN rule.operands : rule.operands[i].type = kind
       /\ rule.tolerance > 0 => kind = "number" /\ rule.op \in {"eq", "ne"}
  /\ rule.tolerance >= 0

\* The list, at most MaxCustom long, without a repeated id; ids are custom.<name>.
MaxCustom == 256

AcceptsCustomList(rules) ==
  /\ Len(rules) <= MaxCustom
  /\ \A i \in DOMAIN rules : /\ rules[i].id[1] = "custom"
                             /\ AcceptsCustom(rules[i])
                             /\ \A j \in 1 .. i - 1 : rules[j].id # rules[i].id

-----------------------------------------------------------------------------
(* Rules of plugins: rules.plugins.                                        *)

ReservedPrefixes == {"container", "video", "audio", "subtitle", "voice", "custom"}

\* Both parts are there and in the alphabet of ids: the ids of the instance are.
ValidPluginId(id) == id[1] \notin ReservedPrefixes

MaxPlugins == 128

AcceptsPlugins(ids) ==
  /\ Len(ids) <= MaxPlugins
  /\ \A i \in DOMAIN ids : /\ ValidPluginId(ids[i])
                           /\ \A j \in 1 .. i - 1 : ids[j] # ids[i]

-----------------------------------------------------------------------------
(* What runs.                                                              *)

\* The order of the build function of each group.
ContainerBuild == <<"readable", "container_validity", "malformed_metadata", "duration_consistency", "bitrate",
                    "timecode_present", "timebase", "timestamp_continuity", "unexpected_streams", "stream_presence">>
VideoBuild     == <<"resolution", "frame_rate", "aspect_ratio", "color_space", "black_frames", "freeze_frames",
                    "duplicate_frames", "corrupt_frames", "luma_range", "scan_format", "photosensitivity", "hdr",
                    "dead_pixels", "blockiness", "blur", "noise">>
AudioBuild     == <<"sample_rate", "bit_depth", "channel_layout", "silence", "clipping", "peak", "true_peak",
                    "loudness", "phase", "dc_offset">>
SubtitleBuild  == <<"presence", "language", "timing", "content", "duration_match">>
VoiceBuild     == <<"speech", "silence", "speakers", "speaker_changes", "transcript">>

\* The built-in rules that a parsed profile configures, in build order.
BuildGroup(group, order, parsed) ==
  LET names == IF group \in DOMAIN parsed THEN DOMAIN parsed[group] ELSE {}
      chosen == Only(order, {i \in DOMAIN order : order[i] \in names})
  IN  [i \in DOMAIN chosen |-> <<group, chosen[i]>>]

BuildRules(parsed, custom) ==
  BuildGroup("container", ContainerBuild, parsed)
  \o BuildGroup("video", VideoBuild, parsed)
  \o BuildGroup("audio", AudioBuild, parsed)
  \o BuildGroup("subtitle", SubtitleBuild, parsed)
  \o BuildGroup("voice", VoiceBuild, parsed)
  \o [i \in DOMAIN custom |-> custom[i].id]

\* Variant of HashTable: the newest rules were not added.
HashTableWithoutVoice ==
  [container |-> ToSet(ContainerBuild), video |-> ToSet(VideoBuild), audio |-> ToSet(AudioBuild),
   subtitle |-> ToSet(SubtitleBuild)]

\* The rules with a configuration of their own in the key of the cache.
HashTable ==
  [container |-> {"readable", "container_validity", "malformed_metadata", "duration_consistency", "bitrate",
                  "timecode_present", "timebase", "timestamp_continuity", "unexpected_streams", "stream_presence"},
   video |-> {"resolution", "frame_rate", "aspect_ratio", "black_frames", "freeze_frames", "duplicate_frames",
              "corrupt_frames", "luma_range", "color_space", "scan_format", "photosensitivity", "hdr",
              "dead_pixels", "blockiness", "blur", "noise"},
   audio |-> {"sample_rate", "bit_depth", "channel_layout", "silence", "clipping", "peak", "true_peak",
              "loudness", "phase", "dc_offset"},
   subtitle |-> {"presence", "language", "timing", "content", "duration_match"},
   voice |-> {"speech", "silence", "speakers", "speaker_changes", "transcript"}]

\* The configuration that is hashed: nothing for a rule that is not configured.
ConfigHash(parsed, custom, id) ==
  LET named == {i \in DOMAIN custom : custom[i].id = id}
  IN  IF id[1] \in DOMAIN HashTable
      THEN IF /\ id[2] \in HashTable[id[1]]
              /\ id[1] \in DOMAIN parsed
              /\ id[2] \in DOMAIN parsed[id[1]]
           THEN {<<"config", parsed[id[1]][id[2]]>>} ELSE {}
      ELSE IF id[1] = "custom" /\ named # {}
      THEN {<<"rule", custom[CHOOSE i \in named : \A j \in named : i <= j]>>}
      ELSE {}
=============================================================================
