------------------------------ MODULE Analysis ------------------------------
(***************************************************************************)
(* QcEngine.check (crates/tpt-app-media-qc-pipeline/src/engine.rs) from    *)
(* the bytes of a file to its verdict: the inspection of Inspect, then the *)
(* rules of the profile (build_rules, crates/tpt-app-media-qc-rules) on    *)
(* what it found, then the policy (Verdict).  Beside it, the questions     *)
(* that have no file: what a profile document makes of itself, what a      *)
(* user-defined rule says of a value, and what windows a sequence of       *)
(* flashes has.                                                            *)
(*                                                                         *)
(* For the properties a file of the instance also has the truth about      *)
(* itself: times, of the frames of its first track in ms.                  *)
(***************************************************************************)
EXTENDS Inspect, VideoRules, AudioRules, SubtitleRules, VoiceRules, Catalogue

CONSTANTS Profiles,        \* each: group -> rule -> configuration, in the units of the rules
          Custom,          \* the user-defined rules of each of them
          FailOn,          \* the severity from which a failure fails the asset
          Documents, CustomLists, PluginLists,     \* profiles to parse
          CustomRulesAsked, Readings, FlashTimes, FlashLimits

\* The user-defined rules passed the parser; what is asked has the types of the code.  Times of
\* flashes are in order: flash_hazard_windows subtracts the earlier from the later, unsigned.
ASSUME AnalysisAssumption ==
  /\ IsList(Custom) /\ AcceptsCustomList(Custom)
  /\ \A list \in CustomLists \cup PluginLists : IsList(list)
  /\ \A rule \in CustomRulesAsked :
       /\ {"op", "operands", "tolerance"} \subseteq DOMAIN rule /\ rule.op \in Ops /\ IsList(rule.operands)
       /\ \A o \in Range(rule.operands) : o.type = "number" => o.value \in Int
  /\ \A reading \in Readings : reading.type = "number" => reading.value \in Int
  /\ FlashLimits \subseteq Nat
  /\ \A times \in FlashTimes : /\ times \in Seq(Int)
                              /\ \A i, j \in DOMAIN times : i <= j => times[i] <= times[j]

V == INSTANCE Verdict

ASSUME PolicyAssumption == FailOn \in V!Severity

VARIABLES results,     \* of the rules, in build order: id and set of statuses
          verdict,     \* of the asset, "none" before
          question, answer

vars == <<inspectVars, results, verdict, question, answer>>
asked == <<question, answer>>

AnalysisInit ==
  InspectInit /\ results = <<>> /\ verdict = "none" /\ question = {} /\ answer = {}

-----------------------------------------------------------------------------
(* The rules.                                                              *)

\* What a rule sees: the asset, whose duration no command fills, and the inspection.
Context ==
  [streams |-> Found.streams, container |-> Found.container, video |-> Found.video, audio |-> Found.audio,
   subtitle |-> Found.subtitle, voice |-> Found.voice, size |-> TheFile.length, duration |-> {}]

RuleResult(profile, id, ctx) ==
  LET cfg == profile[id[1]][id[2]]
      own == {i \in DOMAIN Custom : Custom[i].id = id}
  IN  CASE id[1] = "container" -> ContainerRule(id[2], cfg, ctx)
        [] id[1] = "video"     -> VideoRule(id[2], cfg, ctx)
        [] id[1] = "audio"     -> AudioRule(id[2], cfg, ctx)
        [] id[1] = "subtitle"  -> SubtitleRule(id[2], cfg, ctx)
        [] id[1] = "voice"     -> VoiceRule(id[2], cfg, ctx)
        [] id[1] = "custom"    -> CustomRule(Custom[CHOOSE i \in own : TRUE], ctx)

RunRules(profile) ==
  LET ids == BuildRules(profile, Custom)
      ctx == Context
  IN  [i \in DOMAIN ids |-> [id |-> ids[i], statuses |-> RuleResult(profile, ids[i], ctx)]]

\* Every finding of the instance has the severity of a rule without one of its own.
Findings(run) ==
  UNION {{[rule |-> i, status |-> s, severity |-> IF s = "pass" THEN "info" ELSE "error"] : s \in run[i].statuses} :
           i \in DOMAIN run}

Judge ==
  /\ stage = "rules" /\ stage' = "judged"
  /\ \E profile \in Profiles : results' = RunRules(profile)
  /\ verdict' = V!Decide(FailOn, Findings(results'))
  /\ UNCHANGED <<file, inspection, source, seen, held, analyzer, shown, ear, heard, asked>>

\* A step of the inspection; the next asset starts without a result.
Look ==
  /\ question = {} /\ InspectNext
  /\ results' = IF stage' = "idle" THEN <<>> ELSE results
  /\ verdict' = IF stage' = "idle" THEN "none" ELSE verdict
  /\ UNCHANGED asked

-----------------------------------------------------------------------------
(* Questions.                                                              *)

Asks(q, a) ==
  /\ stage = "idle" /\ question = {}
  /\ question' = {q} /\ answer' = a
  /\ UNCHANGED <<inspectVars, results, verdict>>

\* The rules of a profile in order, each with what stands for its configuration in the key
\* of the cache; nothing if the profile is rejected.
AskProfile ==
  \E doc \in Documents, custom \in CustomLists, plugins \in PluginLists :
    LET built(p) == BuildRules(p, custom) \o plugins
        keyed(p) == [i \in DOMAIN built(p) |-> [id |-> built(p)[i], hash |-> ConfigHash(p, custom, built(p)[i])]]
    IN  Asks([about |-> "profile"],
             IF AcceptsCustomList(custom) /\ AcceptsPlugins(plugins) THEN {keyed(p) : p \in ParseProfile(doc)} ELSE {})

\* The result of an accepted rule for a value of its metric.
AskCustom ==
  \E rule \in CustomRulesAsked, reading \in Readings :
    /\ {reading.type} = MetricKind(rule.scope, rule.metric)
    /\ Asks([about |-> "custom", rule |-> rule, reading |-> reading],
            IF AcceptsCustom(rule) THEN {Holds(rule, reading)} ELSE {})

AskFlashes ==
  \E times \in FlashTimes, limit \in FlashLimits :
    Asks([about |-> "flashes", times |-> times, limit |-> limit], {FlashWindows(times, limit)})

Forget ==
  /\ question # {} /\ question' = {} /\ answer' = {}
  /\ UNCHANGED <<inspectVars, results, verdict>>

AnalysisNext == Look \/ Judge \/ AskProfile \/ AskCustom \/ AskFlashes \/ Forget

AnalysisSpec == AnalysisInit /\ [][AnalysisNext]_vars

-----------------------------------------------------------------------------
(* Properties of a check.                                                  *)

Judged == stage = "judged"

ResultOf(id) == UNION {results[i].statuses : i \in {j \in DOMAIN results : results[j].id = id}}

\* The rules that need decoded frames or samples and were run.
FrameRules(group) == {results[i].id : i \in {j \in DOMAIN results :
    /\ results[j].id[1] = group
    /\ (IF group = "video" THEN VideoDecodeNeed(results[j].id[2]) ELSE AudioDecodeNeed(results[j].id[2])) # "none"}}

\* A rule about pictures or sound is clean only if the decoder delivered frames that count for
\* the stream that the rule judges; with a quick scan, an unknown codec, a decode that broke
\* off or one of another stream it is not.  They are frames of that stream's own track, as the
\* container names it, whenever the demuxer lists the track that the metadata pass preferred;
\* where it does not, the number under which frames count says nothing of their track
\* (choose in decode/src/lib.rs).
NoPassWithoutDecode ==
  Judged =>
    /\ \A id \in FrameRules("video") : IsPass(ResultOf(id)) =>
         /\ shown # <<>>
         /\ \E s \in PrimaryStream(Context, "video") :
              /\ s.index = source.stream
              /\ PreferredTracks(TheFile, Found.streams) # {} => s.native = {TheFile.tracks[source.track].id}
    /\ \A id \in FrameRules("audio") : IsPass(ResultOf(id)) =>
         heard # <<>> /\ \E s \in PrimaryStream(Context, "audio") : s.index = FirstAudio

\* Maximal runs of frames of the history with a quality that Qualifies(k) tells.
Runs(Qualifies(_)) ==
  LET n == Len(shown)
  IN  {r \in (1 .. n) \X (1 .. n) :
         /\ r[1] <= r[2] /\ \A k \in r[1] .. r[2] : Qualifies(k)
         /\ r[1] = 1 \/ ~Qualifies(r[1] - 1)
         /\ r[2] = n \/ ~Qualifies(r[2] + 1)}

Ends(r) == {shown[k].at + shown[k].for : k \in r[1] .. r[2]}

\* The black and the frozen stretches that are reported are exactly the maximal runs of
\* black frames, and of frames that look like their predecessor, over the whole stream: one
\* that is open when the stream ends is reported too, none is split or dropped.
SegmentsExact ==
  (Judged /\ shown # <<>>) =>
    LET m == CHOOSE v \in {Found.video[i] : i \in DOMAIN Found.video} : v.stream = source.stream
        black(k) == \A c \in DOMAIN shown[k].picture.luma : shown[k].picture.luma[c] <= BlackLevel
        frozen(k) == k > 1 /\ LooksFrozen([luma |-> shown[k - 1].picture.luma], shown[k].picture.luma)
        long(S) == {x \in S : x[1] < x[2]}
    IN  /\ Range(m.blackRanges) = long({<<shown[r[1]].at, Top(Ends(r))>> : r \in Runs(black)})
        /\ Range(m.freezeRanges) = long({<<shown[r[1] - 1].at, Top(Ends(r))>> : r \in Runs(frozen)})

\* Frames are measured only if every sample that the tables promise of the track they come
\* from was read, and they count for one stream: a file that ends early is never judged by
\* the part that is there.
PartialDecodeNeverCounts ==
  stage \in {"audio", "samples", "voice", "rules", "judged"} =>
    \A i \in DOMAIN Found.video : Frames(Found.video[i]) > 0 =>
      /\ Found.video[i].stream = source.stream
      /\ \A n \in TheFile.tracks[source.track].samples : seen >= n

\* An MP4 file has not all it declares if a box whose header is there goes beyond its end, or
\* a chunk of a track that is read from the whole of the first moov begins there: of the boxes
\* that the reader walks.  What stands behind its limit it never looks at.
BoxStarts(boxes) ==
  LET Start[n \in 1 .. Len(boxes) + 1] == IF n = 1 THEN 0 ELSE Start[n - 1] + boxes[n - 1].size IN Start

IsoLost(f) ==
  LET b == f.boxes
      starts == BoxStarts(b)
      walked == {n \in DOMAIN b : n <= MaxTopLevelBoxes}
      moov == {n \in walked : b[n].kind = "moov" /\ \A k \in 1 .. n - 1 : b[k].kind # "moov"}
      tracks == UNION {Range(ReadTraks(b[n].moov, b[n].size - HeaderOf(b[n]))) : n \in moov}
  IN  /\ \A n \in walked : b[n].size >= HeaderOf(b[n])
      /\ \/ \E n \in walked : starts[n] + HeaderOf(b[n]) <= f.length /\ f.length < starts[n + 1]
         \/ \E t \in tracks : Class(t).class = "supported" /\ \E place \in Range(t.offsets) : place >= f.length

\* So has a Matroska file whose segment ends behind it, and a WAV file of which sound is missing.
MatroskaLost(f) ==
  f.segment # {} /\ \A h \in f.head, s \in f.segment : \E n \in s.size : h + s.header + n > f.length

WavLost(f) ==
  \E i \in DOMAIN f.chunks :
    /\ f.chunks[i].id = "data" /\ \A k \in 1 .. i - 1 : f.chunks[k].id # "data"
    /\ \E n \in f.chunks[i].declared : ChunkStarts(f.chunks)[i] + 8 + n > f.length

Lost(f) == \/ f.magic = "mp4" /\ IsoLost(f)
           \/ f.magic = "mkv" /\ MatroskaLost(f)
           \/ f.magic = "wav" /\ WavLost(f)

\* A file that lost bytes that it declares, where its reader looks, is noticed: it is not read, or it fails as not
\* readable, whatever else is found, and the asset with it.
LostDataShows ==
  (Judged /\ Lost(TheFile) /\ \E i \in DOMAIN results : results[i].id = <<"container", "readable">>) =>
    /\ ResultOf(<<"container", "readable">>) = Failure
    /\ FailOn # "critical" => verdict = "fail"

\* A jump that no rounding can hide: twice the usual step and 20 ms.
ClearJumps(times) ==
  {times[k + 1] : k \in {j \in 1 .. Len(times) - 1 :
     \A m \in Median(Forward(times, Len(times))) : times[j + 1] - times[j] > 2 * m + 20}}

\* Every container reports the clear jumps of the same timeline at the same places, and
\* nothing where the frames follow each other: the wrap of a transport stream's clock is no
\* jump.  (The first distance of a Matroska track is never reported: left out.)
JumpsAreReported ==
  (Judged /\ Len(TheFile.times) > 2 /\ ~Lost(TheFile)) =>
    {g[2] : g \in Found.container.places} \ {TheFile.times[2]} = ClearJumps(TheFile.times) \ {TheFile.times[2]}

-----------------------------------------------------------------------------
(* Properties of the answers.                                              *)

About(what) == {q \in question : q.about = what}

\* Every rule that runs has an id of its own, and every rule of the catalogue a key in the
\* cache: the five hand-kept lists of rules agree, and no plugin takes the name of another
\* rule.
EveryRuleHasItsKey ==
  About("profile") # {} =>
    \A run \in answer :
      /\ \A i, j \in DOMAIN run : run[i].id = run[j].id => i = j
      /\ \A i \in DOMAIN run : run[i].id[1] \in ReservedPrefixes => run[i].hash # {}

Opposite == [eq |-> "ne", ne |-> "eq", lt |-> "ge", ge |-> "lt", le |-> "gt", gt |-> "le",
             one_of |-> "none_of", none_of |-> "one_of"]

\* What an accepted rule says of a value, the rule with the opposite comparison denies: no
\* operand of the wrong type makes both fail.
OperandsDecide ==
  \A q \in About("custom") : \A a \in answer :
    a # Holds([q.rule EXCEPT !.op = Opposite[q.rule.op]], q.reading)

\* Flash windows: apart from each other, each with too many transitions, and every burst of
\* more than twice the limit within a second inside of one.
FlashWindowsExact ==
  \A q \in About("flashes") : \A w \in answer :
    LET t == q.times
        inside(a, b) == Cardinality({k \in DOMAIN t : a <= t[k] /\ t[k] <= b})
    IN  /\ \A i \in 1 .. Len(w) - 1 : w[i][2] < w[i + 1][1]
        /\ \A i \in DOMAIN w : inside(w[i][1], w[i][2]) > 2 * q.limit
        /\ \A i, k \in DOMAIN t :
             (i <= k /\ t[k] - t[i] < Second /\ k - i + 1 > 2 * q.limit) =>
               \E n \in DOMAIN w : w[n][1] <= t[i] /\ t[k] <= w[n][2]
=============================================================================
