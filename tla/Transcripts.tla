---------------------------- MODULE Transcripts ----------------------------
(***************************************************************************)
(* Voice analysis (crates/tpt-app-media-qc-decode/src/transcript.rs and    *)
(* voice.rs): the comparison of two transcripts, the sidecar files that    *)
(* hold them, and the measurements of speech.  A text is a sequence of     *)
(* words as words() leaves them.  The detectors of speech and speakers are *)
(* external: their regions, turns and count are inputs.                    *)
(***************************************************************************)
EXTENDS Values, FiniteSets

CONSTANT MaxWords     \* longer texts are not compared
ASSUME MaxWordsAssumption == MaxWords \in Nat

-----------------------------------------------------------------------------
(* Alignment.  A cell counts the edits between two prefixes.               *)

Cell(s, d, i) == [s |-> s, d |-> d, i |-> i]
Cost(c) == c.s + c.d + c.i

\* The cheapest of three ways to a cell; ties prefer substitutions, then deletions.
Cheapest(diag, up, left, same) ==
  LET diagonal == IF same THEN diag ELSE [diag EXCEPT !.s = @ + 1]
      delete   == [up EXCEPT !.d = @ + 1]
      insert   == [left EXCEPT !.i = @ + 1]
      better(a, b) == IF Cost(b) < Cost(a) THEN b ELSE a
  IN  better(better(diagonal, delete), insert)

\* The cells of the first k expected words, from those of one word less.
EditRow(previous, k, reference, hypothesis) ==
  LET Current[n \in 0 .. Len(hypothesis)] ==
        IF n = 0 THEN Cell(0, k, 0)
        ELSE Cheapest(previous[n - 1], previous[n], Current[n - 1], reference[k] = hypothesis[n])
  IN  Current

EditCounts(reference, hypothesis) ==
  LET Row[k \in 0 .. Len(reference)] ==
        IF k = 0 THEN [n \in 0 .. Len(hypothesis) |-> Cell(0, 0, n)]
        ELSE EditRow(Row[k - 1], k, reference, hypothesis)
  IN  Row[Len(reference)][Len(hypothesis)]

\* What it counts: of the alignments of two texts (pairs of positions that both rise) the
\* cheapest.
Rise(A) == \A x, y \in A : x # y => (x[1] < y[1] /\ x[2] < y[2]) \/ (y[1] < x[1] /\ y[2] < x[2])

Alignments(r, h) == {A \in SUBSET ((DOMAIN r) \X (DOMAIN h)) : Rise(A)}

CostOf(A, r, h) ==
  Cardinality({x \in A : r[x[1]] # h[x[2]]}) + (Len(r) - Cardinality(A)) + (Len(h) - Cardinality(A))

\* Nothing if the texts cannot be compared, else the errors in percent of the
\* expected words and the count of words that are not expected at all.
CompareTexts(reference, hypothesis) ==
  LET known == {reference[k] : k \in DOMAIN reference}
      edits == EditCounts(reference, hypothesis)
  IN  IF reference = <<>> \/ Len(reference) > MaxWords \/ Len(hypothesis) > MaxWords THEN {}
      ELSE {[edits |-> edits, wer |-> (100 * Cost(edits)) \div Len(reference),
             unexpected |-> Cardinality({k \in DOMAIN hypothesis : hypothesis[k] \notin known})]}

\* files: expected, plain and json, each with there (it exists) and text (nothing if it
\* is too large, not readable or not in a known form).  The plain transcript comes first.
CompareSidecars(files) ==
  LET spoken == IF files.plain.there THEN files.plain ELSE files.json
      result(r, m) == [result |-> r, measured |-> m]
      measured == UNION {CompareTexts(e, t) : e \in files.expected.text, t \in spoken.text}
  IN  IF ~files.expected.there /\ ~spoken.there THEN result("none", {})
      ELSE IF ~files.expected.there \/ ~spoken.there THEN result("missing", {})
      ELSE IF measured = {} THEN result("invalid", {})
      ELSE result("compared", measured)

-----------------------------------------------------------------------------
(* Speech.                                                                 *)

\* The longest gap between regions, with the start and the end of the audio.
LongestGap(regions, total) ==
  LET end(k) == IF k = 0 THEN 0 ELSE regions[k][2]
      Cursor[k \in 0 .. Len(regions)] == IF k > 0 /\ Cursor[k - 1] >= end(k) THEN Cursor[k - 1] ELSE end(k)
      next(k) == IF k = Len(regions) THEN total ELSE regions[k + 1][1]
      gaps == {next(k) - Cursor[k] : k \in 0 .. Len(regions)}
  IN  {g \in gaps : g > 0 /\ \A h \in gaps : h <= g}

SpeakerChangeCount(turns) == Cardinality({k \in 1 .. Len(turns) - 1 : turns[k] # turns[k + 1]})

\* heard: what the detectors found (regions, turns, speakers, total), nothing if they
\* failed, panicked or are not built in.
SpeechMeasured(m, heard) ==
  IF heard = {} THEN m
  ELSE LET h == CHOOSE x \in heard : TRUE
           speech[k \in 0 .. Len(h.regions)] ==
             IF k = 0 THEN 0 ELSE speech[k - 1] + h.regions[k][2] - h.regions[k][1]
       IN  [m EXCEPT !.speechAnalysed = TRUE, !.analysed = h.total, !.speech = speech[Len(h.regions)],
                     !.gap = LongestGap(h.regions, h.total), !.speakers = {h.speakers},
                     !.changes = SpeakerChangeCount(h.turns)]

NoVoice(stream) ==
  [stream |-> stream, speechAnalysed |-> FALSE, analysed |-> 0, speech |-> 0, gap |-> {}, speakers |-> {},
   changes |-> 0, transcript |-> {}]

\* The voice measurements of the first audio stream, added to those of the inspection;
\* nothing that fails here ends the scan.
AnalyzeVoice(config, voice, audioStreams, files, heard) ==
  LET stream == CHOOSE s \in audioStreams : \A t \in audioStreams : s <= t
      read   == IF config.transcript
                THEN [NoVoice(stream) EXCEPT !.transcript = CompareSidecars(files).measured]
                ELSE NoVoice(stream)
      m      == IF config.speech THEN SpeechMeasured(read, heard) ELSE read
  IN  IF audioStreams = {} \/ ~(m.speechAnalysed \/ m.transcript # {}) THEN voice
      ELSE Append(SelectSeq(voice, LAMBDA v : v.stream # stream), m)
=============================================================================
