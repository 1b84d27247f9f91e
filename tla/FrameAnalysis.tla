--------------------------- MODULE FrameAnalysis ---------------------------
(***************************************************************************)
(* What the decode pass measures of video frames                           *)
(* (crates/tpt-app-media-qc-decode/src/lib.rs from VideoAnalyzerConfig on, *)
(* pse.rs, deadpixels.rs, perception.rs).  An analyzer is a record that    *)
(* AnalyzerPush advances by one frame and AnalyzerFinish reduces to the    *)
(* measurements that the rules read.                                       *)
(*                                                                         *)
(* A frame has a time pts (optional, ms) and its picture: luma, the level  *)
(* 0 .. 255 of each cell in reading order, wide cells in a row; red, the   *)
(* red measure of each cell; block, blur and noise, what the three         *)
(* perceptual metrics make of it (optional).  Planes, pixel formats and    *)
(* the arithmetic of a metric are left out; sums are exact integers.       *)
(***************************************************************************)
EXTENDS Values, FiniteSets

CONSTANT Luminance    \* relative luminance of a level, in thousandths
ASSUME LuminanceAssumption ==
  /\ DOMAIN Luminance \subseteq 0 .. 255
  /\ \A v \in DOMAIN Luminance : Luminance[v] \in 0 .. 1000

Levels(q) == {q[i] : i \in DOMAIN q}
Top(S)    == CHOOSE x \in S : \A y \in S : y <= x
Bottom(S) == CHOOSE x \in S : \A y \in S : x <= y

-----------------------------------------------------------------------------
(* Segments: an open range and the list of closed ones.                    *)

NewTracker == [open |-> {}, ranges |-> <<>>]

\* Variant of Flush: an open range is dropped.
FlushDrops(t) == [t EXCEPT !.open = {}]

\* A range without length is not reported.
Flush(t) ==
  [open |-> {}, ranges |-> IF \E r \in t.open : r[1] < r[2] THEN Append(t.ranges, CHOOSE r \in t.open : TRUE) ELSE t.ranges]

Track(t, start, end, qualifies) ==
  IF ~qualifies THEN Flush(t)
  ELSE [t EXCEPT !.open = IF t.open = {} THEN {<<start, Greatest(start, end)>>}
                          ELSE {<<r[1], Greatest(r[2], Greatest(start, end))>> : r \in t.open}]

-----------------------------------------------------------------------------
(* Flashes: for each cell an anchor and the direction it moves in.         *)

MinDelta    == 100      \* general flash, in thousandths
DarkLimit   == 800
RedMinDelta == 20

\* 25 % of the field of view is 21824 / 786432 of the picture.
AreaThreshold(cells) == Greatest(1, (21824 * cells + 786431) \div 786432)

NewClass == [anchor |-> <<>>, direction |-> <<>>, last |-> 0, transitions |-> <<>>]

\* Turns of a cell: a swing of at least delta against the extremum of its direction.
Turns(anchor, direction, value, delta) ==
  \/ direction = 0 /\ Distance(value, anchor) >= delta
  \/ direction = 1 /\ anchor - value >= delta
  \/ direction = -1 /\ value - anchor >= delta

Extends(anchor, direction, value) ==
  \/ direction = 1 /\ value > anchor
  \/ direction = -1 /\ value < anchor

\* One frame of a class.  A picture with another count of cells starts it afresh.
StepClass(c, values, delta, darkLimit, at, threshold) ==
  LET cells == DOMAIN values
      turned(i) == Turns(c.anchor[i], c.direction[i], values[i], delta)
      counted(i, up) == /\ turned(i)
                        /\ up = (values[i] > c.anchor[i])
                        /\ \A limit \in darkLimit : values[i] < limit \/ c.anchor[i] < limit
      up   == Cardinality({i \in cells : counted(i, TRUE)})
      down == Cardinality({i \in cells : counted(i, FALSE)})
      way  == IF up >= threshold /\ (down < threshold \/ up >= down) THEN 1
              ELSE IF down >= threshold THEN -1 ELSE 0
      moves == way # 0 /\ way # c.last
  IN  IF Len(c.anchor) # Len(values)
      THEN [c EXCEPT !.anchor = values, !.direction = [i \in cells |-> 0], !.last = 0]
      ELSE [anchor      |-> [i \in cells |-> IF turned(i) \/ Extends(c.anchor[i], c.direction[i], values[i])
                                             THEN values[i] ELSE c.anchor[i]],
            direction   |-> [i \in cells |-> IF turned(i) THEN IF values[i] > c.anchor[i] THEN 1 ELSE -1
                                             ELSE c.direction[i]],
            last        |-> IF moves THEN way ELSE c.last,
            transitions |-> IF moves THEN Append(c.transitions, at) ELSE c.transitions]

\* The general and the red class, with the same area of the picture.
StepFlash(flash, frame, at) ==
  LET threshold == AreaThreshold(Len(frame.luma))
      light == [i \in DOMAIN frame.luma |-> Luminance[frame.luma[i]]]
  IN  <<StepClass(flash[1], light, MinDelta, {DarkLimit}, at, threshold),
        StepClass(flash[2], frame.red, RedMinDelta, {}, at, threshold)>>

-----------------------------------------------------------------------------
(* Dead pixels: extremes of each cell in bright and in dark frames.        *)

DarkLevel      == 8
BrightLevel    == 247
BrightFrameMin == 200
DarkFrameMax   == 55
MinContrast    == 3     \* frames of a kind that are needed before it is judged

NewCells(n) ==
  [maxInBright |-> [i \in 1 .. n |-> 0], minInDark |-> [i \in 1 .. n |-> 255],
   darkExtreme |-> {}, brightExtreme |-> {}, bright |-> 0, dark |-> 0, frames |-> 0]

\* A frame is bright if any cell is, dark if any cell is; it can be both.
PushCells(cells, luma) ==
  LET bright == Top(Levels(luma)) >= BrightFrameMin
      dark   == Bottom(Levels(luma)) <= DarkFrameMax
      I      == DOMAIN luma
  IN  [cells EXCEPT
        !.frames = @ + 1,
        !.bright = IF bright THEN @ + 1 ELSE @,
        !.dark   = IF dark THEN @ + 1 ELSE @,
        !.maxInBright = IF bright THEN [i \in I |-> Greatest(@[i], luma[i])] ELSE @,
        !.minInDark   = IF dark THEN [i \in I |-> IF luma[i] < @[i] THEN luma[i] ELSE @[i]] ELSE @,
        !.darkExtreme   = IF bright THEN @ \cup {i \in I : luma[i] <= DarkLevel} ELSE @,
        !.brightExtreme = IF dark THEN @ \cup {i \in I : luma[i] >= BrightLevel} ELSE @]

\* A cell that reached both extremes is one defect.
Kind(cells, i) ==
  LET lit == cells.bright >= MinContrast
      dim == cells.dark >= MinContrast
  IN  IF lit /\ dim /\ i \in cells.darkExtreme \cap cells.brightExtreme THEN "flicker"
      ELSE IF lit /\ cells.maxInBright[i] <= DarkLevel THEN "dead"
      ELSE IF dim /\ cells.minInDark[i] >= BrightLevel THEN "stuck"
      ELSE "none"

\* Cells of one kind that touch at a side form a cluster.
Adjacent(i, j, wide) ==
  \/ Distance(i, j) = wide
  \/ Distance(i, j) = 1 /\ (i - 1) \div wide = (j - 1) \div wide

Clusters(kinds, kind, wide) ==
  LET I == {i \in DOMAIN kinds : kinds[i] = kind}
      Grow[n \in Nat, S \in SUBSET I] ==
        IF n = 0 THEN S ELSE Grow[n - 1, S \cup {j \in I : \E i \in S : Adjacent(i, j, wide)}]
  IN  {Grow[Cardinality(I), {i}] : i \in I}

\* The list of clusters is cut at 64: no picture of an instance has more cells.
DeadStats(cells, wide) ==
  LET kinds == [i \in DOMAIN cells.maxInBright |-> Kind(cells, i)]
      count(k) == Cardinality({i \in DOMAIN kinds : kinds[i] = k})
  IN  [sampled |-> cells.frames, limited |-> FALSE, dark |-> count("dead"), bright |-> count("stuck"),
       flicker |-> count("flicker"),
       clusters |-> Cardinality(Clusters(kinds, "dead", wide) \cup Clusters(kinds, "stuck", wide)),
       flickerClusters |-> Cardinality(Clusters(kinds, "flicker", wide))]

-----------------------------------------------------------------------------
(* Perception: sums over the frames that had evidence.                     *)

NewPerception == [sampled |-> 0, block |-> <<>>, blur |-> <<>>, noise |-> <<>>]

PushPerception(p, frame) ==
  LET add(q, m) == IF m = {} THEN q ELSE Append(q, CHOOSE x \in m : TRUE)
  IN  [sampled |-> p.sampled + 1, block |-> add(p.block, frame.block),
       blur |-> add(p.blur, frame.blur), noise |-> add(p.noise, frame.noise)]

Average(q) == IF q = <<>> THEN {} ELSE {SumOf(q) \div Len(q)}

PerceptionStats(p) ==
  IF p.sampled = 0 THEN {}
  ELSE {[sampled |-> p.sampled, blockiness |-> Average(p.block),
         worst |-> IF p.block = <<>> THEN {} ELSE {Top(Levels(p.block))},
         blocky |-> Len(p.block), blur |-> Average(p.blur), noise |-> Average(p.noise),
         flat |-> Len(p.noise)]}

-----------------------------------------------------------------------------
(* The analyzer of a stream.                                               *)

BlackLevel   == 16
FreezeDelta  == 50      \* of the mean luma, in hundredths
FastestRate  == 2000000 \* in thousandths: a faster frame rounds to no ms at all

\* nominal: the rate that the metadata pass found (optional).
NewAnalyzer(nominal) ==
  [nominal |-> nominal, previous |-> {}, first |-> {}, count |-> 0, luma |-> {},
   black |-> NewTracker, freeze |-> NewTracker, duplicate |-> NewTracker,
   flash |-> <<NewClass, NewClass>>, cells |-> {}, perception |-> NewPerception]

\* Without a time of its own, or with one before zero, a frame follows the one before.
FrameTime(a, frame) ==
  IF \E t \in frame.pts : t >= 0 THEN CHOOSE t \in frame.pts : t >= 0
  ELSE IF a.previous # {} THEN CHOOSE t \in {p.at + p.for : p \in a.previous} : TRUE
  ELSE 0

\* The nominal duration; else the time since the frame before; else 1 ms.
FrameDuration(a, at) ==
  LET nominal == {(1000000 + r \div 2) \div r : r \in {x \in a.nominal : x \in 1 .. FastestRate}}
      since   == {at - p.at : p \in {q \in a.previous : q.at <= at}}
  IN  IF nominal # {} THEN CHOOSE d \in nominal : TRUE
      ELSE IF since # {} THEN CHOOSE d \in since : TRUE ELSE 1

\* Whether the frame looks like the one before: the mean is near, the picture the same.
LooksFrozen(p, luma)     == 100 * Distance(SumOf(p.luma), SumOf(luma)) <= FreezeDelta * Len(luma)
LooksDuplicate(p, luma)  == p.luma = luma

\* min, max, samples and the samples outside of the legal range, over all frames.
MergeLuma(total, luma) ==
  LET out(P(_)) == Cardinality({i \in DOMAIN luma : P(luma[i])})
      frame == [samples |-> Len(luma), min |-> Bottom(Levels(luma)), max |-> Top(Levels(luma)),
                below |-> out(LAMBDA v : v < 16), above |-> out(LAMBDA v : v > 235)]
  IN  IF total = {} THEN {frame}
      ELSE {[samples |-> t.samples + frame.samples, min |-> Bottom({t.min, frame.min}),
             max |-> Top({t.max, frame.max}), below |-> t.below + frame.below,
             above |-> t.above + frame.above] : t \in total}

AnalyzerPush(a, frame) ==
  LET at    == FrameTime(a, frame)
      for   == FrameDuration(a, at)
      end   == at + for
      cells == IF a.cells = {} THEN {NewCells(Len(frame.luma))} ELSE a.cells
      since(t, P(_)) == IF a.previous = {} THEN t
                        ELSE LET p == CHOOSE q \in a.previous : TRUE IN P(p)
  IN  [a EXCEPT
        !.black = Track(@, at, end, Top(Levels(frame.luma)) <= BlackLevel),
        !.freeze = since(@, LAMBDA p : Track(a.freeze, p.at, end, LooksFrozen(p, frame.luma))),
        !.duplicate = since(@, LAMBDA p : Track(a.duplicate, at, end, LooksDuplicate(p, frame.luma))),
        !.flash = StepFlash(@, frame, at),
        !.cells = {PushCells(c, frame.luma) : c \in cells},
        !.perception = PushPerception(@, frame),
        !.luma = MergeLuma(@, frame.luma),
        !.first = IF @ = {} THEN {at} ELSE @,
        !.previous = {[at |-> at, for |-> for, luma |-> frame.luma]},
        !.count = @ + 1]

\* The observed rate, from the times of the first and the last frame; else the nominal one.
ObservedRate(a) ==
  LET elapsed == {p.at - f : p \in a.previous, f \in a.first}
      span    == {d \in elapsed \cup {0} : d > 0 /\ a.count > 1}
  IN  OrElse({(1000000 * (a.count - 1)) \div d : d \in span}, a.nominal)

Lengths(ranges) == {ranges[i][2] - ranges[i][1] : i \in DOMAIN ranges}

AnalyzerFinish(a, wide) ==
  LET black == Flush(a.black).ranges
      freeze == Flush(a.freeze).ranges
      duplicate == Flush(a.duplicate).ranges
  IN  [stream |-> 0, colorspace |-> {}, hdr |-> {}, frames |-> {a.count}, errors |-> 0, rate |-> ObservedRate(a),
       blackRanges |-> black, freezeRanges |-> freeze, duplicateRanges |-> duplicate,
       black |-> Lengths(black), freeze |-> Lengths(freeze), duplicates |-> Len(duplicate),
       luma |-> {(1000 * (l.below + l.above)) \div l.samples : l \in a.luma},
       flash |-> {<<a.flash[1].transitions, a.flash[2].transitions>>},
       dead |-> {DeadStats(c, wide) : c \in a.cells}, perceptual |-> PerceptionStats(a.perception),
       order |-> {}]
=============================================================================
