------------------------- MODULE WatchFolderProofs --------------------------
(***************************************************************************)
(* Theorems about WatchFolder, for any number of files, polls and          *)
(* sessions, any verdicts, any files in the destinations from the start,   *)
(* and destinations inside the input folder or elsewhere.  The inductive   *)
(* invariant says what the input folder holds (Inputs), that a file not    *)
(* processed too early is whole somewhere (Kept), what the session has     *)
(* taken up (TakenUp, Listed) and what its looks at the length tell of the *)
(* writer (Looked), and what stands between a delivery that was begun and  *)
(* the loss of the file (Routed).                                          *)
(***************************************************************************)
EXTENDS WatchFolder, FiniteSetTheorems, TLAPS

Busy == {"routing", "copying", "removing"}

\* The input folder holds the producer's files, each under its own name.
Inputs ==
  \A e \in disk :
    e.dir = "input" => e.slot = e.file /\ e.how = "inode" /\ e.file \in appeared

\* Also while it is being written, a file not processed too early is not lost.
Kept ==
  \A f \in appeared \ early : \E e \in disk : e.file = f /\ e.how # "partial"

\* Only paths of the input folder are taken up.
TakenUp ==
  /\ pc \in {"waiting", "checking"} \cup Busy => cur.dir = "input"
  /\ pc = "waiting" => polls # 0
  /\ pc = "receiving" => phase = "watch"

\* A path of the scan is in hand.
OfScan == pc = "waiting" \/ (pc = "checking" /\ phase = "scan")

\* What the scan has listed had appeared: no other file takes its name later.
Listed ==
  /\ \A p \in todo : p.dir = "input" => p.slot \in appeared
  /\ OfScan => cur.slot \in appeared

\* A file is never shorter than at the last look, and longer if it has grown since.  One that
\* the scan has taken up was not empty, and had not grown between the last two looks.
Looked ==
  /\ pc = "waiting" =>
       \A f \in FilesAt(cur) : size[f] >= prev /\ (f \notin idle => size[f] > prev)
  /\ pc = "checking" /\ phase = "scan" =>
       \A f \in FilesAt(cur) : f \in idle /\ size[f] > 0

Whole(p) == {e \in At(p) : e.how # "partial"}

\* Nothing is in the way until the copy is there, and that copy is whole before
\* the source goes.
Routed ==
  /\ pc \in Busy => target.dir \in Dest /\ At(cur) # {} /\ FilesAt(cur) \cap writing \subseteq early
  /\ pc = "routing" => At(target) = {}
  /\ pc = "copying" => \A d \in At(target) : d.file \in FilesAt(cur) /\ d.how = "partial"
  /\ pc = "removing" => FilesAt(cur) \subseteq early \cup {e.file : e \in Whole(target)}

IInv == TypeOK /\ IsFiniteSet(disk) /\ Inputs /\ Kept /\ TakenUp /\ Listed /\ Looked /\ Routed

USE BoundsAssumption

-----------------------------------------------------------------------------
(* Paths and entries.                                                      *)

\* The fields of an entry.
LEMMA EntryFields ==
  ASSUME NEW e \in Entry
  PROVE  /\ e.dir \in Dir /\ e.slot \in Nat /\ e.file \in 0 .. NumFiles
         /\ e.how \in {"inode", "copy", "partial"}
         /\ PathOf(e) \in Path
         /\ PathOf(e).dir = e.dir /\ PathOf(e).slot = e.slot
BY DEF Entry, PathOf, Path

\* A path holds at most one entry.
LEMMA OneAtAPath ==
  ASSUME TypeOK, NEW p
  PROVE  \A e, f \in At(p) : e \in disk /\ e \in Entry /\ e = f
BY DEF TypeOK, At

\* An entry at a path is in its folder.
LEMMA FolderOfPath ==
  ASSUME TypeOK, NEW p \in Path
  PROVE  \A e \in At(p) : e.dir = p.dir /\ e.slot = p.slot
<1> SUFFICES ASSUME NEW e \in At(p) PROVE e.dir = p.dir /\ e.slot = p.slot
  OBVIOUS
<1>1. e \in Entry /\ PathOf(e) = p
  BY DEF TypeOK, At
<1> QED
  BY <1>1, EntryFields

\* The length of a path is that of the file there.
LEMMA LengthOfFile ==
  ASSUME TypeOK, NEW p, NEW f \in FilesAt(p)
  PROVE  Length(p) = size[f] /\ f \in 0 .. NumFiles
<1>1. PICK e \in At(p) : e.file = f
  BY DEF FilesAt
<1>2. FilesAt(p) = {f} /\ At(p) # {}
  BY <1>1, OneAtAPath DEF FilesAt
<1>3. f \in 0 .. NumFiles
  BY <1>1, OneAtAPath, EntryFields
<1> QED
  BY <1>2, <1>3 DEF Length

\* A length is one.
LEMMA LengthType ==
  ASSUME TypeOK, NEW p
  PROVE  Length(p) \in 0 .. MaxSize
<1>1. CASE FilesAt(p) = {}
  <2>1. At(p) = {}
    BY <1>1 DEF FilesAt
  <2> QED
    BY <2>1 DEF Length
<1>2. CASE FilesAt(p) # {}
  <2>1. PICK f \in FilesAt(p) : TRUE
    BY <1>2
  <2>2. Length(p) = size[f] /\ f \in 0 .. NumFiles
    BY <2>1, LengthOfFile
  <2> QED
    BY <2>2 DEF TypeOK
<1> QED
  BY <1>1, <1>2

\* What the input folder holds at a path is a file of the producer, under its name.
LEMMA InputFiles ==
  ASSUME TypeOK, Inputs, NEW p \in Path, p.dir = "input", NEW f \in FilesAt(p)
  PROVE  f = p.slot /\ f \in appeared /\ f \in File
<1>1. PICK e \in At(p) : e.file = f
  BY DEF FilesAt
<1>2. e.dir = p.dir /\ e.slot = p.slot
  BY <1>1, FolderOfPath
<1>3. e \in disk
  BY <1>1, OneAtAPath
<1> QED
  BY <1>1, <1>2, <1>3 DEF Inputs, TypeOK

\* An image of a set that is finite is finite.
LEMMA FiniteSlots ==
  ASSUME NEW S, IsFiniteSet(S)
  PROVE  IsFiniteSet({e.slot : e \in S})
<1> DEFINE T == {e.slot : e \in S}
           f == [e \in S |-> e.slot]
<1>1. f \in Surjection(S, T)
  BY DEF Surjection
<1> QED
  BY <1>1, FS_Surjection

\* The name that route_file takes is a name that no entry of the folder has.
LEMMA FreeSlotIsFree ==
  ASSUME TypeOK, IsFiniteSet(disk), NEW d
  PROVE  FreeSlot(d) \in Nat /\ \A e \in disk : e.dir = d => e.slot # FreeSlot(d)
<1> DEFINE taken == {e.slot : e \in {x \in disk : x.dir = d}}
           free  == (0 .. Cardinality(taken)) \ taken
           Less  == {x \in Nat \X Nat : x[1] < x[2]}
<1>1. IsFiniteSet(taken)
  <2>1. IsFiniteSet({x \in disk : x.dir = d})
    BY FS_Subset
  <2> QED
    BY <2>1, FiniteSlots
<1>2. Cardinality(taken) \in Nat
  BY <1>1, FS_CardinalityType
<1>3. free # {}
  <2> DEFINE names == 0 .. Cardinality(taken)
  <2>1. IsFiniteSet(names) /\ Cardinality(names) = Cardinality(taken) + 1
    BY <1>2, FS_Interval
  <2>2. names \in SUBSET taken => Cardinality(names) <= Cardinality(taken)
    <3> HIDE DEF names, taken
    <3> QED
      BY <1>1, FS_Subset
  <2> HIDE DEF taken
  <2> QED
    BY <1>2, <2>1, <2>2
<1> HIDE DEF taken
<1>4. PICK s \in free : \A r \in free : ~ (<<r, s>> \in Less)
  <2>1. free \subseteq Nat
    BY <1>2
  <2>2. IsWellFoundedOn(Less, Nat)
    BY NatLessThanWellFounded DEF OpToRel
  <2> HIDE DEF free, Less
  <2> QED
    BY <1>3, <2>1, <2>2, WFMin
<1>5. s \in 0 .. Cardinality(taken) /\ s \notin taken /\ s \in Nat
  BY <1>2
<1>6. ASSUME NEW r \in 0 .. s, r \notin taken PROVE r = s
  <2>1. r \in free /\ r \in Nat
    BY <1>2, <1>5, <1>6
  <2>2. r < s => <<r, s>> \in Less
    BY <1>5, <2>1
  <2> QED
    BY <1>4, <1>5, <1>6, <2>1, <2>2
<1>7. FreeSlot(d) \in 0 .. Cardinality(taken) /\ FreeSlot(d) \notin taken
  <2>1. FreeSlot(d) = CHOOSE t \in 0 .. Cardinality(taken) :
                        t \notin taken /\ \A r \in 0 .. t : r \notin taken => r = t
    BY DEF FreeSlot, taken
  <2> HIDE DEF free, Less
  <2> QED
    BY <1>5, <1>6, <2>1
<1>8. FreeSlot(d) \in Nat
  BY <1>2, <1>7
<1>9. ASSUME NEW e \in disk, e.dir = d PROVE e.slot \in taken
  BY <1>9 DEF taken
<1> QED
  BY <1>7, <1>8, <1>9

-----------------------------------------------------------------------------
(* The start, and the producer.                                            *)

\* Nothing has been delivered.
LEMMA InitInv == Init => IInv
<1> SUFFICES ASSUME Init PROVE IInv
  OBVIOUS
<1> USE DEF Init
<1> DEFINE old(d) == [dir |-> d, slot |-> 0, file |-> 0, how |-> "inode"]
<1>1. ASSUME NEW e \in disk
      PROVE  e \in Entry /\ e.dir \in Dest /\ e = old(e.dir) /\ PathOf(e).dir = e.dir
  <2>1. e \in [dir : Old, slot : {0}, file : {0}, how : {"inode"}]
    BY <1>1
  <2>2. e.dir \in Old /\ e.slot = 0 /\ e.file = 0 /\ e.how = "inode" /\ e = old(e.dir)
    BY <2>1
  <2>3. e.dir \in Dest
    BY <2>2 DEF Dest
  <2>4. e \in Entry
    BY <2>1, <2>3 DEF Entry, Dir
  <2> QED
    BY <2>2, <2>3, <2>4, EntryFields
<1>2. TypeOK
  <2>1. \A e, f \in disk : PathOf(e) = PathOf(f) => e = f
    BY <1>1
  <2>2. Nowhere \in Path /\ 0 \in 0 .. MaxPolls /\ 0 \in 0 .. MaxSessions
    BY DEF Nowhere, Path, Dir
  <2>3. <<>> \in Seq(Path)
    OBVIOUS
  <2>4. disk \subseteq Entry
    BY <1>1
  <2> HIDE DEF Init
  <2>5. /\ appeared = {} /\ writing = {} /\ pc = "off" /\ phase = "scan" /\ todo = {}
        /\ cur = Nowhere /\ polls = 0 /\ prev = 0 /\ target = Nowhere
        /\ events = <<>> /\ sessions = 0 /\ owed = {} /\ early = {} /\ idle = File
    BY DEF Init
  <2>6. size \in [0 .. NumFiles -> 0 .. MaxSize] /\ prev \in 0 .. MaxSize
    BY DEF Init
  <2> QED
    BY <2>1, <2>2, <2>3, <2>4, <2>5, <2>6 DEF TypeOK
<1>3. IsFiniteSet(disk)
  <2> DEFINE all == {} \cup {old("pass")} \cup {old("warn")} \cup {old("fail")}
  <2>1. IsFiniteSet(all)
    <3> HIDE DEF old
    <3> QED
      BY FS_EmptySet, FS_AddElement
  <2>2. disk \in SUBSET all
    BY <1>1 DEF Dest
  <2> HIDE DEF all, old
  <2> QED
    BY <2>1, <2>2, FS_Subset
<1>4. Inputs /\ Kept /\ TakenUp /\ Routed
  BY <1>1 DEF Inputs, Kept, TakenUp, Routed, Dest, Busy
<1>5. Listed /\ Looked
  BY DEF Listed, Looked, OfScan
<1> QED
  BY <1>2, <1>3, <1>4, <1>5 DEF IInv

\* The callback of the watcher sends paths.
LEMMA EventTypes ==
  ASSUME TypeOK, NEW kind, NEW p \in Path, Notify(kind, p) \/ NotifyDest(kind, p)
  PROVE  events' \in Seq(Path)
<1>1. events \in Seq(Path)
  BY DEF TypeOK
<1>2. Append(events, p) \in Seq(Path)
  BY <1>1
<1>3. events' = events \/ events' = Append(events, p)
  BY DEF Notify, NotifyDest
<1> QED
  BY <1>1, <1>2, <1>3

\* A new file takes a name that nothing has; the files at other paths stay.
LEMMA AppearKeeps ==
  ASSUME TypeOK, Inputs, NEW f \in File, f \notin appeared,
         disk' = disk \cup {[dir |-> "input", slot |-> f, file |-> f, how |-> "inode"]}
  PROVE  LET new == [dir |-> "input", slot |-> f, file |-> f, how |-> "inode"]
         IN  /\ new \in Entry /\ PathOf(new) \in Path
             /\ \A e \in disk : PathOf(e) # PathOf(new)
             /\ \A p \in Path : At(p) # {} \/ p.dir \in Dest =>
                  {e \in disk' : PathOf(e) = p} = At(p)
<1> DEFINE new == [dir |-> "input", slot |-> f, file |-> f, how |-> "inode"]
<1>1. new \in Entry
  BY DEF Entry, Dir, File
<1>2. PathOf(new) \in Path /\ PathOf(new).dir = "input" /\ PathOf(new).slot = f
  BY <1>1, EntryFields
<1>3. ASSUME NEW e \in disk, PathOf(e) = PathOf(new) PROVE FALSE
  <2>1. e \in Entry
    BY DEF TypeOK
  <2>2. e.dir = "input" /\ e.slot = f
    BY <1>2, <1>3, <2>1, EntryFields
  <2> QED
    BY <2>2 DEF Inputs
<1>4. ASSUME NEW p \in Path, At(p) # {} \/ p.dir \in Dest PROVE PathOf(new) # p
  BY <1>2, <1>3, <1>4 DEF At, Dest
<1> HIDE DEF new
<1>5. disk' = disk \cup {new}
  BY DEF new
<1>6. ASSUME NEW p \in Path, At(p) # {} \/ p.dir \in Dest
      PROVE  {e \in disk' : PathOf(e) = p} = At(p)
  BY <1>4, <1>5, <1>6 DEF At
<1> QED
  BY <1>1, <1>2, <1>3, <1>6 DEF new

\* The producer starts a copy into the folder, or moves a file or a folder in.
LEMMA AppearInv ==
  ASSUME TypeOK, IsFiniteSet(disk), Inputs, Kept, TakenUp, Listed, Looked, Routed,
         NEW f \in File, StartCopyIn(f) \/ MoveIn(f) \/ MoveFolderIn(f)
  PROVE  IInv'
<1> DEFINE new == [dir |-> "input", slot |-> f, file |-> f, how |-> "inode"]
<1>1. PICK kind \in {"create", "renameTo", "none"}, length \in 0 .. MaxSize :
        Appear(f, kind, length) /\ writing' \in {writing, writing \cup {f}}
  <2>1. {0, 1} \subseteq 0 .. MaxSize
    OBVIOUS
  <2>2. CASE StartCopyIn(f)
    BY <2>2 DEF StartCopyIn
  <2>3. CASE MoveIn(f)
    <3>1. PICK length \in {0, 1} : Appear(f, "renameTo", length) /\ UNCHANGED writing
      BY <2>3 DEF MoveIn
    <3> QED
      BY <2>1, <3>1
  <2>4. CASE MoveFolderIn(f)
    <3>1. PICK length \in {0, 1} : Appear(f, "none", length) /\ UNCHANGED writing
      BY <2>4 DEF MoveFolderIn
    <3> QED
      BY <2>1, <3>1
  <2> QED
    BY <2>2, <2>3, <2>4
<1>2. /\ f \notin appeared /\ appeared' = appeared \cup {f}
      /\ size' = [size EXCEPT ![f] = length]
      /\ disk' = disk \cup {new}
      /\ Notify(kind, [dir |-> "input", slot |-> f])
      /\ owed' \in {owed, owed \cup {f}}
      /\ UNCHANGED <<sessionVars, sessions, early>>
  BY <1>1 DEF Appear
<1>3. /\ new \in Entry /\ PathOf(new) \in Path
      /\ \A e \in disk : PathOf(e) # PathOf(new)
      /\ \A p \in Path : At(p) # {} \/ p.dir \in Dest =>
           {e \in disk' : PathOf(e) = p} = At(p)
  BY <1>2, AppearKeeps
<1>4. new.dir = "input" /\ new.slot = f /\ new.file = f /\ new.how = "inode"
      /\ PathOf(new) = [dir |-> "input", slot |-> f]
  BY DEF PathOf
<1> HIDE DEF new
<1> USE DEF sessionVars, looks
<1>5. TypeOK'
  <2>0. size' \in [0 .. NumFiles -> 0 .. MaxSize]
    BY <1>1, <1>2 DEF TypeOK
  <2>1. events' \in Seq(Path)
    BY <1>2, <1>3, <1>4, EventTypes
  <2>2. disk' \subseteq Entry /\ \A d, e \in disk' : PathOf(d) = PathOf(e) => d = e
    BY <1>2, <1>3 DEF TypeOK
  <2>3. appeared' \in SUBSET File /\ writing' \in SUBSET appeared' /\ owed' \in SUBSET File
    BY <1>1, <1>2 DEF TypeOK
  <2> QED
    BY <1>2, <2>0, <2>1, <2>2, <2>3 DEF TypeOK
<1>6. IsFiniteSet(disk')
  BY <1>2, FS_AddElement
<1>7. Inputs'
  BY <1>2, <1>4 DEF Inputs
<1>8. Kept'
  BY <1>2, <1>4 DEF Kept
<1>9. cur \in Path /\ target \in Path
  BY DEF TypeOK
<1>10. ASSUME At(cur) # {}, cur.dir = "input"
       PROVE  /\ At(cur)' = At(cur) /\ FilesAt(cur)' = FilesAt(cur)
              /\ FilesAt(cur)' \cap writing' = FilesAt(cur) \cap writing
  <2>1. At(cur)' = At(cur)
    BY <1>2, <1>3, <1>9, <1>10 DEF At
  <2>2. FilesAt(cur)' = FilesAt(cur)
    BY <2>1 DEF FilesAt
  <2>3. f \notin FilesAt(cur)
    <3>1. \A e \in At(cur) : e \in disk /\ e.dir = "input"
      BY <1>9, <1>10, FolderOfPath, OneAtAPath
    <3> QED
      BY <1>2, <3>1 DEF Inputs, FilesAt
  <2> QED
    BY <1>1, <2>1, <2>2, <2>3
<1>11. TakenUp' /\ Listed'
  BY <1>2 DEF TakenUp, Listed, OfScan
<1>13. Looked'
  <2>1. ASSUME OfScan
        PROVE  FilesAt(cur)' = FilesAt(cur) /\ \A g \in FilesAt(cur) : size'[g] = size[g]
    <3>1. cur.dir = "input" /\ cur.slot \in appeared
      BY <2>1 DEF TakenUp, Listed, OfScan
    <3>2. PathOf(new) # cur
      BY <1>2, <1>4, <3>1
    <3>3. At(cur)' = At(cur)
      BY <1>2, <3>2 DEF At
    <3>4. \A g \in FilesAt(cur) : g \in appeared /\ g \in File
      BY <1>9, <3>1, InputFiles
    <3>5. size \in [0 .. NumFiles -> 0 .. MaxSize]
      BY DEF TypeOK
    <3> QED
      BY <1>2, <3>3, <3>4, <3>5 DEF FilesAt, File
  <2> QED
    BY <1>2, <2>1 DEF Looked, OfScan
<1>12. Routed'
  <2>1. CASE pc \notin Busy
    BY <1>2, <2>1 DEF Routed, Busy
  <2>2. CASE pc \in Busy
    <3>1. /\ At(cur)' = At(cur) /\ FilesAt(cur)' = FilesAt(cur)
          /\ FilesAt(cur)' \cap writing' = FilesAt(cur) \cap writing
      BY <1>10, <2>2 DEF TakenUp, Listed, Looked, Routed
    <3>2. At(target)' = At(target)
      BY <1>2, <1>3, <1>9, <2>2 DEF Routed, At
    <3>3. Whole(target)' = Whole(target)
      BY <3>2 DEF Whole
    <3> QED
      BY <1>2, <2>2, <3>1, <3>2, <3>3 DEF Routed
  <2> QED
    BY <2>1, <2>2
<1> QED
  BY <1>5, <1>6, <1>7, <1>8, <1>11, <1>12, <1>13 DEF IInv

\* The producer goes on with a copy: it grows, which the next look will see.
LEMMA GrowInv ==
  ASSUME TypeOK, IsFiniteSet(disk), Inputs, Kept, TakenUp, Listed, Looked, Routed,
         NEW f \in File, Grow(f)
  PROVE  IInv'
<1>1. PICK length \in size[f] + 1 .. MaxSize : size' = [size EXCEPT ![f] = length]
  BY DEF Grow
<1>2. /\ idle' = IF pc = "waiting" THEN idle \ {f} ELSE idle
      /\ UNCHANGED <<disk, appeared, writing, pc, phase, todo, cur, polls, prev, target, events, sessions, historyVars>>
  BY DEF Grow
<1> USE DEF historyVars
<1>3. /\ size \in [0 .. NumFiles -> 0 .. MaxSize] /\ f \in 0 .. NumFiles
      /\ size[f] \in Nat /\ length \in 0 .. MaxSize /\ length > size[f]
      /\ prev \in Nat /\ \A g \in 0 .. NumFiles : size[g] \in Nat
  BY <1>1 DEF TypeOK, File
<1>4. size' \in [0 .. NumFiles -> 0 .. MaxSize] /\ idle' \in SUBSET File
  BY <1>1, <1>2, <1>3 DEF TypeOK
<1>5. At(cur)' = At(cur) /\ FilesAt(cur)' = FilesAt(cur) /\ At(target)' = At(target)
      /\ Whole(target)' = Whole(target)
  BY <1>2 DEF At, FilesAt, Whole
<1>6. TypeOK'
  BY <1>2, <1>4 DEF TypeOK, PathOf
<1>7. Inputs' /\ Kept' /\ TakenUp' /\ Listed'
  BY <1>2 DEF Inputs, Kept, TakenUp, Listed, OfScan
<1>8. Routed'
  BY <1>2, <1>5 DEF Routed
<1>9. Looked'
  <2>1. \A g \in FilesAt(cur) : g \in 0 .. NumFiles
    BY LengthOfFile
  <2>2. \A g \in FilesAt(cur) : size'[g] = IF g = f THEN length ELSE size[g]
    BY <1>1, <1>3, <2>1
  <2>3. CASE pc = "waiting"
    <3>1. ASSUME NEW g \in FilesAt(cur)
          PROVE  size'[g] >= prev /\ (g \notin idle' => size'[g] > prev)
      <4>1. size[g] >= prev /\ (g \notin idle => size[g] > prev) /\ size[g] \in Nat
        BY <1>3, <2>1, <2>3 DEF Looked
      <4>2. CASE g = f
        BY <1>3, <2>2, <4>1, <4>2
      <4>3. CASE g # f
        BY <1>2, <2>2, <4>1, <4>3
      <4> QED
        BY <4>2, <4>3
    <3> QED
      BY <1>2, <1>5, <2>3, <3>1 DEF Looked
  <2>4. CASE pc # "waiting"
    <3>1. ASSUME NEW g \in FilesAt(cur), size[g] > 0 PROVE size'[g] > 0
      BY <1>3, <2>1, <2>2, <3>1
    <3> QED
      BY <1>2, <1>5, <2>4, <3>1 DEF Looked
  <2> QED
    BY <2>3, <2>4
<1> QED
  BY <1>2, <1>6, <1>7, <1>8, <1>9 DEF IInv

\* The producer ends a copy.
LEMMA FinishCopyInInv ==
  ASSUME TypeOK, IsFiniteSet(disk), Inputs, Kept, TakenUp, Listed, Looked, Routed,
         NEW f \in File, FinishCopyIn(f)
  PROVE  IInv'
<1>1. /\ writing' = writing \ {f}
      /\ UNCHANGED <<disk, appeared, size, sessionVars, events, sessions, historyVars>>
  BY DEF FinishCopyIn
<1> USE DEF sessionVars, looks, historyVars
<1>2. At(cur)' = At(cur) /\ FilesAt(cur)' = FilesAt(cur) /\ At(target)' = At(target)
      /\ Whole(target)' = Whole(target)
  BY <1>1 DEF At, FilesAt, Whole
<1>3. TypeOK'
  BY <1>1 DEF TypeOK, PathOf
<1>4. Inputs' /\ Kept'
  BY <1>1 DEF Inputs, Kept
<1>5. TakenUp' /\ Listed' /\ Looked'
  BY <1>1, <1>2 DEF TakenUp, Listed, Looked, OfScan
<1>6. Routed'
  BY <1>1, <1>2 DEF Routed
<1> QED
  BY <1>1, <1>3, <1>4, <1>5, <1>6 DEF IInv

-----------------------------------------------------------------------------
(* The steps of the session that move nothing.                             *)

\* What such a step has to show.
LEMMA QuietStep ==
  ASSUME TypeOK, IsFiniteSet(disk), Inputs, Kept,
         UNCHANGED <<disk, worldVars>>, early \subseteq early', early' \in SUBSET File,
         pc' \in {"off", "scanning", "waiting", "receiving", "checking"},
         phase' \in {"scan", "watch"}, todo' \subseteq Path, cur' \in Path,
         polls' \in 0 .. MaxPolls, prev' \in 0 .. MaxSize, idle' \in SUBSET File,
         target' \in Path, events' \in Seq(Path), sessions' \in 0 .. MaxSessions,
         owed' \in SUBSET File, TakenUp', Listed', Looked'
  PROVE  IInv'
<1> USE DEF worldVars
<1>1. TypeOK'
  BY DEF TypeOK, PathOf
<1>2. Inputs' /\ Kept'
  BY DEF Inputs, Kept
<1>3. Routed'
  BY DEF Routed, Busy
<1> QED
  BY <1>1, <1>2, <1>3 DEF IInv

\* Back in the loop, nothing is taken up.
LEMMA ReturnTypes ==
  ASSUME TypeOK, Listed, Return, UNCHANGED <<phase, appeared, todo>>
  PROVE  /\ pc' \in {"scanning", "receiving"} /\ (pc' = "receiving" => phase' = "watch")
         /\ cur' \in Path /\ polls' \in 0 .. MaxPolls /\ prev' \in 0 .. MaxSize
         /\ idle' \in SUBSET File /\ target' \in Path
         /\ TakenUp' /\ Listed' /\ Looked' /\ Routed'
<1>1. Nowhere \in Path
  BY DEF Nowhere, Path, Dir
<1>2. 0 \in 0 .. MaxPolls
  OBVIOUS
<1>3. pc' \in {"scanning", "receiving"} /\ (pc' = "receiving" => phase' = "watch")
  BY DEF Return, TypeOK
<1> QED
  BY <1>1, <1>2, <1>3 DEF Return, TakenUp, Listed, Looked, OfScan, Routed, Busy

\* The command starts and lists what is there, or is interrupted.
LEMMA StartInv ==
  ASSUME TypeOK, IsFiniteSet(disk), Inputs, Kept, TakenUp, Listed, Looked, Routed, Start \/ Interrupt
  PROVE  IInv'
<1>1. CASE Start
  <2>1. /\ sessions < MaxSessions /\ sessions' = sessions + 1
        /\ pc' = "scanning" /\ phase' = "scan"
        /\ UNCHANGED <<disk, worldVars, cur, looks, target, events, early>>
    BY <1>1 DEF Start
  <2>6. Listed' /\ Looked'
    <3>1. \A e \in disk : e.dir = PathOf(e).dir /\ e.slot = PathOf(e).slot
      BY EntryFields DEF TypeOK
    <3>2. \A e \in disk : e.dir = "input" => e.slot \in appeared
      BY DEF Inputs
    <3>3. todo' = {PathOf(e) : e \in {d \in disk : d.dir = "input" \/ Nested}}
      BY <1>1 DEF Start
    <3> QED
      BY <2>1, <3>1, <3>2, <3>3 DEF Listed, Looked, OfScan, worldVars
  <2>2. todo' \subseteq Path
    <3>1. \A e \in disk : PathOf(e) \in Path
      BY EntryFields DEF TypeOK
    <3> QED
      BY <1>1, <3>1 DEF Start
  <2>3. owed' \in SUBSET File
    BY <1>1 DEF Start
  <2>4. sessions' \in 0 .. MaxSessions
    BY <2>1 DEF TypeOK
  <2>5. TakenUp'
    BY <2>1 DEF TakenUp, Busy
  <2> QED
    BY <2>1, <2>2, <2>3, <2>4, <2>5, <2>6, QuietStep DEF TypeOK, looks
<1>2. CASE Interrupt
  <2>1. Nowhere \in Path /\ 0 \in 0 .. MaxPolls /\ <<>> \in Seq(Path) /\ {} \in SUBSET File
    BY DEF Nowhere, Path, Dir
  <2>2. TakenUp' /\ Listed' /\ Looked'
    BY <1>2 DEF Interrupt, TakenUp, Listed, Looked, OfScan, Busy
  <2>3. sessions' \in 0 .. MaxSessions
    BY <1>2 DEF Interrupt, TypeOK
  <2>4. /\ pc' = "off" /\ phase' = "scan" /\ todo' = {}
        /\ cur' \in Path /\ polls' \in 0 .. MaxPolls /\ prev' = 0 /\ idle' = File /\ target' \in Path
        /\ events' \in Seq(Path) /\ owed' \in SUBSET File
        /\ UNCHANGED <<disk, worldVars, early>>
    BY <1>2, <2>1 DEF Interrupt
  <2> QED
    BY <2>2, <2>3, <2>4, QuietStep DEF TypeOK
<1> QED
  BY <1>1, <1>2

\* A path of the scan is taken up and waited for; then the watcher is created.
LEMMA ScanInv ==
  ASSUME TypeOK, IsFiniteSet(disk), Inputs, Kept, TakenUp, Listed, Looked, Routed, ScanNext \/ StartWatch
  PROVE  IInv'
<1>1. CASE ScanNext
  <2>1. PICK p \in todo :
          /\ todo' = todo \ {p}
          /\ \/ UnderAnyDest(p) /\ UNCHANGED <<pc, cur, looks>>
             \/ /\ ~ UnderAnyDest(p)
                /\ pc' = "waiting" /\ cur' = p
                /\ polls' = MaxPolls /\ prev' = Length(p) /\ idle' = File
    BY <1>1 DEF ScanNext
  <2>2. /\ pc = "scanning"
        /\ UNCHANGED <<disk, worldVars, phase, target, events, sessions, historyVars>>
    BY <1>1 DEF ScanNext
  <2>3. p \in Path /\ p.dir \in Dir /\ todo' \subseteq Path
    BY <2>1 DEF TypeOK, Path
  <2>4. cur' \in Path /\ polls' \in 0 .. MaxPolls /\ pc' \in {"scanning", "waiting"}
    BY <2>1, <2>2, <2>3 DEF TypeOK, looks
  <2>5. prev' \in 0 .. MaxSize /\ idle' \in SUBSET File
    <3>1. Length(p) \in 0 .. MaxSize
      BY LengthType
    <3> QED
      BY <2>1, <3>1 DEF TypeOK, looks
  <2>6. TakenUp'
    BY <2>1, <2>2, <2>3 DEF TakenUp, Busy, UnderAnyDest, Dir
  <2>7. Listed'
    BY <2>1, <2>2, <2>3 DEF Listed, OfScan, UnderAnyDest, Dir, worldVars
  <2>8. Looked'
    <3>1. CASE pc' # "waiting"
      BY <2>2, <2>4, <3>1 DEF Looked
    <3>2. CASE pc' = "waiting"
      <4>1. prev' = Length(p) /\ idle' = File /\ cur' = p /\ ~ UnderAnyDest(p)
        BY <2>1, <2>2, <3>2
      <4>2. p.dir = "input"
        BY <2>3, <4>1 DEF UnderAnyDest, Dir
      <4>3. \A f \in FilesAt(p) : Length(p) = size[f] /\ f \in File /\ size[f] \in Nat
        BY <2>3, <4>2, LengthOfFile, LengthType, InputFiles
      <4>4. FilesAt(cur)' = FilesAt(p) /\ size' = size
        BY <2>2, <4>1 DEF FilesAt, At, worldVars
      <4> QED
        BY <3>2, <4>1, <4>3, <4>4 DEF Looked
    <3> QED
      BY <3>1, <3>2
  <2> QED
    BY <2>2, <2>3, <2>4, <2>5, <2>6, <2>7, <2>8, QuietStep DEF TypeOK, historyVars
<1>2. CASE StartWatch
  <2>1. /\ pc' = "receiving" /\ phase' = "watch"
        /\ UNCHANGED <<disk, worldVars, todo, cur, looks, target, events, sessions, historyVars>>
    BY <1>2 DEF StartWatch
  <2>2. TakenUp' /\ Listed' /\ Looked'
    BY <2>1 DEF TakenUp, Listed, Looked, OfScan, Busy, worldVars
  <2> QED
    BY <2>1, <2>2, QuietStep DEF TypeOK, historyVars, looks
<1> QED
  BY <1>1, <1>2

\* A file settles if it had not grown between two looks, and was not empty.
LEMMA PollInv ==
  ASSUME TypeOK, IsFiniteSet(disk), Inputs, Kept, TakenUp, Listed, Looked, Routed, Poll
  PROVE  IInv'
<1>1. /\ pc = "waiting" /\ cur.dir = "input" /\ polls # 0
      /\ UNCHANGED <<disk, worldVars, phase, todo, events, sessions, historyVars>>
  BY DEF Poll, TakenUp
<1>2. FilesAt(cur)' = FilesAt(cur) \/ cur' # cur
  BY <1>1 DEF FilesAt, At
<1>3. \A f \in FilesAt(cur) : Length(cur) = size[f] /\ f \in File /\ size[f] \in Nat
  BY <1>1, LengthOfFile, LengthType, InputFiles DEF TypeOK
<1>4. Length(cur) \in 0 .. MaxSize
  BY LengthType
<1>5. UNCHANGED <<size, appeared>>
  BY <1>1 DEF worldVars
<1>6. CASE Settled
  <2>1. pc' = "checking" /\ polls' = 0 /\ prev' = 0 /\ UNCHANGED <<cur, idle, target>>
    BY <1>6 DEF Poll
  <2>2. TakenUp' /\ Listed'
    BY <1>1, <1>5, <2>1 DEF TakenUp, Listed, OfScan, Busy
  <2>3. \A f \in FilesAt(cur) : f \in idle /\ size[f] > 0
    BY <1>1, <1>3, <1>6 DEF Settled, Looked
  <2>4. Looked'
    BY <1>2, <1>5, <2>1, <2>3 DEF Looked
  <2>5. polls' \in 0 .. MaxPolls /\ prev' \in 0 .. MaxSize
    BY <2>1
  <2> QED
    BY <1>1, <2>1, <2>2, <2>4, <2>5, QuietStep DEF TypeOK, historyVars
<1>7. CASE ~ Settled /\ polls = 1
  <2>1. Return
    BY <1>7 DEF Poll
  <2>2. UNCHANGED <<phase, appeared, todo>>
    BY <1>1 DEF worldVars
  <2>3. /\ pc' \in {"scanning", "receiving"}
        /\ cur' \in Path /\ polls' \in 0 .. MaxPolls /\ prev' \in 0 .. MaxSize
        /\ idle' \in SUBSET File /\ target' \in Path
        /\ TakenUp' /\ Listed' /\ Looked'
    BY <2>1, <2>2, ReturnTypes
  <2> QED
    BY <1>1, <2>3, QuietStep DEF TypeOK, historyVars
<1>8. CASE ~ Settled /\ polls # 1
  <2>1. /\ polls' = polls - 1 /\ prev' = Length(cur) /\ idle' = File
        /\ UNCHANGED <<pc, cur, target>>
    BY <1>8 DEF Poll
  <2>2. polls' \in 0 .. MaxPolls /\ polls' # 0
    BY <1>1, <1>8, <2>1 DEF TypeOK
  <2>3. TakenUp' /\ Listed'
    BY <1>1, <1>5, <2>1, <2>2 DEF TakenUp, Listed, OfScan, Busy
  <2>4. Looked'
    BY <1>1, <1>2, <1>3, <1>5, <2>1 DEF Looked
  <2> QED
    BY <1>1, <1>4, <2>1, <2>2, <2>3, <2>4, QuietStep DEF TypeOK, historyVars
<1> QED
  BY <1>6, <1>7, <1>8

\* A path is received; those under a destination are passed over.
LEMMA ReceiveInv ==
  ASSUME TypeOK, IsFiniteSet(disk), Inputs, Kept, TakenUp, Listed, Looked, Routed, Receive
  PROVE  IInv'
<1>1. /\ pc = "receiving" /\ phase = "watch" /\ events # <<>> /\ events' = Tail(events)
      /\ UNCHANGED <<disk, worldVars, phase, todo, looks, target, sessions, historyVars>>
  BY DEF Receive, TakenUp
<1>2. \/ UNCHANGED <<pc, cur>>
      \/ pc' = "checking" /\ cur' = Head(events) /\ cur'.dir \notin Dest
  BY DEF Receive, UnderAnyDest
<1>3. events \in Seq(Path)
  BY DEF TypeOK
<1>4. Head(events) \in Path /\ events' \in Seq(Path)
  BY <1>1, <1>3
<1>5. cur' \in Path /\ pc' \in {"receiving", "checking"}
  BY <1>1, <1>2, <1>4 DEF TypeOK
<1>6. TakenUp' /\ Listed' /\ Looked'
  <2>1. cur'.dir \in Dir
    BY <1>5 DEF Path
  <2> QED
    BY <1>1, <1>2, <1>5, <2>1 DEF TakenUp, Listed, Looked, OfScan, Busy, Dir, worldVars
<1> QED
  BY <1>1, <1>4, <1>5, <1>6, QuietStep DEF TypeOK, historyVars, looks

-----------------------------------------------------------------------------
(* process_one and route_file.                                             *)

\* A file that is processed while it is written is processed too early.
LEMMA ProcessTypes ==
  ASSUME TypeOK, Process
  PROVE  /\ owed' \in SUBSET File /\ early' \in SUBSET File /\ early \subseteq early'
         /\ FilesAt(cur) \cap writing \subseteq early'
BY DEF TypeOK, Process

\* The file is left in place.
LEMMA RejectInv ==
  ASSUME TypeOK, IsFiniteSet(disk), Inputs, Kept, TakenUp, Listed, Looked, Routed, Reject
  PROVE  IInv'
<1>1. Return /\ Process /\ UNCHANGED <<disk, worldVars, phase, todo, events, sessions>>
  BY DEF Reject
<1>2. UNCHANGED <<phase, appeared, todo>>
  BY <1>1 DEF worldVars
<1>3. /\ pc' \in {"scanning", "receiving"}
      /\ cur' \in Path /\ polls' \in 0 .. MaxPolls /\ prev' \in 0 .. MaxSize
        /\ idle' \in SUBSET File /\ target' \in Path
      /\ TakenUp' /\ Listed' /\ Looked'
  BY <1>1, <1>2, ReturnTypes
<1>4. owed' \in SUBSET File /\ early' \in SUBSET File /\ early \subseteq early'
  BY <1>1, ProcessTypes
<1> QED
  BY <1>1, <1>3, <1>4, QuietStep DEF TypeOK

\* The destination and a name that is free there are chosen.
LEMMA CheckInv ==
  ASSUME TypeOK, IsFiniteSet(disk), Inputs, Kept, TakenUp, Listed, Looked, Routed, Check
  PROVE  IInv'
<1>1. /\ pc = "checking" /\ pc' = "routing" /\ Process
      /\ UNCHANGED <<disk, worldVars, phase, todo, cur, looks, events, sessions>>
  BY DEF Check
<1>0. At(cur) # {}
  BY DEF Check, Length
<1>2. PICK v \in Verdict : target' = [dir |-> DestFor(v), slot |-> FreeSlot(DestFor(v))]
  BY DEF Check
<1>3. /\ owed' \in SUBSET File /\ early' \in SUBSET File /\ early \subseteq early'
      /\ FilesAt(cur) \cap writing \subseteq early'
  BY <1>1, ProcessTypes
<1>4. DestFor(v) \in Dest
  <2>1. v \in {"pass", "warn", "inconclusive", "fail"}
    OBVIOUS
  <2> QED
    BY <2>1 DEF DestFor, Dest
<1>5. /\ target' \in Path /\ target'.dir \in Dest
      /\ \A e \in disk : PathOf(e) # target'
  <2>1. FreeSlot(DestFor(v)) \in Nat
        /\ \A e \in disk : e.dir = DestFor(v) => e.slot # FreeSlot(DestFor(v))
    BY FreeSlotIsFree
  <2>2. target'.dir = DestFor(v) /\ target'.slot = FreeSlot(DestFor(v))
    BY <1>2
  <2>3. target' \in Path
    BY <1>2, <1>4, <2>1 DEF Path, Dir
  <2>4. ASSUME NEW e \in disk, PathOf(e) = target' PROVE FALSE
    <3>1. e \in Entry
      BY DEF TypeOK
    <3>2. e.dir = target'.dir /\ e.slot = target'.slot
      BY <2>4, <3>1, EntryFields
    <3> QED
      BY <2>1, <2>2, <3>2
  <2> QED
    BY <1>4, <2>2, <2>3, <2>4
<1> USE DEF worldVars, looks
<1>6. TypeOK'
  BY <1>1, <1>3, <1>5 DEF TypeOK, PathOf
<1>7. Inputs' /\ Kept'
  BY <1>1, <1>3 DEF Inputs, Kept
<1>8. TakenUp' /\ Listed' /\ Looked'
  BY <1>1 DEF TakenUp, Listed, Looked, OfScan, Busy
<1>9. Routed'
  <2>1. At(cur)' = At(cur) /\ FilesAt(cur)' = FilesAt(cur) /\ At(target)' = {}
    BY <1>1, <1>5 DEF At, FilesAt
  <2> QED
    BY <1>0, <1>1, <1>3, <1>5, <2>1 DEF Routed, Busy
<1> QED
  BY <1>1, <1>6, <1>7, <1>8, <1>9 DEF IInv

\* What the session has in hand between the choice and the end of the move.
LEMMA InHand ==
  ASSUME TypeOK, Inputs, TakenUp, Listed, Looked, Routed, pc \in Busy
  PROVE  /\ cur \in Path /\ target \in Path /\ cur # target
         /\ target.dir \in Dest /\ target.dir # "input" /\ target.slot \in Nat
         /\ \E e \in disk : /\ At(cur) = {e} /\ FilesAt(cur) = {e.file}
                            /\ e \in Entry /\ e.dir = "input" /\ e.how = "inode"
                            /\ e.file \in 0 .. NumFiles
<1>1. cur \in Path /\ target \in Path /\ cur.dir = "input" /\ target.dir \in Dest /\ At(cur) # {}
  BY DEF TypeOK, TakenUp, Listed, Looked, Routed
<1>2. target.dir # "input" /\ target.slot \in Nat
  BY <1>1 DEF Dest, Path
<1>3. PICK e \in At(cur) : TRUE
  BY <1>1
<1>4. e \in disk /\ e \in Entry /\ At(cur) = {e}
  BY <1>3, OneAtAPath
<1>5. e.dir = "input"
  BY <1>1, <1>3, FolderOfPath
<1>6. FilesAt(cur) = {e.file}
  BY <1>4 DEF FilesAt
<1> QED
  BY <1>1, <1>2, <1>4, <1>5, <1>6, EntryFields DEF Inputs

\* An entry m takes the target, those of gone disappear, the others stay.
LEMMA PlaceKeeps ==
  ASSUME TypeOK, IsFiniteSet(disk), Inputs, UNCHANGED appeared,
         NEW gone, NEW m \in Entry, PathOf(m) = target, m.dir # "input",
         disk' = ((disk \ gone) \ At(target)) \cup {m}
  PROVE  /\ disk' \subseteq Entry
         /\ \A d, e \in disk' : PathOf(d) = PathOf(e) => d = e
         /\ IsFiniteSet(disk')
         /\ Inputs'
         /\ {e \in disk' : PathOf(e) = target} = {m}
         /\ \A p : p # target => {e \in disk' : PathOf(e) = p} = At(p) \ gone
<1> DEFINE rest == (disk \ gone) \ At(target)
<1>1. IsFiniteSet(disk')
  <2>1. IsFiniteSet(rest)
    BY FS_Subset
  <2> QED
    BY <2>1, FS_AddElement
<1>2. rest \subseteq disk /\ \A e \in rest : PathOf(e) # target
  BY DEF At
<1>3. disk' = rest \cup {m}
  OBVIOUS
<1>4. {e \in disk' : PathOf(e) = target} = {m}
  <2> HIDE DEF rest
  <2> QED
    BY <1>2, <1>3
<1>5. ASSUME NEW p, p # target PROVE {e \in disk' : PathOf(e) = p} = At(p) \ gone
  BY <1>5 DEF At
<1> HIDE DEF rest
<1>6. disk' \subseteq Entry /\ \A d, e \in disk' : PathOf(d) = PathOf(e) => d = e
  BY <1>2, <1>3 DEF TypeOK
<1>7. Inputs'
  BY <1>2, <1>3 DEF Inputs
<1> QED
  BY <1>1, <1>4, <1>5, <1>6, <1>7

\* The file itself goes to the target.
LEMMA RenameInv ==
  ASSUME TypeOK, IsFiniteSet(disk), Inputs, Kept, TakenUp, Listed, Looked, Routed, Rename
  PROVE  IInv'
<1>1. pc = "routing" /\ pc \in Busy /\ At(target) = {}
  BY DEF Rename, Routed, Busy
<1>2. PICK e \in disk : At(cur) = {e} /\ e \in Entry /\ e.dir = "input" /\ e.how = "inode"
                       /\ e.file \in 0 .. NumFiles
  BY <1>1, InHand
<1> DEFINE m == [e EXCEPT !.dir = target.dir, !.slot = target.slot]
<1>3. target \in Path /\ target.dir \in Dest /\ target.dir # "input" /\ target.slot \in Nat
  BY <1>1, InHand
<1>4. m \in Entry /\ PathOf(m) = target /\ m.dir # "input" /\ m.file = e.file /\ m.how = e.how
  BY <1>2, <1>3 DEF Entry, Dir, Path, PathOf
<1>5. /\ disk' = ((disk \ {e}) \ At(target)) \cup {m}
      /\ NotifyDest("renameTo", target) /\ Return
      /\ UNCHANGED <<worldVars, phase, todo, sessions, historyVars>>
  BY <1>2 DEF Rename, Replace
<1> HIDE DEF m
<1> USE DEF worldVars, looks, historyVars
<1>6. /\ disk' \subseteq Entry /\ (\A c, d \in disk' : PathOf(c) = PathOf(d) => c = d)
      /\ IsFiniteSet(disk') /\ Inputs'
  BY <1>4, <1>5, PlaceKeeps
<1>7. UNCHANGED <<phase, appeared, todo>>
  BY <1>5 DEF worldVars
<1>8. /\ pc' \in {"scanning", "receiving"}
      /\ cur' \in Path /\ polls' \in 0 .. MaxPolls /\ prev' \in 0 .. MaxSize
        /\ idle' \in SUBSET File /\ target' \in Path
      /\ TakenUp' /\ Listed' /\ Looked' /\ Routed'
  BY <1>5, <1>7, ReturnTypes
<1>9. events' \in Seq(Path)
  BY <1>3, <1>5, EventTypes
<1>10. TypeOK'
  BY <1>5, <1>6, <1>8, <1>9 DEF TypeOK
<1>11. Kept'
  <2>1. ASSUME NEW f \in appeared \ early PROVE \E x \in disk' : x.file = f /\ x.how # "partial"
    <3>1. PICK x \in disk : x.file = f /\ x.how # "partial"
      BY DEF Kept
    <3>2. x = e \/ x \in disk'
      BY <1>1, <1>5
    <3> QED
      BY <1>4, <1>5, <3>1, <3>2
  <2> QED
    BY <1>5, <2>1 DEF Kept
<1> QED
  BY <1>6, <1>8, <1>10, <1>11 DEF IInv

\* A copy is begun under the free name.
LEMMA StartCopyInv ==
  ASSUME TypeOK, IsFiniteSet(disk), Inputs, Kept, TakenUp, Listed, Looked, Routed, StartCopy
  PROVE  IInv'
<1>1. pc = "routing" /\ pc \in Busy /\ At(target) = {}
  BY DEF StartCopy, Routed, Busy
<1>2. PICK e \in disk : At(cur) = {e} /\ FilesAt(cur) = {e.file} /\ e.file \in 0 .. NumFiles
  BY <1>1, InHand
<1> DEFINE m == [dir |-> target.dir, slot |-> target.slot, file |-> e.file, how |-> "partial"]
<1>3. /\ cur # target /\ target \in Path
      /\ target.dir \in Dest /\ target.dir # "input" /\ target.slot \in Nat
  BY <1>1, InHand
<1>4. m \in Entry /\ PathOf(m) = target /\ m.dir # "input" /\ m.file = e.file /\ m.how = "partial"
  BY <1>2, <1>3 DEF Entry, Dir, Path, PathOf
<1>5. /\ disk' = ((disk \ {}) \ At(target)) \cup {m}
      /\ NotifyDest("create", target) /\ pc' = "copying"
      /\ UNCHANGED <<worldVars, phase, todo, cur, looks, target, sessions, historyVars>>
  BY <1>2 DEF StartCopy, Replace, Placed
<1> HIDE DEF m
<1> USE DEF worldVars, looks, historyVars
<1>6. /\ disk' \subseteq Entry /\ (\A c, d \in disk' : PathOf(c) = PathOf(d) => c = d)
      /\ IsFiniteSet(disk') /\ Inputs'
      /\ At(target)' = {m} /\ At(cur)' = At(cur)
  BY <1>3, <1>4, <1>5, PlaceKeeps DEF At
<1>7. events' \in Seq(Path)
  BY <1>3, <1>5, EventTypes
<1>8. TypeOK'
  BY <1>5, <1>6, <1>7 DEF TypeOK
<1>9. Kept'
  BY <1>1, <1>5 DEF Kept
<1>10. TakenUp' /\ Listed' /\ Looked'
  BY <1>1, <1>5 DEF TakenUp, Listed, Looked, OfScan, Busy
<1>11. Routed'
  <2>1. FilesAt(cur)' = FilesAt(cur)
    BY <1>6 DEF FilesAt
  <2> QED
    BY <1>1, <1>2, <1>4, <1>5, <1>6, <2>1 DEF Routed, Busy
<1> QED
  BY <1>6, <1>8, <1>9, <1>10, <1>11 DEF IInv

\* The copy is whole if the source was, and else the file was processed too early.
LEMMA FinishCopyInv ==
  ASSUME TypeOK, IsFiniteSet(disk), Inputs, Kept, TakenUp, Listed, Looked, Routed, FinishCopy
  PROVE  IInv'
<1>1. pc = "copying" /\ pc \in Busy
  BY DEF FinishCopy, Busy
<1>2. PICK e \in disk : At(cur) = {e} /\ FilesAt(cur) = {e.file} /\ e.how = "inode"
                       /\ e.file \in 0 .. NumFiles
  BY <1>1, InHand
<1> DEFINE how == IF FilesAt(cur) \cap writing = {} THEN "copy" ELSE "partial"
           m   == [dir |-> target.dir, slot |-> target.slot, file |-> e.file, how |-> how]
<1>3. /\ cur # target /\ target \in Path
      /\ target.dir \in Dest /\ target.dir # "input" /\ target.slot \in Nat
  BY <1>1, InHand
<1>4. m \in Entry /\ PathOf(m) = target /\ m.dir # "input" /\ m.file = e.file /\ m.how = how
  BY <1>2, <1>3 DEF Entry, Dir, Path, PathOf
<1>5. /\ disk' = ((disk \ {}) \ At(target)) \cup {m}
      /\ pc' = "removing"
      /\ UNCHANGED <<worldVars, phase, todo, cur, looks, target, events, sessions, historyVars>>
  BY <1>2 DEF FinishCopy, Replace, Placed
<1>6. how = "partial" => e.file \in early
  <2>1. FilesAt(cur) \cap writing # {} => e.file \in writing
    BY <1>2
  <2> QED
    BY <1>1, <1>2, <2>1 DEF Routed
<1> HIDE DEF m, how
<1> USE DEF worldVars, looks, historyVars
<1>7. /\ disk' \subseteq Entry /\ (\A c, d \in disk' : PathOf(c) = PathOf(d) => c = d)
      /\ IsFiniteSet(disk') /\ Inputs'
      /\ At(target)' = {m} /\ At(cur)' = At(cur)
  BY <1>3, <1>4, <1>5, PlaceKeeps DEF At
<1>8. TypeOK'
  BY <1>5, <1>7 DEF TypeOK
<1>9. Kept'
  <2>1. \A d \in At(target) : d.how = "partial"
    BY <1>1 DEF Routed
  <2> QED
    BY <1>5, <2>1 DEF Kept
<1>10. TakenUp' /\ Listed' /\ Looked'
  BY <1>1, <1>5 DEF TakenUp, Listed, Looked, OfScan, Busy
<1>11. Routed'
  <2>1. FilesAt(cur)' = FilesAt(cur)
    BY <1>7 DEF FilesAt
  <2>2. how # "partial" => e.file \in {x.file : x \in Whole(target)'}
    BY <1>4, <1>7 DEF Whole
  <2> QED
    BY <1>1, <1>2, <1>3, <1>5, <1>6, <1>7, <2>1, <2>2 DEF Routed, Busy
<1> QED
  BY <1>7, <1>8, <1>9, <1>10, <1>11 DEF IInv

\* A copy that fails leaves the source where it is.
LEMMA FailCopyInv ==
  ASSUME TypeOK, IsFiniteSet(disk), Inputs, Kept, TakenUp, Listed, Looked, Routed, FailCopy
  PROVE  IInv'
<1>1. Return /\ UNCHANGED <<disk, worldVars, phase, todo, events, sessions, historyVars>>
  BY DEF FailCopy
<1>2. UNCHANGED <<phase, appeared, todo>>
  BY <1>1 DEF worldVars
<1>3. /\ pc' \in {"scanning", "receiving"}
      /\ cur' \in Path /\ polls' \in 0 .. MaxPolls /\ prev' \in 0 .. MaxSize
        /\ idle' \in SUBSET File /\ target' \in Path
      /\ TakenUp' /\ Listed' /\ Looked'
  BY <1>1, <1>2, ReturnTypes
<1> QED
  BY <1>1, <1>3, QuietStep DEF TypeOK, historyVars

\* The source goes when the copy is whole, or stays.
LEMMA RemoveInv ==
  ASSUME TypeOK, IsFiniteSet(disk), Inputs, Kept, TakenUp, Listed, Looked, Routed, Remove
  PROVE  IInv'
<1>1. /\ pc = "removing" /\ pc \in Busy /\ disk' \in {disk, disk \ At(cur)} /\ Return
      /\ UNCHANGED <<worldVars, phase, todo, events, sessions, historyVars>>
  BY DEF Remove, Busy
<1> USE DEF worldVars, looks, historyVars
<1>2. UNCHANGED <<phase, appeared, todo>>
  BY <1>1 DEF worldVars
<1>3. /\ pc' \in {"scanning", "receiving"}
      /\ cur' \in Path /\ polls' \in 0 .. MaxPolls /\ prev' \in 0 .. MaxSize
        /\ idle' \in SUBSET File /\ target' \in Path
      /\ TakenUp' /\ Listed' /\ Looked' /\ Routed'
  BY <1>1, <1>2, ReturnTypes
<1>4. disk' \in SUBSET disk
  BY <1>1
<1>5. TypeOK'
  BY <1>1, <1>3, <1>4 DEF TypeOK
<1>6. IsFiniteSet(disk')
  BY <1>4, FS_Subset
<1>7. Inputs'
  BY <1>1, <1>4 DEF Inputs
<1>8. Kept'
  <2>1. PICK e \in disk : At(cur) = {e} /\ FilesAt(cur) = {e.file} /\ cur # target
    BY <1>1, InHand
  <2>2. ASSUME NEW f \in appeared \ early PROVE \E x \in disk' : x.file = f /\ x.how # "partial"
    <3>1. PICK x \in disk : x.file = f /\ x.how # "partial"
      BY DEF Kept
    <3>2. CASE x \in disk'
      BY <3>1, <3>2
    <3>3. CASE x \notin disk'
      <4>1. x = e
        BY <1>1, <2>1, <3>3
      <4>2. f \in {d.file : d \in Whole(target)}
        BY <1>1, <2>1, <3>1, <4>1 DEF Routed
      <4>3. PICK d \in At(target) : d.file = f /\ d.how # "partial"
        BY <4>2 DEF Whole
      <4>4. d \in disk /\ d \notin At(cur)
        BY <2>1, <4>3 DEF At
      <4> QED
        BY <1>1, <4>3, <4>4
    <3> QED
      BY <3>2, <3>3
  <2> QED
    BY <1>1, <2>2 DEF Kept
<1> QED
  BY <1>3, <1>5, <1>6, <1>7, <1>8 DEF IInv

-----------------------------------------------------------------------------
(* The invariant, and what follows.                                        *)

\* Every step keeps the invariant.
LEMMA NextInv == IInv /\ [Next]_vars => IInv'
<1> SUFFICES ASSUME IInv, [Next]_vars PROVE IInv'
  OBVIOUS
<1>1. TypeOK /\ IsFiniteSet(disk) /\ Inputs /\ Kept /\ TakenUp /\ Listed /\ Looked /\ Routed
  BY DEF IInv
<1>2. CASE UNCHANGED vars
  <2> USE DEF vars, worldVars, sessionVars, looks, historyVars
  <2>1. TypeOK' /\ IsFiniteSet(disk') /\ Inputs' /\ Kept'
    BY <1>1, <1>2 DEF TypeOK, Inputs, Kept, PathOf
  <2>2. At(cur)' = At(cur) /\ FilesAt(cur)' = FilesAt(cur) /\ At(target)' = At(target)
        /\ Whole(target)' = Whole(target)
    BY <1>2 DEF At, FilesAt, Whole
  <2>3. TakenUp' /\ Listed' /\ Looked' /\ Routed'
    BY <1>1, <1>2, <2>2 DEF TakenUp, Listed, Looked, OfScan, Routed
  <2> QED
    BY <2>1, <2>3 DEF IInv
<1>3. CASE Producer
  BY <1>1, <1>3, AppearInv, GrowInv, FinishCopyInInv DEF Producer
<1>4. CASE Session
  BY <1>1, <1>4, ScanInv, PollInv, ReceiveInv, RejectInv, CheckInv, RenameInv,
     StartCopyInv, FinishCopyInv, FailCopyInv, RemoveInv DEF Session
<1>5. CASE Start \/ Interrupt
  BY <1>1, <1>5, StartInv
<1> QED
  BY <1>2, <1>3, <1>4, <1>5 DEF Next

\* Every reachable state satisfies the invariant, whatever fails in route_file and
\* wherever the session is interrupted.
THEOREM Invariance == Spec => []IInv
<1> QED
  BY InitInv, NextInv, PTL DEF Spec

\* No file is lost that was not processed too early.
THEOREM NoFileIsLost == Spec => []NothingLost
<1>1. IInv => NothingLost
  BY DEF IInv, Kept, NothingLost
<1> QED
  BY <1>1, Invariance, PTL

\* process_existing, behind wait_until_stable, takes up a file that is being written only if
\* it had not grown between two looks in a row and was not empty.
THEOREM ScanTakesIdleFiles == Spec => ScannedFilesWereIdle
<1> DEFINE idleOnly == phase = "scan" => \A f \in early' \ early : f \in idle /\ size[f] > 0
<1>1. ASSUME IInv, [Next]_vars PROVE idleOnly
  <2>1. CASE Process /\ pc = "checking"
    BY <1>1, <2>1 DEF IInv, Looked, Process
  <2>2. CASE UNCHANGED early
    BY <2>2
  <2> QED
    BY <1>1, <2>1, <2>2
       DEF Next, vars, historyVars, Producer, StartCopyIn, Grow, FinishCopyIn, MoveIn, MoveFolderIn,
           Appear, Session, ScanNext, Poll, StartWatch, Receive, Reject, Check, Rename,
           StartCopy, FinishCopy, FailCopy, Remove, Start, Interrupt
<1>2. IInv /\ [Next]_vars => [idleOnly]_vars
  BY <1>1
<1> QED
  BY <1>2, Invariance, PTL DEF Spec, ScannedFilesWereIdle

\* What was delivered is neither overwritten by a later file of the same name nor
\* taken for a new one.
THEOREM DeliveriesStay == Spec => DeliveredStays
<1> DEFINE stays == \A e \in disk : e.dir \in Dest =>
                      \E d \in disk' : PathOf(d) = PathOf(e) /\ d.file = e.file
<1>1. ASSUME IInv, [Next]_vars PROVE stays
  <2>1. TypeOK /\ Inputs /\ TakenUp /\ Listed /\ Looked /\ Routed
    BY <1>1 DEF IInv
  <2>2. CASE disk \subseteq disk'
    BY <2>2
  <2>3. ASSUME pc \in Busy, NEW e \in At(cur) PROVE e.dir \notin Dest
    BY <2>1, <2>3, InHand DEF Dest
  <2>4. CASE Rename
    <3>1. At(target) = {} /\ pc \in Busy
      BY <2>1, <2>4 DEF Rename, Routed, Busy
    <3> QED
      BY <2>3, <2>4, <3>1 DEF Rename, Replace
  <2>5. CASE StartCopy
    <3>1. At(target) = {}
      BY <2>1, <2>5 DEF StartCopy, Routed
    <3> QED
      BY <2>5, <3>1 DEF StartCopy, Replace
  <2>6. CASE FinishCopy
    <3>1. pc = "copying" /\ pc \in Busy /\ target \in Path
      BY <2>1, <2>6 DEF FinishCopy, Busy, TypeOK
    <3>2. PICK s \in disk : At(cur) = {s} /\ FilesAt(cur) = {s.file}
      BY <2>1, <3>1, InHand
    <3>3. PICK how : disk' = (disk \ At(target)) \cup Placed(how)
      BY <2>6 DEF FinishCopy, Replace
    <3> DEFINE m == [dir |-> target.dir, slot |-> target.slot, file |-> s.file, how |-> how]
    <3>4. m \in disk' /\ PathOf(m) = target /\ m.file = s.file
      BY <3>1, <3>2, <3>3 DEF Placed, PathOf, Path
    <3>5. \A e \in At(target) : e.file = s.file /\ PathOf(e) = target
      BY <2>1, <3>1, <3>2 DEF Routed, At
    <3> HIDE DEF m
    <3> QED
      BY <3>3, <3>4, <3>5
  <2>7. CASE Remove
    <3>1. pc \in Busy
      BY <2>7 DEF Remove, Busy
    <3> QED
      BY <2>3, <2>7, <3>1 DEF Remove
  <2> QED
    BY <1>1, <2>2, <2>4, <2>5, <2>6, <2>7
       DEF Next, vars, Producer, StartCopyIn, Grow, FinishCopyIn, MoveIn, MoveFolderIn,
           Appear, Session, ScanNext, Poll, StartWatch, Receive, Reject, Check,
           FailCopy, Start, Interrupt
<1>2. IInv /\ [Next]_vars => [stays]_vars
  BY <1>1
<1> QED
  BY <1>2, Invariance, PTL DEF Spec, DeliveredStays
=============================================================================
