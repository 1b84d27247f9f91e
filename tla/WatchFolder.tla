---------------------------- MODULE WatchFolder -----------------------------
(***************************************************************************)
(* The watch command (crates/tpt-app-media-qc-cli/src/watch.rs): one thread *)
(* that scans the input folder, then receives paths from the file system   *)
(* watcher, checks each file and moves it to a destination folder, while a *)
(* producer fills the input folder and the session may be interrupted.     *)
(*                                                                         *)
(* All input files have the same name, in different subfolders: the worst  *)
(* case for the names in a destination.                                    *)
(***************************************************************************)
EXTENDS Naturals, Sequences, FiniteSets

CONSTANTS
  NumFiles,      \* bound: files the producer delivers
  MaxSize,       \* bound: length of a file
  MaxPolls,      \* polls of wait_until_stable (25 in the program)
  MaxSessions,   \* bound: times the command is started
  Verdict,       \* verdicts the checks give
  Old,           \* destinations that hold a file of that name from the start
  Nested         \* whether the destinations lie inside the input folder

ASSUME BoundsAssumption ==
  /\ NumFiles \in Nat
  /\ MaxSize \in Nat \ {0}
  /\ MaxPolls \in Nat \ {0}
  /\ MaxSessions \in Nat
  /\ Verdict \subseteq {"pass", "warn", "inconclusive", "fail"}
  /\ Old \subseteq {"pass", "warn", "fail"}
  /\ Nested \in BOOLEAN

File == 1 .. NumFiles
Dest == {"pass", "warn", "fail"}
Dir  == {"input"} \cup Dest

\* A path: in the input folder slot is the subfolder, in a destination 0 is the
\* plain name and i the name with suffix -i.  An entry: what the path holds, the
\* producer's own file or a copy of it.  File 0 was there before.
Path  == [dir : Dir, slot : Nat]
Entry == [dir : Dir, slot : Nat, file : 0 .. NumFiles, how : {"inode", "copy", "partial"}]

VARIABLES
  disk,       \* the entries of the input and destination folders
  appeared,   \* the files the producer has delivered
  writing,    \* the files it is still writing
  size,       \* the length of each file
  pc,         \* where the session is
  phase,      \* "scan" in process_existing, "watch" in the receive loop
  todo,       \* the paths process_existing has collected
  cur,        \* the path being processed
  polls,      \* polls left to wait_until_stable
  prev,       \* the length that its last look saw
  target,     \* where route_file is putting it
  events,     \* the channel from the watcher's callback
  sessions,   \* times the command was started
  owed,       \* history: files this session still has to process
  early,      \* history: files processed while they were being written
  idle        \* history: files that have not grown since that last look

worldVars   == <<appeared, writing, size>>
looks       == <<polls, prev, idle>>
sessionVars == <<pc, phase, todo, cur, looks, target>>
historyVars == <<owed, early>>
vars == <<disk, worldVars, sessionVars, events, sessions, historyVars>>

PathOf(e) == [dir |-> e.dir, slot |-> e.slot]
At(p)     == {e \in disk : PathOf(e) = p}
Nowhere   == [dir |-> "input", slot |-> 0]

TypeOK ==
  /\ disk \subseteq Entry
  /\ \A e, f \in disk : PathOf(e) = PathOf(f) => e = f
  /\ appeared \in SUBSET File
  /\ writing \in SUBSET appeared
  /\ size \in [0 .. NumFiles -> 0 .. MaxSize]
  /\ pc \in {"off", "scanning", "waiting", "receiving", "checking", "routing",
             "copying", "removing"}
  /\ phase \in {"scan", "watch"}
  /\ todo \subseteq Path
  /\ cur \in Path
  /\ polls \in 0 .. MaxPolls
  /\ prev \in 0 .. MaxSize
  /\ target \in Path
  /\ events \in Seq(Path)
  /\ sessions \in 0 .. MaxSessions
  /\ owed \in SUBSET File
  /\ early \in SUBSET File
  /\ idle \in SUBSET File

Init ==
  /\ disk = [dir : Old, slot : {0}, file : {0}, how : {"inode"}]
  /\ appeared = {} /\ writing = {}
  /\ size = [f \in 0 .. NumFiles |-> IF f = 0 THEN 1 ELSE 0]
  /\ pc = "off" /\ phase = "scan"
  /\ todo = {} /\ cur = Nowhere /\ polls = 0 /\ prev = 0 /\ target = Nowhere
  /\ events = <<>>
  /\ sessions = 0
  /\ owed = {} /\ early = {} /\ idle = File

-----------------------------------------------------------------------------
\* The watcher's callback.

Watching == pc # "off" /\ phase = "watch"

\* Variant: renames into the folder are not new files.
CreateOnly == {"create"}

\* is_new_file_event; a path with the name of a media file is sent on.
NewFileEvent == {"create", "renameTo"}

Notify(kind, p) ==
  events' = IF Watching /\ kind \in NewFileEvent THEN Append(events, p) ELSE events

NotifyDest(kind, p) == IF Nested THEN Notify(kind, p) ELSE UNCHANGED events

-----------------------------------------------------------------------------
\* The producer.

Appear(f, kind, length) ==
  /\ f \notin appeared
  /\ appeared' = appeared \cup {f}
  /\ size' = [size EXCEPT ![f] = length]
  /\ disk' = disk \cup {[dir |-> "input", slot |-> f, file |-> f, how |-> "inode"]}
  /\ Notify(kind, [dir |-> "input", slot |-> f])
  /\ owed' = IF Watching /\ kind # "none" THEN owed \cup {f} ELSE owed
  /\ UNCHANGED <<sessionVars, sessions, early>>

\* A file is copied into the input folder, which takes time: it begins empty, or with
\* the room it will need.
StartCopyIn(f) ==
  \E length \in 0 .. MaxSize : Appear(f, "create", length) /\ writing' = writing \cup {f}

\* The copy goes on; it may also stand still, or fill the room it has.
Grow(f) ==
  /\ f \in writing
  /\ \E length \in size[f] + 1 .. MaxSize : size' = [size EXCEPT ![f] = length]
  /\ idle' = IF pc = "waiting" THEN idle \ {f} ELSE idle
  /\ UNCHANGED <<disk, appeared, writing, pc, phase, todo, cur, polls, prev, target, events, sessions, historyVars>>

FinishCopyIn(f) ==
  /\ f \in writing
  /\ writing' = writing \ {f}
  /\ UNCHANGED <<disk, appeared, size, sessionVars, events, sessions, historyVars>>

\* A file is renamed into it, whole; of its length it matters whether it is 0.
MoveIn(f) ==
  \E length \in {0, 1} : Appear(f, "renameTo", length) /\ UNCHANGED writing

\* A folder is moved into it: only the folder is reported, and it has no media name.
MoveFolderIn(f) ==
  \E length \in {0, 1} : Appear(f, "none", length) /\ UNCHANGED writing

-----------------------------------------------------------------------------
\* The session: run_watch and process_existing.

FilesAt(p)   == {e.file : e \in At(p)}

\* What std::fs::metadata says, 0 of a file that is not there.
Length(p) == IF At(p) = {} THEN 0 ELSE size[CHOOSE f \in FilesAt(p) : TRUE]

\* Back to the loop that took the path up.
Return ==
  /\ pc' = IF phase = "scan" THEN "scanning" ELSE "receiving"
  /\ cur' = Nowhere /\ polls' = 0 /\ prev' = 0 /\ idle' = File /\ target' = Nowhere

\* Variant: nothing is excluded.
UnderNoDest(p) == FALSE

UnderAnyDest(p) == p.dir \in Dest

\* The command starts, and collects and sorts what is there.
Start ==
  /\ pc = "off"
  /\ sessions < MaxSessions
  /\ sessions' = sessions + 1
  /\ pc' = "scanning" /\ phase' = "scan"
  /\ todo' = {PathOf(e) : e \in {d \in disk : d.dir = "input" \/ Nested}}
  /\ owed' = {f \in File \ writing : [dir |-> "input", slot |-> f] \in todo' /\ size[f] > 0}
  /\ UNCHANGED <<disk, worldVars, cur, looks, target, events, early>>

\* The next path of the scan; the names are arbitrary, so is the order.
ScanNext ==
  /\ pc = "scanning"
  /\ \E p \in todo :
       /\ todo' = todo \ {p}
       /\ \/ UnderAnyDest(p) /\ UNCHANGED <<pc, cur, looks>>
          \/ /\ ~ UnderAnyDest(p)
             /\ pc' = "waiting"
             /\ cur' = p
             /\ polls' = MaxPolls /\ prev' = Length(p) /\ idle' = File
  /\ UNCHANGED <<disk, worldVars, phase, target, events, sessions, historyVars>>

Settled == Length(cur) = prev /\ Length(cur) > 0

\* Variant: a file that never settled is processed all the same.
PollThenGo ==
  /\ pc = "waiting"
  /\ IF polls = 1 \/ Settled
     THEN pc' = "checking" /\ polls' = 0 /\ prev' = 0 /\ UNCHANGED idle
     ELSE pc' = pc /\ polls' = polls - 1 /\ prev' = Length(cur) /\ idle' = File
  /\ UNCHANGED <<cur, target>>
  /\ UNCHANGED <<disk, worldVars, phase, todo, events, sessions, historyVars>>

\* wait_until_stable: two looks in a row at the same length, which is not 0, settle the
\* file.  One that does not settle in time is skipped.
Poll ==
  /\ pc = "waiting"
  /\ CASE Settled ->
            pc' = "checking" /\ polls' = 0 /\ prev' = 0 /\ UNCHANGED <<cur, idle, target>>
       [] ~ Settled /\ polls = 1 ->
            Return
       [] OTHER ->
            polls' = polls - 1 /\ prev' = Length(cur) /\ idle' = File /\ UNCHANGED <<pc, cur, target>>
  /\ UNCHANGED <<disk, worldVars, phase, todo, events, sessions, historyVars>>

\* The scan is over; only now is the watcher created.
StartWatch ==
  /\ pc = "scanning"
  /\ todo = {}
  /\ pc' = "receiving" /\ phase' = "watch"
  /\ UNCHANGED <<disk, worldVars, todo, cur, looks, target, events, sessions, historyVars>>

\* rx.recv(): the path is processed at once, whatever its writer is doing.
Receive ==
  /\ pc = "receiving"
  /\ events # <<>>
  /\ events' = Tail(events)
  /\ IF UnderAnyDest(Head(events))
     THEN UNCHANGED <<pc, cur>>
     ELSE pc' = "checking" /\ cur' = Head(events)
  /\ UNCHANGED <<disk, worldVars, phase, todo, looks, target, sessions, historyVars>>

-----------------------------------------------------------------------------
\* process_one and route_file.

DestFor(verdict) ==
  CASE verdict = "pass" -> "pass"
    [] verdict \in {"warn", "inconclusive"} -> "warn"
    [] verdict = "fail" -> "fail"

Process ==
  /\ owed' = owed \ FilesAt(cur)
  /\ early' = early \cup (FilesAt(cur) \cap writing)

\* The file cannot be fingerprinted or probed (it may have been routed already):
\* it is left in place.
Reject ==
  /\ pc = "checking"
  /\ Return
  /\ Process
  /\ UNCHANGED <<disk, worldVars, phase, todo, events, sessions>>

\* Variant: the plain name is always taken.
PlainName(d) == 0

\* The first of name, name-1, name-2, ... that does not exist.
FreeSlot(d) ==
  LET taken == {e.slot : e \in {x \in disk : x.dir = d}}
  IN  CHOOSE s \in 0 .. Cardinality(taken) : s \notin taken /\ \A r \in 0 .. s : r \notin taken => r = s

\* engine.check gives a verdict, but of an empty file an error; the report is written, an error there ignored.
\* The choice of the name by route_file is the last thing before the move.
Check ==
  /\ pc = "checking"
  /\ Length(cur) > 0
  /\ \E v \in Verdict :
       target' = [dir |-> DestFor(v), slot |-> FreeSlot(DestFor(v))]
  /\ pc' = "routing"
  /\ Process
  /\ UNCHANGED <<disk, worldVars, phase, todo, cur, looks, events, sessions>>

\* What an entry becomes when its content is put at the target as how.
Placed(how) ==
  {[dir |-> target.dir, slot |-> target.slot, file |-> e.file, how |-> how] : e \in At(cur)}

Replace(gone, placed) == disk' = ((disk \ gone) \ At(target)) \cup placed

\* std::fs::rename succeeds: the file itself moves, its writer with it.
Rename ==
  /\ pc = "routing"
  /\ Replace(At(cur), {[e EXCEPT !.dir = target.dir, !.slot = target.slot] : e \in At(cur)})
  /\ NotifyDest("renameTo", target)
  /\ Return
  /\ UNCHANGED <<worldVars, phase, todo, sessions, historyVars>>

\* It fails (another device): std::fs::copy creates the target.
StartCopy ==
  /\ pc = "routing"
  /\ Replace({}, Placed("partial"))
  /\ NotifyDest("create", target)
  /\ pc' = "copying"
  /\ UNCHANGED <<worldVars, phase, todo, cur, looks, target, sessions, historyVars>>

\* The copy is complete if the source was: nobody writing it, nor a partial copy.
FinishCopy ==
  /\ pc = "copying"
  /\ Replace({}, Placed(IF FilesAt(cur) \cap writing = {} /\ \A e \in At(cur) : e.how # "partial"
                        THEN "copy" ELSE "partial"))
  /\ pc' = "removing"
  /\ UNCHANGED <<worldVars, phase, todo, cur, looks, target, events, sessions, historyVars>>

\* The copy fails: what was written stays in the destination.
FailCopy ==
  /\ pc = "copying"
  /\ Return
  /\ UNCHANGED <<disk, worldVars, phase, todo, events, sessions, historyVars>>

\* remove_file of the source succeeds, or fails and leaves it.
Remove ==
  /\ pc = "removing"
  /\ disk' \in {disk, disk \ At(cur)}
  /\ Return
  /\ UNCHANGED <<worldVars, phase, todo, events, sessions, historyVars>>

\* Ctrl+C, at any point.
Interrupt ==
  /\ pc # "off"
  /\ pc' = "off" /\ phase' = "scan"
  /\ todo' = {} /\ cur' = Nowhere /\ polls' = 0 /\ prev' = 0 /\ idle' = File /\ target' = Nowhere
  /\ events' = <<>>
  /\ owed' = {}
  /\ UNCHANGED <<disk, worldVars, sessions, early>>

-----------------------------------------------------------------------------
Producer ==
  \E f \in File : StartCopyIn(f) \/ Grow(f) \/ FinishCopyIn(f) \/ MoveIn(f) \/ MoveFolderIn(f)

Session ==
  \/ ScanNext \/ Poll \/ StartWatch \/ Receive
  \/ Reject \/ Check \/ Rename \/ StartCopy \/ FinishCopy \/ FailCopy \/ Remove

Next == Producer \/ Session \/ Start \/ Interrupt

\* The thread runs; a check and a copy end.  Nothing obliges the producer to
\* finish, nor the user to start or interrupt a session.
Spec == Init /\ [][Next]_vars /\ WF_vars(Session)

-----------------------------------------------------------------------------
\* Properties.

\* No file is lost: once its producer is done, a file that was not processed too
\* early is whole in the input folder or in a destination, whatever fails in
\* route_file and wherever the session is interrupted.
NothingLost ==
  \A f \in appeared \ (writing \cup early) :
    \E e \in disk : e.file = f /\ e.how # "partial"

\* A file delivered to a destination stays there under its name: it is neither
\* overwritten by a later one nor taken for a new file, although the watcher
\* reports it when the destination lies inside the input folder.
DeliveredStays ==
  [][\A e \in disk : e.dir \in Dest =>
       \E d \in disk' : PathOf(d) = PathOf(e) /\ d.file = e.file]_vars

\* A file that was whole in the input folder when the session started, and not empty, or
\* that arrived by itself while the session was watching, is processed (an interrupted
\* session owes nothing; an empty file never settles).
OwedFilesHandled ==
  \A f \in File : f \in owed ~> f \notin owed

\* The partial copy protection of process_existing: a file whose writer is still at work is
\* processed only if that writer added nothing between two looks in a row, and had added
\* something before.  A file whose writer never pauses that long is not taken up before its
\* end, wherever between the looks its first and its last bytes fall.
ScannedFilesWereIdle ==
  [][phase = "scan" => \A f \in early' \ early : f \in idle /\ size[f] > 0]_vars

\* "copies are moved after write stabilisation" (CHANGELOG.md:185-186) and the
\* comment of wait_until_stable, "Wait for a newly-created file to stop growing
\* (partial copy protection)": the receive loop delivers no file while it is being
\* written.
DeliveredWhole ==
  [][phase = "watch" => \A e \in disk' \ disk : e.dir \in Dest => e.file \notin writing]_vars
=============================================================================
