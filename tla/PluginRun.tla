----------------------------- MODULE PluginRun ------------------------------
(***************************************************************************)
(* One execution of a plugin rule (crates/tpt-app-media-qc-plugin/src:     *)
(* PluginRule::run in registry.rs, run_plugin in run.rs): the host thread, *)
(* the thread that feeds the plugin, the two that drain it, the plugin     *)
(* process, and a helper process it may start and leave behind with its    *)
(* pipes.  Sizes are in blocks.                                            *)
(***************************************************************************)
EXTENDS Naturals

CONSTANTS
  Capacity,     \* of a pipe
  RequestSize,  \* of the request
  OutLimit,     \* MAX_RESPONSE_BYTES
  ErrLimit,     \* MAX_STDERR_BYTES
  MaxWritten    \* bound: what the plugin and its helper write on each stream

ASSUME SizesAssumption ==
  /\ Capacity \in Nat \ {0}
  /\ {RequestSize, OutLimit, ErrLimit, MaxWritten} \subseteq Nat

Stream   == {"out", "err"}
Limit(s) == IF s = "out" THEN OutLimit ELSE ErrLimit

VARIABLES
  host,      \* where the host thread is
  status,    \* what its poll loop ended with
  expired,   \* whether the deadline has passed
  finding,   \* what PluginRule::run returns ("none": not yet)
  toWrite,   \* blocks of the request the writer still has
  writer,    \* the writer thread
  reader,    \* the two reader threads
  got,       \* blocks each of them has read
  stdin,     \* blocks in the plugin's standard input
  pipe,      \* blocks in its two output pipes
  written,   \* history: blocks written to them
  plugin,    \* the plugin process
  helper     \* the helper process

hostVars   == <<host, status, finding>>
threadVars == <<toWrite, writer, reader, got>>
pipeVars   == <<stdin, pipe, written>>
vars == <<hostVars, expired, threadVars, pipeVars, plugin, helper>>

TypeOK ==
  /\ host \in {"deciding", "polling", "killing", "joining", "judging", "returned"}
  /\ status \in {"none", "success", "failure", "timeout", "error"}
  /\ expired \in BOOLEAN
  /\ finding \in {"none", "pass", "inconclusive", "reported"}
  /\ toWrite \in 0 .. RequestSize
  /\ writer \in {"writing", "done"}
  /\ reader \in [Stream -> {"reading", "done"}]
  /\ got \in [Stream -> Nat] /\ \A s \in Stream : got[s] <= Limit(s) + 1
  /\ stdin \in 0 .. Capacity
  /\ pipe \in [Stream -> 0 .. Capacity]
  /\ written \in [Stream -> 0 .. MaxWritten]
  /\ plugin \in {"none", "running", "success", "failure", "killed"}
  /\ helper \in {"none", "running", "gone"}

Init ==
  /\ host = "deciding" /\ status = "none" /\ finding = "none"
  /\ expired = FALSE
  /\ toWrite = RequestSize /\ writer = "writing"
  /\ reader = [s \in Stream |-> "reading"]
  /\ got = [s \in Stream |-> 0]
  /\ stdin = 0
  /\ pipe = [s \in Stream |-> 0]
  /\ written = [s \in Stream |-> 0]
  /\ plugin = "none" /\ helper = "none"

-----------------------------------------------------------------------------
\* The host thread.

Return(f) == host' = "returned" /\ finding' = f

\* A stream the rule needs is absent (pass), or the command of the manifest is
\* unusable or cannot be started: no process.
DoNotStart ==
  /\ host = "deciding"
  /\ \E f \in {"pass", "inconclusive"} : Return(f)
  /\ UNCHANGED <<status, expired, threadVars, pipeVars, plugin, helper>>

\* The process and the three threads are started, and the deadline set.
Spawn ==
  /\ host = "deciding"
  /\ host' = "polling"
  /\ plugin' = "running"
  /\ UNCHANGED <<status, finding, expired, threadVars, pipeVars, helper>>

DeadlinePasses ==
  /\ host = "polling"
  /\ ~ expired
  /\ expired' = TRUE
  /\ UNCHANGED <<hostVars, threadVars, pipeVars, plugin, helper>>

\* try_wait sees that the plugin has ended.
SeeExit ==
  /\ host = "polling"
  /\ plugin \in {"success", "failure"}
  /\ status' = plugin
  /\ host' = "joining"
  /\ UNCHANGED <<finding, expired, threadVars, pipeVars, plugin, helper>>

\* try_wait sees it running after the deadline, or fails.
GiveUp ==
  /\ host = "polling"
  /\ \/ plugin = "running" /\ expired /\ status' = "timeout"
     \/ status' = "error"
  /\ host' = "killing"
  /\ UNCHANGED <<finding, expired, threadVars, pipeVars, plugin, helper>>

\* Variant: the plugin is left running.
KillNothing ==
  /\ host = "killing"
  /\ host' = "joining"
  /\ UNCHANGED <<status, finding, expired, threadVars, pipeVars, plugin, helper>>

\* kill (and wait): by now the plugin may have ended by itself.
Kill ==
  /\ host = "killing"
  /\ plugin' = IF plugin = "running" THEN "killed" ELSE plugin
  /\ host' = "joining"
  /\ UNCHANGED <<status, finding, expired, threadVars, pipeVars, helper>>

\* The three joins; their order does not matter to anybody else.
JoinThreads ==
  /\ host = "joining"
  /\ writer = "done" /\ \A s \in Stream : reader[s] = "done"
  /\ host' = "judging"
  /\ UNCHANGED <<status, finding, expired, threadVars, pipeVars, plugin, helper>>

\* Variant: the size is not looked at.
JudgeStatusOnly ==
  /\ host = "judging"
  /\ IF status # "success"
     THEN Return("inconclusive")
     ELSE \E f \in {"inconclusive", "reported"} : Return(f)
  /\ UNCHANGED <<status, expired, threadVars, pipeVars, plugin, helper>>

\* The checks after the joins: the poll loop's error, the size, the exit status,
\* and last the JSON and the protocol, which the response may or may not satisfy.
Judge ==
  /\ host = "judging"
  /\ IF status # "success" \/ got["out"] > OutLimit
     THEN Return("inconclusive")
     ELSE \E f \in {"inconclusive", "reported"} : Return(f)
  /\ UNCHANGED <<status, expired, threadVars, pipeVars, plugin, helper>>

HostThread ==
  DoNotStart \/ Spawn \/ SeeExit \/ GiveUp \/ Kill \/ JoinThreads \/ Judge

-----------------------------------------------------------------------------
\* The threads that feed and drain the plugin.

Started == host # "deciding" /\ plugin # "none"

\* The pipes are held open by whoever still has their other end.
Open == plugin = "running" \/ helper = "running"

\* write_all of the request: ends when it is written or nobody can read it.
Feed ==
  /\ Started
  /\ writer = "writing"
  /\ \/ /\ toWrite > 0 /\ stdin < Capacity /\ Open
        /\ toWrite' = toWrite - 1
        /\ stdin' = stdin + 1
        /\ UNCHANGED writer
     \/ /\ toWrite = 0 \/ ~ Open
        /\ writer' = "done"
        /\ UNCHANGED <<toWrite, stdin>>
  /\ UNCHANGED <<hostVars, expired, reader, got, pipe, written, plugin, helper>>

\* Variant: standard error is read after standard output.
DrainInTurn(s) ==
  /\ Started
  /\ reader[s] = "reading"
  /\ s = "err" => reader["out"] = "done"
  /\ \/ /\ pipe[s] > 0 /\ got[s] <= Limit(s)
        /\ pipe' = [pipe EXCEPT ![s] = @ - 1]
        /\ got' = [got EXCEPT ![s] = @ + 1]
        /\ UNCHANGED reader
     \/ /\ got[s] > Limit(s) \/ (pipe[s] = 0 /\ ~ Open)
        /\ reader' = [reader EXCEPT ![s] = "done"]
        /\ UNCHANGED <<pipe, got>>
  /\ UNCHANGED <<hostVars, expired, toWrite, writer, stdin, written, plugin, helper>>

\* read_limited: one block past the limit at most, or to the end of the stream.
\* The thread then drops the pipe.
Drain(s) ==
  /\ Started
  /\ reader[s] = "reading"
  /\ \/ /\ pipe[s] > 0 /\ got[s] <= Limit(s)
        /\ pipe' = [pipe EXCEPT ![s] = @ - 1]
        /\ got' = [got EXCEPT ![s] = @ + 1]
        /\ UNCHANGED reader
     \/ /\ got[s] > Limit(s) \/ (pipe[s] = 0 /\ ~ Open)
        /\ reader' = [reader EXCEPT ![s] = "done"]
        /\ UNCHANGED <<pipe, got>>
  /\ UNCHANGED <<hostVars, expired, toWrite, writer, stdin, written, plugin, helper>>

-----------------------------------------------------------------------------
\* The plugin and its helper, which do as they like.

ReadRequest ==
  /\ plugin = "running"
  /\ stdin > 0
  /\ stdin' = stdin - 1
  /\ UNCHANGED <<hostVars, expired, threadVars, pipe, written, plugin, helper>>

\* A write blocks while the pipe is full.
Write(s) ==
  /\ Open
  /\ reader[s] = "reading"
  /\ pipe[s] < Capacity
  /\ written[s] < MaxWritten
  /\ pipe' = [pipe EXCEPT ![s] = @ + 1]
  /\ written' = [written EXCEPT ![s] = @ + 1]
  /\ UNCHANGED <<hostVars, expired, threadVars, stdin, plugin, helper>>

\* A write after the reader has dropped the pipe kills the plugin, or fails and is
\* ignored by it.
WriteBroken(s) ==
  /\ plugin = "running"
  /\ reader[s] = "done"
  /\ written[s] < MaxWritten
  /\ written' = [written EXCEPT ![s] = @ + 1]
  /\ plugin' \in {"running", "failure"}
  /\ UNCHANGED <<hostVars, expired, threadVars, stdin, pipe, helper>>

Exit ==
  /\ plugin = "running"
  /\ plugin' \in {"success", "failure"}
  /\ UNCHANGED <<hostVars, expired, threadVars, pipeVars, helper>>

StartHelper ==
  /\ plugin = "running"
  /\ helper = "none"
  /\ helper' = "running"
  /\ UNCHANGED <<hostVars, expired, threadVars, pipeVars, plugin>>

HelperEnds ==
  /\ helper = "running"
  /\ helper' = "gone"
  /\ UNCHANGED <<hostVars, expired, threadVars, pipeVars, plugin>>

Processes ==
  \/ ReadRequest \/ Exit \/ StartHelper \/ HelperEnds
  \/ \E s \in Stream : Write(s) \/ WriteBroken(s)

-----------------------------------------------------------------------------
Finished == host = "returned" /\ UNCHANGED vars

Next ==
  \/ HostThread \/ DeadlinePasses \/ Feed \/ (\E s \in Stream : Drain(s))
  \/ Processes \/ Finished

\* The threads of the host run and the clock does; the processes owe nothing.
Fairness ==
  /\ WF_vars(HostThread)
  /\ WF_vars(DeadlinePasses)
  /\ WF_vars(Feed)
  /\ \A s \in Stream : WF_vars(Drain(s))

Spec == Init /\ [][Next]_vars /\ Fairness

-----------------------------------------------------------------------------
\* Properties.

\* A response is believed only when all of it was read: nothing the plugin or its
\* helper wrote on standard output is missing, and the plugin ended well.
NoTruncatedResponse ==
  finding = "reported" => /\ plugin = "success"
                          /\ got["out"] = written["out"]
                          /\ got["out"] <= OutLimit

\* "a plugin that writes before it has read everything cannot deadlock the host"
\* (run.rs:61-62): a full pipe is drained, or dropped so that the write fails,
\* whatever the plugin does with the other pipes.
FullPipeDrains ==
  \A s \in Stream : pipe[s] = Capacity ~> pipe[s] < Capacity \/ reader[s] = "done"

\* A plugin that leaves no helper running cannot hold the host past the timeout.
ReturnsWithoutHelper == <>[](helper # "running") => <>(host = "returned")

\* "Each run has a timeout (...; the process is killed on expiry)"
\* (docs/plugin-sdk.md:45-46): once it expires, run_plugin returns.
ReturnsAfterTimeout == expired ~> host = "returned"
=============================================================================
