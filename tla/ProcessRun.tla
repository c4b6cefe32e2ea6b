------------------------------ MODULE ProcessRun ------------------------------
(***************************************************************************)
(* One command run by the host: run_process (executor.py), which waits for *)
(* the command, and _LocalBackground (environment.py), which lets the      *)
(* application run until it is stopped.                                    *)
(*                                                                         *)
(* Three kinds of actors: the thread that made the call ("pc"), the two    *)
(* pump threads that empty the command's pipes into bounded buffers, and   *)
(* the processes: the command, a child in its process group, and a daemon  *)
(* that left the group with setsid.  A process holds the pipes it          *)
(* inherited until it closes or redirects its output, or ends.             *)
(***************************************************************************)
EXTENDS BoundedBuffer, ResultEvaluator

CONSTANTS
    Uses,       \* {"run", "background"} or a part of it
    Limits,     \* values of max_bytes considered
    PipeSize,   \* what a pipe holds before a writer blocks
    MaxWritten  \* bound: bytes the processes write to each stream

Streams == {"stdout", "stderr"}
Processes == {"main", "child", "daemon"}
Group == {"main", "child"}     \* members of the process group of the command

ASSUME ProcessAssumption ==
    /\ Uses \subseteq {"run", "background"}
    /\ Limits \subseteq Nat
    /\ PipeSize \in Nat \ {0}
    /\ MaxWritten \in [Streams -> Nat]

VARIABLES
    use, limit,   \* the call and its max_bytes
    pc,           \* what the calling thread does next
    process,      \* each process: "none", "running" or "exited"
    returncode,   \* proc.returncode as the kernel knows it; NoExit until main exits
    holders,      \* the processes that can write to each pipe
    written,      \* bytes written to each pipe
    inPipe,       \* bytes in each pipe that no pump has read
    chunk,        \* bytes a pump has read and not yet appended
    pump,         \* each pump thread: "none", "reading" or "ended"
    sink,         \* the bounded buffers
    timedOut,     \* timed_out of run_process
    late,         \* pumps that join(timeout=5) gave up on
    text,         \* the texts last taken from the buffers
    result,       \* the CommandRun, once made
    log           \* the section LogCollector.build makes of it

kernel == <<process, returncode, holders, written>>
pumps == <<inPipe, chunk, pump, sink>>
caller == <<pc, timedOut, late, text, result, log>>
vars == <<use, limit, kernel, pumps, caller>>

Killed == -9
Terminated == -15

Init ==
    /\ use \in Uses /\ limit \in Limits
    /\ pc = "spawn"
    /\ process = [p \in Processes |-> "none"] /\ returncode = NoExit
    /\ holders = [s \in Streams |-> {}]
    /\ written = [s \in Streams |-> 0] /\ inPipe = written /\ chunk = written
    /\ pump = [s \in Streams |-> "none"]
    /\ sink = [s \in Streams |-> EmptyBuffer]
    /\ timedOut = FALSE /\ late = {}
    /\ text = [s \in Streams |-> <<>>]
    /\ result = NoRun /\ log = <<>>

Running == {p \in Processes : process[p] = "running"}

-----------------------------------------------------------------------------
(* The processes do what they like: write, close or redirect their output, *)
(* fork, exit; a member of the group may daemonize, and what has left the  *)
(* group cannot come back.                                                 *)
WriteByte(p, s) ==
    /\ p \in holders[s]
    /\ written[s] < MaxWritten[s] /\ inPipe[s] < PipeSize
    /\ written' = [written EXCEPT ![s] = @ + 1]
    /\ inPipe' = [inPipe EXCEPT ![s] = @ + 1]
    /\ UNCHANGED <<use, limit, process, returncode, holders, chunk, pump, sink, caller>>

CloseOutput(p, s) ==
    /\ p \in holders[s]
    /\ holders' = [holders EXCEPT ![s] = @ \ {p}]
    /\ UNCHANGED <<use, limit, process, returncode, written, pumps, caller>>

Fork(p, q) ==
    /\ p \in Group \cap Running /\ process[q] = "none"
    /\ process' = [process EXCEPT ![q] = "running"]
    /\ holders' = [s \in Streams |-> holders[s] \cup IF p \in holders[s] THEN {q} ELSE {}]
    /\ UNCHANGED <<use, limit, returncode, written, pumps, caller>>

(* What ends lets go of its pipes. *)
End(gone) ==
    /\ process' = [p \in Processes |-> IF p \in gone THEN "exited" ELSE process[p]]
    /\ holders' = [s \in Streams |-> holders[s] \ gone]

Exit(p) ==
    /\ p \in Running
    /\ End({p})
    /\ IF p = "main" THEN returncode' \in {0, 1} ELSE UNCHANGED returncode
    /\ UNCHANGED <<use, limit, written, pumps, caller>>

-----------------------------------------------------------------------------
(* Variant: the pump looks at the bytes without taking them.               *)
PeekChunk(s) ==
    /\ pump[s] = "reading" /\ chunk[s] = 0
    /\ \E n \in 1 .. inPipe[s] : chunk' = [chunk EXCEPT ![s] = n]
    /\ UNCHANGED <<use, limit, kernel, inPipe, pump, sink, caller>>

(* A pump thread: read1 returns what there is, at least a byte; the end of *)
(* the file comes when no process holds the pipe any more, though some may *)
(* still run.                                                              *)
ReadChunk(s) ==
    /\ pump[s] = "reading" /\ chunk[s] = 0
    /\ \E n \in 1 .. inPipe[s] :
          /\ chunk' = [chunk EXCEPT ![s] = n]
          /\ inPipe' = [inPipe EXCEPT ![s] = @ - n]
    /\ UNCHANGED <<use, limit, kernel, pump, sink, caller>>

(* The bytes of a stream are numbered in the order they were written.      *)
Appended(s) == written[s] - inPipe[s] - chunk[s]
ChunkOf(s) == [i \in 1 .. chunk[s] |-> <<s, Appended(s) + i>>]

AppendChunk(s) ==
    /\ chunk[s] > 0
    /\ sink' = [sink EXCEPT ![s] = Write(limit, @, ChunkOf(s))]
    /\ chunk' = [chunk EXCEPT ![s] = 0]
    /\ UNCHANGED <<use, limit, kernel, inPipe, pump, caller>>

EndOfFile(s) ==
    /\ pump[s] = "reading" /\ chunk[s] = 0 /\ inPipe[s] = 0
    /\ holders[s] = {}
    /\ pump' = [pump EXCEPT ![s] = "ended"]
    /\ UNCHANGED <<use, limit, kernel, inPipe, chunk, sink, caller>>

Pump == \E s \in Streams : ReadChunk(s) \/ AppendChunk(s) \/ EndOfFile(s)

-----------------------------------------------------------------------------
(* The calling thread. *)
Goto(label) == pc' = label
At(from, label) == pc = from /\ pc' = label

(* Variant: one pump for both pipes, the second one never emptied.         *)
PumpsStarted == [s \in Streams |-> IF s = "stdout" THEN "reading" ELSE "none"]
StartPumps == [s \in Streams |-> "reading"]

(* spawn_process; Popen raises OSError when the command cannot be started. *)
Spawn ==
    /\ pc = "spawn"
    /\ \/ /\ Goto(IF use = "run" THEN "wait" ELSE "up")
          /\ process' = [process EXCEPT !["main"] = "running"]
          /\ holders' = [s \in Streams |-> {"main"}]
          /\ pump' = StartPumps
          /\ UNCHANGED result
       \/ /\ Goto("ended")
          /\ result' = CommandRun(NoExit, FALSE)
          /\ UNCHANGED <<process, holders, pump>>
    /\ UNCHANGED <<use, limit, returncode, written, inPipe, chunk, sink, timedOut, late, text,
                   log>>

(* Variant: no timeout.                                                    *)
WaitForEver ==
    /\ At("wait", "kill")
    /\ process["main"] = "exited"
    /\ UNCHANGED <<use, limit, kernel, pumps, timedOut, late, text, result, log>>

(* proc.wait(timeout=...).  The process may exit between the last poll and *)
(* the exception.                                                          *)
Wait ==
    /\ At("wait", "kill")
    /\ \/ process["main"] = "exited" /\ UNCHANGED timedOut
       \/ timedOut' = TRUE
    /\ UNCHANGED <<use, limit, kernel, pumps, late, text, result, log>>

(* Variant: killed only after a timeout.                                   *)
GroupOnTimeout == IF timedOut THEN Group \cap Running ELSE {}
GroupMembers == Group \cap Running

(* kill_process_group: SIGKILL to whatever is left of the group.           *)
KillGroup(from, label) ==
    /\ At(from, label)
    /\ End(GroupMembers)
    /\ returncode' = IF "main" \in GroupMembers THEN Killed ELSE returncode
    /\ UNCHANGED <<use, limit, written, pumps, timedOut, late, text, result, log>>

(* proc.wait() without a timeout. *)
Reap(from, label) ==
    /\ At(from, label)
    /\ process["main"] = "exited"
    /\ UNCHANGED <<use, limit, kernel, pumps, timedOut, late, text, result, log>>

PumpEnded(s) == pump[s] = "ended"

(* thread.join(timeout=5): until the thread ends, or for five seconds.     *)
Join(s, from, label) ==
    /\ At(from, label)
    /\ \/ PumpEnded(s) /\ UNCHANGED late
       \/ late' = late \cup {s}
    /\ UNCHANGED <<use, limit, kernel, pumps, timedOut, text, result, log>>

TakeText(s, from, label) ==
    /\ At(from, label)
    /\ text' = [text EXCEPT ![s] = Text(sink[s])]
    /\ UNCHANGED <<use, limit, kernel, pumps, timedOut, late, result, log>>

ExitCode == IF timedOut THEN NoExit ELSE returncode

MakeResult ==
    /\ At("result", "collect")
    /\ result' = CommandRun(ExitCode, timedOut)
    /\ UNCHANGED <<use, limit, kernel, pumps, timedOut, late, text, log>>

Outcome(run) == IF run.timedOut THEN <<"timed out", NoExit>> ELSE <<"exit code", run.exit>>

(* LogCollector.add_build or add_test, then build: render_run, truncated.  *)
RenderRun ==
    <<(<<"command", 0>>)>> \o text["stdout"] \o text["stderr"] \o <<Outcome(result)>>

Collect ==
    /\ At("collect", "ended")
    /\ log' = TruncateText(limit, RenderRun)
    /\ UNCHANGED <<use, limit, kernel, pumps, timedOut, late, text, result>>

RunProcess ==
    \/ Wait
    \/ KillGroup("kill", "reap")
    \/ Reap("reap", "join out")
    \/ Join("stdout", "join out", "join err") \/ Join("stderr", "join err", "take out")
    \/ TakeText("stdout", "take out", "take err") \/ TakeText("stderr", "take err", "result")
    \/ MakeResult
    \/ Collect

-----------------------------------------------------------------------------
(* _LocalBackground: logs() while it runs, and stop().                     *)
Logs == At("up", "logs out") /\ UNCHANGED <<use, limit, kernel, pumps, timedOut, late, text,
                                            result, log>>

Stop ==
    /\ pc = "up"
    /\ Goto(IF process["main"] = "running" THEN "terminate" ELSE "kill rest")
    /\ UNCHANGED <<use, limit, kernel, pumps, timedOut, late, text, result, log>>

(* SIGTERM to the group.  A process may ignore it or die of it.            *)
Terminate ==
    /\ At("terminate", "stopping")
    /\ \E dying \in SUBSET GroupMembers :
          /\ End(dying)
          /\ returncode' = IF "main" \in dying THEN Terminated ELSE returncode
    /\ UNCHANGED <<use, limit, written, pumps, timedOut, late, text, result, log>>

(* wait(timeout=3) returned: that is all; or it raised: SIGKILL, wait().   *)
Stopping ==
    /\ pc = "stopping"
    /\ \/ process["main"] = "exited" /\ Goto("ended")
       \/ Goto("kill app")
    /\ UNCHANGED <<use, limit, kernel, pumps, timedOut, late, text, result, log>>

Background ==
    \/ Logs \/ TakeText("stdout", "logs out", "logs err") \/ TakeText("stderr", "logs err", "up")
    \/ Stop
    \/ Terminate \/ Stopping
    \/ KillGroup("kill app", "reap app") \/ Reap("reap app", "ended")
    \/ KillGroup("kill rest", "ended")

World == \/ \E p \in Processes, s \in Streams : WriteByte(p, s)
         \/ \E p \in Processes, s \in Streams : CloseOutput(p, s)
         \/ \E p \in Processes, q \in {"child", "daemon"} : Fork(p, q)
         \/ \E p \in Processes : Exit(p)

Next == Spawn \/ RunProcess \/ Background \/ Pump \/ World

Spec == Init /\ [][Next]_vars

(* Threads are scheduled and waits run out.  Nothing makes a process exit, *)
(* and nobody is obliged to stop a background process.                     *)
FairSpec ==
    /\ Spec
    /\ WF_vars(Spawn \/ RunProcess \/ (Background /\ ~(Logs \/ Stop)))
    /\ \A s \in Streams : WF_vars(ReadChunk(s) \/ AppendChunk(s) \/ EndOfFile(s))

-----------------------------------------------------------------------------
TypeOK ==
    /\ use \in Uses /\ limit \in Limits
    /\ pc \in {"spawn", "wait", "kill", "reap", "join out", "join err", "take out", "take err",
               "result", "collect", "up", "logs out", "logs err", "terminate", "stopping",
               "kill app", "reap app", "kill rest", "ended"}
    /\ process \in [Processes -> {"none", "running", "exited"}]
    /\ returncode \in {NoExit, 0, 1, Killed, Terminated}
    /\ holders \in [Streams -> SUBSET Running]
    /\ written \in [Streams -> Nat] /\ inPipe \in [Streams -> Nat] /\ chunk \in [Streams -> Nat]
    /\ \A s \in Streams : written[s] <= MaxWritten[s] /\ Appended(s) >= 0
    /\ pump \in [Streams -> {"none", "reading", "ended"}]
    /\ DOMAIN sink = Streams /\ DOMAIN text = Streams
    /\ timedOut \in BOOLEAN /\ late \subseteq Streams
    /\ result \in CommandRuns \cup {NoRun}

(* What a buffer should hold of the first n bytes of a stream: the first   *)
(* HeadLimit, the last TailLimit, and the number of those in between.      *)
Bytes(s, from, to) == [i \in 1 .. (to - from + 1) |-> <<s, from + i - 1>>]

Kept(s, n) ==
    LET head == Least(n, HeadLimit(limit))
        tail == Least(n - head, TailLimit(limit))
    IN [head |-> Bytes(s, 1, head),
        tail |-> Bytes(s, n - tail + 1, n),
        dropped |-> n - head - tail]

(* However the chunks fall, a buffer holds exactly the head and the tail   *)
(* of what was appended, and counts what it dropped between them.          *)
BuffersKeepBothEnds == \A s \in Streams : sink[s] = Kept(s, Appended(s))

(* Of a stream whose pump did not have to be given up on, the result holds *)
(* everything that any process ever wrote, and nobody can write any more:  *)
(* the group was killed, stragglers of a normal exit included, and a       *)
(* daemon that may still run has let go of it.                             *)
OutputIsComplete ==
    use = "run" /\ pc \in {"result", "collect", "ended"} /\ process["main"] # "none" =>
        \A s \in Streams \ late :
            holders[s] = {} /\ text[s] = Text(Kept(s, written[s]))

(* run_process leaves no member of the group running, whichever way the    *)
(* command ended and whatever it forked.                                   *)
GroupIsGone ==
    use = "run" /\ pc \in {"reap", "join out", "join err", "take out", "take err", "result",
                           "collect", "ended"} =>
        Group \cap Running = {}

(* A result that is not a timeout bears the exit code the command exited   *)
(* with by itself, never that of the kill that follows.                    *)
ExitCodeIsItsOwn ==
    /\ result # NoRun /\ ~result.timedOut =>
          \/ result.exit \in {0, 1} /\ result.exit = returncode
          \/ process["main"] = "none" /\ result.status = "ERROR"
    /\ result # NoRun /\ result.timedOut => result.exit = NoExit /\ result.status = "TIMEOUT"

(* However long the output and however often it was cut, the log is within *)
(* its limit and still ends with how the command ended.                    *)
LogEndsWithOutcome ==
    log # <<>> /\ limit > 0 =>
        /\ log[Len(log)] = Outcome(result)
        /\ Len(log) <= limit + 1

(* The output in the result is what was written, and the result and its    *)
(* log tell how the command really ended, with nothing left behind.        *)
OutputIsTrue == BuffersKeepBothEnds /\ OutputIsComplete
OutcomeIsTrue == GroupIsGone /\ ExitCodeIsItsOwn /\ LogEndsWithOutcome

(* logs.py: LogCollector "applies the size limit": a section of the log is *)
(* no longer than its limit and the marker of the cut.  With a limit of 0  *)
(* the cut keeps everything (logs.py:29).                                  *)
LogWithinLimit == Len(log) <= limit + 1

(* stop() leaves no member of the application's group running.             *)
StopLeavesNothing == use = "background" /\ pc = "ended" => Group \cap Running = {}

-----------------------------------------------------------------------------
(* run_process returns: neither a daemon that holds the pipes nor a        *)
(* command that fills one of them while the other is read can stop it.     *)
RunReturns == use = "run" ~> pc = "ended"

(* No process is stuck for ever writing to a full pipe.                    *)
WritersNeverStuck == \A s \in Streams : (inPipe[s] = PipeSize) ~> (inPipe[s] < PipeSize)

(* Once no process holds a stream it is read to its end: a run that gave   *)
(* up on a pump leaves a thread behind, but not longer than its pipe.      *)
OutputEnds ==
    \A s \in Streams :
        (process["main"] # "none" /\ holders[s] = {}) ~> pump[s] = "ended"

(* Both together: output always moves on, to its end.                      *)
OutputMovesOn == WritersNeverStuck /\ OutputEnds
=============================================================================
