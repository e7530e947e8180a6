------------------------------ MODULE BuildLog ------------------------------
(***************************************************************************)
(* buildlog: the startup log of the docker command, on stderr and, if the  *)
(* control plane can be reached, there too.                                *)
(*                                                                         *)
(*   RunE       opens the log before anything is started, logs, closes the *)
(*              log when it returns                                        *)
(*   others     the goroutines RunE leaves behind; they share the log and  *)
(*              go on using it after it was closed                         *)
(*   SendLoop   of an agentClientV2: uploads what is queued, once          *)
(*                                                                         *)
(* A line is the caller and its number; its text, level and time, and the  *)
(* pieces cutString makes of it, are left out.  A line goes to the control *)
(* plane first, then to stderr (RunE's MultiLogger).                       *)
(***************************************************************************)
EXTENDS Integers, Sequences, FiniteSets

CONSTANTS Callers,   \* the goroutines that log
          RunE,      \* the one that opens and closes the log
          MaxLines   \* how many lines a caller logs

ASSUME BuildLogAssumption ==
    IsFiniteSet(Callers) /\ RunE \in Callers /\ MaxLines \in Nat \ {0}

VARIABLES
    client,     \* opening, none, v1 or v2
    pc,         \* where each caller is in a call of the log
    count,      \* the lines each caller has logged
    returning,  \* no, failed or ok: RunE runs its deferred calls
    closed,     \* the context of the agentClientV2 is cancelled
    ctxDone,    \* RunE's context is cancelled
    queue,      \* what the LogSender has not uploaded
    loop,       \* its SendLoop: off, idle, uploading or stopped
    batch,      \* what it is uploading
    limit,      \* the control plane takes no more logs
    broken,     \* an upload has failed
    pushed,     \* the lines the control plane has
    stderr,     \* the lines on stderr
    refused,    \* history: the lines Send returned an error for, not queued
    program     \* running or ended

callVars == <<pc, count, returning>>
ctxVars  == <<closed, ctxDone>>
loopVars == <<loop, batch, limit, broken>>
blogVars == <<client, callVars, ctxVars, queue, loopVars, pushed, stderr, refused, program>>

Lines   == Callers \X (1..MaxLines)
Line(c) == <<c, count[c]>>

BlogInit ==
    /\ client = "opening"
    /\ pc = [c \in Callers |-> "idle"] /\ count = [c \in Callers |-> 0]
    /\ returning = "no"
    /\ closed = FALSE /\ ctxDone = FALSE
    /\ queue = <<>> /\ loop = "off" /\ batch = <<>>
    /\ limit = FALSE /\ broken = FALSE
    /\ pushed = {} /\ stderr = {} /\ refused = {}
    /\ program = "running"

Goto(c, p) == pc' = [pc EXCEPT ![c] = p]

\* log.Fatal, a panic, or an error that main.go turns into os.Exit(1).
End == /\ program' = "ended"
       /\ UNCHANGED <<client, callVars, ctxVars, queue, loopVars, pushed, stderr, refused>>

-----------------------------------------------------------------------------
(* OpenCoderClient.                                                        *)

\* No token or no URL, or no answer to BuildInfo: stderr is the whole log.  A
\* URL that does not parse ends RunE.
OpenNone ==
    /\ client = "opening"
    /\ client' = "none"
    /\ UNCHANGED <<callVars, ctxVars, queue, loopVars, pushed, stderr, refused, program>>

OpenBadURL == client = "opening" /\ End

\* Mutant of OpenV1: an old server gets a LogSender as well.
OpenV1FallsThrough ==
    /\ client = "opening"
    /\ client' = "v1" /\ loop' = "idle"
    /\ UNCHANGED <<callVars, ctxVars, queue, batch, limit, broken, pushed, stderr, refused, program>>

OpenV1 ==
    /\ client = "opening"
    /\ client' = "v1"
    /\ UNCHANGED <<callVars, ctxVars, queue, loopVars, pushed, stderr, refused, program>>

\* Mutant of OpenV2: nobody runs SendLoop.
OpenV2NoLoop ==
    /\ client = "opening"
    /\ client' = "v2"
    /\ UNCHANGED <<callVars, ctxVars, queue, loopVars, pushed, stderr, refused, program>>

\* ConnectRPC is retried until it succeeds; then the SendLoop is started.
OpenV2 ==
    /\ client = "opening"
    /\ client' = "v2" /\ loop' = "idle"
    /\ UNCHANGED <<callVars, ctxVars, queue, batch, limit, broken, pushed, stderr, refused, program>>

-----------------------------------------------------------------------------
(* Info, Error and Write of the MultiLogger.                               *)

Call(c) ==
    /\ pc[c] = "idle" /\ count[c] < MaxLines
    /\ count' = [count EXCEPT ![c] = @ + 1]
    /\ Goto(c, CASE client = "v2" -> "send" [] client = "v1" -> "patch" [] OTHER -> "json")
    /\ UNCHANGED <<client, ctxVars, queue, loopVars, pushed, stderr, refused, program>>

\* RunE logs while it runs, the others for as long as they live.
Log(c) ==
    /\ client # "opening"
    /\ c = RunE => returning = "no"
    /\ Call(c) /\ UNCHANGED returning

\* agentClientV1.Send: one request.  Its error is logged elsewhere and dropped.
Patch(c) ==
    /\ pc[c] = "patch"
    /\ \/ pushed' = pushed \cup {Line(c)}
       \/ UNCHANGED pushed
    /\ Goto(c, "json")
    /\ UNCHANGED <<client, count, returning, ctxVars, queue, loopVars, stderr, refused, program>>

\* The context of the client, a child of RunE's.
ClientDone == closed \/ ctxDone

\* agentClientV2.Send: ScriptLogger.Send refuses a line when the context is done, and
\* its error, like any of Send's, is logged elsewhere and dropped ...
TestContext(c) ==
    /\ pc[c] = "send"
    /\ \/ /\ ClientDone
          /\ refused' = refused \cup {Line(c)}
          /\ Goto(c, "json")
       \/ /\ ~ClientDone
          /\ Goto(c, "enqueue") /\ UNCHANGED refused
    /\ UNCHANGED <<client, count, returning, ctxVars, queue, loopVars, pushed, stderr, program>>

\* ... and queues it otherwise, the context being done by now or not.
Enqueue(c) ==
    /\ pc[c] = "enqueue"
    /\ queue' = IF limit THEN queue ELSE Append(queue, Line(c))
    /\ Goto(c, "wait")
    /\ UNCHANGED <<client, count, returning, ctxVars, loopVars, pushed, stderr, refused, program>>

\* ... and flush: all that is queued, whoever queued it, or the end of the context.
\* SendLoop would upload without the call of Flush too, only later.
Flushed == queue = <<>> \/ ClientDone

\* Mutant of WaitUntilEmpty: Send returns without a flush.
SendNoFlush(c) ==
    /\ pc[c] = "wait"
    /\ Goto(c, "json")
    /\ UNCHANGED <<client, count, returning, ctxVars, queue, loopVars, pushed, stderr, refused, program>>

WaitUntilEmpty(c) ==
    /\ pc[c] = "wait" /\ Flushed
    /\ Goto(c, "json")
    /\ UNCHANGED <<client, count, returning, ctxVars, queue, loopVars, pushed, stderr, refused, program>>

\* JSONLogger.log panics if stderr does.
WriteStderr(c) ==
    /\ pc[c] = "json"
    /\ \/ /\ stderr' = stderr \cup {Line(c)}
          /\ Goto(c, "idle")
          /\ UNCHANGED <<client, count, returning, ctxVars, queue, loopVars, pushed, refused, program>>
       \/ End

-----------------------------------------------------------------------------
(* The end of RunE, and of the program.                                    *)

\* The deferred function logs the error ...
Fail ==
    /\ client # "opening" /\ returning = "no"
    /\ Call(RunE) /\ returning' = "failed"

\* ... or RunE has started the goroutine that will cancel its context.
Finish ==
    /\ client # "opening" /\ returning = "no" /\ pc[RunE] = "idle"
    /\ returning' = "ok"
    /\ UNCHANGED <<client, pc, count, ctxVars, queue, loopVars, pushed, stderr, refused, program>>

\* Mutant of CloseClient: Close is called where it should be deferred.
CloseNotDeferred ==
    /\ client = "v2" /\ ~closed /\ Flushed
    /\ closed' = TRUE
    /\ UNCHANGED <<client, callVars, ctxDone, queue, loopVars, pushed, stderr, refused, program>>

\* blog.Close is deferred: agentClientV2.Close flushes, then cancels ...
CloseClient ==
    /\ returning # "no" /\ pc[RunE] = "idle"
    /\ client = "v2" => Flushed
    /\ closed' = (client = "v2")
    /\ Goto(RunE, "done")
    /\ UNCHANGED <<client, count, returning, ctxDone, queue, loopVars, pushed, stderr, refused, program>>

\* ... and JSONLogger.Close writes the line that says so.  An error of either is
\* dropped; a RunE that failed then ends the program.
CloseJSON ==
    /\ pc[RunE] = "done"
    /\ \/ /\ returning = "ok" /\ Goto(RunE, "returned")
          /\ UNCHANGED <<client, count, returning, ctxVars, queue, loopVars, pushed, stderr, refused, program>>
       \/ End

\* The shutdown goroutine cancels, with nothing logged, when a signal was handled.
Cancel ==
    /\ returning = "ok" /\ ~ctxDone
    /\ ctxDone' = TRUE
    /\ UNCHANGED <<client, callVars, closed, queue, loopVars, pushed, stderr, refused, program>>

\* The watchers and the sysbox goroutine log, then end the program.
Fatal(c) == c # RunE /\ pc[c] = "idle" /\ count[c] > 0 /\ End

-----------------------------------------------------------------------------
(* SendLoop.                                                               *)

\* The queue as it is now, or what fits a request.
TakeBatch(n) ==
    /\ loop = "idle" /\ ~ctxDone
    /\ n \in 1..Len(queue)
    /\ batch' = SubSeq(queue, 1, n)
    /\ loop' = "uploading"
    /\ UNCHANGED <<client, callVars, ctxVars, queue, limit, broken, pushed, stderr, refused, program>>

BatchLines == {batch[i] : i \in DOMAIN batch}

\* The batch leaves the queue once it was taken; lines queued since stay.
Uploaded ==
    /\ loop = "uploading"
    /\ pushed' = pushed \cup BatchLines
    /\ queue' = SubSeq(queue, Len(batch) + 1, Len(queue))
    /\ batch' = <<>> /\ loop' = "idle"
    /\ UNCHANGED <<client, callVars, ctxVars, limit, broken, stderr, refused, program>>

\* The first error ends the loop, whether the lines arrived or not, and
\* newAgentClientV2 starts no other.
UploadFails ==
    /\ loop = "uploading"
    /\ loop' = "stopped" /\ broken' = TRUE /\ batch' = <<>>
    /\ \/ pushed' = pushed \cup BatchLines
       \/ UNCHANGED pushed
    /\ UNCHANGED <<client, callVars, ctxVars, queue, limit, stderr, refused, program>>

LimitExceeded ==
    /\ loop = "uploading"
    /\ loop' = "stopped" /\ limit' = TRUE /\ batch' = <<>>
    /\ queue' = <<>>
    /\ UNCHANGED <<client, callVars, ctxVars, broken, pushed, stderr, refused, program>>

\* Mutant of LoopStops: SendLoop runs on the context that Close cancels.
LoopStopsOnClose ==
    /\ loop = "idle" /\ ClientDone
    /\ loop' = "stopped"
    /\ UNCHANGED <<client, callVars, ctxVars, queue, batch, limit, broken, pushed, stderr, refused, program>>

\* SendLoop runs on RunE's context, not on the client's.
LoopStops ==
    /\ loop = "idle" /\ ctxDone
    /\ loop' = "stopped"
    /\ UNCHANGED <<client, callVars, ctxVars, queue, batch, limit, broken, pushed, stderr, refused, program>>

-----------------------------------------------------------------------------

Open     == OpenNone \/ OpenBadURL \/ OpenV1 \/ OpenV2
Send(c)  == TestContext(c) \/ Enqueue(c) \/ WaitUntilEmpty(c)
Take     == \E n \in 1..Len(queue) : TakeBatch(n)
SendLoop == Take \/ Uploaded \/ UploadFails \/ LimitExceeded \/ LoopStops
Return   == Fail \/ Finish \/ CloseClient \/ CloseJSON

BlogNext ==
    /\ program = "running"
    /\ \/ Open \/ SendLoop \/ Return \/ Cancel
       \/ \E c \in Callers :
              Log(c) \/ Patch(c) \/ Send(c) \/ WriteStderr(c) \/ Fatal(c)

BlogSpec == BlogInit /\ [][BlogNext]_blogVars

\* The steps of Send and the SendLoop's turn are code that runs on.  How long a
\* request takes, when a line is logged and when RunE gets on are not assumed.
Running(A) == program = "running" /\ A
BlogLiveSpec ==
    /\ BlogSpec
    /\ \A c \in Callers : WF_blogVars(Running(Send(c)))
    /\ WF_blogVars(Running(Take))

-----------------------------------------------------------------------------
(* Properties.                                                             *)

\* Types, and what belongs to which client: only an agentClientV2 has a LogSender,
\* whose queue is dropped for good once the control plane takes no more.
TypeOK ==
    /\ client \in {"opening", "none", "v1", "v2"}
    /\ pc \in [Callers -> {"idle", "send", "enqueue", "wait", "patch", "json", "done", "returned"}]
    /\ count \in [Callers -> 0..MaxLines]
    /\ returning \in {"no", "failed", "ok"}
    /\ closed \in BOOLEAN /\ ctxDone \in BOOLEAN
    /\ queue \in Seq(Lines) /\ batch \in Seq(Lines)
    /\ loop \in {"off", "idle", "uploading", "stopped"}
    /\ limit \in BOOLEAN /\ broken \in BOOLEAN
    /\ pushed \subseteq Lines /\ stderr \subseteq Lines /\ refused \subseteq Lines
    /\ program \in {"running", "ended"}
    /\ loop = "off" <=> client # "v2"
    /\ limit => queue = <<>>

\* A line on stderr was taken by the control plane before, as long as the log is
\* open and the control plane takes lines: Send's wait for an empty queue covers
\* its own line, whoever uploads meanwhile.
StderrFollowsPush ==
    client = "v2" /\ ~limit /\ ~ClientDone => stderr \subseteq pushed

\* While the log is open, no more than one line of each caller is in memory,
\* however slow the control plane is (coder.go:24-25 wants a bound).
QueueStaysShort ==
    ~ClientDone => Len(queue) <= Cardinality(Callers)

\* Only a SendLoop that has ended or waits for an answer holds up a caller, and
\* none once the log is closed.
SendReturns ==
    \/ <>[](loop \in {"uploading", "stopped"} /\ ~ClientDone)
    \/ \A c \in Callers : pc[c] = "wait" ~> pc[c] # "wait" \/ program = "ended"

InQueue(l) == \E i \in 1..Len(queue) : queue[i] = l

\* A line on stderr is at the control plane or in the queue, or Send refused it: lines
\* logged after RunE has closed the log, like the output of the bootstrap script, but
\* none of RunE's, whose error is logged by a deferred call that runs before Close.
LinesKept ==
    /\ client = "v2" /\ ~limit =>
          \A l \in stderr : l \in pushed \/ InQueue(l) \/ l \in refused
    /\ \A l \in refused : ClientDone /\ l[1] # RunE

\* A line that was queued is uploaded, although RunE has closed the log since and
\* nobody waits for it, unless an upload fails, RunE's context or the program ends.
QueuedLinesPushed ==
    \/ <>[](loop = "uploading")
    \/ \A l \in Lines :
           InQueue(l) ~> (l \in pushed \/ broken \/ limit \/ ctxDone \/ program = "ended")
=============================================================================
