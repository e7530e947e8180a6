--------------------------- MODULE BuildLogProofs ---------------------------
(***************************************************************************)
(* Proofs about the build log for any goroutines and any number of lines:  *)
(* stderr is not ahead of the control plane, and no caller has two lines   *)
(* in memory, as long as the log is open; closed or not, no line that Send *)
(* accepted is lost unless the control plane takes no more, and none is    *)
(* uploaded before an earlier one of the same caller.                      *)
(***************************************************************************)
EXTENDS BuildLog, FiniteSetTheorems, TLAPS

\* A caller has logged a line when it is in a call, nobody logs before the log is
\* open, and only an agentClientV2 has a context to cancel.
CallInv ==
    /\ \A c \in Callers : pc[c] \in {"send", "enqueue", "wait", "patch", "json"} => count[c] > 0
    /\ \A c \in Callers : client = "opening" => count[c] = 0
    /\ closed => client = "v2"

\* What the loop uploads is the front of the queue.
BatchInv ==
    loop = "uploading" =>
        /\ Len(batch) <= Len(queue)
        /\ \A i \in 1..Len(batch) : batch[i] = queue[i]

\* Whose lines are queued waits for them, with one line.
QueueInv ==
    ~ClientDone =>
        /\ \A i \in 1..Len(queue) : pc[queue[i][1]] = "wait"
        /\ \A i, j \in 1..Len(queue) : queue[i][1] = queue[j][1] => i = j

\* Every line is at the control plane, or the last of a caller still in Send.
PushInv ==
    client = "v2" /\ ~limit /\ ~ClientDone =>
        \A c \in Callers, k \in 1..MaxLines :
            k <= count[c] =>
                \/ <<c, k>> \in pushed
                \/ k = count[c] /\ pc[c] \in {"send", "enqueue"}
                \/ k = count[c] /\ pc[c] = "wait" /\ InQueue(<<c, k>>)

\* A caller writes a line to stderr at the end of its call.
StderrInv ==
    \A c \in Callers, k \in 1..MaxLines :
        <<c, k>> \in stderr =>
            /\ k <= count[c]
            /\ k = count[c] => pc[c] \in {"idle", "done", "returned"}

\* Lines are refused once the log is closed, and then no caller gets as far as queueing
\* any more but those that were told to before.  RunE does not log any more by then.
RefuseInv ==
    /\ \A c \in Callers, k \in 1..MaxLines :
          <<c, k>> \in refused => ClientDone /\ c # RunE /\ pc[c] # "enqueue"
    /\ closed => pc[RunE] \in {"done", "returned"}
    /\ ctxDone => returning = "ok"
    /\ returning = "ok" => pc[RunE] \in {"idle", "done", "returned"}

IInv == TypeOK /\ CallInv /\ BatchInv /\ QueueInv /\ PushInv /\ StderrInv /\ RefuseInv

-----------------------------------------------------------------------------

\* The initial state: nothing logged, nothing queued.
LEMMA InitIInv == BlogInit => IInv
<1> SUFFICES ASSUME BlogInit PROVE IInv
    OBVIOUS
<1> USE BuildLogAssumption DEF BuildLogAssumption, BlogInit
<1>1. queue \in Seq(Lines) /\ batch \in Seq(Lines) /\ Len(queue) = 0
      OBVIOUS
<1>2. TypeOK
  <2>1. /\ pc \in [Callers -> {"idle", "send", "enqueue", "wait", "patch", "json", "done", "returned"}]
        /\ count \in [Callers -> 0..MaxLines]
        OBVIOUS
  <2>2. closed \in BOOLEAN /\ ctxDone \in BOOLEAN /\ limit \in BOOLEAN /\ broken \in BOOLEAN
        OBVIOUS
  <2> QED BY <1>1, <2>1, <2>2 DEF TypeOK
<1>3. CallInv /\ BatchInv /\ StderrInv /\ RefuseInv
      BY DEF CallInv, BatchInv, StderrInv, RefuseInv
<1>4. QueueInv /\ PushInv
      BY <1>1 DEF QueueInv, PushInv
<1> QED BY <1>2, <1>3, <1>4 DEF IInv

\* The last line of a caller in a call is a line.
LEMMA LineOfCall ==
    ASSUME TypeOK, CallInv, NEW c \in Callers, pc[c] \in {"send", "enqueue", "wait", "patch", "json"}
    PROVE  Line(c) \in Lines
BY BuildLogAssumption DEF BuildLogAssumption, TypeOK, CallInv, Line, Lines

\* What is left of the queue when the front of it was taken away.
LEMMA RestOfQueue ==
    ASSUME NEW s \in Seq(Lines), NEW n \in 0..Len(s)
    PROVE  LET t == SubSeq(s, n + 1, Len(s))
           IN  /\ t \in Seq(Lines)
               /\ Len(t) = Len(s) - n
               /\ \A i \in 1..Len(t) : i + n \in 1..Len(s) /\ t[i] = s[i + n]
OBVIOUS

-----------------------------------------------------------------------------
(* Each part of the invariant is preserved.                                *)

LEMMA NextTypeOK == IInv /\ [BlogNext]_blogVars => TypeOK'
<1> SUFFICES ASSUME IInv, [BlogNext]_blogVars PROVE TypeOK'
    OBVIOUS
<1>0. TypeOK /\ CallInv /\ BatchInv
      BY DEF IInv
<1> USE BuildLogAssumption, <1>0 DEF BuildLogAssumption, callVars, ctxVars, loopVars, Goto, End
<1>1. CASE UNCHANGED blogVars
      BY <1>1 DEF TypeOK, blogVars
<1>2. CASE Open
      BY <1>2 DEF Open, OpenNone, OpenBadURL, OpenV1, OpenV2, TypeOK
<1>3. ASSUME NEW n \in 1..Len(queue), TakeBatch(n) PROVE TypeOK'
  <2>1. batch' \in Seq(Lines)
        BY <1>3 DEF TakeBatch, TypeOK
  <2> QED BY <2>1, <1>3 DEF TakeBatch, TypeOK
<1>4. CASE Uploaded
  <2>1. pushed' \subseteq Lines
        BY <1>4 DEF Uploaded, BatchLines, TypeOK
  <2>2. Len(batch) \in 0..Len(queue)
        BY <1>4 DEF Uploaded, BatchInv, TypeOK
  <2>3. queue' \in Seq(Lines) /\ limit' = limit /\ (queue = <<>> => queue' = <<>>)
        BY <1>4, <2>2, RestOfQueue DEF Uploaded, TypeOK
  <2> QED BY <2>1, <2>3, <1>4 DEF Uploaded, TypeOK
<1>5. CASE UploadFails
  <2>1. pushed' \subseteq Lines
        BY <1>5 DEF UploadFails, BatchLines, TypeOK
  <2> QED BY <2>1, <1>5 DEF UploadFails, TypeOK
<1>6. CASE LimitExceeded \/ LoopStops
  <2>1. CASE LimitExceeded
    <3>1. queue' \in Seq(Lines) /\ batch' \in Seq(Lines) /\ queue' = <<>>
          BY <2>1 DEF LimitExceeded
    <3> QED BY <2>1, <3>1 DEF LimitExceeded, TypeOK
  <2>2. CASE LoopStops
        BY <2>2 DEF LoopStops, TypeOK
  <2> QED BY <1>6, <2>1, <2>2
<1>7. CASE Finish \/ CloseClient \/ CloseJSON \/ Cancel
  <2>1. CASE CloseClient
    <3>1. closed' \in BOOLEAN
          BY <2>1 DEF CloseClient
    <3>2. pc' \in [Callers -> {"idle", "send", "enqueue", "wait", "patch", "json", "done", "returned"}]
          BY <2>1 DEF CloseClient, TypeOK
    <3> QED BY <2>1, <3>1, <3>2 DEF CloseClient, TypeOK
  <2>2. CASE CloseJSON
        BY <2>2 DEF CloseJSON, TypeOK
  <2>3. CASE Finish
        BY <2>3 DEF Finish, TypeOK
  <2>4. CASE Cancel
    <3>1. ctxDone' \in BOOLEAN
          BY <2>4 DEF Cancel
    <3> QED BY <2>4, <3>1 DEF Cancel, TypeOK
  <2> QED BY <1>7, <2>1, <2>2, <2>3, <2>4
<1>8. ASSUME NEW c \in Callers, Call(c), returning' \in {"no", "failed", "ok"} PROVE TypeOK'
  <2>1. count' \in [Callers -> 0..MaxLines]
        BY <1>8 DEF Call, TypeOK
  <2>2. pc' \in [Callers -> {"idle", "send", "enqueue", "wait", "patch", "json", "done", "returned"}]
        BY <1>8 DEF Call, TypeOK
  <2> QED BY <2>1, <2>2, <1>8 DEF Call, TypeOK
<1>9. ASSUME NEW c \in Callers, Patch(c) \/ TestContext(c) \/ Enqueue(c) \/ WaitUntilEmpty(c) \/ WriteStderr(c)
      PROVE  TypeOK'
  <2>1. Line(c) \in Lines
        BY <1>9, LineOfCall DEF Patch, TestContext, Enqueue, WaitUntilEmpty, WriteStderr, TypeOK
  <2>2. CASE Patch(c)
        BY <2>1, <2>2 DEF Patch, TypeOK
  <2>3. CASE Enqueue(c)
        BY <2>1, <2>3 DEF Enqueue, TypeOK
  <2>4. CASE WaitUntilEmpty(c)
        BY <2>4 DEF WaitUntilEmpty, TypeOK
  <2>5. CASE WriteStderr(c)
        BY <2>1, <2>5 DEF WriteStderr, TypeOK
  <2>6. CASE TestContext(c)
        BY <2>1, <2>6 DEF TestContext, TypeOK
  <2> QED BY <1>9, <2>2, <2>3, <2>4, <2>5, <2>6
<1>10. ASSUME NEW c \in Callers, Fatal(c) PROVE TypeOK'
       BY <1>10 DEF Fatal, TypeOK
<1>11. CASE Fail
       BY <1>8, <1>11 DEF Fail
<1>12. ASSUME NEW c \in Callers, Log(c) PROVE TypeOK'
       BY <1>8, <1>12 DEF Log, TypeOK
<1> QED BY <1>1, <1>2, <1>3, <1>4, <1>5, <1>6, <1>7, <1>9, <1>10, <1>11, <1>12
        DEF BlogNext, SendLoop, Take, Return, Send

LEMMA NextCallInv == IInv /\ [BlogNext]_blogVars => CallInv'
<1> SUFFICES ASSUME IInv, [BlogNext]_blogVars PROVE CallInv'
    OBVIOUS
<1>0. TypeOK /\ CallInv
      BY DEF IInv
<1> USE BuildLogAssumption, <1>0 DEF BuildLogAssumption, callVars, ctxVars, loopVars, Goto, End, TypeOK, CallInv
<1>1. CASE UNCHANGED blogVars \/ Open
      BY <1>1 DEF blogVars, Open, OpenNone, OpenBadURL, OpenV1, OpenV2
<1>2. CASE SendLoop
      BY <1>2 DEF SendLoop, Take, TakeBatch, Uploaded, UploadFails, LimitExceeded, LoopStops
<1>3. CASE Finish \/ CloseClient \/ CloseJSON \/ Cancel
      BY <1>3 DEF Finish, CloseClient, CloseJSON, Cancel
<1>4. ASSUME NEW c \in Callers, Call(c), client # "opening" PROVE CallInv'
      BY <1>4 DEF Call
<1>5. ASSUME NEW c \in Callers, Patch(c) \/ Send(c) \/ WriteStderr(c) \/ Fatal(c) PROVE CallInv'
      BY <1>5 DEF Patch, Send, TestContext, Enqueue, WaitUntilEmpty, WriteStderr, Fatal
<1> QED BY <1>1, <1>2, <1>3, <1>4, <1>5 DEF BlogNext, Return, Fail, Log

LEMMA NextBatchInv == IInv /\ [BlogNext]_blogVars => BatchInv'
<1> SUFFICES ASSUME IInv, [BlogNext]_blogVars PROVE BatchInv'
    OBVIOUS
<1>0. TypeOK /\ BatchInv
      BY DEF IInv
<1> USE <1>0 DEF callVars, ctxVars, loopVars, Goto, End, TypeOK, BatchInv
<1>1. CASE UNCHANGED <<queue, loop, batch>>
      BY <1>1
<1>2. ASSUME NEW n \in 1..Len(queue), TakeBatch(n) PROVE BatchInv'
      BY <1>2 DEF TakeBatch
<1>3. CASE loop' # "uploading"
      BY <1>3
<1>4. ASSUME NEW c \in Callers, Enqueue(c) PROVE BatchInv'
  <2>1. CASE limit
        BY <1>4, <2>1 DEF Enqueue
  <2>2. CASE ~limit
    <3>1. queue' = Append(queue, Line(c)) /\ UNCHANGED <<loop, batch>>
          BY <1>4, <2>2 DEF Enqueue
    <3>2. Len(queue') = Len(queue) + 1 /\ \A i \in 1..Len(queue) : queue'[i] = queue[i]
          BY <3>1
    <3> QED BY <3>1, <3>2
  <2> QED BY <2>1, <2>2
<1>5. CASE UNCHANGED blogVars \/ Open
      BY <1>1, <1>3, <1>5 DEF blogVars, Open, OpenNone, OpenBadURL, OpenV1, OpenV2
<1>6. CASE Uploaded \/ UploadFails \/ LimitExceeded \/ LoopStops
      BY <1>3, <1>6 DEF Uploaded, UploadFails, LimitExceeded, LoopStops
<1>7. CASE Return \/ Cancel
      BY <1>1, <1>7 DEF Return, Fail, Call, Finish, CloseClient, CloseJSON, Cancel
<1>8. ASSUME NEW c \in Callers, Log(c) \/ Patch(c) \/ Send(c) \/ WriteStderr(c) \/ Fatal(c)
      PROVE  BatchInv'
      BY <1>1, <1>4, <1>8 DEF Log, Call, Patch, Send, TestContext, WaitUntilEmpty, WriteStderr, Fatal
<1> QED BY <1>2, <1>5, <1>6, <1>7, <1>8 DEF BlogNext, SendLoop, Take

\* The context of the client is not revived.
LEMMA ClientDoneStays == IInv /\ [BlogNext]_blogVars /\ ~ClientDone' => ~ClientDone
<1> SUFFICES ASSUME IInv, [BlogNext]_blogVars PROVE ClientDone => ClientDone'
    OBVIOUS
<1>0. TypeOK /\ CallInv
      BY DEF IInv
<1>1. CASE UNCHANGED <<closed, ctxDone>>
      BY <1>1 DEF ClientDone
<1>2. CASE CloseClient
      BY <1>0, <1>2 DEF CloseClient, CallInv, TypeOK, ClientDone
<1>3. CASE Cancel
      BY <1>3 DEF Cancel, ClientDone
<1>4. CASE Open \/ SendLoop \/ Fail \/ Finish \/ CloseJSON
      BY <1>1, <1>4 DEF Open, OpenNone, OpenBadURL, OpenV1, OpenV2, SendLoop, Take, TakeBatch, Uploaded,
         UploadFails, LimitExceeded, LoopStops, Fail, Call, Finish, CloseJSON, End, ctxVars
<1>5. ASSUME NEW c \in Callers, Log(c) \/ Patch(c) \/ Send(c) \/ WriteStderr(c) \/ Fatal(c)
      PROVE  UNCHANGED <<closed, ctxDone>>
      BY <1>5 DEF Log, Call, Patch, Send, TestContext, Enqueue, WaitUntilEmpty, WriteStderr, Fatal, End, ctxVars
<1>6. CASE UNCHANGED blogVars
      BY <1>1, <1>6 DEF blogVars, ctxVars
<1> QED BY <1>1, <1>2, <1>3, <1>4, <1>5, <1>6 DEF BlogNext, Return

\* A caller that is not waiting has nothing in the queue and may move on.
LEMMA OthersWait ==
    ASSUME TypeOK, QueueInv, ~ClientDone, NEW c \in Callers, NEW p, pc[c] # "wait",
           pc' = [pc EXCEPT ![c] = p], queue' = queue
    PROVE  QueueInv'
<1>1. \A i \in 1..Len(queue) : queue[i][1] \in Callers /\ queue[i][1] # c
      BY DEF TypeOK, QueueInv, Lines
<1> QED BY <1>1 DEF TypeOK, QueueInv

LEMMA NextQueueInv == IInv /\ [BlogNext]_blogVars => QueueInv'
<1> SUFFICES ASSUME IInv, [BlogNext]_blogVars, ~ClientDone' PROVE QueueInv'
    BY DEF QueueInv
<1>0. TypeOK /\ CallInv /\ BatchInv /\ QueueInv /\ ~ClientDone
      BY ClientDoneStays DEF IInv
<1> USE BuildLogAssumption, <1>0 DEF BuildLogAssumption, callVars, ctxVars, loopVars, Goto, End
<1>1. CASE UNCHANGED <<pc, queue>>
      BY <1>1 DEF QueueInv
<1>2. CASE queue' = <<>>
      BY <1>2 DEF QueueInv
<1>3. CASE Uploaded
  <2>1. Len(batch) \in 0..Len(queue)
        BY <1>3 DEF Uploaded, BatchInv, TypeOK
  <2>2. /\ queue' \in Seq(Lines)
        /\ Len(queue') = Len(queue) - Len(batch)
        /\ \A i \in 1..Len(queue') : /\ i + Len(batch) \in 1..Len(queue)
                                      /\ queue'[i] = queue[i + Len(batch)]
        BY <1>3, <2>1, RestOfQueue DEF Uploaded, TypeOK
  <2>3. \A i \in 1..Len(queue') : pc[queue'[i][1]] = "wait"
        BY <2>2 DEF QueueInv
  <2>4. ASSUME NEW i \in 1..Len(queue'), NEW j \in 1..Len(queue'), queue'[i][1] = queue'[j][1]
        PROVE  i = j
    <3> DEFINE a == i + Len(batch)
               b == j + Len(batch)
    <3>0. /\ a \in 1..Len(queue) /\ b \in 1..Len(queue)
          /\ queue[a][1] = queue[b][1]
          BY <2>2, <2>4
    <3>1. a = b
      <4> HIDE DEF a, b
      <4> QED BY <3>0 DEF QueueInv
    <3>2. Len(batch) \in Nat /\ i \in Int /\ j \in Int
          BY <2>1, <2>2 DEF TypeOK
    <3> QED BY <3>1, <3>2
  <2> QED BY <1>3, <2>3, <2>4 DEF Uploaded, QueueInv
<1>4. ASSUME NEW c \in Callers, Call(c) PROVE QueueInv'
      BY <1>4, OthersWait DEF Call
<1>5. ASSUME NEW c \in Callers, Patch(c) \/ TestContext(c) \/ WriteStderr(c) PROVE QueueInv'
      BY <1>1, <1>5, OthersWait DEF Patch, TestContext, WriteStderr
<1>6. ASSUME NEW c \in Callers, WaitUntilEmpty(c) PROVE QueueInv'
      BY <1>2, <1>6 DEF WaitUntilEmpty, Flushed
<1>7. ASSUME NEW c \in Callers, Enqueue(c) PROVE QueueInv'
  <2>1. CASE limit
        BY <1>7, <2>1, OthersWait DEF Enqueue
  <2>2. CASE ~limit
    <3>1. queue' = Append(queue, Line(c)) /\ Line(c)[1] = c /\ pc[c] = "enqueue"
          BY <1>7, <2>2 DEF Enqueue, Line
    <3>2. /\ Len(queue') = Len(queue) + 1
          /\ \A i \in 1..Len(queue) : queue'[i] = queue[i]
          /\ queue'[Len(queue) + 1] = Line(c)
          BY <3>1 DEF TypeOK
    <3>3. \A i \in 1..Len(queue) : queue[i][1] \in Callers /\ queue[i][1] # c
          BY <3>1 DEF TypeOK, QueueInv, Lines
    <3>4. pc' = [pc EXCEPT ![c] = "wait"]
          BY <1>7 DEF Enqueue
    <3>5. \A i \in 1..Len(queue') : pc'[queue'[i][1]] = "wait"
          BY <3>1, <3>2, <3>3, <3>4 DEF TypeOK, QueueInv
    <3>6. \A i, j \in 1..Len(queue') : queue'[i][1] = queue'[j][1] => i = j
          BY <3>1, <3>2, <3>3 DEF TypeOK, QueueInv
    <3> QED BY <3>5, <3>6 DEF QueueInv
  <2> QED BY <2>1, <2>2
<1>8. CASE Finish \/ CloseClient \/ CloseJSON \/ Cancel
      BY <1>1, <1>8, OthersWait DEF Finish, CloseClient, CloseJSON, Cancel
<1>9. CASE UNCHANGED blogVars \/ Open
      BY <1>1, <1>9 DEF blogVars, Open, OpenNone, OpenBadURL, OpenV1, OpenV2
<1>10. CASE Take \/ UploadFails \/ LimitExceeded \/ LoopStops
       BY <1>1, <1>2, <1>10 DEF Take, TakeBatch, UploadFails, LimitExceeded, LoopStops
<1>11. ASSUME NEW c \in Callers, Fatal(c) PROVE QueueInv'
       BY <1>1, <1>11 DEF Fatal
<1> QED BY <1>3, <1>4, <1>5, <1>6, <1>7, <1>8, <1>9, <1>10, <1>11
        DEF BlogNext, SendLoop, Return, Fail, Log, Send

\* As long as nothing leaves the queue or is forgotten, a caller that is not in
\* Send, and does not enter it with a new line, keeps PushInv.
LEMMA PushStays ==
    ASSUME TypeOK, PushInv, client' = client, client = "v2", ~limit, ~ClientDone,
           count' = count, queue' = queue, pushed \subseteq pushed',
           \A c \in Callers : pc[c] \in {"send", "enqueue", "wait"} => pc'[c] = pc[c]
    PROVE  PushInv'
BY DEF PushInv, InQueue

LEMMA NextPushInv == IInv /\ [BlogNext]_blogVars => PushInv'
<1> SUFFICES ASSUME IInv, [BlogNext]_blogVars, client' = "v2", ~limit', ~ClientDone' PROVE PushInv'
    BY DEF PushInv
<1>0. TypeOK /\ CallInv /\ BatchInv /\ PushInv /\ ~ClientDone
      BY ClientDoneStays DEF IInv
<1> USE <1>0 DEF callVars, ctxVars, loopVars, Goto, End
<1>1. CASE Open
  <2>1. \A c \in Callers : count'[c] = 0
        BY <1>1 DEF Open, OpenNone, OpenBadURL, OpenV1, OpenV2, CallInv
  <2> QED BY <2>1 DEF PushInv
<1>2. CASE Uploaded
  <2>1. Len(batch) \in 0..Len(queue) /\ \A i \in 1..Len(batch) : batch[i] = queue[i]
        BY <1>2 DEF Uploaded, BatchInv, TypeOK
  <2>2. UNCHANGED <<client, pc, count, limit>> /\ pushed' = pushed \cup BatchLines
        BY <1>2 DEF Uploaded
  <2>3. /\ Len(queue') = Len(queue) - Len(batch)
        /\ \A i \in 1..Len(queue') : queue'[i] = queue[i + Len(batch)]
        BY <1>2, <2>1, RestOfQueue DEF Uploaded, TypeOK
  <2>4. ASSUME NEW l, InQueue(l) PROVE l \in pushed' \/ InQueue(l)'
    <3>1. PICK i \in 1..Len(queue) : queue[i] = l
          BY <2>4 DEF InQueue
    <3>2. CASE i <= Len(batch)
      <4>1. i \in DOMAIN batch /\ batch[i] = l
            BY <2>1, <3>1, <3>2 DEF TypeOK
      <4> QED BY <2>2, <4>1 DEF BatchLines
    <3>3. CASE ~(i <= Len(batch))
      <4>1. i - Len(batch) \in 1..Len(queue') /\ i - Len(batch) + Len(batch) = i
            BY <2>1, <2>3, <3>1, <3>3 DEF TypeOK
      <4>2. queue'[i - Len(batch)] = l
            BY <2>3, <3>1, <4>1
      <4> QED BY <4>1, <4>2 DEF InQueue
    <3> QED BY <3>2, <3>3
  <2> QED BY <2>2, <2>4 DEF PushInv
<1>3. ASSUME NEW c \in Callers, Call(c) PROVE PushInv'
  <2>1. /\ pc[c] = "idle" /\ client = "v2"
        /\ count' = [count EXCEPT ![c] = @ + 1] /\ pc' = [pc EXCEPT ![c] = "send"]
        /\ UNCHANGED <<queue, pushed, limit>>
        BY <1>3 DEF Call
  <2>2. \A k \in 1..MaxLines : k <= count[c] => <<c, k>> \in pushed'
        BY <2>1 DEF PushInv
  <2>3. \A k \in 1..MaxLines : k <= count'[c] =>
                             k <= count[c] \/ (k = count'[c] /\ pc'[c] = "send")
        BY <2>1 DEF TypeOK
  <2>4. \A d \in Callers : d # c => count'[d] = count[d] /\ pc'[d] = pc[d]
        BY <2>1 DEF TypeOK
  <2> QED BY <2>1, <2>2, <2>3, <2>4 DEF PushInv, InQueue
<1>4. ASSUME NEW c \in Callers, Enqueue(c) PROVE PushInv'
  <2>1. /\ pc[c] = "enqueue" /\ pc' = [pc EXCEPT ![c] = "wait"]
        /\ queue' = Append(queue, Line(c))
        /\ UNCHANGED <<client, count, pushed, limit>>
        BY <1>4 DEF Enqueue
  <2>2. \A l : InQueue(l) => InQueue(l)'
        BY <2>1 DEF InQueue, TypeOK
  <2>3. InQueue(<<c, count[c]>>)'
    <3>1. Len(queue) + 1 \in 1..Len(queue') /\ queue'[Len(queue) + 1] = <<c, count[c]>>
          BY <2>1 DEF Line, TypeOK
    <3> QED BY <2>1, <3>1 DEF InQueue
  <2> QED BY <2>1, <2>2, <2>3 DEF PushInv, TypeOK
<1>5. ASSUME NEW c \in Callers, WaitUntilEmpty(c) PROVE PushInv'
  <2>1. queue = <<>> /\ pc[c] = "wait" /\ pc' = [pc EXCEPT ![c] = "json"]
        BY <1>5 DEF WaitUntilEmpty, Flushed
  <2>2. UNCHANGED <<client, count, queue, pushed, limit>>
        BY <1>5 DEF WaitUntilEmpty
  <2>3. \A l : ~InQueue(l)
        BY <2>1 DEF InQueue
  <2> QED BY <2>1, <2>2, <2>3 DEF PushInv, TypeOK
<1>6. ASSUME NEW c \in Callers, Patch(c) \/ WriteStderr(c) \/ Fatal(c) PROVE PushInv'
      BY <1>6, PushStays DEF Patch, WriteStderr, Fatal, TypeOK
<1>10. ASSUME NEW c \in Callers, TestContext(c) PROVE PushInv'
  <2>1. /\ pc[c] = "send" /\ pc' = [pc EXCEPT ![c] = "enqueue"]
        /\ UNCHANGED <<client, count, queue, pushed, limit>>
        BY <1>0, <1>10 DEF TestContext
  <2> QED BY <2>1 DEF PushInv, InQueue, TypeOK
<1>7. CASE Finish \/ CloseClient \/ CloseJSON \/ Cancel
      BY <1>7, PushStays, BuildLogAssumption
         DEF Finish, CloseClient, CloseJSON, Cancel, TypeOK, BuildLogAssumption
<1>8. CASE Take \/ UploadFails \/ LimitExceeded \/ LoopStops
      BY <1>8, PushStays DEF Take, TakeBatch, UploadFails, LimitExceeded, LoopStops
<1>9. CASE UNCHANGED blogVars
      BY <1>9, PushStays DEF blogVars
<1> QED BY <1>1, <1>2, <1>3, <1>4, <1>5, <1>6, <1>7, <1>8, <1>9, <1>10, BuildLogAssumption
        DEF BlogNext, SendLoop, Return, Fail, Log, Send, BuildLogAssumption

LEMMA NextStderrInv == IInv /\ [BlogNext]_blogVars => StderrInv'
<1> SUFFICES ASSUME IInv, [BlogNext]_blogVars PROVE StderrInv'
    OBVIOUS
<1>0. TypeOK /\ CallInv /\ StderrInv
      BY DEF IInv
<1> USE BuildLogAssumption, <1>0 DEF BuildLogAssumption, callVars, ctxVars, loopVars, Goto, End
<1>1. CASE UNCHANGED <<pc, count, stderr>>
      BY <1>1 DEF StderrInv
<1>2. ASSUME NEW c \in Callers, Call(c) PROVE StderrInv'
  <2>1. /\ count' = [count EXCEPT ![c] = @ + 1] /\ UNCHANGED stderr
        /\ \A d \in Callers : d # c => pc'[d] = pc[d]
        BY <1>2 DEF Call, TypeOK
  <2> QED BY <2>1 DEF StderrInv, TypeOK
<1>3. ASSUME NEW c \in Callers, Patch(c) \/ TestContext(c) \/ Enqueue(c) \/ WaitUntilEmpty(c) PROVE StderrInv'
      BY <1>3 DEF Patch, TestContext, Enqueue, WaitUntilEmpty, StderrInv, TypeOK
<1>4. ASSUME NEW c \in Callers, WriteStderr(c) PROVE StderrInv'
      BY <1>1, <1>4 DEF WriteStderr, Line, StderrInv, TypeOK
<1>5. CASE CloseClient \/ CloseJSON
      BY <1>1, <1>5 DEF CloseClient, CloseJSON, StderrInv, TypeOK
<1>6. CASE Finish \/ Cancel \/ UNCHANGED blogVars \/ Open
      BY <1>1, <1>6 DEF Finish, Cancel, blogVars, Open, OpenNone, OpenBadURL, OpenV1, OpenV2
<1>7. CASE SendLoop
      BY <1>1, <1>7 DEF SendLoop, Take, TakeBatch, Uploaded, UploadFails, LimitExceeded, LoopStops
<1>8. ASSUME NEW c \in Callers, Fatal(c) PROVE StderrInv'
      BY <1>1, <1>8 DEF Fatal
<1> QED BY <1>2, <1>3, <1>4, <1>5, <1>6, <1>7, <1>8 DEF BlogNext, Return, Fail, Log, Send

LEMMA NextRefuseInv == IInv /\ [BlogNext]_blogVars => RefuseInv'
<1> SUFFICES ASSUME IInv, [BlogNext]_blogVars PROVE RefuseInv'
    OBVIOUS
<1>0. TypeOK /\ CallInv /\ RefuseInv /\ RunE \in Callers /\ (ClientDone => ClientDone')
      BY BuildLogAssumption, ClientDoneStays DEF IInv, BuildLogAssumption
<1> USE <1>0 DEF callVars, ctxVars, loopVars, Goto, End
<1>1. CASE UNCHANGED <<pc, returning, closed, ctxDone, refused>>
      BY <1>1 DEF RefuseInv, ClientDone
<1>2. CASE Open \/ SendLoop \/ UNCHANGED blogVars
      BY <1>1, <1>2 DEF Open, OpenNone, OpenBadURL, OpenV1, OpenV2, SendLoop, Take, TakeBatch, Uploaded,
         UploadFails, LimitExceeded, LoopStops, blogVars
<1>3. ASSUME NEW c \in Callers, Call(c), c = RunE => returning = "no",
             returning' = returning \/ (c = RunE /\ returning' = "failed")
      PROVE  RefuseInv'
  <2>1. /\ pc[c] = "idle" /\ pc'[c] # "enqueue" /\ UNCHANGED <<closed, ctxDone, refused>>
        /\ \A d \in Callers : d # c => pc'[d] = pc[d]
        BY <1>3 DEF Call, TypeOK
  <2>2. c = RunE => ~closed /\ ~ctxDone
        BY <1>3, <2>1 DEF RefuseInv
  <2>3. ctxDone => returning' = "ok"
        BY <1>3, <2>2 DEF RefuseInv
  <2> QED BY <1>3, <2>1, <2>2, <2>3 DEF RefuseInv, TypeOK
<1>4. ASSUME NEW c \in Callers, Patch(c) \/ Enqueue(c) \/ WaitUntilEmpty(c) \/ WriteStderr(c) \/ Fatal(c)
      PROVE  RefuseInv'
  <2>1. CASE Fatal(c)
        BY <1>1, <2>1 DEF Fatal
  <2>2. CASE UNCHANGED pc
        BY <1>1, <1>4, <2>2 DEF Patch, Enqueue, WaitUntilEmpty, WriteStderr, Fatal
  <2>3. CASE Patch(c) \/ Enqueue(c) \/ WaitUntilEmpty(c) \/ (WriteStderr(c) /\ pc[c] = "json" /\ pc' # pc)
    <3>1. /\ pc[c] \in {"patch", "enqueue", "wait", "json"} /\ pc'[c] # "enqueue"
          /\ \A d \in Callers : d # c => pc'[d] = pc[d]
          /\ UNCHANGED <<returning, closed, ctxDone, refused>>
          BY <2>3 DEF Patch, Enqueue, WaitUntilEmpty, WriteStderr, TypeOK
    <3>2. c = RunE => ~closed /\ returning # "ok"
          BY <3>1 DEF RefuseInv
    <3> QED BY <3>1, <3>2 DEF RefuseInv
  <2> QED BY <1>4, <2>1, <2>2, <2>3 DEF WriteStderr
<1>5. ASSUME NEW c \in Callers, TestContext(c) PROVE RefuseInv'
  <2>1. /\ pc[c] = "send" /\ \A d \in Callers : d # c => pc'[d] = pc[d]
        /\ UNCHANGED <<returning, closed, ctxDone>>
        BY <1>5 DEF TestContext, TypeOK
  <2>2. c = RunE => ~closed /\ ~ctxDone /\ returning # "ok"
        BY <2>1 DEF RefuseInv
  <2>3. CASE ClientDone
    <3>1. refused' = refused \cup {<<c, count[c]>>} /\ pc'[c] = "json" /\ c # RunE
          BY <1>5, <2>2, <2>3 DEF TestContext, Line, ClientDone, TypeOK
    <3> QED BY <2>1, <2>3, <3>1 DEF RefuseInv
  <2>4. CASE ~ClientDone
    <3>1. refused' = refused
          BY <1>5, <2>4 DEF TestContext
    <3> QED BY <2>1, <2>2, <2>4, <3>1 DEF RefuseInv
  <2> QED BY <2>3, <2>4
<1>6. CASE Finish
      BY <1>6 DEF Finish, RefuseInv, TypeOK
<1>7. CASE CloseClient
      BY <1>7 DEF CloseClient, RefuseInv, TypeOK
<1>8. CASE CloseJSON
      BY <1>1, <1>8 DEF CloseJSON, RefuseInv, TypeOK, ClientDone
<1>9. CASE Cancel
      BY <1>9 DEF Cancel, RefuseInv, TypeOK
<1> QED BY <1>2, <1>3, <1>4, <1>5, <1>6, <1>7, <1>8, <1>9 DEF BlogNext, Return, Fail, Log, Send

LEMMA InductiveInvariant == BlogSpec => []IInv
<1>1. IInv /\ [BlogNext]_blogVars => IInv'
      BY NextTypeOK, NextCallInv, NextBatchInv, NextQueueInv, NextPushInv, NextStderrInv, NextRefuseInv
         DEF IInv
<1> QED BY <1>1, InitIInv, PTL DEF BlogSpec

-----------------------------------------------------------------------------

\* The log's state stays well-typed; in particular only an agentClientV2 ever has
\* a SendLoop, and its queue is empty once the control plane takes no more.
THEOREM BuildLogTypeCorrect == BlogSpec => []TypeOK
<1>1. IInv => TypeOK
      BY DEF IInv
<1> QED BY <1>1, InductiveInvariant, PTL

\* Whatever its goroutines log and whichever uploads fail, a line that
\* agentClientV2.Send let through to stderr was taken by the control plane.
THEOREM StderrNotAhead == BlogSpec => []StderrFollowsPush
<1>1. IInv => StderrFollowsPush
  <2> SUFFICES ASSUME IInv, client = "v2", ~limit, ~ClientDone, NEW l \in stderr PROVE l \in pushed
      BY DEF StderrFollowsPush
  <2>1. PICK c \in Callers, k \in 1..MaxLines : l = <<c, k>>
        BY DEF IInv, TypeOK, Lines
  <2>2. k <= count[c] /\ (k = count[c] => pc[c] \notin {"send", "enqueue", "wait"})
        BY <2>1 DEF IInv, StderrInv
  <2> QED BY <2>1, <2>2 DEF IInv, PushInv
<1> QED BY <1>1, InductiveInvariant, PTL

\* However slow the uploads are, the queue of an open log holds no more lines than
\* there are goroutines that log.
THEOREM QueueBounded == BlogSpec => []QueueStaysShort
<1>1. IInv => QueueStaysShort
  <2> SUFFICES ASSUME IInv, ~ClientDone PROVE Len(queue) <= Cardinality(Callers)
      BY DEF QueueStaysShort
  <2> DEFINE f == [i \in 1..Len(queue) |-> queue[i][1]]
  <2>1. Len(queue) \in Nat /\ \A i \in 1..Len(queue) : queue[i][1] \in Callers
        BY DEF IInv, TypeOK, Lines
  <2>2. f \in [1..Len(queue) -> Callers]
        BY <2>1
  <2>3. \A i, j \in 1..Len(queue) : f[i] = f[j] => i = j
        BY DEF IInv, QueueInv
  <2>4. f \in Injection(1..Len(queue), Callers)
        BY <2>2, <2>3 DEF Injection, IsInjective
  <2>5. Cardinality(1..Len(queue)) <= Cardinality(Callers)
        BY <2>4, FS_Injection, BuildLogAssumption DEF BuildLogAssumption
  <2>6. \A n \in Nat : Cardinality(1..n) = n
        BY FS_Interval
  <2> QED BY <2>1, <2>5, <2>6
<1> QED BY <1>1, InductiveInvariant, PTL

-----------------------------------------------------------------------------
(* What becomes of the lines after the log was closed and when uploads     *)
(* fail: then QueueInv and PushInv say nothing any more.                   *)

\* Every line an agentClientV2 was given is at the control plane or in the queue.
KeepInv ==
    /\ client = "v2" /\ ~limit =>
          \A c \in Callers, k \in 1..MaxLines :
              k <= count[c] =>
                  \/ <<c, k>> \in pushed \/ InQueue(<<c, k>>) \/ <<c, k>> \in refused
                  \/ k = count[c] /\ pc[c] \in {"send", "enqueue"}
    /\ client = "opening" => pushed = {} /\ queue = <<>>
    /\ limit => loop = "stopped"
    /\ \A c \in Callers : pc[c] = "patch" => client = "v1"

\* As long as the loop runs, what is before a line in its caller's call order is before
\* it in the queue, or has left it.
OrderInv ==
    loop \in {"idle", "uploading"} =>
        \A i \in 1..Len(queue), j \in 1..MaxLines :
            j < queue[i][2] =>
                \/ <<queue[i][1], j>> \in pushed
                \/ \E h \in 1..Len(queue) : h < i /\ queue[h] = <<queue[i][1], j>>

\* The control plane has no line of a caller without those before it.
NoGaps ==
    client = "v2" =>
        \A c \in Callers, j, k \in 1..MaxLines :
            j < k /\ <<c, k>> \in pushed => <<c, j>> \in pushed

\* What an upload takes from the queue it adds to the pushed lines.
LEMMA UploadMoves ==
    ASSUME TypeOK, BatchInv, loop = "uploading"
    PROVE  /\ Len(batch) \in 0..Len(queue)
           /\ \A i \in 1..Len(batch) : batch[i] = queue[i] /\ queue[i] \in BatchLines
           /\ \A l \in BatchLines : \E i \in 1..Len(batch) : queue[i] = l
BY DEF TypeOK, BatchInv, BatchLines

LEMMA UploadedQueue ==
    ASSUME TypeOK, BatchInv, Uploaded
    PROVE  /\ Len(queue') = Len(queue) - Len(batch)
           /\ \A i \in 1..Len(queue') : /\ i + Len(batch) \in 1..Len(queue)
                                        /\ queue'[i] = queue[i + Len(batch)]
           /\ \A i \in 1..Len(queue) : i > Len(batch) =>
                 i - Len(batch) \in 1..Len(queue') /\ queue'[i - Len(batch)] = queue[i]
<1>1. Len(batch) \in 0..Len(queue) /\ queue \in Seq(Lines)
      BY UploadMoves DEF Uploaded, TypeOK
<1>2. /\ Len(queue') = Len(queue) - Len(batch)
      /\ \A i \in 1..Len(queue') : /\ i + Len(batch) \in 1..Len(queue)
                                   /\ queue'[i] = queue[i + Len(batch)]
      BY <1>1, RestOfQueue DEF Uploaded
<1>3. ASSUME NEW i \in 1..Len(queue), i > Len(batch)
      PROVE  i - Len(batch) \in 1..Len(queue') /\ queue'[i - Len(batch)] = queue[i]
  <2>1. i - Len(batch) \in 1..Len(queue') /\ (i - Len(batch)) + Len(batch) = i
        BY <1>1, <1>2, <1>3
  <2> QED BY <1>2, <2>1
<1> QED BY <1>2, <1>3

\* Steps that touch neither the queue nor what is pushed, and log no line.
LEMMA KeepStays ==
    ASSUME TypeOK, KeepInv, client' = client, count' = count, limit' = limit, queue' = queue,
           loop' = loop \/ loop' = "stopped", pushed \subseteq pushed',
           pushed' = pushed \/ client # "opening",
           refused' = refused,
           \A c \in Callers : pc[c] \in {"send", "enqueue"} => pc'[c] = pc[c],
           \A c \in Callers : pc'[c] = "patch" => pc[c] = "patch"
    PROVE  KeepInv'
BY DEF KeepInv, InQueue

LEMMA NextKeepInv == IInv /\ KeepInv /\ [BlogNext]_blogVars => KeepInv'
<1> SUFFICES ASSUME IInv, KeepInv, [BlogNext]_blogVars PROVE KeepInv'
    OBVIOUS
<1>0. TypeOK /\ CallInv /\ BatchInv
      BY DEF IInv
<1> USE <1>0 DEF callVars, ctxVars, loopVars, Goto, End
<1>1. CASE Open
  <2>1. \A c \in Callers : count'[c] = 0 /\ count[c] = 0 /\ pc'[c] = pc[c] /\ client = "opening"
        BY <1>1 DEF Open, OpenNone, OpenBadURL, OpenV1, OpenV2, CallInv
  <2>2. \A c \in Callers : pc'[c] # "patch"
        BY <2>1 DEF CallInv
  <2>3. pushed' = pushed /\ queue' = queue /\ (client' = "opening" => client = "opening")
        BY <1>1 DEF Open, OpenNone, OpenBadURL, OpenV1, OpenV2
  <2>4. limit' = limit /\ loop # "stopped"
        BY <1>1 DEF Open, OpenNone, OpenBadURL, OpenV1, OpenV2, TypeOK
  <2>5. limit' => loop' = "stopped"
        BY <2>4 DEF KeepInv
  <2>6. \A c \in Callers, k \in 1..MaxLines : ~(k <= count'[c])
        BY <2>1
  <2> QED BY <2>2, <2>3, <2>5, <2>6 DEF KeepInv
<1>2. CASE Uploaded
  <2>1. /\ UNCHANGED <<client, pc, count, limit, refused>> /\ pushed' = pushed \cup BatchLines
        /\ loop = "uploading" /\ client = "v2"
        BY <1>2 DEF Uploaded, TypeOK
  <2>2. ASSUME NEW l, InQueue(l) PROVE l \in pushed' \/ InQueue(l)'
    <3>1. PICK i \in 1..Len(queue) : queue[i] = l
          BY <2>2 DEF InQueue
    <3>2. CASE i <= Len(batch)
      <4>1. i \in 1..Len(batch)
            BY <2>1, <3>2, UploadMoves
      <4> QED BY <2>1, <3>1, <4>1, UploadMoves
    <3>3. CASE i > Len(batch)
          BY <1>2, <3>1, <3>3, UploadedQueue DEF InQueue
    <3>4. Len(batch) \in Nat
          BY <2>1, UploadMoves
    <3> QED BY <3>2, <3>3, <3>4
  <2> QED BY <2>1, <2>2 DEF KeepInv
<1>3. ASSUME NEW c \in Callers, Call(c), client # "opening" PROVE KeepInv'
  <2>1. /\ pc[c] = "idle" /\ count' = [count EXCEPT ![c] = @ + 1]
        /\ pc' = [pc EXCEPT ![c] = CASE client = "v2" -> "send" [] client = "v1" -> "patch"
                                     [] OTHER -> "json"]
        /\ UNCHANGED <<client, queue, pushed, refused, limit, loop>>
        BY <1>3 DEF Call
  <2>2. client = "v2" => pc'[c] = "send"
        BY <2>1 DEF TypeOK
  <2>3. \A k \in 1..MaxLines : k <= count'[c] => k <= count[c] \/ k = count'[c]
        BY <2>1 DEF TypeOK
  <2>4. \A d \in Callers : d # c => count'[d] = count[d] /\ pc'[d] = pc[d]
        BY <2>1 DEF TypeOK
  <2>5. pc'[c] = "patch" => client = "v1"
        BY <2>1 DEF TypeOK
  <2>6. \A k \in 1..MaxLines : client = "v2" /\ ~limit /\ k <= count[c] =>
                                   <<c, k>> \in pushed \/ InQueue(<<c, k>>) \/ <<c, k>> \in refused
        BY <2>1 DEF KeepInv
  <2> QED BY <1>3, <2>1, <2>2, <2>3, <2>4, <2>5, <2>6 DEF KeepInv, InQueue
<1>4. ASSUME NEW c \in Callers, Enqueue(c) PROVE KeepInv'
  <2>1. /\ pc[c] = "enqueue" /\ pc' = [pc EXCEPT ![c] = "wait"]
        /\ UNCHANGED <<client, count, pushed, refused, limit, loop>>
        BY <1>4 DEF Enqueue
  <2>2. CASE limit
        BY <2>1, <2>2 DEF KeepInv, TypeOK
  <2>3. CASE ~limit
    <3>1. queue' = Append(queue, Line(c))
          BY <1>4, <2>3 DEF Enqueue
    <3>2. \A l : InQueue(l) => InQueue(l)'
          BY <3>1 DEF InQueue, TypeOK
    <3>3. Len(queue) + 1 \in 1..Len(queue') /\ queue'[Len(queue) + 1] = <<c, count[c]>>
          BY <3>1 DEF Line, TypeOK
    <3>4. client # "opening"
          BY <2>1 DEF CallInv
    <3>5. /\ \A d \in Callers : d # c => pc'[d] = pc[d]
          /\ \A d \in Callers : pc'[d] = "patch" => pc[d] = "patch"
          BY <2>1 DEF TypeOK
    <3>6. limit' = limit /\ loop' = loop /\ count' = count /\ pushed' = pushed /\ client' = client
          /\ refused' = refused
          BY <2>1
    <3>7. ASSUME client = "v2", NEW d \in Callers, NEW k \in 1..MaxLines, k <= count[d]
          PROVE  \/ <<d, k>> \in pushed \/ InQueue(<<d, k>>)' \/ <<d, k>> \in refused
                 \/ k = count[d] /\ pc'[d] \in {"send", "enqueue"}
      <4>1. \/ <<d, k>> \in pushed \/ InQueue(<<d, k>>) \/ <<d, k>> \in refused
            \/ k = count[d] /\ pc[d] \in {"send", "enqueue"}
            BY <2>3, <3>7 DEF KeepInv
      <4>2. CASE <<d, k>> \in pushed \/ InQueue(<<d, k>>) \/ <<d, k>> \in refused
            BY <3>2, <4>2
      <4>3. CASE d # c /\ k = count[d] /\ pc[d] \in {"send", "enqueue"}
            BY <3>5, <4>3
      <4>4. CASE d = c /\ k = count[c]
            BY <3>3, <4>4 DEF InQueue
      <4> QED BY <4>1, <4>2, <4>3, <4>4
    <3>8. client' = "v2" /\ ~limit' =>
            \A d \in Callers, k \in 1..MaxLines :
              k <= count'[d] =>
                  \/ <<d, k>> \in pushed' \/ InQueue(<<d, k>>)' \/ <<d, k>> \in refused'
                  \/ k = count'[d] /\ pc'[d] \in {"send", "enqueue"}
          BY <3>6, <3>7
    <3>9. client' = "opening" => pushed' = {} /\ queue' = <<>>
          BY <3>4, <3>6
    <3>10. limit' => loop' = "stopped"
           BY <2>3, <3>6
    <3>11. \A d \in Callers : pc'[d] = "patch" => client' = "v1"
      <4>1. \A d \in Callers : pc[d] = "patch" => client = "v1"
            BY DEF KeepInv
      <4> QED BY <3>5, <3>6, <4>1
    <3> QED BY <3>8, <3>9, <3>10, <3>11 DEF KeepInv
  <2> QED BY <2>2, <2>3
<1>5. ASSUME NEW c \in Callers, WaitUntilEmpty(c) PROVE KeepInv'
      BY <1>5, KeepStays DEF WaitUntilEmpty, TypeOK
<1>6. ASSUME NEW c \in Callers, Patch(c) \/ WriteStderr(c) \/ Fatal(c) PROVE KeepInv'
  <2>1. CASE Patch(c)
    <3>1. client # "opening"
          BY <2>1 DEF Patch, KeepInv
    <3> QED BY <2>1, <3>1, KeepStays DEF Patch, TypeOK
  <2> QED BY <1>6, <2>1, KeepStays DEF WriteStderr, Fatal, TypeOK
<1>7. CASE Finish \/ CloseClient \/ CloseJSON \/ Cancel
      BY <1>7, KeepStays, BuildLogAssumption
         DEF Finish, CloseClient, CloseJSON, Cancel, TypeOK, BuildLogAssumption
<1>8. CASE Take
  <2>1. loop = "idle" /\ ~limit /\ UNCHANGED <<client, pc, count, limit, queue, pushed, refused>>
        BY <1>8 DEF Take, TakeBatch, KeepInv
  <2> QED BY <2>1 DEF KeepInv, InQueue
<1>9. CASE UploadFails \/ LoopStops
  <2>1. client = "v2"
        BY <1>9 DEF UploadFails, LoopStops, TypeOK
  <2> QED BY <1>9, <2>1, KeepStays DEF UploadFails, LoopStops
<1>10. CASE LimitExceeded
  <2>1. limit' /\ loop' = "stopped" /\ UNCHANGED <<client, pc, pushed>> /\ client = "v2"
        BY <1>10 DEF LimitExceeded, TypeOK
  <2> QED BY <2>1 DEF KeepInv
<1>11. CASE UNCHANGED blogVars
       BY <1>11, KeepStays DEF blogVars
<1>12. ASSUME NEW c \in Callers, TestContext(c) PROVE KeepInv'
  <2>1. /\ pc[c] = "send" /\ UNCHANGED <<client, count, queue, pushed, limit, loop>>
        /\ pc'[c] \in {"enqueue", "json"} /\ \A d \in Callers : d # c => pc'[d] = pc[d]
        /\ refused \subseteq refused' /\ (pc'[c] = "enqueue" \/ <<c, count[c]>> \in refused')
        BY <1>12 DEF TestContext, Line, TypeOK
  <2> QED BY <2>1 DEF KeepInv, InQueue
<1> QED BY <1>1, <1>2, <1>3, <1>4, <1>5, <1>6, <1>7, <1>8, <1>9, <1>10, <1>11, <1>12, BuildLogAssumption
        DEF BlogNext, SendLoop, Return, Fail, Log, Send, BuildLogAssumption

LEMMA NextOrderInv == IInv /\ KeepInv /\ OrderInv /\ [BlogNext]_blogVars => OrderInv'
<1> SUFFICES ASSUME IInv, KeepInv, OrderInv, [BlogNext]_blogVars PROVE OrderInv'
    OBVIOUS
<1>0. TypeOK /\ CallInv /\ BatchInv
      BY DEF IInv
<1> USE <1>0 DEF callVars, ctxVars, loopVars, Goto, End
<1>1. CASE /\ queue' = queue /\ pushed \subseteq pushed'
           /\ loop' \in {"idle", "uploading"} => loop \in {"idle", "uploading"}
      BY <1>1 DEF OrderInv
<1>2. CASE Open
  <2>1. queue' = queue /\ client = "opening" /\ \A c \in Callers : count[c] = 0
        BY <1>2 DEF Open, OpenNone, OpenBadURL, OpenV1, OpenV2, CallInv
  <2>2. queue = <<>>
        BY <2>1 DEF KeepInv
  <2> QED BY <2>1, <2>2 DEF OrderInv
<1>3. CASE Uploaded
  <2> SUFFICES ASSUME NEW i \in 1..Len(queue'), NEW j \in 1..MaxLines, j < queue'[i][2],
                      <<queue'[i][1], j>> \notin pushed'
               PROVE  \E h \in 1..Len(queue') : h < i /\ queue'[h] = <<queue'[i][1], j>>
      BY DEF OrderInv
  <2> DEFINE n == Len(batch)
             m == i + n
  <2>1. loop = "uploading" /\ pushed' = pushed \cup BatchLines
        BY <1>3 DEF Uploaded
  <2>2. n \in Nat /\ i \in Nat /\ m \in 1..Len(queue) /\ queue'[i] = queue[m]
        BY <1>3, <2>1, UploadMoves, UploadedQueue
  <2>3. PICK h \in 1..Len(queue) : h < m /\ queue[h] = <<queue[m][1], j>>
    <3> HIDE DEF m
    <3> QED BY <2>1, <2>2 DEF OrderInv
  <2>4. ~(h \in 1..n)
        BY <2>1, <2>2, <2>3, UploadMoves
  <2>5. h > n
        BY <2>2, <2>4
  <2>6. h - n \in 1..Len(queue') /\ queue'[h - n] = queue[h]
        BY <1>3, <2>5, UploadedQueue
  <2>7. h - n < i
        BY <2>2, <2>3
  <2> QED BY <2>2, <2>3, <2>6, <2>7
<1>4. ASSUME NEW c \in Callers, Enqueue(c), loop' \in {"idle", "uploading"} PROVE OrderInv'
  <2>1. /\ UNCHANGED <<client, count, pushed, limit, loop>> /\ client = "v2" /\ ~limit
        BY <1>4 DEF Enqueue, KeepInv, TypeOK
  <2>2. queue' = Append(queue, <<c, count[c]>>)
        BY <1>4, <2>1 DEF Enqueue, Line
  <2>3. /\ Len(queue') = Len(queue) + 1 /\ Len(queue) \in Nat
        /\ \A i \in 1..Len(queue) : queue'[i] = queue[i]
        /\ queue'[Len(queue) + 1] = <<c, count[c]>>
        BY <2>2 DEF TypeOK
  <2> SUFFICES ASSUME NEW i \in 1..Len(queue'), NEW j \in 1..MaxLines, j < queue'[i][2],
                      <<queue'[i][1], j>> \notin pushed'
               PROVE  \E h \in 1..Len(queue') : h < i /\ queue'[h] = <<queue'[i][1], j>>
      BY DEF OrderInv
  <2>4. CASE i \in 1..Len(queue)
    <3>1. \E h \in 1..Len(queue) : h < i /\ queue[h] = <<queue[i][1], j>>
          BY <1>4, <2>1, <2>3, <2>4 DEF OrderInv
    <3> QED BY <2>3, <2>4, <3>1
  <2>5. CASE i = Len(queue) + 1
    <3>0. queue'[i][1] = c /\ queue'[i][2] = count[c]
          BY <2>3, <2>5
    <3>1. j < count[c] /\ count[c] \in Nat /\ j \in Nat /\ <<c, j>> \notin pushed
          BY <2>1, <3>0 DEF TypeOK
    <3>2. InQueue(<<c, j>>)
      <4>1. pc[c] = "enqueue" /\ count[c] \in 0..MaxLines
            BY <1>4 DEF Enqueue, TypeOK
      <4>2. <<c, j>> \notin refused
            BY <4>1 DEF IInv, RefuseInv
      <4> QED BY <2>1, <3>1, <4>1, <4>2 DEF KeepInv
    <3>3. PICK h \in 1..Len(queue) : queue[h] = <<c, j>>
          BY <3>2 DEF InQueue
    <3> QED BY <2>3, <2>5, <3>3
  <2> QED BY <2>3, <2>4, <2>5
<1>5. CASE LimitExceeded \/ UploadFails
      BY <1>5 DEF LimitExceeded, UploadFails, OrderInv
<1>6. CASE Take \/ LoopStops \/ Cancel \/ UNCHANGED blogVars
      BY <1>1, <1>6 DEF Take, TakeBatch, LoopStops, Cancel, blogVars
<1>7. CASE Return
      BY <1>1, <1>7 DEF Return, Fail, Call, Finish, CloseClient, CloseJSON
<1>8. ASSUME NEW c \in Callers, Log(c) \/ Patch(c) \/ TestContext(c) \/ WaitUntilEmpty(c) \/ WriteStderr(c) \/ Fatal(c)
      PROVE  OrderInv'
      BY <1>1, <1>8 DEF Log, Call, Patch, TestContext, WaitUntilEmpty, WriteStderr, Fatal
<1>9. CASE loop' \notin {"idle", "uploading"}
      BY <1>9 DEF OrderInv
<1> QED BY <1>2, <1>3, <1>4, <1>5, <1>6, <1>7, <1>8, <1>9 DEF BlogNext, SendLoop, Send

LEMMA NextNoGaps == IInv /\ KeepInv /\ OrderInv /\ NoGaps /\ [BlogNext]_blogVars => NoGaps'
<1> SUFFICES ASSUME IInv, KeepInv, OrderInv, NoGaps, [BlogNext]_blogVars PROVE NoGaps'
    OBVIOUS
<1>0. TypeOK /\ CallInv /\ BatchInv
      BY DEF IInv
<1> USE <1>0 DEF callVars, ctxVars, loopVars, Goto, End
<1>1. CASE client' = client /\ pushed' = pushed
      BY <1>1 DEF NoGaps
<1>2. CASE Open
  <2>1. pushed' = {}
        BY <1>2 DEF Open, OpenNone, OpenBadURL, OpenV1, OpenV2, KeepInv
  <2> QED BY <2>1 DEF NoGaps
<1>3. CASE /\ loop = "uploading" /\ client' = client
           /\ pushed' = pushed \cup BatchLines
  <2> SUFFICES ASSUME NEW c \in Callers, NEW j \in 1..MaxLines, NEW k \in 1..MaxLines,
                      j < k, <<c, k>> \in pushed'
               PROVE  <<c, j>> \in pushed'
      BY DEF NoGaps
  <2>1. CASE <<c, k>> \in pushed
        BY <1>3, <2>1 DEF NoGaps, TypeOK
  <2>2. CASE <<c, k>> \in BatchLines
    <3>1. PICK i \in 1..Len(batch) : queue[i] = <<c, k>>
          BY <1>3, <2>2, UploadMoves
    <3>2. i \in 1..Len(queue) /\ Len(batch) \in Nat
          BY <1>3, <3>1, UploadMoves
    <3>5. queue[i][1] = c /\ queue[i][2] = k
          BY <3>1
    <3>3. \/ <<c, j>> \in pushed
          \/ \E h \in 1..Len(queue) : h < i /\ queue[h] = <<c, j>>
          BY <1>3, <3>2, <3>5 DEF OrderInv
    <3>4. ASSUME NEW h \in 1..Len(queue), h < i, queue[h] = <<c, j>> PROVE <<c, j>> \in BatchLines
      <4>1. h \in 1..Len(batch)
            BY <3>1, <3>2, <3>4
      <4> QED BY <1>3, <3>4, <4>1, UploadMoves
    <3> QED BY <1>3, <3>3, <3>4
  <2> QED BY <1>3, <2>1, <2>2
<1>4. CASE Uploaded \/ UploadFails
      BY <1>1, <1>3, <1>4 DEF Uploaded, UploadFails
<1>5. CASE Take \/ LimitExceeded \/ LoopStops \/ Cancel \/ UNCHANGED blogVars
      BY <1>1, <1>5 DEF Take, TakeBatch, LimitExceeded, LoopStops, Cancel, blogVars
<1>6. CASE Return
      BY <1>1, <1>6 DEF Return, Fail, Call, Finish, CloseClient, CloseJSON
<1>7. ASSUME NEW c \in Callers, Patch(c) PROVE NoGaps'
      BY <1>7 DEF Patch, KeepInv, NoGaps
<1>8. ASSUME NEW c \in Callers, Log(c) \/ Send(c) \/ WriteStderr(c) \/ Fatal(c) PROVE NoGaps'
      BY <1>1, <1>8 DEF Log, Call, Send, TestContext, Enqueue, WaitUntilEmpty, WriteStderr, Fatal
<1> QED BY <1>2, <1>4, <1>5, <1>6, <1>7, <1>8 DEF BlogNext, SendLoop

LEMMA KeptInOrder == BlogSpec => [](KeepInv /\ OrderInv /\ NoGaps)
<1>1. BlogInit => KeepInv /\ OrderInv /\ NoGaps
      BY DEF BlogInit, KeepInv, OrderInv, NoGaps
<1> QED BY <1>1, InductiveInvariant, NextKeepInv, NextOrderInv, NextNoGaps, PTL DEF BlogSpec

\* For any goroutines and lines, also when an upload has failed and the loop with it, and
\* when the log is closed: what stderr shows is at the control plane or still queued, or
\* Send refused it.  It refuses no line before the log is closed and none of RunE's, and
\* an accepted line is dropped only because the control plane takes no more.
THEOREM NoAcceptedLineLost == BlogSpec => []LinesKept
<1>1. ASSUME IInv, KeepInv, client = "v2", ~limit, NEW l \in stderr
      PROVE  l \in pushed \/ InQueue(l) \/ l \in refused
  <2>1. PICK c \in Callers, k \in 1..MaxLines : l = <<c, k>>
        BY <1>1 DEF IInv, TypeOK, Lines
  <2>2. k <= count[c] /\ (k = count[c] => pc[c] \notin {"send", "enqueue"})
        BY <1>1, <2>1 DEF IInv, StderrInv
  <2> QED BY <1>1, <2>1, <2>2 DEF KeepInv
<1>2. ASSUME IInv, NEW l \in refused PROVE ClientDone /\ l[1] # RunE
  <2>1. PICK c \in Callers, k \in 1..MaxLines : l = <<c, k>>
        BY <1>2 DEF IInv, TypeOK, Lines
  <2> QED BY <1>2, <2>1 DEF IInv, RefuseInv
<1>3. IInv /\ KeepInv => LinesKept
      BY <1>1, <1>2 DEF LinesKept
<1> QED BY <1>3, InductiveInvariant, KeptInOrder, PTL

\* For any goroutines and lines, and whichever uploads fail or arrive although they fail:
\* the control plane never has a line of a goroutine without all that it logged before.
THEOREM UploadedInOrder == BlogSpec => []NoGaps
<1> QED BY KeptInOrder, PTL
=============================================================================
