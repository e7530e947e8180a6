--------------------------- MODULE ProcessProofs ---------------------------
(***************************************************************************)
(* Process keeps its invariants and implements Daemon, for any callers,    *)
(* any command line and any number of generations.                         *)
(***************************************************************************)
EXTENDS Process, TLAPS

\* What is needed of the generation numbers.
LEMMA GensFacts ==
    /\ Gens \subseteq Nat /\ 1 \in Gens /\ 0 \notin Gens
    /\ \A g \in Gens : 1 <= g
    /\ \A g \in Gens : g < MaxGen => g + 1 \in Gens
BY ProcessAssumption DEF ProcessAssumption, Gens

-----------------------------------------------------------------------------
(* The inductive invariant.                                                *)

\* Program counters at which a caller is inside d.mu.
Critical == {"kill", "signal", "poll", "select", "swap", "swapCh", "exec"}

LockInv == \A c \in Callers : pc[c] \in Critical => mu = c

\* Between RestartSwap and RestartSwapCh the fields disagree; a generation that
\* has not been started is seen by nobody but the caller that will start it.
FieldInv ==
    /\ chGen <= gen
    /\ \A c \in Callers : pc[c] = "swapCh" => chGen < gen
    /\ chGen # gen => \E c \in Callers : pc[c] = "swapCh"
    /\ \A c \in Callers : pc[c] \in {"swapCh", "exec"} => os[gen] = "none"
    /\ \A c \in Callers : pc[c] \in {"signal", "poll", "select", "swap"} => os[gen] # "none"
    /\ \A c, d \in Callers : /\ pc[c] = "start"
                             /\ pc[d] \in {"start", "exec"}
                             => c = d
    /\ \A c \in Callers : pc[c] = "start" => os[gen] = "none" /\ chGen = gen
    /\ \A g \in Gens : g > gen => os[g] = "none"

\* How far the wait goroutine is, seen from the process it waits for.
GoInv ==
    \A g \in Gens :
        /\ gpc[g] = "none" <=> os[g] = "none"
        /\ gpc[g] \in {"spawned", "deferClose", "wait"} => os[g] \in {"running", "zombie"}
        /\ gpc[g] \notin {"none", "spawned", "deferClose", "wait"} => os[g] = "reaped"
        /\ gpc[g] \in {"none", "spawned", "deferClose", "wait", "load"} => gVal[g] = "none"
        /\ gpc[g] \in {"send", "close", "cancel", "exited", "panic"} => gVal[g] \in {"killed", res[g]}
        /\ os[g] \in {"zombie", "reaped"} => res[g] \in Results

\* Once kill has signalled, what the goroutine sends is decided.
KillInv ==
    /\ \A c \in Callers : pc[c] \in {"signal", "poll", "select", "swap"} => userKilled[gen]
    /\ \A c \in Callers : pc[c] \in {"poll", "select", "swap"} => gVal[gen] \in {"none", "killed"}
    /\ \A g \in Gens : g < gen => userKilled[g] /\ os[g] # "none"

IInv == TypeOK /\ LockInv /\ FieldInv /\ GoInv /\ KillInv
             /\ ReplacedReportsUserKilled /\ CrashErrorsAreGenuine

-----------------------------------------------------------------------------
(* Type correctness.                                                       *)

\* New and the owner's position establish the types.
LEMMA InitTypeOK == Init => TypeOK
<1> SUFFICES ASSUME Init PROVE TypeOK
    OBVIOUS
<1> USE ProcessAssumption, GensFacts DEF ProcessAssumption, Init
<1>1. mu \in Callers \cup {NoCaller} /\ pc \in [Callers -> CallerPCs]
      BY DEF CallerPCs
<1>2. ret \in [Callers -> {"none", "ok", "err"}] /\ wch \in [Callers -> Gens \cup {0}]
      OBVIOUS
<1>3. got \in [Callers -> Values \cup {"none"}] /\ gVal \in [Gens -> Values \cup {"none"}]
      OBVIOUS
<1>4. os \in [Gens -> {"none", "running", "zombie", "reaped"}] /\ res \in [Gens -> Results \cup {"none"}]
      OBVIOUS
<1>5. sigterm \in [Gens -> BOOLEAN] /\ userKilled \in [Gens -> BOOLEAN]
      OBVIOUS
<1>6. ctxDone \in [Gens -> BOOLEAN] /\ parentDone \in BOOLEAN /\ chClosed \in [Gens -> BOOLEAN]
      OBVIOUS
<1>7. gpc \in [Gens -> GoPCs]
      BY DEF GoPCs
<1>8. chBuf \in [Gens -> Values \cup {"empty"}]
      OBVIOUS
<1>9. gen \in Gens /\ chGen \in Gens
      OBVIOUS
<1>10. gCancel \in [Gens -> Gens \cup {0}] /\ gClose \in [Gens -> Gens \cup {0}]
      OBVIOUS
<1> QED BY <1>1, <1>2, <1>3, <1>4, <1>5, <1>6, <1>7, <1>8, <1>9, <1>10 DEF TypeOK

\* Every step of a method, of a wait goroutine or of the environment keeps them.
LEMMA NextTypeOK == TypeOK /\ GoInv /\ [Next]_procVars => TypeOK'
<1> SUFFICES ASSUME TypeOK, GoInv, [Next]_procVars PROVE TypeOK'
    OBVIOUS
<1> USE ProcessAssumption DEF CallerPCs, GoPCs, Values, Results, ProcessAssumption, callerVars, waitVars,
        fieldVars, osVars, ctxVars, chanVars, goVars, Lock, Goto, GoGoto, Return
<1>1. ASSUME NEW c \in Callers, CallRestart(c) PROVE TypeOK'
      BY <1>1 DEF CallRestart, TypeOK
<1>2. ASSUME NEW c \in Callers, CallWait(c) PROVE TypeOK'
      BY <1>2 DEF CallWait, Wait, TypeOK
<1>3. ASSUME NEW c \in Callers, Receive(c) PROVE TypeOK'
      BY <1>3 DEF Receive, TypeOK
<1>4. ASSUME NEW c \in Callers, MethodStep(c) PROVE TypeOK'
  <2>1. CASE StartLock(c)      BY <2>1 DEF StartLock, TypeOK
  <2>2. CASE RestartLock(c)    BY <2>2 DEF RestartLock, TypeOK
  <2>3. CASE KillMark(c)
    <3>1. userKilled' \in [Gens -> BOOLEAN]
      <4>1. CASE UNCHANGED userKilled
            BY <4>1 DEF TypeOK
      <4>2. CASE userKilled' = [userKilled EXCEPT ![chGen] = TRUE]
            BY <4>2 DEF TypeOK
      <4> QED BY <2>3, <4>1, <4>2 DEF KillMark
    <3>2. pc' \in [Callers -> CallerPCs] /\ ret' \in [Callers -> {"none", "ok", "err"}]
          BY <2>3 DEF KillMark, TypeOK
    <3>3. mu' \in Callers \cup {NoCaller}
          BY <2>3 DEF KillMark, TypeOK
    <3>4. UNCHANGED <<waitVars, fieldVars, osVars, ctxVars, chanVars, goVars>>
          BY <2>3 DEF KillMark
    <3> QED BY <3>1, <3>2, <3>3, <3>4 DEF TypeOK
  <2>4. CASE KillSignal(c)
    <3>1. sigterm' \in [Gens -> BOOLEAN]
      <4>1. CASE UNCHANGED sigterm
            BY <4>1 DEF TypeOK
      <4>2. CASE sigterm' = [sigterm EXCEPT ![gen] = TRUE]
            BY <4>2 DEF TypeOK
      <4> QED BY <2>4, <4>1, <4>2 DEF KillSignal
    <3>2. pc' \in [Callers -> CallerPCs] /\ ret' \in [Callers -> {"none", "ok", "err"}]
          BY <2>4 DEF KillSignal, TypeOK
    <3>3. mu' \in Callers \cup {NoCaller}
          BY <2>4 DEF KillSignal, TypeOK
    <3>4. UNCHANGED <<waitVars, fieldVars, os, res, userKilled, ctxVars, chanVars, goVars>>
          BY <2>4 DEF KillSignal
    <3> QED BY <3>1, <3>2, <3>3, <3>4 DEF TypeOK
  <2>5. CASE KillPoll(c)       BY <2>5 DEF KillPoll, TypeOK
  <2>6. CASE KillSelect(c)     BY <2>6 DEF KillSelect, TypeOK
  <2>7. CASE RestartSwap(c)    BY <2>7, GensFacts DEF RestartSwap, TypeOK
  <2>8. CASE RestartSwapCh(c)  BY <2>8 DEF RestartSwapCh, TypeOK
  <2>9. CASE startProcess(c)   BY <2>9 DEF startProcess, TypeOK
  <2> QED BY <1>4, <2>1, <2>2, <2>3, <2>4, <2>5, <2>6, <2>7, <2>8, <2>9 DEF MethodStep
<1>5. ASSUME NEW g \in Gens, WaitGoroutine(g) PROVE TypeOK'
  <2>1. CASE DeferCancel(g)    BY <2>1 DEF DeferCancel, TypeOK
  <2>2. CASE DeferClose(g)     BY <2>2 DEF DeferClose, TypeOK
  <2>3. CASE CmdWait(g)        BY <2>3 DEF CmdWait, TypeOK
  <2>4. CASE LoadUserKilled(g)
    <3>1. (IF userKilled[g] THEN "killed" ELSE res[g]) \in Values \cup {"none"}
          BY DEF TypeOK
    <3>2. gVal' \in [Gens -> Values \cup {"none"}]
          BY <2>4, <3>1 DEF LoadUserKilled, TypeOK
    <3>3. gpc' \in [Gens -> GoPCs]
          BY <2>4 DEF LoadUserKilled, TypeOK
    <3> QED BY <2>4, <3>2, <3>3 DEF LoadUserKilled, TypeOK
  <2>5. CASE Send(g)
    <3>1. chBuf' \in [Gens -> Values \cup {"empty"}]
      <4>1. CASE UNCHANGED chBuf
            BY <4>1 DEF TypeOK
      <4>2. CASE chBuf' = [chBuf EXCEPT ![chGen] = gVal[g]]
        <5>1. gVal[g] \in Values
              BY <2>5 DEF Send, GoInv, TypeOK
        <5> QED BY <4>2, <5>1 DEF TypeOK
      <4> QED BY <2>5, <4>1, <4>2 DEF Send
    <3>2. gpc' \in [Gens -> GoPCs]
          BY <2>5 DEF Send, TypeOK
    <3> QED BY <2>5, <3>1, <3>2 DEF Send, TypeOK
  <2>6. CASE DeferredClose(g)
    <3>1. chClosed' \in [Gens -> BOOLEAN]
      <4>1. CASE UNCHANGED chClosed
            BY <4>1 DEF TypeOK
      <4>2. CASE chClosed' = [chClosed EXCEPT ![gClose[g]] = TRUE]
            BY <4>2 DEF TypeOK
      <4> QED BY <2>6, <4>1, <4>2 DEF DeferredClose
    <3>2. gpc' \in [Gens -> GoPCs]
          BY <2>6 DEF DeferredClose, TypeOK
    <3> QED BY <2>6, <3>1, <3>2 DEF DeferredClose, TypeOK
  <2>7. CASE DeferredCancel(g) BY <2>7 DEF DeferredCancel, TypeOK
  <2> QED BY <1>5, <2>1, <2>2, <2>3, <2>4, <2>5, <2>6, <2>7 DEF WaitGoroutine
<1>6. ASSUME NEW g \in Gens, NEW r \in Results, Exit(g, r) PROVE TypeOK'
      BY <1>6 DEF Exit, TypeOK
<1>7. ASSUME NEW g \in Gens, CtxKill(g) PROVE TypeOK'
      BY <1>6, <1>7 DEF CtxKill
<1>8. CASE CancelParent
      BY <1>8 DEF CancelParent, TypeOK
<1>9. CASE UNCHANGED procVars
      BY <1>9 DEF procVars, TypeOK
<1> QED BY <1>1, <1>2, <1>3, <1>4, <1>5, <1>6, <1>7, <1>8, <1>9 DEF Next

-----------------------------------------------------------------------------
(* Preservation of the parts of the inductive invariant.                   *)

\* The disjuncts of Next, as a fact to split on.
LEMMA NextCases ==
    ASSUME Next
    PROVE  \/ \E c \in Callers : CallRestart(c) \/ CallWait(c) \/ Receive(c)
           \/ \E c \in Callers : MethodStep(c)
           \/ \E g \in Gens : WaitGoroutine(g)
           \/ \E g \in Gens, r \in Results : Exit(g, r)
           \/ CancelParent
BY ProcessAssumption DEF ProcessAssumption, Next, CtxKill, Results

\* d.mu is held by whoever is inside a method.
LEMMA NextLockInv == TypeOK /\ LockInv /\ [Next]_procVars => LockInv'
<1> SUFFICES ASSUME TypeOK, LockInv, [Next]_procVars PROVE LockInv'
    OBVIOUS
<1> USE DEF LockInv, Critical, callerVars
<1>1. CASE UNCHANGED callerVars
      BY <1>1
<1>2. ASSUME NEW c \in Callers, MethodStep(c) PROVE LockInv'
  <2> USE DEF Lock, Goto, Return, TypeOK
  <2>1. CASE StartLock(c) \/ RestartLock(c)
        BY <2>1, ProcessAssumption DEF ProcessAssumption, StartLock, RestartLock
  <2>2. CASE KillMark(c)       BY <2>2 DEF KillMark
  <2>3. CASE KillSignal(c)     BY <2>3 DEF KillSignal
  <2>4. CASE KillPoll(c)       BY <2>4 DEF KillPoll
  <2>5. CASE KillSelect(c)     BY <2>5 DEF KillSelect
  <2>6. CASE RestartSwap(c)    BY <2>6 DEF RestartSwap
  <2>7. CASE RestartSwapCh(c)  BY <2>7 DEF RestartSwapCh
  <2>8. CASE startProcess(c)   BY <2>8 DEF startProcess
  <2> QED BY <1>2, <2>1, <2>2, <2>3, <2>4, <2>5, <2>6, <2>7, <2>8 DEF MethodStep
<1>3. ASSUME NEW c \in Callers, CallRestart(c) PROVE LockInv'
      BY <1>3 DEF CallRestart, Goto, TypeOK
<1>4. ASSUME NEW c \in Callers, CallWait(c) \/ Receive(c) PROVE UNCHANGED callerVars
      BY <1>4 DEF CallWait, Wait, Receive
<1>5. ASSUME NEW g \in Gens, WaitGoroutine(g) PROVE UNCHANGED callerVars
      BY <1>5 DEF WaitGoroutine, DeferCancel, DeferClose, CmdWait, LoadUserKilled, Send,
                  DeferredClose, DeferredCancel
<1>6. ASSUME NEW g \in Gens, NEW r \in Results, Exit(g, r) PROVE UNCHANGED callerVars
      BY <1>6 DEF Exit
<1>7. CASE CancelParent
      BY <1>1, <1>7 DEF CancelParent
<1>8. CASE UNCHANGED procVars
      BY <1>1, <1>8 DEF procVars
<1> QED BY <1>1, <1>2, <1>3, <1>4, <1>5, <1>6, <1>7, <1>8, NextCases

\* The fields agree except inside a swap, and nobody starts a generation twice.
LEMMA NextFieldInv ==
    TypeOK /\ LockInv /\ FieldInv /\ [Next]_procVars => FieldInv'
<1> SUFFICES ASSUME TypeOK, LockInv, FieldInv, [Next]_procVars PROVE FieldInv'
    OBVIOUS
<1>1. CASE UNCHANGED <<pc, fieldVars, os>>
      BY <1>1 DEF FieldInv, fieldVars
<1>2. ASSUME NEW c \in Callers, MethodStep(c) PROVE FieldInv'
  <2> USE GensFacts DEF Lock, Goto, Return, TypeOK, LockInv, Critical, FieldInv,
                        fieldVars, osVars
  <2>1. CASE StartLock(c)      BY <2>1, ProcessAssumption DEF ProcessAssumption, StartLock
  <2>2. CASE RestartLock(c)    BY <2>2, ProcessAssumption DEF ProcessAssumption, RestartLock
  <2>3. CASE KillMark(c)       BY <2>3 DEF KillMark
  <2>4. CASE KillSignal(c)     BY <2>4 DEF KillSignal
  <2>5. CASE KillPoll(c)       BY <2>5 DEF KillPoll
  <2>6. CASE KillSelect(c)     BY <2>6 DEF KillSelect
  <2>7. CASE RestartSwap(c)    BY <2>7 DEF RestartSwap
  <2>8. CASE RestartSwapCh(c)  BY <2>8 DEF RestartSwapCh
  <2>9. CASE startProcess(c)   BY <2>9 DEF startProcess
  <2> QED BY <1>2, <2>1, <2>2, <2>3, <2>4, <2>5, <2>6, <2>7, <2>8, <2>9 DEF MethodStep
<1>3. ASSUME NEW c \in Callers, CallRestart(c) PROVE FieldInv'
      BY <1>3 DEF CallRestart, Goto, TypeOK, FieldInv, fieldVars, osVars
<1>4. ASSUME NEW c \in Callers, CallWait(c) \/ Receive(c) PROVE FieldInv'
      BY <1>1, <1>4 DEF CallWait, Wait, Receive, callerVars, osVars
<1>5. ASSUME NEW g \in Gens, WaitGoroutine(g) PROVE FieldInv'
  <2>1. CASE CmdWait(g)
        BY <2>1 DEF CmdWait, FieldInv, TypeOK, callerVars, fieldVars
  <2>2. CASE ~CmdWait(g)
        BY <1>1, <1>5, <2>2 DEF WaitGoroutine, DeferCancel, DeferClose, LoadUserKilled, Send,
                                DeferredClose, DeferredCancel, callerVars, osVars
  <2> QED BY <2>1, <2>2
<1>6. ASSUME NEW g \in Gens, NEW r \in Results, Exit(g, r) PROVE FieldInv'
      BY <1>6 DEF Exit, FieldInv, TypeOK, callerVars, fieldVars
<1>7. CASE CancelParent
      BY <1>1, <1>7 DEF CancelParent, callerVars, osVars
<1>8. CASE UNCHANGED procVars
      BY <1>1, <1>8 DEF procVars, callerVars, osVars
<1> QED BY <1>2, <1>3, <1>4, <1>5, <1>6, <1>7, <1>8, NextCases

\* The wait goroutine and its process go together.
LEMMA NextGoInv ==
    TypeOK /\ LockInv /\ FieldInv /\ GoInv /\ [Next]_procVars => GoInv'
<1> SUFFICES ASSUME TypeOK, LockInv, FieldInv, GoInv, [Next]_procVars PROVE GoInv'
    OBVIOUS
<1>1. CASE UNCHANGED <<gpc, gVal, os, res>>
      BY <1>1 DEF GoInv
<1>2. ASSUME NEW c \in Callers, MethodStep(c) PROVE GoInv'
  <2>1. CASE startProcess(c)
        BY <2>1 DEF startProcess, GoInv, FieldInv, TypeOK
  <2>2. CASE ~startProcess(c)
        BY <1>1, <1>2, <2>2 DEF MethodStep, StartLock, RestartLock, KillMark, KillSignal,
                KillPoll, KillSelect, RestartSwap, RestartSwapCh, goVars, osVars
  <2> QED BY <2>1, <2>2
<1>3. ASSUME NEW c \in Callers, CallRestart(c) \/ CallWait(c) \/ Receive(c) PROVE GoInv'
      BY <1>1, <1>3 DEF CallRestart, CallWait, Wait, Receive, goVars, osVars
<1>4. ASSUME NEW g \in Gens, WaitGoroutine(g) PROVE GoInv'
  <2> USE DEF GoGoto, GoInv, TypeOK, osVars, Values, Results
  <2>1. CASE DeferCancel(g)    BY <2>1 DEF DeferCancel
  <2>2. CASE DeferClose(g)     BY <2>2 DEF DeferClose
  <2>3. CASE CmdWait(g)        BY <2>3 DEF CmdWait
  <2>4. CASE LoadUserKilled(g) BY <2>4 DEF LoadUserKilled
  <2>5. CASE Send(g)           BY <2>5 DEF Send
  <2>6. CASE DeferredClose(g)  BY <2>6 DEF DeferredClose
  <2>7. CASE DeferredCancel(g) BY <2>7 DEF DeferredCancel
  <2> QED BY <1>4, <2>1, <2>2, <2>3, <2>4, <2>5, <2>6, <2>7 DEF WaitGoroutine
<1>5. ASSUME NEW g \in Gens, NEW r \in Results, Exit(g, r) PROVE GoInv'
      BY <1>5 DEF Exit, GoInv, TypeOK, goVars
<1>6. CASE CancelParent
      BY <1>1, <1>6 DEF CancelParent, goVars, osVars
<1>7. CASE UNCHANGED procVars
      BY <1>1, <1>7 DEF procVars, goVars, osVars
<1> QED BY <1>2, <1>3, <1>4, <1>5, <1>6, <1>7, NextCases

\* kill's store to *userKilled comes before its signal, and its signal before
\* the collection of the process; so it comes before the goroutine's load.
LEMMA NextKillInv ==
    TypeOK /\ LockInv /\ FieldInv /\ GoInv /\ KillInv /\ [Next]_procVars => KillInv'
<1> SUFFICES ASSUME TypeOK, LockInv, FieldInv, GoInv, KillInv, [Next]_procVars
             PROVE  KillInv'
    OBVIOUS
<1>1. CASE UNCHANGED <<pc, gen, userKilled, gVal, os>>
      BY <1>1 DEF KillInv
<1>2. ASSUME NEW c \in Callers, MethodStep(c) PROVE KillInv'
  <2> USE GensFacts DEF Goto, Return, TypeOK, LockInv, Critical, KillInv, fieldVars, osVars, goVars
  <2>1. CASE StartLock(c)      BY <2>1 DEF StartLock
  <2>2. CASE RestartLock(c)    BY <2>2 DEF RestartLock
  <2>3. CASE KillMark(c)
    <3>1. chGen = gen
          BY <2>3 DEF KillMark, FieldInv
    <3>2. \A d \in Callers \ {c} : pc[d] \notin Critical /\ pc'[d] = pc[d]
          BY <2>3 DEF KillMark
    <3>3. CASE os[gen] = "none"
          BY <2>3, <3>2, <3>3 DEF KillMark
    <3>4. CASE os[gen] # "none"
      <4>1. userKilled' = [userKilled EXCEPT ![gen] = TRUE] /\ pc' = [pc EXCEPT ![c] = "signal"]
            BY <2>3, <3>1, <3>4 DEF KillMark
      <4>2. UNCHANGED <<gen, gVal, os>>
            BY <2>3 DEF KillMark
      <4> QED BY <3>2, <4>1, <4>2
    <3> QED BY <3>3, <3>4
  <2>4. CASE KillSignal(c)
        BY <2>4 DEF KillSignal, GoInv, GoPCs
  <2>5. CASE KillPoll(c)       BY <2>5 DEF KillPoll
  <2>6. CASE KillSelect(c)     BY <2>6 DEF KillSelect
  <2>7. CASE RestartSwap(c)
        BY <2>7 DEF RestartSwap, FieldInv
  <2>8. CASE RestartSwapCh(c)  BY <2>8 DEF RestartSwapCh
  <2>9. CASE startProcess(c)   BY <2>9 DEF startProcess
  <2> QED BY <1>2, <2>1, <2>2, <2>3, <2>4, <2>5, <2>6, <2>7, <2>8, <2>9 DEF MethodStep
<1>3. ASSUME NEW c \in Callers, CallRestart(c) PROVE KillInv'
      BY <1>3 DEF CallRestart, Goto, TypeOK, KillInv, fieldVars, osVars, goVars
<1>4. ASSUME NEW c \in Callers, CallWait(c) \/ Receive(c) PROVE KillInv'
      BY <1>1, <1>4 DEF CallWait, Wait, Receive, callerVars, fieldVars, osVars, goVars
<1>5. ASSUME NEW g \in Gens, WaitGoroutine(g) PROVE KillInv'
  <2>1. CASE CmdWait(g)
        BY <2>1 DEF CmdWait, KillInv, TypeOK, callerVars, fieldVars
  <2>2. CASE LoadUserKilled(g)
    <3>1. UNCHANGED <<pc, gen, userKilled, os>> /\ gVal' = [gVal EXCEPT ![g] = IF userKilled[g] THEN "killed" ELSE res[g]]
          BY <2>2 DEF LoadUserKilled, callerVars, fieldVars, osVars
    <3>2. userKilled[gen] => gVal'[gen] \in {gVal[gen], "killed"}
          BY <3>1 DEF TypeOK
    <3> QED BY <3>1, <3>2 DEF KillInv
  <2>3. CASE ~CmdWait(g) /\ ~LoadUserKilled(g)
        BY <1>1, <1>5, <2>3 DEF WaitGoroutine, DeferCancel, DeferClose, Send, DeferredClose,
                                DeferredCancel, callerVars, fieldVars, osVars
  <2> QED BY <2>1, <2>2, <2>3
<1>6. ASSUME NEW g \in Gens, NEW r \in Results, Exit(g, r) PROVE KillInv'
      BY <1>6 DEF Exit, KillInv, TypeOK, callerVars, fieldVars, goVars
<1>7. CASE CancelParent
      BY <1>1, <1>7 DEF CancelParent, callerVars, fieldVars, osVars, goVars
<1>8. CASE UNCHANGED procVars
      BY <1>1, <1>8 DEF procVars, callerVars, fieldVars, osVars, goVars
<1> QED BY <1>2, <1>3, <1>4, <1>5, <1>6, <1>7, <1>8, NextCases

\* What a replaced generation sends was decided when it was replaced.
LEMMA NextReplaced ==
    /\ TypeOK /\ LockInv /\ FieldInv /\ GoInv /\ KillInv /\ ReplacedReportsUserKilled
    /\ [Next]_procVars
    => ReplacedReportsUserKilled'
<1> SUFFICES ASSUME TypeOK, LockInv, FieldInv, GoInv, KillInv, ReplacedReportsUserKilled,
                    [Next]_procVars
             PROVE  ReplacedReportsUserKilled'
    OBVIOUS
<1>1. CASE UNCHANGED <<gen, gVal>>
      BY <1>1 DEF ReplacedReportsUserKilled
<1>2. ASSUME NEW c \in Callers, MethodStep(c) PROVE ReplacedReportsUserKilled'
  <2>1. CASE RestartSwap(c)
    <3>1. gen' = gen + 1 /\ gVal' = gVal /\ gVal[gen] \in {"none", "killed"}
          BY <2>1 DEF RestartSwap, KillInv, goVars
    <3>2. \A g \in Gens : g < gen' => g < gen \/ g = gen
          BY <3>1, GensFacts DEF TypeOK
    <3> QED BY <3>1, <3>2 DEF ReplacedReportsUserKilled
  <2>2. CASE ~RestartSwap(c)
        BY <1>1, <1>2, <2>2 DEF MethodStep, StartLock, RestartLock, KillMark, KillSignal,
                KillPoll, KillSelect, RestartSwapCh, startProcess, fieldVars, goVars
  <2> QED BY <2>1, <2>2
<1>3. ASSUME NEW c \in Callers, CallRestart(c) \/ CallWait(c) \/ Receive(c)
      PROVE  ReplacedReportsUserKilled'
      BY <1>1, <1>3 DEF CallRestart, CallWait, Wait, Receive, fieldVars, goVars
<1>4. ASSUME NEW g \in Gens, WaitGoroutine(g) PROVE ReplacedReportsUserKilled'
  <2>1. CASE LoadUserKilled(g)
    <3>1. gen' = gen /\ gVal' = [gVal EXCEPT ![g] = IF userKilled[g] THEN "killed" ELSE res[g]]
          BY <2>1 DEF LoadUserKilled, fieldVars
    <3>2. g < gen => userKilled[g]
          BY DEF KillInv
    <3> QED BY <3>1, <3>2 DEF ReplacedReportsUserKilled, TypeOK
  <2>2. CASE ~LoadUserKilled(g)
        BY <1>1, <1>4, <2>2 DEF WaitGoroutine, DeferCancel, DeferClose, CmdWait, Send,
                DeferredClose, DeferredCancel, fieldVars
  <2> QED BY <2>1, <2>2
<1>5. ASSUME NEW g \in Gens, NEW r \in Results, Exit(g, r) PROVE ReplacedReportsUserKilled'
      BY <1>1, <1>5 DEF Exit, fieldVars, goVars
<1>6. CASE CancelParent
      BY <1>1, <1>6 DEF CancelParent, fieldVars, goVars
<1>7. CASE UNCHANGED procVars
      BY <1>1, <1>7 DEF procVars, fieldVars, goVars
<1> QED BY <1>2, <1>3, <1>4, <1>5, <1>6, <1>7, NextCases

\* A result goes only into the channel of the generation it belongs to.
LEMMA NextCrashErrors ==
    /\ TypeOK /\ FieldInv /\ GoInv /\ ReplacedReportsUserKilled /\ CrashErrorsAreGenuine
    /\ [Next]_procVars
    => CrashErrorsAreGenuine'
<1> SUFFICES ASSUME TypeOK, FieldInv, GoInv, ReplacedReportsUserKilled,
                    CrashErrorsAreGenuine, [Next]_procVars
             PROVE  CrashErrorsAreGenuine'
    OBVIOUS
<1> USE DEF CrashErrorsAreGenuine
<1>1. CASE UNCHANGED <<chBuf, os, res>>
      BY <1>1
<1>2. ASSUME NEW c \in Callers, MethodStep(c) PROVE CrashErrorsAreGenuine'
  <2>1. CASE startProcess(c)
        BY <2>1 DEF startProcess, FieldInv, TypeOK, chanVars
  <2>2. CASE ~startProcess(c)
        BY <1>1, <1>2, <2>2 DEF MethodStep, StartLock, RestartLock, KillMark, KillSignal,
                KillPoll, KillSelect, RestartSwap, RestartSwapCh, osVars, chanVars
  <2> QED BY <2>1, <2>2
<1>3. ASSUME NEW c \in Callers, CallRestart(c) \/ CallWait(c) PROVE CrashErrorsAreGenuine'
      BY <1>1, <1>3 DEF CallRestart, CallWait, Wait, osVars, chanVars
<1>4. ASSUME NEW c \in Callers, Receive(c) PROVE CrashErrorsAreGenuine'
  <2>1. UNCHANGED <<os, res>> /\ \A h \in Gens : chBuf'[h] \in {chBuf[h], "empty"}
        BY <1>4 DEF Receive, TypeOK, osVars
  <2> QED BY <2>1 DEF Results
<1>5. ASSUME NEW g \in Gens, WaitGoroutine(g) PROVE CrashErrorsAreGenuine'
  <2>1. CASE Send(g)
    <3>1. UNCHANGED <<os, res>> /\ (chBuf' = chBuf \/ chBuf' = [chBuf EXCEPT ![chGen] = gVal[g]])
          BY <2>1 DEF Send, osVars
    <3>2. os[g] = "reaped" /\ gVal[g] \in {"killed", res[g]}
          BY <2>1 DEF Send, GoInv
    <3>3. ASSUME gVal[g] # "killed" PROVE g = chGen /\ gVal[g] = res[g]
      <4>1. gVal[g] = res[g] /\ gVal[g] # "none"
            BY <3>2, <3>3 DEF GoInv, Results
      <4>2. g = gen
        <5>1. ~(g < gen)
              BY <3>3, <4>1 DEF ReplacedReportsUserKilled
        <5>2. ~(g > gen)
              BY <3>2 DEF FieldInv
        <5> QED BY <5>1, <5>2, GensFacts DEF TypeOK
      <4>3. \A c \in Callers : pc[c] # "swapCh"
            BY <3>2, <4>2 DEF FieldInv
      <4> QED BY <4>1, <4>2, <4>3 DEF FieldInv
    <3> QED BY <3>1, <3>2, <3>3 DEF TypeOK, Results
  <2>2. CASE CmdWait(g)
        BY <2>2 DEF CmdWait, TypeOK, chanVars
  <2>3. CASE ~Send(g) /\ ~CmdWait(g)
        BY <1>1, <1>5, <2>3 DEF WaitGoroutine, DeferCancel, DeferClose, LoadUserKilled,
                DeferredClose, DeferredCancel, osVars, chanVars
  <2> QED BY <2>1, <2>2, <2>3
<1>6. ASSUME NEW g \in Gens, NEW r \in Results, Exit(g, r) PROVE CrashErrorsAreGenuine'
      BY <1>6 DEF Exit, TypeOK, chanVars
<1>7. CASE CancelParent
      BY <1>1, <1>7 DEF CancelParent, osVars, chanVars
<1>8. CASE UNCHANGED procVars
      BY <1>1, <1>8 DEF procVars, osVars, chanVars
<1> QED BY <1>2, <1>3, <1>4, <1>5, <1>6, <1>7, <1>8, NextCases

-----------------------------------------------------------------------------
(* The invariants of the specification.                                    *)

\* The inductive invariant holds of what New returns.
LEMMA InitIInv == Init => IInv
<1> SUFFICES ASSUME Init PROVE IInv
    OBVIOUS
<1>1. TypeOK
      BY InitTypeOK
<1>2. \A c \in Callers : pc[c] \in {"start", "idle"} /\ (pc[c] = "start" => c = Owner)
      BY DEF Init
<1>3. LockInv /\ FieldInv
      BY <1>2, GensFacts DEF Init, LockInv, FieldInv, Critical
<1>4. GoInv
      BY DEF Init, GoInv
<1>5. KillInv /\ ReplacedReportsUserKilled /\ CrashErrorsAreGenuine
      BY <1>2, GensFacts DEF Init, KillInv, ReplacedReportsUserKilled, CrashErrorsAreGenuine, Results
<1> QED BY <1>1, <1>3, <1>4, <1>5 DEF IInv

\* The inductive invariant: the types and every fact above, proved one by one.
LEMMA InductiveInvariant == Spec => []IInv
<1>1. IInv /\ [Next]_procVars => IInv'
      BY NextTypeOK, NextLockInv, NextFieldInv, NextGoInv, NextKillInv, NextReplaced,
         NextCrashErrors DEF IInv
<1> QED BY InitIInv, <1>1, PTL DEF Spec

\* The types of the model hold for every set of callers, every command line and
\* every bound on generations.
THEOREM TypeCorrect == Spec => []TypeOK
<1>1. IInv => TypeOK
      BY DEF IInv
<1> QED BY InductiveInvariant, <1>1, PTL

\* However many restarts there are and whoever calls them: once a generation is
\* replaced, ErrUserKilled is all its wait goroutine can send.
THEOREM ReplacedGenerations == Spec => []ReplacedReportsUserKilled
<1>1. IInv => ReplacedReportsUserKilled
      BY DEF IInv
<1> QED BY InductiveInvariant, <1>1, PTL

\* A crash found in a wait channel happened, to the process the channel is for.
THEOREM GenuineCrashes == Spec => []CrashErrorsAreGenuine
<1>1. IInv => CrashErrorsAreGenuine
      BY DEF IInv
<1> QED BY InductiveInvariant, <1>1, PTL

-----------------------------------------------------------------------------
(* Nothing is replaced that was not told to stop.                          *)

\* kill leaves the marks on its way to the polling loop.
SignalInv ==
    /\ \A g \in Gens : g < gen => sigterm[g]
    /\ \A c \in Callers : pc[c] \in {"poll", "select", "swap"} => sigterm[gen]

\* No step takes a signal back, and only RestartSwap, from "swap", leaves a generation.
LEMMA NextSignalInv == IInv /\ SignalInv /\ [Next]_procVars => SignalInv'
<1> SUFFICES ASSUME IInv, SignalInv, [Next]_procVars PROVE SignalInv'
    OBVIOUS
<1>1. CASE UNCHANGED <<pc, gen, sigterm>>
      BY <1>1 DEF SignalInv
<1>2. ASSUME NEW c \in Callers, MethodStep(c) PROVE SignalInv'
  <2> USE DEF IInv, TypeOK, SignalInv, Goto, Return, osVars, fieldVars
  <2>1. CASE StartLock(c)      BY <2>1 DEF StartLock
  <2>2. CASE RestartLock(c)    BY <2>2 DEF RestartLock
  <2>3. CASE KillMark(c)       BY <2>3 DEF KillMark
  <2>4. CASE KillSignal(c)
    <3>1. CASE UNCHANGED sigterm /\ Return(c, "err")
          BY <2>4, <3>1 DEF KillSignal
    <3>2. CASE sigterm' = [sigterm EXCEPT ![gen] = TRUE]
          BY <2>4, <3>2 DEF KillSignal
    <3> QED BY <2>4, <3>1, <3>2 DEF KillSignal
  <2>5. CASE KillPoll(c)       BY <2>5 DEF KillPoll
  <2>6. CASE KillSelect(c)     BY <2>6 DEF KillSelect
  <2>7. CASE RestartSwap(c)
    <3>1. gen' = gen + 1 /\ sigterm' = sigterm /\ sigterm[gen]
          BY <2>7 DEF RestartSwap
    <3>2. \A g \in Gens : g < gen' => sigterm'[g]
          BY <3>1, GensFacts
    <3>3. \A d \in Callers : pc'[d] \notin {"poll", "select", "swap"}
          BY <2>7 DEF RestartSwap, LockInv, Critical
    <3> QED BY <3>2, <3>3
  <2>8. CASE RestartSwapCh(c)  BY <2>8 DEF RestartSwapCh
  <2>9. CASE startProcess(c)   BY <2>9 DEF startProcess
  <2> QED BY <1>2, <2>1, <2>2, <2>3, <2>4, <2>5, <2>6, <2>7, <2>8, <2>9 DEF MethodStep
<1>3. ASSUME NEW c \in Callers, CallRestart(c) PROVE SignalInv'
      BY <1>3 DEF CallRestart, Goto, IInv, TypeOK, SignalInv, osVars, fieldVars
<1>4. ASSUME NEW c \in Callers, CallWait(c) \/ Receive(c) PROVE SignalInv'
      BY <1>1, <1>4 DEF CallWait, Wait, Receive, callerVars, osVars, fieldVars
<1>5. ASSUME NEW g \in Gens, WaitGoroutine(g) PROVE SignalInv'
      BY <1>1, <1>5 DEF WaitGoroutine, DeferCancel, DeferClose, CmdWait, LoadUserKilled, Send,
              DeferredClose, DeferredCancel, callerVars, fieldVars, osVars
<1>6. ASSUME NEW g \in Gens, NEW r \in Results, Exit(g, r) PROVE SignalInv'
      BY <1>1, <1>6 DEF Exit, callerVars, fieldVars
<1>7. CASE CancelParent
      BY <1>1, <1>7 DEF CancelParent, callerVars, fieldVars, osVars
<1>8. CASE UNCHANGED procVars
      BY <1>1, <1>8 DEF procVars, callerVars, fieldVars, osVars
<1> QED BY <1>2, <1>3, <1>4, <1>5, <1>6, <1>7, <1>8, NextCases

\* Whatever /proc shows, and however often and by whom the command is restarted: a
\* replaced process was marked and sent SIGTERM.  Two may run at once all the same,
\* which the run ProcessTwoLive shows, but never two that are meant to go on.
THEOREM ReplacedSignalled == Spec => []ReplacedWereSignalled
<1>1. Init => SignalInv
      BY GensFacts DEF Init, SignalInv
<1>2. IInv /\ SignalInv => ReplacedWereSignalled
      BY DEF IInv, KillInv, SignalInv, ReplacedWereSignalled
<1>3. IInv /\ SignalInv /\ [Next]_procVars => SignalInv'
      BY NextSignalInv
<1> QED BY InductiveInvariant, <1>1, <1>2, <1>3, PTL DEF Spec

-----------------------------------------------------------------------------
(* Without a restart the goroutine touches its own channel only.           *)

PanicInv ==
    gen = 1 =>
        /\ \A g \in Gens : chClosed[g] => g = 1 /\ gpc[g] \in {"cancel", "exited"}
        /\ \A g \in Gens : gpc[g] \in {"wait", "load", "send", "close"} => gClose[g] = 1
        /\ \A g \in Gens : gpc[g] # "panic"

\* Until a restart no step closes a channel that is still to be sent on.
LEMMA NextPanicInv == IInv /\ PanicInv /\ [Next]_procVars => PanicInv'
<1> SUFFICES ASSUME IInv, PanicInv, [Next]_procVars, gen' = 1 PROVE PanicInv'
    BY DEF PanicInv
<1>1. CASE UNCHANGED <<gen, gpc, gClose, chClosed>>
      BY <1>1 DEF PanicInv
<1>2. ASSUME NEW c \in Callers, MethodStep(c) PROVE PanicInv'
  <2>1. CASE startProcess(c)
    <3>1. gpc[gen] = "none" /\ gen = 1
          BY <2>1 DEF startProcess, IInv, GoInv, FieldInv, TypeOK, fieldVars
    <3>2. UNCHANGED <<gClose, chClosed>>
          BY <2>1 DEF startProcess, chanVars
    <3>3. gpc' = gpc \/ gpc' = [gpc EXCEPT ![gen] = "spawned"]
          BY <2>1 DEF startProcess
    <3> QED BY <3>1, <3>2, <3>3 DEF PanicInv, IInv, TypeOK
  <2>2. CASE RestartSwap(c)
        BY <2>2, GensFacts DEF RestartSwap, IInv, TypeOK
  <2>3. CASE ~startProcess(c) /\ ~RestartSwap(c)
        BY <1>1, <1>2, <2>3 DEF MethodStep, StartLock, RestartLock, KillMark, KillSignal,
                KillPoll, KillSelect, RestartSwapCh, fieldVars, chanVars, goVars
  <2> QED BY <2>1, <2>2, <2>3
<1>3. ASSUME NEW c \in Callers, CallRestart(c) \/ CallWait(c) \/ Receive(c) PROVE PanicInv'
      BY <1>1, <1>3 DEF CallRestart, CallWait, Wait, Receive, fieldVars, chanVars, goVars
<1>4. ASSUME NEW g \in Gens, WaitGoroutine(g) PROVE PanicInv'
  <2>1. gen = 1 /\ chGen = 1
        BY <1>4, GensFacts DEF WaitGoroutine, DeferCancel, DeferClose, CmdWait, LoadUserKilled,
                Send, DeferredClose, DeferredCancel, fieldVars, IInv, FieldInv, TypeOK
  <2>2. gpc[g] # "none" => g = 1
    <3>1. ~(g > gen) \/ gpc[g] = "none"
          BY DEF IInv, FieldInv, GoInv
    <3> QED BY <2>1, <3>1, GensFacts
  <2> USE DEF PanicInv, IInv, TypeOK, GoGoto
  <2>3. CASE DeferCancel(g)    BY <2>1, <2>3 DEF DeferCancel, chanVars
  <2>4. CASE DeferClose(g)     BY <2>1, <2>4 DEF DeferClose, chanVars
  <2>5. CASE CmdWait(g)        BY <2>1, <2>5 DEF CmdWait, chanVars
  <2>6. CASE LoadUserKilled(g) BY <2>1, <2>6 DEF LoadUserKilled, chanVars
  <2>7. CASE Send(g)           BY <2>1, <2>2, <2>7 DEF Send
  <2>8. CASE DeferredClose(g)  BY <2>1, <2>2, <2>8 DEF DeferredClose
  <2>9. CASE DeferredCancel(g) BY <2>1, <2>9 DEF DeferredCancel, chanVars
  <2> QED BY <1>4, <2>3, <2>4, <2>5, <2>6, <2>7, <2>8, <2>9 DEF WaitGoroutine
<1>5. ASSUME NEW g \in Gens, NEW r \in Results, Exit(g, r) PROVE PanicInv'
      BY <1>1, <1>5 DEF Exit, fieldVars, chanVars, goVars
<1>6. CASE CancelParent
      BY <1>1, <1>6 DEF CancelParent, fieldVars, chanVars, goVars
<1>7. CASE UNCHANGED procVars
      BY <1>1, <1>7 DEF procVars, fieldVars, chanVars, goVars
<1> QED BY <1>2, <1>3, <1>4, <1>5, <1>6, <1>7, NextCases

\* sysbox-mgr and sysbox-fs, which nothing restarts, cannot bring the program
\* down by a send on a closed channel; dockerd, which is restarted, can.
THEOREM PanicTakesRestart == Spec => []PanicOnlyAfterRestart
<1>1. Init => PanicInv
      BY DEF Init, PanicInv
<1>2. IInv /\ PanicInv => PanicOnlyAfterRestart
      BY GensFacts DEF IInv, TypeOK, PanicInv, PanicOnlyAfterRestart, Panicked
<1> QED BY InductiveInvariant, NextPanicInv, <1>1, <1>2, PTL DEF Spec

-----------------------------------------------------------------------------
(* Process implements Daemon: each step of the code is one of its steps, or *)
(* changes nothing it talks about.                                         *)

\* Where an old goroutine's reads of the fields can take it.
RefInv ==
    /\ gen <= chGen + 1
    /\ \A g \in Gens : gpc[g] \in {"wait", "load", "send", "close"} => gClose[g] \in g..chGen
    /\ \A g \in Gens : gVal[g] = "killed" => userKilled[g]

\* A generation that was started is not after the channel the fields refer to.
LEMMA StartedBeforeChan ==
    ASSUME IInv, RefInv, NEW g \in Gens, gpc[g] # "none"
    PROVE  g <= chGen /\ chGen <= gen
<1>1. os[g] # "none" /\ g <= gen
      BY GensFacts DEF IInv, GoInv, FieldInv, TypeOK
<1>2. CASE chGen = gen
      BY <1>1, <1>2, GensFacts DEF IInv, TypeOK
<1>3. CASE chGen # gen
  <2>1. os[gen] = "none"
        BY <1>3 DEF IInv, FieldInv
  <2>2. chGen < gen /\ g < gen
        BY <1>1, <1>3, <2>1, GensFacts DEF IInv, FieldInv, TypeOK
  <2> QED BY <2>2, GensFacts DEF RefInv, IInv, TypeOK
<1> QED BY <1>2, <1>3

\* A second swap needs the lock, so the channel is never two generations behind.
LEMMA NextRefInv == IInv /\ RefInv /\ [Next]_procVars => RefInv'
<1> SUFFICES ASSUME IInv, RefInv, [Next]_procVars PROVE RefInv'
    OBVIOUS
<1>1. CASE UNCHANGED <<gen, chGen, gpc, gClose, gVal, userKilled>>
      BY <1>1 DEF RefInv
<1>2. ASSUME NEW c \in Callers, MethodStep(c) PROVE RefInv'
  <2>1. CASE KillMark(c)
    <3>1. UNCHANGED <<gen, chGen, gpc, gClose, gVal>>
          BY <2>1 DEF KillMark, fieldVars, goVars
    <3>2. \A g \in Gens : userKilled[g] => userKilled'[g]
          BY <2>1 DEF KillMark, IInv, TypeOK
    <3> QED BY <3>1, <3>2 DEF RefInv
  <2>2. CASE RestartSwap(c)
    <3>1. gen' = gen + 1 /\ UNCHANGED <<chGen, gpc, gClose, gVal, userKilled>>
          BY <2>2 DEF RestartSwap, goVars
    <3>2. \A d \in Callers : pc[d] # "swapCh"
          BY <2>2 DEF RestartSwap, IInv, LockInv, Critical
    <3>3. chGen = gen
          BY <3>2 DEF IInv, FieldInv
    <3> QED BY <3>1, <3>3, GensFacts DEF RefInv, IInv, TypeOK
  <2>3. CASE RestartSwapCh(c)
    <3>1. chGen' = gen /\ UNCHANGED <<gen, gpc, gClose, gVal, userKilled>>
          BY <2>3 DEF RestartSwapCh, goVars
    <3>2. chGen <= gen
          BY DEF IInv, FieldInv
    <3> QED BY <3>1, <3>2, GensFacts DEF RefInv, IInv, TypeOK
  <2>4. CASE startProcess(c)
    <3>1. UNCHANGED <<gen, chGen, gClose, gVal, userKilled>>
          BY <2>4 DEF startProcess, fieldVars
    <3>2. \A g \in Gens : gpc'[g] \in {gpc[g], "spawned"}
          BY <2>4 DEF startProcess, IInv, TypeOK
    <3> QED BY <3>1, <3>2 DEF RefInv
  <2>5. CASE ~KillMark(c) /\ ~RestartSwap(c) /\ ~RestartSwapCh(c) /\ ~startProcess(c)
        BY <1>1, <1>2, <2>5 DEF MethodStep, StartLock, RestartLock, KillSignal, KillPoll,
                KillSelect, fieldVars, goVars
  <2> QED BY <2>1, <2>2, <2>3, <2>4, <2>5
<1>3. ASSUME NEW c \in Callers, CallRestart(c) \/ CallWait(c) \/ Receive(c) PROVE RefInv'
      BY <1>1, <1>3 DEF CallRestart, CallWait, Wait, Receive, fieldVars, goVars
<1>4. ASSUME NEW g \in Gens, WaitGoroutine(g) PROVE RefInv'
  <2>1. UNCHANGED <<gen, chGen, userKilled>>
        BY <1>4 DEF WaitGoroutine, DeferCancel, DeferClose, CmdWait, LoadUserKilled, Send,
                DeferredClose, DeferredCancel, fieldVars
  <2>2. CASE DeferClose(g)
    <3>1. gClose' = [gClose EXCEPT ![g] = chGen] /\ gVal' = gVal
          BY <2>2 DEF DeferClose
    <3>2. gpc[g] = "deferClose" /\ gpc' = [gpc EXCEPT ![g] = "wait"]
          BY <2>2 DEF DeferClose, GoGoto
    <3>3. g <= chGen
          BY <3>2, StartedBeforeChan
    <3> QED BY <2>1, <3>1, <3>2, <3>3, GensFacts DEF RefInv, IInv, TypeOK
  <2>3. CASE LoadUserKilled(g)
    <3>1. gVal' = [gVal EXCEPT ![g] = IF userKilled[g] THEN "killed" ELSE res[g]]
          BY <2>3 DEF LoadUserKilled
    <3>2. gpc[g] = "load" /\ gpc' = [gpc EXCEPT ![g] = "send"] /\ gClose' = gClose
          BY <2>3 DEF LoadUserKilled, GoGoto
    <3>3. res[g] # "killed"
          BY <3>2 DEF IInv, GoInv, Results
    <3>4. \A h \in Gens : gVal'[h] = "killed" => userKilled[h]
          BY <3>1, <3>3 DEF RefInv, IInv, TypeOK
    <3>5. \A h \in Gens : gpc'[h] \in {"wait", "load", "send", "close"}
                          => gpc[h] \in {"wait", "load", "send", "close"}
          BY <3>2 DEF IInv, TypeOK
    <3> QED BY <2>1, <3>2, <3>4, <3>5 DEF RefInv
  <2>4. CASE ~DeferClose(g) /\ ~LoadUserKilled(g)
    <3>1. UNCHANGED <<gClose, gVal>>
          BY <1>4, <2>4 DEF WaitGoroutine, DeferCancel, CmdWait, Send, DeferredClose,
                  DeferredCancel
    <3>2. \A h \in Gens : gpc'[h] \in {"wait", "load", "send", "close"}
                          => gpc[h] \in {"wait", "load", "send", "close"}
          BY <1>4, <2>4 DEF WaitGoroutine, DeferCancel, CmdWait, Send, DeferredClose,
                  DeferredCancel, GoGoto, IInv, TypeOK
    <3> QED BY <2>1, <3>1, <3>2 DEF RefInv
  <2> QED BY <2>2, <2>3, <2>4
<1>5. ASSUME NEW g \in Gens, NEW r \in Results, Exit(g, r) PROVE RefInv'
      BY <1>1, <1>5 DEF Exit, fieldVars, goVars
<1>6. CASE CancelParent
      BY <1>1, <1>6 DEF CancelParent, fieldVars, goVars
<1>7. CASE UNCHANGED procVars
      BY <1>1, <1>7 DEF procVars, fieldVars, goVars
<1> QED BY <1>2, <1>3, <1>4, <1>5, <1>6, <1>7, NextCases

-----------------------------------------------------------------------------
(* The steps, as Daemon sees them.                                         *)

\* What Daemon sees, and what decides it.
LEMMA UnseenStep ==
    ASSUME UNCHANGED <<gen, res, userKilled, chBuf, chClosed>>,
           UNCHANGED daemonProc, UNCHANGED daemonSaid
    PROVE  UNCHANGED D!daemonVars
BY DEF D!daemonVars

\* Daemon sees of a goroutine only whether it reported and whether it ended.
LEMMA UnseenGoroutine ==
    ASSUME UNCHANGED <<gen, os, res, userKilled, chBuf, chClosed, gpc, gVal>>
    PROVE  UNCHANGED D!daemonVars
<1>1. daemonProc' = daemonProc /\ daemonSaid' = daemonSaid
      BY DEF daemonProc, daemonSaid
<1> QED BY <1>1, UnseenStep

\* A step of one generation moves that generation only.
LEMMA OneMoves ==
    ASSUME NEW g \in Gens, NEW s, daemonProc'[g] = s,
           os' = os \/ \E v : os' = [os EXCEPT ![g] = v],
           gpc' = gpc \/ \E v : gpc' = [gpc EXCEPT ![g] = v],
           IInv
    PROVE  daemonProc' = [daemonProc EXCEPT ![g] = s]
<1>1. \A h \in Gens : h # g => os'[h] = os[h] /\ gpc'[h] = gpc[h]
      BY DEF IInv, TypeOK
<1>2. \A h \in Gens : h # g => daemonProc'[h] = daemonProc[h]
      BY <1>1 DEF daemonProc
<1>3. daemonProc' = [h \in Gens |-> daemonProc'[h]] /\ daemonProc = [h \in Gens |-> daemonProc[h]]
      BY DEF daemonProc
<1> QED BY <1>2, <1>3

\* The steps of the methods: kill marks, Restart replaces, startProcess launches.
LEMMA MethodRefines ==
    ASSUME IInv, RefInv, NEW c \in Callers, MethodStep(c)
    PROVE  D!DaemonNext \/ UNCHANGED D!daemonVars
<1>1. CASE KillMark(c)
  <2>1. CASE UNCHANGED userKilled
        BY <1>1, <2>1, UnseenGoroutine DEF KillMark, fieldVars, osVars, chanVars, goVars
  <2>2. CASE userKilled' = [userKilled EXCEPT ![chGen] = TRUE] /\ os[gen] # "none"
    <3>1. \A d \in Callers : pc[d] # "swapCh"
          BY <1>1 DEF KillMark, IInv, LockInv, Critical
    <3>2. chGen = gen
          BY <3>1 DEF IInv, FieldInv
    <3>3. UNCHANGED <<gen, os, res, chBuf, chClosed, gpc, gVal>>
          BY <1>1 DEF KillMark, fieldVars, osVars, chanVars, goVars
    <3>4. daemonProc' = daemonProc /\ daemonSaid' = daemonSaid
          BY <3>3 DEF daemonProc, daemonSaid
    <3>5. daemonProc[gen] # "none"
          BY <2>2 DEF daemonProc, IInv, TypeOK
    <3>6. D!Mark
          BY <2>2, <3>2, <3>3, <3>4, <3>5 DEF D!Mark
    <3> QED BY <3>6 DEF D!DaemonNext
  <2> QED BY <1>1, <2>1, <2>2 DEF KillMark
<1>2. CASE RestartSwap(c)
  <2>1. gen < MaxGen /\ gen' = gen + 1
        BY <1>2 DEF RestartSwap
  <2>2. UNCHANGED <<os, res, userKilled, chBuf, chClosed, gpc, gVal>>
        BY <1>2 DEF RestartSwap, osVars, chanVars, goVars
  <2>3. daemonProc' = daemonProc /\ daemonSaid' = daemonSaid
        BY <2>2 DEF daemonProc, daemonSaid
  <2>4. userKilled[gen] /\ gVal[gen] \in {"none", "killed"}
        BY <1>2 DEF RestartSwap, IInv, KillInv
  <2>5. daemonSaid[gen] \in {"none", "killed"}
        BY <2>4 DEF daemonSaid, IInv, TypeOK
  <2>6. D!Replace
        BY <2>1, <2>2, <2>3, <2>4, <2>5 DEF D!Replace
  <2> QED BY <2>6 DEF D!DaemonNext
<1>3. CASE startProcess(c)
  <2>1. CASE UNCHANGED <<os, gpc>>
        BY <1>3, <2>1, UnseenGoroutine DEF startProcess, fieldVars, chanVars
  <2>2. CASE /\ os' = [os EXCEPT ![gen] = "running"]
             /\ gpc' = [gpc EXCEPT ![gen] = "spawned"]
    <3>1. UNCHANGED <<gen, res, userKilled, chBuf, chClosed, gVal>>
          BY <1>3 DEF startProcess, fieldVars, chanVars
    <3>2. os[gen] = "none" /\ gpc[gen] = "none"
          BY <1>3 DEF startProcess, IInv, FieldInv, GoInv, TypeOK
    <3>3. daemonProc[gen] = "none" /\ daemonProc' = [daemonProc EXCEPT ![gen] = "up"]
      <4>1. gen \in Gens /\ os'[gen] = "running" /\ gpc'[gen] = "spawned"
            BY <2>2 DEF IInv, TypeOK
      <4>2. daemonProc[gen] = "none" /\ daemonProc'[gen] = "up"
            BY <3>2, <4>1 DEF daemonProc
      <4> QED BY <2>2, <4>1, <4>2, OneMoves
    <3>4. daemonSaid' = daemonSaid
          BY <2>2, <3>1, <3>2 DEF daemonSaid, IInv, TypeOK
    <3>5. D!Launch
          BY <3>1, <3>3, <3>4 DEF D!Launch
    <3> QED BY <3>5 DEF D!DaemonNext
  <2> QED BY <1>3, <2>1, <2>2 DEF startProcess
<1>4. CASE ~KillMark(c) /\ ~RestartSwap(c) /\ ~startProcess(c)
      BY <1>4, UnseenGoroutine DEF MethodStep, StartLock, RestartLock, KillSignal, KillPoll,
         KillSelect, RestartSwapCh, fieldVars, osVars, chanVars, goVars
<1> QED BY <1>1, <1>2, <1>3, <1>4

\* A goroutine's own result goes into its own channel while it is current, and
\* ErrUserKilled into its own or a later one.
LEMMA SendRefines ==
    ASSUME IInv, PanicInv, RefInv, NEW g \in Gens, Send(g)
    PROVE  D!DaemonNext
<1>1. gpc[g] = "send" /\ os[g] = "reaped" /\ gVal[g] \in {"killed", res[g]} /\ res[g] \in Results
      BY DEF Send, IInv, GoInv
<1>2. UNCHANGED <<gen, os, res, userKilled, chClosed, gVal>>
      BY DEF Send, fieldVars, osVars
<1>3. chGen \in Gens /\ chGen \in g..gen
      BY <1>1, StartedBeforeChan, GensFacts DEF IInv, TypeOK
<1>4. daemonProc[g] = "gone"
      BY <1>1 DEF daemonProc
<1>5. CASE chClosed[chGen] /\ gpc' = [gpc EXCEPT ![g] = "panic"] /\ chBuf' = chBuf
  <2>1. gen > 1
    <3>1. gen # 1
      <4> SUFFICES ASSUME gen = 1 PROVE FALSE
          OBVIOUS
      <4>1. g = 1 /\ chGen = 1
            BY <1>3, GensFacts DEF IInv, TypeOK
      <4> QED BY <1>1, <1>5, <4>1 DEF PanicInv
    <3> QED BY <3>1, GensFacts DEF IInv, TypeOK
  <2>2. daemonProc' = [daemonProc EXCEPT ![g] = "broken"]
    <3>1. gpc'[g] = "panic" /\ os'[g] = "reaped"
          BY <1>1, <1>2, <1>5 DEF IInv, TypeOK
    <3>2. daemonProc'[g] = "broken"
          BY <3>1 DEF daemonProc
    <3> QED BY <1>2, <1>5, <3>2, OneMoves
  <2>3. daemonSaid' = [daemonSaid EXCEPT ![g] = "none"]
        BY <1>1, <1>2, <1>5 DEF daemonSaid, IInv, TypeOK
  <2>4. D!Panic(g)
        BY <1>2, <1>3, <1>4, <1>5, <2>1, <2>2, <2>3 DEF D!Panic
  <2> QED BY <2>4 DEF D!DaemonNext, D!Gens, Gens
<1>6. CASE /\ ~chClosed[chGen] /\ chBuf[chGen] = "empty"
           /\ chBuf' = [chBuf EXCEPT ![chGen] = gVal[g]]
           /\ gpc' = [gpc EXCEPT ![g] = "close"]
  <2>1. gVal[g] = "killed" => userKilled[g]
        BY DEF RefInv
  <2>2. ASSUME gVal[g] # "killed" PROVE gVal[g] = res[g] /\ g = gen /\ chGen = g
    <3>1. gVal[g] = res[g] /\ gVal[g] # "none"
          BY <1>1, <2>2 DEF Results
    <3>2. ~(g < gen)
          BY <2>2, <3>1 DEF IInv, ReplacedReportsUserKilled
    <3> QED BY <1>3, <3>1, <3>2, GensFacts DEF IInv, TypeOK
  <2>3. daemonProc' = [daemonProc EXCEPT ![g] = "reported"]
    <3>1. gpc'[g] = "close" /\ os'[g] = "reaped"
          BY <1>1, <1>2, <1>6 DEF IInv, TypeOK
    <3>2. daemonProc'[g] = "reported"
          BY <3>1 DEF daemonProc
    <3> QED BY <1>2, <1>6, <3>2, OneMoves
  <2>4. daemonSaid' = [daemonSaid EXCEPT ![g] = gVal[g]]
        BY <1>1, <1>2, <1>6 DEF daemonSaid, IInv, TypeOK
  <2>5. D!Report(g, gVal[g], chGen)
        BY <1>2, <1>3, <1>4, <1>6, <2>1, <2>2, <2>3, <2>4 DEF D!Report
  <2>6. gVal[g] \in D!Values
        BY <1>1 DEF D!Values, D!Results, Results
  <2> QED BY <1>3, <2>5, <2>6 DEF D!DaemonNext, D!Gens, Gens
<1> QED BY <1>5, <1>6 DEF Send, GoGoto

\* The close hits the channel the fields referred to when the goroutine began.
LEMMA CloseRefines ==
    ASSUME IInv, PanicInv, RefInv, NEW g \in Gens, DeferredClose(g)
    PROVE  D!DaemonNext
<1>1. gpc[g] = "close" /\ os[g] = "reaped"
      BY DEF DeferredClose, IInv, GoInv
<1>2. UNCHANGED <<gen, os, res, userKilled, chBuf, gVal>>
      BY DEF DeferredClose, fieldVars, osVars
<1>3. gClose[g] \in g..gen /\ gClose[g] \in Gens
  <2>1. gClose[g] \in g..chGen /\ chGen <= gen
        BY <1>1, StartedBeforeChan DEF RefInv
  <2>2. gClose[g] # 0
        BY <2>1, GensFacts DEF IInv, TypeOK
  <2> QED BY <2>1, <2>2, GensFacts DEF IInv, TypeOK
<1>4. daemonProc[g] = "reported"
      BY <1>1 DEF daemonProc
<1>5. CASE chClosed[gClose[g]] /\ gpc' = [gpc EXCEPT ![g] = "panic"] /\ chClosed' = chClosed
  <2>1. gen > 1
    <3>1. gen # 1
      <4> SUFFICES ASSUME gen = 1 PROVE FALSE
          OBVIOUS
      <4>1. g = 1 /\ gClose[g] = 1
            BY <1>3, GensFacts DEF IInv, TypeOK
      <4> QED BY <1>1, <1>5, <4>1 DEF PanicInv
    <3> QED BY <3>1, GensFacts DEF IInv, TypeOK
  <2>2. daemonProc' = [daemonProc EXCEPT ![g] = "broken"]
    <3>1. gpc'[g] = "panic" /\ os'[g] = "reaped"
          BY <1>1, <1>2, <1>5 DEF IInv, TypeOK
    <3>2. daemonProc'[g] = "broken"
          BY <3>1 DEF daemonProc
    <3> QED BY <1>2, <1>5, <3>2, OneMoves
  <2>3. daemonSaid' = [daemonSaid EXCEPT ![g] = "none"]
        BY <1>1, <1>2, <1>5 DEF daemonSaid, IInv, TypeOK
  <2>4. D!Panic(g)
        BY <1>2, <1>3, <1>4, <1>5, <2>1, <2>2, <2>3 DEF D!Panic
  <2> QED BY <2>4 DEF D!DaemonNext, D!Gens, Gens
<1>6. CASE /\ ~chClosed[gClose[g]]
           /\ chClosed' = [chClosed EXCEPT ![gClose[g]] = TRUE]
           /\ gpc' = [gpc EXCEPT ![g] = "cancel"]
  <2>1. daemonProc' = [daemonProc EXCEPT ![g] = "finished"]
    <3>1. gpc'[g] = "cancel" /\ os'[g] = "reaped"
          BY <1>1, <1>2, <1>6 DEF IInv, TypeOK
    <3>2. daemonProc'[g] = "finished"
          BY <3>1 DEF daemonProc
    <3> QED BY <1>2, <1>6, <3>2, OneMoves
  <2>2. daemonSaid' = daemonSaid
        BY <1>1, <1>2, <1>6 DEF daemonSaid, IInv, TypeOK
  <2>3. D!Close(g, gClose[g])
        BY <1>2, <1>3, <1>4, <1>6, <2>1, <2>2 DEF D!Close
  <2> QED BY <1>3, <2>3 DEF D!DaemonNext, D!Gens, Gens
<1> QED BY <1>5, <1>6 DEF DeferredClose, GoGoto

\* The steps before the report and after the close are the goroutine's own.
LEMMA GoroutineRefines ==
    ASSUME IInv, PanicInv, RefInv, NEW g \in Gens, WaitGoroutine(g)
    PROVE  D!DaemonNext \/ UNCHANGED D!daemonVars
<1>1. CASE Send(g)
      BY <1>1, SendRefines
<1>2. CASE DeferredClose(g)
      BY <1>2, CloseRefines
<1>3. CASE DeferCancel(g) \/ DeferClose(g) \/ CmdWait(g) \/ LoadUserKilled(g)
  <2>1. UNCHANGED <<gen, res, userKilled, chBuf, chClosed>>
        BY <1>3 DEF DeferCancel, DeferClose, CmdWait, LoadUserKilled, fieldVars, osVars, chanVars
  <2>2. /\ gpc[g] \in {"spawned", "deferClose", "wait", "load"}
        /\ \E l \in {"deferClose", "wait", "load", "send"} : gpc' = [gpc EXCEPT ![g] = l]
        BY <1>3 DEF DeferCancel, DeferClose, CmdWait, LoadUserKilled, GoGoto
  <2>3. \A h \in Gens : h # g => gVal'[h] = gVal[h]
        BY <1>3 DEF DeferCancel, DeferClose, CmdWait, LoadUserKilled, IInv, TypeOK
  <2>4. os' = os \/ (os[g] = "zombie" /\ os' = [os EXCEPT ![g] = "reaped"])
        BY <1>3 DEF DeferCancel, DeferClose, CmdWait, LoadUserKilled, osVars
  <2>5. daemonProc' = daemonProc
        BY <2>2, <2>4 DEF daemonProc, IInv, TypeOK
  <2>6. daemonSaid' = daemonSaid
        BY <2>2, <2>3 DEF daemonSaid, IInv, TypeOK
  <2> QED BY <2>1, <2>5, <2>6, UnseenStep
<1>4. CASE DeferredCancel(g)
  <2>1. UNCHANGED <<gen, os, res, userKilled, chBuf, chClosed, gVal>>
        BY <1>4 DEF DeferredCancel, fieldVars, osVars, chanVars
  <2>2. gpc[g] = "cancel" /\ gpc' = [gpc EXCEPT ![g] = "exited"]
        BY <1>4 DEF DeferredCancel, GoGoto
  <2>3. daemonProc' = daemonProc /\ daemonSaid' = daemonSaid
        BY <2>1, <2>2 DEF daemonProc, daemonSaid, IInv, TypeOK
  <2> QED BY <2>1, <2>3, UnseenStep
<1> QED BY <1>1, <1>2, <1>3, <1>4 DEF WaitGoroutine

\* Every step of Process is one of Daemon or leaves what it sees alone.
LEMMA StepRefines ==
    ASSUME IInv, PanicInv, RefInv, [Next]_procVars
    PROVE  D!DaemonNext \/ UNCHANGED D!daemonVars
<1>1. ASSUME NEW c \in Callers, CallRestart(c) \/ CallWait(c) PROVE UNCHANGED D!daemonVars
      BY <1>1, UnseenGoroutine DEF CallRestart, CallWait, Wait, fieldVars, osVars, chanVars, goVars
<1>2. ASSUME NEW c \in Callers, Receive(c) PROVE D!DaemonNext \/ UNCHANGED D!daemonVars
  <2>1. UNCHANGED <<gen, os, res, userKilled, chClosed, gpc, gVal>>
        BY <1>2 DEF Receive, fieldVars, osVars, goVars
  <2>2. daemonProc' = daemonProc /\ daemonSaid' = daemonSaid
        BY <2>1 DEF daemonProc, daemonSaid
  <2>3. CASE chBuf[wch[c]] # "empty" /\ chBuf' = [chBuf EXCEPT ![wch[c]] = "empty"]
    <3>1. wch[c] \in Gens
          BY <1>2 DEF Receive, IInv, TypeOK
    <3>2. D!Drain(wch[c])
          BY <2>1, <2>2, <2>3 DEF D!Drain
    <3> QED BY <3>1, <3>2 DEF D!DaemonNext, D!Gens, Gens
  <2>4. CASE UNCHANGED chBuf
        BY <2>1, <2>4, UnseenGoroutine
  <2> QED BY <1>2, <2>3, <2>4 DEF Receive
<1>3. ASSUME NEW g \in Gens, NEW r \in Results, Exit(g, r) PROVE D!DaemonNext
  <2>1. os[g] = "running" /\ os' = [os EXCEPT ![g] = "zombie"] /\ res' = [res EXCEPT ![g] = r]
        BY <1>3 DEF Exit
  <2>2. UNCHANGED <<gen, userKilled, chBuf, chClosed, gpc, gVal>>
        BY <1>3 DEF Exit, fieldVars, chanVars, goVars
  <2>3. gpc[g] \in {"spawned", "deferClose", "wait"}
        BY <2>1 DEF IInv, TypeOK, GoInv
  <2>4. daemonProc[g] = "up" /\ daemonProc' = [daemonProc EXCEPT ![g] = "gone"]
    <3>1. os'[g] = "zombie" /\ gpc'[g] \in {"spawned", "deferClose", "wait"}
          BY <2>1, <2>2, <2>3 DEF IInv, TypeOK
    <3>2. daemonProc[g] = "up" /\ daemonProc'[g] = "gone"
          BY <2>1, <2>3, <3>1 DEF daemonProc
    <3> QED BY <2>1, <2>2, <3>2, OneMoves
  <2>5. daemonSaid' = daemonSaid
        BY <2>2 DEF daemonSaid
  <2>6. D!Terminate(g, r)
        BY <2>1, <2>2, <2>4, <2>5 DEF D!Terminate
  <2> QED BY <2>6 DEF D!DaemonNext, D!Gens, Gens, D!Results, Results
<1>4. CASE CancelParent
      BY <1>4, UnseenGoroutine DEF CancelParent, fieldVars, osVars, chanVars, goVars
<1>5. CASE UNCHANGED procVars
      BY <1>5, UnseenGoroutine DEF procVars, fieldVars, osVars, chanVars, goVars
<1> QED BY <1>1, <1>2, <1>3, <1>4, <1>5, NextCases, MethodRefines, GoroutineRefines

\* The code keeps what Daemon promises, for any callers, any command line and any
\* number of restarts: every behaviour of Process is one of Daemon.
THEOREM ProcessImplementsDaemon == Spec => ImplementsDaemon
<1>1. Init => PanicInv /\ RefInv /\ D!DaemonInit
  <2> SUFFICES ASSUME Init PROVE PanicInv /\ RefInv /\ D!DaemonInit
      OBVIOUS
  <2>1. PanicInv /\ RefInv
        BY DEF Init, PanicInv, RefInv
  <2>2. daemonProc = [g \in Gens |-> "none"] /\ daemonSaid = [g \in Gens |-> "none"]
        BY DEF Init, daemonProc, daemonSaid
  <2> QED BY <2>1, <2>2 DEF Init, D!DaemonInit, D!Gens, Gens
<1>2. IInv /\ PanicInv /\ RefInv /\ [Next]_procVars => PanicInv' /\ RefInv'
      BY NextPanicInv, NextRefInv
<1>3. IInv /\ PanicInv /\ RefInv /\ [Next]_procVars => [D!DaemonNext]_(D!daemonVars)
      BY StepRefines
<1> QED BY InductiveInvariant, <1>1, <1>2, <1>3, PTL DEF Spec, ImplementsDaemon, D!DaemonSpec
=============================================================================
