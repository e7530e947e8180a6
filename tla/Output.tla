------------------------------- MODULE Output -------------------------------
(***************************************************************************)
(* What startProcess in background/process.go does with the output of its  *)
(* command, and when cmd.Wait returns because of it.                       *)
(*                                                                         *)
(*   child    the command; its stdout and stderr are one pipe              *)
(*   copier   os/exec's goroutine: reads a chunk, hands it to the          *)
(*            MultiWriter, that is to the pipe of scanIntoLog and then to  *)
(*            the PrefixSuffixWriter                                       *)
(*   scan     scanIntoLog, reading lines from the other end of that pipe   *)
(*   waiter   the wait goroutine: cmd.Wait, Flush, the send on d.waitCh    *)
(*                                                                         *)
(* A write on an io.Pipe returns once everything was read, and nobody      *)
(* closes either end of this one.                                          *)
(***************************************************************************)
EXTENDS PrefixSuffixWriter

CONSTANTS MaxChunk,  \* os/exec copies at most 32 KiB at a time
          MaxLine    \* a Scanner's limit for a line, 64 KiB

ASSUME LineAssumption == MaxLine \in Nat /\ MaxChunk \in 1..MaxLine

VARIABLES
    child,      \* running or exited
    ctxDone,    \* the context of the process is done
    copier,     \* reading, in the pipe, in the PrefixSuffixWriter, or at EOF
    chunk,      \* the bytes it read, and whether they end a line
    scan,       \* scanning or stopped
    pending,    \* bytes of an unfinished line in the scanner
    waiter      \* waiting, flushing, sending or done

pipeVars == <<child, ctxDone, copier, chunk, scan, pending, waiter>>
outVars  == <<vars, pipeVars>>

NoChunk == [size |-> 0, eol |-> FALSE]

OutputInit ==
    /\ Init
    /\ child = "running" /\ ctxDone = FALSE
    /\ copier = "reading" /\ chunk = NoChunk
    /\ scan = "scanning" /\ pending = 0
    /\ waiter = "wait"

\* The child may print until it exits; what it left in the pipe is read later.  A
\* chunk with a line end inside counts as two.
Read(k, eol) ==
    /\ copier = "reading"
    /\ total + k <= MaxBytes
    /\ copier' = "pipe"
    /\ chunk' = [size |-> k, eol |-> eol]
    /\ UNCHANGED <<vars, child, ctxDone, scan, pending, waiter>>

\* A line that does not fit the scanner's buffer, its end included.
TooLong ==
    IF chunk.eol THEN pending + chunk.size > MaxLine ELSE pending + chunk.size >= MaxLine

\* The scanner takes the chunk; with its last byte pw.Write returns.
Scan ==
    /\ scan = "scanning" /\ copier = "pipe"
    /\ ~TooLong
    /\ pending' = IF chunk.eol THEN 0 ELSE pending + chunk.size
    /\ copier' = "out"
    /\ UNCHANGED <<vars, child, ctxDone, chunk, scan, waiter>>

\* scanIntoLog returns: at a line once the context is done, or because Scan
\* gave up on a line.  The chunk may have been read to its end or not.
ScanStops ==
    /\ scan = "scanning" /\ copier = "pipe"
    /\ TooLong \/ (ctxDone /\ chunk.eol)
    /\ scan' = "stopped"
    /\ copier' \in {"pipe", "out"}
    /\ UNCHANGED <<vars, child, ctxDone, chunk, pending, waiter>>

\* The second writer of the MultiWriter.
Keep ==
    /\ copier = "out" /\ chunk # NoChunk
    /\ Write(chunk.size)
    /\ chunk' = NoChunk
    /\ UNCHANGED <<child, ctxDone, copier, scan, pending, waiter>>

KeepLoop ==
    /\ Overwrite
    /\ UNCHANGED pipeVars

KeepReturns ==
    /\ copier = "out" /\ chunk = NoChunk /\ used = total
    /\ copier' = "reading"
    /\ UNCHANGED <<vars, child, ctxDone, chunk, scan, pending, waiter>>

Eof ==
    /\ copier = "reading" /\ child = "exited"
    /\ copier' = "eof"
    /\ UNCHANGED <<vars, child, ctxDone, chunk, scan, pending, waiter>>

Copier == Scan \/ ScanStops \/ Keep \/ KeepLoop \/ KeepReturns \/ Eof

\* Mutant of CmdWait: it does not wait for the copying goroutine.
CmdWaitProcess ==
    /\ waiter = "wait" /\ child = "exited"
    /\ waiter' = "flush"
    /\ UNCHANGED <<vars, child, ctxDone, copier, chunk, scan, pending>>

CmdWait ==
    /\ waiter = "wait" /\ child = "exited" /\ copier = "eof"
    /\ waiter' = "flush"
    /\ UNCHANGED <<vars, child, ctxDone, copier, chunk, scan, pending>>

FlushOutput ==
    /\ waiter = "flush"
    /\ Flush
    /\ waiter' = "send"
    /\ UNCHANGED <<child, ctxDone, copier, chunk, scan, pending>>

SendResult ==
    /\ waiter = "send" /\ waiter' = "done"
    /\ UNCHANGED <<vars, child, ctxDone, copier, chunk, scan, pending>>

Waiter == CmdWait \/ FlushOutput \/ SendResult

ChildExits ==
    /\ child = "running" /\ child' = "exited"
    /\ UNCHANGED <<vars, ctxDone, copier, chunk, scan, pending, waiter>>

Cancel ==
    /\ ~ctxDone /\ ctxDone' = TRUE
    /\ UNCHANGED <<vars, child, copier, chunk, scan, pending, waiter>>

OutputNext ==
    \/ \E k \in 1..MaxChunk, eol \in BOOLEAN : Read(k, eol)
    \/ Copier \/ Waiter \/ ChildExits \/ Cancel

OutputSpec == OutputInit /\ [][OutputNext]_outVars

\* Goroutines run; the child need not exit, print, or be cancelled.
OutputLiveSpec == OutputSpec /\ WF_outVars(Copier) /\ WF_outVars(Waiter)

-----------------------------------------------------------------------------
(* Properties.                                                             *)

\* The states of the pipeline and of the writer at its end: a chunk is under way
\* exactly between its Read and its Write, and nothing is written after the final
\* flush.
OutputTypeOK ==
    /\ TypeOK
    /\ child \in {"running", "exited"} /\ ctxDone \in BOOLEAN
    /\ copier \in {"reading", "pipe", "out", "eof"}
    /\ chunk \in [size : 0..MaxBytes, eol : BOOLEAN]
    /\ scan \in {"scanning", "stopped"} /\ pending \in 0..MaxLine
    /\ waiter \in {"wait", "flush", "send", "done"}
    /\ copier = "pipe" => chunk # NoChunk
    /\ waiter # "wait" => copier = "eof"

\* The exit of a command is reported unless scanIntoLog gave up reading: the
\* circular suffix, the pipe and the flush never hold it up for good.
ExitReportedIfScanned == (child = "exited") ~> (waiter = "done" \/ scan = "stopped")
=============================================================================
