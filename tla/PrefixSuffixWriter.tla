------------------------- MODULE PrefixSuffixWriter -------------------------
(***************************************************************************)
(* xio/limitwriter.go: the writer that keeps the first and the last N      *)
(* bytes of what a command prints.  Bytes are told apart by their position *)
(* in the stream, the skip message is one element, Skip.                   *)
(*                                                                         *)
(* A Write that reaches the circular suffix is one step up to              *)
(* overwriteSuffix and then one step per iteration of its loop; SyncWriter *)
(* keeps other writers out meanwhile.  The underlying writer is the        *)
(* bytes.Buffer of startProcess and ExecContainer, which does not fail.    *)
(***************************************************************************)
EXTENDS Integers, Sequences

CONSTANTS N,         \* max size of the prefix and of the suffix
          MaxBytes   \* bound on the bytes of all writes together

ASSUME WriterAssumption == N \in Nat \ {0} /\ MaxBytes \in Nat

VARIABLES
    out,        \* what the underlying writer holds
    prefix,     \* bytes passed on before the suffix began
    suffix,     \* the circular slice
    suffixOff,
    skipped,
    total,      \* bytes handed to Write so far
    used,       \* those of them that were stored or passed on
    flushed     \* Flush was called

vars == <<out, prefix, suffix, suffixOff, skipped, total, used, flushed>>

Skip == 0

minInt(a, b) == IF a < b THEN a ELSE b

\* Bytes m+1 to m+k of the stream.
Bytes(m, k) == [i \in 1..k |-> m + i]

Init ==
    /\ out = <<>> /\ prefix = 0 /\ suffix = <<>> /\ suffixOff = 0 /\ skipped = FALSE
    /\ total = 0 /\ used = 0 /\ flushed = FALSE

\* Mutant of Write: writePrefix passes on whatever it is given.
WriteThrough(k) ==
    /\ used = total /\ ~flushed
    /\ total + k <= MaxBytes
    /\ total' = total + k /\ used' = used + k
    /\ prefix' = minInt(N, prefix + k)
    /\ out' = out \o Bytes(used, k)
    /\ UNCHANGED <<suffix, suffixOff, skipped, flushed>>

\* Write of k bytes: writePrefix, fillSuffix and writeSkipMessageOnce.
Write(k) ==
    LET p == minInt(N - prefix, k)
        f == minInt(N - Len(suffix), k - p)
        s == k > p + f /\ ~skipped
    IN  /\ used = total /\ ~flushed
        /\ total + k <= MaxBytes
        /\ total' = total + k
        /\ used' = used + p + f
        /\ prefix' = prefix + p
        /\ out' = out \o Bytes(used, p) \o (IF s THEN <<Skip>> ELSE <<>>)
        /\ suffix' = suffix \o Bytes(used + p, f)
        /\ skipped' = (skipped \/ s)
        /\ UNCHANGED <<suffixOff, flushed>>

\* Mutant of Overwrite: the offset is never reset.
OverwriteNoWrap ==
    LET n == minInt(Len(suffix) - suffixOff, total - used)
    IN  /\ used < total
        /\ suffix' = [i \in 1..Len(suffix) |->
                        IF suffixOff < i /\ i <= suffixOff + n
                        THEN used + i - suffixOff ELSE suffix[i]]
        /\ used' = used + n
        /\ suffixOff' = suffixOff + n
        /\ UNCHANGED <<out, prefix, skipped, total, flushed>>

\* An iteration of overwriteSuffix.
Overwrite ==
    LET n == minInt(Len(suffix) - suffixOff, total - used)
    IN  /\ used < total
        /\ suffix' = [i \in 1..Len(suffix) |->
                        IF suffixOff < i /\ i <= suffixOff + n
                        THEN used + i - suffixOff ELSE suffix[i]]
        /\ used' = used + n
        /\ suffixOff' = IF suffixOff + n = N THEN 0 ELSE suffixOff + n
        /\ UNCHANGED <<out, prefix, skipped, total, flushed>>

\* Mutant of Flush: the suffix is copied from its start.
FlushFromStart ==
    /\ used = total /\ ~flushed
    /\ flushed' = TRUE
    /\ out' = out \o suffix
    /\ UNCHANGED <<prefix, suffix, suffixOff, skipped, total, used>>

\* Flush, which startProcess calls once the command has exited.
Flush ==
    /\ used = total /\ ~flushed
    /\ flushed' = TRUE
    /\ out' = out \o SubSeq(suffix, suffixOff + 1, Len(suffix))
                  \o SubSeq(suffix, 1, suffixOff)
    /\ UNCHANGED <<prefix, suffix, suffixOff, skipped, total, used>>

Next == (\E k \in 1..MaxBytes : Write(k)) \/ Overwrite \/ Flush

Spec == Init /\ [][Next]_vars

-----------------------------------------------------------------------------
(* Properties.                                                             *)

TypeOK ==
    /\ out \in Seq(Nat) /\ suffix \in Seq(Nat)
    /\ prefix \in 0..N /\ suffixOff \in 0..N - 1
    /\ skipped \in BOOLEAN /\ flushed \in BOOLEAN
    /\ total \in 0..MaxBytes /\ used \in 0..total

\* What is kept of a stream of t bytes.
Kept(t) ==
    IF t <= 2 * N THEN Bytes(0, t)
    ELSE Bytes(0, N) \o <<Skip>> \o Bytes(t - N, N)

\* However the command's output was split into writes, after Flush the buffer
\* holds all of it, or its first N bytes, the message and its last N bytes.
KeepsPrefixAndSuffix == flushed => out = Kept(total)

\* Until Flush the buffer holds no byte after the first N: whoever reads it
\* without flushing, as ExecContainer does, sees the beginning only.
SuffixNeedsFlush == ~flushed => \A i \in 1..Len(out) : out[i] <= N
=============================================================================
