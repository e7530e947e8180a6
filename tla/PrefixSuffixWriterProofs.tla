---------------------- MODULE PrefixSuffixWriterProofs ----------------------
(***************************************************************************)
(* Proofs about xio/limitwriter.go for every N and any sequence of writes: *)
(* the circular suffix always holds the last bytes, in the order Flush     *)
(* brings them out, and Flush leaves the prefix and the suffix of the      *)
(* stream in the buffer.  Then about the pipeline of Output, which calls   *)
(* the writer in no other way than PrefixSuffixWriter allows.              *)
(***************************************************************************)
EXTENDS Output, SequenceTheorems, TLAPS

\* What the suffix holds: while nothing was dropped the bytes after the prefix,
\* later the last N bytes, the oldest of them at suffixOff.
Ring ==
    \A i \in 1..Len(suffix) :
        suffix[i] = IF used <= 2 * N THEN N + i
                    ELSE IF i <= suffixOff THEN used - suffixOff + i
                    ELSE used - suffixOff - N + i

\* Before Flush the buffer holds the prefix and perhaps the message.
Beginning(pre, skip) == Bytes(0, pre) \o (IF skip THEN <<Skip>> ELSE <<>>)

IInv ==
    /\ TypeOK
    /\ prefix = minInt(used, N)
    /\ Len(suffix) = IF used <= N THEN 0 ELSE minInt(used - N, N)
    /\ used < total => used >= 2 * N
    /\ skipped <=> total > 2 * N
    /\ used <= 2 * N => suffixOff = 0
    /\ Ring
    /\ ~flushed => out = Beginning(prefix, skipped)
    /\ flushed => used = total /\ out = Kept(total)

-----------------------------------------------------------------------------

\* A function on 1..k with natural numbers as values is a sequence.
LEMMA FunctionIsSeq ==
    ASSUME NEW k \in Nat, NEW f \in [1..k -> Nat]
    PROVE  f \in Seq(Nat) /\ Len(f) = k
  OBVIOUS

\* Bytes(m, k) is the sequence of the k numbers after m.
LEMMA BytesSeq ==
    ASSUME NEW m \in Nat, NEW k \in Nat
    PROVE  /\ Bytes(m, k) \in Seq(Nat)
           /\ Len(Bytes(m, k)) = k
           /\ \A i \in 1..k : Bytes(m, k)[i] = m + i
<1>1. Bytes(m, k) \in [1..k -> Nat]
  BY DEF Bytes
<1>2. QED
  BY <1>1, FunctionIsSeq DEF Bytes

\* Two consecutive pieces of the stream make one.
LEMMA BytesConcat ==
    ASSUME NEW m \in Nat, NEW j \in Nat, NEW k \in Nat
    PROVE  Bytes(m, j) \o Bytes(m + j, k) = Bytes(m, j + k)
<1> DEFINE s == Bytes(m, j)
           t == Bytes(m + j, k)
           u == Bytes(m, j + k)
<1>1. /\ s \in Seq(Nat) /\ Len(s) = j /\ \A i \in 1..j : s[i] = m + i
      /\ t \in Seq(Nat) /\ Len(t) = k /\ \A i \in 1..k : t[i] = m + j + i
      /\ u \in Seq(Nat) /\ Len(u) = j + k /\ \A i \in 1..(j + k) : u[i] = m + i
  <2>1. m + j \in Nat /\ j + k \in Nat
    OBVIOUS
  <2>2. QED
    BY <2>1, BytesSeq
<1> HIDE DEF s, t, u
<1>2. /\ s \o t \in Seq(Nat) /\ Len(s \o t) = j + k
      /\ \A i \in 1..(j + k) : (s \o t)[i] = IF i <= j THEN s[i] ELSE t[i - j]
  BY <1>1, ConcatProperties
<1>3. \A i \in 1..(j + k) : (s \o t)[i] = u[i]
  <2>1. SUFFICES ASSUME NEW i \in 1..(j + k)
                 PROVE  (s \o t)[i] = u[i]
    OBVIOUS
  <2>2. CASE i <= j
    BY <1>1, <1>2, <2>2
  <2>3. CASE ~(i <= j)
    <3>1. i - j \in 1..k
      BY <2>3
    <3>2. QED
      BY <1>1, <1>2, <2>3, <3>1
  <2>4. QED
    BY <2>2, <2>3
<1>4. s \o t = u
  BY <1>1, <1>2, <1>3, SeqEqual
<1>5. QED
  BY <1>4 DEF s, t, u

\* The buffer before Flush, byte by byte: only the first N bytes and the message.
LEMMA BeginningSeq ==
    ASSUME NEW pre \in Nat, NEW skip \in BOOLEAN
    PROVE  /\ Beginning(pre, skip) \in Seq(Nat)
           /\ \A i \in 1..Len(Beginning(pre, skip)) : Beginning(pre, skip)[i] <= pre
<1> DEFINE b == Bytes(0, pre)
<1>1. b \in Seq(Nat) /\ Len(b) = pre /\ \A i \in 1..pre : b[i] = 0 + i
  BY BytesSeq
<1> HIDE DEF b
<1>2. CASE skip
  <2>1. /\ <<Skip>> \in Seq(Nat) /\ Len(<<Skip>>) = 1 /\ <<Skip>>[1] = 0
    BY DEF Skip
  <2>2. /\ b \o <<Skip>> \in Seq(Nat)
        /\ Len(b \o <<Skip>>) = pre + 1
        /\ \A i \in 1..(pre + 1) :
              (b \o <<Skip>>)[i] = IF i <= pre THEN b[i] ELSE <<Skip>>[i - pre]
    BY <1>1, <2>1, ConcatProperties
  <2>3. \A i \in 1..(pre + 1) : ~(i <= pre) => i - pre = 1
    OBVIOUS
  <2>4. \A i \in 1..(pre + 1) : (b \o <<Skip>>)[i] <= pre
    BY <1>1, <2>1, <2>2, <2>3
  <2>5. Beginning(pre, skip) = b \o <<Skip>>
    BY <1>2 DEF Beginning, b
  <2>6. QED
    BY <2>2, <2>4, <2>5
<1>3. CASE ~skip
  <2>1. Beginning(pre, skip) = b
    BY <1>1, <1>3, ConcatEmptySeq DEF Beginning, b
  <2>2. QED
    BY <1>1, <2>1
<1>4. QED
  BY <1>2, <1>3

\* The initial state satisfies the invariant.
LEMMA InitIInv == Init => IInv
<1> SUFFICES ASSUME Init PROVE IInv
  OBVIOUS
<1> USE WriterAssumption DEF WriterAssumption, Init
<1>1. TypeOK
  <2>1. <<>> \in Seq(Nat)
    BY EmptySeq
  <2>2. out \in Seq(Nat) /\ suffix \in Seq(Nat)
    BY <2>1
  <2>3. prefix \in 0..N /\ suffixOff \in 0..N - 1
    OBVIOUS
  <2>4. total \in 0..MaxBytes /\ used \in 0..total
    OBVIOUS
  <2>5. skipped \in BOOLEAN /\ flushed \in BOOLEAN
    OBVIOUS
  <2>6. QED
    BY <2>2, <2>3, <2>4, <2>5 DEF TypeOK
<1>2. prefix = minInt(used, N) /\ Len(suffix) = 0
  BY DEF minInt
<1>3. Ring
  BY <1>2 DEF Ring
<1>4. Beginning(prefix, skipped) = <<>>
  <2>1. Bytes(0, 0) \in Seq(Nat) /\ Len(Bytes(0, 0)) = 0
    BY BytesSeq
  <2>2. Bytes(0, 0) = <<>>
    BY <2>1
  <2>3. QED
    BY <2>2, ConcatEmptySeq DEF Beginning
<1>5. QED
  BY <1>1, <1>2, <1>3, <1>4 DEF IInv

\* Write: the prefix is passed on, the suffix filled, the message put once.
LEMMA WriteIInv ==
    ASSUME IInv, NEW k \in 1..MaxBytes, Write(k)
    PROVE  IInv'
<1> USE WriterAssumption DEF WriterAssumption
<1> DEFINE p == minInt(N - prefix, k)
           f == minInt(N - Len(suffix), k - p)
<1>1. /\ N \in Nat \ {0} /\ total \in Nat /\ used = total /\ k \in Nat \ {0}
      /\ prefix = minInt(used, N) /\ prefix \in Nat
      /\ skipped \in BOOLEAN /\ flushed \in BOOLEAN
      /\ Len(suffix) = IF used <= N THEN 0 ELSE minInt(used - N, N)
  BY DEF IInv, TypeOK, Write
<1>2. /\ p \in Nat /\ f \in Nat /\ p + f <= k
      /\ prefix + p = minInt(used + p + f, N)
      /\ p > 0 => used = prefix
      /\ f > 0 => used + p = N + Len(suffix)
      /\ Len(suffix) + f = IF used + p + f <= N THEN 0 ELSE minInt(used + p + f - N, N)
      /\ p + f < k => used + p + f >= 2 * N
      /\ (k > p + f \/ total > 2 * N) <=> total + k > 2 * N
  BY <1>1 DEF minInt
<1>3. /\ total' = total + k /\ total + k <= MaxBytes
      /\ used' = used + p + f
      /\ prefix' = prefix + p
      /\ suffix' = suffix \o Bytes(used + p, f)
      /\ suffixOff' = suffixOff
      /\ skipped' = (skipped \/ k > p + f)
      /\ ~flushed /\ flushed' = flushed
      /\ out' = out \o Bytes(used, p) \o (IF k > p + f /\ ~skipped THEN <<Skip>> ELSE <<>>)
  BY DEF Write
<1> HIDE DEF p, f
<1>4. /\ suffix \in Seq(Nat) /\ suffixOff \in 0..N - 1 /\ Ring
      /\ skipped <=> total > 2 * N
      /\ used <= 2 * N => suffixOff = 0
      /\ out = Beginning(prefix, skipped)
  BY <1>3 DEF IInv, TypeOK
<1>5. /\ suffix' \in Seq(Nat)
      /\ Len(suffix') = Len(suffix) + f
      /\ \A i \in 1..Len(suffix') :
            suffix'[i] = IF i <= Len(suffix) THEN suffix[i]
                                            ELSE used + p + (i - Len(suffix))
  <2> DEFINE b == Bytes(used + p, f)
  <2>1. b \in Seq(Nat) /\ Len(b) = f /\ \A i \in 1..f : b[i] = (used + p) + i
    <3>1. used + p \in Nat /\ f \in Nat
      BY <1>1, <1>2
    <3>2. QED
      BY <3>1, BytesSeq
  <2> HIDE DEF b
  <2>2. /\ suffix \o b \in Seq(Nat) /\ Len(suffix \o b) = Len(suffix) + f
        /\ \A i \in 1..Len(suffix) + f :
              (suffix \o b)[i] = IF i <= Len(suffix) THEN suffix[i] ELSE b[i - Len(suffix)]
    BY <1>4, <2>1, ConcatProperties
  <2>3. \A i \in 1..Len(suffix) + f : ~(i <= Len(suffix)) => i - Len(suffix) \in 1..f
    <3>1. Len(suffix) \in Nat /\ f \in Nat
      BY <1>2, <1>4, LenProperties
    <3>2. QED
      BY <3>1
  <2>4. suffix' = suffix \o b
    BY <1>3 DEF b
  <2>5. QED
    BY <1>1, <1>2, <2>1, <2>2, <2>3, <2>4
<1>6. Ring'
  <2>1. SUFFICES ASSUME NEW i \in 1..Len(suffix')
                 PROVE  suffix'[i] = IF used' <= 2 * N THEN N + i
                                     ELSE IF i <= suffixOff' THEN used' - suffixOff' + i
                                     ELSE used' - suffixOff' - N + i
    BY DEF Ring
  <2>2. CASE f > 0
    <3>1. used' <= 2 * N /\ used <= 2 * N /\ used + p = N + Len(suffix)
      BY <1>1, <1>2, <1>3, <2>2 DEF minInt
    <3>2. i <= Len(suffix) => suffix[i] = N + i
      BY <1>1, <1>4, <3>1 DEF Ring
    <3>3. QED
      BY <1>1, <1>2, <1>5, <3>1, <3>2
  <2>3. CASE f = 0
    <3>1. suffix'[i] = suffix[i] /\ i \in 1..Len(suffix)
      BY <1>1, <1>5, <2>3
    <3>2. p = 0
      BY <1>1, <1>2, <3>1 DEF minInt
    <3>3. used' = used /\ suffixOff' = suffixOff
      BY <1>1, <1>3, <2>3, <3>2
    <3>4. QED
      BY <1>4, <3>1, <3>3 DEF Ring
  <2>4. QED
    BY <1>2, <2>2, <2>3
<1>7. out' = Beginning(prefix', skipped')
  <2>1. Beginning(prefix', skipped')
          = Bytes(0, prefix + p) \o (IF skipped \/ k > p + f THEN <<Skip>> ELSE <<>>)
    BY <1>3 DEF Beginning, Bytes
  <2>2. /\ Bytes(0, prefix) \in Seq(Nat) /\ Bytes(used, p) \in Seq(Nat)
        /\ <<Skip>> \in Seq(Nat) /\ <<>> \in Seq(Nat)
        /\ Len(Bytes(used, p)) = p
    <3>1. Bytes(0, prefix) \in Seq(Nat)
      BY <1>1, BytesSeq
    <3>2. Bytes(used, p) \in Seq(Nat) /\ Len(Bytes(used, p)) = p
      BY <1>1, <1>2, BytesSeq
    <3>3. <<Skip>> \in Seq(Nat) /\ <<>> \in Seq(Nat)
      BY DEF Skip
    <3>4. QED
      BY <3>1, <3>2, <3>3
  <2>3. CASE p > 0
    <3>1. used = prefix /\ ~skipped
      BY <1>1, <1>2, <1>4, <2>3 DEF minInt
    <3>2. out = Bytes(0, prefix)
      BY <1>4, <2>2, <3>1, ConcatEmptySeq DEF Beginning
    <3> prefix \in Nat /\ p \in Nat /\ 0 \in Nat
      BY <1>1, <1>2
    <3>3. Bytes(0, prefix) \o Bytes(0 + prefix, p) = Bytes(0, prefix + p)
      BY BytesConcat
    <3>4. 0 + prefix = used
      BY <3>1
    <3>5. QED
      BY <1>3, <2>1, <3>1, <3>2, <3>3, <3>4
  <2>4. CASE p = 0
    <3>1. Bytes(used, p) = <<>> /\ prefix + p = prefix
      BY <1>1, <2>2, <2>4 DEF minInt
    <3>2. out \in Seq(Nat)
      BY DEF IInv, TypeOK
    <3>3. out' = out \o (IF k > p + f /\ ~skipped THEN <<Skip>> ELSE <<>>)
      BY <1>3, <3>1, <3>2, ConcatEmptySeq
    <3>4. CASE skipped
      BY <1>4, <2>1, <3>1, <3>2, <3>3, <3>4, ConcatEmptySeq DEF Beginning
    <3>5. CASE ~skipped
      <4>1. out = Bytes(0, prefix)
        BY <1>4, <2>2, <3>5, ConcatEmptySeq DEF Beginning
      <4>2. QED
        BY <2>1, <3>1, <3>3, <3>5, <4>1
    <3>6. QED
      BY <3>4, <3>5
  <2>5. QED
    BY <1>2, <2>3, <2>4
<1>8. Beginning(prefix', skipped') \in Seq(Nat)
  <2>1. prefix' \in Nat /\ skipped' \in BOOLEAN
    BY <1>1, <1>2, <1>3 DEF minInt
  <2>2. QED
    BY <2>1, BeginningSeq
<1>9. TypeOK'
  <2>1. prefix' \in 0..N
    BY <1>1, <1>2, <1>3 DEF minInt
  <2>2. suffixOff' \in 0..N - 1
    BY <1>3, <1>4
  <2>3. skipped' \in BOOLEAN /\ flushed' \in BOOLEAN
    BY <1>1, <1>3
  <2>4. total' \in 0..MaxBytes /\ used' \in 0..total'
    BY <1>1, <1>2, <1>3
  <2>5. QED
    BY <1>5, <1>7, <1>8, <2>1, <2>2, <2>3, <2>4 DEF TypeOK
<1>10. QED
  <2>1. prefix' = minInt(used', N)
    BY <1>1, <1>2, <1>3
  <2>2. Len(suffix') = IF used' <= N THEN 0 ELSE minInt(used' - N, N)
    BY <1>1, <1>2, <1>3, <1>5
  <2>3. used' < total' => used' >= 2 * N
    BY <1>1, <1>2, <1>3
  <2>4. skipped' <=> total' > 2 * N
    BY <1>1, <1>2, <1>3, <1>4
  <2>5. used' <= 2 * N => suffixOff' = 0
    BY <1>1, <1>2, <1>3, <1>4
  <2>6. ~flushed'
    BY <1>3
  <2>7. QED
    BY <1>6, <1>7, <1>9, <2>1, <2>2, <2>3, <2>4, <2>5, <2>6 DEF IInv

\* Overwrite: the oldest bytes of the suffix make room for the next n.
LEMMA OverwriteIInv ==
    ASSUME IInv, Overwrite
    PROVE  IInv'
<1> USE WriterAssumption DEF WriterAssumption
<1> DEFINE n == minInt(Len(suffix) - suffixOff, total - used)
<1>1. /\ N \in Nat \ {0} /\ MaxBytes \in Nat /\ total \in 0..MaxBytes /\ used \in 0..total
      /\ used < total /\ used >= 2 * N /\ suffixOff \in 0..N - 1
      /\ suffix \in Seq(Nat) /\ out \in Seq(Nat) /\ prefix \in 0..N
      /\ skipped \in BOOLEAN /\ flushed \in BOOLEAN
      /\ prefix = minInt(used, N)
      /\ ~flushed /\ out = Beginning(prefix, skipped)
      /\ skipped <=> total > 2 * N
      /\ used <= 2 * N => suffixOff = 0
  BY DEF IInv, TypeOK, Overwrite
<1>2. Len(suffix) = N
  BY <1>1 DEF IInv, minInt
<1>3. /\ n \in 1..N /\ suffixOff + n <= N /\ used + n <= total
  BY <1>1, <1>2 DEF minInt
<1>4. /\ suffix' = [i \in 1..Len(suffix) |->
                     IF suffixOff < i /\ i <= suffixOff + n
                     THEN used + i - suffixOff ELSE suffix[i]]
      /\ used' = used + n
      /\ suffixOff' = IF suffixOff + n = N THEN 0 ELSE suffixOff + n
      /\ UNCHANGED <<out, prefix, skipped, total, flushed>>
  BY DEF Overwrite
<1> HIDE DEF n
<1>5. \A i \in 1..N : suffix[i] \in Nat
  BY <1>1, <1>2, ElementOfSeq
<1>6. suffix' \in Seq(Nat) /\ Len(suffix') = N
  <2>1. suffix' \in [1..N -> Nat]
    BY <1>1, <1>2, <1>3, <1>4, <1>5
  <2>2. N \in Nat
    BY <1>1
  <2>3. QED
    BY <2>1, <2>2, FunctionIsSeq
<1>7. Ring'
  <2>1. SUFFICES ASSUME NEW i \in 1..N
                 PROVE  suffix'[i] = IF used' <= 2 * N THEN N + i
                                     ELSE IF i <= suffixOff' THEN used' - suffixOff' + i
                                     ELSE used' - suffixOff' - N + i
    BY <1>6 DEF Ring
  <2>2. suffix'[i] = IF suffixOff < i /\ i <= suffixOff + n
                     THEN used + i - suffixOff ELSE suffix[i]
    BY <1>2, <1>4
  <2>3. suffix[i] = IF used <= 2 * N THEN N + i
                    ELSE IF i <= suffixOff THEN used - suffixOff + i
                    ELSE used - suffixOff - N + i
    BY <1>2 DEF IInv, Ring
  <2>4. suffix[i] = IF i <= suffixOff THEN used - suffixOff + i
                    ELSE used - suffixOff - N + i
    <3>1. CASE used <= 2 * N
      BY <1>1, <2>3, <3>1
    <3>2. CASE ~(used <= 2 * N)
      BY <2>3, <3>2
    <3>3. QED
      BY <3>1, <3>2
  <2>5. used' > 2 * N /\ ~(used' <= 2 * N)
    BY <1>1, <1>3, <1>4
  <2>6. suffix'[i] = IF i <= suffixOff + n THEN used - suffixOff + i
                     ELSE used - suffixOff - N + i
    BY <1>1, <1>3, <2>2, <2>4
  <2>7. CASE suffixOff + n = N
    <3>1. i <= suffixOff + n /\ ~(i <= suffixOff') /\ suffixOff' = 0
      BY <1>4, <2>7
    <3>2. used' - suffixOff' - N + i = used - suffixOff + i
      BY <1>1, <1>3, <1>4, <2>7
    <3>3. QED
      BY <2>5, <2>6, <3>1, <3>2
  <2>8. CASE suffixOff + n # N
    <3>1. suffixOff' = suffixOff + n
      BY <1>4, <2>8
    <3>2. /\ used' - suffixOff' + i = used - suffixOff + i
          /\ used' - suffixOff' - N + i = used - suffixOff - N + i
      BY <1>1, <1>3, <1>4, <3>1
    <3>3. QED
      BY <2>5, <2>6, <3>1, <3>2
  <2>9. QED
    BY <2>7, <2>8
<1>8. prefix' = minInt(used', N) /\ Len(suffix') = minInt(used' - N, N) /\ ~(used' <= 2 * N)
  BY <1>1, <1>3, <1>4, <1>6 DEF minInt
<1>9. TypeOK'
  <2>1. suffixOff' \in 0..N - 1 /\ used' \in 0..total'
    BY <1>1, <1>3, <1>4
  <2>2. QED
    BY <1>1, <1>4, <1>6, <2>1 DEF TypeOK
<1>10. QED
  <2>1. used' > N /\ used' >= 2 * N
    BY <1>1, <1>8, <1>3, <1>4
  <2>2. QED
    BY <1>1, <1>4, <1>7, <1>8, <1>9, <2>1 DEF IInv

\* Flush: the buffer becomes what Kept says.
LEMMA FlushIInv ==
    ASSUME IInv, Flush
    PROVE  IInv'
<1> USE WriterAssumption DEF WriterAssumption
<1>1. /\ N \in Nat \ {0} /\ MaxBytes \in Nat /\ total \in 0..MaxBytes /\ used = total
      /\ suffixOff \in 0..N - 1 /\ suffix \in Seq(Nat) /\ out \in Seq(Nat)
      /\ skipped \in BOOLEAN /\ prefix = minInt(total, N)
      /\ out = Beginning(prefix, skipped)
      /\ skipped <=> total > 2 * N
      /\ total <= 2 * N => suffixOff = 0
      /\ Len(suffix) = IF total <= N THEN 0 ELSE minInt(total - N, N)
  BY DEF IInv, TypeOK, Flush
<1>2. /\ UNCHANGED <<prefix, suffix, suffixOff, skipped, total, used>> /\ flushed'
      /\ out' = out \o SubSeq(suffix, suffixOff + 1, Len(suffix))
                    \o SubSeq(suffix, 1, suffixOff)
  BY DEF Flush
<1> DEFINE a == SubSeq(suffix, suffixOff + 1, Len(suffix))
           b == SubSeq(suffix, 1, suffixOff)
<1>21. out' = (out \o a) \o b
  BY <1>2
<1> HIDE DEF a, b
<1>3. out' = Kept(total)
  <2>1. CASE total <= 2 * N
    <3>1. suffixOff = 0 /\ ~skipped /\ Len(suffix) \in Nat
      BY <1>1, <2>1, LenProperties
    <3>2. a = suffix /\ b = <<>>
      BY <1>1, <3>1, SubSeqFull, SubSeqEmpty DEF a, b
    <3>3. prefix \in Nat /\ Bytes(0, prefix) \in Seq(Nat)
      <4>1. prefix \in Nat
        BY <1>1 DEF minInt
      <4>2. QED
        BY <4>1, BytesSeq
    <3>4. out = Bytes(0, prefix)
      BY <1>1, <3>1, <3>3, ConcatEmptySeq DEF Beginning
    <3>5. out' = Bytes(0, prefix) \o suffix
      <4>1. out \o suffix \in Seq(Nat)
        BY <1>1, ConcatProperties
      <4>2. QED
        BY <1>21, <3>2, <3>4, <4>1, ConcatEmptySeq
    <3>6. suffix = Bytes(N, Len(suffix))
      <4>1. \A i \in 1..Len(suffix) : suffix[i] = N + i
        BY <1>1, <2>1 DEF IInv, Ring
      <4>2. /\ Bytes(N, Len(suffix)) \in Seq(Nat)
            /\ Len(Bytes(N, Len(suffix))) = Len(suffix)
            /\ \A i \in 1..Len(suffix) : Bytes(N, Len(suffix))[i] = N + i
        BY <1>1, <3>1, BytesSeq
      <4>3. QED
        BY <1>1, <4>1, <4>2, SeqEqual
    <3>7. CASE total <= N
      <4>1. prefix = total /\ Len(suffix) = 0
        BY <1>1, <3>7 DEF minInt
      <4>2. suffix = <<>>
        BY <1>1, <4>1, EmptySeq
      <4>3. QED
        BY <2>1, <3>3, <3>5, <4>1, <4>2, ConcatEmptySeq DEF Kept
    <3>8. CASE ~(total <= N)
      <4>1. prefix = N /\ Len(suffix) = total - N
        BY <1>1, <2>1, <3>8 DEF minInt
      <4>2. Bytes(0, N) \o Bytes(0 + N, Len(suffix)) = Bytes(0, N + Len(suffix))
        BY <1>1, <3>1, BytesConcat
      <4>3. 0 + N = N /\ N + Len(suffix) = total
        BY <1>1, <4>1
      <4>4. QED
        BY <2>1, <3>5, <3>6, <4>1, <4>2, <4>3 DEF Kept
    <3>9. QED
      BY <3>7, <3>8
  <2>2. CASE ~(total <= 2 * N)
    <3>1. prefix = N /\ skipped /\ Len(suffix) = N
      BY <1>1, <2>2 DEF minInt
    <3>2. out = Bytes(0, N) \o <<Skip>>
      BY <1>1, <3>1 DEF Beginning
    <3>3. \A i \in 1..N : suffix[i] = IF i <= suffixOff THEN total - suffixOff + i
                                       ELSE total - suffixOff - N + i
      BY <1>1, <2>2, <3>1 DEF IInv, Ring
    <3> DEFINE m == total - N
               j == N - suffixOff
    <3>4. m \in Nat /\ j \in Nat /\ suffixOff \in Nat /\ m + j = total - suffixOff
          /\ j + suffixOff = N
      BY <1>1, <2>2
    <3>41. \A i \in 1..j : suffix[suffixOff + i] = m + i
      BY <1>1, <3>3
    <3>5. a = Bytes(m, j)
      <4>1. /\ a \in Seq(Nat) /\ Len(a) = j
            /\ \A i \in 1..j : a[i] = suffix[suffixOff + i]
        <5>1. \A i \in (suffixOff + 1)..N : suffix[i] \in Nat
          BY <1>1, <3>1, ElementOfSeq
        <5>2. /\ a \in Seq(Nat)
              /\ Len(a) = IF suffixOff + 1 <= N THEN N - (suffixOff + 1) + 1 ELSE 0
              /\ \A i \in 1..(N - (suffixOff + 1) + 1) :
                    a[i] = suffix[suffixOff + 1 + i - 1]
          <6> suffixOff + 1 \in Int /\ N \in Int
            BY <1>1
          <6>1. QED
            BY <3>1, <5>1, SubSeqProperties DEF a
        <5>3. \A i \in 1..j : suffixOff + 1 + i - 1 = suffixOff + i
          BY <1>1
        <5>4. N - (suffixOff + 1) + 1 = j /\ suffixOff + 1 <= N
          BY <1>1
        <5>5. QED
          BY <5>2, <5>3, <5>4
      <4> HIDE DEF m, j
      <4>2. \A i \in 1..j : suffix[suffixOff + i] = m + i
        BY <3>41
      <4>3. /\ Bytes(m, j) \in Seq(Nat) /\ Len(Bytes(m, j)) = j
            /\ \A i \in 1..j : Bytes(m, j)[i] = m + i
        BY <3>4, BytesSeq
      <4>4. QED
        BY <4>1, <4>2, <4>3, SeqEqual
    <3>6. b = Bytes(m + j, suffixOff)
      <4>1. /\ b \in Seq(Nat) /\ Len(b) = suffixOff
            /\ \A i \in 1..suffixOff : b[i] = suffix[i]
        <5>1. \A i \in 1..suffixOff : suffix[i] \in Nat
          BY <1>1, <3>1, ElementOfSeq
        <5>2. /\ b \in Seq(Nat)
              /\ Len(b) = IF 1 <= suffixOff THEN suffixOff - 1 + 1 ELSE 0
              /\ \A i \in 1..(suffixOff - 1 + 1) : b[i] = suffix[1 + i - 1]
          <6> 1 \in Int /\ suffixOff \in Int
            BY <1>1
          <6>1. QED
            BY <5>1, SubSeqProperties DEF b
        <5>3. QED
          BY <1>1, <5>2
      <4>2. \A i \in 1..suffixOff : suffix[i] = m + j + i
        BY <1>1, <3>3, <3>4
      <4>3. /\ Bytes(m + j, suffixOff) \in Seq(Nat)
            /\ Len(Bytes(m + j, suffixOff)) = suffixOff
            /\ \A i \in 1..suffixOff : Bytes(m + j, suffixOff)[i] = m + j + i
        <5>1. m + j \in Nat
          BY <3>4
        <5>2. QED
          BY <3>4, <5>1, BytesSeq
      <4>4. QED
        BY <4>1, <4>2, <4>3, SeqEqual
    <3>7. a \o b = Bytes(m, N)
      <4> HIDE DEF m, j
      <4>1. Bytes(m, j) \o Bytes(m + j, suffixOff) = Bytes(m, j + suffixOff)
        <5> m \in Nat /\ j \in Nat /\ suffixOff \in Nat
          BY <3>4
        <5>1. QED
          BY BytesConcat
      <4>2. QED
        BY <3>4, <3>5, <3>6, <4>1
    <3>8. a \in Seq(Nat) /\ b \in Seq(Nat)
      <4>1. m + j \in Nat
        BY <3>4
      <4>2. QED
        BY <3>4, <3>5, <3>6, <4>1, BytesSeq
    <3>9. out' = out \o (a \o b)
      <4>1. out \in Seq(Nat)
        BY <1>1
      <4>2. (out \o a) \o b = out \o (a \o b)
        BY <3>8, <4>1, ConcatAssociative
      <4>3. QED
        BY <1>21, <4>2
    <3>10. QED
      BY <2>2, <3>2, <3>7, <3>9 DEF Kept
  <2>3. QED
    BY <2>1, <2>2
<1>4. out' \in Seq(Nat)
  <2>1. a \in Seq(Nat) /\ b \in Seq(Nat)
    <3>1. \A i \in 1..Len(suffix) : suffix[i] \in Nat
      BY <1>1, ElementOfSeq
    <3>2. Len(suffix) \in Nat
      BY <1>1, LenProperties
    <3>3. \A i \in (suffixOff + 1)..Len(suffix) : suffix[i] \in Nat
      BY <1>1, <3>1, <3>2
    <3>4. suffixOff <= Len(suffix)
      BY <1>1, <3>2 DEF minInt
    <3>5. \A i \in 1..suffixOff : suffix[i] \in Nat
      BY <1>1, <3>1, <3>2, <3>4
    <3>6. suffixOff + 1 \in Int /\ suffixOff \in Int /\ Len(suffix) \in Int /\ 1 \in Int
      BY <1>1, <3>2
    <3>7. QED
      BY <3>3, <3>5, <3>6, SubSeqProperties DEF a, b
  <2>2. QED
    BY <1>1, <1>21, <2>1, ConcatProperties
<1>5. TypeOK'
  BY <1>2, <1>4 DEF IInv, TypeOK
<1>6. Ring'
  BY <1>2 DEF IInv, Ring
<1>7. QED
  BY <1>1, <1>2, <1>3, <1>5, <1>6 DEF IInv

\* The invariant is inductive.
LEMMA NextIInv == IInv /\ [Next]_vars => IInv'
<1> SUFFICES ASSUME IInv, [Next]_vars PROVE IInv'
  OBVIOUS
<1>1. CASE \E k \in 1..MaxBytes : Write(k)
  BY <1>1, WriteIInv
<1>2. CASE Overwrite
  BY <1>2, OverwriteIInv
<1>3. CASE Flush
  BY <1>3, FlushIInv
<1>4. CASE UNCHANGED vars
  BY <1>4 DEF vars, IInv, TypeOK, Ring
<1>5. QED
  BY <1>1, <1>2, <1>3, <1>4 DEF Next

LEMMA InductiveInvariant == Spec => []IInv
BY InitIInv, NextIInv, PTL DEF Spec

-----------------------------------------------------------------------------

\* The writer's state stays well-typed: the offset within the suffix, the prefix
\* and the suffix within N.
THEOREM WriterTypeCorrect == Spec => []TypeOK
<1>1. IInv => TypeOK
  BY DEF IInv
<1>2. QED
  BY <1>1, InductiveInvariant, PTL

\* After Flush the buffer holds all that was written, or its first N bytes, the
\* message and its last N bytes, for every N and however the output was split.
THEOREM FlushKeeps == Spec => []KeepsPrefixAndSuffix
<1>1. IInv => KeepsPrefixAndSuffix
  BY DEF IInv, KeepsPrefixAndSuffix
<1>2. QED
  BY <1>1, InductiveInvariant, PTL

\* Before Flush nothing past the first N bytes has reached the buffer.
THEOREM SuffixWithheld == Spec => []SuffixNeedsFlush
<1>1. IInv => SuffixNeedsFlush
  <2> SUFFICES ASSUME IInv, ~flushed
               PROVE  \A i \in 1..Len(out) : out[i] <= N
    BY DEF SuffixNeedsFlush
  <2>1. /\ out = Beginning(prefix, skipped) /\ prefix \in Nat /\ prefix <= N
        /\ skipped \in BOOLEAN /\ N \in Nat /\ out \in Seq(Nat)
    BY WriterAssumption DEF IInv, TypeOK, WriterAssumption
  <2>2. \A i \in 1..Len(out) : out[i] <= prefix /\ out[i] \in Nat
    BY <2>1, BeginningSeq, ElementOfSeq
  <2>3. QED
    BY <2>1, <2>2
<1>2. QED
  BY <1>1, InductiveInvariant, PTL

-----------------------------------------------------------------------------
(* The pipeline.                                                           *)

\* Only a chunk with bytes in it reaches the writer.
PipeInv ==
    /\ child \in {"running", "exited"} /\ ctxDone \in BOOLEAN
    /\ copier \in {"reading", "pipe", "out", "eof"}
    /\ chunk \in [size : 0..MaxBytes, eol : BOOLEAN]
    /\ chunk = NoChunk \/ chunk.size \in 1..MaxBytes
    /\ scan \in {"scanning", "stopped"} /\ pending \in 0..MaxLine
    /\ waiter \in {"wait", "flush", "send", "done"}
    /\ copier = "pipe" => chunk # NoChunk
    /\ waiter # "wait" => copier = "eof"

LEMMA InitPipe == OutputInit => PipeInv
<1> SUFFICES ASSUME OutputInit PROVE PipeInv
  OBVIOUS
<1>1. NoChunk \in [size : 0..MaxBytes, eol : BOOLEAN] /\ 0 \in 0..MaxLine
  BY LineAssumption, WriterAssumption DEF LineAssumption, WriterAssumption, NoChunk
<1> QED
  BY <1>1, Zenon DEF OutputInit, PipeInv

LEMMA PipeIsWriter == PipeInv /\ [OutputNext]_outVars => [Next]_vars
<1> SUFFICES ASSUME PipeInv, [OutputNext]_outVars PROVE [Next]_vars
  OBVIOUS
<1>1. CASE Keep
  <2>1. chunk.size \in 1..MaxBytes /\ Write(chunk.size)
    BY <1>1 DEF Keep, PipeInv
  <2> QED
    BY <2>1 DEF Next
<1>2. CASE KeepLoop \/ FlushOutput
  BY <1>2 DEF KeepLoop, FlushOutput, Next
<1>3. CASE UNCHANGED vars
  BY <1>3
<1> QED
  BY <1>1, <1>2, <1>3 DEF OutputNext, Copier, Waiter, Read, Scan, ScanStops, KeepReturns, Eof,
                          CmdWait, SendResult, ChildExits, Cancel, outVars

LEMMA NextPipe == TypeOK /\ PipeInv /\ [OutputNext]_outVars => PipeInv'
<1> SUFFICES ASSUME TypeOK, PipeInv, [OutputNext]_outVars PROVE PipeInv'
  OBVIOUS
<1> USE LineAssumption, WriterAssumption DEF LineAssumption, WriterAssumption, PipeInv, NoChunk
<1>1. CASE \E k \in 1..MaxChunk, eol \in BOOLEAN : Read(k, eol)
  <2>1. PICK k \in 1..MaxChunk, eol \in BOOLEAN : Read(k, eol)
    BY <1>1
  <2>2. k \in 1..MaxBytes
    BY <2>1 DEF Read, TypeOK
  <2>3. chunk' = [size |-> k, eol |-> eol]
    BY <2>1 DEF Read
  <2>4. /\ chunk' \in [size : 0..MaxBytes, eol : BOOLEAN] /\ chunk'.size \in 1..MaxBytes
        /\ chunk' # NoChunk
    BY <2>2, <2>3
  <2> QED
    BY <2>1, <2>4 DEF Read
<1>2. CASE Scan
  <2>1. pending' \in 0..MaxLine
    BY <1>2 DEF Scan, TooLong
  <2> QED
    BY <1>2, <2>1 DEF Scan
<1>3. CASE ScanStops \/ KeepReturns \/ Eof \/ KeepLoop
  BY <1>3 DEF ScanStops, KeepReturns, Eof, KeepLoop, pipeVars
<1>4. CASE Keep
  BY <1>4 DEF Keep
<1>5. CASE Waiter
  BY <1>5 DEF Waiter, CmdWait, FlushOutput, SendResult
<1>6. CASE ChildExits \/ UNCHANGED outVars
  BY <1>6 DEF ChildExits, outVars, pipeVars
<1>7. CASE Cancel
  BY <1>7 DEF Cancel
<1> QED
  BY <1>1, <1>2, <1>3, <1>4, <1>5, <1>6, <1>7 DEF OutputNext, Copier

LEMMA PipeInvariant == OutputSpec => [](IInv /\ PipeInv)
<1>1. OutputInit => IInv /\ PipeInv
  BY InitPipe, InitIInv DEF OutputInit
<1>2. IInv /\ PipeInv /\ [OutputNext]_outVars => IInv' /\ PipeInv'
  BY PipeIsWriter, NextIInv, NextPipe DEF IInv
<1> QED
  BY <1>1, <1>2, PTL DEF OutputSpec

\* The states of the pipeline and of the writer, whatever the sizes of chunks and of
\* the scanner's buffer: nothing is written once the wait goroutine flushes.
THEOREM OutputTypeCorrect == OutputSpec => []OutputTypeOK
<1>1. IInv /\ PipeInv => OutputTypeOK
  BY DEF IInv, PipeInv, OutputTypeOK
<1> QED
  BY <1>1, PipeInvariant, PTL

\* The pipeline uses the writer as PrefixSuffixWriter has it, one call after the
\* other, so that what FlushKeeps says of the writer holds of every command's output.
THEOREM OutputImplementsWriter == OutputSpec => Spec
<1>1. OutputInit => Init
  BY DEF OutputInit
<1> QED
  BY <1>1, PipeIsWriter, PipeInvariant, PTL DEF OutputSpec, Spec
=============================================================================
