--------------------------- MODULE PageStoreProofs ---------------------------
(***************************************************************************)
(* Proofs about the worker and its file: the header in the file stays the  *)
(* one in use; and, when clients keep to the numbers they were given, the  *)
(* buffer is the start of the file, the pages lie beside each other, and   *)
(* what the clients see is the table of pages of PageTable.                *)
(***************************************************************************)
EXTENDS PageStore, SequenceTheorems, TLAPS

-----------------------------------------------------------------------------
(***************************************************************************)
(* Files and buffers.                                                      *)
(***************************************************************************)

\* The first n cells of a sequence, or all of them.
LEMMA TakeProperties ==
  ASSUME NEW S, NEW s \in Seq(S), NEW n \in Nat
  PROVE  /\ Take(s, n) \in Seq(S)
         /\ Len(Take(s, n)) = IF n < Len(s) THEN n ELSE Len(s)
         /\ \A i \in 1 .. Len(Take(s, n)) : Take(s, n)[i] = s[i]
<1> DEFINE m == IF n < Len(s) THEN n ELSE Len(s)
<1>1. Len(s) \in Nat /\ m \in Nat /\ m <= Len(s)
  BY LenProperties
<1>2. \A i \in 1 .. m : s[i] \in S
  BY <1>1, ElementOfSeq
<1>3. Take(s, n) = SubSeq(s, 1, m)
  BY DEF Take
<1> HIDE DEF m
<1>4. /\ SubSeq(s, 1, m) \in Seq(S)
      /\ Len(SubSeq(s, 1, m)) = IF 1 <= m THEN (m - 1) + 1 ELSE 0
      /\ \A i \in 1 .. ((m - 1) + 1) : SubSeq(s, 1, m)[i] = s[(1 + i) - 1]
  BY <1>1, <1>2, SubSeqProperties
<1>5. Len(SubSeq(s, 1, m)) = m
  BY <1>1, <1>4
<1>6. \A i \in 1 .. m : SubSeq(s, 1, m)[i] = s[i]
  BY <1>1, <1>4
<1> QED
  BY <1>3, <1>4, <1>5, <1>6 DEF m

\* A function on 1 .. n is a sequence of length n.
LEMMA SequenceOf ==
  ASSUME NEW S, NEW n \in Nat, NEW f \in [1 .. n -> S]
  PROVE  f \in Seq(S) /\ Len(f) = n
<1>1. f \in Seq(S)
  BY SeqDef
<1> QED
  BY <1>1, LenProperties

\* An overwritten file is a file, and as long as it must be.
LEMMA OverwrittenProperties ==
  ASSUME NEW S, Zero \in S, NEW f \in Seq(S), NEW cells \in Seq(S),
         NEW offset \in Nat
  PROVE  /\ Overwritten(f, offset, cells) \in Seq(S)
         /\ Len(Overwritten(f, offset, cells))
              = Longer(Len(f), offset + Len(cells))
<1> DEFINE n == Longer(Len(f), offset + Len(cells))
           E == Overwritten(f, offset, cells)
<1>1. Len(f) \in Nat /\ Len(cells) \in Nat /\ n \in Nat
  BY LenProperties DEF Longer
<1>2. E = [i \in 1 .. n |->
             IF i \in (offset + 1) .. (offset + Len(cells))
               THEN cells[i - offset]
               ELSE IF i <= Len(f) THEN f[i] ELSE Zero]
  BY DEF Overwritten
<1>3. ASSUME NEW i \in 1 .. n
      PROVE  E[i] \in S
  <2>1. CASE i \in (offset + 1) .. (offset + Len(cells))
    <3>1. i - offset \in 1 .. Len(cells)
      BY <1>1, <2>1
    <3>2. cells[i - offset] \in S
      BY <3>1, ElementOfSeq
    <3> QED
      BY <1>2, <2>1, <3>2
  <2>2. CASE i \notin (offset + 1) .. (offset + Len(cells)) /\ i <= Len(f)
    <3>1. f[i] \in S
      BY <1>1, <2>2, ElementOfSeq
    <3> QED
      BY <1>2, <2>2, <3>1
  <2>3. CASE i \notin (offset + 1) .. (offset + Len(cells)) /\ ~ (i <= Len(f))
    BY <1>2, <2>3
  <2> QED
    BY <2>1, <2>2, <2>3
<1>4. E \in [1 .. n -> S]
  BY <1>2, <1>3
<1>5. E \in Seq(S) /\ Len(E) = n
  BY <1>1, <1>4, SequenceOf
<1> QED
  BY <1>2, <1>5

\* A read returns as many cells as were asked for.
LEMMA IOReadProperties ==
  ASSUME NEW S, Zero \in S, NEW f \in Seq(S), NEW offset \in Nat,
         NEW length \in Nat
  PROVE  /\ IORead(f, offset, length) \in Seq(S)
         /\ Len(IORead(f, offset, length)) = length
<1>1. Len(f) \in Nat
  BY LenProperties
<1>2. ASSUME NEW i \in 1 .. length, offset + i <= Len(f)
      PROVE  f[offset + i] \in S
  BY <1>1, <1>2, ElementOfSeq
<1>3. IORead(f, offset, length) \in [1 .. length -> S]
  BY <1>2 DEF IORead
<1> QED
  BY <1>3, SequenceOf

\* A write that begins in the file or right behind it keeps the buffer the start
\* of the file.
LEMMA WriteKeepsPrefix ==
  ASSUME NEW S, Zero \in S, NEW f \in Seq(S), NEW cells \in Seq(S),
         NEW offset \in Nat, offset <= Len(f)
  PROVE  Buffered(Take(f, BufSize), offset, cells)
           = Take(Overwritten(f, offset, cells), BufSize)
<1> USE BufSizeAssumption
<1> DEFINE b == Take(f, BufSize)
           g == Overwritten(f, offset, cells)
           h == Overwritten(b, offset, cells)
<1>1. Len(f) \in Nat /\ Len(cells) \in Nat
  BY LenProperties
<1>2. /\ b \in Seq(S)
      /\ Len(b) = IF BufSize < Len(f) THEN BufSize ELSE Len(f)
      /\ \A i \in 1 .. Len(b) : b[i] = f[i]
  BY TakeProperties
<1>3. /\ g \in Seq(S)
      /\ Len(g) = Longer(Len(f), offset + Len(cells))
      /\ \A i \in 1 .. Longer(Len(f), offset + Len(cells)) :
           g[i] = IF i \in (offset + 1) .. (offset + Len(cells))
                    THEN cells[i - offset]
                    ELSE IF i <= Len(f) THEN f[i] ELSE Zero
  <2>1. f \in Seq(S)
    BY <1>2
  <2>2. g \in Seq(S) /\ Len(g) = Longer(Len(f), offset + Len(cells))
    BY <2>1, OverwrittenProperties
  <2> QED
    BY <2>2 DEF Overwritten
<1> HIDE DEF b
<1>4. /\ h \in Seq(S)
      /\ Len(h) = Longer(Len(b), offset + Len(cells))
      /\ \A i \in 1 .. Longer(Len(b), offset + Len(cells)) :
           h[i] = IF i \in (offset + 1) .. (offset + Len(cells))
                    THEN cells[i - offset]
                    ELSE IF i <= Len(b) THEN b[i] ELSE Zero
  <2>1. b \in Seq(S)
    BY <1>2
  <2>2. h \in Seq(S) /\ Len(h) = Longer(Len(b), offset + Len(cells))
    BY <2>1, OverwrittenProperties
  <2> QED
    BY <2>2 DEF Overwritten
<1> HIDE DEF g, h
<1>5. /\ Take(g, BufSize) \in Seq(S)
      /\ Len(Take(g, BufSize)) = IF BufSize < Len(g) THEN BufSize ELSE Len(g)
      /\ \A i \in 1 .. Len(Take(g, BufSize)) : Take(g, BufSize)[i] = g[i]
  BY <1>3, TakeProperties
<1>6. CASE offset < BufSize
  <2>1. /\ Take(h, BufSize) \in Seq(S)
        /\ Len(Take(h, BufSize)) = IF BufSize < Len(h) THEN BufSize ELSE Len(h)
        /\ \A i \in 1 .. Len(Take(h, BufSize)) : Take(h, BufSize)[i] = h[i]
    BY <1>4, TakeProperties
  <2>2. Len(Take(h, BufSize)) = Len(Take(g, BufSize))
    BY <1>1, <1>2, <1>3, <1>4, <1>5, <1>6, <2>1 DEF Longer
  <2>3. ASSUME NEW i \in 1 .. Len(Take(h, BufSize))
        PROVE  h[i] = g[i]
    <3>1. /\ i \in Nat /\ 1 <= i /\ i <= BufSize
          /\ i \in 1 .. Longer(Len(b), offset + Len(cells))
      BY <1>1, <1>2, <1>4, <2>1 DEF Longer
    <3>2. i \in 1 .. Longer(Len(f), offset + Len(cells))
      BY <1>1, <1>2, <3>1 DEF Longer
    <3>3. i <= Len(b) <=> i <= Len(f)
      BY <1>1, <1>2, <3>1
    <3>4. i <= Len(b) => b[i] = f[i]
      BY <1>1, <1>2, <3>1
    <3> QED
      BY <1>3, <1>4, <3>1, <3>2, <3>3, <3>4
  <2>4. Take(h, BufSize) = Take(g, BufSize)
    <3>1. \A i \in 1 .. Len(Take(h, BufSize)) :
            Take(h, BufSize)[i] = Take(g, BufSize)[i]
      BY <1>5, <2>1, <2>2, <2>3
    <3> QED
      BY <1>5, <2>1, <2>2, <3>1, SeqEqual
  <2> QED
    BY <1>6, <2>4 DEF Buffered, b, g, h
<1>7. CASE ~ (offset < BufSize)
  <2>1. Len(b) = BufSize /\ Len(Take(g, BufSize)) = BufSize
    BY <1>1, <1>2, <1>3, <1>5, <1>7 DEF Longer
  <2>2. ASSUME NEW i \in 1 .. Len(b)
        PROVE  b[i] = Take(g, BufSize)[i]
    <3>1. /\ i \in 1 .. Longer(Len(f), offset + Len(cells))
          /\ i \notin (offset + 1) .. (offset + Len(cells))
          /\ i <= Len(f)
      BY <1>1, <1>7, <2>1 DEF Longer
    <3> QED
      BY <1>2, <1>3, <1>5, <2>1, <3>1
  <2>3. b = Take(g, BufSize)
    BY <1>2, <1>5, <2>1, <2>2, SeqEqual
  <2> QED
    BY <1>7, <2>3 DEF Buffered, b, g
<1> QED
  BY <1>6, <1>7

\* So does an append.
LEMMA AppendKeepsPrefix ==
  ASSUME NEW S, NEW f \in Seq(S), NEW cells \in Seq(S)
  PROVE  Appended(Take(f, BufSize), cells) = Take(f \o cells, BufSize)
<1> USE BufSizeAssumption
<1> DEFINE b == Take(f, BufSize)
           c == Take(cells, BufSize - Len(b))
           g == f \o cells
<1>1. Len(f) \in Nat /\ Len(cells) \in Nat
  BY LenProperties
<1>2. /\ b \in Seq(S)
      /\ Len(b) = IF BufSize < Len(f) THEN BufSize ELSE Len(f)
      /\ \A i \in 1 .. Len(b) : b[i] = f[i]
  BY TakeProperties
<1>3. /\ g \in Seq(S)
      /\ Len(g) = Len(f) + Len(cells)
      /\ \A i \in 1 .. Len(f) + Len(cells) :
           g[i] = IF i <= Len(f) THEN f[i] ELSE cells[i - Len(f)]
  BY ConcatProperties
<1> HIDE DEF b
<1>4. BufSize - Len(b) \in Nat
  BY <1>1, <1>2
<1>5. /\ c \in Seq(S)
      /\ Len(c) = IF BufSize - Len(b) < Len(cells)
                    THEN BufSize - Len(b) ELSE Len(cells)
      /\ \A i \in 1 .. Len(c) : c[i] = cells[i]
  BY <1>4, TakeProperties
<1> HIDE DEF c, g
<1>6. /\ Take(g, BufSize) \in Seq(S)
      /\ Len(Take(g, BufSize)) = IF BufSize < Len(g) THEN BufSize ELSE Len(g)
      /\ \A i \in 1 .. Len(Take(g, BufSize)) : Take(g, BufSize)[i] = g[i]
  BY <1>3, TakeProperties
<1>7. /\ b \o c \in Seq(S)
      /\ Len(b \o c) = Len(b) + Len(c)
      /\ \A i \in 1 .. Len(b) + Len(c) :
           (b \o c)[i] = IF i <= Len(b) THEN b[i] ELSE c[i - Len(b)]
  <2>1. b \in Seq(S) /\ c \in Seq(S)
    BY <1>2, <1>5
  <2> QED
    BY <2>1, ConcatProperties
<1>8. /\ Len(b \o c) = Len(Take(g, BufSize))
      /\ Len(b) + Len(c) <= Len(f) + Len(cells)
      /\ Len(b) \in Nat /\ Len(c) \in Nat
  <2>1. Len(b) \in Nat /\ Len(c) \in Nat
    BY <1>1, <1>2, <1>4, <1>5
  <2>2. CASE BufSize < Len(f)
    BY <1>1, <1>2, <1>3, <1>5, <1>6, <1>7, <2>1, <2>2
  <2>3. CASE ~ (BufSize < Len(f)) /\ BufSize - Len(b) < Len(cells)
    BY <1>1, <1>2, <1>3, <1>5, <1>6, <1>7, <2>1, <2>3
  <2>4. CASE ~ (BufSize < Len(f)) /\ ~ (BufSize - Len(b) < Len(cells))
    BY <1>1, <1>2, <1>3, <1>5, <1>6, <1>7, <2>1, <2>4
  <2> QED
    BY <2>1, <2>2, <2>3, <2>4
<1>9. ASSUME NEW i \in 1 .. Len(b \o c)
      PROVE  (b \o c)[i] = Take(g, BufSize)[i]
  <2>1. i \in 1 .. Len(b) + Len(c) /\ i \in 1 .. Len(f) + Len(cells)
    BY <1>1, <1>7, <1>8
  <2>2. Take(g, BufSize)[i] = g[i]
    BY <1>6, <1>8
  <2>3. CASE i <= Len(b)
    <3>1. i <= Len(f) /\ b[i] = f[i]
      BY <1>1, <1>2, <2>1, <2>3
    <3> QED
      BY <1>3, <1>7, <2>1, <2>2, <2>3, <3>1
  <2>4. CASE ~ (i <= Len(b))
    <3>1. Len(c) \in Nat /\ Len(b) \in Nat
      BY <1>2, <1>5, LenProperties
    <3>2. Len(c) # 0
      BY <2>1, <2>4, <3>1
    <3>3. Len(b) = Len(f)
      BY <1>1, <1>2, <1>5, <3>2
    <3>4. i - Len(b) \in 1 .. Len(c)
      BY <2>1, <2>4, <3>1
    <3>5. c[i - Len(b)] = cells[i - Len(f)]
      BY <1>5, <3>3, <3>4
    <3>6. (b \o c)[i] = c[i - Len(b)]
      BY <1>7, <2>1, <2>4
    <3>7. g[i] = cells[i - Len(f)]
      BY <1>3, <2>1, <2>4, <3>3
    <3> QED
      BY <2>2, <3>5, <3>6, <3>7
  <2> QED
    BY <2>3, <2>4
<1>10. b \o c = Take(g, BufSize)
  BY <1>6, <1>7, <1>8, <1>9, SeqEqual
<1> QED
  BY <1>10 DEF Appended, b, c, g

\* While the buffer is the start of the file, a read is a read of the file.
LEMMA ReadThroughBuffer ==
  ASSUME NEW S, Zero \in S, NEW f \in Seq(S), NEW offset \in Nat,
         NEW length \in Nat
  PROVE  BufRead([file |-> f, buf |-> Take(f, BufSize)], offset, length)
           = IORead(f, offset, length)
<1> USE BufSizeAssumption
<1> DEFINE b == Take(f, BufSize)
           n == Len(b)
           end == offset + length
           r == IORead(f, offset, length)
<1>1. Len(f) \in Nat
  BY LenProperties
<1>2. /\ b \in Seq(S)
      /\ n = IF BufSize < Len(f) THEN BufSize ELSE Len(f)
      /\ \A i \in 1 .. n : b[i] = f[i]
  BY TakeProperties
<1>3. r \in Seq(S) /\ Len(r) = length
  BY IOReadProperties
<1>4. BufRead([file |-> f, buf |-> b], offset, length) =
        IF offset >= n THEN IORead(f, offset, length)
        ELSE IF end <= n THEN SubSeq(b, offset + 1, end)
        ELSE SubSeq(b, offset + 1, n) \o IORead(f, n, end - n)
  BY DEF BufRead
<1>5. \A i \in 1 .. length :
        r[i] = IF offset + i <= Len(f) THEN f[offset + i] ELSE Zero
  BY DEF IORead
<1> HIDE DEF b, r
<1>6. n \in Nat /\ n <= Len(f)
  BY <1>1, <1>2
<1>7. ASSUME NEW m \in Nat, offset < n, m <= n
      PROVE  /\ SubSeq(b, offset + 1, m) \in Seq(S)
             /\ Len(SubSeq(b, offset + 1, m))
                  = IF offset + 1 <= m THEN m - offset ELSE 0
             /\ \A i \in 1 .. (m - offset) :
                  SubSeq(b, offset + 1, m)[i] = f[offset + i]
  <2>1. \A i \in (offset + 1) .. m : b[i] \in S
    BY <1>2, <1>6, <1>7, ElementOfSeq
  <2>2. /\ SubSeq(b, offset + 1, m) \in Seq(S)
        /\ Len(SubSeq(b, offset + 1, m))
             = IF offset + 1 <= m THEN (m - (offset + 1)) + 1 ELSE 0
        /\ \A i \in 1 .. ((m - (offset + 1)) + 1) :
             SubSeq(b, offset + 1, m)[i] = b[((offset + 1) + i) - 1]
    BY <2>1, SubSeqProperties
  <2>3. ASSUME NEW i \in 1 .. (m - offset)
        PROVE  SubSeq(b, offset + 1, m)[i] = f[offset + i]
    <3>1. /\ i \in 1 .. ((m - (offset + 1)) + 1)
          /\ ((offset + 1) + i) - 1 = offset + i
          /\ offset + i \in 1 .. n
      BY <1>6, <1>7
    <3> QED
      BY <1>2, <2>2, <3>1
  <2>4. (m - (offset + 1)) + 1 = m - offset
    BY <1>7
  <2> QED
    BY <2>2, <2>3, <2>4
<1>8. CASE offset < n /\ end <= n
  <2>1. /\ SubSeq(b, offset + 1, end) \in Seq(S)
        /\ Len(SubSeq(b, offset + 1, end))
             = IF offset + 1 <= end THEN end - offset ELSE 0
        /\ \A i \in 1 .. (end - offset) :
             SubSeq(b, offset + 1, end)[i] = f[offset + i]
    <3>1. end \in Nat /\ offset < n /\ end <= n
      BY <1>8
    <3> HIDE DEF end
    <3> QED
      BY <1>7, <3>1
  <2>2. /\ Len(SubSeq(b, offset + 1, end)) = length
        /\ end - offset = length
    BY <2>1
  <2>3. ASSUME NEW i \in 1 .. length
        PROVE  SubSeq(b, offset + 1, end)[i] = r[i]
    <3>1. SubSeq(b, offset + 1, end)[i] = f[offset + i]
      <4> HIDE DEF end
      <4> QED
        BY ONLY <2>1, <2>2, i \in 1 .. length
    <3>2. offset + i <= Len(f)
      BY <1>1, <1>6, <1>8
    <3>3. r[i] = f[offset + i]
      BY <1>5, <3>2
    <3> QED
      BY ONLY <3>1, <3>3
  <2>4. SubSeq(b, offset + 1, end) = r
    BY <1>3, <2>1, <2>2, <2>3, SeqEqual
  <2> QED
    <3>1. ~ (offset >= n) /\ end <= n
      BY <1>6, <1>8
    <3> HIDE DEF end
    <3> QED
      BY <1>4, <2>4, <3>1 DEF b, r
<1>9. CASE offset < n /\ ~ (end <= n)
  <2> DEFINE s == SubSeq(b, offset + 1, n)
             t == IORead(f, n, end - n)
  <2>1. end - n \in Nat
    BY <1>6, <1>9
  <2>2. /\ s \in Seq(S)
        /\ Len(s) = n - offset
        /\ \A i \in 1 .. (n - offset) : s[i] = f[offset + i]
    <3>1. n \in Nat /\ offset < n /\ n <= n /\ offset + 1 <= n
      BY <1>6, <1>9
    <3> QED
      BY <1>7, <3>1
  <2>3. t \in Seq(S) /\ Len(t) = end - n
    <3>1. Zero \in S /\ f \in Seq(S) /\ n \in Nat
      BY <1>6
    <3> HIDE DEF n
    <3> QED
      BY ONLY <2>1, <3>1, IOReadProperties
  <2>4. \A i \in 1 .. (end - n) :
          t[i] = IF n + i <= Len(f) THEN f[n + i] ELSE Zero
    BY DEF IORead
  <2> HIDE DEF s, t
  <2>5. /\ s \o t \in Seq(S)
        /\ Len(s \o t) = Len(s) + Len(t)
        /\ \A i \in 1 .. Len(s) + Len(t) :
             (s \o t)[i] = IF i <= Len(s) THEN s[i] ELSE t[i - Len(s)]
    BY <2>2, <2>3, ConcatProperties
  <2>6. Len(s \o t) = length
    BY <1>6, <2>2, <2>3, <2>5
  <2>7. ASSUME NEW i \in 1 .. length
        PROVE  (s \o t)[i] = r[i]
    <3>1. i \in 1 .. Len(s) + Len(t)
      BY <2>5, <2>6
    <3>2. CASE i <= Len(s)
      <4>1. i \in 1 .. (n - offset) /\ offset + i <= Len(f)
        BY <1>1, <1>6, <2>2, <3>2
      <4> QED
        BY <1>5, <2>2, <2>5, <3>1, <3>2, <4>1
    <3>3. CASE ~ (i <= Len(s))
      <4>1. /\ i - Len(s) \in 1 .. (end - n)
            /\ n + (i - Len(s)) = offset + i
        BY <1>6, <2>2, <3>3
      <4>2. t[i - Len(s)] =
              IF offset + i <= Len(f) THEN f[offset + i] ELSE Zero
        BY <2>4, <4>1
      <4> QED
        BY <1>5, <2>5, <3>1, <3>3, <4>2
    <3> QED
      BY <3>2, <3>3
  <2>8. s \o t = r
    BY <1>3, <2>5, <2>6, <2>7, SeqEqual
  <2>9. BufRead([file |-> f, buf |-> b], offset, length) = s \o t
    <3>1. ~ (offset >= n) /\ ~ (end <= n)
      BY <1>6, <1>9
    <3> HIDE DEF end
    <3> QED
      BY <1>4, <3>1 DEF s, t
  <2> QED
    BY <2>8, <2>9 DEF b, r
<1>10. CASE offset >= n
  BY <1>4, <1>10 DEF b, r
<1>11. n \in Nat /\ end \in Nat
  BY <1>6
<1> HIDE DEF n, end
<1> QED
  BY <1>8, <1>9, <1>10, <1>11 DEF b, r

\* The length of the storage is the length of the file.
LEMMA LengthThroughBuffer ==
  ASSUME NEW S, NEW f \in Seq(S)
  PROVE  BufLen([file |-> f, buf |-> Take(f, BufSize)]) = Len(f)
<1> DEFINE b == Take(f, BufSize)
<1>1. /\ b \in Seq(S)
      /\ Len(b) = IF BufSize < Len(f) THEN BufSize ELSE Len(f)
  BY BufSizeAssumption, TakeProperties
<1>2. BufLen([file |-> f, buf |-> b])
        = IF BufSize # 0 /\ b = <<>> THEN 0 ELSE Len(f)
  BY DEF BufLen
<1> HIDE DEF b
<1>3. b = <<>> => Len(b) = 0
  BY EmptySeq
<1>4. Len(f) \in Nat
  BY LenProperties
<1>5. (BufSize # 0 /\ b = <<>>) => Len(f) = 0
  BY <1>1, <1>3, <1>4, BufSizeAssumption
<1> QED
  BY <1>2, <1>5 DEF b

-----------------------------------------------------------------------------
(***************************************************************************)
(* The two kinds of headers.                                               *)
(***************************************************************************)

\* The number of a setting stands for that setting.
LEMMA SettingOfFlag ==
  /\ \A s \in DOMAIN ChecksumFlag : Setting(ChecksumFlag, ChecksumFlag[s]) = s
  /\ \A s \in DOMAIN CompressionFlag :
       Setting(CompressionFlag, CompressionFlag[s]) = s
  /\ \A s \in DOMAIN LevelFlag : Setting(LevelFlag, LevelFlag[s]) = s
<1>1. ASSUME NEW s \in DOMAIN ChecksumFlag
      PROVE  Setting(ChecksumFlag, ChecksumFlag[s]) = s
  <2>1. \A r \in DOMAIN ChecksumFlag : ChecksumFlag[r] = ChecksumFlag[s] => r = s
    BY DEF ChecksumFlag
  <2> QED
    BY <2>1 DEF Setting
<1>2. ASSUME NEW s \in DOMAIN CompressionFlag
      PROVE  Setting(CompressionFlag, CompressionFlag[s]) = s
  <2>1. \A r \in DOMAIN CompressionFlag :
          CompressionFlag[r] = CompressionFlag[s] => r = s
    BY DEF CompressionFlag
  <2> QED
    BY <2>1 DEF Setting
<1>3. ASSUME NEW s \in DOMAIN LevelFlag
      PROVE  Setting(LevelFlag, LevelFlag[s]) = s
  <2>1. \A r \in DOMAIN LevelFlag : LevelFlag[r] = LevelFlag[s] => r = s
    BY DEF LevelFlag
  <2> QED
    BY <2>1 DEF Setting
<1> QED
  BY <1>1, <1>2, <1>3

\* The three settings share a number without getting in each other's way.
LEMMA FlagsAreDisjoint ==
  ASSUME NEW a \in {1, 2, 3}, NEW b \in {0, 4, 8, 12},
         NEW c \in {0, 16, 32, 48}
  PROVE  /\ ((a + b) + c) % 4 = a
         /\ (((a + b) + c) % 16) - (((a + b) + c) % 4) = b
         /\ (((a + b) + c) % 64) - (((a + b) + c) % 16) = c
<1>1. ((a + b) + c) % 4 = a
  OBVIOUS
<1>2. ((a + b) + c) % 16 = a + b
  OBVIOUS
<1>3. ((a + b) + c) % 64 = (a + b) + c
  OBVIOUS
<1> QED
  BY <1>1, <1>2, <1>3

\* What is written as the filesystem header is read as that header.
LEMMA FilesystemHeaderCodec ==
  ASSUME NEW Sizes, NEW h \in FilesystemHeader(Sizes)
  PROVE  FsHeaderFromCell(FsHeaderToCell(h)) = h
<1> DEFINE a == ChecksumFlag[h.names_checksum]
           b == CompressionFlag[h.names_compression]
           c == LevelFlag[h.names_compression_level]
           cell == FsHeaderToCell(h)
<1>1. /\ h.names_checksum \in DOMAIN ChecksumFlag
      /\ h.names_compression \in DOMAIN CompressionFlag
      /\ h.names_compression_level \in DOMAIN LevelFlag
  BY DEF FilesystemHeader
<1>2. a \in {1, 2, 3}
  BY <1>1 DEF ChecksumFlag
<1>3. b \in {0, 4, 8, 12}
  BY <1>1 DEF CompressionFlag
<1>4. c \in {0, 16, 32, 48}
  BY <1>1 DEF LevelFlag
<1>5. cell.page_size = h.page_size /\ cell.flags = (a + b) + c
  BY DEF FsHeaderToCell
<1>6. /\ Setting(ChecksumFlag, a) = h.names_checksum
      /\ Setting(CompressionFlag, b) = h.names_compression
      /\ Setting(LevelFlag, c) = h.names_compression_level
  BY <1>1, SettingOfFlag
<1> HIDE DEF a, b, c, cell
<1>7. /\ cell.flags % 4 = a
      /\ (cell.flags % 16) - (cell.flags % 4) = b
      /\ (cell.flags % 64) - (cell.flags % 16) = c
  BY <1>2, <1>3, <1>4, <1>5, FlagsAreDisjoint
<1>8. FsHeaderFromCell(cell) =
        [page_size               |-> h.page_size,
         names_checksum          |-> h.names_checksum,
         names_compression       |-> h.names_compression,
         names_compression_level |-> h.names_compression_level]
  BY <1>5, <1>6, <1>7 DEF FsHeaderFromCell
<1>9. h = [page_size               |-> h.page_size,
           names_checksum          |-> h.names_checksum,
           names_compression       |-> h.names_compression,
           names_compression_level |-> h.names_compression_level]
  BY DEF FilesystemHeader
<1> QED
  BY <1>8, <1>9 DEF cell

\* No two filesystem headers look the same in the file.
LEMMA HeadersDiffer == EncodingIsInjective
<1> SUFFICES ASSUME NEW g \in FilesystemHeader(PageSizes),
                    NEW h \in FilesystemHeader(PageSizes),
                    FsHeaderToCell(g) = FsHeaderToCell(h)
             PROVE  g = h
  BY DEF EncodingIsInjective
<1>1. /\ FsHeaderFromCell(FsHeaderToCell(g)) = g
      /\ FsHeaderFromCell(FsHeaderToCell(h)) = h
  BY FilesystemHeaderCodec
<1> QED
  BY <1>1

\* A page header is written into one cell and read back from it, and whatever a
\* cell holds is read as some page header.
LEMMA PageHeaderCodec ==
  /\ \A h \in PageHeader : HeaderToCell(h) \in {Zero} \cup PageHeader
  /\ \A h \in PageHeader : CellToHeader(HeaderToCell(h)) = h
  /\ CellToHeader(Zero) = BlankHeader
  /\ \A c : CellToHeader(c) \in PageHeader
<1>1. BlankHeader \in PageHeader
  BY DEF BlankHeader, PageHeader
<1> QED
  BY <1>1, PageStoreAssumption DEF HeaderToCell, CellToHeader

-----------------------------------------------------------------------------
(***************************************************************************)
(* The invariant of every instance.                                        *)
(***************************************************************************)

\* What a cell behind the filesystem header can hold, and any cell.
PageCell == Data \cup {Zero} \cup PageHeader
FileCell == PageCell \cup {FsHeaderToCell(h) : h \in FsHeaders}

WorkerState ==
  [io     : [file : Seq(FileCell), buf : Seq(FileCell)],
   header : FsHeaders]

\* A worker that runs on a file with the header it has cached.
Sound(w) ==
  /\ w \in WorkerState
  /\ Len(w.io.file) >= 1
  /\ FsHeaderFromCell(w.io.file[1]) = w.header
  /\ \A i \in 2 .. Len(w.io.file) : w.io.file[i] \in PageCell
  /\ Len(w.io.buf) <= BufSize

Grant == [page : PageNo, parent : PageNo \cup {NoPage}]

StoreInv ==
  /\ Sound(worker)
  /\ granted \in Seq(Grant)
  /\ kept \in PageNo \cup {NoPage}
  /\ crashes \in 0 .. MaxCrashes

-----------------------------------------------------------------------------
(***************************************************************************)
(* What a write and an append do to a worker.                              *)
(***************************************************************************)

\* What is at hand of a sound worker.
LEMMA SoundFacts ==
  ASSUME NEW w, Sound(w)
  PROVE  /\ w.io.file \in Seq(FileCell) /\ w.io.buf \in Seq(FileCell)
         /\ Len(w.io.file) \in Nat /\ Len(w.io.buf) \in Nat
         /\ w.header \in FsHeaders
         /\ w.header.page_size \in Nat \ {0}
         /\ PageLength(w) \in Nat /\ PageLength(w) = 1 + w.header.page_size
         /\ w.io = [file |-> w.io.file, buf |-> w.io.buf]
         /\ w = [io |-> w.io, header |-> w.header]
<1>1. /\ w \in WorkerState
      /\ w.io \in [file : Seq(FileCell), buf : Seq(FileCell)]
  BY DEF Sound, WorkerState
<1>2. w.io.file \in Seq(FileCell) /\ w.io.buf \in Seq(FileCell)
  BY <1>1
<1>3. w.header \in FsHeaders
  BY <1>1 DEF WorkerState
<1>4. w.header.page_size \in Nat \ {0}
  BY <1>3, PageStoreAssumption DEF PageSizes
<1>5. Len(w.io.file) \in Nat /\ Len(w.io.buf) \in Nat
  BY <1>2, LenProperties
<1>6. PageLength(w) \in Nat /\ PageLength(w) = 1 + w.header.page_size
  BY <1>4 DEF PageLength, PageHeaderLength
<1>7. /\ w.io = [file |-> w.io.file, buf |-> w.io.buf]
      /\ w = [io |-> w.io, header |-> w.header]
  BY <1>1 DEF WorkerState
<1> QED
  BY <1>2, <1>3, <1>4, <1>5, <1>6, <1>7

\* The numbers of pages are numbers, and so are their places.
LEMMA PlacesAreNumbers ==
  ASSUME NEW w, Sound(w)
  PROVE  /\ \A n \in PageNo : n \in Nat
         /\ \A n \in Nat : /\ PagePos(w, n) \in Nat \ {0}
                           /\ PagePos(w, n) = 1 + n * PageLength(w)
                           /\ BodyPos(w, n) \in Nat \ {0}
                           /\ BodyPos(w, n) = 2 + n * PageLength(w)
<1>1. \A n \in PageNo : n \in Nat
  BY PageStoreAssumption
<1>2. PageLength(w) \in Nat
  BY SoundFacts
<1>3. ASSUME NEW n \in Nat
      PROVE  n * PageLength(w) \in Nat
  BY <1>2
<1> QED
  BY <1>1, <1>3 DEF PagePos, BodyPos, FsHeaderLength, PageHeaderLength

\* Cells that a page is made of are cells of the file.
LEMMA PageCellsAreCells ==
  /\ PageCell \subseteq FileCell
  /\ Zero \in PageCell
  /\ \A cells \in Seq(PageCell) : cells \in Seq(FileCell)
<1>1. PageCell \subseteq FileCell /\ Zero \in PageCell
  BY DEF FileCell, PageCell
<1> QED
  BY <1>1, SeqMonotonic

\* OverwrittenProperties, of the cells of a file.
LEMMA OverwrittenFile ==
  \A f, cells \in Seq(FileCell) : \A offset \in Nat :
    /\ Overwritten(f, offset, cells) \in Seq(FileCell)
    /\ Len(Overwritten(f, offset, cells)) = Longer(Len(f), offset + Len(cells))
<1>1. Zero \in FileCell
  BY PageCellsAreCells
<1> QED
  BY ONLY <1>1, OverwrittenProperties

\* The buffer stays within its size.
LEMMA BufferIsBounded ==
  ASSUME NEW buf \in Seq(FileCell), Len(buf) <= BufSize,
         NEW cells \in Seq(FileCell), NEW offset \in Nat
  PROVE  /\ Buffered(buf, offset, cells) \in Seq(FileCell)
         /\ Len(Buffered(buf, offset, cells)) <= BufSize
         /\ Appended(buf, cells) \in Seq(FileCell)
         /\ Len(Appended(buf, cells)) <= BufSize
<1> USE BufSizeAssumption
<1>1. Len(buf) \in Nat /\ Len(cells) \in Nat
  BY LenProperties
<1>2. /\ Buffered(buf, offset, cells) \in Seq(FileCell)
      /\ Len(Buffered(buf, offset, cells)) <= BufSize
  <2>1. CASE offset < BufSize
    <3> DEFINE g == Overwritten(buf, offset, cells)
    <3>1. g \in Seq(FileCell)
      BY PageCellsAreCells, OverwrittenProperties
    <3>2. Len(g) \in Nat
      BY <3>1, LenProperties
    <3> HIDE DEF g
    <3>3. /\ Take(g, BufSize) \in Seq(FileCell)
          /\ Len(Take(g, BufSize)) = IF BufSize < Len(g) THEN BufSize ELSE Len(g)
      BY <3>1, TakeProperties
    <3>4. Len(Take(g, BufSize)) <= BufSize
      BY <3>2, <3>3
    <3> QED
      BY <2>1, <3>3, <3>4 DEF Buffered, g
  <2>2. CASE ~ (offset < BufSize)
    BY <2>2 DEF Buffered
  <2> QED
    BY <2>1, <2>2
<1>3. /\ Appended(buf, cells) \in Seq(FileCell)
      /\ Len(Appended(buf, cells)) <= BufSize
  <2> DEFINE c == Take(cells, BufSize - Len(buf))
  <2>1. BufSize - Len(buf) \in Nat
    BY <1>1
  <2>2. /\ c \in Seq(FileCell)
        /\ Len(c) = IF BufSize - Len(buf) < Len(cells)
                      THEN BufSize - Len(buf) ELSE Len(cells)
    BY <2>1, TakeProperties
  <2> HIDE DEF c
  <2>3. buf \o c \in Seq(FileCell) /\ Len(buf \o c) = Len(buf) + Len(c)
    BY <2>2, ConcatProperties
  <2>4. Len(buf) + Len(c) <= BufSize
    BY <1>1, <2>1, <2>2
  <2> QED
    BY <2>3, <2>4 DEF Appended, c
<1> QED
  BY <1>2, <1>3

\* A write behind the filesystem header leaves a sound worker, and what it does.
LEMMA SoundWrite ==
  ASSUME NEW w, Sound(w), NEW pos \in Nat \ {0},
         NEW cells \in Seq(PageCell), cells # <<>>
  PROVE  /\ Sound(WriteAt(w, pos, cells))
         /\ WriteAt(w, pos, cells).header = w.header
         /\ WriteAt(w, pos, cells).io.file = Overwritten(w.io.file, pos, cells)
         /\ WriteAt(w, pos, cells).io.buf = Buffered(w.io.buf, pos, cells)
<1> DEFINE v == WriteAt(w, pos, cells)
           f == w.io.file
           g == Overwritten(f, pos, cells)
           b == Buffered(w.io.buf, pos, cells)
<1>1. v = [io |-> [file |-> g, buf |-> b], header |-> w.header]
  <2>1. v = [io |-> BufWrite(w.io, pos, cells), header |-> w.header]
    BY DEF Sound, WorkerState, WriteAt
  <2> QED
    BY <2>1 DEF BufWrite, IOWrite
<1>2. /\ f \in Seq(FileCell) /\ Len(f) \in Nat /\ Len(f) >= 1
      /\ w.io.buf \in Seq(FileCell) /\ Len(w.io.buf) <= BufSize
      /\ w.header \in FsHeaders
  BY SoundFacts DEF Sound
<1>3. cells \in Seq(FileCell) /\ Len(cells) \in Nat
  BY PageCellsAreCells, LenProperties
<1>4. b \in Seq(FileCell) /\ Len(b) <= BufSize
  BY <1>2, <1>3, BufferIsBounded
<1>5. g \in Seq(FileCell) /\ Len(g) = Longer(Len(f), pos + Len(cells))
  <2>1. f \in Seq(FileCell) /\ cells \in Seq(FileCell) /\ pos \in Nat
    BY <1>2, <1>3
  <2> HIDE DEF f
  <2> QED
    BY ONLY <2>1, OverwrittenFile
<1>6. \A i \in 1 .. Longer(Len(f), pos + Len(cells)) :
        g[i] = IF i \in (pos + 1) .. (pos + Len(cells))
                 THEN cells[i - pos]
                 ELSE IF i <= Len(f) THEN f[i] ELSE Zero
  BY DEF Overwritten
<1>7. Len(g) >= 1
  BY <1>2, <1>3, <1>5 DEF Longer
<1>8. g[1] = f[1]
  <2>1. /\ 1 \in 1 .. Longer(Len(f), pos + Len(cells))
        /\ 1 \notin (pos + 1) .. (pos + Len(cells))
    BY <1>2, <1>3 DEF Longer
  <2> QED
    BY <1>2, <1>6, <2>1
<1> HIDE DEF f, g, b
<1>9. ASSUME NEW i \in 2 .. Len(g)
      PROVE  g[i] \in PageCell
  <2>1. i \in 1 .. Longer(Len(f), pos + Len(cells)) /\ i \in Nat
    BY <1>5
  <2>2. CASE i \in (pos + 1) .. (pos + Len(cells))
    <3>1. i - pos \in 1 .. Len(cells)
      BY <1>3, <2>2
    <3>2. cells[i - pos] \in PageCell
      BY <3>1, ElementOfSeq
    <3> QED
      BY <1>6, <2>1, <2>2, <3>2
  <2>3. CASE i \notin (pos + 1) .. (pos + Len(cells)) /\ i <= Len(f)
    <3>1. i \in 2 .. Len(f)
      BY <1>2, <2>3
    <3>2. f[i] \in PageCell
      BY <3>1 DEF Sound, f
    <3> QED
      BY <1>6, <2>1, <2>3, <3>2
  <2>4. CASE i \notin (pos + 1) .. (pos + Len(cells)) /\ ~ (i <= Len(f))
    BY <1>6, <2>1, <2>4, PageCellsAreCells
  <2> QED
    BY <2>2, <2>3, <2>4
<1>10. /\ v.io.file = g /\ v.io.buf = b /\ v.header = w.header
       /\ v \in WorkerState
  BY <1>1, <1>2, <1>4, <1>5 DEF WorkerState
<1> HIDE DEF v
<1>11. FsHeaderFromCell(f[1]) = w.header
  BY DEF Sound, f
<1>12. Sound(v)
  BY <1>4, <1>7, <1>8, <1>9, <1>10, <1>11 DEF Sound
<1> QED
  BY <1>10, <1>12 DEF v, f, g, b

\* The worker w after an append.
AppendTo(w, cells) == [w EXCEPT !.io = BufAppend(@, cells)]

\* An append of cells of a page leaves a sound worker, and what it does.
LEMMA SoundAppend ==
  ASSUME NEW w, Sound(w), NEW cells \in Seq(PageCell)
  PROVE  /\ Sound(AppendTo(w, cells))
         /\ AppendTo(w, cells).header = w.header
         /\ AppendTo(w, cells).io.file = w.io.file \o cells
         /\ AppendTo(w, cells).io.buf = Appended(w.io.buf, cells)
<1> DEFINE v == AppendTo(w, cells)
           f == w.io.file
           g == f \o cells
           b == Appended(w.io.buf, cells)
<1>1. v = [io |-> [file |-> g, buf |-> b], header |-> w.header]
  <2>1. v = [io |-> BufAppend(w.io, cells), header |-> w.header]
    BY DEF Sound, WorkerState, AppendTo
  <2> QED
    BY <2>1 DEF BufAppend, IOAppend
<1>2. /\ f \in Seq(FileCell) /\ Len(f) \in Nat /\ Len(f) >= 1
      /\ w.io.buf \in Seq(FileCell) /\ Len(w.io.buf) <= BufSize
      /\ w.header \in FsHeaders
  BY SoundFacts DEF Sound
<1>3. cells \in Seq(FileCell) /\ Len(cells) \in Nat
  BY PageCellsAreCells, LenProperties
<1>4. b \in Seq(FileCell) /\ Len(b) <= BufSize
  BY <1>2, <1>3, BufferIsBounded
<1>5. /\ g \in Seq(FileCell)
      /\ Len(g) = Len(f) + Len(cells)
      /\ \A i \in 1 .. Len(f) + Len(cells) :
           g[i] = IF i <= Len(f) THEN f[i] ELSE cells[i - Len(f)]
  BY <1>2, <1>3, ConcatProperties
<1>6. Len(g) >= 1 /\ g[1] = f[1]
  BY <1>2, <1>3, <1>5
<1> HIDE DEF f, g, b
<1>7. ASSUME NEW i \in 2 .. Len(g)
      PROVE  g[i] \in PageCell
  <2>1. i \in 1 .. Len(f) + Len(cells)
    BY <1>5
  <2>2. CASE i <= Len(f)
    <3>1. i \in 2 .. Len(f)
      BY <1>2, <2>2
    <3>2. f[i] \in PageCell
      BY <3>1 DEF Sound, f
    <3> QED
      BY <1>5, <2>1, <2>2, <3>2
  <2>3. CASE ~ (i <= Len(f))
    <3>1. i - Len(f) \in 1 .. Len(cells)
      BY <1>2, <1>3, <2>1, <2>3
    <3>2. cells[i - Len(f)] \in PageCell
      BY <3>1, ElementOfSeq
    <3> QED
      BY <1>5, <2>1, <2>3, <3>2
  <2> QED
    BY <2>2, <2>3
<1>8. /\ v.io.file = g /\ v.io.buf = b /\ v.header = w.header
      /\ v \in WorkerState
  BY <1>1, <1>2, <1>4, <1>5 DEF WorkerState
<1> HIDE DEF v
<1>9. FsHeaderFromCell(f[1]) = w.header
  BY DEF Sound, f
<1>10. Sound(v)
  BY <1>4, <1>6, <1>7, <1>8, <1>9 DEF Sound
<1> QED
  BY <1>8, <1>10 DEF v, f, g, b

\* The worker w after the filesystem header h was written.
Formatted(w, h) == [WriteAt(w, 0, <<FsHeaderToCell(h)>>) EXCEPT !.header = h]

\* A new filesystem header leaves a sound worker, and what it does.
LEMMA SoundFormat ==
  ASSUME NEW w, Sound(w), NEW h \in FsHeaders
  PROVE  LET c == <<FsHeaderToCell(h)>>
             v == Formatted(w, h)
         IN  /\ Sound(v)
             /\ v.header = h
             /\ v.io.file = Overwritten(w.io.file, 0, c)
             /\ v.io.buf = Buffered(w.io.buf, 0, c)
             /\ c \in Seq(FileCell) /\ Len(c) = 1
<1> DEFINE cell == FsHeaderToCell(h)
           c == <<cell>>
           v == Formatted(w, h)
           f == w.io.file
           g == Overwritten(f, 0, c)
           b == Buffered(w.io.buf, 0, c)
<1>1. v = [io |-> [file |-> g, buf |-> b], header |-> h]
  <2>1. WriteAt(w, 0, c) = [io |-> BufWrite(w.io, 0, c), header |-> w.header]
    BY DEF Sound, WorkerState, WriteAt
  <2>2. v = [io |-> BufWrite(w.io, 0, c), header |-> h]
    BY <2>1 DEF Formatted
  <2> QED
    BY <2>2 DEF BufWrite, IOWrite
<1>2. /\ f \in Seq(FileCell) /\ Len(f) \in Nat /\ Len(f) >= 1
      /\ w.io.buf \in Seq(FileCell) /\ Len(w.io.buf) <= BufSize
  BY SoundFacts DEF Sound
<1>3. cell \in FileCell
  BY DEF FileCell
<1>4. FsHeaderFromCell(cell) = h
  BY FilesystemHeaderCodec, PageStoreAssumption
<1> HIDE DEF cell
<1>5. c \in Seq(FileCell) /\ Len(c) = 1 /\ c[1] = cell
  BY <1>3
<1> HIDE DEF c
<1>6. b \in Seq(FileCell) /\ Len(b) <= BufSize
  BY <1>2, <1>5, BufferIsBounded
<1>7. g \in Seq(FileCell) /\ Len(g) = Longer(Len(f), 0 + Len(c))
  <2>1. Zero \in FileCell /\ f \in Seq(FileCell) /\ 0 \in Nat
    BY <1>2, PageCellsAreCells
  <2> HIDE DEF f
  <2> QED
    BY <1>5, <2>1, OverwrittenProperties
<1>8. \A i \in 1 .. Longer(Len(f), 0 + Len(c)) :
        g[i] = IF i \in (0 + 1) .. (0 + Len(c))
                 THEN c[i - 0]
                 ELSE IF i <= Len(f) THEN f[i] ELSE Zero
  BY DEF Overwritten
<1>9. Longer(Len(f), 0 + Len(c)) = Len(f)
  BY <1>2, <1>5 DEF Longer
<1> HIDE DEF f, g, b
<1>10. g[1] = cell
  BY <1>2, <1>5, <1>8, <1>9
<1>11. ASSUME NEW i \in 2 .. Len(g)
       PROVE  g[i] \in PageCell
  <2>1. i \in 2 .. Len(f) /\ i \in 1 .. Len(f)
    BY <1>2, <1>7, <1>9
  <2>2. g[i] = f[i]
    BY <1>2, <1>5, <1>8, <1>9, <2>1
  <2> QED
    BY <2>1, <2>2 DEF Sound, f
<1>12. /\ v.io.file = g /\ v.io.buf = b /\ v.header = h
       /\ v \in WorkerState
  BY <1>1, <1>6, <1>7 DEF WorkerState
<1> HIDE DEF v
<1>13. Sound(v)
  BY <1>2, <1>4, <1>6, <1>7, <1>9, <1>10, <1>11, <1>12 DEF Sound
<1> QED
  BY <1>5, <1>12, <1>13 DEF v, f, g, b, c, cell

\* The process that starts on a file whose header is h.
LEMMA SoundStart ==
  ASSUME NEW f \in Seq(FileCell), Len(f) >= 1, NEW h \in FsHeaders,
         FsHeaderFromCell(f[1]) = h,
         \A i \in 2 .. Len(f) : f[i] \in PageCell
  PROVE  Sound([io |-> [file |-> f, buf |-> Take(f, BufSize)], header |-> h])
<1> DEFINE b == Take(f, BufSize)
<1>1. Len(f) \in Nat
  BY LenProperties
<1>2. /\ b \in Seq(FileCell)
      /\ Len(b) = IF BufSize < Len(f) THEN BufSize ELSE Len(f)
  BY BufSizeAssumption, TakeProperties
<1>3. Len(b) <= BufSize
  BY <1>1, <1>2, BufSizeAssumption
<1> HIDE DEF b
<1>4. Sound([io |-> [file |-> f, buf |-> b], header |-> h])
  BY <1>2, <1>3 DEF Sound, WorkerState
<1> QED
  BY <1>4 DEF b

\* A sound worker is opened again with the same file and header.
LEMMA SoundOpen ==
  ASSUME NEW w, Sound(w)
  PROVE  LET v == DriverNew(w.io.file, w.header)
         IN  /\ Sound(v)
             /\ v.header = w.header
             /\ v.io.file = w.io.file
             /\ v.io.buf = Take(w.io.file, BufSize)
<1> DEFINE f == w.io.file
           io == [file |-> f, buf |-> Take(f, BufSize)]
<1>1. /\ f \in Seq(FileCell) /\ Len(f) \in Nat /\ Len(f) >= 1
      /\ w.header \in FsHeaders
      /\ FsHeaderFromCell(f[1]) = w.header
      /\ \A i \in 2 .. Len(f) : f[i] \in PageCell
  BY SoundFacts DEF Sound
<1>2. Sound([io |-> io, header |-> w.header])
  <2> HIDE DEF f
  <2> QED
    BY <1>1, SoundStart
<1>3. BufLen(io) = Len(f)
  <2> HIDE DEF f
  <2> QED
    BY <1>1, LengthThroughBuffer
<1>4. BufRead(io, 0, 1) = IORead(f, 0, 1)
  <2>1. Zero \in FileCell /\ 0 \in Nat /\ 1 \in Nat
    BY PageCellsAreCells
  <2> HIDE DEF f
  <2> QED
    BY <1>1, <2>1, ReadThroughBuffer
<1>5. IORead(f, 0, 1)[1] = f[1]
  BY <1>1 DEF IORead
<1> HIDE DEF f
<1>6. DriverNew(f, w.header) = [io |-> io, header |-> w.header]
  <2>1. BufOpen(f) = io
    BY DEF BufOpen
  <2>2. ~ (BufLen(io) < 1)
    BY <1>1, <1>3
  <2> HIDE DEF io
  <2>3. DriverNew(f, w.header)
          = [io |-> io, header |-> FsHeaderFromCell(BufRead(io, 0, 1)[1])]
    BY <2>1, <2>2 DEF DriverNew, FsHeaderLength
  <2> QED
    BY <1>1, <1>4, <1>5, <2>3
<1> QED
  BY <1>2, <1>6 DEF f

\* A new file gets the header it is opened with.
LEMMA SoundNew ==
  ASSUME NEW h \in FsHeaders
  PROVE  LET v == DriverNew(<<>>, h)
             c == <<FsHeaderToCell(h)>>
         IN  /\ Sound(v)
             /\ v.header = h
             /\ v.io.file = c
             /\ v.io.buf = Take(c, BufSize)
             /\ c \in Seq(FileCell) /\ Len(c) = 1
<1> DEFINE cell == FsHeaderToCell(h)
           c == <<cell>>
           io == [file |-> c, buf |-> Take(c, BufSize)]
<1>1. cell \in FileCell
  BY DEF FileCell
<1>2. FsHeaderFromCell(cell) = h
  BY FilesystemHeaderCodec, PageStoreAssumption
<1> HIDE DEF cell
<1>3. c \in Seq(FileCell) /\ Len(c) = 1 /\ c[1] = cell /\ c # <<>>
  BY <1>1
<1> HIDE DEF c
<1>4. Sound([io |-> io, header |-> h])
  <2>1. Len(c) >= 1 /\ \A i \in 2 .. Len(c) : c[i] \in PageCell
    BY <1>3
  <2> QED
    BY <1>2, <1>3, <2>1, SoundStart
<1>5. BufRead(io, 0, 1) = IORead(c, 0, 1)
  BY <1>3, PageCellsAreCells, ReadThroughBuffer
<1>6. IORead(c, 0, 1)[1] = cell
  BY <1>3 DEF IORead
<1>7. /\ <<>> \in Seq(FileCell) /\ Len(<<>>) = 0
      /\ Take(<<>>, BufSize) \in Seq(FileCell)
      /\ Len(Take(<<>>, BufSize)) = 0
  <2>1. <<>> \in Seq(FileCell) /\ Len(<<>>) = 0
    BY EmptySeq
  <2>2. /\ Take(<<>>, BufSize) \in Seq(FileCell)
        /\ Len(Take(<<>>, BufSize))
             = IF BufSize < Len(<<>>) THEN BufSize ELSE Len(<<>>)
    BY <2>1, BufSizeAssumption, TakeProperties
  <2> QED
    BY <2>1, <2>2, BufSizeAssumption
<1>8. BufLen([file |-> <<>>, buf |-> Take(<<>>, BufSize)]) < 1
  BY <1>7 DEF BufLen
<1>9. Overwritten(<<>>, 0, c) = c
  <2>1. Overwritten(<<>>, 0, c) = [i \in 1 .. 1 |-> c[i]]
    <3>1. Longer(Len(<<>>), 0 + Len(c)) = 1
      BY <1>3, <1>7 DEF Longer
    <3>2. \A i \in 1 .. 1 : i \in (0 + 1) .. (0 + Len(c)) /\ i - 0 = i
      BY <1>3
    <3> QED
      BY <3>1, <3>2 DEF Overwritten
  <2>2. c = [i \in 1 .. 1 |-> c[i]]
    BY <1>3, LenProperties
  <2> QED
    BY <2>1, <2>2
<1>10. Buffered(Take(<<>>, BufSize), 0, c) = Take(c, BufSize)
  <2>1. Zero \in FileCell /\ 0 <= Len(<<>>)
    BY <1>7, PageCellsAreCells
  <2>2. Buffered(Take(<<>>, BufSize), 0, c)
          = Take(Overwritten(<<>>, 0, c), BufSize)
    BY <1>3, <1>7, <2>1, WriteKeepsPrefix
  <2> QED
    BY <1>9, <2>2
<1>11. DriverNew(<<>>, h) = [io |-> io, header |-> h]
  <2> DEFINE o == [file |-> <<>>, buf |-> Take(<<>>, BufSize)]
  <2>1. BufOpen(<<>>) = o
    BY DEF BufOpen
  <2>2. BufWrite(o, 0, c) = io
    BY <1>3, <1>9, <1>10 DEF BufWrite, IOWrite
  <2>3. BufLen(o) < 1
    BY <1>8
  <2> HIDE DEF o, io
  <2>4. DriverNew(<<>>, h)
          = [io |-> io, header |-> FsHeaderFromCell(BufRead(io, 0, 1)[1])]
    BY <2>1, <2>2, <2>3 DEF DriverNew, FsHeaderLength, c, cell
  <2> QED
    BY <1>2, <1>5, <1>6, <2>4 DEF io
<1> QED
  BY <1>3, <1>4, <1>11 DEF c, cell

-----------------------------------------------------------------------------
(***************************************************************************)
(* What the actions do to the worker, and what they answer.                *)
(***************************************************************************)

\* The worker executes the arm of the task.
LEMMA Arms ==
  ASSUME NEW w, NEW t
  PROVE  /\ t.op = "ReadFilesystemHeader" =>
              Execute(w, t) = DoReadFilesystemHeader(w, t)
         /\ t.op = "WriteFilesystemHeader" =>
              Execute(w, t) = DoWriteFilesystemHeader(w, t)
         /\ t.op = "CreatePage" => Execute(w, t) = DoCreatePage(w, t)
         /\ t.op = "LinkPageForward" => Execute(w, t) = DoLinkPageForward(w, t)
         /\ t.op = "ReadPageHeader" => Execute(w, t) = DoReadPageHeader(w, t)
         /\ t.op = "WritePageHeader" => Execute(w, t) = DoWritePageHeader(w, t)
         /\ t.op = "ReadPage" => Execute(w, t) = DoReadPage(w, t)
         /\ t.op = "WritePage" => Execute(w, t) = DoWritePage(w, t)
BY DEF Execute

\* A task changes the worker and the answer, and neither of the histories of
\* crashes.
LEMMA Performed ==
  ASSUME NEW t, Perform(t)
  PROVE  /\ worker' = Execute(worker, t).worker
         /\ reply' = Execute(worker, t).reply
         /\ UNCHANGED <<down, kept, crashes>>
BY DEF Perform

\* Tasks that only read leave the worker alone.
LEMMA ReadSteps ==
  /\ ReadFilesystemHeader =>
       /\ UNCHANGED <<worker, down, granted, kept, crashes>>
       /\ reply' = [page_size |-> worker.header.page_size]
  /\ \A n : ReadPageHeader(n) =>
       /\ UNCHANGED <<worker, down, granted, kept, crashes>>
       /\ reply' = [header |-> ReadHeaderOf(worker, n)]
  /\ \A n, offset, length : ReadPage(n, offset, length) =>
       /\ UNCHANGED <<worker, down, granted, kept, crashes>>
       /\ reply' =
            IF offset >= worker.header.page_size \/ length = 0
              THEN [bytes |-> <<>>]
              ELSE [bytes |->
                     BufRead(worker.io, BodyPos(worker, n) + offset,
                             IF length > worker.header.page_size - offset
                               THEN worker.header.page_size - offset
                               ELSE length)]
<1>1. ASSUME ReadFilesystemHeader
      PROVE  /\ UNCHANGED <<worker, down, granted, kept, crashes>>
             /\ reply' = [page_size |-> worker.header.page_size]
  <2> DEFINE t == [op |-> "ReadFilesystemHeader"]
  <2>1. Perform(t) /\ UNCHANGED granted /\ t.op = "ReadFilesystemHeader"
    BY <1>1 DEF ReadFilesystemHeader
  <2>2. Execute(worker, t) = DoReadFilesystemHeader(worker, t)
    BY <2>1, Arms
  <2> QED
    BY <2>1, <2>2, Performed DEF DoReadFilesystemHeader, Done
<1>2. ASSUME NEW n, ReadPageHeader(n)
      PROVE  /\ UNCHANGED <<worker, down, granted, kept, crashes>>
             /\ reply' = [header |-> ReadHeaderOf(worker, n)]
  <2> DEFINE t == [op |-> "ReadPageHeader", page |-> n]
  <2>1. Perform(t) /\ UNCHANGED granted /\ t.op = "ReadPageHeader"
    BY <1>2 DEF ReadPageHeader
  <2>2. Execute(worker, t) = DoReadPageHeader(worker, t)
    BY <2>1, Arms
  <2> QED
    BY <2>1, <2>2, Performed DEF DoReadPageHeader, Done
<1>3. ASSUME NEW n, NEW offset, NEW length, ReadPage(n, offset, length)
      PROVE  /\ UNCHANGED <<worker, down, granted, kept, crashes>>
             /\ reply' =
                  IF offset >= worker.header.page_size \/ length = 0
                    THEN [bytes |-> <<>>]
                    ELSE [bytes |->
                           BufRead(worker.io, BodyPos(worker, n) + offset,
                                   IF length > worker.header.page_size - offset
                                     THEN worker.header.page_size - offset
                                     ELSE length)]
  <2> DEFINE t == [op |-> "ReadPage", page |-> n,
                   offset |-> offset, length |-> length]
  <2>1. /\ Perform(t) /\ UNCHANGED granted
        /\ t.op = "ReadPage" /\ t.page = n
        /\ t.offset = offset /\ t.length = length
    BY <1>3 DEF ReadPage
  <2>2. Execute(worker, t) = DoReadPage(worker, t)
    BY <2>1, Arms
  <2>3. /\ worker' = DoReadPage(worker, t).worker
        /\ reply' = DoReadPage(worker, t).reply
        /\ UNCHANGED <<down, kept, crashes>>
    BY <2>1, <2>2, Performed
  <2> HIDE DEF t
  <2>4. CASE offset >= worker.header.page_size \/ length = 0
    BY <2>1, <2>3, <2>4 DEF DoReadPage, Done
  <2>5. CASE ~ (offset >= worker.header.page_size \/ length = 0)
    BY <2>1, <2>3, <2>5 DEF DoReadPage, Done
  <2> QED
    BY <2>4, <2>5
<1> QED
  BY <1>1, <1>2, <1>3

\* Tasks that write a header.
LEMMA HeaderSteps ==
  /\ \A h : WriteFilesystemHeader(h) =>
       /\ LateResize \/ granted = <<>>
       /\ worker' = Formatted(worker, h)
       /\ reply' = NoReply
       /\ UNCHANGED <<down, granted, kept, crashes>>
  /\ \A n, next : LinkPageForward(n, next) =>
       /\ worker' = WriteHeaderOf(worker, n,
                       [ReadHeaderOf(worker, n) EXCEPT !.next = next])
       /\ reply' = NoReply
       /\ UNCHANGED <<down, granted, kept, crashes>>
  /\ \A n, h : WritePageHeader(n, h) =>
       /\ worker' = WriteHeaderOf(worker, n, h)
       /\ reply' = NoReply
       /\ UNCHANGED <<down, granted, kept, crashes>>
<1>1. ASSUME NEW h, WriteFilesystemHeader(h)
      PROVE  /\ LateResize \/ granted = <<>>
             /\ worker' = Formatted(worker, h)
             /\ reply' = NoReply
             /\ UNCHANGED <<down, granted, kept, crashes>>
  <2> DEFINE t == [op |-> "WriteFilesystemHeader", header |-> h]
  <2>1. /\ Perform(t) /\ UNCHANGED granted /\ t.header = h
        /\ LateResize \/ granted = <<>>
        /\ t.op = "WriteFilesystemHeader"
    BY <1>1 DEF WriteFilesystemHeader
  <2>2. Execute(worker, t) = DoWriteFilesystemHeader(worker, t)
    BY <2>1, Arms
  <2>3. /\ worker' = DoWriteFilesystemHeader(worker, t).worker
        /\ reply' = DoWriteFilesystemHeader(worker, t).reply
        /\ UNCHANGED <<down, kept, crashes>>
    BY <2>1, <2>2, Performed
  <2> HIDE DEF t
  <2> QED
    BY <2>1, <2>3 DEF DoWriteFilesystemHeader, Done, Formatted
<1>2. ASSUME NEW n, NEW next, LinkPageForward(n, next)
      PROVE  /\ worker' = WriteHeaderOf(worker, n,
                             [ReadHeaderOf(worker, n) EXCEPT !.next = next])
             /\ reply' = NoReply
             /\ UNCHANGED <<down, granted, kept, crashes>>
  <2> DEFINE t == [op |-> "LinkPageForward", page |-> n, next |-> next]
  <2>1. /\ Perform(t) /\ UNCHANGED granted /\ t.page = n /\ t.next = next
        /\ t.op = "LinkPageForward"
    BY <1>2 DEF LinkPageForward
  <2>2. Execute(worker, t) = DoLinkPageForward(worker, t)
    BY <2>1, Arms
  <2>3. /\ worker' = DoLinkPageForward(worker, t).worker
        /\ reply' = DoLinkPageForward(worker, t).reply
        /\ UNCHANGED <<down, kept, crashes>>
    BY <2>1, <2>2, Performed
  <2> HIDE DEF t
  <2> QED
    BY <2>1, <2>3 DEF DoLinkPageForward, Done
<1>3. ASSUME NEW n, NEW h, WritePageHeader(n, h)
      PROVE  /\ worker' = WriteHeaderOf(worker, n, h)
             /\ reply' = NoReply
             /\ UNCHANGED <<down, granted, kept, crashes>>
  <2> DEFINE t == [op |-> "WritePageHeader", page |-> n, header |-> h]
  <2>1. /\ Perform(t) /\ UNCHANGED granted /\ t.page = n /\ t.header = h
        /\ t.op = "WritePageHeader"
    BY <1>3 DEF WritePageHeader
  <2>2. Execute(worker, t) = DoWritePageHeader(worker, t)
    BY <2>1, Arms
  <2>3. /\ worker' = DoWritePageHeader(worker, t).worker
        /\ reply' = DoWritePageHeader(worker, t).reply
        /\ UNCHANGED <<down, kept, crashes>>
    BY <2>1, <2>2, Performed
  <2> HIDE DEF t
  <2> QED
    BY <2>1, <2>3 DEF DoWritePageHeader, Done
<1> QED
  BY <1>1, <1>2, <1>3

\* The header of a new page, as it is written.
HeaderCells(parent) == <<HeaderToCell([prev |-> parent, next |-> NoPage])>>

\* CreatePage appends a header and an empty body.
LEMMA CreateStep ==
  ASSUME NEW parent, CreatePage(parent)
  PROVE  /\ TotalPages(worker) < MaxPages
         /\ worker' = AppendTo(AppendTo(worker, HeaderCells(parent)),
                               Zeros(AppendTo(worker, HeaderCells(parent))
                                       .header.page_size))
         /\ reply' = [page |-> TotalPages(worker)]
         /\ granted' = Append(granted, [page   |-> TotalPages(worker),
                                        parent |-> parent])
         /\ UNCHANGED <<down, kept, crashes>>
<1> DEFINE t == [op |-> "CreatePage", parent |-> parent]
<1>1. /\ Perform(t) /\ t.op = "CreatePage" /\ t.parent = parent
      /\ TotalPages(worker) < MaxPages
      /\ granted' = Append(granted, [page |-> reply'.page, parent |-> parent])
  BY DEF CreatePage
<1>2. Execute(worker, t) = DoCreatePage(worker, t)
  BY <1>1, Arms
<1>3. /\ worker' = DoCreatePage(worker, t).worker
      /\ reply' = DoCreatePage(worker, t).reply
      /\ UNCHANGED <<down, kept, crashes>>
  BY <1>1, <1>2, Performed
<1> HIDE DEF t
<1>4. /\ worker' = AppendPageBody(AppendPageHeader(worker, parent))
      /\ reply' = [page |-> TotalPages(worker)]
  BY <1>1, <1>3 DEF DoCreatePage, Done
<1>5. reply'.page = TotalPages(worker)
  BY <1>4
<1> QED
  BY <1>1, <1>3, <1>4, <1>5
     DEF AppendPageBody, AppendPageHeader, AppendTo, HeaderCells

\* WritePage writes what fits in the page, if anything does, and returns what is
\* left.
LEMMA WriteStep ==
  ASSUME NEW n, NEW offset, NEW bytes, WritePage(n, offset, bytes)
  PROVE  /\ UNCHANGED <<down, granted, kept, crashes>>
         /\ \/ /\ offset >= worker.header.page_size \/ bytes = <<>>
               /\ worker' = worker
               /\ reply' = [bytes |-> bytes]
            \/ /\ ~ (offset >= worker.header.page_size \/ bytes = <<>>)
               /\ LET fit == IF offset + Len(bytes) > worker.header.page_size
                               THEN worker.header.page_size - offset
                               ELSE Len(bytes)
                  IN  /\ worker' = WriteAt(worker, BodyPos(worker, n) + offset,
                                           SubSeq(bytes, 1, fit))
                      /\ reply' = [bytes |->
                                     SubSeq(bytes, fit + 1, Len(bytes))]
<1> DEFINE t == [op |-> "WritePage", page |-> n,
                 offset |-> offset, bytes |-> bytes]
<1>1. /\ Perform(t) /\ UNCHANGED granted
      /\ t.op = "WritePage" /\ t.page = n
      /\ t.offset = offset /\ t.bytes = bytes
  BY DEF WritePage
<1>2. Execute(worker, t) = DoWritePage(worker, t)
  BY <1>1, Arms
<1>3. /\ worker' = DoWritePage(worker, t).worker
      /\ reply' = DoWritePage(worker, t).reply
      /\ UNCHANGED <<down, kept, crashes>>
  BY <1>1, <1>2, Performed
<1> HIDE DEF t
<1>4. CASE offset >= worker.header.page_size \/ bytes = <<>>
  BY <1>1, <1>3, <1>4 DEF DoWritePage, Done
<1>5. CASE ~ (offset >= worker.header.page_size \/ bytes = <<>>)
  BY <1>1, <1>3, <1>5 DEF DoWritePage, Done, Fitting
<1> QED
  BY <1>4, <1>5

\* The process that ends comes back with the same file, or not at all.
LEMMA ReopenStep ==
  ASSUME NEW w, Reopen(w)
  PROVE  /\ worker' = w \/ worker' = DriverNew(w.io.file, w.header)
         /\ reply' = NoReply
         /\ crashes < MaxCrashes
         /\ crashes' = crashes + 1
         /\ UNCHANGED granted
BY DEF Reopen

\* CrashInCreatePage appends the header alone.
LEMMA TornStep ==
  ASSUME NEW parent, CrashInCreatePage(parent)
  PROVE  /\ TotalPages(worker) < MaxPages
         /\ Reopen(AppendTo(worker, HeaderCells(parent)))
         /\ kept' = IF kept = NoPage THEN TotalPages(worker) ELSE kept
BY DEF CrashInCreatePage, AppendPageHeader, AppendTo, HeaderCells

-----------------------------------------------------------------------------
(***************************************************************************)
(* Every step keeps the invariant.                                         *)
(***************************************************************************)

\* Page numbers that clients use are page numbers.
LEMMA AddressesAreNumbers ==
  ASSUME StoreInv
  PROVE  /\ Addressable \subseteq PageNo
         /\ Granted \subseteq PageNo
         /\ PageNo \subseteq Nat
<1>1. \A i \in DOMAIN granted : granted[i] \in Grant
  <2>1. granted \in Seq(Grant)
    BY DEF StoreInv
  <2>2. DOMAIN granted = 1 .. Len(granted)
    BY <2>1, LenProperties
  <2> QED
    BY <2>1, <2>2, ElementOfSeq
<1>2. Granted \subseteq PageNo
  BY <1>1 DEF Granted, Grant
<1> QED
  BY <1>2, PageStoreAssumption DEF Addressable

\* The number of pages is a number.
LEMMA TotalPagesIsANumber ==
  ASSUME NEW w, Sound(w)
  PROVE  TotalPages(w) \in Nat
<1>1. BufLen(w.io) \in Nat
  BY SoundFacts DEF BufLen
<1>2. PageLength(w) \in Nat /\ PageLength(w) > 0
  <2>1. /\ w.header.page_size \in Nat
        /\ PageLength(w) = 1 + w.header.page_size
    BY SoundFacts
  <2> QED
    BY <2>1
<1> DEFINE l == BufLen(w.io)
           p == PageLength(w)
<1> HIDE DEF l, p
<1>3. CASE l > 1
  <2>1. l - 1 \in Nat /\ p \in Nat /\ p > 0
    BY <1>1, <1>2, <1>3 DEF l, p
  <2>2. (l - 1) \div p \in Nat
    BY <2>1
  <2> QED
    BY <1>3, <2>2 DEF TotalPages, FsHeaderLength, l, p
<1>4. CASE ~ (l > 1)
  BY <1>4 DEF TotalPages, FsHeaderLength, l
<1> QED
  BY <1>3, <1>4

\* The cell of a page header, as it is written.
LEMMA HeaderWrite ==
  ASSUME NEW w, Sound(w), NEW n \in Nat, NEW h \in PageHeader
  PROVE  /\ Sound(WriteHeaderOf(w, n, h))
         /\ <<HeaderToCell(h)>> \in Seq(PageCell)
         /\ Len(<<HeaderToCell(h)>>) = 1
         /\ WriteHeaderOf(w, n, h).header = w.header
         /\ WriteHeaderOf(w, n, h).io.file
              = Overwritten(w.io.file, PagePos(w, n), <<HeaderToCell(h)>>)
         /\ WriteHeaderOf(w, n, h).io.buf
              = Buffered(w.io.buf, PagePos(w, n), <<HeaderToCell(h)>>)
<1> DEFINE cell == HeaderToCell(h)
           c == <<cell>>
           pos == PagePos(w, n)
<1>1. cell \in PageCell
  BY PageHeaderCodec DEF PageCell
<1>2. pos \in Nat \ {0}
  BY PlacesAreNumbers
<1>3. WriteHeaderOf(w, n, h) = WriteAt(w, pos, c)
  BY DEF WriteHeaderOf
<1> HIDE DEF cell, pos
<1>4. c \in Seq(PageCell) /\ c # <<>> /\ Len(c) = 1
  BY <1>1
<1> HIDE DEF c
<1>5. /\ Sound(WriteAt(w, pos, c))
      /\ WriteAt(w, pos, c).header = w.header
      /\ WriteAt(w, pos, c).io.file = Overwritten(w.io.file, pos, c)
      /\ WriteAt(w, pos, c).io.buf = Buffered(w.io.buf, pos, c)
  BY <1>2, <1>4, SoundWrite
<1> QED
  BY <1>3, <1>4, <1>5 DEF c, cell, pos

\* How many bytes of a string WritePage puts into a body of size cells.
Fit(size, offset, bytes) ==
  IF offset + Len(bytes) > size THEN size - offset ELSE Len(bytes)

\* The bytes that fit do fit, and there are some.
LEMMA FittingPart ==
  ASSUME NEW size \in Nat, NEW offset \in Nat, offset < size,
         NEW bytes \in Bytes, bytes # <<>>
  PROVE  /\ bytes \in Seq(PageCell)
         /\ Len(bytes) \in Nat
         /\ Fit(size, offset, bytes) \in 1 .. Len(bytes)
         /\ offset + Fit(size, offset, bytes) <= size
         /\ SubSeq(bytes, 1, Fit(size, offset, bytes)) \in Seq(PageCell)
         /\ SubSeq(bytes, 1, Fit(size, offset, bytes)) # <<>>
         /\ Len(SubSeq(bytes, 1, Fit(size, offset, bytes)))
              = Fit(size, offset, bytes)
         /\ \A i \in 1 .. Fit(size, offset, bytes) :
              SubSeq(bytes, 1, Fit(size, offset, bytes))[i] = bytes[i]
<1> DEFINE fit == Fit(size, offset, bytes)
           s == SubSeq(bytes, 1, fit)
<1>1. bytes \in Seq(PageCell)
  <2>1. bytes \in Seq(Data)
    BY PageStoreAssumption
  <2>2. Data \subseteq PageCell
    BY DEF PageCell
  <2> QED
    BY <2>1, <2>2, SeqMonotonic
<1>2. Len(bytes) \in Nat /\ Len(bytes) # 0
  BY <1>1, EmptySeq
<1>3. fit \in 1 .. Len(bytes) /\ offset + fit <= size
  BY <1>2 DEF Fit
<1> HIDE DEF fit
<1>4. \A i \in 1 .. fit : bytes[i] \in PageCell
  BY <1>1, <1>2, <1>3, ElementOfSeq
<1>5. /\ s \in Seq(PageCell)
      /\ Len(s) = IF 1 <= fit THEN (fit - 1) + 1 ELSE 0
      /\ \A i \in 1 .. ((fit - 1) + 1) : s[i] = bytes[(1 + i) - 1]
  BY <1>3, <1>4, SubSeqProperties
<1> HIDE DEF s
<1>6. Len(s) = fit /\ \A i \in 1 .. fit : s[i] = bytes[i]
  BY <1>3, <1>5
<1>7. s # <<>>
  BY <1>3, <1>6, EmptySeq
<1> QED
  BY <1>1, <1>2, <1>3, <1>5, <1>6, <1>7 DEF s, fit

\* The cells that a page begins with.
LEMMA PageIsCells ==
  ASSUME NEW parent \in PageNo \cup {NoPage}, NEW size \in Nat
  PROVE  /\ [prev |-> parent, next |-> NoPage] \in PageHeader
         /\ HeaderCells(parent) \in Seq(PageCell)
         /\ Len(HeaderCells(parent)) = 1
         /\ Zeros(size) \in Seq(PageCell)
         /\ Len(Zeros(size)) = size
<1> DEFINE h == [prev |-> parent, next |-> NoPage]
           cell == HeaderToCell(h)
<1>1. h \in PageHeader
  BY DEF PageHeader
<1>2. cell \in PageCell
  BY <1>1, PageHeaderCodec DEF PageCell
<1>3. HeaderCells(parent) = <<cell>>
  BY DEF HeaderCells
<1> HIDE DEF cell
<1>4. <<cell>> \in Seq(PageCell) /\ Len(<<cell>>) = 1
  BY <1>2
<1>5. Zeros(size) \in [1 .. size -> PageCell]
  BY PageCellsAreCells DEF Zeros
<1>6. Zeros(size) \in Seq(PageCell) /\ Len(Zeros(size)) = size
  BY <1>5, SequenceOf
<1> QED
  BY <1>1, <1>3, <1>4, <1>6

\* A torn page leaves a sound worker.
LEMMA TornIsSound ==
  ASSUME StoreInv, NEW parent \in Neighbour
  PROVE  /\ Sound(AppendTo(worker, HeaderCells(parent)))
         /\ AppendTo(worker, HeaderCells(parent)).header = worker.header
         /\ AppendTo(worker, HeaderCells(parent)).io.file
              = worker.io.file \o HeaderCells(parent)
         /\ AppendTo(worker, HeaderCells(parent)).io.buf
              = Appended(worker.io.buf, HeaderCells(parent))
<1>1. parent \in PageNo \cup {NoPage}
  BY AddressesAreNumbers DEF Neighbour
<1>2. HeaderCells(parent) \in Seq(PageCell)
  BY <1>1, PageIsCells
<1>3. Sound(worker)
  BY DEF StoreInv
<1> QED
  BY <1>2, <1>3, SoundAppend

\* The invariant holds in the beginning.
LEMMA StoreInit == Init => StoreInv
<1> SUFFICES ASSUME Init PROVE StoreInv
  OBVIOUS
<1>1. PICK h \in FsHeaders : worker = DriverNew(<<>>, h)
  BY DEF Init
<1>2. Sound(worker)
  BY <1>1, SoundNew
<1>3. granted \in Seq(Grant) /\ kept \in PageNo \cup {NoPage}
  BY EmptySeq DEF Init
<1>4. crashes \in 0 .. MaxCrashes
  BY PageStoreAssumption DEF Init
<1> QED
  BY <1>2, <1>3, <1>4 DEF StoreInv

\* A worker that stays sound is all there is to most steps.
LEMMA SoundSteps ==
  ASSUME StoreInv, Sound(worker'), UNCHANGED <<granted, kept, crashes>>
  PROVE  StoreInv'
BY DEF StoreInv

\* Ending and starting again keeps the invariant.
LEMMA ReopenKeepsInv ==
  ASSUME StoreInv, NEW w, Sound(w), Reopen(w), kept' \in PageNo \cup {NoPage}
  PROVE  StoreInv'
<1>1. Sound(worker')
  BY ReopenStep, SoundOpen
<1>2. granted' \in Seq(Grant)
  BY ReopenStep DEF StoreInv
<1>3. crashes' \in 0 .. MaxCrashes
  <2>1. crashes < MaxCrashes /\ crashes' = crashes + 1
    BY ReopenStep
  <2>2. crashes \in 0 .. MaxCrashes
    BY DEF StoreInv
  <2> QED
    BY <2>1, <2>2, PageStoreAssumption
<1> QED
  BY <1>1, <1>2, <1>3 DEF StoreInv

\* Every step keeps the invariant.
LEMMA StoreStep == StoreInv /\ [Next]_vars => StoreInv'
<1> SUFFICES ASSUME StoreInv, [Next]_vars PROVE StoreInv'
  OBVIOUS
<1>a. Sound(worker)
  BY DEF StoreInv
<1>b. \A n \in Addressable : n \in Nat /\ n \in PageNo
  BY AddressesAreNumbers
<1>c. worker.header.page_size \in Nat \ {0}
  BY <1>a, SoundFacts
<1>1. CASE ReadFilesystemHeader
  <2>1. UNCHANGED <<worker, granted, kept, crashes>>
    BY <1>1, ReadSteps
  <2> QED
    BY <1>a, <2>1, SoundSteps
<1>2. ASSUME NEW h \in FsHeaders, WriteFilesystemHeader(h)
      PROVE  StoreInv'
  <2>1. worker' = Formatted(worker, h) /\ UNCHANGED <<granted, kept, crashes>>
    BY <1>2, HeaderSteps
  <2>2. Sound(worker')
    BY <1>a, <2>1, SoundFormat
  <2> QED
    BY <2>1, <2>2, SoundSteps
<1>3. CASE Restart
  <2>1. Reopen(worker) /\ kept' \in PageNo \cup {NoPage}
    BY <1>3 DEF Restart, StoreInv
  <2> QED
    BY <1>a, <2>1, ReopenKeepsInv
<1>4. ASSUME NEW parent \in Neighbour, CreatePage(parent)
      PROVE  StoreInv'
  <2> DEFINE v == AppendTo(worker, HeaderCells(parent))
             z == Zeros(v.header.page_size)
  <2>1. /\ TotalPages(worker) < MaxPages
        /\ worker' = AppendTo(v, z)
        /\ granted' = Append(granted, [page   |-> TotalPages(worker),
                                       parent |-> parent])
        /\ UNCHANGED <<kept, crashes>>
    BY <1>4, CreateStep
  <2>2. Sound(v)
    BY TornIsSound
  <2>3. parent \in PageNo \cup {NoPage}
    BY AddressesAreNumbers DEF Neighbour
  <2>4. z \in Seq(PageCell)
    <3>1. v.header.page_size \in Nat
      BY <2>2, SoundFacts
    <3> QED
      BY <2>3, <3>1, PageIsCells
  <2> HIDE DEF v, z
  <2>5. Sound(worker')
    BY <2>1, <2>2, <2>4, SoundAppend
  <2>6. TotalPages(worker) \in PageNo
    BY <1>a, <2>1, TotalPagesIsANumber, PageStoreAssumption
  <2>7. [page |-> TotalPages(worker), parent |-> parent] \in Grant
    BY <2>3, <2>6 DEF Grant
  <2>8. granted' \in Seq(Grant)
    BY <2>1, <2>7, AppendProperties DEF StoreInv
  <2> QED
    BY <2>1, <2>5, <2>8 DEF StoreInv
<1>5. ASSUME NEW parent \in Neighbour, CrashInCreatePage(parent)
      PROVE  StoreInv'
  <2> DEFINE v == AppendTo(worker, HeaderCells(parent))
  <2>1. /\ TotalPages(worker) < MaxPages
        /\ Reopen(v)
        /\ kept' = IF kept = NoPage THEN TotalPages(worker) ELSE kept
    BY <1>5, TornStep
  <2>2. Sound(v)
    BY TornIsSound
  <2> HIDE DEF v
  <2>3. TotalPages(worker) \in PageNo
    BY <1>a, <2>1, TotalPagesIsANumber, PageStoreAssumption
  <2>4. kept' \in PageNo \cup {NoPage}
    BY <2>1, <2>3 DEF StoreInv
  <2> QED
    BY <2>1, <2>2, <2>4, ReopenKeepsInv
<1>6. ASSUME NEW n \in Addressable, NEW next \in Addressable,
             LinkPageForward(n, next)
      PROVE  StoreInv'
  <2> DEFINE h == [ReadHeaderOf(worker, n) EXCEPT !.next = next]
  <2>1. worker' = WriteHeaderOf(worker, n, h)
        /\ UNCHANGED <<granted, kept, crashes>>
    BY <1>6, HeaderSteps
  <2>2. ReadHeaderOf(worker, n) \in PageHeader
    BY PageHeaderCodec DEF ReadHeaderOf
  <2>3. h \in PageHeader
    BY <1>b, <2>2 DEF PageHeader
  <2> HIDE DEF h
  <2>4. Sound(worker')
    BY <1>a, <1>b, <2>1, <2>3, HeaderWrite
  <2> QED
    BY <2>1, <2>4, SoundSteps
<1>7. ASSUME NEW n \in Addressable, ReadPageHeader(n)
      PROVE  StoreInv'
  <2>1. UNCHANGED <<worker, granted, kept, crashes>>
    BY <1>7, ReadSteps
  <2> QED
    BY <1>a, <2>1, SoundSteps
<1>8. ASSUME NEW n \in Addressable, NEW h \in Headers, WritePageHeader(n, h)
      PROVE  StoreInv'
  <2>1. worker' = WriteHeaderOf(worker, n, h)
        /\ UNCHANGED <<granted, kept, crashes>>
    BY <1>8, HeaderSteps
  <2>2. h \in PageHeader
    BY PageStoreAssumption
  <2>3. Sound(worker')
    BY <1>a, <1>b, <2>1, <2>2, HeaderWrite
  <2> QED
    BY <2>1, <2>3, SoundSteps
<1>9. ASSUME NEW n \in Addressable, NEW offset, NEW length,
             ReadPage(n, offset, length)
      PROVE  StoreInv'
  <2>1. UNCHANGED <<worker, granted, kept, crashes>>
    BY <1>9, ReadSteps
  <2> QED
    BY <1>a, <2>1, SoundSteps
<1>10. ASSUME NEW n \in Addressable,
              NEW offset \in 0 .. worker.header.page_size,
              NEW bytes \in Bytes, WritePage(n, offset, bytes)
       PROVE  StoreInv'
  <2> DEFINE size == worker.header.page_size
             pos == BodyPos(worker, n) + offset
             s == SubSeq(bytes, 1, Fit(size, offset, bytes))
  <2>1. /\ UNCHANGED <<granted, kept, crashes>>
        /\ \/ worker' = worker
           \/ /\ ~ (offset >= size \/ bytes = <<>>)
              /\ worker' = WriteAt(worker, pos, s)
    BY <1>10, WriteStep DEF Fit
  <2>2. CASE worker' = worker
    BY <1>a, <2>1, <2>2, SoundSteps
  <2>3. CASE /\ ~ (offset >= size \/ bytes = <<>>)
             /\ worker' = WriteAt(worker, pos, s)
    <3>1. size \in Nat /\ offset \in Nat /\ offset < size
      BY <1>c, <2>3
    <3>2. s \in Seq(PageCell) /\ s # <<>>
      BY <2>3, <3>1, FittingPart
    <3>3. pos \in Nat \ {0}
      BY <1>a, <1>b, <3>1, PlacesAreNumbers
    <3> HIDE DEF s, pos
    <3>4. Sound(worker')
      BY <1>a, <2>3, <3>2, <3>3, SoundWrite
    <3> QED
      BY <2>1, <3>4, SoundSteps
  <2> QED
    BY <2>1, <2>2, <2>3
<1>11. CASE UNCHANGED vars
  BY <1>a, <1>11, SoundSteps DEF vars
<1> QED
  BY <1>1, <1>2, <1>3, <1>4, <1>5, <1>6, <1>7, <1>8, <1>9, <1>10, <1>11
     DEF Next

\* The invariant holds for ever.
THEOREM StoreInvariant == Spec => []StoreInv
<1> QED
  BY StoreInit, StoreStep, PTL DEF Spec

\* The worker, the buffer and the histories have their types: the buffer keeps
\* within its size, and behind the filesystem header there are only cells of pages
\* (worker.rs:8-22, buf.rs:151-162).
THEOREM StoreTypeCorrect == Spec => []TypeOK
<1>1. StoreInv => TypeOK
  <2> SUFFICES ASSUME StoreInv PROVE TypeOK
    OBVIOUS
  <2>1. /\ worker.header \in FsHeaders
        /\ \A i \in 2 .. Len(worker.io.file) :
             worker.io.file[i] \in Data \cup {Zero} \cup PageHeader
        /\ Len(worker.io.buf) <= BufSize
    BY SoundFacts DEF StoreInv, Sound, PageCell
  <2>2. Granted \subseteq PageNo
    BY AddressesAreNumbers
  <2> QED
    BY <2>1, <2>2 DEF StoreInv, TypeOK
<1> QED
  BY <1>1, StoreInvariant, PTL

\* The header in the file is the one the worker has cached, and no other header
\* looks the same there (header.rs:51-127, worker.rs:55-59).
THEOREM HeaderIsKept == Spec => []HeaderSurvives
<1>1. StoreInv => HeaderSurvives
  BY HeadersDiffer DEF StoreInv, Sound, HeaderSurvives
<1> QED
  BY <1>1, StoreInvariant, PTL

-----------------------------------------------------------------------------
(***************************************************************************)
(* Clients that keep to the rules: where the pages are.                    *)
(***************************************************************************)

\* Clients use the numbers they were given and no others, and choose the page
\* size before the first page.
Orderly == Wild = {} /\ ~ LateResize

\* The buffer is the start of the file.
Prefix(w) == w.io.buf = Take(w.io.file, BufSize)

\* Every page that was given out lies in the file; before the first torn page
\* they are all there is; those that were complete then are there for good.
Placed(w, pages, whole) ==
  /\ Prefix(w)
  /\ \A i \in DOMAIN pages :
       1 + (pages[i].page + 1) * PageLength(w) <= Len(w.io.file)
  /\ whole = NoPage =>
       /\ Len(w.io.file) = 1 + Len(pages) * PageLength(w)
       /\ \A i \in DOMAIN pages : pages[i].page = i - 1
  /\ whole # NoPage =>
       /\ 1 + whole * PageLength(w) <= Len(w.io.file)
       /\ whole <= Len(pages)

PlaceInv == Placed(worker, granted, kept)

\* Multiplication by a page length keeps the order of page numbers.
LEMMA PagesAscend ==
  ASSUME NEW p \in Nat, NEW m \in Nat, NEW n \in Nat
  PROVE  /\ m * p \in Nat
         /\ (m + 1) * p = m * p + p
         /\ m < n => m * p + p <= n * p
         /\ m <= n => m * p <= n * p
<1>1. m * p \in Nat /\ (m + 1) * p = m * p + p
  OBVIOUS
<1>2. m < n => m * p + p <= n * p
  OBVIOUS
<1>3. m <= n => m * p <= n * p
  <2>1. CASE m = n
    BY <1>1, <2>1
  <2>2. CASE m < n
    BY <1>1, <1>2, <2>2
  <2> QED
    BY <2>1, <2>2
<1> QED
  BY <1>1, <1>2, <1>3

\* Division by a page length gives the number of whole pages.
LEMMA DivisionCounts ==
  ASSUME NEW l \in Nat, NEW p \in Nat \ {0}
  PROVE  /\ l \div p \in Nat
         /\ (l \div p) * p <= l
         /\ l < (l \div p) * p + p
         /\ \A q \in Nat : l = q * p => l \div p = q
<1>1. l \div p \in Nat /\ (l \div p) * p <= l
  OBVIOUS
<1>2. l < (l \div p) * p + p
  OBVIOUS
<1>3. ASSUME NEW q \in Nat, l = q * p
      PROVE  l \div p = q
  BY <1>3
<1> QED
  BY <1>1, <1>2, <1>3

\* The number of pages is what the file has room for.
LEMMA TotalPagesCounts ==
  ASSUME NEW w, Sound(w), Prefix(w)
  PROVE  /\ TotalPages(w) \in Nat
         /\ 1 + TotalPages(w) * PageLength(w) <= Len(w.io.file)
         /\ Len(w.io.file) < 1 + TotalPages(w) * PageLength(w) + PageLength(w)
         /\ \A q \in Nat : Len(w.io.file) = 1 + q * PageLength(w) =>
              TotalPages(w) = q
<1> DEFINE l == Len(w.io.file)
           p == PageLength(w)
<1>1. l \in Nat /\ l >= 1
  BY SoundFacts DEF Sound
<1>2. p \in Nat \ {0}
  <2>1. w.header.page_size \in Nat /\ p = 1 + w.header.page_size
    BY SoundFacts
  <2> QED
    BY <2>1
<1>3. BufLen(w.io) = l
  <2>1. w.io = [file |-> w.io.file, buf |-> Take(w.io.file, BufSize)]
    BY SoundFacts DEF Prefix
  <2>2. w.io.file \in Seq(FileCell)
    BY SoundFacts
  <2>3. BufLen([file |-> w.io.file, buf |-> Take(w.io.file, BufSize)])
          = Len(w.io.file)
    BY <2>2, LengthThroughBuffer
  <2> QED
    BY <2>1, <2>3
<1>4. TotalPages(w) = IF l > 1 THEN (l - 1) \div p ELSE 0
  BY <1>3 DEF TotalPages, FsHeaderLength
<1> HIDE DEF l, p
<1>5. TotalPages(w) = (l - 1) \div p
  <2>1. CASE l > 1
    BY <1>4, <2>1
  <2>2. CASE ~ (l > 1)
    <3>1. l - 1 = 0 /\ 0 * p = 0
      BY <1>1, <1>2, <2>2
    <3>2. 0 \div p = 0
      BY <1>2, <3>1, DivisionCounts
    <3> QED
      BY <1>4, <2>2, <3>1, <3>2
  <2> QED
    BY <2>1, <2>2
<1> DEFINE t == (l - 1) \div p
<1>6. /\ t \in Nat /\ t * p <= l - 1 /\ l - 1 < t * p + p
      /\ \A q \in Nat : l - 1 = q * p => t = q
  <2>1. l - 1 \in Nat
    BY <1>1
  <2> DEFINE k == l - 1
  <2>2. k \in Nat
    BY <2>1
  <2> HIDE DEF k
  <2>3. /\ k \div p \in Nat
        /\ (k \div p) * p <= k
        /\ k < (k \div p) * p + p
        /\ \A q \in Nat : k = q * p => k \div p = q
    BY <1>2, <2>2, DivisionCounts
  <2> QED
    BY <2>3 DEF k
<1> HIDE DEF t
<1>7. t * p \in Nat
  BY <1>2, <1>6
<1>8. 1 + t * p <= l /\ l < 1 + t * p + p
  BY <1>1, <1>2, <1>6, <1>7
<1>9. ASSUME NEW q \in Nat, l = 1 + q * p
      PROVE  t = q
  <2>1. q * p \in Nat
    BY <1>2
  <2>2. l - 1 = q * p
    BY <1>9, <2>1
  <2> QED
    BY <1>6, <2>2
<1> QED
  BY <1>5, <1>6, <1>8, <1>9 DEF t, l, p

\* A page that a client can address lies in the file.
LEMMA AddressedPagesAreThere ==
  ASSUME Orderly, StoreInv, PlaceInv, NEW n \in Addressable
  PROVE  /\ n \in Nat
         /\ n * PageLength(worker) \in Nat
         /\ 1 + n * PageLength(worker) + PageLength(worker)
              <= Len(worker.io.file)
<1> DEFINE p == PageLength(worker)
<1>1. n \in Nat /\ p \in Nat
  BY AddressesAreNumbers, SoundFacts DEF StoreInv
<1>2. n \in Granted
  BY DEF Orderly, Addressable
<1>3. PICK i \in DOMAIN granted : n = granted[i].page
  BY <1>2 DEF Granted
<1>4. 1 + (n + 1) * p <= Len(worker.io.file)
  BY <1>3 DEF PlaceInv, Placed
<1>5. Len(worker.io.file) \in Nat
  BY SoundFacts DEF StoreInv
<1> HIDE DEF p
<1>6. n * p \in Nat /\ (n + 1) * p = n * p + p
  BY <1>1, PagesAscend
<1>7. 1 + n * p + p = 1 + (n + 1) * p
  BY <1>1, <1>6
<1> QED
  BY <1>1, <1>4, <1>6, <1>7 DEF p

\* Of the place of a page: its header is one cell, and its body lies behind.
LEMMA PlaceOfPage ==
  ASSUME Orderly, StoreInv, PlaceInv, NEW n \in Addressable,
         NEW offset \in Nat, NEW fit \in Nat,
         offset + fit <= worker.header.page_size
  PROVE  /\ PagePos(worker, n) + 1 <= Len(worker.io.file)
         /\ (BodyPos(worker, n) + offset) + fit <= Len(worker.io.file)
<1> DEFINE p == PageLength(worker)
           q == n * p
           l == Len(worker.io.file)
           size == worker.header.page_size
<1>1. n \in Nat /\ q \in Nat /\ 1 + q + p <= l
  BY AddressedPagesAreThere
<1>2. l \in Nat /\ size \in Nat /\ p = 1 + size
  BY SoundFacts DEF StoreInv
<1>3. PagePos(worker, n) = 1 + q /\ BodyPos(worker, n) = 2 + q
  BY <1>1, PlacesAreNumbers DEF StoreInv
<1> HIDE DEF p, q, l
<1>4. 1 + q + 1 <= l /\ ((2 + q) + offset) + fit <= l
  BY <1>1, <1>2
<1> QED
  BY <1>3, <1>4 DEF l

\* A write inside the file leaves its length as it is.
LEMMA WriteKeepsLength ==
  ASSUME NEW f \in Seq(FileCell), NEW pos \in Nat, NEW cells \in Seq(FileCell),
         pos + Len(cells) <= Len(f)
  PROVE  Len(Overwritten(f, pos, cells)) = Len(f)
<1>1. Len(f) \in Nat /\ Len(cells) \in Nat /\ Zero \in FileCell
  BY LenProperties, PageCellsAreCells
<1>2. Len(Overwritten(f, pos, cells)) = Longer(Len(f), pos + Len(cells))
  BY <1>1, OverwrittenProperties
<1> QED
  BY <1>1, <1>2 DEF Longer

\* A write inside the file leaves every page where it is.
LEMMA WriteInPlace ==
  ASSUME NEW w, Sound(w), NEW pages, NEW whole, Placed(w, pages, whole),
         NEW pos \in Nat, NEW cells \in Seq(FileCell),
         pos + Len(cells) <= Len(w.io.file),
         NEW v, v.header = w.header,
         v.io.file = Overwritten(w.io.file, pos, cells),
         v.io.buf = Buffered(w.io.buf, pos, cells)
  PROVE  Placed(v, pages, whole) /\ Len(v.io.file) = Len(w.io.file)
<1> DEFINE f == w.io.file
           g == Overwritten(f, pos, cells)
<1>1. f \in Seq(FileCell) /\ Len(f) \in Nat /\ Zero \in FileCell
      /\ Len(cells) \in Nat /\ pos + Len(cells) <= Len(f)
  BY SoundFacts, PageCellsAreCells, LenProperties
<1>2. w.io.buf = Take(f, BufSize)
  BY DEF Placed, Prefix
<1>3. v.io.file = g /\ v.io.buf = Buffered(w.io.buf, pos, cells)
  OBVIOUS
<1> HIDE DEF f
<1>4. g \in Seq(FileCell) /\ Len(g) = Longer(Len(f), pos + Len(cells))
  BY <1>1, OverwrittenProperties
<1>5. pos <= Len(f)
  BY <1>1
<1>6. Buffered(Take(f, BufSize), pos, cells) = Take(g, BufSize)
  BY <1>1, <1>5, WriteKeepsPrefix
<1>7. Len(g) = Len(f)
  BY <1>1, <1>4 DEF Longer
<1> HIDE DEF g
<1>8. Prefix(v)
  BY <1>2, <1>3, <1>6 DEF Prefix
<1>9. PageLength(v) = PageLength(w)
  BY DEF PageLength
<1>10. Len(v.io.file) = Len(w.io.file)
  BY <1>3, <1>7 DEF f
<1> QED
  BY <1>8, <1>9, <1>10 DEF Placed

\* An append leaves the buffer the start of the file.
LEMMA AppendInPlace ==
  ASSUME NEW w, Sound(w), Prefix(w), NEW cells \in Seq(PageCell)
  PROVE  /\ Prefix(AppendTo(w, cells))
         /\ PageLength(AppendTo(w, cells)) = PageLength(w)
         /\ Len(AppendTo(w, cells).io.file) = Len(w.io.file) + Len(cells)
<1> DEFINE v == AppendTo(w, cells)
           f == w.io.file
<1>1. /\ v.header = w.header
      /\ v.io.file = f \o cells
      /\ v.io.buf = Appended(w.io.buf, cells)
  BY SoundAppend
<1>2. f \in Seq(FileCell) /\ cells \in Seq(FileCell)
  BY SoundFacts, PageCellsAreCells
<1>3. w.io.buf = Take(f, BufSize)
  BY DEF Prefix
<1> HIDE DEF v, f
<1>4. Appended(Take(f, BufSize), cells) = Take(f \o cells, BufSize)
  BY <1>2, AppendKeepsPrefix
<1>5. Prefix(v)
  BY <1>1, <1>3, <1>4 DEF Prefix
<1>6. Len(f \o cells) = Len(f) + Len(cells)
  BY <1>2, ConcatProperties
<1>7. PageLength(v) = PageLength(w)
  BY <1>1 DEF PageLength
<1>8. Len(v.io.file) = Len(f) + Len(cells)
  BY <1>1, <1>6
<1> QED
  BY <1>5, <1>7, <1>8 DEF v, f

\* What is in place stays there when the file grows behind it.
LEMMA GrowInPlace ==
  ASSUME NEW w, Sound(w), NEW v, Sound(v),
         NEW pages \in Seq(Grant), NEW whole \in PageNo,
         Placed(w, pages, whole), Prefix(v),
         PageLength(v) = PageLength(w),
         Len(w.io.file) <= Len(v.io.file)
  PROVE  Placed(v, pages, whole)
<1> DEFINE p == PageLength(w)
           l == Len(w.io.file)
           m == Len(v.io.file)
<1>1. p \in Nat /\ l \in Nat /\ m \in Nat /\ l <= m
  BY SoundFacts
<1>2. whole # NoPage /\ whole \in Nat
  BY PageStoreAssumption
<1>3. /\ \A i \in DOMAIN pages : 1 + (pages[i].page + 1) * p <= l
      /\ 1 + whole * p <= l
      /\ whole <= Len(pages)
  BY <1>2 DEF Placed
<1>4. \A i \in DOMAIN pages : pages[i].page \in Nat
  <2>1. DOMAIN pages = 1 .. Len(pages)
    BY LenProperties
  <2>2. \A i \in DOMAIN pages : pages[i] \in Grant
    BY <2>1, ElementOfSeq
  <2> QED
    BY <2>2, PageStoreAssumption DEF Grant
<1> HIDE DEF p, l, m
<1>5. ASSUME NEW i \in DOMAIN pages
      PROVE  1 + (pages[i].page + 1) * p <= m
  <2> DEFINE k == pages[i].page + 1
  <2>1. k \in Nat /\ 1 + k * p <= l
    BY <1>3, <1>4
  <2> HIDE DEF k
  <2>2. k * p \in Nat
    BY <1>1, <2>1
  <2>3. 1 + k * p <= m
    BY <1>1, <2>1, <2>2
  <2> QED
    BY <2>3 DEF k
<1>6. 1 + whole * p <= m
  <2>1. whole * p \in Nat
    BY <1>1, <1>2
  <2> QED
    BY <1>1, <1>3, <2>1
<1> QED
  BY <1>2, <1>3, <1>5, <1>6 DEF Placed, p, l, m

\* There is nothing but the filesystem header in the beginning.
LEMMA PlaceInit == Init => PlaceInv
<1> SUFFICES ASSUME Init PROVE PlaceInv
  OBVIOUS
<1>1. PICK h \in FsHeaders : worker = DriverNew(<<>>, h)
  BY DEF Init
<1> DEFINE c == <<FsHeaderToCell(h)>>
<1>2. /\ Sound(worker)
      /\ worker.io.file = c
      /\ worker.io.buf = Take(c, BufSize)
      /\ Len(c) = 1
  BY <1>1, SoundNew
<1>3. granted = <<>> /\ kept = NoPage /\ Len(granted) = 0
  BY EmptySeq DEF Init
<1> HIDE DEF c
<1>4. Len(worker.io.file) = 1 + Len(granted) * PageLength(worker)
  <2>1. PageLength(worker) \in Nat
    BY <1>2, SoundFacts
  <2> HIDE DEF Init
  <2> QED
    BY <1>2, <1>3, <2>1
<1>5. DOMAIN granted = {}
  BY <1>3
<1>6. Prefix(worker)
  BY <1>2 DEF Prefix
<1> QED
  BY <1>3, <1>4, <1>5, <1>6 DEF PlaceInv, Placed

\* A new page comes behind the others.
LEMMA CreateInPlace ==
  ASSUME StoreInv, PlaceInv, NEW parent \in Neighbour, CreatePage(parent)
  PROVE  PlaceInv'
<1> DEFINE w == worker
           v == AppendTo(w, HeaderCells(parent))
           z == Zeros(v.header.page_size)
           t == TotalPages(w)
           p == PageLength(w)
           l == Len(w.io.file)
           new == [page |-> t, parent |-> parent]
<1>1. /\ worker' = AppendTo(v, z)
      /\ granted' = Append(granted, new)
      /\ kept' = kept
  BY CreateStep
<1>2. parent \in PageNo \cup {NoPage}
  BY AddressesAreNumbers DEF Neighbour
<1>3. Sound(w) /\ Prefix(w)
  BY DEF StoreInv, PlaceInv, Placed
<1>4. /\ HeaderCells(parent) \in Seq(PageCell)
      /\ Len(HeaderCells(parent)) = 1
  BY <1>2, PageIsCells
<1>5. /\ Sound(v) /\ Prefix(v) /\ v.header = w.header
      /\ PageLength(v) = p
      /\ Len(v.io.file) = l + 1
  BY <1>3, <1>4, SoundAppend, AppendInPlace
<1>6. /\ w.header.page_size \in Nat
      /\ p \in Nat /\ p = 1 + w.header.page_size /\ l \in Nat
  BY <1>3, SoundFacts
<1>7. z \in Seq(PageCell) /\ Len(z) = w.header.page_size
  BY <1>2, <1>5, <1>6, PageIsCells
<1> HIDE DEF v, z
<1>8. /\ Prefix(worker')
      /\ PageLength(worker') = p
      /\ Len(worker'.io.file) = l + p
  <2>1. /\ Prefix(AppendTo(v, z))
        /\ PageLength(AppendTo(v, z)) = PageLength(v)
        /\ Len(AppendTo(v, z).io.file) = Len(v.io.file) + Len(z)
    BY <1>5, <1>7, AppendInPlace
  <2>2. (l + 1) + w.header.page_size = l + p
    BY <1>6
  <2> QED
    BY <1>1, <1>5, <1>7, <2>1, <2>2
<1>9. /\ t \in Nat /\ 1 + t * p <= l
      /\ \A q \in Nat : l = 1 + q * p => t = q
  BY <1>3, TotalPagesCounts
<1>10. /\ granted \in Seq(Grant) /\ Len(granted) \in Nat
       /\ DOMAIN granted = 1 .. Len(granted)
       /\ \A i \in DOMAIN granted : granted[i].page \in Nat
  <2>1. granted \in Seq(Grant)
    BY DEF StoreInv
  <2>2. DOMAIN granted = 1 .. Len(granted) /\ Len(granted) \in Nat
    BY <2>1, LenProperties
  <2>3. \A i \in DOMAIN granted : granted[i] \in Grant
    BY <2>1, <2>2, ElementOfSeq
  <2> QED
    BY <2>1, <2>2, <2>3, PageStoreAssumption DEF Grant
<1>11. t \in PageNo
  <2>1. t < MaxPages
    BY CreateStep
  <2> HIDE DEF t
  <2> QED
    BY <1>9, <2>1, PageStoreAssumption
<1>12. new \in Grant
  BY <1>2, <1>11 DEF Grant
<1>13. new.page = t
  OBVIOUS
<1>14. /\ \A i \in DOMAIN granted : 1 + (granted[i].page + 1) * p <= l
       /\ kept = NoPage => /\ l = 1 + Len(granted) * p
                           /\ \A i \in DOMAIN granted : granted[i].page = i - 1
       /\ kept # NoPage => 1 + kept * p <= l /\ kept <= Len(granted)
  BY DEF PlaceInv, Placed
<1>15. kept # NoPage => kept \in Nat
  BY PageStoreAssumption DEF StoreInv
<1> HIDE DEF w, t, p, l, new
<1>16. /\ Len(granted') = Len(granted) + 1
       /\ DOMAIN granted' = 1 .. (Len(granted) + 1)
       /\ \A i \in DOMAIN granted : granted'[i] = granted[i]
       /\ granted'[Len(granted) + 1] = new
  <2>1. /\ Append(granted, new) \in Seq(Grant)
        /\ Len(Append(granted, new)) = Len(granted) + 1
        /\ \A i \in 1 .. Len(granted) : Append(granted, new)[i] = granted[i]
        /\ Append(granted, new)[Len(granted) + 1] = new
    BY <1>10, <1>12, AppendProperties
  <2>2. DOMAIN Append(granted, new) = 1 .. Len(Append(granted, new))
    BY <2>1, LenProperties
  <2> QED
    BY <1>1, <1>10, <2>1, <2>2
<1>17. t * p \in Nat /\ (t + 1) * p = t * p + p
  BY <1>6, <1>9, PagesAscend
<1>18. ASSUME NEW i \in DOMAIN granted'
       PROVE  1 + (granted'[i].page + 1) * p <= l + p
  <2>1. CASE i \in DOMAIN granted
    <3> DEFINE k == granted[i].page + 1
    <3>1. k \in Nat /\ 1 + k * p <= l
      BY <1>10, <1>14, <2>1
    <3> HIDE DEF k
    <3>2. k * p \in Nat
      BY <1>6, <3>1
    <3>3. 1 + k * p <= l + p
      BY <1>6, <3>1, <3>2
    <3> QED
      BY <1>16, <2>1, <3>3 DEF k
  <2>2. CASE i = Len(granted) + 1
    <3>1. 1 + (t * p + p) <= l + p
      BY <1>6, <1>9, <1>17
    <3> QED
      BY <1>13, <1>16, <1>17, <2>2, <3>1
  <2> QED
    BY <1>10, <1>16, <2>1, <2>2
<1>19. ASSUME kept = NoPage
       PROVE  /\ l + p = 1 + Len(granted') * p
              /\ \A i \in DOMAIN granted' : granted'[i].page = i - 1
  <2>1. t = Len(granted)
    BY <1>9, <1>10, <1>14, <1>19
  <2>2. l + p = 1 + (t + 1) * p
    <3>1. l = 1 + t * p
      BY <1>14, <1>19, <2>1
    <3> QED
      BY <1>6, <1>17, <3>1
  <2>3. ASSUME NEW i \in DOMAIN granted'
        PROVE  granted'[i].page = i - 1
    <3>1. CASE i \in DOMAIN granted
      BY <1>14, <1>16, <1>19, <3>1
    <3>2. CASE i = Len(granted) + 1
      BY <1>10, <1>13, <1>16, <2>1, <3>2
    <3> QED
      BY <1>10, <1>16, <3>1, <3>2
  <2> QED
    BY <1>16, <2>1, <2>2, <2>3
<1>20. ASSUME kept # NoPage
       PROVE  1 + kept * p <= l + p /\ kept <= Len(granted')
  <2>1. kept \in Nat /\ kept * p \in Nat /\ 1 + kept * p <= l
    BY <1>6, <1>14, <1>15, <1>20, SMTT(40)
  <2>2. 1 + kept * p <= l + p
    BY <1>6, <2>1
  <2>3. kept <= Len(granted) + 1
    BY <1>10, <1>14, <1>20, <2>1
  <2> QED
    BY <1>16, <2>2, <2>3
<1>21. Placed(worker', granted', kept')
  BY <1>1, <1>8, <1>18, <1>19, <1>20 DEF Placed
<1> QED
  BY <1>21 DEF PlaceInv

\* The pages there were when the process ended stay where they are.
LEMMA ReopenInPlace ==
  ASSUME StoreInv, NEW w, Sound(w), Reopen(w),
         Placed(w, granted, kept')
  PROVE  PlaceInv'
<1>1. worker' = w \/ worker' = DriverNew(w.io.file, w.header)
  BY ReopenStep
<1>2. granted' = granted
  BY ReopenStep
<1>3. CASE worker' = w
  BY <1>2, <1>3 DEF PlaceInv
<1>4. CASE worker' = DriverNew(w.io.file, w.header)
  <2>1. /\ worker'.header = w.header
        /\ worker'.io.file = w.io.file
        /\ worker'.io.buf = Take(w.io.file, BufSize)
    BY <1>4, SoundOpen
  <2>2. Prefix(worker') /\ PageLength(worker') = PageLength(w)
    BY <2>1 DEF Prefix, PageLength
  <2>3. Placed(worker', granted, kept')
    BY <2>1, <2>2 DEF Placed
  <2> QED
    BY <1>2, <2>3 DEF PlaceInv
<1> QED
  BY <1>1, <1>3, <1>4

\* A torn page comes behind the others and keeps those that are complete.
LEMMA TornInPlace ==
  ASSUME StoreInv, PlaceInv, NEW parent \in Neighbour,
         CrashInCreatePage(parent)
  PROVE  PlaceInv'
<1> DEFINE v == AppendTo(worker, HeaderCells(parent))
           t == TotalPages(worker)
           p == PageLength(worker)
           l == Len(worker.io.file)
           n == IF kept = NoPage THEN t ELSE kept
<1>1. t < MaxPages /\ Reopen(v) /\ kept' = n
  BY TornStep
<1>2. Sound(worker) /\ Prefix(worker)
  BY DEF StoreInv, PlaceInv, Placed
<1>3. Sound(v)
  BY TornIsSound
<1>4. Prefix(v) /\ PageLength(v) = p /\ Len(v.io.file) = l + 1
  <2>1. parent \in PageNo \cup {NoPage}
    BY AddressesAreNumbers DEF Neighbour
  <2>2. /\ HeaderCells(parent) \in Seq(PageCell)
        /\ Len(HeaderCells(parent)) = 1
    BY <2>1, PageIsCells
  <2> QED
    BY <1>2, <2>2, AppendInPlace
<1>5. /\ t \in Nat /\ 1 + t * p <= l
      /\ \A q \in Nat : l = 1 + q * p => t = q
  BY <1>2, TotalPagesCounts
<1>6. granted \in Seq(Grant) /\ Len(granted) \in Nat
  BY LenProperties DEF StoreInv
<1>7. n \in PageNo /\ n # NoPage
  BY <1>1, <1>5, PageStoreAssumption DEF StoreInv
<1>8. Placed(worker, granted, n)
  <2>1. kept = NoPage => n = t /\ t = Len(granted)
    BY <1>5, <1>6 DEF PlaceInv, Placed
  <2>2. 1 + n * p <= l /\ n <= Len(granted)
    <3>1. CASE kept = NoPage
      BY <1>5, <1>6, <2>1, <3>1
    <3>2. CASE kept # NoPage
      BY <3>2 DEF PlaceInv, Placed
    <3> QED
      BY <3>1, <3>2
  <2> HIDE DEF n
  <2> QED
    BY <1>7, <2>2 DEF PlaceInv, Placed
<1>9. l <= Len(v.io.file)
  <2>1. l \in Nat
    BY <1>2, SoundFacts
  <2> QED
    BY <1>4, <2>1
<1> HIDE DEF n, v
<1>10. Placed(v, granted, n)
  BY <1>2, <1>3, <1>4, <1>6, <1>7, <1>8, <1>9, GrowInPlace
<1> QED
  BY <1>1, <1>3, <1>10, ReopenInPlace

\* Before the first page the page size may change.
LEMMA FormatInPlace ==
  ASSUME Orderly, StoreInv, PlaceInv, NEW h \in FsHeaders,
         WriteFilesystemHeader(h)
  PROVE  PlaceInv'
<1> DEFINE c == <<FsHeaderToCell(h)>>
           w == worker
           f == w.io.file
           g == Overwritten(f, 0, c)
<1>1. /\ granted = <<>> /\ worker' = Formatted(w, h)
      /\ granted' = granted /\ kept' = kept
  BY HeaderSteps DEF Orderly
<1>2. Sound(w) /\ Prefix(w)
  BY DEF StoreInv, PlaceInv, Placed
<1>3. /\ Sound(worker')
      /\ worker'.io.file = g
      /\ worker'.io.buf = Buffered(w.io.buf, 0, c)
      /\ c \in Seq(FileCell) /\ Len(c) = 1
  BY <1>1, <1>2, SoundFormat
<1>4. f \in Seq(FileCell) /\ Len(f) \in Nat /\ Len(f) >= 1 /\ Zero \in FileCell
  BY <1>2, SoundFacts, PageCellsAreCells DEF Sound
<1>5. w.io.buf = Take(f, BufSize)
  BY <1>2 DEF Prefix
<1> HIDE DEF w, f, c
<1>6. g \in Seq(FileCell) /\ Len(g) = Longer(Len(f), 0 + Len(c))
  <2>1. 0 \in Nat /\ f \in Seq(FileCell) /\ c \in Seq(FileCell)
    BY <1>3, <1>4
  <2> QED
    BY <1>4, <2>1, OverwrittenProperties
<1>7. Len(g) = Len(f)
  BY <1>3, <1>4, <1>6 DEF Longer
<1>8. Buffered(Take(f, BufSize), 0, c) = Take(g, BufSize)
  <2>1. 0 \in Nat /\ 0 <= Len(f)
    BY <1>4
  <2> QED
    BY <1>3, <1>4, <2>1, WriteKeepsPrefix
<1> HIDE DEF g
<1>9. Prefix(worker')
  BY <1>3, <1>5, <1>8 DEF Prefix
<1>10. DOMAIN granted = {} /\ Len(granted) = 0
  BY <1>1, EmptySeq
<1> DEFINE p == PageLength(worker')
           q == PageLength(worker)
<1>11. p \in Nat /\ q \in Nat /\ 0 * p = 0 /\ 0 * q = 0
  <2>1. p \in Nat /\ q \in Nat
    BY <1>2, <1>3, SoundFacts DEF w
  <2> HIDE DEF p, q
  <2> QED
    BY <2>1
<1>12. /\ kept = NoPage => Len(f) = 1 + Len(granted) * q
       /\ kept # NoPage => kept <= Len(granted)
  BY DEF PlaceInv, Placed, w, f
<1>13. kept # NoPage => kept \in Nat
  BY PageStoreAssumption DEF StoreInv
<1> HIDE DEF p, q
<1>14. kept = NoPage => Len(g) = 1 + Len(granted) * p
  BY <1>7, <1>10, <1>11, <1>12
<1>15. kept # NoPage => kept = 0
  BY <1>10, <1>12, <1>13
<1>16. kept # NoPage => 1 + kept * p <= Len(g) /\ kept <= Len(granted)
  BY <1>4, <1>7, <1>10, <1>11, <1>15
<1>17. Placed(worker', granted, kept)
  BY <1>3, <1>9, <1>10, <1>14, <1>16 DEF Placed, p
<1> QED
  BY <1>1, <1>17 DEF PlaceInv

\* A page header that is written goes to its place.
LEMMA HeaderInPlace ==
  ASSUME Orderly, StoreInv, PlaceInv, NEW n \in Addressable,
         NEW h \in PageHeader
  PROVE  LET v == WriteHeaderOf(worker, n, h)
         IN  /\ Placed(v, granted, kept)
             /\ Len(v.io.file) = Len(worker.io.file)
<1> DEFINE c == <<HeaderToCell(h)>>
           v == WriteHeaderOf(worker, n, h)
           pos == PagePos(worker, n)
<1>1. Sound(worker) /\ n \in Nat /\ pos \in Nat
  BY AddressesAreNumbers, PlacesAreNumbers DEF StoreInv
<1>2. /\ c \in Seq(PageCell) /\ Len(c) = 1
      /\ v.header = worker.header
      /\ v.io.file = Overwritten(worker.io.file, pos, c)
      /\ v.io.buf = Buffered(worker.io.buf, pos, c)
  BY <1>1, HeaderWrite
<1>3. pos + Len(c) <= Len(worker.io.file)
  <2>1. 0 + 0 <= worker.header.page_size
    <3>1. worker.header.page_size \in Nat
      BY <1>1, SoundFacts
    <3> QED
      BY <3>1
  <2>2. pos + 1 <= Len(worker.io.file)
    BY <2>1, PlaceOfPage
  <2> HIDE DEF c
  <2> QED
    BY <1>2, <2>2
<1> HIDE DEF c, v, pos
<1>4. c \in Seq(FileCell)
  BY <1>2, PageCellsAreCells
<1>5. Placed(worker, granted, kept)
  BY DEF PlaceInv
<1>6. Placed(v, granted, kept) /\ Len(v.io.file) = Len(worker.io.file)
  <2>1. Placed(v, granted, kept)
    BY <1>1, <1>2, <1>3, <1>4, <1>5, WriteInPlace
  <2>2. Len(v.io.file) = Len(worker.io.file)
    <3>1. worker.io.file \in Seq(FileCell)
      BY <1>1, SoundFacts
    <3>2. pos \in Nat /\ pos + Len(c) <= Len(worker.io.file)
      BY <1>1, <1>3
    <3>3. Len(Overwritten(worker.io.file, pos, c)) = Len(worker.io.file)
      BY <1>4, <3>1, <3>2, WriteKeepsLength
    <3>4. v.io.file = Overwritten(worker.io.file, pos, c)
      BY <1>2
    <3> QED
      BY <3>3, <3>4
  <2> QED
    BY <2>1, <2>2
<1> QED
  BY <1>6 DEF v

\* Bytes that are written into a body go to their place.
LEMMA BodyInPlace ==
  ASSUME Orderly, StoreInv, PlaceInv, NEW n \in Addressable,
         NEW offset \in Nat, NEW cells \in Seq(PageCell), cells # <<>>,
         offset + Len(cells) <= worker.header.page_size
  PROVE  LET v == WriteAt(worker, BodyPos(worker, n) + offset, cells)
         IN  /\ Placed(v, granted, kept)
             /\ Len(v.io.file) = Len(worker.io.file)
<1> DEFINE pos == BodyPos(worker, n) + offset
           v == WriteAt(worker, pos, cells)
<1>1. Sound(worker) /\ n \in Nat /\ pos \in Nat \ {0}
  <2>1. Sound(worker) /\ n \in Nat
    BY AddressesAreNumbers DEF StoreInv
  <2>2. BodyPos(worker, n) \in Nat \ {0}
    BY <2>1, PlacesAreNumbers
  <2> QED
    BY <2>1, <2>2
<1>2. Len(cells) \in Nat
  BY LenProperties
<1>3. pos + Len(cells) <= Len(worker.io.file)
  BY <1>2, PlaceOfPage
<1> HIDE DEF pos
<1>4. /\ v.header = worker.header
      /\ v.io.file = Overwritten(worker.io.file, pos, cells)
      /\ v.io.buf = Buffered(worker.io.buf, pos, cells)
  BY <1>1, SoundWrite
<1> HIDE DEF v
<1>5. cells \in Seq(FileCell) /\ pos \in Nat
  BY <1>1, PageCellsAreCells
<1>6. Placed(worker, granted, kept)
  BY DEF PlaceInv
<1>7. Placed(v, granted, kept) /\ Len(v.io.file) = Len(worker.io.file)
  <2>1. Placed(v, granted, kept)
    BY <1>1, <1>3, <1>4, <1>5, <1>6, WriteInPlace
  <2>2. Len(v.io.file) = Len(worker.io.file)
    BY <1>1, <1>3, <1>4, <1>5, <1>6, WriteInPlace
  <2> QED
    BY <2>1, <2>2
<1> QED
  BY <1>7 DEF v, pos

\* A step that leaves the worker alone leaves the pages where they are.
LEMMA StillInPlace ==
  ASSUME PlaceInv, UNCHANGED <<worker, granted, kept>>
  PROVE  PlaceInv'
BY DEF PlaceInv

\* Every step keeps the pages in place.
LEMMA PlaceStep ==
  ASSUME Orderly, StoreInv, PlaceInv, [Next]_vars
  PROVE  PlaceInv'
<1>a. Sound(worker)
  BY DEF StoreInv
<1>b. worker.header.page_size \in Nat \ {0}
  BY <1>a, SoundFacts
<1>1. CASE ReadFilesystemHeader
  BY <1>1, ReadSteps, StillInPlace
<1>2. ASSUME NEW h \in FsHeaders, WriteFilesystemHeader(h)
      PROVE  PlaceInv'
  BY <1>2, FormatInPlace
<1>3. CASE Restart
  <2>1. Reopen(worker) /\ kept' = kept
    BY <1>3 DEF Restart
  <2>2. Placed(worker, granted, kept')
    BY <2>1 DEF PlaceInv
  <2> QED
    BY <1>a, <2>1, <2>2, ReopenInPlace
<1>4. ASSUME NEW parent \in Neighbour, CreatePage(parent)
      PROVE  PlaceInv'
  BY <1>4, CreateInPlace
<1>5. ASSUME NEW parent \in Neighbour, CrashInCreatePage(parent)
      PROVE  PlaceInv'
  BY <1>5, TornInPlace
<1>6. ASSUME NEW n \in Addressable, NEW next \in Addressable,
             LinkPageForward(n, next)
      PROVE  PlaceInv'
  <2> DEFINE h == [ReadHeaderOf(worker, n) EXCEPT !.next = next]
  <2>1. worker' = WriteHeaderOf(worker, n, h)
        /\ granted' = granted /\ kept' = kept
    BY <1>6, HeaderSteps
  <2>2. ReadHeaderOf(worker, n) \in PageHeader
    BY PageHeaderCodec DEF ReadHeaderOf
  <2>3. h \in PageHeader
    BY <2>2, AddressesAreNumbers DEF PageHeader
  <2> HIDE DEF h
  <2> QED
    BY <2>1, <2>3, HeaderInPlace DEF PlaceInv
<1>7. ASSUME NEW n \in Addressable, ReadPageHeader(n)
      PROVE  PlaceInv'
  BY <1>7, ReadSteps, StillInPlace
<1>8. ASSUME NEW n \in Addressable, NEW h \in Headers, WritePageHeader(n, h)
      PROVE  PlaceInv'
  <2>1. worker' = WriteHeaderOf(worker, n, h)
        /\ granted' = granted /\ kept' = kept
    BY <1>8, HeaderSteps
  <2>2. h \in PageHeader
    BY PageStoreAssumption
  <2> QED
    BY <2>1, <2>2, HeaderInPlace DEF PlaceInv
<1>9. ASSUME NEW n \in Addressable, NEW offset, NEW length,
             ReadPage(n, offset, length)
      PROVE  PlaceInv'
  BY <1>9, ReadSteps, StillInPlace
<1>10. ASSUME NEW n \in Addressable,
              NEW offset \in 0 .. worker.header.page_size,
              NEW bytes \in Bytes, WritePage(n, offset, bytes)
       PROVE  PlaceInv'
  <2> DEFINE size == worker.header.page_size
             fit == Fit(size, offset, bytes)
             s == SubSeq(bytes, 1, fit)
  <2>1. /\ granted' = granted /\ kept' = kept
        /\ \/ worker' = worker
           \/ /\ ~ (offset >= size \/ bytes = <<>>)
              /\ worker' = WriteAt(worker, BodyPos(worker, n) + offset, s)
    BY <1>10, WriteStep DEF Fit
  <2>2. CASE worker' = worker
    BY <2>1, <2>2, StillInPlace
  <2>3. CASE /\ ~ (offset >= size \/ bytes = <<>>)
             /\ worker' = WriteAt(worker, BodyPos(worker, n) + offset, s)
    <3>1. size \in Nat /\ offset \in Nat /\ offset < size
      BY <1>b, <2>3
    <3>2. /\ s \in Seq(PageCell) /\ s # <<>>
          /\ offset + fit <= size /\ Len(s) = fit
      BY <2>3, <3>1, FittingPart
    <3>3. offset + Len(s) <= size
      BY <3>2
    <3> HIDE DEF s
    <3>4. Placed(worker', granted, kept)
      BY <2>3, <3>1, <3>2, <3>3, BodyInPlace
    <3> QED
      BY <2>1, <3>4 DEF PlaceInv
  <2> QED
    BY <2>1, <2>2, <2>3
<1>11. CASE UNCHANGED vars
  BY <1>11, StillInPlace DEF vars
<1> QED
  BY <1>1, <1>2, <1>3, <1>4, <1>5, <1>6, <1>7, <1>8, <1>9, <1>10, <1>11
     DEF Next

\* Both invariants hold for ever.
LEMMA PlaceInvariant ==
  ASSUME Orderly
  PROVE  Spec => [](StoreInv /\ PlaceInv)
<1>1. Init => StoreInv /\ PlaceInv
  BY StoreInit, PlaceInit
<1>2. (StoreInv /\ PlaceInv) /\ [Next]_vars => (StoreInv /\ PlaceInv)'
  BY StoreStep, PlaceStep
<1> QED
  BY <1>1, <1>2, PTL DEF Spec

\* The buffer is the start of the file, as much of it as there is room for,
\* through writes in place, appends and restarts: a read cannot tell whether
\* there is a buffer (buf.rs:5-6).
THEOREM BufferIsPrefix ==
  ASSUME Orderly
  PROVE  Spec => []BufferHoldsPrefix
<1>1. PlaceInv => BufferHoldsPrefix
  BY DEF PlaceInv, Placed, Prefix, BufferHoldsPrefix
<1> QED
  BY <1>1, PlaceInvariant, PTL

-----------------------------------------------------------------------------
(***************************************************************************)
(* What the pages hold.                                                    *)
(***************************************************************************)

\* Page n of a worker is all in its file.
InFile(w, n) ==
  n \in Nat /\ 1 + n * PageLength(w) + PageLength(w) <= Len(w.io.file)

\* A read of a worker is a read of its file.
LEMMA ReadOfWorker ==
  ASSUME NEW w, Sound(w), Prefix(w), NEW offset \in Nat, NEW length \in Nat
  PROVE  BufRead(w.io, offset, length) = IORead(w.io.file, offset, length)
<1> DEFINE f == w.io.file
<1>1. f \in Seq(FileCell) /\ Zero \in FileCell
  BY SoundFacts, PageCellsAreCells
<1>2. w.io = [file |-> f, buf |-> Take(f, BufSize)]
  BY SoundFacts DEF Prefix
<1> HIDE DEF f
<1>3. BufRead([file |-> f, buf |-> Take(f, BufSize)], offset, length)
        = IORead(f, offset, length)
  BY <1>1, ReadThroughBuffer
<1> QED
  BY <1>2, <1>3 DEF f

\* Where the header and the body of a page are.
LEMMA PageIsInFile ==
  ASSUME NEW w, Sound(w), Prefix(w), NEW n, InFile(w, n)
  PROVE  /\ n * PageLength(w) \in Nat
         /\ ReadHeaderOf(w, n)
              = CellToHeader(w.io.file[2 + n * PageLength(w)])
         /\ ReadBodyOf(w, n)
              = [i \in 1 .. w.header.page_size |->
                   w.io.file[(2 + n * PageLength(w)) + i]]
         /\ 2 + n * PageLength(w) \in 2 .. Len(w.io.file)
         /\ \A i \in 1 .. w.header.page_size :
              (2 + n * PageLength(w)) + i \in 2 .. Len(w.io.file)
<1> DEFINE f == w.io.file
           p == PageLength(w)
           size == w.header.page_size
           q == n * p
<1>1. size \in Nat /\ p = 1 + size /\ p \in Nat /\ Len(f) \in Nat
  BY SoundFacts
<1>2. n \in Nat /\ 1 + q + p <= Len(f)
  BY DEF InFile
<1>3. q \in Nat
  <2> HIDE DEF p
  <2> QED
    BY <1>1, <1>2, PagesAscend
<1>4. PagePos(w, n) = 1 + q /\ BodyPos(w, n) = 2 + q
  BY <1>2, PlacesAreNumbers
<1> HIDE DEF f, p, size, q
<1>5. BufRead(w.io, 1 + q, 1) = IORead(f, 1 + q, 1)
  BY <1>3, ReadOfWorker DEF f
<1>6. BufRead(w.io, 2 + q, size) = IORead(f, 2 + q, size)
  BY <1>1, <1>3, ReadOfWorker DEF f
<1>7. IORead(f, 1 + q, 1)[1] = f[2 + q]
  <2>1. (1 + q) + 1 <= Len(f) /\ (1 + q) + 1 = 2 + q
    BY <1>1, <1>2, <1>3
  <2> QED
    BY <2>1 DEF IORead
<1>8. IORead(f, 2 + q, size) = [i \in 1 .. size |-> f[(2 + q) + i]]
  <2>1. \A i \in 1 .. size : (2 + q) + i <= Len(f)
    BY <1>1, <1>2, <1>3
  <2> QED
    BY <2>1 DEF IORead
<1>9. /\ 2 + q \in 2 .. Len(f)
      /\ \A i \in 1 .. size : (2 + q) + i \in 2 .. Len(f)
  BY <1>1, <1>2, <1>3
<1>10. ReadHeaderOf(w, n) = CellToHeader(f[2 + q])
  BY <1>4, <1>5, <1>7 DEF ReadHeaderOf
<1>11. ReadBodyOf(w, n) = [i \in 1 .. size |-> f[(2 + q) + i]]
  BY <1>4, <1>6, <1>8 DEF ReadBodyOf, size
<1> QED
  BY <1>3, <1>9, <1>10, <1>11 DEF f, p, size, q

\* A file that only grew has the same pages.
LEMMA GrownFileKeepsPages ==
  ASSUME NEW w, Sound(w), Prefix(w), NEW v, Sound(v), Prefix(v),
         v.header = w.header, Len(w.io.file) <= Len(v.io.file),
         \A i \in 2 .. Len(w.io.file) : v.io.file[i] = w.io.file[i],
         NEW n, InFile(w, n)
  PROVE  /\ InFile(v, n)
         /\ ReadHeaderOf(v, n) = ReadHeaderOf(w, n)
         /\ ReadBodyOf(v, n) = ReadBodyOf(w, n)
<1>1. PageLength(v) = PageLength(w)
  BY DEF PageLength
<1>2. InFile(v, n)
  <2> DEFINE l == Len(w.io.file)
             m == Len(v.io.file)
             p == PageLength(w)
             q == n * p
  <2>1. l \in Nat /\ m \in Nat /\ l <= m /\ p \in Nat
    BY SoundFacts
  <2>2. n \in Nat /\ 1 + q + p <= l
    BY DEF InFile
  <2>3. q \in Nat
    BY PageIsInFile
  <2> HIDE DEF l, m, p, q
  <2>4. 1 + q + p <= m
    BY <2>1, <2>2, <2>3
  <2> QED
    BY <1>1, <2>2, <2>4 DEF InFile, m, p, q
<1>3. ReadHeaderOf(v, n) = ReadHeaderOf(w, n)
  <2>1. ReadHeaderOf(w, n) = CellToHeader(w.io.file[2 + n * PageLength(w)])
        /\ 2 + n * PageLength(w) \in 2 .. Len(w.io.file)
    BY PageIsInFile
  <2>2. ReadHeaderOf(v, n) = CellToHeader(v.io.file[2 + n * PageLength(w)])
    BY <1>1, <1>2, PageIsInFile
  <2> QED
    BY <2>1, <2>2
<1>4. ReadBodyOf(v, n) = ReadBodyOf(w, n)
  <2> DEFINE o == 2 + n * PageLength(w)
             size == w.header.page_size
  <2>1. /\ ReadBodyOf(w, n) = [i \in 1 .. size |-> w.io.file[o + i]]
        /\ \A i \in 1 .. size : o + i \in 2 .. Len(w.io.file)
    BY PageIsInFile
  <2>2. ReadBodyOf(v, n) = [i \in 1 .. size |-> v.io.file[o + i]]
    BY <1>1, <1>2, PageIsInFile
  <2> HIDE DEF o, size
  <2>3. \A i \in 1 .. size : v.io.file[o + i] = w.io.file[o + i]
    BY <2>1
  <2> QED
    BY <2>1, <2>2, <2>3
<1> QED
  BY <1>2, <1>3, <1>4

\* The cells of a file that was written inside.
LEMMA WrittenCells ==
  ASSUME NEW f \in Seq(FileCell), NEW pos \in Nat, NEW cells \in Seq(FileCell),
         pos + Len(cells) <= Len(f), NEW i \in 1 .. Len(f)
  PROVE  Overwritten(f, pos, cells)[i] =
           IF i \in (pos + 1) .. (pos + Len(cells)) THEN cells[i - pos]
           ELSE f[i]
<1>1. Len(f) \in Nat /\ Len(cells) \in Nat
  BY LenProperties
<1>2. i \in 1 .. Longer(Len(f), pos + Len(cells)) /\ i <= Len(f)
  BY <1>1 DEF Longer
<1> QED
  BY <1>2 DEF Overwritten

\* Pages lie beside each other: a cell of one is no cell of another.
LEMMA PagesAreApart ==
  ASSUME NEW size \in Nat, NEW m \in Nat, NEW n \in Nat, m # n,
         NEW i \in 0 .. size, NEW j \in 0 .. size
  PROVE  (2 + m * (1 + size)) + i # (2 + n * (1 + size)) + j
<1> DEFINE p == 1 + size
           a == m * p
           b == n * p
<1>1. p \in Nat
  OBVIOUS
<1> HIDE DEF p
<1>2. /\ a \in Nat /\ b \in Nat
      /\ m < n => a + p <= b
      /\ n < m => b + p <= a
  BY <1>1, PagesAscend
<1> HIDE DEF a, b
<1>3. (2 + a) + i # (2 + b) + j
  <2>1. CASE m < n
    <3>1. a + p <= b
      BY <1>2, <2>1
    <3> QED
      BY <1>2, <3>1 DEF p
  <2>2. CASE n < m
    <3>1. b + p <= a
      BY <1>2, <2>2
    <3> QED
      BY <1>2, <3>1 DEF p
  <2>3. m < n \/ n < m
    OBVIOUS
  <2> QED
    BY <2>1, <2>2, <2>3
<1> QED
  BY <1>3 DEF a, b, p

\* Whoever writes the header of a page changes that header and nothing else.
LEMMA HeaderEffect ==
  ASSUME NEW w, Sound(w), Prefix(w), NEW n, InFile(w, n),
         NEW h \in PageHeader, Prefix(WriteHeaderOf(w, n, h)),
         NEW m, InFile(w, m)
  PROVE  /\ InFile(WriteHeaderOf(w, n, h), m)
         /\ ReadHeaderOf(WriteHeaderOf(w, n, h), m)
              = IF m = n THEN h ELSE ReadHeaderOf(w, m)
         /\ ReadBodyOf(WriteHeaderOf(w, n, h), m) = ReadBodyOf(w, m)
<1> DEFINE v == WriteHeaderOf(w, n, h)
           c == <<HeaderToCell(h)>>
           f == w.io.file
           g == v.io.file
           p == PageLength(w)
           size == w.header.page_size
           a == 2 + m * p
           b == 2 + n * p
           pos == PagePos(w, n)
<1>1. m \in Nat /\ n \in Nat /\ size \in Nat /\ p = 1 + size
      /\ f \in Seq(FileCell) /\ Len(f) \in Nat
  BY SoundFacts DEF InFile
<1>2. /\ Sound(v) /\ v.header = w.header
      /\ c \in Seq(PageCell) /\ Len(c) = 1
      /\ g = Overwritten(f, pos, c)
  BY <1>1, HeaderWrite
<1>3. pos \in Nat /\ pos + 1 = b
  <2>1. pos \in Nat /\ pos = 1 + n * p /\ n * p \in Nat
    BY <1>1, PlacesAreNumbers, PageIsInFile
  <2> HIDE DEF pos, p
  <2> QED
    BY <2>1
<1>4. /\ ReadHeaderOf(w, m) = CellToHeader(f[a])
      /\ ReadBodyOf(w, m) = [i \in 1 .. size |-> f[a + i]]
      /\ a \in 2 .. Len(f)
      /\ \A i \in 1 .. size : a + i \in 2 .. Len(f)
  BY PageIsInFile
<1>5. b \in 2 .. Len(f)
  BY PageIsInFile
<1>6. \A i \in 0 .. size : (m # n \/ i # 0) => a + i # b
  <2> SUFFICES ASSUME NEW i \in 0 .. size, m # n \/ i # 0
               PROVE  a + i # b
    OBVIOUS
  <2>1. CASE m # n
    <3>1. 0 \in 0 .. size
      BY <1>1
    <3>2. a + i # b + 0
      BY <1>1, <2>1, <3>1, PagesAreApart
    <3>3. b \in Nat
      BY <1>5
    <3> HIDE DEF b
    <3>4. b + 0 = b
      BY <3>3
    <3> QED
      BY <3>2, <3>4
  <2>2. CASE m = n /\ i # 0
    <3>1. a = b /\ a \in Nat
      BY <1>4, <2>2
    <3> HIDE DEF a, b
    <3> QED
      BY <1>1, <2>2, <3>1
  <2> QED
    BY <2>1, <2>2
<1>7. c[1] = HeaderToCell(h)
  OBVIOUS
<1> HIDE DEF c, v, f, g, p, size, a, b, pos
<1>8. c \in Seq(FileCell) /\ pos + Len(c) <= Len(f)
  BY <1>2, <1>3, <1>5, PageCellsAreCells
<1>9. ASSUME NEW i \in 1 .. Len(f)
      PROVE  g[i] = IF i = b THEN HeaderToCell(h) ELSE f[i]
  <2>1. g[i] = IF i \in (pos + 1) .. (pos + Len(c)) THEN c[i - pos] ELSE f[i]
    <3>1. f \in Seq(FileCell) /\ pos \in Nat /\ c \in Seq(FileCell)
      BY <1>1, <1>3, <1>8
    <3>2. Overwritten(f, pos, c)[i] =
            IF i \in (pos + 1) .. (pos + Len(c)) THEN c[i - pos] ELSE f[i]
      BY <1>8, <3>1, WrittenCells
    <3> QED
      BY <1>2, <3>2
  <2>2. CASE i = b
    <3>1. i \in (pos + 1) .. (pos + Len(c)) /\ i - pos = 1
      BY <1>2, <1>3, <2>2
    <3> QED
      BY <1>7, <2>1, <2>2, <3>1
  <2>3. CASE i # b
    <3>1. i \notin (pos + 1) .. (pos + Len(c))
      BY <1>2, <1>3, <2>3
    <3> QED
      BY <2>1, <2>3, <3>1
  <2> QED
    BY <2>2, <2>3
<1>10. PageLength(v) = p /\ v.header.page_size = size
  BY <1>2 DEF PageLength, p, size
<1>11. Len(g) = Len(f)
  BY <1>1, <1>2, <1>3, <1>8, WriteKeepsLength
<1>12. InFile(v, m)
  BY <1>10, <1>11 DEF InFile, p, f, g
<1>13. /\ ReadHeaderOf(v, m) = CellToHeader(g[a])
       /\ ReadBodyOf(v, m) = [i \in 1 .. size |-> g[a + i]]
  <2>1. Sound(v) /\ Prefix(v) /\ InFile(v, m)
    BY <1>2, <1>12 DEF v
  <2>2. /\ ReadHeaderOf(v, m) = CellToHeader(v.io.file[2 + m * PageLength(v)])
        /\ ReadBodyOf(v, m)
             = [i \in 1 .. v.header.page_size |->
                  v.io.file[(2 + m * PageLength(v)) + i]]
    BY <2>1, PageIsInFile
  <2> QED
    BY <1>10, <2>2 DEF a, g
<1>14. a \in 1 .. Len(f) /\ \A i \in 1 .. size : a + i \in 1 .. Len(f)
  <2>1. a \in 2 .. Len(f) /\ Len(f) \in Nat
    BY <1>1, <1>4
  <2>2. ASSUME NEW i \in 1 .. size
        PROVE  a + i \in 1 .. Len(f)
    <3>1. a + i \in 2 .. Len(f)
      BY <1>4
    <3> QED
      BY <2>1, <3>1
  <2> QED
    BY <2>1, <2>2
<1>15. ReadHeaderOf(v, m) = IF m = n THEN h ELSE ReadHeaderOf(w, m)
  <2>1. CASE m = n
    <3>1. a = b
      BY <2>1 DEF a, b
    <3>2. g[a] = HeaderToCell(h)
      BY <1>9, <1>14, <3>1
    <3> QED
      BY <1>13, <2>1, <3>2, PageHeaderCodec
  <2>2. CASE m # n
    <3>1. a # b
      <4>1. 0 \in 0 .. size /\ a \in Nat
        BY <1>1, <1>4
      <4>2. a + 0 # b
        BY <1>6, <2>2, <4>1
      <4> QED
        BY <4>1, <4>2
    <3>2. g[a] = f[a]
      BY <1>9, <1>14, <3>1
    <3> QED
      BY <1>4, <1>13, <2>2, <3>2
  <2> QED
    BY <2>1, <2>2
<1>16. ReadBodyOf(v, m) = ReadBodyOf(w, m)
  <2>1. ASSUME NEW i \in 1 .. size
        PROVE  g[a + i] = f[a + i]
    <3>1. a + i # b
      BY <1>1, <1>6
    <3> QED
      BY <1>9, <1>14, <3>1
  <2> QED
    BY <1>4, <1>13, <2>1
<1> QED
  BY <1>12, <1>15, <1>16 DEF v

\* A body after cells were put into it from offset on.
Put(body, offset, cells) ==
  [i \in DOMAIN body |->
     IF i - offset \in 1 .. Len(cells) THEN cells[i - offset] ELSE body[i]]

\* Whoever writes into the body of a page changes that body and nothing else.
LEMMA BodyEffect ==
  ASSUME NEW w, Sound(w), Prefix(w), NEW n, InFile(w, n),
         NEW offset \in Nat, NEW cells \in Seq(PageCell), cells # <<>>,
         offset + Len(cells) <= w.header.page_size,
         Prefix(WriteAt(w, BodyPos(w, n) + offset, cells)),
         NEW m, InFile(w, m)
  PROVE  LET v == WriteAt(w, BodyPos(w, n) + offset, cells)
         IN  /\ InFile(v, m)
             /\ ReadHeaderOf(v, m) = ReadHeaderOf(w, m)
             /\ ReadBodyOf(v, m) =
                  IF m = n THEN Put(ReadBodyOf(w, n), offset, cells)
                  ELSE ReadBodyOf(w, m)
<1> DEFINE pos == BodyPos(w, n) + offset
           v == WriteAt(w, pos, cells)
           f == w.io.file
           g == v.io.file
           p == PageLength(w)
           size == w.header.page_size
           a == 2 + m * p
           b == 2 + n * p
           k == Len(cells)
<1>1. m \in Nat /\ n \in Nat /\ size \in Nat /\ p = 1 + size
      /\ f \in Seq(FileCell) /\ Len(f) \in Nat /\ k \in Nat
      /\ offset + k <= size
  BY SoundFacts, LenProperties DEF InFile
<1>2. pos \in Nat \ {0} /\ pos = b + offset /\ b \in Nat
  <2>1. BodyPos(w, n) \in Nat \ {0} /\ BodyPos(w, n) = b
    BY <1>1, PlacesAreNumbers
  <2> HIDE DEF b
  <2> QED
    BY <2>1
<1>3. /\ ReadHeaderOf(w, m) = CellToHeader(f[a])
      /\ ReadBodyOf(w, m) = [i \in 1 .. size |-> f[a + i]]
      /\ a \in 2 .. Len(f)
      /\ \A i \in 1 .. size : a + i \in 2 .. Len(f)
  BY PageIsInFile
<1>4. \A i \in 1 .. size : b + i \in 2 .. Len(f)
  BY PageIsInFile
<1>5. \A i \in 0 .. size : \A j \in 1 .. size :
        (m # n \/ i = 0) => a + i # b + j
  <2> SUFFICES ASSUME NEW i \in 0 .. size, NEW j \in 1 .. size, m # n \/ i = 0
               PROVE  a + i # b + j
    OBVIOUS
  <2>1. CASE m # n
    <3>1. j \in 0 .. size
      BY <1>1
    <3> QED
      BY <1>1, <2>1, <3>1, PagesAreApart
  <2>2. CASE m = n /\ i = 0
    <3>1. a = b /\ a \in Nat
      BY <1>3, <2>2
    <3> HIDE DEF a, b
    <3> QED
      BY <1>1, <2>2, <3>1
  <2> QED
    BY <2>1, <2>2
<1> HIDE DEF pos
<1>6. /\ Sound(v) /\ v.header = w.header
      /\ g = Overwritten(f, pos, cells)
  BY <1>2, SoundWrite
<1>7. cells \in Seq(FileCell)
  BY PageCellsAreCells
<1>8. k # 0
  BY EmptySeq
<1> HIDE DEF v, f, g, p, size, a, b, k
<1>9. pos + k <= Len(f)
  <2>1. b + (offset + k) \in 2 .. Len(f)
    BY <1>1, <1>4, <1>8
  <2> QED
    BY <1>1, <1>2, <2>1
<1>10. ASSUME NEW i \in 1 .. Len(f)
       PROVE  g[i] = IF i \in (pos + 1) .. (pos + k) THEN cells[i - pos] ELSE f[i]
  BY <1>1, <1>2, <1>6, <1>7, <1>9, WrittenCells DEF k
<1>11. PageLength(v) = p /\ v.header.page_size = size
  BY <1>6 DEF PageLength, p, size
<1>12. Len(g) = Len(f)
  BY <1>1, <1>2, <1>6, <1>7, <1>9, WriteKeepsLength DEF k
<1>13. InFile(v, m)
  BY <1>11, <1>12 DEF InFile, p, f, g
<1>14. Prefix(v)
  BY DEF v, pos
<1>15. /\ ReadHeaderOf(v, m) = CellToHeader(g[a])
       /\ ReadBodyOf(v, m) = [i \in 1 .. size |-> g[a + i]]
  <2>1. /\ ReadHeaderOf(v, m) = CellToHeader(v.io.file[2 + m * PageLength(v)])
        /\ ReadBodyOf(v, m)
             = [i \in 1 .. v.header.page_size |->
                  v.io.file[(2 + m * PageLength(v)) + i]]
    BY <1>6, <1>13, <1>14, PageIsInFile
  <2> QED
    BY <1>11, <2>1 DEF a, g
<1>16. a \in 1 .. Len(f) /\ \A i \in 1 .. size : a + i \in 1 .. Len(f)
  <2>1. a \in 2 .. Len(f) /\ Len(f) \in Nat
    BY <1>1, <1>3
  <2>2. ASSUME NEW i \in 1 .. size
        PROVE  a + i \in 1 .. Len(f)
    <3>1. a + i \in 2 .. Len(f)
      BY <1>3
    <3> QED
      BY <2>1, <3>1
  <2> QED
    BY <2>1, <2>2
<1>17. ASSUME NEW i \in 0 .. size, m # n \/ i = 0
       PROVE  a + i \notin (pos + 1) .. (pos + k)
  <2> SUFFICES ASSUME a + i \in (pos + 1) .. (pos + k)
               PROVE  FALSE
    OBVIOUS
  <2>1. a \in Nat
    BY <1>3
  <2>2. (a + i) - b \in 1 .. size
    BY <1>1, <1>2, <2>1
  <2>3. a + i = b + ((a + i) - b)
    BY <1>2, <2>1
  <2> QED
    BY <1>5, <1>17, <2>2, <2>3
<1>18. ReadHeaderOf(v, m) = ReadHeaderOf(w, m)
  <2>1. a \notin (pos + 1) .. (pos + k)
    <3>1. 0 \in 0 .. size /\ a \in Nat
      BY <1>1, <1>3
    <3>2. a + 0 \notin (pos + 1) .. (pos + k)
      BY <1>17, <3>1
    <3> QED
      BY <3>1, <3>2
  <2>2. g[a] = f[a]
    BY <1>10, <1>16, <2>1
  <2> QED
    BY <1>3, <1>15, <2>2
<1>19. ASSUME m # n
       PROVE  ReadBodyOf(v, m) = ReadBodyOf(w, m)
  <2>1. ASSUME NEW i \in 1 .. size
        PROVE  g[a + i] = f[a + i]
    <3>1. i \in 0 .. size
      BY <1>1
    <3> QED
      BY <1>10, <1>16, <1>17, <1>19, <3>1
  <2> QED
    BY <1>3, <1>15, <2>1
<1>20. ASSUME m = n
       PROVE  ReadBodyOf(v, m) = Put(ReadBodyOf(w, n), offset, cells)
  <2>1. a = b
    BY <1>20 DEF a, b
  <2>2. Put(ReadBodyOf(w, n), offset, cells) =
          [i \in 1 .. size |->
             IF i - offset \in 1 .. k THEN cells[i - offset] ELSE f[a + i]]
    BY <1>3, <1>20 DEF Put, k
  <2>3. ASSUME NEW i \in 1 .. size
        PROVE  g[a + i] =
                 IF i - offset \in 1 .. k THEN cells[i - offset] ELSE f[a + i]
    <3>1. a + i \in (pos + 1) .. (pos + k) <=> i - offset \in 1 .. k
      BY <1>1, <1>2, <2>1
    <3>2. (a + i) - pos = i - offset
      BY <1>1, <1>2, <2>1
    <3> QED
      BY <1>10, <1>16, <3>1, <3>2
  <2> QED
    BY <1>15, <2>2, <2>3
<1> QED
  BY <1>13, <1>18, <1>19, <1>20 DEF v, pos

-----------------------------------------------------------------------------
(***************************************************************************)
(* The table of pages that clients see.                                    *)
(***************************************************************************)

\* Promised and the pages of Table, of a worker and not of the present state.
PromisedOf(w, whole) == IF whole = NoPage THEN TotalPages(w) ELSE whole
View(w, whole) == [i \in 1 .. PromisedOf(w, whole) |-> PageOf(w, i - 1)]

\* The pages of the table are in the file; before the first torn page they are
\* the pages that were given out.
LEMMA ViewFacts ==
  ASSUME NEW w, Sound(w), NEW pages \in Seq(Grant),
         NEW whole \in PageNo \cup {NoPage}, Placed(w, pages, whole)
  PROVE  /\ PromisedOf(w, whole) \in Nat
         /\ \A n \in 0 .. (PromisedOf(w, whole) - 1) : InFile(w, n)
         /\ whole = NoPage =>
              /\ PromisedOf(w, whole) = Len(pages)
              /\ {pages[i].page : i \in DOMAIN pages}
                   = 0 .. (PromisedOf(w, whole) - 1)
         /\ whole # NoPage => PromisedOf(w, whole) <= Len(pages)
         /\ Len(View(w, whole)) = PromisedOf(w, whole)
         /\ DOMAIN View(w, whole) = 1 .. PromisedOf(w, whole)
<1> DEFINE k == PromisedOf(w, whole)
           p == PageLength(w)
           l == Len(w.io.file)
<1>1. /\ TotalPages(w) \in Nat
      /\ 1 + TotalPages(w) * p <= l
      /\ \A q \in Nat : l = 1 + q * p => TotalPages(w) = q
  BY TotalPagesCounts DEF Placed
<1>2. /\ whole # NoPage => whole \in Nat
      /\ Len(pages) \in Nat /\ DOMAIN pages = 1 .. Len(pages)
  BY PageStoreAssumption, LenProperties
<1>3. k \in Nat
  BY <1>1, <1>2 DEF PromisedOf
<1>4. 1 + k * p <= l
  BY <1>1 DEF PromisedOf, Placed
<1>5. p \in Nat /\ l \in Nat
  BY SoundFacts
<1>6. \A n \in 0 .. (k - 1) : InFile(w, n)
  <2> HIDE DEF k, p, l
  <2> SUFFICES ASSUME NEW n \in 0 .. (k - 1)
               PROVE  n \in Nat /\ 1 + n * p + p <= l
    BY DEF InFile, p, l
  <2>1. n \in Nat /\ n < k
    BY <1>3
  <2>2. n * p \in Nat /\ n * p + p <= k * p /\ k * p \in Nat
    BY <1>3, <1>5, <2>1, PagesAscend
  <2> QED
    BY <1>4, <1>5, <2>1, <2>2
<1>7. ASSUME whole = NoPage
      PROVE  /\ k = Len(pages)
             /\ {pages[i].page : i \in DOMAIN pages} = 0 .. (k - 1)
  <2>1. /\ l = 1 + Len(pages) * p
        /\ \A i \in DOMAIN pages : pages[i].page = i - 1
    BY <1>7 DEF Placed
  <2>2. k = Len(pages)
    BY <1>1, <1>2, <1>7, <2>1 DEF PromisedOf
  <2> HIDE DEF k
  <2>3. {pages[i].page : i \in DOMAIN pages} = {i - 1 : i \in 1 .. k}
    BY <1>2, <2>1, <2>2
  <2>4. {i - 1 : i \in 1 .. k} = 0 .. (k - 1)
    <3>1. ASSUME NEW n \in 0 .. (k - 1)
          PROVE  n \in {i - 1 : i \in 1 .. k}
      <4>1. n + 1 \in 1 .. k /\ n = (n + 1) - 1
        BY <1>3
      <4> QED
        BY <4>1
    <3>2. \A i \in 1 .. k : i - 1 \in 0 .. (k - 1)
      BY <1>3
    <3> QED
      BY <3>1, <3>2
  <2> QED
    BY <2>2, <2>3, <2>4
<1>8. whole # NoPage => k <= Len(pages)
  BY DEF PromisedOf, Placed
<1>9. Len(View(w, whole)) = k /\ DOMAIN View(w, whole) = 1 .. k
  <2> DEFINE S == {PageOf(w, i - 1) : i \in 1 .. k}
  <2>1. View(w, whole) \in [1 .. k -> S]
    BY DEF View
  <2> HIDE DEF S, k
  <2> QED
    BY <1>3, <2>1, SequenceOf
<1> QED
  BY <1>3, <1>6, <1>7, <1>8, <1>9

\* The length of the storage of a worker.
LEMMA LengthOfWorker ==
  ASSUME NEW w, Sound(w), Prefix(w)
  PROVE  BufLen(w.io) = Len(w.io.file)
<1>1. w.io = [file |-> w.io.file, buf |-> Take(w.io.file, BufSize)]
  BY SoundFacts DEF Prefix
<1>2. w.io.file \in Seq(FileCell)
  BY SoundFacts
<1>3. BufLen([file |-> w.io.file, buf |-> Take(w.io.file, BufSize)])
        = Len(w.io.file)
  BY <1>2, LengthThroughBuffer
<1> QED
  BY <1>1, <1>3

\* A write inside the file leaves the number of pages as it is.
LEMMA SamePageCount ==
  ASSUME NEW w, Sound(w), Prefix(w), NEW v, Sound(v), Prefix(v),
         v.header = w.header, Len(v.io.file) = Len(w.io.file)
  PROVE  TotalPages(v) = TotalPages(w)
<1>1. BufLen(v.io) = BufLen(w.io)
  BY LengthOfWorker
<1>2. PageLength(v) = PageLength(w)
  BY DEF PageLength
<1> QED
  BY <1>1, <1>2 DEF TotalPages

\* Two views of as many equal pages are the same.
LEMMA SameView ==
  ASSUME NEW w, NEW v, NEW j, NEW k, PromisedOf(w, j) \in Nat,
         PromisedOf(v, k) = PromisedOf(w, j),
         \A n \in 0 .. (PromisedOf(w, j) - 1) :
           /\ ReadHeaderOf(v, n) = ReadHeaderOf(w, n)
           /\ ReadBodyOf(v, n) = ReadBodyOf(w, n)
  PROVE  View(v, k) = View(w, j)
<1>1. \A i \in 1 .. PromisedOf(w, j) : i - 1 \in 0 .. (PromisedOf(w, j) - 1)
  OBVIOUS
<1>2. \A i \in 1 .. PromisedOf(w, j) : PageOf(v, i - 1) = PageOf(w, i - 1)
  BY <1>1 DEF PageOf
<1> QED
  BY <1>2 DEF View

\* The table of Table is the view of the worker.
LEMMA TableOfWorker ==
  /\ [i \in 1 .. Promised |-> PageOf(worker, i - 1)] = View(worker, kept)
  /\ [i \in 1 .. Promised |-> PageOf(worker, i - 1)]' = View(worker', kept')
BY DEF Promised, PromisedOf, View

\* A step that leaves the pages alone and answers nothing is a restart.
LEMMA TableRestarts ==
  ASSUME View(worker', kept') = View(worker, kept),
         worker'.header.page_size = worker.header.page_size,
         reply' = NoReply,
         (kept = NoPage) = (kept' = NoPage) \/ kept' # NoPage
  PROVE  Table!Restart
BY TableOfWorker DEF Table!Restart, Table!NoReply, NoReply

\* Once a page is torn, a step that leaves the promised pages alone is allowed.
LEMMA TableBeyond ==
  ASSUME View(worker', kept') = View(worker, kept),
         worker'.header.page_size = worker.header.page_size,
         kept # NoPage, kept' = kept
  PROVE  Table!Next
BY TableOfWorker DEF Table!Next, Table!Unpromised

\* A step that leaves the pages alone and answers the page size describes them.
LEMMA TableDescribes ==
  ASSUME View(worker', kept') = View(worker, kept),
         worker'.header.page_size = worker.header.page_size,
         kept' = kept,
         reply' = [page_size |-> worker.header.page_size]
  PROVE  Table!Describe
BY TableOfWorker DEF Table!Describe

\* A step that leaves no pages with another size formats the table.
LEMMA TableFormats ==
  ASSUME View(worker', kept') = View(worker, kept), View(worker, kept) = <<>>,
         kept' = kept, reply' = NoReply
  PROVE  Table!Format(worker'.header.page_size)
BY TableOfWorker DEF Table!Format, Table!NoReply, NoReply

\* A step that adds an empty page behind the others creates it.
LEMMA TableCreates ==
  ASSUME NEW parent,
         View(worker', kept') =
           Append(View(worker, kept),
             [header |-> [prev |-> parent, next |-> NoPage],
              body   |-> Zeros(worker.header.page_size)]),
         worker'.header.page_size = worker.header.page_size,
         kept' = kept, reply' = [page |-> Len(View(worker, kept))]
  PROVE  Table!Create(parent)
BY TableOfWorker DEF Table!Create, Zeros

\* A step that changes the next page of one page links it.
LEMMA TableLinks ==
  ASSUME NEW n, NEW next,
         View(worker', kept') =
           [View(worker, kept) EXCEPT ![n + 1].header.next = next],
         worker'.header.page_size = worker.header.page_size,
         kept' = kept, reply' = NoReply
  PROVE  Table!Link(n, next)
BY TableOfWorker DEF Table!Link, Table!NoReply, NoReply

\* A step that changes the header of one page sets it.
LEMMA TableSetsHeader ==
  ASSUME NEW n, NEW h,
         View(worker', kept') = [View(worker, kept) EXCEPT ![n + 1].header = h],
         worker'.header.page_size = worker.header.page_size,
         kept' = kept, reply' = NoReply
  PROVE  Table!SetHeader(n, h)
BY TableOfWorker DEF Table!SetHeader, Table!NoReply, NoReply

\* A step that answers the header of a page gets it.
LEMMA TableGetsHeader ==
  ASSUME NEW n, View(worker', kept') = View(worker, kept),
         worker'.header.page_size = worker.header.page_size,
         kept' = kept, reply' = [header |-> View(worker, kept)[n + 1].header]
  PROVE  Table!GetHeader(n)
BY TableOfWorker DEF Table!GetHeader

\* As many bytes of a body of size cells as Get takes.
Taken(size, offset, length) ==
  IF length < size - offset THEN length ELSE size - offset

\* A step that answers a part of the body of a page gets it.
LEMMA TableGets ==
  ASSUME NEW n, NEW offset, NEW length,
         View(worker', kept') = View(worker, kept),
         worker'.header.page_size = worker.header.page_size,
         kept' = kept,
         reply' = [bytes |->
           SubSeq(View(worker, kept)[n + 1].body, offset + 1,
                  offset + Taken(worker.header.page_size, offset, length))]
  PROVE  Table!Get(n, offset, length)
BY TableOfWorker DEF Table!Get, Taken

\* A step that changes a part of the body of a page puts it there.
LEMMA TablePuts ==
  ASSUME NEW n, NEW offset, NEW bytes,
         View(worker', kept') =
           [View(worker, kept) EXCEPT ![n + 1].body =
              [i \in 1 .. worker.header.page_size |->
                 IF i - offset \in 1 .. Len(bytes) THEN bytes[i - offset]
                 ELSE @[i]]],
         worker'.header.page_size = worker.header.page_size,
         kept' = kept,
         reply' = [bytes |->
           [i \in 1 .. ((offset + Len(bytes)) - worker.header.page_size) |->
              bytes[i + (worker.header.page_size - offset)]]]
  PROVE  Table!Put(n, offset, bytes)
BY TableOfWorker DEF Table!Put

\* The pages of the table after the header h of page n was written: the table
\* has that header, or, when page n came after a torn one, is as it was.
LEMMA HeaderInView ==
  ASSUME Orderly, StoreInv, PlaceInv, NEW n \in Addressable,
         NEW h \in PageHeader,
         NEW v, v = WriteHeaderOf(worker, n, h)
  PROVE  /\ n \in Nat
         /\ v.header = worker.header
         /\ n < PromisedOf(worker, kept) =>
              /\ View(v, kept) = [View(worker, kept) EXCEPT ![n + 1].header = h]
              /\ View(worker, kept)[n + 1] = PageOf(worker, n)
         /\ ~ n < PromisedOf(worker, kept) =>
              View(v, kept) = View(worker, kept) /\ kept # NoPage
<1> DEFINE w == worker
           k == PromisedOf(w, kept)
<1>1. Sound(w) /\ Placed(w, granted, kept) /\ Prefix(w)
      /\ granted \in Seq(Grant) /\ kept \in PageNo \cup {NoPage}
  BY DEF StoreInv, PlaceInv, Placed
<1>2. n \in Nat /\ InFile(w, n)
  BY AddressedPagesAreThere DEF InFile
<1>3. Sound(v) /\ v.header = w.header
  BY <1>1, <1>2, HeaderWrite
<1>4. Placed(v, granted, kept) /\ Len(v.io.file) = Len(w.io.file)
      /\ Prefix(v)
  BY HeaderInPlace DEF Placed
<1>5. PromisedOf(v, kept) = k
  BY <1>1, <1>3, <1>4, SamePageCount DEF PromisedOf
<1>6. /\ k \in Nat
      /\ \A m \in 0 .. (k - 1) : InFile(w, m)
      /\ kept = NoPage => {granted[i].page : i \in DOMAIN granted} = 0 .. (k - 1)
  BY <1>1, ViewFacts
<1>7. ASSUME NEW m \in 0 .. (k - 1)
      PROVE  /\ ReadHeaderOf(v, m) = IF m = n THEN h ELSE ReadHeaderOf(w, m)
             /\ ReadBodyOf(v, m) = ReadBodyOf(w, m)
  BY <1>1, <1>2, <1>4, <1>6, HeaderEffect
<1> HIDE DEF k
<1>8. CASE n < k
  <2> DEFINE V == View(w, kept)
             U == View(v, kept)
  <2>1. /\ V = [i \in 1 .. k |-> PageOf(w, i - 1)]
        /\ U = [i \in 1 .. k |-> PageOf(v, i - 1)]
    BY <1>5 DEF View, k
  <2>2. n + 1 \in 1 .. k /\ (n + 1) - 1 = n
    BY <1>2, <1>6, <1>8
  <2>3. V[n + 1] = PageOf(w, n)
    BY <2>1, <2>2
  <2>4. \A i \in 1 .. k : /\ i - 1 \in 0 .. (k - 1)
                          /\ i - 1 = n <=> i = n + 1
    BY <1>2, <1>6
  <2> HIDE DEF V, U
  <2>5. U = [V EXCEPT ![n + 1].header = h]
    <3>1. ASSUME NEW i \in 1 .. k
          PROVE  U[i] = [V EXCEPT ![n + 1].header = h][i]
      <4>1. CASE i = n + 1
        BY <1>7, <2>1, <2>2, <2>3, <2>4, <4>1 DEF PageOf
      <4>2. CASE i # n + 1
        BY <1>7, <2>1, <2>4, <4>2 DEF PageOf
      <4> QED
        BY <4>1, <4>2
    <3> QED
      BY <2>1, <3>1
  <2> QED
    BY <1>2, <1>3, <1>8, <2>3, <2>5 DEF V, U, k
<1>9. CASE ~ n < k
  <2>1. \A m \in 0 .. (k - 1) : m # n
    BY <1>2, <1>6, <1>9
  <2>2. View(v, kept) = View(w, kept)
    <3>1. \A m \in 0 .. (k - 1) : /\ ReadHeaderOf(v, m) = ReadHeaderOf(w, m)
                                  /\ ReadBodyOf(v, m) = ReadBodyOf(w, m)
      BY <1>7, <2>1
    <3> QED
      BY <1>5, <1>6, <3>1, SameView DEF k
  <2>3. kept # NoPage
    BY <1>6, <2>1 DEF Addressable, Granted, Orderly
  <2> QED
    BY <1>2, <1>3, <1>9, <2>2, <2>3 DEF k
<1> QED
  BY <1>8, <1>9

\* The same for cells that were written into the body of page n.
LEMMA BodyInView ==
  ASSUME Orderly, StoreInv, PlaceInv, NEW n \in Addressable,
         NEW offset \in Nat, NEW cells \in Seq(PageCell), cells # <<>>,
         offset + Len(cells) <= worker.header.page_size,
         NEW v, v = WriteAt(worker, BodyPos(worker, n) + offset, cells)
  PROVE  /\ n \in Nat
         /\ v.header = worker.header
         /\ n < PromisedOf(worker, kept) =>
              View(v, kept) = [View(worker, kept) EXCEPT ![n + 1] =
                [header |-> ReadHeaderOf(worker, n),
                 body   |-> Put(ReadBodyOf(worker, n), offset, cells)]]
         /\ ~ n < PromisedOf(worker, kept) =>
              View(v, kept) = View(worker, kept) /\ kept # NoPage
<1> DEFINE w == worker
           k == PromisedOf(w, kept)
           s == BodyPos(w, n) + offset
<1>1. Sound(w) /\ Placed(w, granted, kept) /\ Prefix(w)
      /\ granted \in Seq(Grant) /\ kept \in PageNo \cup {NoPage}
  BY DEF StoreInv, PlaceInv, Placed
<1>2. n \in Nat /\ InFile(w, n)
  BY AddressedPagesAreThere DEF InFile
<1>3. Sound(v) /\ v.header = w.header
  <2>1. s \in Nat \ {0}
    <3>1. BodyPos(w, n) \in Nat \ {0}
      BY <1>1, <1>2, PlacesAreNumbers
    <3> QED
      BY <3>1
  <2> HIDE DEF s
  <2> QED
    BY <1>1, <2>1, SoundWrite DEF s
<1>4. Placed(v, granted, kept) /\ Len(v.io.file) = Len(w.io.file)
      /\ Prefix(v)
  BY BodyInPlace DEF Placed
<1>5. PromisedOf(v, kept) = k
  BY <1>1, <1>3, <1>4, SamePageCount DEF PromisedOf
<1>6. /\ k \in Nat
      /\ \A m \in 0 .. (k - 1) : InFile(w, m)
      /\ kept = NoPage => {granted[i].page : i \in DOMAIN granted} = 0 .. (k - 1)
  BY <1>1, ViewFacts
<1>7. ASSUME NEW m \in 0 .. (k - 1)
      PROVE  /\ ReadHeaderOf(v, m) = ReadHeaderOf(w, m)
             /\ ReadBodyOf(v, m) = IF m = n THEN Put(ReadBodyOf(w, n), offset, cells)
                                   ELSE ReadBodyOf(w, m)
  BY <1>1, <1>2, <1>4, <1>6, BodyEffect
<1> HIDE DEF k
<1>8. CASE n < k
  <2> DEFINE V == View(w, kept)
             U == View(v, kept)
             x == [header |-> ReadHeaderOf(w, n),
                   body   |-> Put(ReadBodyOf(w, n), offset, cells)]
  <2>1. /\ V = [i \in 1 .. k |-> PageOf(w, i - 1)]
        /\ U = [i \in 1 .. k |-> PageOf(v, i - 1)]
    BY <1>5 DEF View, k
  <2>2. n + 1 \in 1 .. k /\ (n + 1) - 1 = n
    BY <1>2, <1>6, <1>8
  <2>4. \A i \in 1 .. k : /\ i - 1 \in 0 .. (k - 1)
                          /\ i - 1 = n <=> i = n + 1
    BY <1>2, <1>6
  <2> HIDE DEF V, U
  <2>5. U = [V EXCEPT ![n + 1] = x]
    <3>1. ASSUME NEW i \in 1 .. k
          PROVE  U[i] = [V EXCEPT ![n + 1] = x][i]
      <4>1. CASE i = n + 1
        BY <1>7, <2>1, <2>2, <2>4, <4>1 DEF PageOf
      <4>2. CASE i # n + 1
        BY <1>7, <2>1, <2>4, <4>2 DEF PageOf
      <4> QED
        BY <4>1, <4>2
    <3> QED
      BY <2>1, <3>1
  <2> QED
    BY <1>2, <1>3, <1>8, <2>5 DEF V, U, k
<1>9. CASE ~ n < k
  <2>1. \A m \in 0 .. (k - 1) : m # n
    BY <1>2, <1>6, <1>9
  <2>2. View(v, kept) = View(w, kept)
    <3>1. \A m \in 0 .. (k - 1) : /\ ReadHeaderOf(v, m) = ReadHeaderOf(w, m)
                                  /\ ReadBodyOf(v, m) = ReadBodyOf(w, m)
      BY <1>7, <2>1
    <3> QED
      BY <1>5, <1>6, <3>1, SameView DEF k
  <2>3. kept # NoPage
    BY <1>6, <2>1 DEF Addressable, Granted, Orderly
  <2> QED
    BY <1>2, <1>3, <1>9, <2>2, <2>3 DEF k
<1> QED
  BY <1>8, <1>9

\* The file of v begins with all of the file of w, and v has the same header.
Grown(w, v) ==
  /\ v.header = w.header
  /\ Len(w.io.file) <= Len(v.io.file)
  /\ \A i \in 2 .. Len(w.io.file) : v.io.file[i] = w.io.file[i]

\* An append lets the file grow.
LEMMA AppendGrows ==
  ASSUME NEW w, Sound(w), NEW cells \in Seq(PageCell)
  PROVE  Grown(w, AppendTo(w, cells))
<1> DEFINE f == w.io.file
           v == AppendTo(w, cells)
<1>1. v.header = w.header /\ v.io.file = f \o cells
  BY SoundAppend
<1>2. f \in Seq(FileCell) /\ cells \in Seq(FileCell)
      /\ Len(f) \in Nat /\ Len(cells) \in Nat
  BY SoundFacts, PageCellsAreCells, LenProperties
<1> HIDE DEF f, v
<1>3. /\ Len(f \o cells) = Len(f) + Len(cells)
      /\ \A i \in 1 .. Len(f) + Len(cells) :
           (f \o cells)[i] = IF i <= Len(f) THEN f[i] ELSE cells[i - Len(f)]
  BY <1>2, ConcatProperties
<1>4. Len(f) <= Len(f \o cells)
  BY <1>2, <1>3
<1>5. \A i \in 2 .. Len(f) : (f \o cells)[i] = f[i]
  BY <1>2, <1>3
<1> QED
  BY <1>1, <1>4, <1>5 DEF Grown, f, v

\* What grows and grows has grown.
LEMMA GrownTwice ==
  ASSUME NEW u, Sound(u), NEW v, Sound(v), NEW w, Sound(w),
         Grown(u, v), Grown(v, w)
  PROVE  Grown(u, w)
<1>1. /\ Len(u.io.file) \in Nat /\ Len(v.io.file) \in Nat
      /\ Len(w.io.file) \in Nat
  BY SoundFacts
<1> QED
  BY <1>1, SMTT(40) DEF Grown

\* A worker that starts again has the file it had.
LEMMA ReopenGrows ==
  ASSUME NEW w, Sound(w), NEW u, Sound(u), Grown(u, w), Reopen(w)
  PROVE  Grown(u, worker')
<1>1. worker' = w \/ worker' = DriverNew(w.io.file, w.header)
  BY ReopenStep
<1>2. worker'.header = w.header /\ worker'.io.file = w.io.file
  BY <1>1, SoundOpen
<1> QED
  BY <1>2 DEF Grown

\* Restarts and new pages, torn or not, let the file grow.
LEMMA Growth ==
  ASSUME StoreInv
  PROVE  /\ Restart => Grown(worker, worker')
         /\ \A parent \in Neighbour :
              CreatePage(parent) \/ CrashInCreatePage(parent) =>
                Grown(worker, worker')
<1>1. Sound(worker) /\ worker.header.page_size \in Nat
  BY SoundFacts DEF StoreInv
<1>2. ASSUME Restart
      PROVE  Grown(worker, worker')
  <2>1. Grown(worker, worker)
    BY <1>1, SoundFacts DEF Grown
  <2> QED
    BY <1>1, <1>2, <2>1, ReopenGrows DEF Restart
<1>3. ASSUME NEW parent \in Neighbour
      PROVE  /\ HeaderCells(parent) \in Seq(PageCell)
             /\ Zeros(worker.header.page_size) \in Seq(PageCell)
             /\ Sound(AppendTo(worker, HeaderCells(parent)))
             /\ AppendTo(worker, HeaderCells(parent)).header = worker.header
             /\ Grown(worker, AppendTo(worker, HeaderCells(parent)))
  <2>1. parent \in PageNo \cup {NoPage}
    BY AddressesAreNumbers DEF Neighbour
  <2>2. /\ HeaderCells(parent) \in Seq(PageCell)
        /\ Zeros(worker.header.page_size) \in Seq(PageCell)
    BY <1>1, <2>1, PageIsCells
  <2> QED
    BY <1>1, <2>2, SoundAppend, AppendGrows
<1>4. ASSUME NEW parent \in Neighbour, CreatePage(parent)
      PROVE  Grown(worker, worker')
  <2> DEFINE a == AppendTo(worker, HeaderCells(parent))
             z == Zeros(worker.header.page_size)
  <2>1. worker' = AppendTo(a, z)
    BY <1>3, <1>4, CreateStep
  <2>2. Sound(a) /\ Grown(worker, a) /\ z \in Seq(PageCell)
    BY <1>3
  <2> HIDE DEF a, z
  <2>3. Sound(AppendTo(a, z)) /\ Grown(a, AppendTo(a, z))
    BY <2>2, SoundAppend, AppendGrows
  <2> QED
    BY <1>1, <2>1, <2>2, <2>3, GrownTwice
<1>5. ASSUME NEW parent \in Neighbour, CrashInCreatePage(parent)
      PROVE  Grown(worker, worker')
  BY <1>1, <1>3, <1>5, TornStep, ReopenGrows
<1> QED
  BY <1>2, <1>4, <1>5

\* A worker whose file only grew, and a file of which as many pages count, has
\* the same view.
LEMMA GrownView ==
  ASSUME NEW w, Sound(w), NEW pages \in Seq(Grant),
         NEW whole \in PageNo \cup {NoPage}, Placed(w, pages, whole),
         NEW v, Sound(v), Prefix(v), Grown(w, v),
         NEW torn, PromisedOf(v, torn) = PromisedOf(w, whole)
  PROVE  View(v, torn) = View(w, whole)
<1>1. Prefix(w)
  BY DEF Placed
<1>2. PromisedOf(w, whole) \in Nat
      /\ \A n \in 0 .. (PromisedOf(w, whole) - 1) : InFile(w, n)
  BY ViewFacts
<1>3. \A n \in 0 .. (PromisedOf(w, whole) - 1) :
         /\ ReadHeaderOf(v, n) = ReadHeaderOf(w, n)
         /\ ReadBodyOf(v, n) = ReadBodyOf(w, n)
  BY <1>1, <1>2, GrownFileKeepsPages DEF Grown
<1> QED
  BY <1>2, <1>3, SameView

\* A part of a body is read where it lies in the file.
LEMMA PartOfBody ==
  ASSUME NEW w, Sound(w), Prefix(w), NEW n, InFile(w, n),
         NEW offset \in Nat, NEW count \in Nat,
         offset + count <= w.header.page_size
  PROVE  BufRead(w.io, BodyPos(w, n) + offset, count)
           = SubSeq(ReadBodyOf(w, n), offset + 1, offset + count)
<1> DEFINE f == w.io.file
           size == w.header.page_size
           b == 2 + n * PageLength(w)
           body == ReadBodyOf(w, n)
<1>1. f \in Seq(FileCell) /\ Len(f) \in Nat /\ size \in Nat /\ n \in Nat
  BY SoundFacts DEF InFile
<1>2. BodyPos(w, n) = b /\ b \in Nat
  BY <1>1, PlacesAreNumbers
<1>3. /\ body = [i \in 1 .. size |-> f[b + i]]
      /\ \A i \in 1 .. size : b + i \in 2 .. Len(f)
  BY PageIsInFile
<1> HIDE DEF b, body, f, size
<1>4. BufRead(w.io, b + offset, count) = IORead(f, b + offset, count)
  <2>1. b + offset \in Nat
    BY <1>2
  <2> QED
    BY <2>1, ReadOfWorker DEF f
<1>5. IORead(f, b + offset, count) = [i \in 1 .. count |-> f[b + (i + offset)]]
  <2>1. ASSUME NEW i \in 1 .. count
        PROVE  /\ i + offset \in 1 .. size
               /\ (b + offset) + i = b + (i + offset)
    BY <1>1, <1>2 DEF size
  <2>2. \A i \in 1 .. count : (b + offset) + i <= Len(f)
    BY <1>1, <1>3, <2>1
  <2> QED
    BY <2>1, <2>2 DEF IORead
<1>6. SubSeq(body, offset + 1, offset + count)
        = [i \in 1 .. count |-> f[b + (i + offset)]]
  <2>1. SubSeq(body, offset + 1, offset + count)
          = [i \in 1 .. (1 + (offset + count) - (offset + 1)) |->
               body[(i + (offset + 1)) - 1]]
    OBVIOUS
  <2>2. 1 + (offset + count) - (offset + 1) = count
    OBVIOUS
  <2>3. ASSUME NEW i \in 1 .. count
        PROVE  /\ (i + (offset + 1)) - 1 = i + offset
               /\ i + offset \in 1 .. size
    BY <1>1 DEF size
  <2>4. \A i \in 1 .. count : body[i + offset] = f[b + (i + offset)]
    BY <1>3, <2>3
  <2> QED
    BY <2>1, <2>2, <2>3, <2>4
<1> QED
  BY <1>2, <1>4, <1>5, <1>6 DEF body

\* The numbers of the pages of the table.
LEMMA TableNumbers ==
  ASSUME StoreInv, PlaceInv
  PROVE  Table!Number = 0 .. (PromisedOf(worker, kept) - 1)
<1>1. Len(View(worker, kept)) = PromisedOf(worker, kept)
  BY ViewFacts DEF StoreInv, PlaceInv
<1> QED
  BY <1>1, TableOfWorker DEF Table!Number

\* Reading the filesystem header describes the table.
LEMMA DescribeStep ==
  ASSUME ReadFilesystemHeader
  PROVE  Table!Next
<1>1. /\ worker' = worker /\ kept' = kept
      /\ reply' = [page_size |-> worker.header.page_size]
  BY ReadSteps
<1>2. Table!Describe
  BY <1>1, TableDescribes
<1> QED
  BY <1>2 DEF Table!Next

\* Writing the filesystem header formats the table: there are no pages yet.
LEMMA FormatStep ==
  ASSUME Orderly, StoreInv, PlaceInv, StoreInv', PlaceInv',
         NEW h \in FsHeaders, WriteFilesystemHeader(h)
  PROVE  Table!Next
<1>1. /\ granted = <<>> /\ worker' = Formatted(worker, h) /\ reply' = NoReply
      /\ granted' = granted /\ kept' = kept
  BY HeaderSteps DEF Orderly
<1>2. /\ Sound(worker) /\ Placed(worker, granted, kept)
      /\ Sound(worker') /\ Placed(worker', granted, kept)
      /\ granted \in Seq(Grant) /\ kept \in PageNo \cup {NoPage}
  BY <1>1 DEF StoreInv, PlaceInv
<1>3. Len(granted) = 0
  BY <1>1
<1>4. PromisedOf(worker, kept) = 0
  <2>1. /\ PromisedOf(worker, kept) \in Nat
        /\ kept = NoPage => PromisedOf(worker, kept) = Len(granted)
        /\ kept # NoPage => PromisedOf(worker, kept) <= Len(granted)
    BY <1>2, ViewFacts
  <2> QED
    BY <1>3, <2>1
<1>5. PromisedOf(worker', kept) = 0
  <2>1. /\ PromisedOf(worker', kept) \in Nat
        /\ kept = NoPage => PromisedOf(worker', kept) = Len(granted)
        /\ kept # NoPage => PromisedOf(worker', kept) <= Len(granted)
    BY <1>2, ViewFacts
  <2> QED
    BY <1>3, <2>1
<1>6. View(worker, kept) = <<>> /\ View(worker', kept') = <<>>
  BY <1>1, <1>4, <1>5 DEF View
<1>7. worker'.header.page_size \in PageSizes
  BY <1>2, SoundFacts DEF PageSizes
<1>8. Table!Format(worker'.header.page_size)
  BY <1>1, <1>6, TableFormats
<1> QED
  BY <1>7, <1>8 DEF Table!Next

\* A restart leaves the pages as they are.
LEMMA RestartStep ==
  ASSUME Orderly, StoreInv, PlaceInv, StoreInv', PlaceInv', Restart
  PROVE  Table!Next
<1>1. Reopen(worker) /\ kept' = kept
  BY DEF Restart
<1>2. /\ worker' = worker \/ worker' = DriverNew(worker.io.file, worker.header)
      /\ reply' = NoReply
  BY <1>1, ReopenStep
<1>3. /\ Sound(worker) /\ Placed(worker, granted, kept) /\ Prefix(worker)
      /\ Sound(worker') /\ Prefix(worker')
      /\ granted \in Seq(Grant) /\ kept \in PageNo \cup {NoPage}
  BY <1>1 DEF StoreInv, PlaceInv, Placed
<1>4. worker'.header = worker.header /\ worker'.io.file = worker.io.file
  BY <1>2, <1>3, SoundOpen
<1>5. Grown(worker, worker')
  BY Growth
<1>6. PromisedOf(worker', kept) = PromisedOf(worker, kept)
  BY <1>3, <1>4, SamePageCount DEF PromisedOf
<1>7. View(worker', kept') = View(worker, kept)
  <2>1. View(worker', kept) = View(worker, kept)
    BY <1>3, <1>5, <1>6, GrownView
  <2> QED
    BY <1>1, <2>1
<1>8. Table!Restart
  BY <1>1, <1>2, <1>4, <1>7, TableRestarts
<1> QED
  BY <1>8 DEF Table!Next

\* A crash in the middle of CreatePage leaves the promised pages as they are.
LEMMA CrashStep ==
  ASSUME Orderly, StoreInv, PlaceInv, StoreInv', PlaceInv',
         NEW parent \in Neighbour, CrashInCreatePage(parent)
  PROVE  Table!Next
<1> DEFINE w == AppendTo(worker, HeaderCells(parent))
           t == TotalPages(worker)
<1>1. /\ t < MaxPages /\ Reopen(w)
      /\ kept' = IF kept = NoPage THEN t ELSE kept
  BY TornStep
<1>2. /\ worker' = w \/ worker' = DriverNew(w.io.file, w.header)
      /\ reply' = NoReply
  BY <1>1, ReopenStep
<1>3. /\ Sound(worker) /\ Placed(worker, granted, kept) /\ Prefix(worker)
      /\ Sound(worker') /\ Prefix(worker')
      /\ granted \in Seq(Grant) /\ kept \in PageNo \cup {NoPage}
  BY DEF StoreInv, PlaceInv, Placed
<1>4. Grown(worker, worker') /\ worker'.header = worker.header
  BY Growth DEF Grown
<1> HIDE DEF w
<1>7. t \in Nat
  BY <1>3, TotalPagesCounts
<1>8. kept' # NoPage /\ PromisedOf(worker', kept') = PromisedOf(worker, kept)
  <2>1. t \in PageNo
    BY <1>1, <1>7, PageStoreAssumption
  <2>2. kept' # NoPage
    BY <1>1, <2>1, PageStoreAssumption
  <2> QED
    BY <1>1, <2>2 DEF PromisedOf
<1>9. View(worker', kept') = View(worker, kept)
  BY <1>3, <1>4, <1>8, GrownView
<1>10. Table!Restart
  BY <1>2, <1>4, <1>8, <1>9, TableRestarts
<1> QED
  BY <1>10 DEF Table!Next

\* A page that is appended comes behind the others in the view.
LEMMA NewPageInView ==
  ASSUME NEW w, Sound(w), NEW pages \in Seq(Grant), Placed(w, pages, NoPage),
         NEW parent \in PageNo \cup {NoPage},
         NEW v, v = AppendTo(AppendTo(w, HeaderCells(parent)),
                             Zeros(w.header.page_size)),
         Sound(v), NEW more \in Seq(Grant), Placed(v, more, NoPage),
         Len(more) = Len(pages) + 1
  PROVE  View(v, NoPage) =
           Append(View(w, NoPage),
             [header |-> [prev |-> parent, next |-> NoPage],
              body   |-> Zeros(w.header.page_size)])
<1> DEFINE f == w.io.file
           g == v.io.file
           c == HeaderCells(parent)
           z == Zeros(w.header.page_size)
           k == PromisedOf(w, NoPage)
           size == w.header.page_size
           h == [prev |-> parent, next |-> NoPage]
<1>2. Prefix(w) /\ Prefix(v)
  BY DEF Placed
<1>3. /\ h \in PageHeader /\ c \in Seq(PageCell) /\ Len(c) = 1
      /\ z \in Seq(PageCell) /\ Len(z) = size /\ size \in Nat
      /\ c = <<HeaderToCell(h)>>
  <2>1. size \in Nat
    BY SoundFacts
  <2> QED
    BY <2>1, PageIsCells DEF HeaderCells
<1>4. /\ v.header = w.header
      /\ g = (f \o c) \o z
  <2>1. /\ Sound(AppendTo(w, c)) /\ AppendTo(w, c).header = w.header
        /\ AppendTo(w, c).io.file = f \o c
    BY <1>3, SoundAppend
  <2> DEFINE a == AppendTo(w, c)
  <2>2. v = AppendTo(a, z)
    OBVIOUS
  <2> HIDE DEF a, z
  <2>3. v.header = a.header /\ v.io.file = a.io.file \o z
    BY <1>3, <2>1, <2>2, SoundAppend DEF a
  <2> QED
    BY <2>1, <2>3 DEF a
<1>5. /\ f \in Seq(FileCell) /\ Len(f) \in Nat
      /\ c \in Seq(FileCell) /\ z \in Seq(FileCell)
  BY <1>3, SoundFacts, PageCellsAreCells
<1>6. /\ Len(g) = Len(f) + 1 + size
      /\ \A i \in 1 .. Len(f) : g[i] = f[i]
      /\ g[Len(f) + 1] = HeaderToCell(h)
      /\ \A i \in 1 .. size : g[Len(f) + 1 + i] = Zero
  <2> DEFINE d == f \o c
  <2> HIDE DEF f, g, z, c, size, h
  <2>1. /\ d \in Seq(FileCell) /\ Len(d) = Len(f) + 1
        /\ \A i \in 1 .. Len(d) : d[i] = IF i <= Len(f) THEN f[i] ELSE c[i - Len(f)]
    BY <1>3, <1>5, ConcatProperties
  <2>2. g = d \o z
    BY <1>4
  <2> HIDE DEF d
  <2>3. /\ Len(g) = Len(d) + size
        /\ \A i \in 1 .. (Len(d) + size) :
             g[i] = IF i <= Len(d) THEN d[i] ELSE z[i - Len(d)]
    <3>1. /\ Len(d \o z) = Len(d) + Len(z)
          /\ \A i \in 1 .. (Len(d) + Len(z)) :
               (d \o z)[i] = IF i <= Len(d) THEN d[i] ELSE z[i - Len(d)]
      BY <1>5, <2>1, ConcatProperties
    <3>2. Len(z) = size
      BY <1>3
    <3> QED
      BY <2>2, <3>1, <3>2
  <2>4. \A i \in 1 .. Len(f) : g[i] = f[i]
    BY <1>3, <1>5, <2>1, <2>3
  <2>5. g[Len(f) + 1] = HeaderToCell(h)
    <3>1. g[Len(f) + 1] = d[Len(f) + 1]
      BY <1>3, <1>5, <2>1, <2>3
    <3>2. d[Len(f) + 1] = c[(Len(f) + 1) - Len(f)]
      <4>1. /\ Len(f) + 1 \in 1 .. Len(d)
            /\ ~ (Len(f) + 1 <= Len(f))
        BY <1>5, <2>1
      <4> QED
        BY <2>1, <4>1
    <3>3. (Len(f) + 1) - Len(f) = 1 /\ c[1] = HeaderToCell(h)
      BY <1>3, <1>5
    <3> QED
      BY <3>1, <3>2, <3>3
  <2>6. ASSUME NEW i \in 1 .. size
        PROVE  g[Len(f) + 1 + i] = Zero
    <3>1. /\ Len(f) + 1 + i \in 1 .. (Len(d) + size)
          /\ ~ (Len(f) + 1 + i <= Len(d))
          /\ (Len(f) + 1 + i) - Len(d) = i
      BY <1>3, <1>5, <2>1
    <3>2. g[Len(f) + 1 + i] = z[i]
      BY <2>3, <3>1
    <3> QED
      BY <3>2 DEF z, size, Zeros
  <2> QED
    BY <1>3, <1>5, <2>1, <2>3, <2>4, <2>5, <2>6
<1>7. /\ k \in Nat /\ k = Len(pages)
      /\ \A n \in 0 .. (k - 1) : InFile(w, n)
  BY ViewFacts
<1>8. /\ PromisedOf(v, NoPage) = k + 1
      /\ \A n \in 0 .. k : InFile(v, n)
  <2>1. /\ PromisedOf(v, NoPage) = Len(more)
        /\ \A n \in 0 .. (PromisedOf(v, NoPage) - 1) : InFile(v, n)
    BY ViewFacts
  <2> HIDE DEF k
  <2>3. PromisedOf(v, NoPage) = k + 1 /\ (k + 1) - 1 = k
    BY <1>7, <2>1
  <2> QED
    BY <2>1, <2>3
<1>9. \A n \in 0 .. (k - 1) : PageOf(v, n) = PageOf(w, n)
  <2> SUFFICES ASSUME NEW n \in 0 .. (k - 1)
               PROVE  PageOf(v, n) = PageOf(w, n)
    OBVIOUS
  <2>1. InFile(w, n)
    BY <1>7
  <2>2. /\ Len(f) <= Len(g)
        /\ \A i \in 2 .. Len(f) : g[i] = f[i]
    <3> HIDE DEF f, g, size
    <3> QED
      BY <1>3, <1>5, <1>6
  <2>3. v.header = w.header
    BY <1>4
  <2>4. /\ ReadHeaderOf(v, n) = ReadHeaderOf(w, n)
        /\ ReadBodyOf(v, n) = ReadBodyOf(w, n)
    <3> HIDE DEF k
    <3> QED
      BY <1>2, <2>1, <2>2, <2>3, GrownFileKeepsPages
  <2> QED
    BY <2>4 DEF PageOf
<1>10. PageOf(v, k) = [header |-> h, body |-> z]
  <2>1. /\ Len(f) = 1 + k * PageLength(w)
        /\ PageLength(v) = PageLength(w) /\ PageLength(w) \in Nat
        /\ k * PageLength(w) \in Nat
    <3>1. Len(f) = 1 + Len(pages) * PageLength(w)
      BY DEF Placed
    <3>2. PageLength(w) \in Nat /\ PageLength(v) = PageLength(w)
      BY <1>4, SoundFacts DEF PageLength
    <3>3. Len(pages) * PageLength(w) \in Nat
      BY <1>7, <3>2, PagesAscend
    <3> QED
      BY <1>7, <3>1, <3>2, <3>3
  <2> DEFINE q == k * PageLength(w)
  <2>2. k \in 0 .. k
    BY <1>7
  <2>3. /\ ReadHeaderOf(v, k) = CellToHeader(g[2 + q])
        /\ ReadBodyOf(v, k) = [i \in 1 .. size |-> g[(2 + q) + i]]
    <3>1. InFile(v, k)
      BY <1>8, <2>2
    <3> HIDE DEF k
    <3>a. Prefix(v)
      BY <1>2
    <3>2. /\ ReadHeaderOf(v, k) = CellToHeader(g[2 + k * PageLength(v)])
          /\ ReadBodyOf(v, k) =
               [i \in 1 .. v.header.page_size |->
                  g[(2 + k * PageLength(v)) + i]]
      <4> HIDE DEF c, z, h, q, f
      <4> QED
        BY ONLY Sound(v), <3>a, <3>1, PageIsInFile
    <3>3. v.header.page_size = size /\ PageLength(v) = PageLength(w)
      BY <1>4, <2>1
    <3> HIDE DEF g, size
    <3> QED
      BY <3>2, <3>3
  <2> HIDE DEF q, f, g, size
  <2>4. 2 + q = Len(f) + 1
    BY <2>1 DEF q
  <2>5. ReadHeaderOf(v, k) = h
    BY <1>3, <1>6, <2>3, <2>4, PageHeaderCodec
  <2>6. ReadBodyOf(v, k) = z
    <3>1. \A i \in 1 .. size : g[(2 + q) + i] = Zero
      BY ONLY <1>6, <2>4
    <3>2. [i \in 1 .. size |-> g[(2 + q) + i]] = [i \in 1 .. size |-> Zero]
      BY ONLY <3>1
    <3> QED
      BY ONLY <2>3, <3>2 DEF Zeros, z, size
  <2> QED
    BY <2>5, <2>6 DEF PageOf
<1> DEFINE V == View(w, NoPage)
           U == View(v, NoPage)
           x == [header |-> h, body |-> z]
<1>11. /\ V = [i \in 1 .. k |-> PageOf(w, i - 1)]
       /\ U = [i \in 1 .. (k + 1) |-> PageOf(v, i - 1)]
  BY <1>8 DEF View
<1> HIDE DEF V, U, x, k, z, h
<1>13. ASSUME NEW i \in 1 .. (k + 1)
       PROVE  U[i] = IF i <= k THEN V[i] ELSE x
  <2>1. CASE i <= k
    <3>1. i \in 1 .. k /\ i - 1 \in 0 .. (k - 1)
      BY <1>7, <2>1
    <3> QED
      BY <1>9, <1>11, <2>1, <3>1
  <2>2. CASE ~ (i <= k)
    <3>1. i - 1 = k
      BY <1>7, <2>2
    <3> QED
      BY <1>10, <1>11, <2>2, <3>1 DEF x
  <2> QED
    BY <2>1, <2>2
<1>14. U = Append(V, x)
  <2> DEFINE S == {PageOf(w, i - 1) : i \in 1 .. k} \cup {x}
  <2>1. V \in Seq(S) /\ Len(V) = k
    <3>1. V \in [1 .. k -> S]
      BY <1>11
    <3> HIDE DEF S
    <3> QED
      BY <1>7, <3>1, SequenceOf
  <2>2. U \in Seq(S) /\ Len(U) = k + 1
    <3>1. \A i \in 1 .. k : V[i] \in S
      BY <1>11
    <3>2. x \in S
      OBVIOUS
    <3> HIDE DEF S
    <3>3. \A i \in 1 .. (k + 1) : U[i] \in S
      BY <1>7, <1>13, <3>1, <3>2
    <3>4. U \in [1 .. (k + 1) -> S] /\ k + 1 \in Nat
      BY <1>7, <1>11, <3>3
    <3> QED
      BY <3>4, SequenceOf
  <2>3. x \in S
    OBVIOUS
  <2> HIDE DEF S
  <2>4. /\ Append(V, x) \in Seq(S) /\ Len(Append(V, x)) = k + 1
        /\ \A i \in 1 .. k : Append(V, x)[i] = V[i]
        /\ Append(V, x)[k + 1] = x
    BY <2>1, <2>3, AppendProperties
  <2>5. \A i \in 1 .. (k + 1) : U[i] = Append(V, x)[i]
    BY <1>7, <1>13, <2>4
  <2> QED
    BY <2>2, <2>4, <2>5, SeqEqual
<1> QED
  BY <1>14 DEF U, V, x, z, h

\* CreatePage adds a page to the table, or, once a page is torn, one behind the
\* promised ones.
LEMMA CreateInTable ==
  ASSUME Orderly, StoreInv, PlaceInv, StoreInv', PlaceInv',
         NEW parent \in Neighbour, CreatePage(parent)
  PROVE  Table!Next
<1> DEFINE w == worker
           c == HeaderCells(parent)
           z == Zeros(w.header.page_size)
           x == [header |-> [prev |-> parent, next |-> NoPage], body |-> z]
<1>1. /\ worker' = AppendTo(AppendTo(w, c),
                            Zeros(AppendTo(w, c).header.page_size))
      /\ reply' = [page |-> TotalPages(w)]
      /\ granted' = Append(granted, [page |-> TotalPages(w), parent |-> parent])
      /\ kept' = kept
  BY CreateStep
<1>2. /\ Sound(w) /\ Placed(w, granted, kept) /\ Prefix(w)
      /\ Sound(worker') /\ Placed(worker', granted', kept) /\ Prefix(worker')
      /\ granted \in Seq(Grant) /\ granted' \in Seq(Grant)
      /\ kept \in PageNo \cup {NoPage}
  BY <1>1 DEF StoreInv, PlaceInv, Placed
<1>3. parent \in PageNo \cup {NoPage}
  BY AddressesAreNumbers DEF Neighbour
<1>4. /\ c \in Seq(PageCell) /\ z \in Seq(PageCell)
  <2>1. w.header.page_size \in Nat
    BY <1>2, SoundFacts
  <2> QED
    BY <1>3, <2>1, PageIsCells
<1>5. /\ Sound(AppendTo(w, c))
      /\ AppendTo(w, c).header = w.header
      /\ AppendTo(w, c).io.file = w.io.file \o c
  BY <1>2, <1>4, SoundAppend
<1>6. worker' = AppendTo(AppendTo(w, c), z)
  BY <1>1, <1>5
<1>7. worker'.header = w.header
  <2> HIDE DEF z, c
  <2> QED
    BY <1>4, <1>5, <1>6, SoundAppend
<1>8. CASE kept = NoPage
  <2>1. Len(granted') = Len(granted) + 1
    BY <1>1, <1>2
  <2>2. View(worker', NoPage) = Append(View(w, NoPage), x)
    <3>1. Placed(w, granted, NoPage) /\ Placed(worker', granted', NoPage)
      BY <1>2, <1>8
    <3> QED
      BY <1>2, <1>3, <1>6, <2>1, <3>1, NewPageInView
  <2>3. View(worker', kept') = Append(View(w, kept), x)
    BY <1>1, <1>8, <2>2
  <2>4. Len(View(w, kept)) = PromisedOf(w, kept)
    BY <1>2, ViewFacts
  <2>5. reply' = [page |-> Len(View(w, kept))]
    BY <1>1, <1>8, <2>4 DEF PromisedOf
  <2>6. Table!Create(parent)
    BY <1>1, <1>7, <2>3, <2>5, TableCreates
  <2>7. parent \in Table!Neighbour
    <3>1. {granted[i].page : i \in DOMAIN granted} = 0 .. (PromisedOf(w, kept) - 1)
      BY <1>2, <1>8, ViewFacts
    <3> QED
      BY <3>1, TableNumbers
         DEF Table!Neighbour, Neighbour, Addressable, Granted, Orderly
  <2> QED
    BY <2>6, <2>7 DEF Table!Next
<1>9. CASE kept # NoPage
  <2>1. Grown(w, worker')
    BY Growth
  <2>2. PromisedOf(worker', kept) = PromisedOf(w, kept)
    BY <1>9 DEF PromisedOf
  <2>3. View(worker', kept) = View(w, kept)
    BY <1>2, <2>1, <2>2, GrownView
  <2>4. View(worker', kept') = View(w, kept)
    BY <1>1, <2>3
  <2> QED
    BY <1>1, <1>7, <1>9, <2>4, TableBeyond
<1> QED
  BY <1>8, <1>9

\* Writing the header of a page is a step of the table.
LEMMA LinkInTable ==
  ASSUME Orderly, StoreInv, PlaceInv, NEW n \in Addressable,
         NEW next \in Addressable, LinkPageForward(n, next)
  PROVE  Table!Next
<1> DEFINE old == ReadHeaderOf(worker, n)
           h == [old EXCEPT !.next = next]
<1>1. worker' = WriteHeaderOf(worker, n, h) /\ reply' = NoReply /\ kept' = kept
  BY HeaderSteps
<1>2. old \in PageHeader
  BY PageHeaderCodec DEF ReadHeaderOf
<1>3. h \in PageHeader /\ next \in PageNo
  BY <1>2, AddressesAreNumbers DEF PageHeader
<1> HIDE DEF h
<1>4. /\ n \in Nat
      /\ worker'.header = worker.header
      /\ n < PromisedOf(worker, kept) =>
           /\ View(worker', kept)
                = [View(worker, kept) EXCEPT ![n + 1].header = h]
           /\ View(worker, kept)[n + 1] = PageOf(worker, n)
      /\ ~ n < PromisedOf(worker, kept) =>
           View(worker', kept) = View(worker, kept) /\ kept # NoPage
  BY <1>1, <1>3, HeaderInView
<1>5. CASE n < PromisedOf(worker, kept)
  <2>1. View(worker', kept')
          = [View(worker, kept) EXCEPT ![n + 1].header.next = next]
    <3> DEFINE V == View(worker, kept)
    <3>1. V[n + 1].header = old
      BY <1>4, <1>5 DEF PageOf
    <3>2. View(worker', kept')
            = [V EXCEPT ![n + 1].header = [V[n + 1].header EXCEPT !.next = next]]
      BY <1>1, <1>4, <1>5, <3>1 DEF h
    <3> HIDE DEF V
    <3>3. [V EXCEPT ![n + 1].header = [V[n + 1].header EXCEPT !.next = next]]
            = [V EXCEPT ![n + 1].header.next = next]
      OBVIOUS
    <3> QED
      BY <3>2, <3>3 DEF V
  <2>2. Table!Link(n, next)
    BY <1>1, <1>4, <2>1, TableLinks
  <2>3. n \in Table!Number
    <3>1. PromisedOf(worker, kept) \in Nat
      BY ViewFacts DEF StoreInv, PlaceInv
    <3> QED
      BY <1>4, <1>5, <3>1, TableNumbers
  <2>4. next \in Table!Linkable
    <3>1. CASE kept = NoPage
      <4>1. {granted[i].page : i \in DOMAIN granted}
              = 0 .. (PromisedOf(worker, kept) - 1)
        BY <3>1, ViewFacts DEF StoreInv, PlaceInv
      <4> QED
        BY <3>1, <4>1, TableNumbers
           DEF Table!Linkable, Addressable, Granted, Orderly
    <3>2. CASE kept # NoPage
      BY <1>3, <3>2 DEF Table!Linkable
    <3> QED
      BY <3>1, <3>2
  <2> QED
    BY <2>2, <2>3, <2>4 DEF Table!Next
<1>6. CASE ~ n < PromisedOf(worker, kept)
  BY <1>1, <1>4, <1>6, TableBeyond
<1> QED
  BY <1>5, <1>6

\* So is replacing it.
LEMMA SetHeaderInTable ==
  ASSUME Orderly, StoreInv, PlaceInv, NEW n \in Addressable,
         NEW h \in Headers, WritePageHeader(n, h)
  PROVE  Table!Next
<1>1. worker' = WriteHeaderOf(worker, n, h) /\ reply' = NoReply /\ kept' = kept
  BY HeaderSteps
<1>2. h \in PageHeader
  BY PageStoreAssumption
<1>3. /\ n \in Nat
      /\ worker'.header = worker.header
      /\ n < PromisedOf(worker, kept) =>
           View(worker', kept) = [View(worker, kept) EXCEPT ![n + 1].header = h]
      /\ ~ n < PromisedOf(worker, kept) =>
           View(worker', kept) = View(worker, kept) /\ kept # NoPage
  BY <1>1, <1>2, HeaderInView
<1>4. CASE n < PromisedOf(worker, kept)
  <2>1. Table!SetHeader(n, h)
    BY <1>1, <1>3, <1>4, TableSetsHeader
  <2>2. n \in Table!Number
    <3>1. PromisedOf(worker, kept) \in Nat
      BY ViewFacts DEF StoreInv, PlaceInv
    <3> QED
      BY <1>3, <1>4, <3>1, TableNumbers
  <2> QED
    BY <2>1, <2>2 DEF Table!Next
<1>5. CASE ~ n < PromisedOf(worker, kept)
  BY <1>1, <1>3, <1>5, TableBeyond
<1> QED
  BY <1>4, <1>5

\* Reading the header of a page is a step of the table.
LEMMA GetHeaderInTable ==
  ASSUME Orderly, StoreInv, PlaceInv, NEW n \in Addressable, ReadPageHeader(n)
  PROVE  Table!Next
<1> DEFINE k == PromisedOf(worker, kept)
<1>1. /\ worker' = worker /\ kept' = kept
      /\ reply' = [header |-> ReadHeaderOf(worker, n)]
  BY ReadSteps
<1>2. /\ k \in Nat /\ n \in Nat
      /\ kept = NoPage => {granted[i].page : i \in DOMAIN granted} = 0 .. (k - 1)
  BY AddressedPagesAreThere, ViewFacts DEF StoreInv, PlaceInv
<1> HIDE DEF k
<1>3. CASE n < k
  <2>1. n + 1 \in 1 .. k /\ (n + 1) - 1 = n
    BY <1>2, <1>3
  <2>2. View(worker, kept)[n + 1] = PageOf(worker, n)
    BY <2>1 DEF View, k
  <2>3. Table!GetHeader(n)
    BY <1>1, <2>2, TableGetsHeader DEF PageOf
  <2>4. n \in Table!Number
    BY <1>2, <1>3, TableNumbers DEF k
  <2> QED
    BY <2>3, <2>4 DEF Table!Next
<1>4. CASE ~ n < k
  <2>1. kept # NoPage
    <3>1. n \notin 0 .. (k - 1)
      BY <1>2, <1>4
    <3> QED
      BY <1>2, <3>1 DEF Addressable, Granted, Orderly
  <2> QED
    BY <1>1, <2>1, TableBeyond
<1> QED
  BY <1>3, <1>4

\* Reading in the body of a page is a step of the table.
LEMMA GetInTable ==
  ASSUME Orderly, StoreInv, PlaceInv, NEW n \in Addressable,
         NEW offset \in 0 .. worker.header.page_size,
         NEW length \in 0 .. worker.header.page_size + 1,
         ReadPage(n, offset, length)
  PROVE  Table!Next
<1> DEFINE k == PromisedOf(worker, kept)
           size == worker.header.page_size
           taken == Taken(size, offset, length)
           body == ReadBodyOf(worker, n)
<1>1. /\ worker' = worker /\ kept' = kept
      /\ reply' = IF offset >= size \/ length = 0 THEN [bytes |-> <<>>]
                  ELSE [bytes |->
                     BufRead(worker.io, BodyPos(worker, n) + offset,
                             IF length > size - offset
                               THEN size - offset ELSE length)]
  BY ReadSteps
<1>2. /\ k \in Nat /\ n \in Nat
      /\ kept = NoPage => {granted[i].page : i \in DOMAIN granted} = 0 .. (k - 1)
  BY AddressedPagesAreThere, ViewFacts DEF StoreInv, PlaceInv
<1>3. Sound(worker) /\ Prefix(worker) /\ InFile(worker, n)
  BY AddressedPagesAreThere DEF StoreInv, PlaceInv, Placed, InFile
<1>4. size \in Nat
  BY <1>3, SoundFacts
<1> HIDE DEF k, size
<1>5. offset \in Nat /\ length \in Nat /\ offset <= size
  BY <1>4 DEF size
<1>6. taken \in Nat /\ offset + taken <= size
  BY <1>4, <1>5 DEF Taken
<1>7. reply' = [bytes |-> SubSeq(body, offset + 1, offset + taken)]
  <2>1. CASE offset >= size \/ length = 0
    <3>1. taken = 0
      BY <1>4, <1>5, <2>1 DEF Taken
    <3>2. SubSeq(body, offset + 1, offset + taken) = <<>>
      <4>1. offset + 1 \in Int /\ offset + taken \in Int
            /\ offset + taken < offset + 1
        BY <1>5, <3>1
      <4> HIDE DEF taken, body
      <4> QED
        BY <4>1, SubSeqEmpty
    <3> QED
      BY <1>1, <2>1, <3>2
  <2>2. CASE ~ (offset >= size \/ length = 0)
    <3>1. (IF length > size - offset THEN size - offset ELSE length) = taken
      BY <1>4, <1>5 DEF Taken
    <3>2. BufRead(worker.io, BodyPos(worker, n) + offset, taken)
            = SubSeq(body, offset + 1, offset + taken)
      <4> HIDE DEF taken
      <4> QED
        BY <1>3, <1>5, <1>6, PartOfBody, SMTT(40) DEF size
    <3> QED
      BY <1>1, <2>2, <3>1, <3>2
  <2> QED
    BY <2>1, <2>2
<1>8. CASE n < k
  <2>1. n + 1 \in 1 .. k /\ (n + 1) - 1 = n
    BY <1>2, <1>8
  <2>2. View(worker, kept)[n + 1] = PageOf(worker, n)
    BY <2>1 DEF View, k
  <2>3. View(worker, kept)[n + 1].body = body
    BY <2>2 DEF PageOf
  <2>4. Table!Get(n, offset, length)
    <3> HIDE DEF body
    <3> QED
      BY <1>1, <1>7, <2>3, TableGets DEF size
  <2>5. n \in Table!Number
    BY <1>2, <1>8, TableNumbers DEF k
  <2> QED
    BY <2>4, <2>5 DEF Table!Next
<1>9. CASE ~ n < k
  <2>1. kept # NoPage
    <3>1. n \notin 0 .. (k - 1)
      BY <1>2, <1>9
    <3> QED
      BY <1>2, <3>1 DEF Addressable, Granted, Orderly
  <2> QED
    BY <1>1, <2>1, TableBeyond
<1> QED
  BY <1>8, <1>9

\* A body that bytes were put into from offset on, as the table and as the
\* worker, which splits the bytes first, have it.
LEMMA PutIsPut ==
  ASSUME NEW body, NEW size \in Nat, DOMAIN body = 1 .. size,
         NEW offset \in Nat, offset < size, NEW bytes \in Bytes, bytes # <<>>
  PROVE  LET s == SubSeq(bytes, 1, Fit(size, offset, bytes))
         IN  Put(body, offset, s)
               = [i \in 1 .. size |->
                    IF i - offset \in 1 .. Len(bytes) THEN bytes[i - offset]
                    ELSE body[i]]
<1> DEFINE fit == Fit(size, offset, bytes)
           s == SubSeq(bytes, 1, fit)
<1>1. /\ Len(bytes) \in Nat /\ fit \in 1 .. Len(bytes)
      /\ Len(s) = fit
      /\ \A i \in 1 .. fit : s[i] = bytes[i]
  BY FittingPart
<1>2. fit = IF offset + Len(bytes) > size THEN size - offset ELSE Len(bytes)
  BY DEF Fit
<1> HIDE DEF fit, s
<1>3. ASSUME NEW i \in 1 .. size
      PROVE  (i - offset \in 1 .. fit) <=> (i - offset \in 1 .. Len(bytes))
  BY <1>1, <1>2
<1>4. Put(body, offset, s)
        = [i \in 1 .. size |-> IF i - offset \in 1 .. fit THEN s[i - offset]
                               ELSE body[i]]
  BY <1>1 DEF Put
<1>5. ASSUME NEW i \in 1 .. size
      PROVE  (IF i - offset \in 1 .. fit THEN s[i - offset] ELSE body[i])
               = IF i - offset \in 1 .. Len(bytes) THEN bytes[i - offset]
                 ELSE body[i]
  BY <1>1, <1>3
<1>6. Put(body, offset, s)
        = [i \in 1 .. size |->
             IF i - offset \in 1 .. Len(bytes) THEN bytes[i - offset]
             ELSE body[i]]
  BY <1>4, <1>5
<1> QED
  BY <1>6 DEF s, fit

\* The bytes that come back, as the table and as the worker have them.
LEMMA RestIsRest ==
  ASSUME NEW size \in Nat, NEW offset \in Nat, offset < size,
         NEW bytes \in Bytes, bytes # <<>>
  PROVE  SubSeq(bytes, Fit(size, offset, bytes) + 1, Len(bytes))
           = [i \in 1 .. ((offset + Len(bytes)) - size) |->
                bytes[i + (size - offset)]]
<1> DEFINE fit == Fit(size, offset, bytes)
<1>1. Len(bytes) \in Nat /\ fit \in 1 .. Len(bytes)
  BY FittingPart
<1>2. fit = IF offset + Len(bytes) > size THEN size - offset ELSE Len(bytes)
  BY DEF Fit
<1> HIDE DEF fit
<1>3. SubSeq(bytes, fit + 1, Len(bytes))
        = [i \in 1 .. (1 + Len(bytes) - (fit + 1)) |->
             bytes[(i + (fit + 1)) - 1]]
  BY <1>1, PageStoreAssumption
<1>4. 1 .. (1 + Len(bytes) - (fit + 1)) = 1 .. ((offset + Len(bytes)) - size)
  <2>1. CASE offset + Len(bytes) > size
    <3>1. 1 + Len(bytes) - (fit + 1) = (offset + Len(bytes)) - size
      BY <1>1, <1>2, <2>1
    <3> QED
      BY <3>1
  <2>2. CASE ~ (offset + Len(bytes) > size)
    BY <1>1, <1>2, <2>2
  <2> QED
    BY <2>1, <2>2
<1>5. ASSUME NEW i \in 1 .. ((offset + Len(bytes)) - size)
      PROVE  (i + (fit + 1)) - 1 = i + (size - offset)
  BY <1>1, <1>2
<1>6. SubSeq(bytes, fit + 1, Len(bytes))
        = [i \in 1 .. ((offset + Len(bytes)) - size) |->
             bytes[i + (size - offset)]]
  BY <1>3, <1>4, <1>5
<1> QED
  BY <1>6 DEF fit

\* Nothing fits: the body stays as it is, and all the bytes come back.
LEMMA NothingFits ==
  ASSUME NEW size \in Nat, NEW body, body = [i \in 1 .. size |-> body[i]],
         NEW offset \in 0 .. size, NEW bytes \in Bytes,
         offset >= size \/ bytes = <<>>
  PROVE  /\ [i \in 1 .. size |->
               IF i - offset \in 1 .. Len(bytes) THEN bytes[i - offset]
               ELSE body[i]] = body
         /\ [i \in 1 .. ((offset + Len(bytes)) - size) |->
               bytes[i + (size - offset)]] = bytes
<1>1. bytes \in Seq(Data)
  BY PageStoreAssumption
<1>2. Len(bytes) \in Nat /\ bytes = [i \in 1 .. Len(bytes) |-> bytes[i]]
  BY <1>1, LenProperties
<1>3. ASSUME NEW i \in 1 .. size
      PROVE  ~ (i - offset \in 1 .. Len(bytes))
  <2>1. CASE offset >= size
    BY <1>2, <2>1
  <2>2. CASE bytes = <<>>
    <3>1. Len(bytes) = 0
      BY <2>2
    <3> QED
      BY <3>1
  <2> QED
    BY <2>1, <2>2
<1>4. [i \in 1 .. ((offset + Len(bytes)) - size) |->
         bytes[i + (size - offset)]] = bytes
  <2>1. CASE offset >= size
    <3>1. offset = size /\ (offset + Len(bytes)) - size = Len(bytes)
      BY <1>2, <2>1
    <3>2. \A i \in 1 .. Len(bytes) : i + (size - offset) = i
      BY <3>1
    <3> QED
      BY <1>2, <3>1, <3>2
  <2>2. CASE bytes = <<>>
    <3>1. Len(bytes) = 0
      BY <2>2
    <3>2. 1 .. ((offset + Len(bytes)) - size) = 1 .. Len(bytes)
      BY <3>1
    <3>3. \A i \in 1 .. Len(bytes) : i \notin 1 .. Len(bytes)
      BY <3>1
    <3> QED
      BY <1>2, <3>2, <3>3
  <2> QED
    BY <2>1, <2>2
<1>5. [i \in 1 .. size |->
         IF i - offset \in 1 .. Len(bytes) THEN bytes[i - offset]
         ELSE body[i]] = body
  BY <1>3
<1> QED
  BY <1>4, <1>5

\* Writing into the body of a page is a step of the table.
LEMMA PutInTable ==
  ASSUME Orderly, StoreInv, PlaceInv, NEW n \in Addressable,
         NEW offset \in 0 .. worker.header.page_size, NEW bytes \in Bytes,
         WritePage(n, offset, bytes)
  PROVE  Table!Next
<1> DEFINE k == PromisedOf(worker, kept)
           size == worker.header.page_size
           fit == Fit(size, offset, bytes)
           s == SubSeq(bytes, 1, fit)
           V == View(worker, kept)
           After(body) ==
             [i \in 1 .. size |->
                IF i - offset \in 1 .. Len(bytes) THEN bytes[i - offset]
                ELSE body[i]]
           rest == [i \in 1 .. ((offset + Len(bytes)) - size) |->
                      bytes[i + (size - offset)]]
<1>1. /\ kept' = kept
      /\ \/ /\ offset >= size \/ bytes = <<>>
            /\ worker' = worker
            /\ reply' = [bytes |-> bytes]
         \/ /\ ~ (offset >= size \/ bytes = <<>>)
            /\ worker' = WriteAt(worker, BodyPos(worker, n) + offset, s)
            /\ reply' = [bytes |-> SubSeq(bytes, fit + 1, Len(bytes))]
  BY WriteStep DEF Fit
<1>2. /\ k \in Nat /\ n \in Nat
      /\ kept = NoPage => {granted[i].page : i \in DOMAIN granted} = 0 .. (k - 1)
  BY AddressedPagesAreThere, ViewFacts DEF StoreInv, PlaceInv
<1>3. Sound(worker) /\ Prefix(worker) /\ InFile(worker, n)
  BY AddressedPagesAreThere DEF StoreInv, PlaceInv, Placed, InFile
<1>4. size \in Nat /\ offset \in Nat /\ offset <= size
  <2>1. size \in Nat
    BY <1>3, SoundFacts
  <2> HIDE DEF size
  <2> QED
    BY <2>1 DEF size
<1>5. ReadBodyOf(worker, n)
        = [i \in 1 .. size |-> ReadBodyOf(worker, n)[i]]
  <2> DEFINE b == [i \in 1 .. worker.header.page_size |->
                     worker.io.file[(2 + n * PageLength(worker)) + i]]
  <2>1. ReadBodyOf(worker, n) = b
    BY ONLY <1>3, PageIsInFile
  <2> HIDE DEF size
  <2>2. b = [i \in 1 .. worker.header.page_size |-> b[i]]
    OBVIOUS
  <2> HIDE DEF b
  <2> QED
    BY ONLY <2>1, <2>2 DEF size
<1> HIDE DEF k
<1>6. n < k => n \in Table!Number /\ V[n + 1] = PageOf(worker, n)
  <2> SUFFICES ASSUME n < k
               PROVE  n \in Table!Number /\ V[n + 1] = PageOf(worker, n)
    OBVIOUS
  <2>1. n + 1 \in 1 .. k /\ (n + 1) - 1 = n /\ n \in 0 .. (k - 1)
    BY <1>2
  <2>2. n \in Table!Number
    BY <2>1, TableNumbers DEF k
  <2>3. V[n + 1] = PageOf(worker, n)
    BY <2>1 DEF View, k
  <2> QED
    BY <2>2, <2>3
<1>7. ~ n < k => kept # NoPage
  <2>1. ~ n < k => n \notin 0 .. (k - 1)
    BY <1>2
  <2> QED
    BY <1>2, <2>1 DEF Addressable, Granted, Orderly
<1>8. V = [V EXCEPT ![n + 1] = V[n + 1]]
  BY DEF View
<1>9. CASE /\ offset >= size \/ bytes = <<>>
           /\ worker' = worker
           /\ reply' = [bytes |-> bytes]
  <2>1. CASE n < k
    <3>1. After(ReadBodyOf(worker, n)) = ReadBodyOf(worker, n) /\ rest = bytes
      <4> HIDE DEF size
      <4> QED
        BY <1>4, <1>5, <1>9, NothingFits
    <3>2. [V EXCEPT ![n + 1].body = After(@)] = V
      <4>1. V[n + 1].body = ReadBodyOf(worker, n)
        BY <1>6, <2>1 DEF PageOf
      <4>2. V[n + 1] = [V[n + 1] EXCEPT !.body = ReadBodyOf(worker, n)]
        BY <1>6, <2>1 DEF PageOf
      <4> HIDE DEF V, After
      <4> QED
        BY <1>8, <3>1, <4>1, <4>2
    <3>3. View(worker', kept') = [V EXCEPT ![n + 1].body = After(@)]
      <4> HIDE DEF After
      <4> QED
        BY <1>1, <1>9, <3>2
    <3>4. reply' = [bytes |-> rest]
      BY <1>9, <3>1
    <3>5. Table!Put(n, offset, bytes)
      BY <1>1, <1>9, <3>3, <3>4, TablePuts
    <3> QED
      BY <1>6, <2>1, <3>5 DEF Table!Next
  <2>2. CASE ~ n < k
    BY <1>1, <1>7, <1>9, <2>2, TableBeyond
  <2> QED
    BY <2>1, <2>2
<1>10. CASE /\ ~ (offset >= size \/ bytes = <<>>)
            /\ worker' = WriteAt(worker, BodyPos(worker, n) + offset, s)
            /\ reply' = [bytes |-> SubSeq(bytes, fit + 1, Len(bytes))]
  <2>1. offset < size /\ bytes # <<>>
    <3> HIDE DEF size
    <3> QED
      BY <1>4, <1>10
  <2>2. /\ s \in Seq(PageCell) /\ s # <<>>
        /\ offset + Len(s) <= size
    <3>1. /\ s \in Seq(PageCell) /\ s # <<>>
          /\ Len(s) = fit /\ offset + fit <= size
      <4> HIDE DEF size
      <4> QED
        BY <1>4, <2>1, FittingPart
    <3> QED
      BY <3>1
  <2> DEFINE x == [header |-> ReadHeaderOf(worker, n),
                   body   |-> Put(ReadBodyOf(worker, n), offset, s)]
  <2>3. /\ worker'.header = worker.header
        /\ n < k => View(worker', kept) = [V EXCEPT ![n + 1] = x]
        /\ ~ n < k => View(worker', kept) = V /\ kept # NoPage
    <3>1. worker' = WriteAt(worker, BodyPos(worker, n) + offset, s)
      BY <1>10
    <3>2. /\ s \in Seq(PageCell) /\ s # <<>> /\ offset \in Nat
          /\ offset + Len(s) <= worker.header.page_size
      BY <1>4, <2>2
    <3> DEFINE v == worker'
    <3>3. v = WriteAt(worker, BodyPos(worker, n) + offset, s)
      BY <3>1
    <3> HIDE DEF s, v
    <3>4. /\ v.header = worker.header
          /\ n < PromisedOf(worker, kept) => View(v, kept) = [V EXCEPT ![n + 1] = x]
          /\ ~ n < PromisedOf(worker, kept) =>
               View(v, kept) = V /\ kept # NoPage
      BY ONLY Orderly, StoreInv, PlaceInv, n \in Addressable, <3>2, <3>3,
              BodyInView
    <3> QED
      BY ONLY <3>4 DEF v, k
  <2>4. CASE n < k
    <3>1. V[n + 1].body = ReadBodyOf(worker, n)
      BY <1>6, <2>4 DEF PageOf
    <3>2. DOMAIN ReadBodyOf(worker, n) = 1 .. size
      BY <1>3, PageIsInFile
    <3>3. Put(ReadBodyOf(worker, n), offset, s) = After(ReadBodyOf(worker, n))
      <4> HIDE DEF size
      <4> QED
        BY <1>4, <2>1, <3>2, PutIsPut, SMTT(40)
    <3>4. View(worker', kept') = [V EXCEPT ![n + 1].body = After(@)]
      <4>1. V[n + 1] = [header |-> ReadHeaderOf(worker, n),
                        body   |-> ReadBodyOf(worker, n)]
        BY <1>6, <2>4 DEF PageOf
      <4> HIDE DEF V, After, s
      <4>2. [V[n + 1] EXCEPT !.body = After(@)] = x
        BY <3>3, <4>1
      <4>3. [V EXCEPT ![n + 1].body = After(@)] = [V EXCEPT ![n + 1] = x]
        BY <4>2
      <4> QED
        BY <1>1, <2>3, <2>4, <4>3
    <3>5. SubSeq(bytes, fit + 1, Len(bytes)) = rest
      <4> HIDE DEF size
      <4> QED
        BY <1>4, <2>1, RestIsRest
    <3>6. reply' = [bytes |-> rest]
      BY <1>10, <3>5
    <3>7. Table!Put(n, offset, bytes)
      BY <1>1, <2>3, <3>4, <3>6, TablePuts
    <3> QED
      BY <1>6, <2>4, <3>7 DEF Table!Next
  <2>5. CASE ~ n < k
    BY <1>1, <2>3, <2>5, TableBeyond
  <2> QED
    BY <2>4, <2>5
<1> QED
  BY <1>1, <1>9, <1>10

\* There are no pages in the beginning.
LEMMA TableInit == Init => Table!Init
<1> SUFFICES ASSUME Init
             PROVE  Table!Init
  OBVIOUS
<1>1. StoreInv /\ PlaceInv
  BY StoreInit, PlaceInit
<1>2. kept = NoPage /\ granted = <<>> /\ reply = NoReply
  BY DEF Init
<1>3. PromisedOf(worker, kept) = 0
  <2>1. PromisedOf(worker, kept) = Len(granted)
    BY <1>1, <1>2, ViewFacts DEF StoreInv, PlaceInv
  <2> QED
    BY <1>2, <2>1
<1>4. View(worker, kept) = <<>>
  BY <1>3 DEF View
<1>5. worker.header.page_size \in PageSizes
  BY <1>1, SoundFacts DEF StoreInv, PageSizes
<1> QED
  BY <1>2, <1>4, <1>5, TableOfWorker
     DEF Table!Init, Table!NoReply, NoReply

\* Every step is a step of the table, or leaves it alone.
LEMMA TableStep ==
  ASSUME Orderly, StoreInv, PlaceInv, StoreInv', PlaceInv', [Next]_vars
  PROVE  [Table!Next]_(Table!vars)
<1>1. CASE ReadFilesystemHeader
  BY <1>1, DescribeStep
<1>2. ASSUME NEW h \in FsHeaders, WriteFilesystemHeader(h)
      PROVE  Table!Next
  BY <1>2, FormatStep
<1>3. CASE Restart
  BY <1>3, RestartStep
<1>4. ASSUME NEW parent \in Neighbour, CreatePage(parent)
      PROVE  Table!Next
  BY <1>4, CreateInTable
<1>5. ASSUME NEW parent \in Neighbour, CrashInCreatePage(parent)
      PROVE  Table!Next
  BY <1>5, CrashStep
<1>6. ASSUME NEW n \in Addressable, NEW next \in Addressable,
             LinkPageForward(n, next)
      PROVE  Table!Next
  BY <1>6, LinkInTable
<1>7. ASSUME NEW n \in Addressable, ReadPageHeader(n)
      PROVE  Table!Next
  BY <1>7, GetHeaderInTable
<1>8. ASSUME NEW n \in Addressable, NEW h \in Headers, WritePageHeader(n, h)
      PROVE  Table!Next
  BY <1>8, SetHeaderInTable
<1>9. ASSUME NEW n \in Addressable,
             NEW offset \in 0 .. worker.header.page_size,
             NEW length \in 0 .. worker.header.page_size + 1,
             ReadPage(n, offset, length)
      PROVE  Table!Next
  BY <1>9, GetInTable
<1>10. ASSUME NEW n \in Addressable,
              NEW offset \in 0 .. worker.header.page_size,
              NEW bytes \in Bytes, WritePage(n, offset, bytes)
       PROVE  Table!Next
  BY <1>10, PutInTable
<1>11. CASE UNCHANGED vars
  BY <1>11, TableOfWorker DEF vars, Table!vars
<1> QED
  BY <1>1, <1>2, <1>3, <1>4, <1>5, <1>6, <1>7, <1>8, <1>9, <1>10, <1>11
     DEF Next

\* Clients that keep to the numbers they were given see a table of pages, across
\* restarts and crashes in the middle of CreatePage: the worker's arithmetic on
\* one file behind a buffer implements PageTable (tasks.rs:7-82).
THEOREM ImplementsTable ==
  ASSUME Orderly
  PROVE  Spec => ImplementsPageTable
<1>1. Init => Table!Init
  BY TableInit
<1>2. /\ StoreInv /\ PlaceInv
      /\ (StoreInv /\ PlaceInv)'
      /\ [Next]_vars
      => [Table!Next]_(Table!vars)
  BY TableStep
<1>3. Spec => [](StoreInv /\ PlaceInv)
  BY PlaceInvariant
<1> QED
  BY <1>1, <1>2, <1>3, PTL DEF Spec, ImplementsPageTable, Table!Spec

-----------------------------------------------------------------------------
(***************************************************************************)
(* What a step changes.                                                    *)
(***************************************************************************)

\* What ChangesOnePartOfOnePage says of a step.
OnePart ==
  LET Header == {n \in Granted :
                   ReadHeaderOf(worker, n) # ReadHeaderOf(worker', n)}
      Body   == {n \in Granted :
                   ReadBodyOf(worker, n) # ReadBodyOf(worker', n)}
  IN  /\ Header = {} \/ Body = {}
      /\ \A m, n \in Header \cup Body : m = n
      /\ TotalPages(worker') # TotalPages(worker) => Header \cup Body = {}

\* A step that changes no granted page, the header of one or the body of one.
LEMMA OnePartOrNone ==
  ASSUME NEW n,
         \/ \A m \in Granted :
              /\ ReadHeaderOf(worker', m) = ReadHeaderOf(worker, m)
              /\ ReadBodyOf(worker', m) = ReadBodyOf(worker, m)
         \/ /\ TotalPages(worker') = TotalPages(worker)
            /\ \A m \in Granted :
                 /\ m # n => ReadHeaderOf(worker', m) = ReadHeaderOf(worker, m)
                 /\ ReadBodyOf(worker', m) = ReadBodyOf(worker, m)
         \/ /\ TotalPages(worker') = TotalPages(worker)
            /\ \A m \in Granted :
                 /\ ReadHeaderOf(worker', m) = ReadHeaderOf(worker, m)
                 /\ m # n => ReadBodyOf(worker', m) = ReadBodyOf(worker, m)
  PROVE  OnePart
BY DEF OnePart

\* Granted pages lie in the file.
LEMMA GrantedPagesAreThere ==
  ASSUME Orderly, StoreInv, PlaceInv
  PROVE  \A m \in Granted : InFile(worker, m)
<1> SUFFICES ASSUME NEW m \in Granted
             PROVE  InFile(worker, m)
  OBVIOUS
<1>1. m \in Addressable
  BY DEF Addressable
<1> QED
  BY <1>1, AddressedPagesAreThere DEF InFile

\* A file that only grew has the granted pages as they were.
LEMMA GrownKeepsGranted ==
  ASSUME Orderly, StoreInv, PlaceInv, NEW v, Sound(v), Prefix(v),
         Grown(worker, v)
  PROVE  \A m \in Granted : /\ ReadHeaderOf(v, m) = ReadHeaderOf(worker, m)
                            /\ ReadBodyOf(v, m) = ReadBodyOf(worker, m)
<1>1. Sound(worker) /\ Prefix(worker)
  BY DEF StoreInv, PlaceInv, Placed
<1> QED
  BY <1>1, GrantedPagesAreThere, GrownFileKeepsPages DEF Grown

\* Writing the header of a page changes that header.
LEMMA HeaderIsOnePart ==
  ASSUME Orderly, StoreInv, PlaceInv, NEW n \in Addressable,
         NEW h \in PageHeader, worker' = WriteHeaderOf(worker, n, h)
  PROVE  OnePart
<1> DEFINE v == WriteHeaderOf(worker, n, h)
<1>1. Sound(worker) /\ Prefix(worker)
  BY DEF StoreInv, PlaceInv, Placed
<1>2. n \in Nat /\ InFile(worker, n)
  BY AddressedPagesAreThere DEF InFile
<1>3. Sound(v) /\ v.header = worker.header
  BY <1>1, <1>2, HeaderWrite
<1>4. Prefix(v) /\ Len(v.io.file) = Len(worker.io.file)
  BY HeaderInPlace DEF Placed
<1>5. TotalPages(v) = TotalPages(worker)
  <2> HIDE DEF v
  <2> QED
    BY <1>1, <1>3, <1>4, SamePageCount
<1>6. \A m \in Granted :
        /\ m # n => ReadHeaderOf(v, m) = ReadHeaderOf(worker, m)
        /\ ReadBodyOf(v, m) = ReadBodyOf(worker, m)
  BY <1>1, <1>2, <1>4, GrantedPagesAreThere, HeaderEffect
<1> HIDE DEF v
<1>7. worker' = v
  BY DEF v
<1> QED
  BY <1>5, <1>6, <1>7, OnePartOrNone

\* Writing into the body of a page changes that body.
LEMMA BodyIsOnePart ==
  ASSUME Orderly, StoreInv, PlaceInv, NEW n \in Addressable,
         NEW offset \in Nat, NEW cells \in Seq(PageCell), cells # <<>>,
         offset + Len(cells) <= worker.header.page_size,
         worker' = WriteAt(worker, BodyPos(worker, n) + offset, cells)
  PROVE  OnePart
<1> DEFINE s == BodyPos(worker, n) + offset
           v == WriteAt(worker, s, cells)
<1>1. Sound(worker) /\ Prefix(worker)
  BY DEF StoreInv, PlaceInv, Placed
<1>2. n \in Nat /\ InFile(worker, n)
  BY AddressedPagesAreThere DEF InFile
<1>3. Sound(v) /\ v.header = worker.header
  <2>1. s \in Nat \ {0}
    <3>1. BodyPos(worker, n) \in Nat \ {0}
      BY <1>1, <1>2, PlacesAreNumbers
    <3> QED
      BY <3>1
  <2> HIDE DEF s
  <2> QED
    BY <1>1, <2>1, SoundWrite
<1>4. Prefix(v) /\ Len(v.io.file) = Len(worker.io.file)
  BY BodyInPlace DEF Placed
<1>5. TotalPages(v) = TotalPages(worker)
  <2> HIDE DEF v
  <2> QED
    BY <1>1, <1>3, <1>4, SamePageCount
<1>6. \A m \in Granted :
        /\ ReadHeaderOf(v, m) = ReadHeaderOf(worker, m)
        /\ m # n => ReadBodyOf(v, m) = ReadBodyOf(worker, m)
  BY <1>1, <1>2, <1>4, GrantedPagesAreThere, BodyEffect
<1>7. worker' = v
  OBVIOUS
<1> HIDE DEF v
<1> QED
  BY <1>5, <1>6, <1>7, OnePartOrNone

\* No step changes more.
LEMMA OnePartStep ==
  ASSUME Orderly, StoreInv, PlaceInv, StoreInv', PlaceInv', [Next]_vars
  PROVE  OnePart
<1>1. Sound(worker) /\ Sound(worker') /\ Prefix(worker')
  BY DEF StoreInv, PlaceInv, Placed
<1>2. ASSUME Grown(worker, worker')
      PROVE  OnePart
  BY <1>1, <1>2, GrownKeepsGranted, OnePartOrNone
<1>3. ASSUME worker' = worker
      PROVE  OnePart
  BY <1>3, OnePartOrNone
<1>4. ASSUME NEW h \in FsHeaders, WriteFilesystemHeader(h)
      PROVE  OnePart
  <2>1. Granted = {}
    BY <1>4, HeaderSteps DEF Orderly, Granted
  <2> QED
    BY <2>1, OnePartOrNone
<1>5. ASSUME NEW n \in Addressable, NEW next \in Addressable,
             LinkPageForward(n, next)
      PROVE  OnePart
  <2> DEFINE old == ReadHeaderOf(worker, n)
             h == [old EXCEPT !.next = next]
  <2>1. worker' = WriteHeaderOf(worker, n, h)
    BY <1>5, HeaderSteps
  <2>2. old \in PageHeader
    BY PageHeaderCodec DEF ReadHeaderOf
  <2>3. h \in PageHeader
    BY <2>2, AddressesAreNumbers DEF PageHeader
  <2> HIDE DEF h
  <2> QED
    BY <2>1, <2>3, HeaderIsOnePart
<1>6. ASSUME NEW n \in Addressable, NEW h \in Headers, WritePageHeader(n, h)
      PROVE  OnePart
  <2>1. worker' = WriteHeaderOf(worker, n, h)
    BY <1>6, HeaderSteps
  <2>2. h \in PageHeader
    BY PageStoreAssumption
  <2> QED
    BY <2>1, <2>2, HeaderIsOnePart
<1>7. ASSUME NEW n \in Addressable,
             NEW offset \in 0 .. worker.header.page_size,
             NEW bytes \in Bytes, WritePage(n, offset, bytes)
      PROVE  OnePart
  <2> DEFINE size == worker.header.page_size
             fit == Fit(size, offset, bytes)
             s == SubSeq(bytes, 1, fit)
  <2>1. \/ worker' = worker
        \/ /\ ~ (offset >= size \/ bytes = <<>>)
           /\ worker' = WriteAt(worker, BodyPos(worker, n) + offset, s)
    BY <1>7, WriteStep DEF Fit
  <2>2. CASE /\ ~ (offset >= size \/ bytes = <<>>)
             /\ worker' = WriteAt(worker, BodyPos(worker, n) + offset, s)
    <3>1. size \in Nat
      BY <1>1, SoundFacts
    <3>2. offset \in Nat /\ offset < size
      BY <2>2, <3>1
    <3>3. /\ s \in Seq(PageCell) /\ s # <<>>
          /\ offset + fit <= size /\ Len(s) = fit
      BY <2>2, <3>1, <3>2, FittingPart
    <3>4. offset + Len(s) <= size
      BY <3>3
    <3> HIDE DEF s
    <3> QED
      BY <2>2, <3>2, <3>3, <3>4, BodyIsOnePart
  <2> QED
    BY <1>3, <2>1, <2>2
<1>8. CASE Restart
  BY <1>2, <1>8, Growth
<1>9. ASSUME NEW parent \in Neighbour,
             CreatePage(parent) \/ CrashInCreatePage(parent)
      PROVE  OnePart
  BY <1>2, <1>9, Growth
<1>10. CASE ReadFilesystemHeader
  BY <1>3, <1>10, ReadSteps
<1>11. ASSUME NEW n, ReadPageHeader(n)
       PROVE  OnePart
  BY <1>3, <1>11, ReadSteps
<1>12. ASSUME NEW n, NEW offset, NEW length, ReadPage(n, offset, length)
       PROVE  OnePart
  BY <1>3, <1>12, ReadSteps
<1>13. CASE UNCHANGED vars
  BY <1>3, <1>13 DEF vars
<1> QED
  BY <1>4, <1>5, <1>6, <1>7, <1>8, <1>9, <1>10, <1>11, <1>12, <1>13 DEF Next

\* A task, and a crash in the middle of one, changes at most one of the pages
\* that were given out, and of that page the header or the body (worker.rs:61-183).
THEOREM OnePartOfOnePage ==
  ASSUME Orderly
  PROVE  Spec => ChangesOnePartOfOnePage
<1>1. /\ StoreInv /\ PlaceInv
      /\ (StoreInv /\ PlaceInv)'
      /\ [Next]_vars
      => OnePart
  BY OnePartStep
<1>2. Spec => [](StoreInv /\ PlaceInv)
  BY PlaceInvariant
<1> QED
  BY <1>1, <1>2, PTL DEF Spec, ChangesOnePartOfOnePage, OnePart

=============================================================================
