------------------------ MODULE PythonReadersProofs ------------------------
(***************************************************************************)
(* The readers of fastpycsv, for all files, filters, batch sizes and       *)
(* numbers of threads: the row reader hands out the stream that            *)
(* reader.filter() promises; read_numpy() and read_numpy_batches() deal    *)
(* out the rows that pass, and give every column the type and the values   *)
(* that its cells call for.                                                *)
(***************************************************************************)
EXTENDS NumpyBatches, LazyRowReader, SequenceLemmas

-----------------------------------------------------------------------------
(* The ranges of rows that the workers get (fastpycsv_predicate.cpp).      *)
LEMMA MinOf ==
  ASSUME NEW a \in Nat, NEW b \in Nat
  PROVE  Min({a, b}) = IF a <= b THEN a ELSE b
<1> DEFINE m == IF a <= b THEN a ELSE b
           S == {a, b}
<1>1. m \in S /\ (\A y \in S : m <= y) /\ \A x \in S : (\A y \in S : x <= y) => x = m
  OBVIOUS
<1> HIDE DEF m, S
<1>2. Min(S) = m
  BY <1>1 DEF Min
<1> QED BY <1>2 DEF m, S

LEMMA QuotientPositive ==
  ASSUME NEW n \in Nat, NEW k \in Nat \ {0}, k <= n
  PROVE  n \div k \in Nat \ {0}
OBVIOUS

LEMMA WorkerCountType == ASSUME NEW n \in Nat PROVE WorkerCount(n) \in Nat
<1>1. CASE n < ParallelMinRows
  BY <1>1, PredicateAssumption DEF WorkerCount
<1>2. CASE n >= ParallelMinRows /\ HardwareThreads = 0
  BY <1>2, PredicateAssumption DEF WorkerCount
<1>3. CASE n >= ParallelMinRows /\ HardwareThreads > 0
  <2>1. n \div ParallelMinRows \in Nat
    BY <1>3, PredicateAssumption, QuotientPositive
  <2>2. WorkerCount(n) = Min({HardwareThreads, n \div ParallelMinRows})
    BY <1>3, PredicateAssumption DEF WorkerCount
  <2> QED BY <2>1, <2>2, MinOf, PredicateAssumption
<1> QED BY <1>1, <1>2, <1>3, PredicateAssumption

LEMMA ChunkCountType ==
  ASSUME NEW n \in Nat \ {0}
  PROVE  ChunkCount(n) \in Nat \ {0}
<1> DEFINE w == WorkerCount(n)
<1>1. w \in Nat
  BY WorkerCountType
<1>2. CASE w = 0
  BY <1>2 DEF ChunkCount
<1>3. CASE w # 0
  <2>1. ChunkCount(n) = Min({n, w * 4})
    BY <1>1, <1>3 DEF ChunkCount
  <2> QED BY <1>1, <1>3, <2>1, MinOf
<1> QED BY <1>2, <1>3

(* The last range ends with the last row, the first begins with the first, *)
(* and each begins where the one before it ends.                           *)
LEMMA RangesCover ==
  ASSUME NEW n \in Nat \ {0}, NEW i \in 1..n
  PROVE  \E chunk \in 1..ChunkCount(n) : i \in RowsOfChunk(n, chunk)
<1> DEFINE C == ChunkCount(n)
           End(c) == (n * c) \div C
           T == {c \in 0..C : i <= End(c)}
<1>1. C \in Nat \ {0}
  BY ChunkCountType
<1>2. End(0) = 0 /\ End(C) = n
  BY <1>1
<1>3. \A c \in 0..C : End(c) \in Int
  BY <1>1
<1> HIDE DEF C, End
<1>4. C \in T /\ T \subseteq Nat
  BY <1>1, <1>2
<1>5. PICK c \in T : \A k \in T : c <= k
  BY <1>4, LeastNumber
<1>6. c # 0
  BY <1>2, <1>5
<1>7. c - 1 \in 0..C /\ c - 1 \notin T
  BY <1>1, <1>5, <1>6
<1>8. End(c - 1) < i
  BY <1>3, <1>7
<1>9. c \in 1..C /\ i \in (End(c - 1) + 1)..End(c)
  BY <1>1, <1>3, <1>5, <1>6, <1>7, <1>8
<1> QED BY <1>9 DEF C, End, RowsOfChunk

(* So the workers together match the batch. *)
LEMMA MatchesAre ==
  ASSUME NEW p, NEW Row, NEW batch \in Seq(Row), NEW i \in 1..Len(batch)
  PROVE  Matches(p, batch)[i] <=> MatchesRow(p, batch[i])
<1>1. Len(batch) \in Nat \ {0} /\ DOMAIN batch = 1..Len(batch)
  BY LenProperties
<1>2. \E chunk \in 1..ChunkCount(Len(batch)) : i \in RowsOfChunk(Len(batch), chunk)
  BY <1>1, RangesCover
<1> QED BY <1>1, <1>2 DEF Matches

-----------------------------------------------------------------------------
(* The rows of a batch that pass. *)
InOrder(s) == \A j, k \in 1..Len(s) : j < k => s[j] < s[k]

Selected(s, keep, from, n) ==
    /\ s \in Seq(Nat) /\ InOrder(s)
    /\ \A k \in 1..Len(s) : \E i \in 1..n : keep[i] /\ s[k] = from + i
    /\ \A i \in 1..n : keep[i] => \E k \in 1..Len(s) : s[k] = from + i

LEMMA SelectedAppend ==
  ASSUME NEW s, NEW keep, NEW from \in Nat, NEW n \in Nat, Selected(s, keep, from, n), keep[n + 1]
  PROVE  Selected(Append(s, from + (n + 1)), keep, from, n + 1)
<1> DEFINE x == from + (n + 1)
           t == Append(s, x)
           l == Len(s)
<1>1. s \in Seq(Nat) /\ l \in Nat /\ x \in Nat
  BY LenProperties DEF Selected
<1>2. t \in Seq(Nat) /\ Len(t) = l + 1 /\ t[l + 1] = x /\ \A k \in 1..l : t[k] = s[k]
  BY <1>1, AppendProperties
<1>3. \A k \in 1..l : s[k] \in Nat /\ s[k] < x
  <2> SUFFICES ASSUME NEW k \in 1..l PROVE s[k] \in Nat /\ s[k] < x
    OBVIOUS
  <2>1. PICK i \in 1..n : s[k] = from + i
    BY DEF Selected
  <2> QED BY <2>1
<1> HIDE DEF t, l
<1>4. InOrder(t)
  <2> SUFFICES ASSUME NEW j \in 1..(l + 1), NEW k \in 1..(l + 1), j < k PROVE t[j] < t[k]
    BY <1>2 DEF InOrder
  <2>1. j \in 1..l /\ t[j] = s[j]
    BY <1>1, <1>2
  <2>2. CASE k = l + 1
    BY <1>2, <1>3, <2>1, <2>2
  <2>3. CASE k # l + 1
    <3>1. k \in 1..l /\ t[k] = s[k]
      BY <1>1, <1>2, <2>3
    <3>2. s[j] < s[k]
      BY <2>1, <3>1 DEF Selected, InOrder, l
    <3> QED BY <2>1, <3>1, <3>2
  <2> QED BY <2>2, <2>3
<1>5. ASSUME NEW k \in 1..Len(t) PROVE \E i \in 1..(n + 1) : keep[i] /\ t[k] = from + i
  <2>1. CASE k = l + 1
    <3>1. n + 1 \in 1..(n + 1) /\ keep[n + 1] /\ t[k] = from + (n + 1)
      BY <1>2, <2>1
    <3> QED BY <3>1
  <2>2. CASE k # l + 1
    <3>1. k \in 1..l /\ t[k] = s[k]
      BY <1>1, <1>2, <1>5, <2>2
    <3>2. PICK i \in 1..n : keep[i] /\ s[k] = from + i
      BY <3>1 DEF Selected, l
    <3> QED BY <3>1, <3>2
  <2> QED BY <2>1, <2>2
<1>6. ASSUME NEW i \in 1..(n + 1), keep[i] PROVE \E k \in 1..Len(t) : t[k] = from + i
  <2>1. CASE i = n + 1
    <3>1. l + 1 \in 1..Len(t) /\ t[l + 1] = from + i
      BY <1>1, <1>2, <2>1
    <3> QED BY <3>1
  <2>2. CASE i # n + 1
    <3>1. i \in 1..n
      BY <1>6, <2>2
    <3>2. PICK k \in 1..l : s[k] = from + i
      BY <1>6, <3>1 DEF Selected, l
    <3>3. k \in 1..Len(t) /\ t[k] = from + i
      BY <1>1, <1>2, <3>2
    <3> QED BY <3>3
  <2> QED BY <2>1, <2>2
<1>7. t \in Seq(Nat)
  BY <1>2
<1> HIDE DEF x
<1> QED BY <1>4, <1>5, <1>6, <1>7 DEF Selected, t, x

LEMMA SelectedSkip ==
  ASSUME NEW s, NEW keep, NEW from \in Nat, NEW n \in Nat, Selected(s, keep, from, n), ~keep[n + 1]
  PROVE  Selected(s, keep, from, n + 1)
<1>1. s \in Seq(Nat) /\ InOrder(s)
  BY DEF Selected
<1>2. ASSUME NEW k \in 1..Len(s) PROVE \E i \in 1..(n + 1) : keep[i] /\ s[k] = from + i
  <2>1. PICK i \in 1..n : keep[i] /\ s[k] = from + i
    BY DEF Selected
  <2> QED BY <2>1
<1>3. ASSUME NEW i \in 1..(n + 1), keep[i] PROVE \E k \in 1..Len(s) : s[k] = from + i
  <2>1. i \in 1..n
    BY <1>3
  <2> QED BY <1>3, <2>1 DEF Selected
<1> QED BY <1>1, <1>2, <1>3 DEF Selected

IsKept(f, keep, from, n) ==
    f = [i \in 0..n |-> IF i = 0 THEN <<>>
                        ELSE IF keep[i] THEN Append(f[i - 1], from + i) ELSE f[i - 1]]

LEMMA KeptExists ==
  ASSUME NEW keep, NEW from \in Nat, NEW n \in Nat
  PROVE  \E f : IsKept(f, keep, from, n)
<1> DEFINE A == Seq(Nat)
           step == [p \in A \X (1..n) |-> IF keep[p[2]] THEN Append(p[1], from + p[2]) ELSE p[1]]
<1>1. <<>> \in A
  OBVIOUS
<1>2. step \in [A \X (1..n) -> A]
  <2> SUFFICES ASSUME NEW p \in A \X (1..n)
               PROVE  (IF keep[p[2]] THEN Append(p[1], from + p[2]) ELSE p[1]) \in A
    OBVIOUS
  <2>1. p[1] \in A /\ from + p[2] \in Nat
    OBVIOUS
  <2>2. Append(p[1], from + p[2]) \in A
    BY <2>1, AppendProperties
  <2> QED BY <2>1, <2>2
<1>3. \A s \in A : \A i \in 1..n : step[<<s, i>>] = IF keep[i] THEN Append(s, from + i) ELSE s
  OBVIOUS
<1> HIDE DEF step, A
<1>4. PICK f \in [0..n -> A] : IsRecursive(f, <<>>, n, step)
  BY <1>1, <1>2, RecursionExists
<1>5. ASSUME NEW i \in 0..n
      PROVE  f[i] = IF i = 0 THEN <<>>
                    ELSE IF keep[i] THEN Append(f[i - 1], from + i) ELSE f[i - 1]
  <2>1. f[i] = IF i = 0 THEN <<>> ELSE step[<<f[i - 1], i>>]
    BY <1>4 DEF IsRecursive
  <2>2. i # 0 => i \in 1..n /\ f[i - 1] \in A
    BY <1>4
  <2> QED BY <1>3, <2>1, <2>2
<1>6. IsKept(f, keep, from, n)
  BY <1>4, <1>5 DEF IsKept
<1> QED BY <1>6

LEMMA KeptAreSelected ==
  ASSUME NEW keep, NEW from \in Nat, NEW n \in Nat, NEW f, IsKept(f, keep, from, n)
  PROVE  Selected(f[n], keep, from, n)
<1> DEFINE T == {m \in Nat : m <= n => Selected(f[m], keep, from, m)}
<1>1. 0 \in T
  <2>1. f[0] = <<>>
    BY DEF IsKept
  <2>2. Selected(<<>>, keep, from, 0)
    BY DEF Selected, InOrder
  <2> QED BY <2>1, <2>2
<1>2. ASSUME NEW m \in Nat, m \in T PROVE m + 1 \in T
  <2> SUFFICES ASSUME m + 1 <= n PROVE Selected(f[m + 1], keep, from, m + 1)
    OBVIOUS
  <2>1. Selected(f[m], keep, from, m)
    BY <1>2
  <2>2. m + 1 \in 0..n /\ m + 1 # 0 /\ (m + 1) - 1 = m
    BY <1>2
  <2>3. f[m + 1] = IF keep[m + 1] THEN Append(f[m], from + (m + 1)) ELSE f[m]
    BY <2>2 DEF IsKept
  <2>4. CASE keep[m + 1]
    BY <2>1, <2>3, <2>4, SelectedAppend
  <2>5. CASE ~keep[m + 1]
    BY <2>1, <2>3, <2>5, SelectedSkip
  <2> QED BY <2>4, <2>5
<1> HIDE DEF T
<1>3. Nat \subseteq T
  BY <1>1, <1>2, Induction
<1>4. n \in T
  BY <1>3
<1> QED BY <1>4 DEF T

-----------------------------------------------------------------------------
(* What read_filtered_chunk() keeps of the batch behind `from`: s holds the *)
(* rows from `from + 1` up to `upto` that pass, in order.                   *)
PassedRows(file, p, s, from, upto) ==
    /\ s \in Seq(Nat) /\ InOrder(s)
    /\ \A k \in 1..Len(s) : s[k] \in (from + 1)..upto /\ MatchesRow(p, file[s[k]])
    /\ \A i \in (from + 1)..upto :
          MatchesRow(p, file[i]) => \E k \in 1..Len(s) : s[k] = i

BatchEnd(from) == Min({from + size, Len(rows)})

IsFile(f) == f \in Seq({f[i] : i \in DOMAIN f})

LEMMA MatchesFromIs ==
  ASSUME NEW from, NEW f,
         IsKept(f, Matches(predicate, SubSeq(rows, from + 1, BatchEnd(from))), from,
                Len(SubSeq(rows, from + 1, BatchEnd(from))))
  PROVE  \E g : /\ IsKept(g, Matches(predicate, SubSeq(rows, from + 1, BatchEnd(from))), from,
                          Len(SubSeq(rows, from + 1, BatchEnd(from))))
                /\ MatchesFrom(from) = g[Len(SubSeq(rows, from + 1, BatchEnd(from)))]
BY Zenon DEF MatchesFrom, IsKept, BatchEnd

LEMMA MatchesFromPass ==
  ASSUME IsFile(rows), size \in Nat \ {0}, NEW from \in Nat, from < Len(rows)
  PROVE  /\ BatchEnd(from) = IF from + size <= Len(rows) THEN from + size ELSE Len(rows)
         /\ PassedRows(rows, predicate, MatchesFrom(from), from, BatchEnd(from))
<1> DEFINE Row == {rows[i] : i \in DOMAIN rows}
           upto == BatchEnd(from)
           batch == SubSeq(rows, from + 1, upto)
           n == Len(batch)
           keep == Matches(predicate, batch)
<1>1. rows \in Seq(Row) /\ Len(rows) \in Nat /\ \A i \in 1..Len(rows) : rows[i] \in Row
  BY LenProperties DEF IsFile
<1> HIDE DEF Row
<1>2. upto = IF from + size <= Len(rows) THEN from + size ELSE Len(rows)
  BY <1>1, MinOf DEF BatchEnd
<1>3. upto \in Nat /\ from < upto /\ upto <= Len(rows)
  BY <1>1, <1>2
<1> HIDE DEF upto
<1>4. /\ batch \in Seq(Row) /\ n = upto - from
      /\ \A i \in 1..n : batch[i] = rows[from + i]
  <2>1. from + 1 \in Int /\ upto \in Int /\ \A i \in (from + 1)..upto : rows[i] \in Row
    BY <1>1, <1>3
  <2>2. /\ batch \in Seq(Row)
        /\ Len(batch) = IF from + 1 <= upto THEN upto - (from + 1) + 1 ELSE 0
        /\ \A i \in 1..(upto - (from + 1) + 1) : batch[i] = rows[(from + 1) + i - 1]
    BY <1>1, <2>1, SubSeqProperties
  <2>3. n = upto - from /\ \A i \in 1..n : (from + 1) + i - 1 = from + i
    BY <1>3, <2>2
  <2>4. upto - (from + 1) + 1 = upto - from
    BY <1>3
  <2> QED BY <2>2, <2>3, <2>4
<1>5. \A i \in 1..n : keep[i] <=> MatchesRow(predicate, rows[from + i])
  <2> SUFFICES ASSUME NEW i \in 1..n PROVE keep[i] <=> MatchesRow(predicate, rows[from + i])
    OBVIOUS
  <2>1. keep[i] <=> MatchesRow(predicate, batch[i])
    BY <1>4, MatchesAre
  <2> QED BY <1>4, <2>1
<1>6. n \in Nat
  BY <1>3, <1>4
<1>7. PICK g : IsKept(g, keep, from, n) /\ MatchesFrom(from) = g[n]
  <2>1. PICK f : IsKept(f, keep, from, n)
    BY <1>6, KeptExists
  <2> QED BY ONLY <2>1, MatchesFromIs DEF upto
<1> HIDE DEF keep, batch, n
<1>8. Selected(MatchesFrom(from), keep, from, n)
  BY <1>6, <1>7, KeptAreSelected
<1> DEFINE s == MatchesFrom(from)
<1> HIDE DEF s
<1>9. s \in Seq(Nat) /\ InOrder(s)
  BY <1>8 DEF Selected, s
<1>10. ASSUME NEW k \in 1..Len(s)
       PROVE  s[k] \in (from + 1)..upto /\ MatchesRow(predicate, rows[s[k]])
  <2>1. PICK i \in 1..n : keep[i] /\ s[k] = from + i
    BY <1>8 DEF Selected, s
  <2>2. from + i \in (from + 1)..upto
    BY <1>3, <1>4, <1>6
  <2> QED BY <1>5, <2>1, <2>2
<1>11. ASSUME NEW i \in (from + 1)..upto, MatchesRow(predicate, rows[i])
       PROVE  \E k \in 1..Len(s) : s[k] = i
  <2>1. i - from \in 1..n /\ from + (i - from) = i
    BY <1>3, <1>4, <1>6
  <2>2. keep[i - from]
    BY <1>5, <1>11, <2>1
  <2> QED BY <1>8, <2>1, <2>2 DEF Selected, s
<1>12. PassedRows(rows, predicate, s, from, upto)
  BY <1>9, <1>10, <1>11 DEF PassedRows
<1> QED BY <1>2, <1>12 DEF s, upto

-----------------------------------------------------------------------------
(* Batches without a row that passes are passed over. *)
LEMMA NothingPassed ==
  ASSUME IsFile(rows), size \in Nat \ {0}, NEW from \in Nat, from < Len(rows),
         MatchesFrom(from) = <<>>
  PROVE  \A i \in (from + 1)..(from + size) : i <= Len(rows) => ~MatchesRow(predicate, rows[i])
<1>1. /\ BatchEnd(from) = IF from + size <= Len(rows) THEN from + size ELSE Len(rows)
      /\ PassedRows(rows, predicate, <<>>, from, BatchEnd(from))
  BY MatchesFromPass
<1>2. Len(rows) \in Nat
  BY LenProperties DEF IsFile
<1>3. \A i \in (from + 1)..BatchEnd(from) : ~MatchesRow(predicate, rows[i])
  BY <1>1 DEF PassedRows
<1> QED BY <1>1, <1>2, <1>3

LEMMA NothingInBatches ==
  ASSUME IsFile(rows), size \in Nat \ {0}, NEW start \in Nat, NEW n \in Nat,
         start + n * size < Len(rows),
         \A h \in 0..(n - 1) : MatchesFrom(start + h * size) = <<>>
  PROVE  \A i \in (start + 1)..(start + n * size) : ~MatchesRow(predicate, rows[i])
<1> DEFINE Behind(m) == start + m * size
           None(m) == \A i \in (start + 1)..Behind(m) : ~MatchesRow(predicate, rows[i])
           T == {m \in Nat : m <= n => None(m)}
<1>0. Len(rows) \in Nat
  BY LenProperties DEF IsFile
<1>1. \A m \in Nat : Behind(m) \in Nat /\ Behind(m + 1) = Behind(m) + size
  BY Z3
<1>2. Behind(0) = start
  OBVIOUS
<1>3. \A m \in 0..n : Behind(m) <= Behind(n)
  BY Z3
<1>4. Behind(n) < Len(rows)
  OBVIOUS
<1>5. \A h \in 0..(n - 1) : MatchesFrom(Behind(h)) = <<>>
  OBVIOUS
<1> HIDE DEF Behind
<1>6. 0 \in T
  BY <1>2
<1>7. ASSUME NEW m \in Nat, m \in T PROVE m + 1 \in T
  <2> SUFFICES ASSUME m + 1 <= n PROVE None(m + 1)
    OBVIOUS
  <2>1. None(m) /\ m \in 0..(n - 1) /\ m \in 0..n
    BY <1>7
  <2>2. Behind(m) \in Nat /\ Behind(m) < Len(rows) /\ Behind(m + 1) = Behind(m) + size
    <3>1. Behind(m) \in Nat /\ Behind(n) \in Nat /\ Behind(m + 1) = Behind(m) + size
      BY <1>1
    <3>2. Behind(m) <= Behind(n)
      BY <1>3, <2>1
    <3> QED BY <1>0, <1>4, <3>1, <3>2
  <2>3. MatchesFrom(Behind(m)) = <<>>
    BY <1>5, <2>1
  <2>4. \A i \in (Behind(m) + 1)..(Behind(m) + size) :
           i <= Len(rows) => ~MatchesRow(predicate, rows[i])
    BY <2>2, <2>3, NothingPassed
  <2>5. Behind(m + 1) <= Behind(n) /\ Behind(n) \in Nat
    BY <1>1, <1>3
  <2> QED BY <1>0, <1>4, <2>1, <2>2, <2>4, <2>5
<1> HIDE DEF T
<1>8. n \in T
  BY <1>6, <1>7, Induction
<1>9. None(n)
  BY <1>8 DEF T
<1> QED BY <1>9 DEF Behind

-----------------------------------------------------------------------------
(* The invariant: the rows read ahead are those that pass of a stretch that *)
(* ends where the reader stands and is not longer than a batch.            *)
Started == /\ rows \in Files /\ size \in BatchSizes /\ rows_read \in 0..Len(rows)
ReadAhead ==
    pending_rows # <<>> =>
        /\ predicate # {} /\ pending_rows[1] # 0
        /\ PassedRows(rows, predicate, pending_rows, pending_rows[1] - 1, rows_read)
        /\ rows_read - pending_rows[1] < size
Inv == Started /\ ReadAhead

LEMMA FileFacts ==
  ASSUME Started
  PROVE  /\ IsFile(rows) /\ size \in Nat \ {0} /\ Len(rows) \in Nat /\ rows_read \in Nat
         /\ rows_read <= Len(rows)
<1>1. IsFile(rows) /\ size \in Nat \ {0}
  BY ReaderAssumption DEF IsFile, Started
<1>2. Len(rows) \in Nat
  BY <1>1, LenProperties DEF IsFile
<1> QED BY <1>1, <1>2 DEF Started

(* After the first row of such a stretch is handed out, the rest is one.   *)
LEMMA RestPassed ==
  ASSUME NEW s, NEW from \in Nat, NEW upto \in Nat, PassedRows(rows, predicate, s, from, upto), s # <<>>
  PROVE  /\ Head(s) = s[1] /\ s[1] \in (from + 1)..upto
         /\ MatchesRow(predicate, rows[s[1]])
         /\ \A i \in (from + 1)..(s[1] - 1) : ~MatchesRow(predicate, rows[i])
         /\ Tail(s) = <<>> =>
               \A i \in (s[1] + 1)..upto : ~MatchesRow(predicate, rows[i])
         /\ Tail(s) # <<>> =>
               /\ Head(Tail(s)) = Tail(s)[1] /\ Tail(s)[1] \in (s[1] + 1)..upto
               /\ \A i \in (s[1] + 1)..(Tail(s)[1] - 1) : ~MatchesRow(predicate, rows[i])
               /\ PassedRows(rows, predicate, Tail(s), Tail(s)[1] - 1, upto)
<1> DEFINE l == Len(s)
           t == Tail(s)
<1>1. s \in Seq(Nat) /\ l \in Nat /\ l # 0 /\ Head(s) = s[1] /\ \A k \in 1..l : s[k] \in Nat
  BY LenProperties, EmptySeq, ElementOfSeq DEF PassedRows
<1>2. t \in Seq(Nat) /\ Len(t) = l - 1 /\ \A k \in 1..(l - 1) : t[k] = s[k + 1]
  BY <1>1, HeadTailProperties
<1>3. /\ \A j, k \in 1..l : j < k => s[j] < s[k]
      /\ \A k \in 1..l : s[k] \in (from + 1)..upto /\ MatchesRow(predicate, rows[s[k]])
      /\ \A i \in (from + 1)..upto :
             MatchesRow(predicate, rows[i]) => \E k \in 1..l : s[k] = i
  BY DEF PassedRows, InOrder
<1>4. t = <<>> <=> l = 1
  <2> HIDE DEF t, l
  <2>1. t = <<>> <=> Len(t) = 0
    BY ONLY <1>2, EmptySeq
  <2>2. Len(t) = l - 1 /\ l \in Nat
    BY ONLY <1>1, <1>2
  <2> QED BY ONLY <2>1, <2>2
<1>5. t # <<>> => Head(t) = t[1]
  BY <1>2, HeadTailProperties
<1> HIDE DEF t, l
<1>6. s[1] \in (from + 1)..upto /\ MatchesRow(predicate, rows[s[1]])
  <2>1. 1 \in 1..l
    BY <1>1
  <2> QED BY <1>3, <2>1
<1>7. \A k \in 1..l : s[1] <= s[k] /\ (k # 1 => s[1] < s[k])
  <2> SUFFICES ASSUME NEW k \in 1..l PROVE s[1] <= s[k] /\ (k # 1 => s[1] < s[k])
    OBVIOUS
  <2>1. 1 \in 1..l /\ s[1] \in Nat
    BY <1>1
  <2>2. k # 1 => 1 < k
    BY <1>1
  <2>3. k # 1 => s[1] < s[k]
    BY <1>3, <2>1, <2>2
  <2>4. s[k] \in Nat
    BY <1>1
  <2> QED BY <2>1, <2>3, <2>4
<1>8. ASSUME NEW i \in (from + 1)..upto, MatchesRow(predicate, rows[i])
      PROVE  s[1] <= i /\ (i # s[1] => \E k \in 1..(l - 1) : t[k] = i)
  <2>1. PICK k \in 1..l : s[k] = i
    BY <1>3, <1>8
  <2>2. i # s[1] => k - 1 \in 1..(l - 1) /\ t[k - 1] = i
    <3> SUFFICES ASSUME i # s[1] PROVE k - 1 \in 1..(l - 1) /\ t[k - 1] = i
      OBVIOUS
    <3>1. k # 1
      BY <2>1
    <3>2. k - 1 \in 1..(l - 1) /\ (k - 1) + 1 = k
      BY <1>1, <3>1
    <3> QED BY <1>2, <2>1, <3>2
  <2>3. s[1] <= i
    BY <1>7, <2>1
  <2> QED BY <2>2, <2>3
<1>9. ASSUME NEW i \in (from + 1)..(s[1] - 1) PROVE ~MatchesRow(predicate, rows[i])
  <2>1. i \in (from + 1)..upto /\ ~(s[1] <= i)
    BY <1>6
  <2> QED BY <1>8, <2>1
<1>10. ASSUME t = <<>>, NEW i \in (s[1] + 1)..upto PROVE ~MatchesRow(predicate, rows[i])
  <2>1. i \in (from + 1)..upto /\ i # s[1]
    BY <1>6
  <2>2. ~(\E k \in 1..(l - 1) : t[k] = i)
    BY <1>4, <1>10
  <2> QED BY <1>8, <2>1, <2>2
<1>11. ASSUME t # <<>>
       PROVE  /\ t[1] \in (s[1] + 1)..upto
              /\ \A i \in (s[1] + 1)..(t[1] - 1) : ~MatchesRow(predicate, rows[i])
              /\ PassedRows(rows, predicate, t, t[1] - 1, upto)
  <2>1. l - 1 \in Nat /\ l - 1 >= 1 /\ 2 \in 1..l /\ t[1] = s[2]
    BY <1>1, <1>2, <1>4, <1>11
  <2>2. t[1] \in (s[1] + 1)..upto
    BY <1>1, <1>3, <1>6, <1>7, <2>1
  <2>3. \A j, k \in 1..(l - 1) : j < k => t[j] < t[k]
    BY <1>1, <1>2, <1>3
  <2>4. ASSUME NEW k \in 1..(l - 1)
        PROVE  t[k] \in t[1]..upto /\ MatchesRow(predicate, rows[t[k]])
    <3>1. k + 1 \in 1..l /\ t[k] = s[k + 1]
      BY <1>1, <1>2
    <3>2. t[k] \in (from + 1)..upto /\ MatchesRow(predicate, rows[t[k]])
      BY <1>3, <3>1
    <3>3. t[1] <= t[k]
      <4>1. k # 1 => 1 < k /\ 1 \in 1..(l - 1)
        BY <2>1
      <4>2. k # 1 => t[1] < t[k]
        BY <2>3, <4>1
      <4>3. t[1] \in Int /\ t[k] \in Int
        BY <2>2, <3>2
      <4> QED BY <4>2, <4>3
    <3> QED BY <2>2, <3>2, <3>3
  <2>5. ASSUME NEW i \in (s[1] + 1)..upto, MatchesRow(predicate, rows[i])
        PROVE  t[1] <= i /\ \E k \in 1..(l - 1) : t[k] = i
    <3>1. i \in (from + 1)..upto /\ i # s[1]
      BY <1>6
    <3>2. PICK k \in 1..(l - 1) : t[k] = i
      BY <1>8, <2>5, <3>1
    <3>3. t[1] <= t[k]
      BY <2>4
    <3> QED BY <3>2, <3>3
  <2>6. \A i \in (s[1] + 1)..(t[1] - 1) : ~MatchesRow(predicate, rows[i])
    <3> SUFFICES ASSUME NEW i \in (s[1] + 1)..(t[1] - 1) PROVE ~MatchesRow(predicate, rows[i])
      OBVIOUS
    <3>1. i \in (s[1] + 1)..upto /\ ~(t[1] <= i)
      BY <1>6, <2>2
    <3> QED BY <2>5, <3>1
  <2>7. PassedRows(rows, predicate, t, t[1] - 1, upto)
    <3>1. t[1] \in Nat /\ (t[1] - 1) + 1 = t[1]
      BY <1>6, <2>2
    <3>2. \A i \in t[1]..upto :
             MatchesRow(predicate, rows[i]) => \E k \in 1..(l - 1) : t[k] = i
      BY <1>6, <2>2, <2>5
    <3> QED BY <1>2, <2>3, <2>4, <3>1, <3>2 DEF PassedRows, InOrder
  <2> QED BY <2>2, <2>6, <2>7
<1> QED BY <1>1, <1>5, <1>6, <1>9, <1>10, <1>11 DEF t

LEMMA InitInv == ReaderInit => Inv
<1> SUFFICES ASSUME ReaderInit PROVE Inv
  OBVIOUS
<1>1. rows \in Files /\ size \in BatchSizes /\ rows_read = 0 /\ pending_rows = <<>>
  BY DEF ReaderInit
<1>2. Len(rows) \in Nat
  BY <1>1, ReaderAssumption, LenProperties
<1> QED BY <1>1, <1>2 DEF Inv, Started, ReadAhead

(* The position of the stream: what comes before the first row read ahead   *)
(* has been dealt with.                                                     *)
DealtWith(ahead, pos) == IF ahead = <<>> THEN pos ELSE Head(ahead) - 1

LEMMA DealtWithFacts ==
  ASSUME Inv
  PROVE  /\ DealtWith(pending_rows, rows_read) \in 0..rows_read
         /\ rows_read - DealtWith(pending_rows, rows_read) <= size
<1>1. CASE pending_rows = <<>>
  BY <1>1, FileFacts DEF DealtWith, Inv
<1>2. CASE pending_rows # <<>>
  <2>1. /\ PassedRows(rows, predicate, pending_rows, pending_rows[1] - 1, rows_read)
        /\ rows_read - pending_rows[1] < size
    BY <1>2 DEF Inv, ReadAhead
  <2>2. Head(pending_rows) = pending_rows[1]
    BY <1>2
  <2>3. pending_rows[1] \in Nat /\ pending_rows[1] <= rows_read
    <3>1. /\ pending_rows \in Seq(Nat)
          /\ \A k \in 1..Len(pending_rows) : pending_rows[k] \in (pending_rows[1] - 1 + 1)..rows_read
      BY <2>1 DEF PassedRows
    <3>2. 1 \in 1..Len(pending_rows)
      BY <1>2, <3>1, EmptySeq
    <3>3. pending_rows[1] \in Nat
      BY <3>1, <3>2, ElementOfSeq
    <3> QED BY <3>1, <3>2, <3>3, FileFacts DEF Inv
  <2>4. size \in Nat /\ rows_read \in Nat
    BY FileFacts DEF Inv
  <2>5. DealtWith(pending_rows, rows_read) = pending_rows[1] - 1
    BY <1>2, <2>2 DEF DealtWith
  <2>6. rows_read - pending_rows[1] < size /\ pending_rows[1] # 0
    BY <1>2, <2>1 DEF Inv, ReadAhead
  <2> DEFINE first == pending_rows[1]
  <2> HIDE DEF first
  <2>7. first \in Nat /\ first # 0 /\ first <= rows_read /\ rows_read - first < size
    BY <2>3, <2>6 DEF first
  <2>8. first - 1 \in 0..rows_read /\ rows_read - (first - 1) <= size
    BY ONLY <2>4, <2>7
  <2> QED BY <2>5, <2>8 DEF first
<1> QED BY <1>1, <1>2

(* The rows handed out between two steps; what every way to end a call has  *)
(* to do with the invariant.                                                *)
LEMMA SetFilterStep ==
  ASSUME Inv, NEW p, NEW append, SetFilter(p, append)
  PROVE  Inv' /\ Stream!SetFilter
<1>1. /\ pending_rows' = <<>> /\ answer' = "none" /\ rows' = rows /\ size' = size
      /\ rows_read' = rows_read /\ delivered' = delivered
  BY DEF SetFilter
<1>2. Inv'
  BY <1>1 DEF Inv, Started, ReadAhead
<1>3. Stream!SetFilter
  <2> DEFINE old == DealtWith(pending_rows, rows_read)
  <2>1. old \in 0..rows_read /\ rows_read - old <= size
    BY DealtWithFacts
  <2>2. rows_read \in Nat /\ rows_read <= Len(rows) /\ Len(rows) \in Nat
    BY FileFacts DEF Inv
  <2> HIDE DEF old
  <2>3. rows_read \in old..Len(rows) /\ rows_read - old <= size
    BY <2>1, <2>2
  <2>4. /\ (IF pending_rows = <<>> THEN rows_read ELSE Head(pending_rows) - 1) = old
        /\ (IF pending_rows' = <<>> THEN rows_read' ELSE Head(pending_rows') - 1) = rows_read
    BY <1>1 DEF old, DealtWith
  <2> QED BY <1>1, <2>3, <2>4 DEF Stream!SetFilter
<1> QED BY <1>2, <1>3

LEMMA ReadRowStep ==
  ASSUME Inv, ReadRow
  PROVE  Inv' /\ Stream!Deliver
<1>1. /\ predicate = {} /\ rows_read < Len(rows) /\ rows_read' = rows_read + 1
      /\ delivered' = Append(delivered, rows_read + 1) /\ answer' = "row"
      /\ rows' = rows /\ size' = size /\ predicate' = predicate /\ pending_rows' = pending_rows
  BY DEF ReadRow, HandOut
<1>2. pending_rows = <<>>
  BY <1>1 DEF Inv, ReadAhead
<1>3. rows_read \in Nat /\ Len(rows) \in Nat
  BY FileFacts DEF Inv
<1>4. Inv'
  BY <1>1, <1>2, <1>3 DEF Inv, Started, ReadAhead
<1>5. Stream!Deliver
  <2>1. MatchesRow(predicate, rows[rows_read + 1])
    BY <1>1 DEF MatchesRow
  <2>2. rows_read + 1 \in (rows_read + 1)..Len(rows) /\ rows_read + 1 \in (rows_read + 1)..Len(rows)
    BY <1>1, <1>3
  <2>3. /\ Stream!NoneIn(rows_read + 1, (rows_read + 1) - 1)
        /\ Stream!NoneIn((rows_read + 1) + 1, rows_read + 1)
    BY <1>3 DEF Stream!NoneIn
  <2> QED BY <1>1, <1>2, <2>1, <2>2, <2>3 DEF Stream!Deliver
<1> QED BY <1>4, <1>5

(* A row is handed out of the rows s that were read ahead, and the stretch  *)
(* between where the stream stands and the first of them holds none.       *)
LEMMA HandOutStep ==
  ASSUME Inv, NEW s, NEW from \in Nat, NEW upto \in Nat,
         PassedRows(rows, predicate, s, from, upto), s # <<>>,
         upto <= Len(rows), upto - from <= size, predicate # {},
         DealtWith(pending_rows, rows_read) \in Nat,
         DealtWith(pending_rows, rows_read) <= from,
         \A i \in (DealtWith(pending_rows, rows_read) + 1)..from : ~MatchesRow(predicate, rows[i]),
         delivered' = Append(delivered, Head(s)), answer' = "row", pending_rows' = Tail(s),
         rows_read' = upto, UNCHANGED <<rows, size, predicate>>
  PROVE  Inv' /\ Stream!Deliver
<1> DEFINE old == DealtWith(pending_rows, rows_read)
           i == s[1]
           t == Tail(s)
<1>1. /\ Head(s) = i /\ i \in (from + 1)..upto /\ MatchesRow(predicate, rows[i])
      /\ \A j \in (from + 1)..(i - 1) : ~MatchesRow(predicate, rows[j])
      /\ t = <<>> => \A j \in (i + 1)..upto : ~MatchesRow(predicate, rows[j])
      /\ t # <<>> =>
            /\ Head(t) = t[1] /\ t[1] \in (i + 1)..upto
            /\ \A j \in (i + 1)..(t[1] - 1) : ~MatchesRow(predicate, rows[j])
            /\ PassedRows(rows, predicate, t, t[1] - 1, upto)
  BY RestPassed
<1>2. /\ Len(rows) \in Nat /\ rows \in Files /\ size \in BatchSizes /\ size \in Nat
  BY FileFacts DEF Inv, Started
<1>3. old \in Nat /\ old <= from /\ \A j \in (old + 1)..from : ~MatchesRow(predicate, rows[j])
  OBVIOUS
<1> HIDE DEF old, i, t
<1>4. Inv'
  <2>1. Started'
    BY <1>2 DEF Started
  <2>2. ASSUME t # <<>>
        PROVE  PassedRows(rows, predicate, t, t[1] - 1, upto) /\ upto - t[1] < size /\ t[1] # 0
    BY <1>1, <1>2, <2>2
  <2>3. ReadAhead'
    BY <2>2 DEF ReadAhead, t
  <2> QED BY <2>1, <2>3 DEF Inv
<1>5. Stream!Deliver
  <2> DEFINE new == DealtWith(t, upto)
  <2>1. new \in i..upto /\ \A j \in (i + 1)..new : ~MatchesRow(predicate, rows[j])
    <3>1. CASE t = <<>>
      BY <1>1, <3>1 DEF DealtWith
    <3>2. CASE t # <<>>
      <4>1. new = t[1] - 1
        BY <1>1, <3>2 DEF DealtWith
      <4> HIDE DEF new
      <4> QED BY <1>1, <3>2, <4>1
    <3> QED BY <3>1, <3>2
  <2>2. /\ (IF pending_rows = <<>> THEN rows_read ELSE Head(pending_rows) - 1) = old
        /\ (IF pending_rows' = <<>> THEN rows_read' ELSE Head(pending_rows') - 1) = new
    BY DEF old, DealtWith, t
  <2> HIDE DEF new
  <2>3. i \in (old + 1)..Len(rows) /\ new \in i..Len(rows)
    BY <1>1, <1>2, <1>3, <2>1
  <2>4. Stream!NoneIn(old + 1, i - 1)
    <3> SUFFICES ASSUME NEW j \in (old + 1)..(i - 1) PROVE ~MatchesRow(predicate, rows[j])
      BY DEF Stream!NoneIn
    <3>1. CASE j <= from
      BY <1>3, <3>1
    <3>2. CASE ~(j <= from)
      <4>1. j \in (from + 1)..(i - 1)
        BY <1>1, <1>3, <3>2
      <4> QED BY <1>1, <4>1
    <3> QED BY <3>1, <3>2
  <2>5. Stream!NoneIn(i + 1, new)
    BY <2>1 DEF Stream!NoneIn
  <2>6. delivered' = Append(delivered, i)
    BY <1>1
  <2> QED BY <1>1, <2>2, <2>3, <2>4, <2>5, <2>6 DEF Stream!Deliver
<1> QED BY <1>4, <1>5

LEMMA TakePendingStep ==
  ASSUME Inv, TakePending
  PROVE  Inv' /\ Stream!Deliver
<1> DEFINE s == pending_rows
           from == s[1] - 1
<1>1. /\ predicate # {} /\ s # <<>> /\ delivered' = Append(delivered, Head(s)) /\ answer' = "row"
      /\ pending_rows' = Tail(s) /\ rows_read' = rows_read /\ UNCHANGED <<rows, size, predicate>>
  BY DEF TakePending, HandOut
<1>2. PassedRows(rows, predicate, s, from, rows_read) /\ rows_read - s[1] < size
  BY <1>1 DEF Inv, ReadAhead
<1>3. DealtWith(pending_rows, rows_read) = from
  BY <1>1 DEF DealtWith
<1>4. DealtWith(pending_rows, rows_read) \in 0..rows_read
  BY DealtWithFacts
<1>5. size \in Nat /\ rows_read \in Nat /\ rows_read <= Len(rows)
  BY FileFacts DEF Inv
<1>6. from \in Nat /\ from <= from
  BY <1>3, <1>4
<1>7. s[1] \in Int
  <2>1. s \in Seq(Nat)
    BY <1>2 DEF PassedRows
  <2>2. 1 \in 1..Len(s)
    BY <1>1, <2>1, EmptySeq
  <2> QED BY <2>1, <2>2, ElementOfSeq
<1>8. rows_read - from <= size
  BY <1>2, <1>5, <1>7
<1>9. \A i \in (from + 1)..from : ~MatchesRow(predicate, rows[i])
  BY <1>6
<1> HIDE DEF s, from
<1> QED BY <1>1, <1>2, <1>3, <1>5, <1>6, <1>8, <1>9, HandOutStep

LEMMA ReadChunkStep ==
  ASSUME Inv, ReadFilteredChunk
  PROVE  Inv' /\ Stream!Deliver
<1>1. PICK n \in 0..Len(rows) :
         /\ rows_read + n * size < Len(rows) /\ MatchesFrom(rows_read + n * size) # <<>>
         /\ \A h \in 0..(n - 1) : MatchesFrom(rows_read + h * size) = <<>>
         /\ HandOut(Head(MatchesFrom(rows_read + n * size)))
         /\ pending_rows' = Tail(MatchesFrom(rows_read + n * size))
         /\ rows_read' = Min({(rows_read + n * size) + size, Len(rows)})
  BY DEF ReadFilteredChunk
<1>2. /\ predicate # {} /\ pending_rows = <<>> /\ UNCHANGED <<rows, size, predicate>>
  BY DEF ReadFilteredChunk
<1>3. /\ IsFile(rows) /\ size \in Nat \ {0} /\ Len(rows) \in Nat /\ rows_read \in Nat
  BY FileFacts DEF Inv
<1>4. n \in Nat /\ n * size \in Nat
  BY <1>3
<1> DEFINE from == rows_read + n * size
           s == MatchesFrom(from)
           upto == BatchEnd(from)
<1>5. from \in Nat /\ rows_read <= from /\ from < Len(rows)
  BY <1>1, <1>3, <1>4
<1>6. \A i \in (rows_read + 1)..from : ~MatchesRow(predicate, rows[i])
  BY <1>1, <1>3, <1>4, NothingInBatches
<1>7. /\ delivered' = Append(delivered, Head(s)) /\ answer' = "row" /\ s # <<>>
      /\ pending_rows' = Tail(s) /\ rows_read' = upto
  BY <1>1 DEF HandOut, BatchEnd
<1> HIDE DEF from
<1>8. /\ upto = IF from + size <= Len(rows) THEN from + size ELSE Len(rows)
      /\ PassedRows(rows, predicate, s, from, upto)
  BY <1>3, <1>5, MatchesFromPass
<1> HIDE DEF s, upto
<1>9. upto \in Nat /\ upto <= Len(rows) /\ upto - from <= size
  BY <1>3, <1>5, <1>8
<1>10. DealtWith(pending_rows, rows_read) = rows_read
  BY <1>2 DEF DealtWith
<1> QED BY <1>2, <1>3, <1>5, <1>6, <1>7, <1>8, <1>9, <1>10, HandOutStep

LEMMA NoMoreRowsStep ==
  ASSUME Inv, NoMoreRows
  PROVE  Inv' /\ Stream!End
<1>1. /\ rows_read' = Len(rows) /\ answer' = "end" /\ pending_rows' = pending_rows
      /\ UNCHANGED <<rows, size, predicate, delivered>>
  BY DEF NoMoreRows
<1>2. Len(rows) \in Nat /\ rows_read \in Nat /\ rows_read <= Len(rows)
  BY FileFacts DEF Inv
<1>3. /\ pending_rows = <<>>
      /\ \A i \in (rows_read + 1)..Len(rows) : ~MatchesRow(predicate, rows[i])
  <2>1. CASE predicate = {}
    BY <1>2, <2>1 DEF NoMoreRows, Inv, ReadAhead
  <2>2. CASE predicate # {}
    BY <2>2 DEF NoMoreRows
  <2> QED BY <2>1, <2>2
<1>4. Inv'
  BY <1>1, <1>2, <1>3 DEF Inv, Started, ReadAhead
<1>5. Stream!NoneIn(rows_read + 1, Len(rows))
  BY <1>3 DEF Stream!NoneIn
<1>6. Stream!End
  BY <1>1, <1>3, <1>5 DEF Stream!End
<1> QED BY <1>4, <1>6

LEMMA ReaderStep == Inv /\ [ReaderNext]_readerVars
                      => Inv' /\ [Stream!Next]_(Stream!streamVars)
<1> SUFFICES ASSUME Inv, [ReaderNext]_readerVars
             PROVE  Inv' /\ [Stream!Next]_(Stream!streamVars)
  OBVIOUS
<1>1. CASE \E p \in Filters, append \in BOOLEAN : SetFilter(p, append)
  BY <1>1, SetFilterStep DEF Stream!Next
<1>2. CASE ReadRow
  BY <1>2, ReadRowStep DEF Stream!Next
<1>3. CASE TakePending
  BY <1>3, TakePendingStep DEF Stream!Next
<1>4. CASE ReadFilteredChunk
  BY <1>4, ReadChunkStep DEF Stream!Next
<1>5. CASE NoMoreRows
  BY <1>5, NoMoreRowsStep DEF Stream!Next
<1>6. CASE UNCHANGED readerVars
  <2>1. Inv'
    BY <1>6 DEF readerVars, Inv, Started, ReadAhead
  <2>2. UNCHANGED Stream!streamVars
    BY <1>6 DEF readerVars, Stream!streamVars
  <2> QED BY <2>1, <2>2
<1> QED BY <1>1, <1>2, <1>3, <1>4, <1>5, <1>6 DEF ReaderNext

(* However many rows are read ahead, filtered on however many threads, and  *)
(* whenever the filter is changed, rows come out as reader.filter()         *)
(* promises: in order, none twice, none that the filter rejects, none       *)
(* missing but those a new filter found read ahead, and "no more" only when *)
(* none is left (LazyCSVRowReader::read_next_row, read_filtered_chunk).     *)
THEOREM ReaderImplementsFilter == ReaderSpec => FilteredStream
<1>1. ReaderInit => Inv /\ Stream!Init
  <2>1. ReaderInit => Stream!Init
    BY DEF ReaderInit, Stream!Init
  <2> QED BY <2>1, InitInv
<1>2. Inv /\ [ReaderNext]_readerVars => Inv' /\ [Stream!Next]_(Stream!streamVars)
  BY ReaderStep
<1> QED BY <1>1, <1>2, PTL DEF ReaderSpec, FilteredStream, Stream!Spec

-----------------------------------------------------------------------------
(* The buffer of a column (NumpyColumnBuffer), and what each way to append *)
(* a cell makes of it.                                                     *)
Buf(k, u, l, f, s, r) ==
    [kind |-> k, nullable |-> u, list |-> l, floats |-> f, seen |-> s, replay |-> r]

Storage(k, u) ==
    IF k = "STRING" \/ (k \in {"INT64", "BOOL"} /\ ~u) THEN k ELSE "FLOAT64"

Number(cell) == IF cell.kind = "FLOAT64" THEN <<"FLOAT64", cell.value>> ELSE AsDouble(cell.value)

Doubles(l) == [i \in DOMAIN l |-> AsDouble(l[i][2])]
Promoted(l, f) == IF f THEN l ELSE Doubles(l)

(* Values of the flags, by name: the provers take TRUE for a formula. *)
Yes == TRUE
No == FALSE

(* One member assigned; several are assigned one after the other. *)
LEMMA SetKind ==
  ASSUME NEW k, NEW u, NEW l, NEW f, NEW s, NEW r, NEW x
  PROVE  [Buf(k, u, l, f, s, r) EXCEPT !.kind = x] = Buf(x, u, l, f, s, r)
BY DEF Buf

LEMMA SetNullable ==
  ASSUME NEW k, NEW u, NEW l, NEW f, NEW s, NEW r, NEW x
  PROVE  [Buf(k, u, l, f, s, r) EXCEPT !.nullable = x] = Buf(k, x, l, f, s, r)
BY DEF Buf

LEMMA SetList ==
  ASSUME NEW k, NEW u, NEW l, NEW f, NEW s, NEW r, NEW x
  PROVE  [Buf(k, u, l, f, s, r) EXCEPT !.list = x] = Buf(k, u, x, f, s, r)
BY DEF Buf

LEMMA SetFloats ==
  ASSUME NEW k, NEW u, NEW l, NEW f, NEW s, NEW r, NEW x
  PROVE  [Buf(k, u, l, f, s, r) EXCEPT !.floats = x] = Buf(k, u, l, x, s, r)
BY DEF Buf

LEMMA SetSeen ==
  ASSUME NEW k, NEW u, NEW l, NEW f, NEW s, NEW r, NEW x
  PROVE  [Buf(k, u, l, f, s, r) EXCEPT !.seen = x] = Buf(k, u, l, f, x, r)
BY DEF Buf

LEMMA SetReplay ==
  ASSUME NEW k, NEW u, NEW l, NEW f, NEW s, NEW r, NEW x
  PROVE  [Buf(k, u, l, f, s, r) EXCEPT !.replay = x] = Buf(k, u, l, f, s, x)
BY DEF Buf

LEMMA BufferIs ==
  ASSUME NEW plan
  PROVE  Buffer(plan) = Buf(plan.kind, plan.nullable, <<>>, No, 0, No)
BY DEF Buffer, Buf, No

LEMMA PushIs ==
  ASSUME NEW k, NEW u, NEW l, NEW f, NEW s, NEW r, NEW v
  PROVE  Push(Buf(k, u, l, f, s, r), v) = Buf(k, u, Append(l, v), f, s + 1, r)
<1> DEFINE b == Buf(k, u, l, f, s, r)
           t == Append(l, v)
           n == s + 1
<1>1. b.list = l /\ b.seen = s
  BY DEF Buf
<1> HIDE DEF b
<1>2. Push(b, v) = [[b EXCEPT !.list = Append(b.list, v)] EXCEPT !.seen = b.seen + 1]
  BY DEF Push
<1>3. Append(b.list, v) = t /\ b.seen + 1 = n
  BY <1>1
<1> HIDE DEF t, n
<1>4. Push(b, v) = [[b EXCEPT !.list = t] EXCEPT !.seen = n]
  BY <1>2, <1>3
<1>5. [b EXCEPT !.list = t] = Buf(k, u, t, f, s, r)
  BY SetList DEF b
<1>6. [Buf(k, u, t, f, s, r) EXCEPT !.seen = n] = Buf(k, u, t, f, n, r)
  BY SetSeen
<1>7. Push(b, v) = Buf(k, u, t, f, n, r)
  BY <1>4, <1>5, <1>6
<1> QED BY <1>7, Zenon DEF b, t, n

LEMMA StorageIs ==
  ASSUME NEW k, NEW u, NEW l, NEW f, NEW s, NEW r
  PROVE  StorageKind(Buf(k, u, l, f, s, r)) = Storage(k, u)
BY Zenon DEF StorageKind, Storage, Buf

LEMMA AppendFloatIs ==
  ASSUME NEW k, NEW u, NEW l, NEW f, NEW s, NEW r, NEW cell
  PROVE  AppendFloat(Buf(k, u, l, f, s, r), cell) = Buf(k, u, Append(l, Number(cell)), Yes, s + 1, r)
<1>1. [Buf(k, u, l, f, s, r) EXCEPT !.floats = Yes] = Buf(k, u, l, Yes, s, r)
  BY SetFloats
<1>2. AppendFloat(Buf(k, u, l, f, s, r), cell)
        = Push([Buf(k, u, l, f, s, r) EXCEPT !.floats = Yes], Number(cell))
  BY Zenon DEF AppendFloat, Number, Yes
<1>3. AppendFloat(Buf(k, u, l, f, s, r), cell) = Buf(k, u, Append(l, Number(cell)), Yes, s + 1, r)
  BY <1>1, <1>2, PushIs
<1> QED BY <1>3

LEMMA PromoteIs ==
  ASSUME NEW k, NEW u, NEW l, NEW f \in BOOLEAN, NEW s, NEW r
  PROVE  PromoteToFloat(Buf(k, u, l, f, s, r)) = Buf(k, u, Promoted(l, f), Yes, s, r)
<1> DEFINE b == Buf(k, u, l, f, s, r)
<1>1. b.floats = f /\ b.list = l
  BY DEF Buf
<1>2. CASE f = Yes
  <2>1. PromoteToFloat(b) = b
    BY <1>1, <1>2, Zenon DEF PromoteToFloat, Yes
  <2>2. Promoted(l, f) = l
    BY <1>2 DEF Promoted, Yes
  <2> QED BY <1>2, <2>1, <2>2
<1>3. CASE f = No
  <2> DEFINE d == Doubles(l)
  <2>1. d = [i \in DOMAIN b.list |-> AsDouble(b.list[i][2])]
    BY <1>1 DEF Doubles
  <2>2. PromoteToFloat(b)
          = [[b EXCEPT !.floats = Yes] EXCEPT !.list = [i \in DOMAIN b.list |-> AsDouble(b.list[i][2])]]
    <3>1. ~b.floats
      BY <1>1, <1>3 DEF No
    <3> HIDE DEF b
    <3>2. PromoteToFloat(b)
            = [b EXCEPT !.floats = Yes, !.list = [i \in DOMAIN b.list |-> AsDouble(b.list[i][2])]]
      BY <3>1, Zenon DEF PromoteToFloat, Yes
    <3> DEFINE e == [i \in DOMAIN b.list |-> AsDouble(b.list[i][2])]
    <3> HIDE DEF e
    <3>3. [b EXCEPT !.floats = Yes, !.list = e] = [[b EXCEPT !.floats = Yes] EXCEPT !.list = e]
      OBVIOUS
    <3> QED BY <3>2, <3>3 DEF e
  <2> HIDE DEF d
  <2>3. [b EXCEPT !.floats = Yes] = Buf(k, u, l, Yes, s, r)
    BY SetFloats
  <2>4. [Buf(k, u, l, Yes, s, r) EXCEPT !.list = d] = Buf(k, u, d, Yes, s, r)
    BY SetList
  <2> HIDE DEF b
  <2>5. PromoteToFloat(b) = Buf(k, u, d, Yes, s, r)
    BY <2>1, <2>2, <2>3, <2>4
  <2>6. Promoted(l, f) = d
    BY <1>3 DEF Promoted, d, No
  <2> QED BY <2>5, <2>6 DEF b
<1> QED BY <1>2, <1>3 DEF Yes, No

LEMMA ReplayIs ==
  ASSUME NEW k, NEW u, NEW l, NEW f, NEW s, NEW r
  PROVE  RequestStringReplay(Buf(k, u, l, f, s, r)) = Buf("STRING", No, <<>>, No, s + 1, Yes)
<1> DEFINE b == Buf(k, u, l, f, s, r)
           n == s + 1
           text == "STRING"
           none == <<>>
<1>1. b.seen + 1 = n
  BY DEF Buf
<1> HIDE DEF b, n, text, none
<1>2. RequestStringReplay(b) =
        [b EXCEPT !.kind = text, !.nullable = No, !.replay = Yes, !.floats = No,
                  !.list = none, !.seen = b.seen + 1]
  BY Zenon DEF RequestStringReplay, Yes, No, text, none
<1>3. [b EXCEPT !.kind = text, !.nullable = No, !.replay = Yes, !.floats = No,
                !.list = none, !.seen = n]
        = [[[[[[b EXCEPT !.kind = text] EXCEPT !.nullable = No] EXCEPT !.replay = Yes]
              EXCEPT !.floats = No] EXCEPT !.list = none] EXCEPT !.seen = n]
  OBVIOUS
<1>4. [b EXCEPT !.kind = text] = Buf(text, u, l, f, s, r)
  BY SetKind DEF b
<1>5. [Buf(text, u, l, f, s, r) EXCEPT !.nullable = No] = Buf(text, No, l, f, s, r)
  BY SetNullable
<1>6. [Buf(text, No, l, f, s, r) EXCEPT !.replay = Yes] = Buf(text, No, l, f, s, Yes)
  BY SetReplay
<1>7. [Buf(text, No, l, f, s, Yes) EXCEPT !.floats = No] = Buf(text, No, l, No, s, Yes)
  BY SetFloats
<1>8. [Buf(text, No, l, No, s, Yes) EXCEPT !.list = none] = Buf(text, No, none, No, s, Yes)
  BY SetList
<1>9. [Buf(text, No, none, No, s, Yes) EXCEPT !.seen = n] = Buf(text, No, none, No, n, Yes)
  BY SetSeen
<1>10. [[[b EXCEPT !.kind = text] EXCEPT !.nullable = No] EXCEPT !.replay = Yes]
         = Buf(text, No, l, f, s, Yes)
  BY <1>4, <1>5, <1>6
<1>11. RequestStringReplay(b)
         = [[[Buf(text, No, l, f, s, Yes) EXCEPT !.floats = No] EXCEPT !.list = none] EXCEPT !.seen = n]
  BY <1>1, <1>2, <1>3, <1>10
<1>12. RequestStringReplay(b) = Buf(text, No, none, No, n, Yes)
  BY <1>7, <1>8, <1>9, <1>11
<1> QED BY <1>12, Zenon DEF b, n, text, none

LEMMA AppendNullIs ==
  ASSUME NEW k, NEW u, NEW l, NEW f \in BOOLEAN, NEW s, NEW r
  PROVE  AppendNull(Buf(k, u, l, f, s, r)) =
            IF k = "UNKNOWN" THEN Buf(k, Yes, l, f, s + 1, r)
            ELSE Buf(k, Yes, Append(Promoted(l, f), NaN), Yes, s + 1, r)
<1> DEFINE b == Buf(k, u, l, f, s, r)
           nb == Buf(k, Yes, l, f, s, r)
           n == s + 1
           t == Append(Promoted(l, f), NaN)
<1>0. b.kind = k /\ nb.seen + 1 = n
  BY DEF Buf
<1>1. [b EXCEPT !.nullable = Yes] = nb
  BY SetNullable
<1> HIDE DEF n
<1>2. [nb EXCEPT !.seen = n] = Buf(k, Yes, l, f, n, r)
  BY SetSeen
<1>3. Push(PromoteToFloat(nb), NaN) = Buf(k, Yes, t, Yes, s + 1, r)
  <2>1. PromoteToFloat(nb) = Buf(k, Yes, Promoted(l, f), Yes, s, r)
    BY PromoteIs
  <2>2. Push(Buf(k, Yes, Promoted(l, f), Yes, s, r), NaN) = Buf(k, Yes, t, Yes, s + 1, r)
    BY PushIs
  <2> QED BY <2>1, <2>2, Zenon
<1> HIDE DEF b, nb, t
<1>4. AppendNull(b) =
        IF b.kind = "UNKNOWN"
        THEN [[b EXCEPT !.nullable = Yes] EXCEPT !.seen = [b EXCEPT !.nullable = Yes].seen + 1]
        ELSE Push(PromoteToFloat([b EXCEPT !.nullable = Yes]), NaN)
  BY Zenon DEF AppendNull, Yes
<1>5. AppendNull(b) = IF k = "UNKNOWN" THEN [nb EXCEPT !.seen = n] ELSE Push(PromoteToFloat(nb), NaN)
  BY <1>0, <1>1, <1>4
<1>6. AppendNull(b) = IF k = "UNKNOWN" THEN Buf(k, Yes, l, f, n, r) ELSE Buf(k, Yes, t, Yes, s + 1, r)
  BY <1>2, <1>3, <1>5, Zenon
<1> QED BY <1>6, Zenon DEF b, n, t

LEMMA AppendStringishIs ==
  ASSUME NEW k, NEW u, NEW l, NEW f, NEW s, NEW r, NEW cell
  PROVE  AppendStringish(Buf(k, u, l, f, s, r), cell) =
            IF k = "UNKNOWN"
            THEN Buf("STRING", u, Append(Repeated(NoText, s), Text(cell)), f, s + 1, r)
            ELSE Buf("STRING", No, <<>>, No, s + 1, Yes)
<1> DEFINE b == Buf(k, u, l, f, s, r)
           e == Repeated(NoText, s)
           text == "STRING"
           new == Buf(text, u, e, f, s, r)
<1>1. b.kind = k /\ Repeated(NoText, b.seen) = e
  BY DEF Buf
<1>2. RequestStringReplay(b) = Buf("STRING", No, <<>>, No, s + 1, Yes)
  BY ReplayIs
<1> HIDE DEF e, text
<1>3. [b EXCEPT !.kind = text] = Buf(text, u, l, f, s, r)
  BY SetKind
<1>4. [Buf(text, u, l, f, s, r) EXCEPT !.list = e] = new
  BY SetList
<1>5. Push(new, Text(cell)) = Buf(text, u, Append(e, Text(cell)), f, s + 1, r)
  BY PushIs
<1> HIDE DEF b, new
<1>6. [b EXCEPT !.kind = text, !.list = e] = [[b EXCEPT !.kind = text] EXCEPT !.list = e]
  OBVIOUS
<1>7. AppendStringish(b, cell)
        = IF b.kind = "UNKNOWN"
          THEN Push([b EXCEPT !.kind = text, !.list = Repeated(NoText, b.seen)], Text(cell))
          ELSE RequestStringReplay(b)
  BY Zenon DEF AppendStringish, text
<1>8. AppendStringish(b, cell) = IF k = "UNKNOWN" THEN Push(new, Text(cell)) ELSE RequestStringReplay(b)
  BY <1>1, <1>3, <1>4, <1>6, <1>7
<1> QED BY <1>2, <1>5, <1>8, Zenon DEF b, e, text

LEMMA StartDouble ==
  ASSUME NEW k, NEW u, NEW l, NEW f, NEW s, NEW r, NEW cell, u \/ cell.kind = "FLOAT64"
  PROVE  StartTypedColumn(Buf(k, u, l, f, s, r), cell)
           = Buf(cell.kind, u, Append(Repeated(NaN, s), Number(cell)), Yes, s + 1, r)
<1> DEFINE b == Buf(k, u, l, f, s, r)
           c == cell.kind
           e == Repeated(NaN, s)
           t == Buf(c, u, l, f, s, r)
<1>1. b.nullable = u /\ Repeated(NaN, b.seen) = e
  BY DEF Buf
<1>2. [b EXCEPT !.kind = c] = t
  BY SetKind
<1> HIDE DEF e
<1>3. [t EXCEPT !.list = e] = Buf(c, u, e, f, s, r)
  BY SetList
<1>4. AppendFloat(Buf(c, u, e, f, s, r), cell) = Buf(c, u, Append(e, Number(cell)), Yes, s + 1, r)
  BY AppendFloatIs
<1> HIDE DEF b, t
<1>5. b.nullable \/ c = "FLOAT64"
  BY <1>1
<1>6. StartTypedColumn(b, cell)
        = AppendFloat([[b EXCEPT !.kind = c] EXCEPT !.list = Repeated(NaN, b.seen)], cell)
  BY <1>5, Zenon DEF StartTypedColumn
<1>7. StartTypedColumn(b, cell) = Buf(c, u, Append(e, Number(cell)), Yes, s + 1, r)
  BY <1>1, <1>2, <1>3, <1>4, <1>6
<1> QED BY <1>7, Zenon DEF b, e

LEMMA StartPlain ==
  ASSUME NEW k, NEW u, NEW l, NEW f, NEW s, NEW r, NEW cell, ~(u \/ cell.kind = "FLOAT64")
  PROVE  StartTypedColumn(Buf(k, u, l, f, s, r), cell)
           = Buf(cell.kind, u, Append(l, <<cell.kind, cell.value>>), f, s + 1, r)
<1> DEFINE b == Buf(k, u, l, f, s, r)
           c == cell.kind
           t == Buf(c, u, l, f, s, r)
<1>1. b.nullable = u
  BY DEF Buf
<1>2. [b EXCEPT !.kind = c] = t
  BY SetKind
<1>3. Push(t, <<c, cell.value>>) = Buf(c, u, Append(l, <<c, cell.value>>), f, s + 1, r)
  BY PushIs
<1> HIDE DEF b, t
<1>4. ~(b.nullable \/ c = "FLOAT64")
  BY <1>1
<1>5. StartTypedColumn(b, cell) = Push([b EXCEPT !.kind = c], <<c, cell.value>>)
  BY <1>4, Zenon DEF StartTypedColumn
<1>6. StartTypedColumn(b, cell) = Buf(c, u, Append(l, <<c, cell.value>>), f, s + 1, r)
  BY <1>2, <1>3, <1>5
<1> QED BY <1>6, Zenon DEF b

LEMMA CurrentDouble ==
  ASSUME NEW k, NEW u, NEW l, NEW f, NEW s, NEW r, NEW cell, Storage(k, u) = "FLOAT64"
  PROVE  AppendCurrentKind(Buf(k, u, l, f, s, r), cell) = Buf(k, u, Append(l, Number(cell)), Yes, s + 1, r)
<1> DEFINE b == Buf(k, u, l, f, s, r)
<1>1. StorageKind(b) = Storage(k, u)
  BY StorageIs
<1>2. AppendFloat(b, cell) = Buf(k, u, Append(l, Number(cell)), Yes, s + 1, r)
  BY AppendFloatIs
<1> HIDE DEF b
<1>3. AppendCurrentKind(b, cell) = AppendFloat(b, cell)
  BY <1>1 DEF AppendCurrentKind
<1> QED BY <1>2, <1>3, Zenon DEF b

LEMMA CurrentPlain ==
  ASSUME NEW k, NEW u, NEW l, NEW f, NEW s, NEW r, NEW cell, Storage(k, u) # "FLOAT64"
  PROVE  AppendCurrentKind(Buf(k, u, l, f, s, r), cell)
           = Buf(k, u, Append(l, <<cell.kind, cell.value>>), f, s + 1, r)
<1> DEFINE b == Buf(k, u, l, f, s, r)
<1>1. StorageKind(b) = Storage(k, u)
  BY StorageIs
<1>2. Push(b, <<cell.kind, cell.value>>) = Buf(k, u, Append(l, <<cell.kind, cell.value>>), f, s + 1, r)
  BY PushIs
<1> HIDE DEF b
<1>3. AppendCurrentKind(b, cell) = Push(b, <<cell.kind, cell.value>>)
  BY <1>1 DEF AppendCurrentKind
<1> QED BY <1>2, <1>3, Zenon DEF b

LEMMA AppendWidenedIs ==
  ASSUME NEW k, NEW u, NEW l, NEW f \in BOOLEAN, NEW s, NEW r, NEW cell
  PROVE  AppendFloat([PromoteToFloat(Buf(k, u, l, f, s, r)) EXCEPT !.kind = "FLOAT64"], cell)
           = Buf("FLOAT64", u, Append(Promoted(l, f), Number(cell)), Yes, s + 1, r)
<1> DEFINE d == Promoted(l, f)
           double == "FLOAT64"
           b == PromoteToFloat(Buf(k, u, l, f, s, r))
<1>1. b = Buf(k, u, d, Yes, s, r)
  BY PromoteIs
<1> HIDE DEF d, double, b
<1>2. [Buf(k, u, d, Yes, s, r) EXCEPT !.kind = double] = Buf(double, u, d, Yes, s, r)
  BY SetKind
<1>3. [b EXCEPT !.kind = double] = Buf(double, u, d, Yes, s, r)
  BY <1>1, <1>2
<1>4. AppendFloat(Buf(double, u, d, Yes, s, r), cell)
        = Buf(double, u, Append(d, Number(cell)), Yes, s + 1, r)
  BY AppendFloatIs
<1> QED BY <1>3, <1>4, Zenon DEF d, double, b

-----------------------------------------------------------------------------
(* append_casted(), case by case. *)
Typed == {"INT64", "FLOAT64", "BOOL"}
BufferKinds == {"UNKNOWN", "STRING"} \cup Typed

LEMMA CastedReplay ==
  ASSUME NEW u, NEW l, NEW f, NEW s, NEW cell
  PROVE  AppendCasted(Buf("STRING", u, l, f, s, Yes), cell) = Buf("STRING", u, l, f, s + 1, Yes)
<1> DEFINE k == "STRING"
           b == Buf(k, u, l, f, s, Yes)
           n == s + 1
<1>1. b.kind = "STRING" /\ b.seen + 1 = n
  BY DEF Buf
<1>2. b.replay
  BY DEF Buf, Yes
<1> HIDE DEF n
<1>3. [b EXCEPT !.seen = n] = Buf(k, u, l, f, n, Yes)
  BY SetSeen
<1> HIDE DEF b
<1>4. AppendCasted(b, cell) = [b EXCEPT !.seen = b.seen + 1]
  BY <1>1, <1>2 DEF AppendCasted
<1>5. AppendCasted(b, cell) = Buf(k, u, l, f, n, Yes)
  BY <1>1, <1>3, <1>4
<1> QED BY <1>5 DEF b, n

LEMMA CastedText ==
  ASSUME NEW u, NEW l, NEW f, NEW s, NEW cell
  PROVE  AppendCasted(Buf("STRING", u, l, f, s, No), cell)
           = Buf("STRING", u, Append(l, Text(cell)), f, s + 1, No)
<1> DEFINE b == Buf("STRING", u, l, f, s, No)
<1>1. b.kind = "STRING"
  BY DEF Buf
<1>2. ~b.replay
  BY DEF Buf, No
<1>3. Push(b, Text(cell)) = Buf("STRING", u, Append(l, Text(cell)), f, s + 1, No)
  BY PushIs
<1> HIDE DEF b
<1>4. AppendCasted(b, cell) = Push(b, Text(cell))
  BY <1>1, <1>2 DEF AppendCasted
<1> QED BY <1>3, <1>4 DEF b

(* The column holds no text yet: what the cell leads to. *)
LEMMA CastedNull ==
  ASSUME NEW k \in {"UNKNOWN"} \cup Typed, NEW u, NEW l, NEW f, NEW s, NEW cell, cell.kind = "NULL"
  PROVE  AppendCasted(Buf(k, u, l, f, s, No), cell) = AppendNull(Buf(k, u, l, f, s, No))
<1> DEFINE b == Buf(k, u, l, f, s, No)
<1>1. b.kind = k
  BY DEF Buf
<1>2. ~b.replay
  BY DEF Buf, No
<1> HIDE DEF b
<1>3. AppendCasted(b, cell) = AppendNull(b)
  BY <1>1, <1>2 DEF AppendCasted, Typed
<1> QED BY <1>3 DEF b

LEMMA CastedString ==
  ASSUME NEW k \in {"UNKNOWN"} \cup Typed, NEW u, NEW l, NEW f, NEW s, NEW cell, cell.kind = "STRING"
  PROVE  AppendCasted(Buf(k, u, l, f, s, No), cell) = AppendStringish(Buf(k, u, l, f, s, No), cell)
<1> DEFINE b == Buf(k, u, l, f, s, No)
<1>1. b.kind = k
  BY DEF Buf
<1>2. ~b.replay
  BY DEF Buf, No
<1> HIDE DEF b
<1>3. AppendCasted(b, cell) = AppendStringish(b, cell)
  BY <1>1, <1>2 DEF AppendCasted, Typed
<1> QED BY <1>3 DEF b

LEMMA CastedStart ==
  ASSUME NEW k \in {"UNKNOWN"} \cup Typed, NEW u, NEW l, NEW f, NEW s, NEW cell, k = "UNKNOWN", cell.kind \in Typed
  PROVE  AppendCasted(Buf(k, u, l, f, s, No), cell) = StartTypedColumn(Buf(k, u, l, f, s, No), cell)
<1> DEFINE b == Buf(k, u, l, f, s, No)
<1>1. b.kind = k
  BY DEF Buf
<1>2. ~b.replay
  BY DEF Buf, No
<1> HIDE DEF b
<1>3. AppendCasted(b, cell) = StartTypedColumn(b, cell)
  BY <1>1, <1>2 DEF AppendCasted, Typed
<1> QED BY <1>3 DEF b

LEMMA CastedSame ==
  ASSUME NEW k \in {"UNKNOWN"} \cup Typed, NEW u, NEW l, NEW f, NEW s, NEW cell, k \in Typed, cell.kind = k
  PROVE  AppendCasted(Buf(k, u, l, f, s, No), cell) = AppendCurrentKind(Buf(k, u, l, f, s, No), cell)
<1> DEFINE b == Buf(k, u, l, f, s, No)
<1>1. b.kind = k
  BY DEF Buf
<1>2. ~b.replay
  BY DEF Buf, No
<1> HIDE DEF b
<1>3. AppendCasted(b, cell) = AppendCurrentKind(b, cell)
  BY <1>1, <1>2 DEF AppendCasted, Typed
<1> QED BY <1>3 DEF b

LEMMA CastedWiden ==
  ASSUME NEW k \in {"UNKNOWN"} \cup Typed, NEW u, NEW l, NEW f, NEW s, NEW cell, 
         (k = "INT64" /\ cell.kind = "FLOAT64") \/ (k = "FLOAT64" /\ cell.kind = "INT64")
  PROVE  AppendCasted(Buf(k, u, l, f, s, No), cell) = 
            AppendFloat([PromoteToFloat(Buf(k, u, l, f, s, No)) EXCEPT !.kind = "FLOAT64"], cell)
<1> DEFINE b == Buf(k, u, l, f, s, No)
<1>1. b.kind = k
  BY DEF Buf
<1>2. ~b.replay
  BY DEF Buf, No
<1> HIDE DEF b
<1>3. {b.kind, cell.kind} = {"INT64", "FLOAT64"} /\ b.kind # cell.kind
  BY <1>1
<1>4. AppendCasted(b, cell) = AppendFloat([PromoteToFloat(b) EXCEPT !.kind = "FLOAT64"], cell)
  BY <1>1, <1>2, <1>3 DEF AppendCasted
<1> QED BY <1>4 DEF b

LEMMA CastedMixed ==
  ASSUME NEW k \in {"UNKNOWN"} \cup Typed, NEW u, NEW l, NEW f, NEW s, NEW cell, 
         (k = "BOOL" /\ cell.kind \in Numeric) \/ (k \in Numeric /\ cell.kind = "BOOL")
  PROVE  AppendCasted(Buf(k, u, l, f, s, No), cell) = RequestStringReplay(Buf(k, u, l, f, s, No))
<1> DEFINE b == Buf(k, u, l, f, s, No)
<1>1. b.kind = k
  BY DEF Buf
<1>2. ~b.replay
  BY DEF Buf, No
<1> HIDE DEF b
<1>3. /\ "BOOL" \in {b.kind, cell.kind} /\ {b.kind, cell.kind} \cap {"INT64", "FLOAT64"} # {}
      /\ {b.kind, cell.kind} # {"INT64", "FLOAT64"} /\ b.kind # cell.kind
      /\ cell.kind \in Typed /\ k \in Typed
  BY <1>1 DEF Numeric, Typed
<1>4. AppendCasted(b, cell) = RequestStringReplay(b)
  BY <1>1, <1>2, <1>3 DEF AppendCasted, Typed
<1> QED BY <1>4 DEF b

-----------------------------------------------------------------------------
(* The list of a buffer: n values, that fit the first n cells.             *)
Listed(l, n) == l = [i \in 1..n |-> l[i]]
Fits(l, cells, n, kind) == Listed(l, n) /\ \A i \in 1..n : IsCell(l[i], cells[i], kind)

LEMMA ListedAppend ==
  ASSUME NEW l, NEW n \in Nat, Listed(l, n), NEW v
  PROVE  /\ Len(l) = n /\ Listed(Append(l, v), n + 1)
         /\ Append(l, v)[n + 1] = v /\ \A i \in 1..n : Append(l, v)[i] = l[i]
<1> DEFINE S == {l[i] : i \in 1..n} \cup {v}
           t == Append(l, v)
<1>1. l \in [1..n -> S]
  BY DEF Listed
<1> HIDE DEF S
<1>2. l \in Seq(S) /\ Len(l) = n /\ v \in S
  <2>1. l \in Seq(S) /\ Len(l) = n
    BY <1>1, LenProperties, SeqDef
  <2> QED BY <2>1 DEF S
<1>3. t \in Seq(S) /\ Len(t) = n + 1 /\ t[n + 1] = v /\ \A i \in 1..n : t[i] = l[i]
  BY <1>2, AppendProperties
<1> HIDE DEF t
<1>4. t = [i \in 1..(n + 1) |-> t[i]]
  BY <1>3, LenProperties
<1> QED BY <1>2, <1>3, <1>4 DEF Listed, t

LEMMA ListedEmpty == Listed(<<>>, 0)
BY DEF Listed

LEMMA FitsAppend ==
  ASSUME NEW l, NEW n \in Nat, NEW cells, NEW kind, Fits(l, cells, n, kind),
         NEW v, IsCell(v, cells[n + 1], kind)
  PROVE  Fits(Append(l, v), cells, n + 1, kind)
<1>1. Listed(Append(l, v), n + 1) /\ Append(l, v)[n + 1] = v /\ \A i \in 1..n : Append(l, v)[i] = l[i]
  BY ListedAppend DEF Fits
<1>2. ASSUME NEW i \in 1..(n + 1) PROVE IsCell(Append(l, v)[i], cells[i], kind)
  <2>1. CASE i = n + 1
    BY <1>1, <2>1
  <2>2. CASE i # n + 1
    <3>1. i \in 1..n
      BY <2>2
    <3> QED BY <1>1, <3>1 DEF Fits
  <2> QED BY <2>1, <2>2
<1> QED BY <1>1, <1>2 DEF Fits

LEMMA FitsRepeated ==
  ASSUME NEW n \in Nat, NEW cells, NEW kind, NEW v, \A i \in 1..n : IsCell(v, cells[i], kind)
  PROVE  Fits(Repeated(v, n), cells, n, kind)
<1> DEFINE l == Repeated(v, n)
<1>1. l = [i \in 1..n |-> v]
  BY DEF Repeated
<1>2. \A i \in 1..n : l[i] = v
  BY <1>1
<1>3. Listed(l, n)
  BY <1>1, <1>2 DEF Listed
<1> HIDE DEF l
<1>4. Fits(l, cells, n, kind)
  BY <1>2, <1>3 DEF Fits
<1> QED BY <1>4 DEF l

(* What was stored as integers or truth values, converted. *)
LEMMA FitsDoubles ==
  ASSUME NEW l, NEW n \in Nat, NEW cells, NEW kind \in {"INT64", "BOOL"}, Fits(l, cells, n, kind),
         \A i \in 1..n : cells[i].kind = kind
  PROVE  Fits(Doubles(l), cells, n, "FLOAT64")
<1> DEFINE d == Doubles(l)
<1>1. DOMAIN l = 1..n
  BY DEF Fits, Listed
<1>2. d = [i \in 1..n |-> AsDouble(l[i][2])]
  BY <1>1 DEF Doubles
<1>3. Listed(d, n) /\ \A i \in 1..n : d[i] = AsDouble(l[i][2])
  BY <1>2 DEF Listed
<1> HIDE DEF d
<1>4. ASSUME NEW i \in 1..n PROVE IsCell(d[i], cells[i], "FLOAT64")
  <2>1. l[i] = <<kind, cells[i].value>>
    BY DEF Fits, IsCell
  <2>2. d[i] = AsDouble(cells[i].value)
    BY <1>3, <2>1
  <2> QED BY <2>2 DEF IsCell
<1>5. Fits(d, cells, n, "FLOAT64")
  BY <1>3, <1>4 DEF Fits
<1> QED BY <1>5 DEF d

LEMMA CellValues ==
  ASSUME NEW cell
  PROVE  /\ IsCell(Text(cell), cell, "STRING")
         /\ cell.kind = "NULL" => IsCell(NoText, cell, "STRING") /\ IsCell(NaN, cell, "FLOAT64")
         /\ cell.kind # "NULL" => IsCell(Number(cell), cell, "FLOAT64")
         /\ IsCell(<<"INT64", cell.value>>, cell, "INT64")
         /\ IsCell(<<"BOOL", cell.value>>, cell, "BOOL")
<1>1. IsCell(Text(cell), cell, "STRING")
  BY DEF IsCell
<1>2. cell.kind = "NULL" => IsCell(NoText, cell, "STRING") /\ IsCell(NaN, cell, "FLOAT64")
  BY DEF IsCell
<1>3. cell.kind # "NULL" => IsCell(Number(cell), cell, "FLOAT64")
  BY DEF IsCell, Number
<1>4. IsCell(<<"INT64", cell.value>>, cell, "INT64") /\ IsCell(<<"BOOL", cell.value>>, cell, "BOOL")
  BY DEF IsCell
<1> QED BY <1>1, <1>2, <1>3, <1>4

-----------------------------------------------------------------------------
(* What is known of a column whose cells have the kinds K: the kind of its *)
(* buffer or plan, and whether it is nullable.                             *)
Known(k, u, K) ==
    /\ u \in BOOLEAN
    /\ \/ k = "STRING" /\ ("STRING" \in K \/ ("BOOL" \in K /\ ("INT64" \in K \/ "FLOAT64" \in K)))
       \/ k = "UNKNOWN" /\ K \subseteq {"NULL"} /\ (u <=> "NULL" \in K)
       \/ k \in {"INT64", "BOOL"} /\ k \in K /\ K \subseteq {k, "NULL"} /\ (u <=> "NULL" \in K)
       \/ k = "FLOAT64" /\ k \in K /\ K \subseteq {"INT64", k, "NULL"}

CastOf(K) ==
    CASE "STRING" \in K \/ ("BOOL" \in K /\ K \cap Numeric # {}) -> "STRING"
      [] K \subseteq {"INT64"} /\ K # {} -> "INT64"
      [] K = {"BOOL"} -> "BOOL"
      [] OTHER -> "FLOAT64"

LEMMA CastOfKnown ==
  ASSUME NEW k, NEW u, NEW K, Known(k, u, K)
  PROVE  /\ k = "UNKNOWN" => CastOf(K) = "FLOAT64"
         /\ k # "UNKNOWN" => CastOf(K) = Storage(k, u)
<1>1. CASE k = "STRING"
  <2>1. "STRING" \in K \/ ("BOOL" \in K /\ K \cap Numeric # {})
    BY <1>1 DEF Known, Numeric
  <2>2. CastOf(K) = "STRING"
    <3> DEFINE P == "STRING" \in K \/ ("BOOL" \in K /\ K \cap Numeric # {})
    <3>1. ~(K \subseteq {"INT64"} /\ K # {}) /\ ~(K = {"BOOL"})
      BY <2>1 DEF Numeric
    <3> QED BY <2>1, <3>1 DEF CastOf
  <2> QED BY <1>1, <2>2 DEF Storage
<1>2. CASE k = "UNKNOWN"
  <2>1. K \subseteq {"NULL"}
    BY <1>2 DEF Known
  <2> QED BY <1>2, <2>1 DEF CastOf, Numeric
<1>3. CASE k = "INT64"
  <2>1. "INT64" \in K /\ K \subseteq {"INT64", "NULL"} /\ (u <=> "NULL" \in K) /\ u \in BOOLEAN
    BY <1>3 DEF Known
  <2> QED BY <1>3, <2>1 DEF CastOf, Numeric, Storage
<1>4. CASE k = "BOOL"
  <2>1. "BOOL" \in K /\ K \subseteq {"BOOL", "NULL"} /\ (u <=> "NULL" \in K) /\ u \in BOOLEAN
    BY <1>4 DEF Known
  <2> QED BY <1>4, <2>1 DEF CastOf, Numeric, Storage
<1>5. CASE k = "FLOAT64"
  <2>1. "FLOAT64" \in K /\ K \subseteq {"INT64", "FLOAT64", "NULL"}
    BY <1>5 DEF Known
  <2> QED BY <1>5, <2>1 DEF CastOf, Numeric, Storage
<1> QED BY <1>1, <1>2, <1>3, <1>4, <1>5 DEF Known

-----------------------------------------------------------------------------
(* A buffer whose type is being found, after n cells.                      *)
KindsOf(cells, n) == {cells[i].kind : i \in 1..n}
FlagOf(k, u) == IF k # "UNKNOWN" /\ Storage(k, u) = "FLOAT64" THEN Yes ELSE No

GrownTo(k, u, l, f, r, cells, n) ==
    /\ Known(k, u, KindsOf(cells, n))
    /\ \/ r = Yes /\ k = "STRING"
       \/ /\ r = No /\ f = FlagOf(k, u)
          /\ IF k = "UNKNOWN" THEN l = <<>> ELSE Fits(l, cells, n, Storage(k, u))
Grown(b, cells, n) ==
    \E k, u, l, f, r : b = Buf(k, u, l, f, n, r) /\ GrownTo(k, u, l, f, r, cells, n)

LEMMA KindsStep ==
  ASSUME NEW cells, NEW n \in Nat
  PROVE  KindsOf(cells, n + 1) = KindsOf(cells, n) \cup {cells[n + 1].kind}
<1>1. 1..(n + 1) = (1..n) \cup {n + 1}
  OBVIOUS
<1> QED BY <1>1 DEF KindsOf

LEMMA KindsFacts ==
  ASSUME NEW k, NEW u, NEW cells, NEW n \in Nat, Known(k, u, KindsOf(cells, n)), NEW i \in 1..n
  PROVE  /\ k = "UNKNOWN" => cells[i].kind = "NULL"
         /\ k \in {"INT64", "BOOL"} => cells[i].kind \in {k, "NULL"} /\ (~u => cells[i].kind = k)
         /\ k = "FLOAT64" => cells[i].kind \in {"INT64", "FLOAT64", "NULL"}
<1>1. cells[i].kind \in KindsOf(cells, n)
  BY DEF KindsOf
<1> QED BY <1>1 DEF Known

LEMMA PromotedFits ==
  ASSUME NEW k \in Typed, NEW u, NEW cells, NEW n \in Nat, Known(k, u, KindsOf(cells, n)),
         NEW l, Fits(l, cells, n, Storage(k, u))
  PROVE  Fits(Promoted(l, FlagOf(k, u)), cells, n, "FLOAT64")
<1>1. CASE Storage(k, u) = "FLOAT64"
  <2>1. FlagOf(k, u) = Yes
    BY <1>1 DEF FlagOf, Typed
  <2>2. Promoted(l, Yes) = l
    BY DEF Promoted, Yes
  <2> QED BY <1>1, <2>1, <2>2
<1>2. CASE Storage(k, u) # "FLOAT64"
  <2>1. k \in {"INT64", "BOOL"} /\ ~u /\ Storage(k, u) = k
    BY <1>2 DEF Storage, Typed
  <2>2. FlagOf(k, u) = No
    BY <1>2 DEF FlagOf
  <2>3. Promoted(l, No) = Doubles(l)
    BY DEF Promoted, No
  <2>4. \A i \in 1..n : cells[i].kind = k
    BY <2>1, KindsFacts
  <2>5. Fits(Doubles(l), cells, n, "FLOAT64")
    BY <2>1, <2>4, FitsDoubles
  <2> QED BY <2>2, <2>3, <2>5
<1> QED BY <1>1, <1>2

(* One cell more. *)
LEMMA GrownText ==
  ASSUME NEW u, NEW l, NEW f, NEW cells, NEW n \in Nat,
         GrownTo("STRING", u, l, f, No, cells, n)
  PROVE  GrownTo("STRING", u, Append(l, Text(cells[n + 1])), f, No, cells, n + 1)
<1> DEFINE K == KindsOf(cells, n)
<1>1. Known("STRING", u, K) /\ f = FlagOf("STRING", u) /\ Fits(l, cells, n, "STRING")
  BY DEF GrownTo, Storage, Yes, No
<1>2. KindsOf(cells, n + 1) = K \cup {cells[n + 1].kind}
  BY KindsStep
<1> HIDE DEF K
<1>3. Known("STRING", u, KindsOf(cells, n + 1))
  BY <1>1, <1>2 DEF Known
<1>4. Fits(Append(l, Text(cells[n + 1])), cells, n + 1, "STRING")
  BY <1>1, CellValues, FitsAppend
<1> QED BY <1>1, <1>3, <1>4 DEF GrownTo, Storage

LEMMA GrownReplay ==
  ASSUME NEW u, NEW l, NEW f, NEW cells, NEW n \in Nat,
         GrownTo("STRING", u, l, f, Yes, cells, n)
  PROVE  GrownTo("STRING", u, l, f, Yes, cells, n + 1)
<1> DEFINE K == KindsOf(cells, n)
<1>1. Known("STRING", u, K)
  BY DEF GrownTo
<1>2. KindsOf(cells, n + 1) = K \cup {cells[n + 1].kind}
  BY KindsStep
<1> HIDE DEF K
<1>3. Known("STRING", u, KindsOf(cells, n + 1))
  BY <1>1, <1>2 DEF Known
<1> QED BY <1>3 DEF GrownTo

LEMMA GrownUnknown ==
  ASSUME NEW u, NEW l, NEW f, NEW cells, NEW n \in Nat, cells[n + 1].kind \in CellKinds,
         GrownTo("UNKNOWN", u, l, f, No, cells, n)
  PROVE  Grown(AppendCasted(Buf("UNKNOWN", u, l, f, n, No), cells[n + 1]), cells, n + 1)
<1> DEFINE K == KindsOf(cells, n)
           cell == cells[n + 1]
           c == cell.kind
           b == Buf("UNKNOWN", u, l, f, n, No)
           L == KindsOf(cells, n + 1)
<1>1. Known("UNKNOWN", u, K) /\ f = No /\ l = <<>>
  BY DEF GrownTo, FlagOf, Yes, No
<1>2. L = K \cup {c}
  BY KindsStep
<1>3. u \in BOOLEAN /\ K \subseteq {"NULL"} /\ (u <=> "NULL" \in K)
  BY <1>1 DEF Known
<1>4. \A i \in 1..n : cells[i].kind = "NULL"
  BY <1>1, KindsFacts
<1>5. u = Yes \/ u = No
  BY <1>3 DEF Yes, No
<1> HIDE DEF K, L
<1>6. CASE c = "NULL"
  <2>1. AppendCasted(b, cell) = AppendNull(b)
    BY <1>6, CastedNull
  <2>2. f \in BOOLEAN
    BY <1>1 DEF No
  <2>3. AppendNull(b) = Buf("UNKNOWN", Yes, l, f, n + 1, No)
    BY <2>2, AppendNullIs
  <2>4. Known("UNKNOWN", Yes, L)
    BY <1>2, <1>3, <1>6 DEF Known, Yes
  <2>5. GrownTo("UNKNOWN", Yes, l, f, No, cells, n + 1)
    BY <1>1, <2>4 DEF GrownTo, FlagOf, L
  <2> QED BY <2>1, <2>3, <2>5 DEF Grown
<1>7. CASE c = "STRING"
  <2> DEFINE t == Append(Repeated(NoText, n), Text(cell))
  <2>1. AppendCasted(b, cell) = AppendStringish(b, cell)
    BY <1>7, CastedString
  <2>2. AppendStringish(b, cell) = Buf("STRING", u, t, f, n + 1, No)
    BY AppendStringishIs
  <2>3. Known("STRING", u, L)
    BY <1>2, <1>3, <1>7 DEF Known
  <2>4. Fits(t, cells, n + 1, "STRING")
    <3>1. Fits(Repeated(NoText, n), cells, n, "STRING")
      BY <1>4, CellValues, FitsRepeated
    <3> QED BY <3>1, CellValues, FitsAppend
  <2> HIDE DEF t
  <2>5. GrownTo("STRING", u, t, f, No, cells, n + 1)
    BY <1>1, <2>3, <2>4 DEF GrownTo, FlagOf, Storage, L
  <2> QED BY <2>1, <2>2, <2>5 DEF Grown
<1>8. CASE c \in Typed
  <2>1. AppendCasted(b, cell) = StartTypedColumn(b, cell)
    BY <1>8, CastedStart
  <2>2. Known(c, u, L)
    BY <1>2, <1>3, <1>8 DEF Known, Typed
  <2>3. CASE u \/ c = "FLOAT64"
    <3> DEFINE t == Append(Repeated(NaN, n), Number(cell))
    <3>1. StartTypedColumn(b, cell) = Buf(c, u, t, Yes, n + 1, No)
      BY <2>3, StartDouble
    <3>2. Storage(c, u) = "FLOAT64"
      BY <1>8, <2>3 DEF Storage, Typed
    <3>3. Fits(t, cells, n + 1, "FLOAT64")
      <4>1. Fits(Repeated(NaN, n), cells, n, "FLOAT64")
        BY <1>4, CellValues, FitsRepeated
      <4>2. IsCell(Number(cell), cell, "FLOAT64")
        BY <1>8, CellValues DEF Typed
      <4> QED BY <4>1, <4>2, FitsAppend
    <3> HIDE DEF t
    <3>4. GrownTo(c, u, t, Yes, No, cells, n + 1)
      BY <1>8, <2>2, <3>2, <3>3 DEF GrownTo, FlagOf, L, Typed
    <3> QED BY <2>1, <3>1, <3>4 DEF Grown
  <2>4. CASE ~(u \/ c = "FLOAT64")
    <3> DEFINE t == Append(l, <<c, cell.value>>)
    <3>1. StartTypedColumn(b, cell) = Buf(c, u, t, f, n + 1, No)
      BY <2>4, StartPlain
    <3>2. Storage(c, u) = c /\ c \in {"INT64", "BOOL"}
      BY <1>8, <2>4 DEF Storage, Typed
    <3>3. n = 0
      <4>1. n # 0 => cells[1].kind = "NULL" /\ cells[1].kind \in K
        BY <1>4 DEF K, KindsOf
      <4> QED BY <1>3, <2>4, <4>1
    <3>4. Fits(l, cells, n, c)
      BY <1>1, <3>3, ListedEmpty DEF Fits
    <3>5. IsCell(<<c, cell.value>>, cell, c)
      BY <3>2, CellValues
    <3>6. Fits(t, cells, n + 1, c)
      BY <3>4, <3>5, FitsAppend
    <3> HIDE DEF t
    <3>7. GrownTo(c, u, t, f, No, cells, n + 1)
      BY <1>1, <1>8, <2>2, <3>2, <3>6 DEF GrownTo, FlagOf, L, Typed
    <3> QED BY <2>1, <3>1, <3>7 DEF Grown
  <2> QED BY <2>3, <2>4
<1> QED BY <1>6, <1>7, <1>8 DEF CellKinds, Typed

LEMMA GrownTyped ==
  ASSUME NEW k \in Typed, NEW u, NEW l, NEW f, NEW cells, NEW n \in Nat, cells[n + 1].kind \in CellKinds,
         GrownTo(k, u, l, f, No, cells, n)
  PROVE  Grown(AppendCasted(Buf(k, u, l, f, n, No), cells[n + 1]), cells, n + 1)
<1> DEFINE K == KindsOf(cells, n)
           cell == cells[n + 1]
           c == cell.kind
           b == Buf(k, u, l, f, n, No)
           L == KindsOf(cells, n + 1)
           d == Promoted(l, f)
<1>1. /\ Known(k, u, K) /\ f = FlagOf(k, u) /\ Fits(l, cells, n, Storage(k, u))
      /\ k # "UNKNOWN" /\ k # "STRING" /\ k \in {"UNKNOWN"} \cup Typed
  BY DEF GrownTo, Yes, No, Typed
<1>2. L = K \cup {c}
  BY KindsStep
<1>3. f \in BOOLEAN
  BY <1>1 DEF FlagOf, Yes, No
<1>4. Fits(d, cells, n, "FLOAT64")
  BY <1>1, PromotedFits
<1> HIDE DEF K, L, d
<1>5. u \in BOOLEAN /\ (u <=> u = Yes)
  BY <1>1 DEF Known, Yes
<1>6. CASE c = "NULL"
  <2> DEFINE t == Append(d, NaN)
  <2>1. AppendCasted(b, cell) = AppendNull(b)
    BY <1>1, <1>6, CastedNull
  <2>2. AppendNull(b) = Buf(k, Yes, t, Yes, n + 1, No)
    BY <1>1, <1>3, AppendNullIs DEF d
  <2>3. Known(k, Yes, L)
    BY <1>1, <1>2, <1>6 DEF Known, Yes
  <2>4. Fits(t, cells, n + 1, "FLOAT64")
    BY <1>4, <1>6, CellValues, FitsAppend
  <2>5. Storage(k, Yes) = "FLOAT64"
    BY <1>1 DEF Storage, Yes, Typed
  <2> HIDE DEF t
  <2>6. GrownTo(k, Yes, t, Yes, No, cells, n + 1)
    BY <1>1, <2>3, <2>4, <2>5 DEF GrownTo, FlagOf, L
  <2> QED BY <2>1, <2>2, <2>6 DEF Grown
<1>7. ASSUME c = "STRING" \/ (k = "BOOL" /\ c \in Numeric) \/ (k \in Numeric /\ c = "BOOL"),
             AppendCasted(b, cell) = Buf("STRING", No, <<>>, No, n + 1, Yes)
      PROVE  Grown(AppendCasted(b, cell), cells, n + 1)
  <2>1. Known("STRING", No, L)
    <3>1. k \in K
      BY <1>1 DEF Known, Typed
    <3>2. "STRING" \in L \/ ("BOOL" \in L /\ ("INT64" \in L \/ "FLOAT64" \in L))
      BY <1>2, <1>7, <3>1 DEF Numeric
    <3> QED BY <3>2 DEF Known, No
  <2>2. GrownTo("STRING", No, <<>>, No, Yes, cells, n + 1)
    BY <2>1 DEF GrownTo, L
  <2> QED BY <1>7, <2>2 DEF Grown
<1>8. CASE c = "STRING"
  <2>1. AppendCasted(b, cell) = AppendStringish(b, cell)
    BY <1>1, <1>8, CastedString
  <2>2. AppendStringish(b, cell) = Buf("STRING", No, <<>>, No, n + 1, Yes)
    BY <1>1, AppendStringishIs
  <2> QED BY <1>7, <1>8, <2>1, <2>2
<1>9. CASE (k = "BOOL" /\ c \in Numeric) \/ (k \in Numeric /\ c = "BOOL")
  <2>1. AppendCasted(b, cell) = RequestStringReplay(b)
    BY <1>1, <1>9, CastedMixed
  <2>2. RequestStringReplay(b) = Buf("STRING", No, <<>>, No, n + 1, Yes)
    BY ReplayIs
  <2> QED BY <1>7, <1>9, <2>1, <2>2
<1>10. CASE c = k
  <2>1. AppendCasted(b, cell) = AppendCurrentKind(b, cell)
    BY <1>1, <1>10, CastedSame
  <2>2. Known(k, u, L)
    BY <1>1, <1>2, <1>10 DEF Known, Typed
  <2>3. CASE Storage(k, u) = "FLOAT64"
    <3> DEFINE t == Append(l, Number(cell))
    <3>1. AppendCurrentKind(b, cell) = Buf(k, u, t, Yes, n + 1, No)
      BY <2>3, CurrentDouble
    <3>2. Fits(t, cells, n + 1, "FLOAT64")
      BY <1>1, <1>10, <2>3, CellValues, FitsAppend DEF Typed
    <3> HIDE DEF t
    <3>3. GrownTo(k, u, t, Yes, No, cells, n + 1)
      BY <1>1, <2>2, <2>3, <3>2 DEF GrownTo, FlagOf, L
    <3> QED BY <2>1, <3>1, <3>3 DEF Grown
  <2>4. CASE Storage(k, u) # "FLOAT64"
    <3> DEFINE t == Append(l, <<c, cell.value>>)
    <3>1. AppendCurrentKind(b, cell) = Buf(k, u, t, f, n + 1, No)
      BY <2>4, CurrentPlain
    <3>2. Storage(k, u) = c /\ c \in {"INT64", "BOOL"}
      BY <1>1, <1>10, <2>4 DEF Storage, Typed
    <3>3. IsCell(<<c, cell.value>>, cell, c)
      BY <3>2, CellValues
    <3>4. Fits(t, cells, n + 1, c)
      BY <1>1, <3>2, <3>3, FitsAppend
    <3> HIDE DEF t
    <3>5. GrownTo(k, u, t, f, No, cells, n + 1)
      BY <1>1, <2>2, <3>2, <3>4 DEF GrownTo, L
    <3> QED BY <2>1, <3>1, <3>5 DEF Grown
  <2> QED BY <2>3, <2>4
<1>11. CASE (k = "INT64" /\ c = "FLOAT64") \/ (k = "FLOAT64" /\ c = "INT64")
  <2> DEFINE t == Append(d, Number(cell))
  <2>1. AppendCasted(b, cell) = AppendFloat([PromoteToFloat(b) EXCEPT !.kind = "FLOAT64"], cell)
    BY <1>1, <1>11, CastedWiden
  <2>2. AppendFloat([PromoteToFloat(b) EXCEPT !.kind = "FLOAT64"], cell)
          = Buf("FLOAT64", u, t, Yes, n + 1, No)
    BY <1>3, AppendWidenedIs DEF d
  <2>3. Known("FLOAT64", u, L)
    <3>1. k \in K /\ K \subseteq {"INT64", "FLOAT64", "NULL"}
      BY <1>1, <1>11 DEF Known
    <3>2. "FLOAT64" \in L /\ L \subseteq {"INT64", "FLOAT64", "NULL"}
      BY <1>2, <1>11, <3>1
    <3> QED BY <1>5, <3>2 DEF Known
  <2>4. Fits(t, cells, n + 1, "FLOAT64")
    <3>1. IsCell(Number(cell), cell, "FLOAT64")
      BY <1>11, CellValues
    <3> QED BY <1>4, <3>1, FitsAppend
  <2>5. Storage("FLOAT64", u) = "FLOAT64"
    BY DEF Storage
  <2> HIDE DEF t
  <2>6. GrownTo("FLOAT64", u, t, Yes, No, cells, n + 1)
    BY <2>3, <2>4, <2>5 DEF GrownTo, FlagOf, L
  <2> QED BY <2>1, <2>2, <2>6 DEF Grown
<1>12. \/ c = "NULL" \/ c = "STRING" \/ c = k
       \/ (k = "BOOL" /\ c \in Numeric) \/ (k \in Numeric /\ c = "BOOL")
       \/ (k = "INT64" /\ c = "FLOAT64") \/ (k = "FLOAT64" /\ c = "INT64")
  BY DEF CellKinds, Typed, Numeric
<1> QED BY <1>6, <1>8, <1>9, <1>10, <1>11, <1>12

LEMMA GrownStep ==
  ASSUME NEW b, NEW cells, NEW n \in Nat, cells[n + 1].kind \in CellKinds, Grown(b, cells, n)
  PROVE  Grown(AppendInferring(b, cells[n + 1]), cells, n + 1)
<1> DEFINE cell == cells[n + 1]
<1>1. PICK k, u, l, f, r : b = Buf(k, u, l, f, n, r) /\ GrownTo(k, u, l, f, r, cells, n)
  BY DEF Grown
<1>2. b.replay = r /\ StorageKind(b) = Storage(k, u)
  BY <1>1, StorageIs DEF Buf
<1>3. CASE r = Yes
  <2>1. k = "STRING"
    BY <1>1, <1>3 DEF GrownTo, Yes, No
  <2>2. b.replay
    BY <1>2, <1>3 DEF Yes
  <2>3. AppendInferring(b, cell) = AppendCasted(b, cell)
    BY <2>2 DEF AppendInferring
  <2>4. AppendCasted(b, cell) = Buf("STRING", u, l, f, n + 1, Yes)
    BY <1>1, <1>3, <2>1, CastedReplay
  <2>5. GrownTo("STRING", u, l, f, Yes, cells, n + 1)
    BY <1>1, <1>3, <2>1, GrownReplay
  <2> QED BY <2>3, <2>4, <2>5 DEF Grown
<1>4. CASE r = No
  <2>1. ~b.replay
    BY <1>2, <1>4 DEF No
  <2>2. CASE k = "STRING"
    <3> DEFINE t == Append(l, Text(cell))
    <3>1. StorageKind(b) = "STRING"
      BY <1>2, <2>2 DEF Storage
    <3>2. AppendInferring(b, cell) = Push(b, Text(cell))
      BY <2>1, <3>1 DEF AppendInferring
    <3>3. Push(b, Text(cell)) = Buf("STRING", u, t, f, n + 1, No)
      BY <1>1, <1>4, <2>2, PushIs
    <3>4. GrownTo("STRING", u, t, f, No, cells, n + 1)
      BY <1>1, <1>4, <2>2, GrownText
    <3> HIDE DEF t
    <3> QED BY <3>2, <3>3, <3>4 DEF Grown
  <2>3. CASE k # "STRING"
    <3>1. StorageKind(b) # "STRING"
      BY <1>2, <2>3 DEF Storage
    <3>2. AppendInferring(b, cell) = AppendCasted(b, cell)
      BY <3>1 DEF AppendInferring
    <3>3. k = "UNKNOWN" \/ k \in Typed
      BY <1>1, <2>3 DEF GrownTo, Known, Typed
    <3>4. Grown(AppendCasted(b, cell), cells, n + 1)
      BY <1>1, <1>4, <3>3, GrownUnknown, GrownTyped
    <3> QED BY <3>2, <3>4
  <2> QED BY <2>2, <2>3
<1> QED BY <1>1, <1>3, <1>4 DEF GrownTo

LEMMA GrownStart ==
  ASSUME NEW cells
  PROVE  Grown(Buffer(Plan), cells, 0)
<1>1. Plan.kind = "UNKNOWN" /\ Plan.nullable = No
  BY DEF Plan, No
<1>2. Buffer(Plan) = Buf("UNKNOWN", No, <<>>, No, 0, No)
  BY <1>1, BufferIs
<1>3. KindsOf(cells, 0) = {}
  BY DEF KindsOf
<1>4. Known("UNKNOWN", No, {})
  BY DEF Known, No
<1>5. GrownTo("UNKNOWN", No, <<>>, No, No, cells, 0)
  BY <1>3, <1>4 DEF GrownTo, FlagOf
<1> QED BY <1>2, <1>5 DEF Grown

-----------------------------------------------------------------------------
(* The loop over the cells of a column. *)
IsFilled(g, mode, plan, cells) ==
    g = [n \in 0..Len(cells) |->
            IF n = 0 THEN Buffer(plan) ELSE AppendCell(mode, g[n - 1], cells[n])]

LEMMA FilledExists ==
  ASSUME NEW mode, NEW plan, NEW cells, Len(cells) \in Nat
  PROVE  \E g : IsFilled(g, mode, plan, cells)
<1> DEFINE Good(m) == \E g : g = [n \in 0..m |-> IF n = 0 THEN Buffer(plan)
                                                 ELSE AppendCell(mode, g[n - 1], cells[n])]
           T == {m \in Nat : Good(m)}
<1>1. 0 \in T
  <2> DEFINE g == [n \in 0..0 |-> Buffer(plan)]
  <2>1. g = [n \in 0..0 |-> IF n = 0 THEN Buffer(plan) ELSE AppendCell(mode, g[n - 1], cells[n])]
    OBVIOUS
  <2> HIDE DEF g
  <2> QED BY <2>1
<1>2. ASSUME NEW m \in Nat, m \in T PROVE m + 1 \in T
  <2>1. PICK g : g = [n \in 0..m |-> IF n = 0 THEN Buffer(plan)
                                     ELSE AppendCell(mode, g[n - 1], cells[n])]
    BY <1>2
  <2> DEFINE new == AppendCell(mode, g[m], cells[m + 1])
             h == [n \in 0..(m + 1) |-> IF n = m + 1 THEN new ELSE g[n]]
  <2> HIDE DEF new
  <2>2. ASSUME NEW n \in 0..(m + 1)
        PROVE  h[n] = IF n = 0 THEN Buffer(plan) ELSE AppendCell(mode, h[n - 1], cells[n])
    <3>1. CASE n = m + 1
      <4>1. n # 0 /\ n - 1 = m /\ h[m] = g[m] /\ h[n] = new
        BY <3>1
      <4> HIDE DEF h
      <4> QED BY <3>1, <4>1 DEF new
    <3>2. CASE n # m + 1
      <4>1. n \in 0..m /\ h[n] = g[n] /\ (n # 0 => h[n - 1] = g[n - 1])
        BY <3>2
      <4>2. g[n] = IF n = 0 THEN Buffer(plan) ELSE AppendCell(mode, g[n - 1], cells[n])
        BY <2>1, <4>1
      <4> HIDE DEF h
      <4> QED BY <4>1, <4>2
    <3> QED BY <3>1, <3>2
  <2>3. h = [n \in 0..(m + 1) |-> h[n]]
    OBVIOUS
  <2> HIDE DEF h
  <2>4. h = [n \in 0..(m + 1) |-> IF n = 0 THEN Buffer(plan) ELSE AppendCell(mode, h[n - 1], cells[n])]
    BY <2>2, <2>3
  <2> QED BY <2>4
<1>3. Len(cells) \in T
  <2> HIDE DEF T
  <2> QED BY <1>1, <1>2, Induction
<1> QED BY <1>3 DEF IsFilled

LEMMA FillIs ==
  ASSUME NEW mode, NEW plan, NEW cells, Len(cells) \in Nat
  PROVE  \E g : /\ Fill(mode, plan, cells) = g[Len(cells)]
                /\ g[0] = Buffer(plan)
                /\ \A n \in 1..Len(cells) : g[n] = AppendCell(mode, g[n - 1], cells[n])
<1> DEFINE g == CHOOSE g : IsFilled(g, mode, plan, cells)
<1>1. IsFilled(g, mode, plan, cells)
  BY FilledExists
<1>2. Fill(mode, plan, cells) = g[Len(cells)]
  BY Zenon DEF Fill, IsFilled
<1> HIDE DEF g
<1>3. g[0] = Buffer(plan) /\ \A n \in 1..Len(cells) : g[n] = AppendCell(mode, g[n - 1], cells[n])
  BY <1>1 DEF IsFilled
<1> QED BY <1>2, <1>3

(* Cells of a column. *)
Column(cells) == cells \in Seq({cells[i] : i \in DOMAIN cells}) /\ \A i \in 1..Len(cells) : cells[i].kind \in CellKinds

LEMMA FillGrows ==
  ASSUME NEW cells, Column(cells)
  PROVE  Grown(Fill("infer", Plan, cells), cells, Len(cells))
<1>1. Len(cells) \in Nat
  BY LenProperties DEF Column
<1>2. PICK g : /\ Fill("infer", Plan, cells) = g[Len(cells)] /\ g[0] = Buffer(Plan)
               /\ \A n \in 1..Len(cells) : g[n] = AppendCell("infer", g[n - 1], cells[n])
  BY <1>1, FillIs
<1> DEFINE T == {n \in Nat : n <= Len(cells) => Grown(g[n], cells, n)}
<1>3. 0 \in T
  BY <1>2, GrownStart
<1>4. ASSUME NEW n \in Nat, n \in T PROVE n + 1 \in T
  <2> SUFFICES ASSUME n + 1 <= Len(cells) PROVE Grown(g[n + 1], cells, n + 1)
    OBVIOUS
  <2>1. n + 1 \in 1..Len(cells) /\ (n + 1) - 1 = n /\ Grown(g[n], cells, n)
    BY <1>1, <1>4
  <2>2. g[n + 1] = AppendInferring(g[n], cells[n + 1])
    BY <1>2, <2>1 DEF AppendCell
  <2>3. cells[n + 1].kind \in CellKinds
    BY <2>1 DEF Column
  <2> QED BY <2>1, <2>2, <2>3, GrownStep
<1>5. Len(cells) \in T
  <2> HIDE DEF T
  <2> QED BY <1>1, <1>3, <1>4, Induction
<1> QED BY <1>1, <1>2, <1>5

(* What becomes of a buffer in the end. *)
LEMMA FinalizeIs ==
  ASSUME NEW k, NEW u, NEW l, NEW f, NEW s, NEW r
  PROVE  LET b == Buf(k, u, l, f, s, r)
             array == IntoPython(Finalize(b))
         IN  /\ k = "UNKNOWN" => array = [dtype |-> "FLOAT64", values |-> Repeated(NaN, s)]
             /\ k # "UNKNOWN" => array = [dtype |-> Storage(k, u), values |-> l]
<1> DEFINE b == Buf(k, u, l, f, s, r)
           array == IntoPython(Finalize(b))
<1>1. CASE k # "UNKNOWN"
  <2>1. b.kind # "UNKNOWN" /\ b.list = l
    BY <1>1 DEF Buf
  <2>2. StorageKind(b) = Storage(k, u)
    BY StorageIs
  <2> HIDE DEF b
  <2> QED BY <1>1, <2>1, <2>2 DEF IntoPython, Finalize, b
<1>2. CASE k = "UNKNOWN"
  <2> DEFINE e == Repeated(NaN, s)
             double == "FLOAT64"
             c == Buf(double, u, e, Yes, s, r)
  <2>1. b.kind = "UNKNOWN" /\ Repeated(NaN, b.seen) = e
    BY <1>2 DEF Buf
  <2> HIDE DEF e, double
  <2>2. [b EXCEPT !.kind = double] = Buf(double, u, l, f, s, r)
    BY SetKind
  <2>3. [Buf(double, u, l, f, s, r) EXCEPT !.list = e] = Buf(double, u, e, f, s, r)
    BY SetList
  <2>4. [Buf(double, u, e, f, s, r) EXCEPT !.floats = Yes] = c
    BY SetFloats
  <2>5. StorageKind(c) = Storage(double, u) /\ c.list = e
    BY StorageIs DEF Buf
  <2> HIDE DEF b, c
  <2>6. Finalize(b) = [b EXCEPT !.kind = double, !.list = Repeated(NaN, b.seen), !.floats = Yes]
    BY <2>1, Zenon DEF Finalize, double, Yes
  <2>7. [b EXCEPT !.kind = double, !.list = e, !.floats = Yes]
          = [[[b EXCEPT !.kind = double] EXCEPT !.list = e] EXCEPT !.floats = Yes]
    OBVIOUS
  <2>8. Finalize(b) = c
    BY <2>1, <2>2, <2>3, <2>4, <2>6, <2>7
  <2>9. Storage(double, u) = double
    BY DEF Storage, double
  <2>10. IntoPython(Finalize(b)) = [dtype |-> double, values |-> e]
    BY <2>5, <2>8, <2>9 DEF IntoPython
  <2> QED BY <1>2, <2>10 DEF b, e, double
<1> QED BY <1>1, <1>2

LEMMA NotReplayed ==
  ASSUME NEW k, NEW u, NEW l, NEW f, NEW s, NEW cells
  PROVE  Replay(Buf(k, u, l, f, s, No), cells) = Buf(k, u, l, f, s, No)
<1> DEFINE b == Buf(k, u, l, f, s, No)
<1>1. ~b.replay
  BY DEF Buf, No
<1> HIDE DEF b
<1>2. Replay(b, cells) = b
  BY <1>1 DEF Replay
<1> QED BY <1>2 DEF b

LEMMA Replayed ==
  ASSUME NEW k, NEW u, NEW l, NEW f, NEW s, NEW cells
  PROVE  Replay(Buf(k, u, l, f, s, Yes), cells)
           = Buf(k, u, [i \in DOMAIN cells |-> Text(cells[i])], f, s, No)
<1> DEFINE b == Buf(k, u, l, f, s, Yes)
           t == [i \in DOMAIN cells |-> Text(cells[i])]
<1>1. b.replay
  BY DEF Buf, Yes
<1>2. [b EXCEPT !.replay = No] = Buf(k, u, l, f, s, No)
  BY SetReplay
<1> HIDE DEF b
<1>3. Replay(b, cells) = [b EXCEPT !.replay = No, !.list = t]
  BY <1>1, Zenon DEF Replay, No
<1> HIDE DEF t
<1>4. [b EXCEPT !.replay = No, !.list = t] = [[b EXCEPT !.replay = No] EXCEPT !.list = t]
  OBVIOUS
<1>5. [Buf(k, u, l, f, s, No) EXCEPT !.list = t] = Buf(k, u, t, f, s, No)
  BY SetList
<1>6. Replay(b, cells) = Buf(k, u, t, f, s, No)
  BY <1>2, <1>3, <1>4, <1>5
<1> QED BY <1>6 DEF b, t

-----------------------------------------------------------------------------
(* The columns that come out of it.                                        *)
(*                                                                         *)
(* Nothing is known beforehand, and a column that asks for it is replayed. *)
LEMMA CastKindIs ==
  ASSUME NEW cells, Column(cells)
  PROVE  CastKind(cells) = CastOf(KindsOf(cells, Len(cells)))
<1>1. DOMAIN cells = 1..Len(cells)
  BY LenProperties DEF Column
<1> QED BY <1>1 DEF CastKind, CastOf, KindsOf

Array(kind, l) == [dtype |-> kind, values |-> l]

LEMMA FitsIsCast ==
  ASSUME NEW cells, Column(cells), NEW kind, NEW l, Fits(l, cells, Len(cells), kind)
  PROVE  IsCast(Array(kind, l), cells, kind)
<1>1. DOMAIN cells = 1..Len(cells) /\ Len(cells) \in Nat
  BY LenProperties DEF Column
<1>2. Len(l) = Len(cells)
  BY <1>1, ListedAppend DEF Fits
<1> QED BY <1>1, <1>2 DEF Fits, IsCast, Array

LEMMA InferredColumn ==
  ASSUME NEW cells, Column(cells)
  PROVE  IsCast(IntoPython(Finalize(Replay(Fill("infer", Plan, cells), cells))), cells, CastKind(cells))
<1> DEFINE n == Len(cells)
           K == KindsOf(cells, n)
           b == Fill("infer", Plan, cells)
<1>1. n \in Nat /\ DOMAIN cells = 1..n
  BY LenProperties DEF Column
<1>2. PICK k, u, l, f, r : b = Buf(k, u, l, f, n, r) /\ GrownTo(k, u, l, f, r, cells, n)
  BY FillGrows DEF Grown
<1>3. Known(k, u, K) /\ CastKind(cells) = CastOf(K)
  BY <1>2, CastKindIs DEF GrownTo
<1> HIDE DEF b, K
<1>4. CASE r = Yes
  <2> DEFINE t == [i \in DOMAIN cells |-> Text(cells[i])]
  <2>1. k = "STRING" /\ CastOf(K) = "STRING"
    BY <1>2, <1>3, <1>4, CastOfKnown DEF GrownTo, Yes, No, Storage
  <2>2. Listed(t, n) /\ \A i \in 1..n : t[i] = Text(cells[i])
    BY <1>1 DEF Listed
  <2> HIDE DEF t
  <2>3. Fits(t, cells, n, "STRING")
    <3>1. \A i \in 1..n : IsCell(t[i], cells[i], "STRING")
      BY <2>2, CellValues
    <3> QED BY <2>2, <3>1 DEF Fits
  <2>4. Replay(b, cells) = Buf(k, u, t, f, n, No)
    BY <1>2, <1>4, Replayed DEF t
  <2>5. Storage(k, u) = "STRING"
    BY <2>1 DEF Storage
  <2>6. IntoPython(Finalize(Buf(k, u, t, f, n, No))) = Array(Storage(k, u), t)
    BY <2>1, FinalizeIs DEF Array
  <2> QED BY <1>3, <2>1, <2>3, <2>4, <2>5, <2>6, FitsIsCast DEF b
<1>5. CASE r = No
  <2>1. Replay(b, cells) = b
    BY <1>2, <1>5, NotReplayed
  <2>2. CASE k = "UNKNOWN"
    <3>1. IntoPython(Finalize(b)) = Array("FLOAT64", Repeated(NaN, n))
      BY <1>2, <2>2, FinalizeIs DEF Array
    <3>2. \A i \in 1..n : cells[i].kind = "NULL"
      BY <1>1, <1>3, <2>2, KindsFacts DEF K
    <3>3. Fits(Repeated(NaN, n), cells, n, "FLOAT64")
      BY <1>1, <3>2, CellValues, FitsRepeated
    <3>4. CastOf(K) = "FLOAT64"
      BY <1>3, <2>2, CastOfKnown
    <3> QED BY <1>3, <2>1, <3>1, <3>3, <3>4, FitsIsCast DEF b
  <2>3. CASE k # "UNKNOWN"
    <3>1. IntoPython(Finalize(b)) = Array(Storage(k, u), l)
      BY <1>2, <2>3, FinalizeIs DEF Array
    <3>2. Fits(l, cells, n, Storage(k, u))
      BY <1>2, <1>5, <2>3 DEF GrownTo, Yes, No
    <3>3. CastOf(K) = Storage(k, u)
      BY <1>3, <2>3, CastOfKnown
    <3> QED BY <1>3, <2>1, <3>1, <3>2, <3>3, FitsIsCast DEF b
  <2> QED BY <2>2, <2>3
<1> QED BY <1>2, <1>4, <1>5 DEF GrownTo

(* A plan that was found for cells of the kinds K, before and after the    *)
(* cells of a batch are taken into account (promote_numpy_column_plan).    *)
IsPlan(p, K) == p = [kind |-> p.kind, nullable |-> p.nullable] /\ Known(p.kind, p.nullable, K)

LEMMA FirstPlanIs ==
  /\ Plan = [kind |-> "UNKNOWN", nullable |-> No]
  /\ StringPlan = [kind |-> "STRING", nullable |-> No]
<1> DEFINE unknown == "UNKNOWN"
           text == "STRING"
<1>1. Plan = [kind |-> unknown, nullable |-> No]
  BY Zenon DEF Plan, No
<1>2. StringPlan = [Plan EXCEPT !.kind = text]
  BY DEF StringPlan
<1> HIDE DEF unknown, text
<1>3. [[kind |-> unknown, nullable |-> No] EXCEPT !.kind = text] = [kind |-> text, nullable |-> No]
  OBVIOUS
<1> QED BY <1>1, <1>2, <1>3 DEF unknown, text

LEMMA PromotePlanIs ==
  ASSUME NEW target, NEW observed, NEW K, NEW L, IsPlan(target, K), IsPlan(observed, L)
  PROVE  IsPlan(PromotePlan(target, observed), K \cup L)
<1> DEFINE t == target.kind
           o == observed.kind
           u == target.nullable \/ observed.nullable
           M == K \cup L
<1>1. Known(t, target.nullable, K) /\ Known(o, observed.nullable, L)
  BY DEF IsPlan
<1>2. u \in BOOLEAN
  OBVIOUS
<1>3. ASSUME NEW k, Known(k, u, M), PromotePlan(target, observed) = [kind |-> k, nullable |-> u]
      PROVE  IsPlan(PromotePlan(target, observed), M)
  <2> DEFINE v == u
  <2> HIDE DEF v
  <2>1. [kind |-> k, nullable |-> v].kind = k /\ [kind |-> k, nullable |-> v].nullable = v
    OBVIOUS
  <2>2. IsPlan([kind |-> k, nullable |-> v], M)
    BY <1>3, <2>1 DEF IsPlan, v
  <2> QED BY <1>3, <2>2 DEF v
<1>4. ASSUME "STRING" \in M \/ ("BOOL" \in M /\ ("INT64" \in M \/ "FLOAT64" \in M)),
             PromotePlan(target, observed) = StringPlan
      PROVE  IsPlan(PromotePlan(target, observed), M)
  <2>1. StringPlan = [kind |-> "STRING", nullable |-> No]
    BY FirstPlanIs
  <2>2. StringPlan.kind = "STRING" /\ StringPlan.nullable = No
    BY <2>1
  <2>3. Known("STRING", No, M)
    BY <1>4 DEF Known, No
  <2> QED BY <1>4, <2>1, <2>2, <2>3 DEF IsPlan
<1>5. CASE o = "UNKNOWN"
  <2> DEFINE v == u
  <2>1. Known(t, u, M)
    BY <1>1, <1>5, <1>2 DEF Known
  <2>2. PromotePlan(target, observed) = [target EXCEPT !.nullable = v]
    BY <1>5, Zenon DEF PromotePlan
  <2> HIDE DEF v
  <2>3. [target EXCEPT !.nullable = v] = [kind |-> t, nullable |-> v]
    BY DEF IsPlan
  <2> QED BY <1>3, <2>1, <2>2, <2>3 DEF v
<1>6. CASE o = "STRING"
  <2>1. PromotePlan(target, observed) = StringPlan
    BY <1>6 DEF PromotePlan
  <2> QED BY <1>1, <1>4, <1>6, <2>1 DEF Known
<1>7. CASE o \in Typed
  <2>0. o \notin {"UNKNOWN", "STRING"} /\ o \in L
    BY <1>1, <1>7 DEF Typed, Known
  <2>1. CASE t \in {"UNKNOWN", o}
    <3>1. PromotePlan(target, observed) = [kind |-> o, nullable |-> u]
      BY <2>0, <2>1, Zenon DEF PromotePlan
    <3>2. Known(o, u, M)
      BY <1>1, <1>7, <2>1 DEF Known, Typed
    <3> QED BY <1>3, <3>1, <3>2
  <2>2. CASE t \notin {"UNKNOWN", o} /\ {t, o} \subseteq Numeric
    <3>1. PromotePlan(target, observed) = [kind |-> "FLOAT64", nullable |-> u]
      BY <2>0, <2>2, Zenon DEF PromotePlan
    <3>2. Known("FLOAT64", u, M)
      BY <1>1, <1>7, <2>2 DEF Known, Typed, Numeric
    <3> QED BY <1>3, <3>1, <3>2
  <2>3. CASE t \notin {"UNKNOWN", o} /\ ~({t, o} \subseteq Numeric)
    <3>1. PromotePlan(target, observed) = StringPlan
      BY <2>0, <2>3, Zenon DEF PromotePlan
    <3>2. "STRING" \in M \/ ("BOOL" \in M /\ ("INT64" \in M \/ "FLOAT64" \in M))
      BY <1>1, <1>7, <2>0, <2>3 DEF Known, Typed, Numeric
    <3> QED BY <1>4, <3>1, <3>2
  <2> QED BY <2>1, <2>2, <2>3
<1> QED BY <1>1, <1>5, <1>6, <1>7 DEF Known, Typed

LEMMA InferPlanIs ==
  ASSUME NEW plan, NEW K, IsPlan(plan, K), NEW cells, Column(cells)
  PROVE  IsPlan(InferPlan(plan, cells), K \cup KindsOf(cells, Len(cells)))
<1> DEFINE b == Fill("infer", Plan, cells)
           L == KindsOf(cells, Len(cells))
<1>1. PICK k, u, l, f, r : /\ b = Buf(k, u, l, f, Len(cells), r)
                           /\ GrownTo(k, u, l, f, r, cells, Len(cells))
  BY FillGrows DEF Grown
<1>2. b.kind = k /\ b.nullable = u
  BY <1>1 DEF Buf
<1>3. Known(k, u, L)
  BY <1>1 DEF GrownTo
<1> DEFINE o == [kind |-> b.kind, nullable |-> b.nullable]
<1>4. InferPlan(plan, cells) = PromotePlan(plan, o)
  BY Zenon DEF InferPlan
<1> HIDE DEF b, L
<1>5. o.kind = k /\ o.nullable = u /\ o = [kind |-> o.kind, nullable |-> o.nullable]
  BY <1>2
<1> HIDE DEF o
<1>6. IsPlan(o, L)
  BY <1>3, <1>5 DEF IsPlan
<1> QED BY <1>4, <1>6, PromotePlanIs DEF L

-----------------------------------------------------------------------------
(* append_fixed_casted(), case by case. *)
LEMMA FixedUnknown ==
  ASSUME NEW u, NEW l, NEW f, NEW s, NEW cell
  PROVE  AppendFixed(Buf("UNKNOWN", u, l, f, s, No), cell)
           = AppendCasted(Buf("UNKNOWN", u, l, f, s, No), cell)
<1> DEFINE b == Buf("UNKNOWN", u, l, f, s, No)
<1>1. b.kind = "UNKNOWN"
  BY DEF Buf
<1> HIDE DEF b
<1>2. AppendFixed(b, cell) = AppendCasted(b, cell)
  BY <1>1 DEF AppendFixed
<1> QED BY <1>2 DEF b

LEMMA FixedText ==
  ASSUME NEW u, NEW l, NEW f, NEW s, NEW cell
  PROVE  AppendFixed(Buf("STRING", u, l, f, s, No), cell)
           = Buf("STRING", u, Append(l, Text(cell)), f, s + 1, No)
<1> DEFINE b == Buf("STRING", u, l, f, s, No)
<1>1. b.kind # "UNKNOWN"
  BY DEF Buf
<1>2. StorageKind(b) = "STRING"
  BY StorageIs DEF Storage
<1>3. Push(b, Text(cell)) = Buf("STRING", u, Append(l, Text(cell)), f, s + 1, No)
  BY PushIs
<1> HIDE DEF b
<1>4. AppendFixed(b, cell) = Push(b, Text(cell))
  BY <1>1, <1>2 DEF AppendFixed
<1> QED BY <1>3, <1>4 DEF b

LEMMA FixedNumber ==
  ASSUME NEW k, k # "UNKNOWN", NEW u, Storage(k, u) = "FLOAT64", NEW l, NEW f, NEW s, NEW cell,
         cell.kind \in Typed
  PROVE  AppendFixed(Buf(k, u, l, f, s, No), cell) = Buf(k, u, Append(l, Number(cell)), Yes, s + 1, No)
<1> DEFINE b == Buf(k, u, l, f, s, No)
<1>1. b.kind # "UNKNOWN"
  BY DEF Buf
<1>2. StorageKind(b) = "FLOAT64"
  BY StorageIs
<1>3. AppendFloat(b, cell) = Buf(k, u, Append(l, Number(cell)), Yes, s + 1, No)
  BY AppendFloatIs
<1> HIDE DEF b
<1>4. AppendFixed(b, cell) = AppendFloat(b, cell)
  BY <1>1, <1>2 DEF AppendFixed, Typed
<1> QED BY <1>3, <1>4 DEF b

LEMMA FixedNaN ==
  ASSUME NEW k, k # "UNKNOWN", NEW u, Storage(k, u) = "FLOAT64", NEW l, NEW f, NEW s, NEW cell,
         cell.kind \in CellKinds \ Typed
  PROVE  AppendFixed(Buf(k, u, l, f, s, No), cell) = Buf(k, u, Append(l, NaN), Yes, s + 1, No)
<1> DEFINE b == Buf(k, u, l, f, s, No)
<1>1. b.kind # "UNKNOWN"
  BY DEF Buf
<1>2. StorageKind(b) = "FLOAT64"
  BY StorageIs
<1>3. [b EXCEPT !.floats = Yes] = Buf(k, u, l, Yes, s, No)
  BY SetFloats
<1>4. Push(Buf(k, u, l, Yes, s, No), NaN) = Buf(k, u, Append(l, NaN), Yes, s + 1, No)
  BY PushIs
<1> HIDE DEF b
<1>5. ~(cell.kind \in {"INT64", "BOOL", "FLOAT64"}) /\ StorageKind(b) # "STRING"
  BY <1>2 DEF Typed
<1>6. AppendFixed(b, cell) = Push([b EXCEPT !.floats = Yes], NaN)
  BY <1>1, <1>2, <1>5, Zenon DEF AppendFixed, Yes
<1> QED BY <1>3, <1>4, <1>6 DEF b

LEMMA FixedPlain ==
  ASSUME NEW k, NEW u, Storage(k, u) \in {"INT64", "BOOL"}, NEW l, NEW f, NEW s, NEW cell
  PROVE  \E v : /\ AppendFixed(Buf(k, u, l, f, s, No), cell) = Buf(k, u, Append(l, v), f, s + 1, No)
                /\ cell.kind = Storage(k, u) => v = <<Storage(k, u), cell.value>>
<1> DEFINE b == Buf(k, u, l, f, s, No)
           v == <<Storage(k, u), IF cell.kind = Storage(k, u) THEN cell.value ELSE "0">>
<1>1. b.kind # "UNKNOWN"
  BY DEF Buf, Storage
<1>2. StorageKind(b) = Storage(k, u)
  BY StorageIs
<1>3. Push(b, v) = Buf(k, u, Append(l, v), f, s + 1, No)
  BY PushIs
<1> HIDE DEF b
<1>4. AppendFixed(b, cell) = Push(b, v)
  BY <1>1, <1>2 DEF AppendFixed
<1>5. cell.kind = Storage(k, u) => v = <<Storage(k, u), cell.value>>
  OBVIOUS
<1> HIDE DEF v
<1> QED BY <1>3, <1>4, <1>5 DEF b

-----------------------------------------------------------------------------
(* A column of which all is known: its plan has seen the kinds of all its  *)
(* cells.                                                                  *)
GivenTo(k, u, l, f, K, cells, n) ==
    /\ Known(k, u, K)
    /\ IF k = "UNKNOWN" THEN l = <<>>
       ELSE /\ Fits(l, cells, n, Storage(k, u))
            /\ Storage(k, u) = "FLOAT64" => Fits(Promoted(l, f), cells, n, "FLOAT64")
    /\ f \in {Yes, No}
Given(b, k, K, cells, n) == \E u, l, f : b = Buf(k, u, l, f, n, No) /\ GivenTo(k, u, l, f, K, cells, n)

LEMMA PromotedYes == ASSUME NEW l PROVE Promoted(l, Yes) = l
BY DEF Promoted, Yes

LEMMA GivenDouble ==
  ASSUME NEW k, NEW u, NEW l, NEW K, NEW cells, NEW n, Known(k, u, K), k # "UNKNOWN",
         Storage(k, u) = "FLOAT64", Fits(l, cells, n, "FLOAT64")
  PROVE  Given(Buf(k, u, l, Yes, n, No), k, K, cells, n)
<1>1. GivenTo(k, u, l, Yes, K, cells, n)
  BY PromotedYes DEF GivenTo
<1> QED BY <1>1 DEF Given

LEMMA GivenPlain ==
  ASSUME NEW k, NEW u, NEW l, NEW f \in {Yes, No}, NEW K, NEW cells, NEW n, Known(k, u, K), k # "UNKNOWN",
         Storage(k, u) # "FLOAT64", Fits(l, cells, n, Storage(k, u))
  PROVE  Given(Buf(k, u, l, f, n, No), k, K, cells, n)
<1>1. GivenTo(k, u, l, f, K, cells, n)
  BY DEF GivenTo
<1> QED BY <1>1 DEF Given

LEMMA GivenText ==
  ASSUME NEW u, NEW l, NEW f, NEW K, NEW cells, NEW n \in Nat,
         GivenTo("STRING", u, l, f, K, cells, n)
  PROVE  Given(Buf("STRING", u, Append(l, Text(cells[n + 1])), f, n + 1, No), "STRING", K, cells, n + 1)
<1>1. Known("STRING", u, K) /\ f \in {Yes, No} /\ Fits(l, cells, n, "STRING")
  BY DEF GivenTo, Storage
<1>2. Fits(Append(l, Text(cells[n + 1])), cells, n + 1, "STRING")
  BY <1>1, CellValues, FitsAppend
<1> QED BY <1>1, <1>2, GivenPlain DEF Storage

LEMMA GivenUnknown ==
  ASSUME NEW u, NEW l, NEW f, NEW K, NEW cells, NEW n \in Nat, cells[n + 1].kind \in K,
         GivenTo("UNKNOWN", u, l, f, K, cells, n)
  PROVE  Given(AppendCasted(Buf("UNKNOWN", u, l, f, n, No), cells[n + 1]), "UNKNOWN", K, cells, n + 1)
<1> DEFINE b == Buf("UNKNOWN", u, l, f, n, No)
           cell == cells[n + 1]
<1>1. /\ Known("UNKNOWN", u, K) /\ l = <<>> /\ f \in {Yes, No} /\ cell.kind = "NULL" /\ "NULL" \in K
  BY DEF GivenTo, Known
<1>2. AppendCasted(b, cell) = AppendNull(b)
  BY <1>1, CastedNull
<1>3. f \in BOOLEAN
  BY <1>1 DEF Yes, No
<1>4. AppendNull(b) = Buf("UNKNOWN", Yes, l, f, n + 1, No)
  BY <1>3, AppendNullIs
<1>5. Known("UNKNOWN", Yes, K)
  BY <1>1 DEF Known, Yes
<1>6. GivenTo("UNKNOWN", Yes, l, f, K, cells, n + 1)
  BY <1>1, <1>5 DEF GivenTo
<1> QED BY <1>2, <1>4, <1>6 DEF Given

LEMMA GivenInferring ==
  ASSUME NEW k \in Typed, NEW u, NEW l, NEW f, NEW K, NEW cells, NEW n \in Nat, cells[n + 1].kind \in K,
         GivenTo(k, u, l, f, K, cells, n)
  PROVE  Given(AppendCasted(Buf(k, u, l, f, n, No), cells[n + 1]), k, K, cells, n + 1)
<1> DEFINE b == Buf(k, u, l, f, n, No)
           cell == cells[n + 1]
           c == cell.kind
<1>1. /\ Known(k, u, K) /\ f \in {Yes, No} /\ k # "UNKNOWN" /\ k # "STRING" /\ k \in {"UNKNOWN"} \cup Typed
      /\ Fits(l, cells, n, Storage(k, u))
      /\ Storage(k, u) = "FLOAT64" => Fits(Promoted(l, f), cells, n, "FLOAT64")
  BY DEF GivenTo, Typed
<1>2. f \in BOOLEAN
  BY <1>1 DEF Yes, No
<1>3. c = "NULL" \/ c = k \/ (k = "FLOAT64" /\ c = "INT64")
  BY <1>1 DEF Known, Typed
<1>4. CASE c = "NULL"
  <2> DEFINE t == Append(Promoted(l, f), NaN)
  <2>1. AppendCasted(b, cell) = AppendNull(b)
    BY <1>1, <1>4, CastedNull
  <2>2. AppendNull(b) = Buf(k, Yes, t, Yes, n + 1, No)
    BY <1>1, <1>2, AppendNullIs
  <2>3. Known(k, Yes, K) /\ Storage(k, u) = "FLOAT64" /\ Storage(k, Yes) = "FLOAT64"
    BY <1>1, <1>4 DEF Known, Storage, Yes, Typed
  <2>4. Fits(t, cells, n + 1, "FLOAT64")
    BY <1>1, <1>4, <2>3, CellValues, FitsAppend
  <2> HIDE DEF t
  <2> QED BY <1>1, <2>1, <2>2, <2>3, <2>4, GivenDouble
<1>5. CASE c = k
  <2>1. AppendCasted(b, cell) = AppendCurrentKind(b, cell)
    BY <1>1, <1>5, CastedSame
  <2>2. CASE Storage(k, u) = "FLOAT64"
    <3>1. AppendCurrentKind(b, cell) = Buf(k, u, Append(l, Number(cell)), Yes, n + 1, No)
      BY <2>2, CurrentDouble
    <3>2. Fits(Append(l, Number(cell)), cells, n + 1, "FLOAT64")
      BY <1>1, <1>5, <2>2, CellValues, FitsAppend DEF Typed
    <3> QED BY <1>1, <2>1, <2>2, <3>1, <3>2, GivenDouble
  <2>3. CASE Storage(k, u) # "FLOAT64"
    <3> DEFINE t == Append(l, <<c, cell.value>>)
    <3>1. AppendCurrentKind(b, cell) = Buf(k, u, t, f, n + 1, No)
      BY <2>3, CurrentPlain
    <3>2. Storage(k, u) = c /\ c \in {"INT64", "BOOL"}
      BY <1>1, <1>5, <2>3 DEF Storage, Typed
    <3>3. IsCell(<<c, cell.value>>, cell, c)
      BY <3>2, CellValues
    <3>4. Fits(t, cells, n + 1, Storage(k, u))
      BY <1>1, <3>2, <3>3, FitsAppend
    <3> HIDE DEF t
    <3> QED BY <1>1, <2>1, <2>3, <3>1, <3>4, GivenPlain
  <2> QED BY <2>2, <2>3
<1>6. CASE k = "FLOAT64" /\ c = "INT64"
  <2> DEFINE t == Append(Promoted(l, f), Number(cell))
  <2>1. AppendCasted(b, cell) = AppendFloat([PromoteToFloat(b) EXCEPT !.kind = "FLOAT64"], cell)
    BY <1>1, <1>6, CastedWiden
  <2>2. AppendFloat([PromoteToFloat(b) EXCEPT !.kind = "FLOAT64"], cell)
          = Buf("FLOAT64", u, t, Yes, n + 1, No)
    BY <1>2, AppendWidenedIs
  <2>3. Storage(k, u) = "FLOAT64" /\ Storage("FLOAT64", u) = "FLOAT64"
    BY <1>6 DEF Storage
  <2>4. Fits(t, cells, n + 1, "FLOAT64")
    <3>1. IsCell(Number(cell), cell, "FLOAT64")
      BY <1>6, CellValues
    <3> QED BY <1>1, <2>3, <3>1, FitsAppend
  <2> HIDE DEF t
  <2> QED BY <1>1, <1>6, <2>1, <2>2, <2>3, <2>4, GivenDouble
<1> QED BY <1>3, <1>4, <1>5, <1>6

LEMMA GivenFixed ==
  ASSUME NEW k \in Typed, NEW u, NEW l, NEW f, NEW K, NEW cells, NEW n \in Nat, cells[n + 1].kind \in K,
         GivenTo(k, u, l, f, K, cells, n)
  PROVE  Given(AppendFixed(Buf(k, u, l, f, n, No), cells[n + 1]), k, K, cells, n + 1)
<1> DEFINE b == Buf(k, u, l, f, n, No)
           cell == cells[n + 1]
           c == cell.kind
<1>1. /\ Known(k, u, K) /\ f \in {Yes, No} /\ k # "UNKNOWN" /\ k # "STRING"
      /\ Fits(l, cells, n, Storage(k, u))
  BY DEF GivenTo, Typed
<1>2. c = "NULL" \/ c \in Typed
  BY <1>1 DEF Known, Typed
<1>3. CASE Storage(k, u) = "FLOAT64" /\ c = "NULL"
  <2>1. AppendFixed(b, cell) = Buf(k, u, Append(l, NaN), Yes, n + 1, No)
    BY <1>1, <1>3, FixedNaN DEF CellKinds, Typed
  <2>2. Fits(Append(l, NaN), cells, n + 1, "FLOAT64")
    BY <1>1, <1>3, CellValues, FitsAppend
  <2> QED BY <1>1, <1>3, <2>1, <2>2, GivenDouble
<1>4. CASE Storage(k, u) = "FLOAT64" /\ c \in Typed
  <2>1. AppendFixed(b, cell) = Buf(k, u, Append(l, Number(cell)), Yes, n + 1, No)
    BY <1>1, <1>4, FixedNumber
  <2>2. Fits(Append(l, Number(cell)), cells, n + 1, "FLOAT64")
    BY <1>1, <1>4, CellValues, FitsAppend DEF Typed
  <2> QED BY <1>1, <1>4, <2>1, <2>2, GivenDouble
<1>5. CASE Storage(k, u) # "FLOAT64"
  <2>1. Storage(k, u) = k /\ k \in {"INT64", "BOOL"} /\ c = k
    BY <1>1, <1>2, <1>5 DEF Storage, Known, Typed
  <2>2. PICK v : /\ AppendFixed(b, cell) = Buf(k, u, Append(l, v), f, n + 1, No)
                 /\ c = Storage(k, u) => v = <<Storage(k, u), cell.value>>
    BY <2>1, FixedPlain
  <2>3. IsCell(v, cell, k)
    BY <2>1, <2>2, CellValues
  <2>4. Fits(Append(l, v), cells, n + 1, Storage(k, u))
    BY <1>1, <2>1, <2>3, FitsAppend
  <2> QED BY <1>1, <1>5, <2>2, <2>4, GivenPlain
<1> QED BY <1>2, <1>3, <1>4, <1>5

LEMMA GivenStep ==
  ASSUME NEW mode \in {"infer", "fixed"}, NEW b, NEW k, NEW K, NEW cells, NEW n \in Nat,
         cells[n + 1].kind \in K, Given(b, k, K, cells, n)
  PROVE  Given(AppendCell(mode, b, cells[n + 1]), k, K, cells, n + 1)
<1> DEFINE cell == cells[n + 1]
<1>1. PICK u, l, f : b = Buf(k, u, l, f, n, No) /\ GivenTo(k, u, l, f, K, cells, n)
  BY DEF Given
<1>2. k \in {"STRING", "UNKNOWN"} \/ k \in Typed
  BY <1>1 DEF GivenTo, Known, Typed
<1>3. CASE mode = "infer"
  <2>1. AppendCell(mode, b, cell) = AppendInferring(b, cell)
    BY <1>3 DEF AppendCell
  <2>2. ~b.replay
    BY <1>1 DEF Buf, No
  <2>3. StorageKind(b) = Storage(k, u)
    BY <1>1, StorageIs
  <2>4. CASE k = "STRING"
    <3>1. AppendInferring(b, cell) = Push(b, Text(cell))
      BY <2>2, <2>3, <2>4 DEF AppendInferring, Storage
    <3>2. Push(b, Text(cell)) = Buf(k, u, Append(l, Text(cell)), f, n + 1, No)
      BY <1>1, PushIs
    <3> QED BY <1>1, <2>1, <2>4, <3>1, <3>2, GivenText
  <2>5. CASE k # "STRING"
    <3>1. AppendInferring(b, cell) = AppendCasted(b, cell)
      BY <2>3, <2>5 DEF AppendInferring, Storage
    <3> QED BY <1>1, <1>2, <2>1, <2>5, <3>1, GivenUnknown, GivenInferring
  <2> QED BY <2>4, <2>5
<1>4. CASE mode = "fixed"
  <2>1. AppendCell(mode, b, cell) = AppendFixed(b, cell)
    BY <1>4 DEF AppendCell
  <2>2. CASE k = "UNKNOWN"
    <3>1. AppendFixed(b, cell) = AppendCasted(b, cell)
      BY <1>1, <2>2, FixedUnknown
    <3> QED BY <1>1, <2>1, <2>2, <3>1, GivenUnknown
  <2>3. CASE k = "STRING"
    <3>1. AppendFixed(b, cell) = Buf("STRING", u, Append(l, Text(cell)), f, n + 1, No)
      BY <1>1, <2>3, FixedText
    <3> QED BY <1>1, <2>1, <2>3, <3>1, GivenText
  <2>4. CASE k \in Typed
    BY <1>1, <2>1, <2>4, GivenFixed
  <2> QED BY <1>2, <2>2, <2>3, <2>4
<1> QED BY <1>3, <1>4

LEMMA GivenStart ==
  ASSUME NEW plan, NEW K, IsPlan(plan, K), NEW cells
  PROVE  Given(Buffer(plan), plan.kind, K, cells, 0)
<1> DEFINE k == plan.kind
           u == plan.nullable
<1>1. Known(k, u, K)
  BY DEF IsPlan
<1>2. Buffer(plan) = Buf(k, u, <<>>, No, 0, No)
  BY BufferIs
<1>3. Promoted(<<>>, No) = <<>>
  BY DEF Promoted, No, Doubles
<1>4. Fits(<<>>, cells, 0, Storage(k, u)) /\ Fits(<<>>, cells, 0, "FLOAT64")
  BY ListedEmpty DEF Fits
<1>5. GivenTo(k, u, <<>>, No, K, cells, 0)
  BY <1>1, <1>3, <1>4, Zenon DEF GivenTo
<1> QED BY <1>2, <1>5 DEF Given

LEMMA GivenColumn ==
  ASSUME NEW mode \in {"infer", "fixed"}, NEW plan, NEW K, IsPlan(plan, K),
         NEW cells, Column(cells), \A i \in 1..Len(cells) : cells[i].kind \in K
  PROVE  IsCast(IntoPython(Finalize(Fill(mode, plan, cells))), cells, CastOf(K))
<1> DEFINE n == Len(cells)
           k == plan.kind
<1>0. Len(cells) \in Nat
  BY LenProperties DEF Column
<1>1. n \in Nat
  BY <1>0
<1>2. PICK g : /\ Fill(mode, plan, cells) = g[Len(cells)] /\ g[0] = Buffer(plan)
               /\ \A i \in 1..Len(cells) : g[i] = AppendCell(mode, g[i - 1], cells[i])
  <2> DEFINE m == mode
  <2> HIDE DEF m
  <2>1. \E g : /\ Fill(m, plan, cells) = g[Len(cells)] /\ g[0] = Buffer(plan)
               /\ \A i \in 1..Len(cells) : g[i] = AppendCell(m, g[i - 1], cells[i])
    BY <1>0, FillIs
  <2> QED BY <2>1 DEF m
<1> DEFINE T == {i \in Nat : i <= n => Given(g[i], k, K, cells, i)}
<1>3. 0 \in T
  BY <1>2, GivenStart
<1>4. ASSUME NEW i \in Nat, i \in T PROVE i + 1 \in T
  <2> SUFFICES ASSUME i + 1 <= n PROVE Given(g[i + 1], k, K, cells, i + 1)
    OBVIOUS
  <2>1. i + 1 \in 1..n /\ (i + 1) - 1 = i /\ Given(g[i], k, K, cells, i)
    BY <1>1, <1>4
  <2>2. g[i + 1] = AppendCell(mode, g[i], cells[i + 1]) /\ cells[i + 1].kind \in K
    BY <1>2, <2>1
  <2> QED BY <2>1, <2>2, GivenStep
<1>5. n \in T
  <2> HIDE DEF T
  <2> QED BY <1>1, <1>3, <1>4, Induction
<1>6. PICK u, l, f : Fill(mode, plan, cells) = Buf(k, u, l, f, n, No) /\ GivenTo(k, u, l, f, K, cells, n)
  BY <1>1, <1>2, <1>5 DEF Given
<1>7. Known(k, u, K)
  BY <1>6 DEF GivenTo
<1>8. CASE k = "UNKNOWN"
  <2>1. IntoPython(Finalize(Fill(mode, plan, cells))) = Array("FLOAT64", Repeated(NaN, n))
    BY <1>6, <1>8, FinalizeIs DEF Array
  <2>2. \A i \in 1..n : cells[i].kind = "NULL"
    BY <1>7, <1>8 DEF Known
  <2>3. Fits(Repeated(NaN, n), cells, n, "FLOAT64")
    BY <1>1, <2>2, CellValues, FitsRepeated
  <2>4. CastOf(K) = "FLOAT64"
    BY <1>7, <1>8, CastOfKnown
  <2> QED BY <2>1, <2>3, <2>4, FitsIsCast
<1>9. CASE k # "UNKNOWN"
  <2>1. IntoPython(Finalize(Fill(mode, plan, cells))) = Array(Storage(k, u), l)
    BY <1>6, <1>9, FinalizeIs DEF Array
  <2>2. Fits(l, cells, n, Storage(k, u))
    BY <1>6, <1>9 DEF GivenTo
  <2>3. CastOf(K) = Storage(k, u)
    BY <1>7, <1>9, CastOfKnown
  <2> QED BY <2>1, <2>2, <2>3, FitsIsCast
<1> QED BY <1>8, <1>9

-----------------------------------------------------------------------------
(* Without cast=True a column is of texts. *)
LEMMA TextColumn ==
  ASSUME NEW cells, Column(cells)
  PROVE  \E l, f : /\ Fill("text", StringPlan, cells) = Buf("STRING", No, l, f, Len(cells), No)
                   /\ Fits(l, cells, Len(cells), "STRING")
<1> DEFINE n == Len(cells)
           Good(b, i) == \E l, f : b = Buf("STRING", No, l, f, i, No) /\ Fits(l, cells, i, "STRING")
<1>1. n \in Nat
  BY LenProperties DEF Column
<1>2. PICK g : /\ Fill("text", StringPlan, cells) = g[n] /\ g[0] = Buffer(StringPlan)
               /\ \A i \in 1..n : g[i] = AppendCell("text", g[i - 1], cells[i])
  BY <1>1, FillIs
<1> DEFINE T == {i \in Nat : i <= n => Good(g[i], i)}
<1>3. 0 \in T
  <2>1. StringPlan.kind = "STRING" /\ StringPlan.nullable = No
    BY FirstPlanIs
  <2>2. g[0] = Buf("STRING", No, <<>>, No, 0, No)
    BY <1>2, <2>1, BufferIs
  <2>3. Fits(<<>>, cells, 0, "STRING")
    BY ListedEmpty DEF Fits
  <2> QED BY <2>2, <2>3
<1>4. ASSUME NEW i \in Nat, i \in T PROVE i + 1 \in T
  <2> SUFFICES ASSUME i + 1 <= n PROVE Good(g[i + 1], i + 1)
    OBVIOUS
  <2>1. i + 1 \in 1..n /\ (i + 1) - 1 = i /\ Good(g[i], i)
    BY <1>1, <1>4
  <2>2. PICK l, f : g[i] = Buf("STRING", No, l, f, i, No) /\ Fits(l, cells, i, "STRING")
    BY <2>1
  <2> DEFINE cell == cells[i + 1]
             text == "STRING"
             b == Buf(text, No, l, f, i, No)
             t == Append(l, Text(cell))
  <2>3. g[i + 1] = AppendString(b, cell)
    BY <1>2, <2>1, <2>2 DEF AppendCell
  <2>4. [b EXCEPT !.kind = text] = b
    BY SetKind
  <2>5. Push(b, Text(cell)) = Buf(text, No, t, f, i + 1, No)
    BY PushIs
  <2> HIDE DEF b
  <2>6. AppendString(b, cell) = Push(b, Text(cell))
    BY <2>4, Zenon DEF AppendString
  <2>7. Fits(t, cells, i + 1, "STRING")
    BY <2>2, CellValues, FitsAppend
  <2> HIDE DEF t
  <2> QED BY <2>3, <2>5, <2>6, <2>7
<1>5. n \in T
  <2> HIDE DEF T
  <2> QED BY <1>1, <1>3, <1>4, Induction
<1>6. Good(g[n], n)
  BY <1>1, <1>5
<1> QED BY <1>2, <1>6

LEMMA TextColumnIsCast ==
  ASSUME NEW cells, Column(cells)
  PROVE  /\ IsCast(IntoPython(Finalize(Fill("text", StringPlan, cells))), cells, "STRING")
         /\ IsCast(IntoPython(Finalize(Replay(Fill("text", StringPlan, cells), cells))), cells, "STRING")
<1> DEFINE b == Fill("text", StringPlan, cells)
           n == Len(cells)
<1>1. PICK l, f : b = Buf("STRING", No, l, f, n, No) /\ Fits(l, cells, n, "STRING")
  BY TextColumn
<1>2. Replay(b, cells) = b
  BY <1>1, NotReplayed
<1>3. IntoPython(Finalize(b)) = Array("STRING", l)
  BY <1>1, FinalizeIs DEF Array, Storage
<1> HIDE DEF b
<1>4. IsCast(IntoPython(Finalize(b)), cells, "STRING")
  BY <1>1, <1>3, FitsIsCast
<1> QED BY <1>2, <1>4 DEF b

-----------------------------------------------------------------------------
(* A column of which something is known, whatever cells come: what is kept *)
(* is the type, and the length.                                            *)
FixedTo(k, u, l, n, plan) ==
    /\ k \in BufferKinds /\ u \in {Yes, No}
    /\ IF k = "UNKNOWN" THEN l = <<>> /\ (u = Yes \/ n = 0) ELSE Listed(l, n)
    /\ plan.kind # "UNKNOWN" => k = plan.kind /\ u = plan.nullable
Fixed(b, plan, n) == \E k, u, l, f : b = Buf(k, u, l, f, n, No) /\ FixedTo(k, u, l, n, plan)

LEMMA ListedRepeated == ASSUME NEW v, NEW n \in Nat PROVE Listed(Repeated(v, n), n)
BY DEF Listed, Repeated

LEMMA FixedStep ==
  ASSUME NEW plan, NEW b, NEW n \in Nat, NEW cell, cell.kind \in CellKinds, Fixed(b, plan, n)
  PROVE  Fixed(AppendFixed(b, cell), plan, n + 1)
<1> DEFINE c == cell.kind
<1>1. PICK k, u, l, f : b = Buf(k, u, l, f, n, No) /\ FixedTo(k, u, l, n, plan)
  BY DEF Fixed
<1>2. k \in BufferKinds /\ u \in {Yes, No} /\ (plan.kind # "UNKNOWN" => k = plan.kind /\ u = plan.nullable)
  BY <1>1 DEF FixedTo
<1>3. ASSUME NEW x \in BufferKinds \ {"UNKNOWN"}, NEW t, NEW v, NEW w, Listed(t, n),
             k \in {"UNKNOWN", x},
             AppendFixed(b, cell) = Buf(x, u, Append(t, v), w, n + 1, No)
      PROVE  Fixed(AppendFixed(b, cell), plan, n + 1)
  <2> DEFINE e == Append(t, v)
  <2>1. Listed(e, n + 1)
    BY <1>3, ListedAppend
  <2> HIDE DEF e
  <2>2. FixedTo(x, u, e, n + 1, plan)
    BY <1>2, <1>3, <2>1 DEF FixedTo
  <2> QED BY <1>3, <2>2 DEF Fixed, e
<1>4. CASE k = "STRING"
  <2>1. AppendFixed(b, cell) = Buf("STRING", u, Append(l, Text(cell)), f, n + 1, No)
    BY <1>1, <1>4, FixedText
  <2>2. Listed(l, n)
    BY <1>1, <1>4 DEF FixedTo
  <2>3. "STRING" \in BufferKinds \ {"UNKNOWN"} /\ k \in {"UNKNOWN", "STRING"}
    BY <1>4 DEF BufferKinds
  <2> QED BY <1>3, <2>1, <2>2, <2>3
<1>5. CASE k \in Typed
  <2>1. Listed(l, n) /\ k # "UNKNOWN" /\ k \in BufferKinds \ {"UNKNOWN"} /\ k \in {"UNKNOWN", k}
    BY <1>1, <1>2, <1>5 DEF FixedTo, Typed
  <2>2. CASE Storage(k, u) = "FLOAT64" /\ c \in Typed
    <3>1. AppendFixed(b, cell) = Buf(k, u, Append(l, Number(cell)), Yes, n + 1, No)
      BY <1>1, <2>1, <2>2, FixedNumber
    <3> QED BY <1>3, <2>1, <3>1
  <2>3. CASE Storage(k, u) = "FLOAT64" /\ c \notin Typed
    <3>1. AppendFixed(b, cell) = Buf(k, u, Append(l, NaN), Yes, n + 1, No)
      BY <1>1, <2>1, <2>3, FixedNaN
    <3> QED BY <1>3, <2>1, <3>1
  <2>4. CASE Storage(k, u) # "FLOAT64"
    <3>1. Storage(k, u) \in {"INT64", "BOOL"}
      BY <1>5, <2>4 DEF Storage, Typed
    <3>2. PICK v : AppendFixed(b, cell) = Buf(k, u, Append(l, v), f, n + 1, No)
      BY <1>1, <3>1, FixedPlain
    <3> QED BY <1>3, <2>1, <3>2
  <2> QED BY <2>2, <2>3, <2>4
<1>6. CASE k = "UNKNOWN"
  <2> DEFINE z == Buf("UNKNOWN", u, l, f, n, No)
  <2>0. b = z /\ l = <<>> /\ (u = Yes \/ n = 0)
    BY <1>1, <1>6 DEF FixedTo
  <2>1. AppendFixed(b, cell) = AppendCasted(z, cell)
    BY <2>0, FixedUnknown
  <2>2. CASE c = "NULL"
    <3>1. AppendCasted(z, cell) = AppendNull(z)
      BY <2>2, CastedNull
    <3>2. z.list = l /\ z.kind = "UNKNOWN"
      BY DEF Buf
    <3>3. AppendNull(z) = Buf("UNKNOWN", Yes, l, f, n + 1, No)
      <4>1. [z EXCEPT !.nullable = Yes] = Buf("UNKNOWN", Yes, l, f, n, No)
        BY SetNullable
      <4> DEFINE y == Buf("UNKNOWN", Yes, l, f, n, No)
                 m == n + 1
      <4>2. y.seen + 1 = m
        BY DEF Buf
      <4> HIDE DEF m
      <4>3. [y EXCEPT !.seen = m] = Buf("UNKNOWN", Yes, l, f, m, No)
        BY SetSeen
      <4> HIDE DEF y, z
      <4>4. AppendNull(z) = [[z EXCEPT !.nullable = Yes] EXCEPT !.seen = [z EXCEPT !.nullable = Yes].seen + 1]
        BY <3>2, Zenon DEF AppendNull, Yes
      <4>5. AppendNull(z) = [y EXCEPT !.seen = m]
        BY <4>1, <4>2, <4>4 DEF y
      <4> QED BY <4>3, <4>5 DEF m
    <3>4. FixedTo("UNKNOWN", Yes, l, n + 1, plan)
      <4>1. plan.kind = "UNKNOWN"
        BY <1>2, <1>6
      <4> QED BY <2>0, <4>1 DEF FixedTo, BufferKinds
    <3> QED BY <2>1, <3>1, <3>3, <3>4 DEF Fixed
  <2>3. CASE c = "STRING"
    <3>1. AppendCasted(z, cell) = AppendStringish(z, cell)
      BY <2>3, CastedString
    <3>2. AppendStringish(z, cell) = Buf("STRING", u, Append(Repeated(NoText, n), Text(cell)), f, n + 1, No)
      BY AppendStringishIs
    <3>3. Listed(Repeated(NoText, n), n)
      BY ListedRepeated
    <3>4. "STRING" \in BufferKinds \ {"UNKNOWN"} /\ k \in {"UNKNOWN", "STRING"}
      BY <1>6 DEF BufferKinds
    <3>5. AppendFixed(b, cell) = Buf("STRING", u, Append(Repeated(NoText, n), Text(cell)), f, n + 1, No)
      BY <2>1, <3>1, <3>2
    <3> QED BY <1>3, <3>3, <3>4, <3>5
  <2>4. CASE c \in Typed
    <3>0. c \in BufferKinds \ {"UNKNOWN"} /\ k \in {"UNKNOWN", c}
      BY <1>6, <2>4 DEF BufferKinds, Typed
    <3>1. AppendCasted(z, cell) = StartTypedColumn(z, cell)
      BY <2>4, CastedStart
    <3>2. CASE u \/ c = "FLOAT64"
      <4>1. StartTypedColumn(z, cell) = Buf(c, u, Append(Repeated(NaN, n), Number(cell)), Yes, n + 1, No)
        BY <3>2, StartDouble
      <4>2. Listed(Repeated(NaN, n), n)
        BY ListedRepeated
      <4>3. AppendFixed(b, cell) = Buf(c, u, Append(Repeated(NaN, n), Number(cell)), Yes, n + 1, No)
        BY <2>1, <3>1, <4>1
      <4> QED BY <1>3, <3>0, <4>2, <4>3
    <3>3. CASE ~(u \/ c = "FLOAT64")
      <4>1. StartTypedColumn(z, cell) = Buf(c, u, Append(l, <<c, cell.value>>), f, n + 1, No)
        BY <3>3, StartPlain
      <4>2. n = 0
        BY <2>0, <3>3 DEF Yes
      <4>3. Listed(l, n)
        BY <2>0, <4>2, ListedEmpty
      <4>4. AppendFixed(b, cell) = Buf(c, u, Append(l, <<c, cell.value>>), f, n + 1, No)
        BY <2>1, <3>1, <4>1
      <4> QED BY <1>3, <3>0, <4>3, <4>4
    <3> QED BY <3>2, <3>3
  <2> QED BY <2>2, <2>3, <2>4 DEF CellKinds, Typed
<1> QED BY <1>2, <1>4, <1>5, <1>6 DEF BufferKinds

LEMMA FixedColumn ==
  ASSUME NEW plan, plan.kind \in BufferKinds, plan.nullable \in BOOLEAN, NEW cells, Column(cells)
  PROVE  \E kind, l : /\ IntoPython(Finalize(Fill("fixed", plan, cells))) = Array(kind, l)
                      /\ Len(l) = Len(cells)
                      /\ plan.kind # "UNKNOWN" => kind = Storage(plan.kind, plan.nullable)
<1> DEFINE n == Len(cells)
<1>0. Len(cells) \in Nat
  BY LenProperties DEF Column
<1>1. PICK g : /\ Fill("fixed", plan, cells) = g[Len(cells)] /\ g[0] = Buffer(plan)
               /\ \A i \in 1..Len(cells) : g[i] = AppendCell("fixed", g[i - 1], cells[i])
  BY <1>0, FillIs
<1> DEFINE T == {i \in Nat : i <= n => Fixed(g[i], plan, i)}
<1>2. 0 \in T
  <2>1. Buffer(plan) = Buf(plan.kind, plan.nullable, <<>>, No, 0, No)
    BY BufferIs
  <2>2. FixedTo(plan.kind, plan.nullable, <<>>, 0, plan)
    BY ListedEmpty DEF FixedTo, Yes, No
  <2> QED BY <1>1, <2>1, <2>2 DEF Fixed
<1>3. ASSUME NEW i \in Nat, i \in T PROVE i + 1 \in T
  <2> SUFFICES ASSUME i + 1 <= n PROVE Fixed(g[i + 1], plan, i + 1)
    OBVIOUS
  <2>1. i + 1 \in 1..n /\ (i + 1) - 1 = i /\ Fixed(g[i], plan, i)
    BY <1>0, <1>3
  <2>2. g[i + 1] = AppendFixed(g[i], cells[i + 1]) /\ cells[i + 1].kind \in CellKinds
    BY <1>1, <2>1 DEF AppendCell, Column
  <2> QED BY <2>1, <2>2, FixedStep
<1>4. n \in T
  <2> HIDE DEF T
  <2> QED BY <1>0, <1>2, <1>3, Induction
<1>5. PICK k, u, l, f : Fill("fixed", plan, cells) = Buf(k, u, l, f, n, No) /\ FixedTo(k, u, l, n, plan)
  BY <1>0, <1>1, <1>4 DEF Fixed
<1>6. CASE k = "UNKNOWN"
  <2>1. IntoPython(Finalize(Fill("fixed", plan, cells))) = Array("FLOAT64", Repeated(NaN, n))
    BY <1>5, <1>6, FinalizeIs DEF Array
  <2>2. Len(Repeated(NaN, n)) = n
    BY <1>0, ListedRepeated, ListedAppend
  <2>3. plan.kind = "UNKNOWN"
    BY <1>5, <1>6 DEF FixedTo
  <2> QED BY <2>1, <2>2, <2>3
<1>7. CASE k # "UNKNOWN"
  <2>1. IntoPython(Finalize(Fill("fixed", plan, cells))) = Array(Storage(k, u), l)
    BY <1>5, <1>7, FinalizeIs DEF Array
  <2>2. Len(l) = n
    BY <1>0, <1>5, <1>7, ListedAppend DEF FixedTo
  <2>3. plan.kind # "UNKNOWN" => Storage(k, u) = Storage(plan.kind, plan.nullable)
    BY <1>5 DEF FixedTo
  <2> QED BY <2>1, <2>2, <2>3
<1> QED BY <1>6, <1>7

-----------------------------------------------------------------------------
(* The rows of a job that pass its filter, stretch by stretch.             *)
RowsOf(j) == {j.rows[i] : i \in DOMAIN j.rows}
RowCount(j) == Len(j.rows)
Passing(j, row) == ~j.filtered \/ MatchesRow(j.predicate, row)
Kept(j, row) == IF Passing(j, row) THEN <<row>> ELSE <<>>
Parts(j, a, b) == [i \in 1..(b - a) |-> Kept(j, j.rows[a + i])]
Slice(j, a, b) == FlattenSeq(Parts(j, a, b))

LEMMA JobFacts ==
  ASSUME NEW j \in Jobs
  PROVE  /\ j.rows \in Seq(RowsOf(j)) /\ RowCount(j) \in Nat /\ DOMAIN j.rows = 1..RowCount(j)
         /\ j.size \in Nat \ {0} /\ j.filtered \in BOOLEAN /\ j.cast \in BOOLEAN
         /\ j.schema \in {"none", "sample", "batch", "global"}
         /\ Len(j.columns) \in Nat /\ DOMAIN j.columns = 1..Len(j.columns)
         /\ \A row \in RowsOf(j), i \in DOMAIN j.columns : row[j.columns[i]].kind \in CellKinds
<1>1. j.rows \in Seq(RowsOf(j)) /\ j.columns \in Seq({j.columns[h] : h \in DOMAIN j.columns})
  BY JobsAssumption DEF RowsOf
<1>2. RowCount(j) \in Nat /\ DOMAIN j.rows = 1..RowCount(j)
  BY <1>1, LenProperties DEF RowCount
<1>3. Len(j.columns) \in Nat /\ DOMAIN j.columns = 1..Len(j.columns)
  BY <1>1, LenProperties
<1>4. \A row \in RowsOf(j), i \in DOMAIN j.columns : row[j.columns[i]].kind \in CellKinds
  BY JobsAssumption DEF RowsOf
<1>5. /\ j.size \in Nat \ {0} /\ j.filtered \in BOOLEAN /\ j.cast \in BOOLEAN
      /\ j.schema \in {"none", "sample", "batch", "global"}
  BY JobsAssumption
<1> QED BY <1>1, <1>2, <1>3, <1>4, <1>5

LEMMA KeptFacts ==
  ASSUME NEW j, NEW row, NEW S, row \in S
  PROVE  Kept(j, row) \in Seq(S) /\ Len(Kept(j, row)) <= 1
<1>1. <<row>> \in Seq(S) /\ <<>> \in Seq(S)
  OBVIOUS
<1>2. Len(<<row>>) = 1 /\ Len(<<>>) = 0
  OBVIOUS
<1> QED BY <1>1, <1>2 DEF Kept

LEMMA PartsFacts ==
  ASSUME NEW j \in Jobs, NEW a \in Nat, NEW b \in a..RowCount(j)
  PROVE  /\ Parts(j, a, b) \in Seq(Seq(RowsOf(j))) /\ Len(Parts(j, a, b)) = b - a
         /\ \A i \in 1..(b - a) : /\ Parts(j, a, b)[i] = Kept(j, j.rows[a + i])
                                  /\ Len(Parts(j, a, b)[i]) <= 1
<1> DEFINE R == RowsOf(j)
           n == b - a
<1>1. n \in Nat /\ \A i \in 1..n : a + i \in 1..RowCount(j)
  BY JobFacts
<1>2. \A i \in 1..n : j.rows[a + i] \in R
  BY <1>1, JobFacts DEF RowsOf
<1>3. \A i \in 1..n : Kept(j, j.rows[a + i]) \in Seq(R) /\ Len(Kept(j, j.rows[a + i])) <= 1
  <2> SUFFICES ASSUME NEW i \in 1..n
               PROVE  Kept(j, j.rows[a + i]) \in Seq(R) /\ Len(Kept(j, j.rows[a + i])) <= 1
    OBVIOUS
  <2>1. j.rows[a + i] \in R
    BY <1>2
  <2> DEFINE row == j.rows[a + i]
  <2>2. row \in R
    BY <2>1
  <2> HIDE DEF R, n, row
  <2>3. Kept(j, row) \in Seq(R) /\ Len(Kept(j, row)) <= 1
    BY <2>2, KeptFacts
  <2> QED BY <2>3 DEF row
<1> HIDE DEF n, R
<1> DEFINE p == [i \in 1..n |-> Kept(j, j.rows[a + i])]
<1>4. p \in Seq(Seq(R)) /\ Len(p) = n
  BY <1>1, <1>3, IsASeq, SMTT(20)
<1>5. \A i \in 1..n : p[i] = Kept(j, j.rows[a + i]) /\ Len(p[i]) <= 1
  BY <1>3
<1> QED BY <1>4, <1>5, Zenon DEF Parts, n, R

LEMMA SliceType ==
  ASSUME NEW j \in Jobs, NEW a \in Nat, NEW b \in a..RowCount(j)
  PROVE  /\ Slice(j, a, b) \in Seq(RowsOf(j)) /\ Len(Slice(j, a, b)) \in Nat
         /\ Len(Slice(j, a, b)) <= b - a
<1>1. /\ Parts(j, a, b) \in Seq(Seq(RowsOf(j))) /\ Len(Parts(j, a, b)) = b - a
      /\ \A i \in 1..(b - a) : Len(Parts(j, a, b)[i]) <= 1
  BY PartsFacts
<1>2. Slice(j, a, b) \in Seq(RowsOf(j))
  BY <1>1, FlattenType DEF Slice
<1>3. Len(Slice(j, a, b)) <= b - a
  BY <1>1, FlattenShort DEF Slice
<1> QED BY <1>2, <1>3, LenProperties

LEMMA SliceEmpty ==
  ASSUME NEW j \in Jobs, NEW a \in 0..RowCount(j)
  PROVE  Slice(j, a, a) = <<>>
<1>0. RowCount(j) \in Nat
  BY JobFacts
<1>1. a \in Nat /\ a \in a..RowCount(j)
  BY <1>0
<1>2. Slice(j, a, a) \in Seq(RowsOf(j)) /\ Len(Slice(j, a, a)) = 0
  BY <1>1, SliceType
<1> QED BY <1>2, EmptySeq

LEMMA SliceNext ==
  ASSUME NEW j \in Jobs, NEW a \in Nat, NEW b \in a..RowCount(j), b < RowCount(j)
  PROVE  Slice(j, a, b + 1) = Slice(j, a, b) \o Kept(j, j.rows[b + 1])
<1> DEFINE s == Parts(j, a, b)
           t == Parts(j, a, b + 1)
           x == Kept(j, j.rows[b + 1])
           R == RowsOf(j)
           n == b - a
<1>0. b \in Nat /\ RowCount(j) \in Nat /\ b + 1 \in a..RowCount(j) /\ b + 1 \in 1..RowCount(j) /\ (b + 1) - a = n + 1
      /\ n \in Nat /\ a + (n + 1) = b + 1
  BY JobFacts
<1>1. s \in Seq(Seq(R)) /\ Len(s) = n /\ \A i \in 1..n : s[i] = Kept(j, j.rows[a + i])
  BY PartsFacts
<1>2. t \in Seq(Seq(R)) /\ Len(t) = n + 1 /\ \A i \in 1..(n + 1) : t[i] = Kept(j, j.rows[a + i])
  <2>1. b + 1 \in a..RowCount(j)
    BY <1>0
  <2>2. /\ t \in Seq(Seq(R)) /\ Len(t) = (b + 1) - a
        /\ \A i \in 1..((b + 1) - a) : t[i] = Kept(j, j.rows[a + i])
    BY <2>1, PartsFacts
  <2> HIDE DEF t, n, R
  <2> QED BY <1>0, <2>2
<1>3. x \in Seq(R)
  BY <1>0, JobFacts, KeptFacts DEF RowsOf
<1> HIDE DEF s, t, n
<1>4. t[n + 1] = x
  <2>1. n + 1 \in 1..(n + 1)
    BY <1>0
  <2>2. t[n + 1] = Kept(j, j.rows[a + (n + 1)])
    BY <1>2, <2>1
  <2> QED BY <1>0, <2>2
<1>5. \A i \in 1..n : t[i] = s[i]
  <2> SUFFICES ASSUME NEW i \in 1..n PROVE t[i] = s[i]
    OBVIOUS
  <2>1. i \in 1..(n + 1)
    BY <1>0
  <2>2. t[i] = Kept(j, j.rows[a + i])
    BY <1>2, <2>1
  <2>3. s[i] = Kept(j, j.rows[a + i])
    BY <1>1
  <2> QED BY <2>2, <2>3
<1> HIDE DEF x, R
<1>6. Append(s, x) \in Seq(Seq(R)) /\ Len(Append(s, x)) = n + 1 /\ Append(s, x)[n + 1] = x
      /\ \A i \in 1..n : Append(s, x)[i] = s[i]
  BY <1>1, <1>3, AppendProperties
<1>7. \A i \in 1..(n + 1) : t[i] = Append(s, x)[i]
  BY <1>0, <1>4, <1>5, <1>6
<1>8. t = Append(s, x)
  BY <1>2, <1>6, <1>7, SeqEqual
<1>9. FlattenSeq(t) = FlattenSeq(s) \o x
  BY <1>1, <1>3, <1>8, FlattenAppend
<1> QED BY <1>9 DEF Slice, s, t, x

LEMMA SliceJoin ==
  ASSUME NEW j \in Jobs, NEW a \in Nat, NEW b \in a..RowCount(j), NEW c \in b..RowCount(j)
  PROVE  Slice(j, a, b) \o Slice(j, b, c) = Slice(j, a, c)
<1> DEFINE L == RowCount(j)
           R == RowsOf(j)
           T == {n \in Nat : b + n <= L => Slice(j, a, b) \o Slice(j, b, b + n) = Slice(j, a, b + n)}
<1>0. L \in Nat /\ b \in Nat /\ c \in Nat /\ c - b \in Nat /\ b + (c - b) = c /\ b \in 0..L
  BY JobFacts
<1>1. 0 \in T
  <2>1. b + 0 = b /\ Slice(j, b, b) = <<>>
    BY <1>0, SliceEmpty
  <2>2. Slice(j, a, b) \in Seq(R)
    BY SliceType
  <2> QED BY <2>1, <2>2, ConcatEmptySeq
<1>2. ASSUME NEW n \in Nat, n \in T PROVE n + 1 \in T
  <2> SUFFICES ASSUME b + (n + 1) <= L
               PROVE  Slice(j, a, b) \o Slice(j, b, b + (n + 1)) = Slice(j, a, b + (n + 1))
    OBVIOUS
  <2> DEFINE m == b + n
             x == Kept(j, j.rows[m + 1])
  <2>1. m \in b..L /\ m \in a..L /\ m \in Nat /\ m < L /\ m + 1 = b + (n + 1) /\ m + 1 \in 1..L
    BY <1>0
  <2>2. Slice(j, a, b) \o Slice(j, b, m) = Slice(j, a, m)
    BY <1>0, <1>2, <2>1
  <2> HIDE DEF m
  <2>3. Slice(j, b, m + 1) = Slice(j, b, m) \o x
    BY <1>0, <2>1, SliceNext
  <2>4. Slice(j, a, m + 1) = Slice(j, a, m) \o x
    BY <2>1, SliceNext
  <2>5. Slice(j, a, b) \in Seq(R) /\ Slice(j, b, m) \in Seq(R)
    BY <1>0, <2>1, SliceType
  <2>6. x \in Seq(R)
    BY <2>1, JobFacts, KeptFacts DEF RowsOf
  <2> HIDE DEF x, R, L, T
  <2>7. (Slice(j, a, b) \o Slice(j, b, m)) \o x = Slice(j, a, b) \o (Slice(j, b, m) \o x)
    <3> DEFINE u == Slice(j, a, b)
               v == Slice(j, b, m)
    <3>1. u \in Seq(R) /\ v \in Seq(R)
      BY <2>5
    <3> HIDE DEF u, v
    <3>2. (u \o v) \o x = u \o (v \o x)
      BY <2>6, <3>1, ConcatAssociative, SMTT(20)
    <3> QED BY <3>2 DEF u, v
  <2>8. Slice(j, a, b) \o Slice(j, b, m + 1) = Slice(j, a, m + 1)
    BY <2>2, <2>3, <2>4, <2>7
  <2> QED BY <2>1, <2>8
<1>3. c - b \in T
  <2> HIDE DEF T
  <2> QED BY <1>0, <1>1, <1>2, Induction
<1> QED BY <1>0, <1>3

(* excluded_rows_for_predicate() over rows a + 1 to b of the file. *)
LEMMA IncludedIs ==
  ASSUME NEW j \in Jobs, NEW a \in Nat, NEW b \in a..RowCount(j)
  PROVE  Included(j, SubSeq(j.rows, a + 1, b)) = Slice(j, a, b)
<1> DEFINE t == SubSeq(j.rows, a + 1, b)
           n == b - a
           R == RowsOf(j)
<1>0. b \in Nat /\ n \in Nat /\ a + 1 \in Int /\ b \in Int /\ RowCount(j) \in Nat
      /\ b - (a + 1) + 1 = n /\ \A i \in (a + 1)..b : i \in 1..RowCount(j)
  BY JobFacts
<1>1. \A i \in (a + 1)..b : j.rows[i] \in R
  BY <1>0, JobFacts DEF RowsOf
<1>2. t \in Seq(R) /\ Len(t) = (IF a + 1 <= b THEN b - (a + 1) + 1 ELSE 0)
      /\ \A i \in 1..(b - (a + 1) + 1) : t[i] = j.rows[(a + 1) + i - 1]
  <2> HIDE DEF R
  <2> QED BY <1>0, <1>1, SubSeqProperties
<1>3. Len(t) = n
  BY <1>0, <1>2
<1>4. \A i \in 1..n : t[i] = j.rows[a + i]
  <2> SUFFICES ASSUME NEW i \in 1..n PROVE t[i] = j.rows[a + i]
    OBVIOUS
  <2>1. t[i] = j.rows[(a + 1) + i - 1] /\ (a + 1) + i - 1 = a + i
    BY <1>0, <1>2
  <2> QED BY <2>1
<1>5. DOMAIN t = 1..n
  BY <1>2, <1>3, LenProperties
<1> HIDE DEF t
<1>6. CASE j.filtered
  <2> DEFINE m == Matches(j.predicate, t)
  <2>1. \A i \in 1..n : m[i] <=> MatchesRow(j.predicate, t[i])
    BY <1>2, <1>3, MatchesAre
  <2>2. Included(j, t) = RowsKept(t, m)
    BY <1>6 DEF Included
  <2> HIDE DEF m
  <2>3. \A i \in 1..n : (IF m[i] THEN <<t[i]>> ELSE <<>>) = Kept(j, j.rows[a + i])
    BY <1>4, <1>6, <2>1 DEF Kept, Passing
  <2>4. [i \in DOMAIN t |-> IF m[i] THEN <<t[i]>> ELSE <<>>] = Parts(j, a, b)
    BY <1>5, <2>3 DEF Parts
  <2> QED BY <2>2, <2>4 DEF RowsKept, Slice, t
<1>7. CASE ~j.filtered
  <2>1. \A i \in 1..n : <<t[i]>> = Kept(j, j.rows[a + i])
    BY <1>4, <1>7 DEF Kept, Passing
  <2>2. [i \in 1..Len(t) |-> <<t[i]>>] = Parts(j, a, b)
    BY <1>3, <2>1 DEF Parts
  <2>3. FlattenSeq([i \in 1..Len(t) |-> <<t[i]>>]) = t
    BY <1>2, FlattenSingles
  <2>4. Included(j, t) = t
    BY <1>7 DEF Included
  <2> QED BY <2>2, <2>3, <2>4 DEF Slice, t
<1> QED BY <1>6, <1>7, JobFacts

PassingRows(j) == Slice(j, 0, RowCount(j))

LEMMA RowsKeptIs ==
  ASSUME NEW j \in Jobs
  PROVE  RowsKept(j.rows, [i \in DOMAIN j.rows |-> ~j.filtered \/ MatchesRow(j.predicate, j.rows[i])])
           = PassingRows(j)
<1> DEFINE L == RowCount(j)
           keep == [i \in DOMAIN j.rows |-> ~j.filtered \/ MatchesRow(j.predicate, j.rows[i])]
<1>1. L \in Nat /\ DOMAIN j.rows = 1..L /\ L - 0 = L
  BY JobFacts
<1>2. \A i \in 1..L : (keep[i] <=> Passing(j, j.rows[i])) /\ 0 + i = i
  <2>1. \A i \in DOMAIN j.rows : keep[i] <=> Passing(j, j.rows[i])
    BY Zenon DEF Passing
  <2> HIDE DEF keep
  <2> QED BY <1>1, <2>1
<1> HIDE DEF keep
<1>3. \A i \in 1..L : (IF keep[i] THEN <<j.rows[i]>> ELSE <<>>) = Kept(j, j.rows[0 + i])
  BY <1>2 DEF Kept
<1>4. [i \in DOMAIN j.rows |-> IF keep[i] THEN <<j.rows[i]>> ELSE <<>>] = Parts(j, 0, L)
  BY <1>1, <1>3 DEF Parts
<1> QED BY <1>4 DEF RowsKept, PassingRows, Slice, keep

-----------------------------------------------------------------------------
(* The chunks that read_chunk() returns follow each other without a gap, to *)
(* the end of the file.                                                     *)
LEMMA Quotient ==
  ASSUME NEW x \in Nat, NEW s \in Nat \ {0}
  PROVE  /\ x \div s \in Nat
         /\ (x \div s) * s <= x /\ x < (x \div s) * s + s
<1> DEFINE q == x \div s
           m == x % s
<1>1. q \in Nat /\ m \in 0..(s - 1) /\ x = s * q + m
  OBVIOUS
<1> HIDE DEF q, m
<1>2. s * q = q * s /\ s * q \in Nat
  BY <1>1, Z3
<1>3. q * s <= x /\ x < q * s + s
  BY <1>1, <1>2
<1> QED BY <1>1, <1>3 DEF q

ChunkEnd(j, d, k) == Min({d + k * j.size, Len(j.rows)})
ChunksOf(j, d) == (RowCount(j) - d + j.size - 1) \div j.size

LEMMA ChunksOfFacts ==
  ASSUME NEW j \in Jobs, NEW d \in 0..RowCount(j)
  PROVE  LET n == ChunksOf(j, d)
         IN  /\ n \in Nat /\ d + n * j.size >= RowCount(j)
             /\ n # 0 => d + (n - 1) * j.size < RowCount(j)
<1> DEFINE n == ChunksOf(j, d)
           L == RowCount(j)
           s == j.size
           x == L - d + s - 1
<1>1. L \in Nat /\ s \in Nat \ {0}
  BY JobFacts
<1>2. x \in Nat /\ n = x \div s
  BY <1>1 DEF ChunksOf
<1>3. n \in Nat /\ n * s <= x /\ x < n * s + s
  BY <1>1, <1>2, Quotient
<1> HIDE DEF n, L, s
<1>4. n * s \in Nat
  BY <1>1, <1>3, Z3
<1>5. d + n * s >= L
  BY <1>1, <1>3, <1>4
<1>6. n # 0 => (n - 1) * s = n * s - s
  BY <1>1, <1>3, Z3
<1>7. n # 0 => d + (n - 1) * s < L
  BY <1>1, <1>3, <1>4, <1>6
<1> QED BY <1>3, <1>5, <1>7 DEF n, L, s

LEMMA ProductOrder ==
  ASSUME NEW a \in Nat, NEW b \in Nat, NEW s \in Nat, a <= b
  PROVE  a * s \in Nat /\ b * s \in Nat /\ a * s <= b * s
<1>1. PICK c \in Nat : b = a + c
  <2>1. b - a \in Nat /\ b = a + (b - a)
    OBVIOUS
  <2> QED BY <2>1
<1>2. a * s \in Nat /\ c * s \in Nat /\ (a + c) * s = a * s + c * s
  BY Z3
<1> QED BY <1>1, <1>2

LEMMA ChunksOfUnique ==
  ASSUME NEW n \in Nat, NEW m \in Nat, NEW s \in Nat, NEW y \in Nat,
         n * s >= y, m * s >= y, n # 0 => (n - 1) * s < y, m # 0 => (m - 1) * s < y
  PROVE  n = m
<1>1. ASSUME n < m PROVE FALSE
  <2>1. n <= m - 1 /\ m - 1 \in Nat /\ m # 0
    BY <1>1
  <2>2. n * s \in Nat /\ (m - 1) * s \in Nat /\ n * s <= (m - 1) * s
    BY <2>1, ProductOrder
  <2> QED BY <2>1, <2>2
<1>2. ASSUME m < n PROVE FALSE
  <2>1. m <= n - 1 /\ n - 1 \in Nat /\ n # 0
    BY <1>2
  <2>2. m * s \in Nat /\ (n - 1) * s \in Nat /\ m * s <= (n - 1) * s
    BY <2>1, ProductOrder
  <2> QED BY <2>1, <2>2
<1> QED BY <1>1, <1>2

LEMMA ChunkAtFacts ==
  ASSUME NEW j \in Jobs, NEW from \in 0..RowCount(j)
  PROVE  LET to == Min({from + j.size, Len(j.rows)})
         IN  /\ to \in from..RowCount(j) /\ to <= from + j.size
             /\ ChunkAt(j, from) \in Seq(RowsOf(j)) /\ Len(ChunkAt(j, from)) = to - from
             /\ Included(j, ChunkAt(j, from)) = Slice(j, from, to)
<1> DEFINE L == RowCount(j)
           s == j.size
           to == Min({from + s, L})
           R == RowsOf(j)
<1>1. L \in Nat /\ s \in Nat \ {0} /\ from \in Nat
  BY JobFacts
<1>2. to = IF from + s <= L THEN from + s ELSE L
  BY <1>1, MinOf
<1>3. to \in from..L /\ to <= from + s
  BY <1>1, <1>2
<1>4. ChunkAt(j, from) = SubSeq(j.rows, from + 1, to)
  BY Zenon DEF ChunkAt, RowCount
<1>5. Included(j, ChunkAt(j, from)) = Slice(j, from, to)
  <2> HIDE DEF to
  <2> QED BY <1>1, <1>3, <1>4, IncludedIs
<1>6. \A i \in (from + 1)..to : j.rows[i] \in R
  <2> HIDE DEF to
  <2>1. \A i \in (from + 1)..to : i \in 1..L
    BY <1>1, <1>3
  <2> QED BY <2>1, JobFacts DEF RowsOf
<1>7. /\ SubSeq(j.rows, from + 1, to) \in Seq(R)
      /\ Len(SubSeq(j.rows, from + 1, to)) = IF from + 1 <= to THEN to - (from + 1) + 1 ELSE 0
  <2> HIDE DEF to, R
  <2>1. from + 1 \in Int /\ to \in Int
    BY <1>1, <1>3
  <2> QED BY <1>6, <2>1, SubSeqProperties
<1>8. Len(ChunkAt(j, from)) = to - from
  <2> HIDE DEF to
  <2> QED BY <1>1, <1>3, <1>4, <1>7
<1> QED BY <1>3, <1>4, <1>5, <1>7, <1>8 DEF RowCount

LEMMA ChunksFromFacts ==
  ASSUME NEW j \in Jobs, NEW d \in 0..RowCount(j)
  PROVE  /\ ChunksFrom(j, d) = [k \in 1..ChunksOf(j, d) |-> ChunkAt(j, d + (k - 1) * j.size)]
         /\ ChunksFrom(j, d) \in Seq(Seq(RowsOf(j))) /\ Len(ChunksFrom(j, d)) = ChunksOf(j, d)
         /\ \A k \in 1..ChunksOf(j, d) : d + (k - 1) * j.size \in 0..(RowCount(j) - 1)
<1> DEFINE n == ChunksOf(j, d)
           L == RowCount(j)
           s == j.size
           R == RowsOf(j)
<1>1. L \in Nat /\ s \in Nat \ {0} /\ d \in Nat
  BY JobFacts
<1>2. n \in Nat /\ (n # 0 => d + (n - 1) * s < L)
  BY ChunksOfFacts
<1> HIDE DEF L, s, n
<1>3. \A k \in 1..n : d + (k - 1) * s \in 0..(L - 1)
  <2> SUFFICES ASSUME NEW k \in 1..n PROVE d + (k - 1) * s \in 0..(L - 1)
    OBVIOUS
  <2>1. k - 1 \in Nat /\ n - 1 \in Nat /\ k - 1 <= n - 1 /\ n # 0
    BY <1>2
  <2>2. (k - 1) * s \in Nat /\ (n - 1) * s \in Nat /\ (k - 1) * s <= (n - 1) * s
    BY <1>1, <2>1, ProductOrder
  <2> QED BY <1>1, <1>2, <2>1, <2>2
<1> DEFINE At(k) == ChunkAt(j, d + (k - 1) * s)
<1>4. \A k \in 1..n : At(k) \in Seq(R)
  <2> SUFFICES ASSUME NEW k \in 1..n PROVE At(k) \in Seq(R)
    OBVIOUS
  <2>1. d + (k - 1) * s \in 0..L
    BY <1>1, <1>3
  <2> QED BY <2>1, ChunkAtFacts DEF L
<1>5. ChunksFrom(j, d) = [k \in 1..n |-> At(k)]
  BY Zenon DEF ChunksFrom, ChunksOf, RowCount, n, s
<1> HIDE DEF At, R
<1>6. [k \in 1..n |-> At(k)] \in Seq(Seq(R)) /\ Len([k \in 1..n |-> At(k)]) = n
  BY <1>2, <1>4, IsASeq
<1> QED BY <1>3, <1>5, <1>6 DEF n, L, s, R, At

LEMMA ChunkEnds ==
  ASSUME NEW j \in Jobs, NEW d \in 0..RowCount(j)
  PROVE  /\ ChunkEnd(j, d, 0) = d
         /\ ChunkEnd(j, d, ChunksOf(j, d)) = RowCount(j)
         /\ \A k \in 0..ChunksOf(j, d) : ChunkEnd(j, d, k) \in d..RowCount(j)
         /\ \A k \in 1..ChunksOf(j, d) :
              /\ ChunkEnd(j, d, k - 1) \in d..ChunkEnd(j, d, k)
              /\ ChunkEnd(j, d, k) <= ChunkEnd(j, d, k - 1) + j.size
              /\ Included(j, ChunksFrom(j, d)[k]) = Slice(j, ChunkEnd(j, d, k - 1), ChunkEnd(j, d, k))
<1> DEFINE n == ChunksOf(j, d)
           L == RowCount(j)
           s == j.size
           E(k) == ChunkEnd(j, d, k)
<1>1. L \in Nat /\ s \in Nat \ {0} /\ d \in Nat /\ d <= L
  BY JobFacts
<1>2. n \in Nat /\ d + n * s >= L
  BY ChunksOfFacts
<1>3. \A k \in 1..n : d + (k - 1) * s \in 0..(L - 1)
  BY ChunksFromFacts
<1> HIDE DEF L, s, n
<1>4. \A k \in Nat : k * s \in Nat /\ E(k) = IF d + k * s <= L THEN d + k * s ELSE L
  <2> SUFFICES ASSUME NEW k \in Nat PROVE k * s \in Nat /\ E(k) = IF d + k * s <= L THEN d + k * s ELSE L
    OBVIOUS
  <2>1. k * s \in Nat
    BY <1>1, Z3
  <2>2. Min({d + k * s, L}) = IF d + k * s <= L THEN d + k * s ELSE L
    <3> DEFINE x == d + k * s
    <3>1. x \in Nat
      BY <1>1, <2>1
    <3> HIDE DEF x
    <3>2. Min({x, L}) = IF x <= L THEN x ELSE L
      BY <1>1, <3>1, MinOf
    <3> QED BY <3>2 DEF x
  <2>3. E(k) = Min({d + k * s, L})
    BY Zenon DEF ChunkEnd, s, L, RowCount
  <2> QED BY <2>1, <2>2, <2>3
<1>5. E(0) = d
  <2>1. 0 * s = 0
    BY <1>1, Z3
  <2> HIDE DEF E
  <2> QED BY <1>1, <1>4, <2>1
<1>6. E(n) = L
  <2> HIDE DEF E
  <2> QED BY <1>1, <1>2, <1>4
<1>7. \A k \in Nat : E(k) \in d..L
  <2> HIDE DEF E
  <2> QED BY <1>1, <1>4
<1>8. ASSUME NEW k \in 1..n
      PROVE  /\ E(k - 1) \in d..E(k) /\ E(k) <= E(k - 1) + s
             /\ Included(j, ChunksFrom(j, d)[k]) = Slice(j, E(k - 1), E(k))
  <2> DEFINE from == d + (k - 1) * s
  <2>1. k - 1 \in Nat /\ k \in Nat /\ from \in 0..L /\ from < L
    BY <1>1, <1>2, <1>3
  <2>2. k * s = (k - 1) * s + s /\ (k - 1) * s \in Nat
    BY <1>1, <2>1, Z3
  <2>3. d + k * s = from + s
    BY <1>1, <2>2
  <2>4. E(k - 1) = from
    <3> HIDE DEF E
    <3> QED BY <1>1, <1>4, <2>1
  <2> HIDE DEF from
  <2>5. E(k) = Min({from + s, L})
    <3>1. Min({from + s, L}) = IF from + s <= L THEN from + s ELSE L
      BY <1>1, <2>1, MinOf
    <3> HIDE DEF E
    <3> QED BY <1>4, <2>1, <2>3, <3>1
  <2>6. ChunksFrom(j, d)[k] = ChunkAt(j, from)
    BY ChunksFromFacts DEF n, from, s
  <2>7. /\ Min({from + s, L}) \in from..L /\ Min({from + s, L}) <= from + s
        /\ Included(j, ChunkAt(j, from)) = Slice(j, from, Min({from + s, L}))
    BY <2>1, ChunkAtFacts DEF L, s, RowCount
  <2>8. E(k - 1) \in d..E(k) /\ E(k) <= E(k - 1) + s
    <3> HIDE DEF E
    <3>1. from \in Nat /\ from \in d..from
      BY <1>1, <2>1, <2>2 DEF from
    <3> QED BY <1>1, <2>4, <2>5, <2>7, <3>1
  <2> QED BY <2>4, <2>5, <2>6, <2>7, <2>8
<1> QED BY <1>2, <1>5, <1>6, <1>7, <1>8 DEF L, n, s

(* The first k of them hold the rows up to where the k-th ends. *)
FirstIncluded(j, d, k) == [h \in 1..k |-> Included(j, ChunksFrom(j, d)[h])]

LEMMA FirstChunks ==
  ASSUME NEW j \in Jobs, NEW d \in 0..RowCount(j), NEW k \in 0..ChunksOf(j, d)
  PROVE  /\ FlattenSeq(FirstIncluded(j, d, k)) = Slice(j, d, ChunkEnd(j, d, k))
         /\ (\A h \in 1..k : Included(j, ChunksFrom(j, d)[h]) = <<>>)
              => Slice(j, d, ChunkEnd(j, d, k)) = <<>>
<1> DEFINE n == ChunksOf(j, d)
           R == RowsOf(j)
           E(i) == ChunkEnd(j, d, i)
           inc(i) == Included(j, ChunksFrom(j, d)[i])
           part(i) == FirstIncluded(j, d, i)
           Good(i) == /\ FlattenSeq(part(i)) = Slice(j, d, E(i)) /\ part(i) \in Seq(Seq(R)) /\ Len(part(i)) = i
                      /\ (\A h \in 1..i : inc(h) = <<>>) => Slice(j, d, E(i)) = <<>>
           T == {i \in Nat : i <= n => Good(i)}
<1>1. n \in Nat /\ RowCount(j) \in Nat /\ d \in Nat
  BY ChunksOfFacts, JobFacts
<1>2. E(0) = d /\ \A i \in 0..n : E(i) \in d..RowCount(j)
  BY ChunkEnds
<1>3. \A i \in 1..n : E(i - 1) \in d..E(i) /\ inc(i) = Slice(j, E(i - 1), E(i))
  BY ChunkEnds
<1>4. ASSUME NEW i \in 1..n PROVE inc(i) \in Seq(R)
  <2>1. E(i - 1) \in Nat /\ E(i) \in E(i - 1)..RowCount(j)
    <3> HIDE DEF E
    <3>1. i - 1 \in 0..n /\ i \in 0..n
      BY <1>1
    <3> QED BY <1>1, <1>2, <1>3, <3>1
  <2>2. Slice(j, E(i - 1), E(i)) \in Seq(R)
    <3> HIDE DEF E, R
    <3> QED BY <2>1, SliceType DEF R
  <2> QED BY <1>3, <2>2
<1>5. ASSUME NEW i \in Nat, i <= n PROVE part(i) \in Seq(Seq(R)) /\ Len(part(i)) = i
  <2> HIDE DEF R, inc
  <2>1. \A h \in 1..i : inc(h) \in Seq(R)
    BY <1>1, <1>4, <1>5
  <2>2. [h \in 1..i |-> inc(h)] \in Seq(Seq(R)) /\ Len([h \in 1..i |-> inc(h)]) = i
    BY <2>1, IsASeq
  <2> QED BY <2>2 DEF FirstIncluded, inc
<1>6. 0 \in T
  <2>1. part(0) = <<>>
    BY <1>1, <1>5, EmptySeq
  <2>2. Slice(j, d, d) = <<>>
    BY SliceEmpty
  <2>3. part(0) \in Seq(Seq(R)) /\ Len(part(0)) = 0
    BY <1>1, <1>5
  <2>4. FlattenSeq(part(0)) = <<>> /\ Slice(j, d, E(0)) = <<>>
    <3> HIDE DEF part, E
    <3> QED BY <1>2, <2>1, <2>2, FlattenEmpty
  <2> HIDE DEF part, E, R
  <2>5. Good(0)
    BY <2>3, <2>4
  <2> QED BY <2>5
<1>7. ASSUME NEW i \in Nat, i \in T PROVE i + 1 \in T
  <2> SUFFICES ASSUME i + 1 <= n PROVE Good(i + 1)
    OBVIOUS
  <2>0. i + 1 \in 1..n /\ i <= n /\ (i + 1) - 1 = i /\ i \in 0..n /\ i + 1 \in 0..n /\ i + 1 \in Nat
    BY <1>1
  <2>1. Good(i)
    BY <1>7, <2>0
  <2>2. inc(i + 1) \in Seq(R) /\ inc(i + 1) = Slice(j, E(i), E(i + 1)) /\ E(i) \in d..E(i + 1)
    BY <1>3, <1>4, <2>0
  <2>3. E(i) \in d..RowCount(j) /\ E(i + 1) \in E(i)..RowCount(j)
    <3> HIDE DEF E, inc
    <3>1. E(i) \in d..RowCount(j) /\ E(i + 1) \in d..RowCount(j)
      BY <1>2, <2>0
    <3> QED BY <1>1, <2>2, <3>1
  <2>4. Slice(j, d, E(i)) \o inc(i + 1) = Slice(j, d, E(i + 1))
    <3> HIDE DEF E, inc
    <3> QED BY <1>1, <2>2, <2>3, SliceJoin
  <2>5. part(i) \in Seq(Seq(R)) /\ Len(part(i)) = i /\ part(i + 1) \in Seq(Seq(R)) /\ Len(part(i + 1)) = i + 1
    BY <1>5, <2>0
  <2>6. /\ \A h \in 1..i : part(i + 1)[h] = part(i)[h]
        /\ part(i + 1)[i + 1] = inc(i + 1)
    BY <2>0 DEF FirstIncluded
  <2> HIDE DEF part, inc, E, R
  <2>7. part(i + 1) = Append(part(i), inc(i + 1))
    <3> DEFINE u == part(i)
               x == inc(i + 1)
               a == Append(u, x)
    <3>1. a \in Seq(Seq(R)) /\ Len(a) = i + 1 /\ a[i + 1] = x /\ \A h \in 1..i : a[h] = u[h]
      BY <2>2, <2>5, AppendProperties
    <3> HIDE DEF a
    <3>2. \A h \in 1..(i + 1) : part(i + 1)[h] = a[h]
      BY <2>0, <2>6, <3>1
    <3>3. part(i + 1) = a
      BY <2>5, <3>1, <3>2, SeqEqual
    <3> QED BY <3>3 DEF a
  <2>8. FlattenSeq(part(i + 1)) = Slice(j, d, E(i + 1))
    <3>1. FlattenSeq(part(i + 1)) = FlattenSeq(part(i)) \o inc(i + 1)
      BY <2>2, <2>5, <2>7, FlattenAppend
    <3> QED BY <2>1, <2>4, <3>1
  <2>9. ASSUME \A h \in 1..(i + 1) : inc(h) = <<>> PROVE Slice(j, d, E(i + 1)) = <<>>
    <3>1. (\A h \in 1..i : inc(h) = <<>>) /\ inc(i + 1) = <<>>
      BY <2>0, <2>9
    <3>2. Slice(j, d, E(i)) = <<>>
      BY <2>1, <3>1
    <3>3. <<>> \o <<>> = <<>>
      OBVIOUS
    <3> QED BY <2>4, <3>1, <3>2, <3>3
  <2> QED BY <2>5, <2>8, <2>9
<1>8. k \in T /\ k <= n /\ k \in Nat
  <2>1. k \in Nat /\ k <= n
    BY <1>1
  <2> HIDE DEF T
  <2> QED BY <2>1, <1>6, <1>7, Induction
<1> QED BY <1>8

(* The batch that the schema was sampled from is the first chunk. *)
LEMMA SampleIsFirst ==
  ASSUME NEW j \in Jobs, RowCount(j) # 0
  PROVE  LET first == ChunkAt(j, 0)
         IN  /\ Len(first) \in 1..RowCount(j) /\ Len(first) = Min({j.size, Len(j.rows)})
             /\ <<first>> \o ChunksFrom(j, Len(first)) = ChunksFrom(j, 0)
<1> DEFINE first == ChunkAt(j, 0)
           p == Len(first)
           L == RowCount(j)
           s == j.size
           n == ChunksOf(j, p)
           m == ChunksOf(j, 0)
           R == RowsOf(j)
<1>1. L \in Nat /\ s \in Nat \ {0} /\ 0 \in 0..L
  BY JobFacts
<1>2. p = Min({s, L})
  <2>1. p = Min({0 + s, L}) - 0 /\ Min({0 + s, L}) \in 0..L
    BY <1>1, ChunkAtFacts DEF RowCount
  <2>2. 0 + s = s
    BY <1>1
  <2> HIDE DEF p, s, L
  <2> QED BY <1>1, <2>1, <2>2
<1>3. p = IF s <= L THEN s ELSE L
  BY <1>1, <1>2, MinOf
<1>4. p \in 1..L /\ p \in 0..L
  BY <1>1, <1>3
<1>5. n \in Nat /\ p + n * s >= L /\ (n # 0 => p + (n - 1) * s < L)
  BY <1>4, ChunksOfFacts
<1>6. m \in Nat /\ 0 + m * s >= L /\ (m # 0 => 0 + (m - 1) * s < L)
  BY <1>1, ChunksOfFacts
<1>7. first \in Seq(R) /\ <<first>> \in Seq(Seq(R)) /\ Len(<<first>>) = 1
  <2>1. first \in Seq(R)
    BY <1>1, ChunkAtFacts
  <2> HIDE DEF first, R
  <2> QED BY <2>1
<1>8. /\ ChunksFrom(j, p) \in Seq(Seq(R)) /\ Len(ChunksFrom(j, p)) = n
      /\ \A k \in 1..n : ChunksFrom(j, p)[k] = ChunkAt(j, p + (k - 1) * s)
  BY <1>4, ChunksFromFacts
<1>9. /\ ChunksFrom(j, 0) \in Seq(Seq(R)) /\ Len(ChunksFrom(j, 0)) = m
      /\ \A k \in 1..m : ChunksFrom(j, 0)[k] = ChunkAt(j, 0 + (k - 1) * s)
  BY <1>1, ChunksFromFacts
<1> DEFINE c == ChunksFrom(j, p)
           e == ChunksFrom(j, 0)
           t == <<first>> \o c
<1> HIDE DEF p, L, s, n, m, R
<1>10. m = n + 1 /\ (n # 0 => p = s)
  <2>1. n * s \in Nat /\ m * s \in Nat /\ (n + 1) * s = n * s + s
    BY <1>1, <1>5, <1>6, Z3
  <2>2. n # 0 => (n - 1) * s = n * s - s
    BY <1>1, <1>5, Z3
  <2>3. CASE s <= L
    <3>1. (n + 1) * s >= L
      BY <1>1, <1>3, <1>5, <2>1, <2>3
    <3>2. ((n + 1) - 1) * s < L
      <4>1. (n + 1) - 1 = n
        BY <1>5
      <4>2. n * s < L
        <5>1. CASE n = 0
          <6>1. n * s = 0
            BY <1>1, <5>1, Z3
          <6> QED BY <1>1, <1>4, <6>1
        <5>2. CASE n # 0
          BY <1>1, <1>3, <1>5, <2>1, <2>2, <2>3, <5>2
        <5> QED BY <5>1, <5>2
      <4> QED BY <4>1, <4>2
    <3>3. m * s >= L /\ (m # 0 => (m - 1) * s < L)
      <4>1. m # 0 => (m - 1) * s = m * s - s
        BY <1>1, <1>6, Z3
      <4> QED BY <1>1, <1>6, <2>1, <4>1
    <3>4. n + 1 \in Nat
      BY <1>5
    <3>5. m = n + 1
      BY <1>1, <1>6, <3>1, <3>2, <3>3, <3>4, ChunksOfUnique
    <3> QED BY <1>3, <2>3, <3>5
  <2>4. CASE ~(s <= L)
    <3>1. p = L
      BY <1>3, <2>4
    <3>2. n = 0
      <4>1. n # 0 => (n - 1) * s \in Nat
        BY <1>1, <1>5, Z3
      <4> QED BY <1>1, <1>5, <3>1, <4>1
    <3>3. m = 1
      <4>1. 1 * s = s /\ 0 * s = 0
        BY <1>1, Z3
      <4>2. m # 0 => (m - 1) * s = m * s - s
        BY <1>1, <1>6, Z3
      <4>3. m * s >= L /\ (m # 0 => (m - 1) * s < L)
        BY <1>1, <1>6, <2>1, <4>2
      <4>4. 1 * s >= L /\ (1 - 1) * s < L /\ 1 \in Nat
        BY <1>1, <1>4, <2>4, <4>1
      <4> QED BY <1>1, <1>6, <4>3, <4>4, ChunksOfUnique
    <3> QED BY <3>2, <3>3
  <2> QED BY <1>1, <2>3, <2>4
<1>11. /\ t \in Seq(Seq(R)) /\ Len(t) = n + 1 /\ t[1] = first
       /\ \A k \in 1..n : t[k + 1] = c[k]
  <2> HIDE DEF c, first
  <2>1. /\ t \in Seq(Seq(R)) /\ Len(t) = 1 + n
        /\ \A i \in 1..(1 + n) : t[i] = IF i <= 1 THEN <<first>>[i] ELSE c[i - 1]
    BY <1>7, <1>8, ConcatProperties DEF c
  <2>2. t[1] = first
    BY <1>5, <2>1
  <2>3. \A k \in 1..n : t[k + 1] = c[k]
    <3> SUFFICES ASSUME NEW k \in 1..n PROVE t[k + 1] = c[k]
      OBVIOUS
    <3>1. k + 1 \in 1..(1 + n) /\ ~(k + 1 <= 1) /\ (k + 1) - 1 = k
      BY <1>5
    <3> HIDE DEF t
    <3> QED BY <2>1, <3>1
  <2> QED BY <1>5, <2>1, <2>2, <2>3
<1>12. ASSUME NEW i \in 1..m PROVE t[i] = e[i]
  <2>1. CASE i = 1
    <3>1. e[i] = ChunkAt(j, 0 + (i - 1) * s) /\ 0 + (i - 1) * s = 0
      <4>1. (i - 1) = 0 /\ 0 * s = 0
        BY <1>1, <2>1, Z3
      <4> QED BY <1>9, <4>1
    <3> QED BY <1>11, <2>1, <3>1
  <2>2. CASE i # 1
    <3> DEFINE k == i - 1
    <3>1. k \in 1..n /\ k + 1 = i /\ k \in Nat
      BY <1>5, <1>6, <1>10, <2>2
    <3>2. (k - 1) * s + s = k * s /\ (k - 1) * s \in Nat
      <4> HIDE DEF k
      <4>1. k - 1 \in Nat
        BY <1>5, <3>1
      <4> QED BY <1>1, <3>1, <4>1, Z3
    <3>3. p = s
      BY <1>5, <1>10, <3>1
    <3>4. p + (k - 1) * s = 0 + k * s
      BY <1>1, <3>2, <3>3
    <3>5. e[i] = ChunkAt(j, 0 + k * s)
      BY <1>9
    <3>6. c[k] = ChunkAt(j, p + (k - 1) * s)
      <4> HIDE DEF k
      <4> QED BY <1>8, <3>1
    <3>7. t[k + 1] = c[k]
      <4> HIDE DEF k, t, c
      <4> QED BY <1>11, <3>1
    <3> QED BY <3>1, <3>4, <3>5, <3>6, <3>7
  <2> QED BY <2>1, <2>2
<1>13. t = e
  <2> HIDE DEF t
  <2> QED BY <1>9, <1>10, <1>11, <1>12, SeqEqual
<1> QED BY <1>2, <1>4, <1>13 DEF p, L, s, RowCount

-----------------------------------------------------------------------------
(* What the plans of a job know: the kinds of the cells in some rows.      *)
RowKinds(s, c) == {s[h][c].kind : h \in 1..Len(s)}

LEMMA CellsFacts ==
  ASSUME NEW j \in Jobs, NEW s \in Seq(RowsOf(j)), NEW i \in DOMAIN j.columns
  PROVE  LET cells == Cells(s, j.columns[i])
         IN  /\ Column(cells) /\ Len(cells) = Len(s) /\ DOMAIN cells = 1..Len(s)
             /\ \A h \in 1..Len(s) : cells[h] = s[h][j.columns[i]]
             /\ KindsOf(cells, Len(cells)) = RowKinds(s, j.columns[i])
<1> DEFINE c == j.columns[i]
           cells == Cells(s, c)
           n == Len(s)
<1>1. n \in Nat /\ DOMAIN s = 1..n /\ \A h \in 1..n : s[h] \in RowsOf(j)
  BY LenProperties, ElementOfSeq
<1>2. \A h \in 1..n : s[h][c].kind \in CellKinds
  BY <1>1, JobFacts
<1> DEFINE S == {s[h][c] : h \in 1..n}
<1> HIDE DEF c, n
<1>3. cells = [h \in 1..n |-> s[h][c]]
  BY <1>1 DEF Cells
<1>4. cells \in Seq(S) /\ Len(cells) = n /\ DOMAIN cells = 1..n /\ \A h \in 1..n : cells[h] = s[h][c]
  <2> HIDE DEF cells
  <2>1. \A h \in 1..n : s[h][c] \in S
    OBVIOUS
  <2> HIDE DEF S
  <2>2. [h \in 1..n |-> s[h][c]] \in Seq(S) /\ Len([h \in 1..n |-> s[h][c]]) = n
    BY <1>1, <2>1, IsASeq
  <2> QED BY <1>3, <2>2
<1>5. S = {cells[h] : h \in DOMAIN cells}
  <2> HIDE DEF cells
  <2> QED BY <1>4
<1> HIDE DEF cells, S
<1>6. Column(cells)
  BY <1>2, <1>4, <1>5 DEF Column
<1>7. KindsOf(cells, n) = RowKinds(s, c)
  BY <1>4 DEF KindsOf, RowKinds, n
<1> QED BY <1>4, <1>6, <1>7 DEF cells, n, c

LEMMA RowKindsJoin ==
  ASSUME NEW R, NEW s \in Seq(R), NEW t \in Seq(R), NEW c
  PROVE  RowKinds(s \o t, c) = RowKinds(s, c) \cup RowKinds(t, c)
<1> DEFINE u == s \o t
<1>1. Len(s) \in Nat /\ Len(t) \in Nat
  BY LenProperties
<1>2. Len(u) = Len(s) + Len(t) /\ \A h \in 1..(Len(s) + Len(t)) : u[h] = IF h <= Len(s) THEN s[h] ELSE t[h - Len(s)]
  BY ConcatProperties
<1> HIDE DEF u
<1>3. \A h \in 1..Len(s) : h \in 1..Len(u) /\ u[h] = s[h]
  BY <1>1, <1>2
<1>4. \A h \in 1..Len(t) : Len(s) + h \in 1..Len(u) /\ u[Len(s) + h] = t[h]
  <2> SUFFICES ASSUME NEW h \in 1..Len(t) PROVE Len(s) + h \in 1..Len(u) /\ u[Len(s) + h] = t[h]
    OBVIOUS
  <2>1. Len(s) + h \in 1..(Len(s) + Len(t)) /\ ~(Len(s) + h <= Len(s)) /\ (Len(s) + h) - Len(s) = h
    BY <1>1
  <2> QED BY <1>2, <2>1
<1>5. ASSUME NEW x \in RowKinds(u, c) PROVE x \in RowKinds(s, c) \cup RowKinds(t, c)
  <2>1. PICK h \in 1..Len(u) : x = u[h][c].kind
    BY DEF RowKinds
  <2>2. CASE h <= Len(s)
    <3>1. h \in 1..Len(s) /\ u[h] = s[h]
      BY <1>1, <1>2, <2>2
    <3> QED BY <2>1, <3>1 DEF RowKinds
  <2>3. CASE ~(h <= Len(s))
    <3>1. h - Len(s) \in 1..Len(t) /\ u[h] = t[h - Len(s)]
      BY <1>1, <1>2, <2>3
    <3> QED BY <2>1, <3>1 DEF RowKinds
  <2> QED BY <2>2, <2>3
<1>6. ASSUME NEW x \in RowKinds(s, c) PROVE x \in RowKinds(u, c)
  <2>1. PICK h \in 1..Len(s) : x = s[h][c].kind
    BY DEF RowKinds
  <2> QED BY <1>3, <2>1 DEF RowKinds
<1>7. ASSUME NEW x \in RowKinds(t, c) PROVE x \in RowKinds(u, c)
  <2>1. PICK h \in 1..Len(t) : x = t[h][c].kind
    BY DEF RowKinds
  <2> QED BY <1>4, <2>1 DEF RowKinds
<1> QED BY <1>5, <1>6, <1>7 DEF u

ArePlans(j, ps, s) ==
    /\ ps = [i \in DOMAIN j.columns |-> ps[i]]
    /\ \A i \in DOMAIN j.columns : IsPlan(ps[i], RowKinds(s, j.columns[i]))

LEMMA FirstPlansAre ==
  ASSUME NEW j \in Jobs, j.cast
  PROVE  ArePlans(j, FirstPlans(j), <<>>)
<1> DEFINE ps == FirstPlans(j)
<1>1. ps = [i \in DOMAIN j.columns |-> ps[i]] /\ \A i \in DOMAIN j.columns : ps[i] = Plan
  BY DEF FirstPlans
<1>2. \A c : RowKinds(<<>>, c) = {}
  BY DEF RowKinds
<1>3. Plan = [kind |-> "UNKNOWN", nullable |-> No]
  BY FirstPlanIs
<1>4. Plan.kind = "UNKNOWN" /\ Plan.nullable = No
  BY <1>3
<1>5. Known("UNKNOWN", No, {})
  BY DEF Known, No
<1>6. IsPlan(Plan, {})
  BY <1>3, <1>4, <1>5 DEF IsPlan
<1> HIDE DEF ps
<1> QED BY <1>1, <1>2, <1>6 DEF ArePlans, ps

LEMMA TextPlanKnows ==
  ASSUME NEW p, NEW K, NEW L, IsPlan(p, K), p.kind = "STRING"
  PROVE  IsPlan(p, K \cup L)
BY DEF IsPlan, Known

LEMMA InferSchemaIs ==
  ASSUME NEW j \in Jobs, NEW s \in Seq(RowsOf(j)), NEW ps, ArePlans(j, ps, s),
         NEW chunk, Included(j, chunk) \in Seq(RowsOf(j))
  PROVE  ArePlans(j, InferSchema(j, ps, chunk), s \o Included(j, chunk))
<1> DEFINE t == Included(j, chunk)
           new == InferSchema(j, ps, chunk)
           col(i) == j.columns[i]
           K(i) == RowKinds(s, col(i))
           N(i) == RowKinds(t, col(i))
<1>1. \A i : RowKinds(s \o t, col(i)) = K(i) \cup N(i)
  BY RowKindsJoin
<1>2. DOMAIN ps = DOMAIN j.columns /\ \A i \in DOMAIN j.columns : IsPlan(ps[i], K(i))
  BY DEF ArePlans
<1>3. CASE t = <<>>
  <2>1. new = ps
    BY <1>3 DEF InferSchema
  <2>2. s \o t = s
    BY <1>3, ConcatEmptySeq
  <2> QED BY <2>1, <2>2
<1>4. CASE t # <<>> /\ \A i \in DOMAIN ps : ps[i].kind = "STRING"
  <2>1. new = ps
    BY <1>4 DEF InferSchema
  <2>2. \A i \in DOMAIN j.columns : IsPlan(ps[i], K(i) \cup N(i))
    <3> HIDE DEF K, N
    <3> QED BY <1>2, <1>4, TextPlanKnows
  <2> HIDE DEF t, K, N
  <2>3. \A i \in DOMAIN j.columns : IsPlan(ps[i], RowKinds(s \o t, col(i)))
    BY <1>1, <2>2
  <2> QED BY <2>1, <2>3 DEF ArePlans, t
<1>5. CASE t # <<>> /\ ~(\A i \in DOMAIN ps : ps[i].kind = "STRING")
  <2>1. new = [i \in DOMAIN ps |-> InferPlan(ps[i], Cells(t, col(i)))]
    BY <1>5 DEF InferSchema
  <2>2. ASSUME NEW i \in DOMAIN j.columns
        PROVE  IsPlan(InferPlan(ps[i], Cells(t, col(i))), K(i) \cup N(i))
    <3> DEFINE cells == Cells(t, col(i))
    <3>1. Column(cells) /\ KindsOf(cells, Len(cells)) = N(i)
      BY CellsFacts
    <3> HIDE DEF cells, K, N
    <3>2. IsPlan(InferPlan(ps[i], cells), K(i) \cup KindsOf(cells, Len(cells)))
      BY <1>2, <3>1, InferPlanIs
    <3> QED BY <3>1, <3>2 DEF cells
  <2> HIDE DEF t, new, K, N
  <2>3. \A i \in DOMAIN j.columns : new[i] = InferPlan(ps[i], Cells(t, col(i)))
    BY <1>2, <2>1
  <2>4. new = [i \in DOMAIN j.columns |-> new[i]]
    BY <1>2, <2>1
  <2>5. \A i \in DOMAIN j.columns : IsPlan(new[i], RowKinds(s \o t, col(i)))
    BY <1>1, <2>2, <2>3
  <2> QED BY <2>4, <2>5 DEF ArePlans, t, new
<1> QED BY <1>3, <1>4, <1>5

(* schema="global": chunk after chunk. *)
IsInferred(g, j) ==
    g = [k \in 0..Len(ChunksFrom(j, 0)) |->
            IF k = 0 THEN FirstPlans(j) ELSE InferSchema(j, g[k - 1], ChunksFrom(j, 0)[k])]

LEMMA InferredExists ==
  ASSUME NEW j, Len(ChunksFrom(j, 0)) \in Nat
  PROVE  \E g : IsInferred(g, j)
<1> DEFINE c == ChunksFrom(j, 0)
           step(x, k) == InferSchema(j, x, c[k])
           first == FirstPlans(j)
           Good(m) == \E g : g = [n \in 0..m |-> IF n = 0 THEN first ELSE step(g[n - 1], n)]
           T == {m \in Nat : Good(m)}
<1> HIDE DEF first, step
<1>1. 0 \in T
  <2> DEFINE g == [n \in 0..0 |-> first]
  <2>1. g = [n \in 0..0 |-> IF n = 0 THEN first ELSE step(g[n - 1], n)]
    OBVIOUS
  <2> HIDE DEF g
  <2> QED BY <2>1
<1>2. ASSUME NEW m \in Nat, m \in T PROVE m + 1 \in T
  <2>1. PICK g : g = [n \in 0..m |-> IF n = 0 THEN first ELSE step(g[n - 1], n)]
    BY <1>2
  <2> DEFINE new == step(g[m], m + 1)
             h == [n \in 0..(m + 1) |-> IF n = m + 1 THEN new ELSE g[n]]
  <2> HIDE DEF new
  <2>2. ASSUME NEW n \in 0..(m + 1)
        PROVE  h[n] = IF n = 0 THEN first ELSE step(h[n - 1], n)
    <3>1. CASE n = m + 1
      <4>1. n # 0 /\ n - 1 = m /\ h[m] = g[m] /\ h[n] = new
        BY <3>1
      <4> HIDE DEF h
      <4> QED BY <3>1, <4>1 DEF new
    <3>2. CASE n # m + 1
      <4>1. n \in 0..m /\ h[n] = g[n] /\ (n # 0 => h[n - 1] = g[n - 1])
        BY <3>2
      <4>2. g[n] = IF n = 0 THEN first ELSE step(g[n - 1], n)
        BY <2>1, <4>1
      <4> HIDE DEF h
      <4> QED BY <4>1, <4>2
    <3> QED BY <3>1, <3>2
  <2>3. h = [n \in 0..(m + 1) |-> h[n]]
    OBVIOUS
  <2> HIDE DEF h
  <2>4. h = [n \in 0..(m + 1) |-> IF n = 0 THEN first ELSE step(h[n - 1], n)]
    BY <2>2, <2>3
  <2> QED BY <2>4
<1>3. Len(c) \in T
  <2> HIDE DEF T
  <2> QED BY <1>1, <1>2, Induction
<1> QED BY <1>3 DEF IsInferred, first, step

LEMMA InferGloballyIs ==
  ASSUME NEW j \in Jobs, j.cast
  PROVE  ArePlans(j, InferGlobally(j), PassingRows(j))
<1> DEFINE g == CHOOSE g : IsInferred(g, j)
           c == ChunksFrom(j, 0)
           n == ChunksOf(j, 0)
           E(k) == ChunkEnd(j, 0, k)
           L == RowCount(j)
<1>0. L \in Nat /\ 0 \in 0..L
  BY JobFacts
<1>1. n \in Nat /\ Len(c) = n
  BY <1>0, ChunksOfFacts, ChunksFromFacts
<1>2. IsInferred(g, j)
  BY <1>1, InferredExists
<1>3. InferGlobally(j) = g[Len(c)]
  BY Zenon DEF InferGlobally, IsInferred
<1> HIDE DEF g
<1>4. g[0] = FirstPlans(j) /\ \A k \in 1..n : g[k] = InferSchema(j, g[k - 1], c[k])
  BY <1>1, <1>2 DEF IsInferred
<1>5. E(0) = 0 /\ E(n) = L /\ \A k \in 0..n : E(k) \in 0..L
  BY <1>0, ChunkEnds
<1>6. \A k \in 1..n : E(k - 1) \in 0..E(k) /\ Included(j, c[k]) = Slice(j, E(k - 1), E(k))
  BY <1>0, ChunkEnds
<1> DEFINE T == {k \in Nat : k <= n => ArePlans(j, g[k], Slice(j, 0, E(k)))}
<1>7. 0 \in T
  <2>1. Slice(j, 0, 0) = <<>>
    BY <1>0, SliceEmpty
  <2>2. ArePlans(j, g[0], Slice(j, 0, E(0)))
    <3> HIDE DEF E
    <3> QED BY <1>4, <1>5, <2>1, FirstPlansAre
  <2> QED BY <2>2
<1>8. ASSUME NEW k \in Nat, k \in T PROVE k + 1 \in T
  <2> SUFFICES ASSUME k + 1 <= n PROVE ArePlans(j, g[k + 1], Slice(j, 0, E(k + 1)))
    OBVIOUS
  <2>1. k + 1 \in 1..n /\ (k + 1) - 1 = k /\ k <= n /\ k \in 0..n /\ k + 1 \in 0..n
    BY <1>1
  <2>2. ArePlans(j, g[k], Slice(j, 0, E(k)))
    BY <1>8, <2>1
  <2>3. g[k + 1] = InferSchema(j, g[k], c[k + 1]) /\ E(k) \in 0..E(k + 1) /\ E(k) \in 0..L /\ E(k + 1) \in 0..L
        /\ Included(j, c[k + 1]) = Slice(j, E(k), E(k + 1))
    BY <1>4, <1>5, <1>6, <2>1
  <2> DEFINE a == E(k)
             b == E(k + 1)
  <2>4. a \in Nat /\ a \in 0..L /\ b \in a..L
    <3> HIDE DEF E
    <3> QED BY <1>0, <2>3
  <2>5. Slice(j, 0, a) \in Seq(RowsOf(j)) /\ Slice(j, a, b) \in Seq(RowsOf(j))
        /\ Slice(j, 0, a) \o Slice(j, a, b) = Slice(j, 0, b)
    <3> HIDE DEF a, b
    <3> QED BY <1>0, <2>4, SliceType, SliceJoin
  <2>6. ArePlans(j, InferSchema(j, g[k], c[k + 1]), Slice(j, 0, a) \o Included(j, c[k + 1]))
    BY <2>2, <2>3, <2>5, InferSchemaIs
  <2> QED BY <2>3, <2>5, <2>6
<1>9. n \in T
  <2> HIDE DEF T
  <2> QED BY <1>1, <1>7, <1>8, Induction
<1>10. ArePlans(j, g[n], Slice(j, 0, E(n)))
  BY <1>1, <1>9
<1> QED BY <1>1, <1>3, <1>5, <1>10 DEF PassingRows

(* The plans a job begins with, and keeps. *)
PlansOf(j) ==
    IF j.cast /\ j.schema = "global" THEN InferGlobally(j)
    ELSE IF j.cast /\ j.schema = "sample" /\ j.rows # <<>>
    THEN InferSchema(j, FirstPlans(j), ChunkAt(j, 0))
    ELSE FirstPlans(j)

KnownRows(j) ==
    CASE j.schema = "global" -> PassingRows(j)
      [] j.schema = "sample" -> Included(j, ChunkAt(j, 0))
      [] j.schema \in {"none", "batch"} -> <<>>

LEMMA FirstChunk ==
  ASSUME NEW j \in Jobs
  PROVE  Included(j, ChunkAt(j, 0)) \in Seq(RowsOf(j)) /\ (j.rows = <<>> => Included(j, ChunkAt(j, 0)) = <<>>)
<1> DEFINE to == Min({0 + j.size, Len(j.rows)})
<1>1. RowCount(j) \in Nat /\ 0 \in 0..RowCount(j)
  BY JobFacts
<1>2. to \in 0..RowCount(j) /\ Included(j, ChunkAt(j, 0)) = Slice(j, 0, to)
  BY <1>1, ChunkAtFacts
<1> HIDE DEF to
<1>3. Slice(j, 0, to) \in Seq(RowsOf(j))
  BY <1>1, <1>2, SliceType
<1>4. ASSUME j.rows = <<>> PROVE Slice(j, 0, to) = <<>>
  <2>1. RowCount(j) = 0
    BY <1>4 DEF RowCount
  <2>2. to = 0
    BY <1>2, <2>1
  <2> QED BY <1>1, <2>2, SliceEmpty
<1> QED BY <1>2, <1>3, <1>4

LEMMA PlansOfAre ==
  ASSUME NEW j \in Jobs
  PROVE  IF j.cast THEN ArePlans(j, PlansOf(j), KnownRows(j))
         ELSE PlansOf(j) = [i \in DOMAIN j.columns |-> StringPlan]
<1>1. CASE ~j.cast
  BY <1>1 DEF PlansOf, FirstPlans
<1>2. CASE j.cast
  <2>0. ArePlans(j, FirstPlans(j), <<>>)
    BY <1>2, FirstPlansAre
  <2>1. CASE j.schema = "global"
    <3>1. PlansOf(j) = InferGlobally(j) /\ KnownRows(j) = PassingRows(j)
      BY <1>2, <2>1 DEF PlansOf, KnownRows
    <3> QED BY <1>2, <3>1, InferGloballyIs
  <2>2. CASE j.schema = "sample" /\ j.rows # <<>>
    <3> DEFINE t == Included(j, ChunkAt(j, 0))
    <3>1. PlansOf(j) = InferSchema(j, FirstPlans(j), ChunkAt(j, 0)) /\ KnownRows(j) = t
      BY <1>2, <2>2 DEF PlansOf, KnownRows
    <3>2. t \in Seq(RowsOf(j)) /\ <<>> \in Seq(RowsOf(j))
      BY FirstChunk
    <3>3. ArePlans(j, InferSchema(j, FirstPlans(j), ChunkAt(j, 0)), <<>> \o t)
      BY <2>0, <3>2, InferSchemaIs
    <3>4. <<>> \o t = t
      BY <3>2, ConcatEmptySeq
    <3> QED BY <1>2, <3>1, <3>3, <3>4
  <2>3. CASE j.schema = "sample" /\ j.rows = <<>>
    <3>1. PlansOf(j) = FirstPlans(j) /\ KnownRows(j) = Included(j, ChunkAt(j, 0))
      BY <2>3 DEF PlansOf, KnownRows
    <3> QED BY <1>2, <2>0, <2>3, <3>1, FirstChunk
  <2>4. CASE j.schema \in {"none", "batch"}
    <3>1. PlansOf(j) = FirstPlans(j) /\ KnownRows(j) = <<>>
      BY <2>4 DEF PlansOf, KnownRows
    <3> QED BY <1>2, <2>0, <3>1
  <2> QED BY <2>1, <2>2, <2>3, <2>4, JobFacts
<1> QED BY <1>1, <1>2, JobFacts

-----------------------------------------------------------------------------
(* The batches: their columns have the length of their rows, and the types *)
(* that the rows known to the schema call for.                             *)
KindIn(j, s, c) == IF j.cast THEN CastKind(Cells(s, c)) ELSE "STRING"
Decided(s, c) == \E h \in DOMAIN s : s[h][c].kind # "NULL"
ColumnOf(j, ps, s, inferring, i) ==
    IntoPython(Finalize(Fill(AppendMode(j, inferring), ps[i], Cells(s, j.columns[i]))))

RowsDeciding(j, b) ==
    CASE j.schema = "global" -> PassingRows(j)
      [] j.schema = "batch" -> b.rows
      [] j.schema = "sample" -> Included(j, ChunkAt(j, 0))

ColumnTyped(j, b, i) ==
    LET c == j.columns[i]
        s == RowsDeciding(j, b)
        array == b.columns[i]
    IN  IF j.schema = "sample" /\ j.cast
        THEN Decided(s, c) => /\ array.dtype = KindIn(j, s, c)
                              /\ b.rows = s => IsCast(array, Cells(s, c), KindIn(j, s, c))
        ELSE IsCast(array, Cells(b.rows, c), KindIn(j, s, c))
BatchTyped(j, b) == j.schema # "none" => \A i \in DOMAIN j.columns : ColumnTyped(j, b, i)
BatchSound(j, b) ==
    /\ b.rows \in Seq(RowsOf(j))
    /\ \A i \in DOMAIN j.columns : Len(b.columns[i].values) = Len(b.rows)

LEMMA MaterializeIs ==
  ASSUME NEW j, NEW ps, NEW s, NEW inferring, DOMAIN ps = DOMAIN j.columns
  PROVE  /\ Materialize(j, ps, s, inferring).rows = s
         /\ \A i \in DOMAIN j.columns :
              Materialize(j, ps, s, inferring).columns[i] = ColumnOf(j, ps, s, inferring, i)
<1> DEFINE cols == [i \in DOMAIN ps |-> ColumnOf(j, ps, s, inferring, i)]
<1>1. Materialize(j, ps, s, inferring) = [rows |-> s, columns |-> cols]
  BY Zenon DEF Materialize, ColumnOf
<1>2. \A i \in DOMAIN j.columns : cols[i] = ColumnOf(j, ps, s, inferring, i)
  <2>1. \A i \in DOMAIN ps : cols[i] = ColumnOf(j, ps, s, inferring, i)
    OBVIOUS
  <2> HIDE DEF cols
  <2> QED BY <2>1
<1> HIDE DEF cols
<1> QED BY <1>1, <1>2

LEMMA CastLength ==
  ASSUME NEW array, NEW cells, NEW kind, IsCast(array, cells, kind)
  PROVE  Len(array.values) = Len(cells)
BY DEF IsCast

LEMMA TextBatch ==
  ASSUME NEW j \in Jobs, ~j.cast, NEW s \in Seq(RowsOf(j)), NEW inferring,
         NEW i \in DOMAIN j.columns
  PROVE  IsCast(ColumnOf(j, PlansOf(j), s, inferring, i), Cells(s, j.columns[i]), "STRING")
<1> DEFINE cells == Cells(s, j.columns[i])
<1>1. Column(cells)
  BY CellsFacts
<1>2. PlansOf(j)[i] = StringPlan
  BY PlansOfAre
<1>3. AppendMode(j, inferring) = "text"
  BY DEF AppendMode
<1> HIDE DEF cells
<1>4. IsCast(IntoPython(Finalize(Fill("text", StringPlan, cells))), cells, "STRING")
  BY <1>1, TextColumnIsCast
<1> QED BY <1>2, <1>3, <1>4 DEF ColumnOf, cells

(* What is known of the rows decides how the cells are stored. *)
LEMMA KnownBatch ==
  ASSUME NEW j \in Jobs, j.cast, NEW s \in Seq(RowsOf(j)), NEW known \in Seq(RowsOf(j)),
         NEW ps, ArePlans(j, ps, known), NEW inferring \in BOOLEAN, NEW i \in DOMAIN j.columns,
         RowKinds(s, j.columns[i]) \subseteq RowKinds(known, j.columns[i])
  PROVE  IsCast(ColumnOf(j, ps, s, inferring, i), Cells(s, j.columns[i]),
                CastKind(Cells(known, j.columns[i])))
<1> DEFINE c == j.columns[i]
           cells == Cells(s, c)
           K == RowKinds(known, c)
           mode == AppendMode(j, inferring)
<1>1. Column(cells) /\ Len(cells) = Len(s) /\ \A h \in 1..Len(s) : cells[h] = s[h][c]
  BY CellsFacts
<1>2. Column(Cells(known, c)) /\ KindsOf(Cells(known, c), Len(Cells(known, c))) = K
  BY CellsFacts
<1>3. IsPlan(ps[i], K)
  BY DEF ArePlans
<1>4. mode \in {"infer", "fixed"}
  BY DEF AppendMode
<1>5. CastKind(Cells(known, c)) = CastOf(K)
  BY <1>2, CastKindIs
<1>6. \A h \in 1..Len(cells) : cells[h].kind \in K
  BY <1>1 DEF RowKinds
<1> HIDE DEF c, cells, K, mode
<1>7. IsCast(IntoPython(Finalize(Fill(mode, ps[i], cells))), cells, CastOf(K))
  BY <1>1, <1>3, <1>4, <1>6, GivenColumn
<1> QED BY <1>5, <1>7 DEF ColumnOf, c, cells, mode

(* Of the rows after a sample only the type and the number are certain. *)
LEMMA SampledBatch ==
  ASSUME NEW j \in Jobs, j.cast, NEW s \in Seq(RowsOf(j)), NEW known \in Seq(RowsOf(j)),
         NEW ps, ArePlans(j, ps, known), NEW inferring, ~inferring, NEW i \in DOMAIN j.columns
  PROVE  /\ Len(ColumnOf(j, ps, s, inferring, i).values) = Len(s)
         /\ Decided(known, j.columns[i]) =>
              ColumnOf(j, ps, s, inferring, i).dtype = CastKind(Cells(known, j.columns[i]))
<1> DEFINE c == j.columns[i]
           cells == Cells(s, c)
           K == RowKinds(known, c)
           p == ps[i]
           array == ColumnOf(j, ps, s, inferring, i)
<1>1. Column(cells) /\ Len(cells) = Len(s)
  BY CellsFacts
<1>2. Column(Cells(known, c)) /\ KindsOf(Cells(known, c), Len(Cells(known, c))) = K
  BY CellsFacts
<1>3. Known(p.kind, p.nullable, K)
  BY DEF ArePlans, IsPlan
<1>4. p.kind \in BufferKinds /\ p.nullable \in BOOLEAN
  BY <1>3 DEF Known, BufferKinds, Typed
<1>5. array = IntoPython(Finalize(Fill("fixed", p, cells)))
  BY Zenon DEF ColumnOf, AppendMode
<1>6. DOMAIN known = 1..Len(known)
  BY LenProperties
<1>7. Decided(known, c) => p.kind # "UNKNOWN"
  <2>1. Decided(known, c) => \E h \in 1..Len(known) : known[h][c].kind # "NULL" /\ known[h][c].kind \in K
    BY <1>6 DEF Decided, RowKinds
  <2> HIDE DEF p, K
  <2> QED BY <1>3, <2>1 DEF Known
<1> HIDE DEF array, cells, K, p, c
<1>8. PICK kind, l : /\ array = Array(kind, l) /\ Len(l) = Len(cells)
                     /\ p.kind # "UNKNOWN" => kind = Storage(p.kind, p.nullable)
  BY <1>1, <1>4, <1>5, FixedColumn
<1>9. array.values = l /\ array.dtype = kind
  BY <1>8 DEF Array
<1>10. CastKind(Cells(known, c)) = CastOf(K)
  BY <1>2, CastKindIs
<1>11. p.kind # "UNKNOWN" => CastOf(K) = Storage(p.kind, p.nullable)
  BY <1>3, CastOfKnown
<1>12. Len(array.values) = Len(s) /\ (Decided(known, c) => array.dtype = CastKind(Cells(known, c)))
  BY <1>1, <1>7, <1>8, <1>9, <1>10, <1>11
<1> QED BY <1>12 DEF array, c

(* The batches that NextBatch and LastCall make. *)
RowsWithin(j, s) == \A i \in DOMAIN j.columns :
    RowKinds(s, j.columns[i]) \subseteq RowKinds(PassingRows(j), j.columns[i])

LEMMA MaterializeTypes ==
  ASSUME NEW j \in Jobs, j.schema # "none", NEW s \in Seq(RowsOf(j)), RowsWithin(j, s),
         NEW ps,
         IF j.cast /\ j.schema = "batch" THEN ArePlans(j, ps, s) ELSE ps = PlansOf(j)
  PROVE  LET b == Materialize(j, ps, s, j.cast /\ j.schema = "batch")
         IN  b.rows = s /\ BatchSound(j, b) /\ BatchTyped(j, b)
<1> DEFINE inferring == j.cast /\ j.schema = "batch"
           b == Materialize(j, ps, s, inferring)
<1>1. inferring \in BOOLEAN
  OBVIOUS
<1>2. DOMAIN ps = DOMAIN j.columns
  <2>1. CASE inferring
    BY <2>1 DEF ArePlans
  <2>2. CASE ~inferring /\ j.cast
    BY <2>2, PlansOfAre DEF ArePlans
  <2>3. CASE ~inferring /\ ~j.cast
    BY <2>3, PlansOfAre
  <2> QED BY <2>1, <2>2, <2>3
<1>3. b.rows = s /\ \A i \in DOMAIN j.columns : b.columns[i] = ColumnOf(j, ps, s, inferring, i)
  BY <1>2, MaterializeIs
<1>4. \A i \in DOMAIN j.columns : Len(Cells(s, j.columns[i])) = Len(s)
  BY CellsFacts
<1>5. ASSUME NEW i \in DOMAIN j.columns
      PROVE  Len(b.columns[i].values) = Len(s) /\ ColumnTyped(j, b, i)
  <2> DEFINE c == j.columns[i]
             array == b.columns[i]
             t == RowsDeciding(j, b)
  <2>0. array = ColumnOf(j, ps, s, inferring, i)
    BY <1>3
  <2>1. CASE ~j.cast
    <3>1. ps = PlansOf(j)
      BY <2>1
    <3>2. IsCast(ColumnOf(j, ps, s, inferring, i), Cells(s, c), "STRING")
      BY <2>1, <3>1, TextBatch
    <3> HIDE DEF b, inferring
    <3>3. IsCast(array, Cells(b.rows, c), KindIn(j, t, c))
      BY <1>3, <2>0, <2>1, <3>2 DEF KindIn
    <3>4. Len(array.values) = Len(s)
      BY <1>4, <2>0, <3>2, CastLength
    <3> QED BY <2>1, <3>3, <3>4 DEF ColumnTyped
  <2>2. CASE j.cast /\ j.schema \in {"global", "batch"}
    <3>1. t \in Seq(RowsOf(j)) /\ ArePlans(j, ps, t) /\ RowKinds(s, c) \subseteq RowKinds(t, c)
      <4>1. CASE j.schema = "global"
        <5>1. t = PassingRows(j)
          BY <4>1 DEF RowsDeciding
        <5>2. KnownRows(j) = PassingRows(j)
          BY <4>1 DEF KnownRows
        <5>3. ps = PlansOf(j)
          BY <4>1
        <5>4. ArePlans(j, ps, t)
          BY <2>2, <5>1, <5>2, <5>3, PlansOfAre
        <5>5. PassingRows(j) \in Seq(RowsOf(j))
          <6>1. RowCount(j) \in Nat
            BY JobFacts
          <6> QED BY <6>1, SliceType DEF PassingRows
        <5> QED BY <5>1, <5>4, <5>5 DEF RowsWithin
      <4>2. CASE j.schema = "batch"
        <5>1. t = b.rows
          BY <4>2 DEF RowsDeciding
        <5> HIDE DEF t, b
        <5> QED BY <1>3, <2>2, <4>2, <5>1
      <4> QED BY <2>2, <4>1, <4>2
    <3> HIDE DEF b, inferring, t
    <3>2. IsCast(ColumnOf(j, ps, s, inferring, i), Cells(s, c), CastKind(Cells(t, c)))
      BY <1>1, <2>2, <3>1, KnownBatch
    <3>3. IsCast(array, Cells(b.rows, c), KindIn(j, t, c))
      BY <1>3, <2>0, <2>2, <3>2 DEF KindIn
    <3>4. Len(array.values) = Len(s)
      BY <1>4, <2>0, <3>2, CastLength
    <3>5. ~(j.schema = "sample" /\ j.cast)
      BY <2>2
    <3> QED BY <3>3, <3>4, <3>5 DEF ColumnTyped, t
  <2>3. CASE j.cast /\ j.schema = "sample"
    <3>1. t = Included(j, ChunkAt(j, 0)) /\ KnownRows(j) = t /\ ps = PlansOf(j)
      BY <2>3 DEF RowsDeciding, KnownRows
    <3>2. t \in Seq(RowsOf(j)) /\ ArePlans(j, ps, t)
      BY <2>3, <3>1, FirstChunk, PlansOfAre
    <3>3. ~inferring
      BY <2>3
    <3> HIDE DEF b, inferring, t
    <3>4. /\ Len(array.values) = Len(s)
          /\ Decided(t, c) => array.dtype = CastKind(Cells(t, c))
      BY <2>0, <2>3, <3>2, <3>3, SampledBatch
    <3>5. s = t => IsCast(array, Cells(t, c), CastKind(Cells(t, c)))
      BY <1>1, <2>0, <2>3, <3>2, KnownBatch
    <3>6. b.rows = t => IsCast(array, Cells(t, c), CastKind(Cells(t, c)))
      BY <1>3, <3>5
    <3>7. KindIn(j, t, c) = CastKind(Cells(t, c))
      BY <2>3 DEF KindIn
    <3> QED BY <2>3, <3>4, <3>6, <3>7 DEF ColumnTyped, t
  <2> QED BY <2>1, <2>2, <2>3, JobFacts
<1>6. BatchSound(j, b)
  <2> HIDE DEF b
  <2> QED BY <1>3, <1>5 DEF BatchSound
<1>7. BatchTyped(j, b)
  <2> HIDE DEF b
  <2> QED BY <1>5 DEF BatchTyped
<1> QED BY <1>3, <1>6, <1>7

-----------------------------------------------------------------------------
(* The invariant of the reader, over explicit states.                      *)
Dealt(pos, pend) == IF pend = <<>> THEN pos ELSE 0
HandedOut(bs) == FlattenSeq([k \in DOMAIN bs |-> bs[k].rows])

Placed(j, pos, pend, em, dn, bs) ==
    /\ pos \in 0..RowCount(j) /\ dn \in BOOLEAN
    /\ \/ pend = <<>>
       \/ /\ pend = <<ChunkAt(j, 0)>> /\ RowCount(j) # 0 /\ pos = Len(ChunkAt(j, 0))
          /\ ~dn /\ j.schema # "none"
    /\ dn => pos = RowCount(j) /\ bs # <<>>
    /\ ~dn /\ em = 0 => bs = <<>>
    /\ j.schema = "none" /\ ~dn => pos = 0 /\ em = 0

Covered(j, pos, pend, em, bs) ==
    /\ Listed(bs, Len(bs)) /\ Len(bs) \in Nat
    /\ HandedOut(bs) = Slice(j, 0, Dealt(pos, pend))
    /\ em = Len(Slice(j, 0, Dealt(pos, pend)))

Sized(j, dn, bs) == \A k \in 1..Len(bs) :
    \/ Len(bs[k].rows) \in 1..j.size
    \/ dn /\ Len(bs) = 1 /\ (PassingRows(j) = <<>> \/ j.schema = "none")

SoundBatches(j, bs) == \A k \in 1..Len(bs) : BatchSound(j, bs[k]) /\ BatchTyped(j, bs[k])

WholeFile(j, dn, bs) ==
    dn /\ j.schema = "none" => \A i \in DOMAIN j.columns :
        IsCast(bs[1].columns[i], Cells(PassingRows(j), j.columns[i]),
               KindIn(j, PassingRows(j), j.columns[i]))

Reading(j, pos, pend, em, dn, bs) ==
    /\ Placed(j, pos, pend, em, dn, bs) /\ Covered(j, pos, pend, em, bs)
    /\ Sized(j, dn, bs) /\ SoundBatches(j, bs) /\ WholeFile(j, dn, bs)

NumpyInv ==
    /\ job \in Jobs /\ plans = PlansOf(job)
    /\ Reading(job, position, pending, emitted_rows, done, batches)

(* What is left to read, and where each chunk of it ends. *)
LEMMA ChunksLeft ==
  ASSUME NEW j \in Jobs, NEW pos, NEW pend, NEW em, NEW dn, NEW bs,
         Placed(j, pos, pend, em, dn, bs)
  PROVE  /\ Dealt(pos, pend) \in 0..RowCount(j)
         /\ pend \o ChunksFrom(j, pos) = ChunksFrom(j, Dealt(pos, pend))
         /\ \A k \in Nat \ {0} : Min({pos + (k - Len(pend)) * j.size, Len(j.rows)})
                                   = ChunkEnd(j, Dealt(pos, pend), k)
<1> DEFINE L == RowCount(j)
           s == j.size
<1>1. L \in Nat /\ s \in Nat \ {0} /\ pos \in 0..L
  BY JobFacts DEF Placed
<1>2. CASE pend = <<>>
  <2>1. Dealt(pos, pend) = pos
    BY <1>2 DEF Dealt
  <2>2. Len(pend) = 0
    BY <1>2
  <2>3. ChunksFrom(j, pos) \in Seq(Seq(RowsOf(j)))
    BY <1>1, ChunksFromFacts
  <2>4. pend \o ChunksFrom(j, pos) = ChunksFrom(j, pos)
    BY <1>2, <2>3, ConcatEmptySeq
  <2>5. \A k \in Nat \ {0} : Min({pos + (k - Len(pend)) * s, Len(j.rows)}) = ChunkEnd(j, pos, k)
    <3>1. \A k \in Nat \ {0} : k - Len(pend) = k
      BY <2>2
    <3> QED BY <3>1 DEF ChunkEnd
  <2> QED BY <1>1, <2>1, <2>4, <2>5
<1>3. CASE pend # <<>>
  <2>1. pend = <<ChunkAt(j, 0)>> /\ L # 0 /\ pos = Len(ChunkAt(j, 0))
    BY <1>3 DEF Placed
  <2>2. Dealt(pos, pend) = 0 /\ 0 \in 0..L
    BY <1>1, <1>3 DEF Dealt
  <2>3. pos = Min({s, Len(j.rows)}) /\ pend \o ChunksFrom(j, pos) = ChunksFrom(j, 0)
    BY <2>1, SampleIsFirst
  <2>4. Len(pend) = 1
    BY <2>1
  <2>5. ASSUME NEW k \in Nat \ {0}
        PROVE  Min({pos + (k - Len(pend)) * s, Len(j.rows)}) = ChunkEnd(j, 0, k)
    <3> DEFINE x == pos + (k - 1) * s
               y == 0 + k * s
    <3>1. k - 1 \in Nat /\ (k - 1) * s \in Nat /\ k * s \in Nat /\ k * s = (k - 1) * s + s
      BY <1>1, Z3
    <3>2. pos = IF s <= L THEN s ELSE L
      <4>1. pos = Min({s, L})
        BY <2>3 DEF RowCount
      <4> HIDE DEF s, L
      <4> QED BY <1>1, <4>1, MinOf
    <3>3. x \in Nat /\ y \in Nat /\ (IF x <= L THEN x ELSE L) = (IF y <= L THEN y ELSE L)
      <4> HIDE DEF s, L
      <4> QED BY <1>1, <3>1, <3>2
    <3>4. ChunkEnd(j, 0, k) = Min({y, L})
      BY Zenon DEF ChunkEnd, RowCount
    <3>5. Min({pos + (k - Len(pend)) * s, Len(j.rows)}) = Min({x, L})
      BY <2>4 DEF RowCount
    <3> HIDE DEF x, y, L
    <3>6. Min({x, L}) = Min({y, L})
      BY <1>1, <3>3, MinOf
    <3> QED BY <3>4, <3>5, <3>6
  <2> QED BY <2>2, <2>3, <2>5
<1> QED BY <1>2, <1>3

LEMMA RowsPart ==
  ASSUME NEW j \in Jobs, NEW a \in 0..RowCount(j), NEW b \in a..RowCount(j)
  PROVE  RowsWithin(j, Slice(j, a, b)) /\ Slice(j, a, b) \in Seq(RowsOf(j))
<1> DEFINE L == RowCount(j)
           R == RowsOf(j)
           x == Slice(j, 0, a)
           y == Slice(j, a, b)
           z == Slice(j, b, L)
<1>1. L \in Nat /\ a \in Nat /\ b \in Nat /\ b \in 0..L /\ L \in b..L
  BY JobFacts
<1>2. x \in Seq(R) /\ y \in Seq(R) /\ z \in Seq(R) /\ Slice(j, 0, b) \in Seq(R)
  <2> HIDE DEF L
  <2>1. 0 \in Nat /\ a \in 0..L /\ b \in 0..L
    BY <1>1 DEF L
  <2> QED BY <1>1, <2>1, SliceType DEF L
<1>3. x \o y = Slice(j, 0, b) /\ Slice(j, 0, b) \o z = PassingRows(j)
  <2>1. 0 \in Nat /\ a \in 0..L /\ b \in a..L /\ b \in 0..L /\ L \in b..L
    BY <1>1
  <2> HIDE DEF L
  <2> QED BY <2>1, SliceJoin DEF PassingRows, L
<1> HIDE DEF x, y, z, R
<1>4. \A c : /\ RowKinds(x \o y, c) = RowKinds(x, c) \cup RowKinds(y, c)
             /\ RowKinds(Slice(j, 0, b) \o z, c) = RowKinds(Slice(j, 0, b), c) \cup RowKinds(z, c)
  BY <1>2, RowKindsJoin
<1>5. \A c : RowKinds(y, c) \subseteq RowKinds(PassingRows(j), c)
  BY <1>3, <1>4
<1> QED BY <1>2, <1>5 DEF RowsWithin, y, R

(* A batch more. *)
LEMMA ListedLen ==
  ASSUME NEW l, NEW n \in Nat, Listed(l, n)
  PROVE  Len(l) = n /\ DOMAIN l = 1..n
BY ListedAppend DEF Listed

LEMMA HandedOutAppend ==
  ASSUME NEW R, NEW bs, NEW n \in Nat, Listed(bs, n), \A k \in 1..n : bs[k].rows \in Seq(R),
         NEW b, b.rows \in Seq(R)
  PROVE  HandedOut(Append(bs, b)) = HandedOut(bs) \o b.rows
<1> DEFINE t == Append(bs, b)
           u == [k \in 1..n |-> bs[k].rows]
           v == [k \in 1..(n + 1) |-> t[k].rows]
           x == b.rows
<1>1. Listed(t, n + 1) /\ t[n + 1] = b /\ \A k \in 1..n : t[k] = bs[k]
  BY ListedAppend
<1>2. DOMAIN bs = 1..n /\ DOMAIN t = 1..(n + 1)
  BY <1>1 DEF Listed
<1> HIDE DEF t
<1>3. u \in Seq(Seq(R)) /\ Len(u) = n
  BY IsASeq
<1>4. \A k \in 1..(n + 1) : t[k].rows \in Seq(R)
  <2> SUFFICES ASSUME NEW k \in 1..(n + 1) PROVE t[k].rows \in Seq(R)
    OBVIOUS
  <2>1. CASE k = n + 1
    BY <1>1, <2>1
  <2>2. CASE k # n + 1
    <3>1. k \in 1..n
      BY <2>2
    <3> QED BY <1>1, <3>1
  <2> QED BY <2>1, <2>2
<1>5. v \in Seq(Seq(R)) /\ Len(v) = n + 1
  BY <1>4, IsASeq
<1>6. \A k \in 1..n : k \in 1..(n + 1) /\ v[k] = u[k]
  BY <1>1
<1>7. v[n + 1] = x
  BY <1>1
<1> HIDE DEF u, v, x
<1>8. x \in Seq(R)
  BY DEF x
<1>9. Append(u, x) \in Seq(Seq(R)) /\ Len(Append(u, x)) = n + 1 /\ Append(u, x)[n + 1] = x
      /\ \A k \in 1..n : Append(u, x)[k] = u[k]
  BY <1>3, <1>8, AppendProperties
<1>10. \A k \in 1..(n + 1) : v[k] = Append(u, x)[k]
  BY <1>6, <1>7, <1>9
<1>11. v = Append(u, x)
  BY <1>5, <1>9, <1>10, SeqEqual
<1>12. FlattenSeq(v) = FlattenSeq(u) \o x
  BY <1>3, <1>8, <1>11, FlattenAppend
<1> QED BY <1>2, <1>12 DEF HandedOut, u, v, t, x

LEMMA BatchAdded ==
  ASSUME NEW j \in Jobs, NEW pos, NEW pend, NEW em, NEW bs,
         Dealt(pos, pend) \in 0..RowCount(j), Covered(j, pos, pend, em, bs), SoundBatches(j, bs),
         NEW b, BatchSound(j, b), BatchTyped(j, b),
         NEW end \in 0..RowCount(j),
         Slice(j, 0, Dealt(pos, pend)) \o b.rows = Slice(j, 0, end)
  PROVE  /\ Covered(j, end, <<>>, em + Len(b.rows), Append(bs, b))
         /\ SoundBatches(j, Append(bs, b))
         /\ Len(Append(bs, b)) = Len(bs) + 1 /\ Append(bs, b)[Len(bs) + 1] = b
         /\ \A k \in 1..Len(bs) : Append(bs, b)[k] = bs[k]
<1> DEFINE n == Len(bs)
           t == Append(bs, b)
           s == b.rows
           R == RowsOf(j)
           d == Dealt(pos, pend)
<1>1. Covered(j, pos, pend, em, bs) /\ SoundBatches(j, bs)
  OBVIOUS
<1>2. Listed(bs, n) /\ n \in Nat /\ HandedOut(bs) = Slice(j, 0, d) /\ em = Len(Slice(j, 0, d))
  BY <1>1 DEF Covered
<1>3. \A k \in 1..n : BatchSound(j, bs[k]) /\ BatchTyped(j, bs[k])
  BY <1>1 DEF SoundBatches
<1>4. s \in Seq(R) /\ \A k \in 1..n : bs[k].rows \in Seq(R)
  BY <1>3 DEF BatchSound
<1>5. d \in 0..RowCount(j) /\ RowCount(j) \in Nat
  BY JobFacts
<1>6. Slice(j, 0, d) \in Seq(R)
  <2> HIDE DEF d
  <2> QED BY <1>5, RowsPart
<1>7. Listed(t, n + 1) /\ t[n + 1] = b /\ (\A k \in 1..n : t[k] = bs[k])
  BY <1>2, ListedAppend
<1>8. Len(t) = n + 1
  <2> HIDE DEF t
  <2>1. n + 1 \in Nat
    BY <1>2
  <2> QED BY <1>7, <2>1, ListedLen
<1>9. HandedOut(t) = Slice(j, 0, d) \o s
  <2>1. HandedOut(t) = HandedOut(bs) \o s
    <3> HIDE DEF R
    <3> QED BY <1>2, <1>4, HandedOutAppend
  <2> QED BY <1>2, <2>1
<1>10. Len(Slice(j, 0, d) \o s) = Len(Slice(j, 0, d)) + Len(s)
  BY <1>4, <1>6, ConcatProperties
<1> HIDE DEF t, s, d, n, R
<1>11. em + Len(s) = Len(Slice(j, 0, end)) /\ HandedOut(t) = Slice(j, 0, end)
  BY <1>2, <1>9, <1>10 DEF s, d
<1>12. Dealt(end, <<>>) = end
  BY DEF Dealt
<1>13. Listed(t, Len(t)) /\ Len(t) \in Nat
  BY <1>2, <1>7, <1>8
<1>14. Covered(j, end, <<>>, em + Len(s), t)
  BY <1>11, <1>12, <1>13 DEF Covered
<1>15. SoundBatches(j, t)
  <2> SUFFICES ASSUME NEW k \in 1..Len(t) PROVE BatchSound(j, t[k]) /\ BatchTyped(j, t[k])
    BY DEF SoundBatches
  <2>1. CASE k = n + 1
    BY <1>7, <2>1
  <2>2. CASE k # n + 1
    <3>1. k \in 1..n
      BY <1>2, <1>8, <2>2
    <3> QED BY <1>3, <1>7, <3>1
  <2> QED BY <2>1, <2>2
<1> QED BY <1>7, <1>8, <1>14, <1>15 DEF t, n, s

(* The same with the hypotheses and the conclusion as one fact each.      *)
CanAdd(j, pos, pend, em, bs, b, end) ==
    /\ Dealt(pos, pend) \in 0..RowCount(j) /\ Covered(j, pos, pend, em, bs) /\ SoundBatches(j, bs)
    /\ BatchSound(j, b) /\ BatchTyped(j, b)
    /\ end \in 0..RowCount(j)
    /\ Slice(j, 0, Dealt(pos, pend)) \o b.rows = Slice(j, 0, end)

Added(j, end, em, bs, b, t) ==
    /\ Covered(j, end, <<>>, em + Len(b.rows), t) /\ SoundBatches(j, t)
    /\ Len(t) = Len(bs) + 1 /\ t[Len(bs) + 1] = b
    /\ \A k \in 1..Len(bs) : t[k] = bs[k]

LEMMA BatchIsAdded ==
  ASSUME NEW j \in Jobs, NEW pos, NEW pend, NEW em, NEW bs, NEW b, NEW end,
         CanAdd(j, pos, pend, em, bs, b, end), NEW t, t = Append(bs, b)
  PROVE  Added(j, end, em, bs, b, t)
<1>1. /\ Dealt(pos, pend) \in 0..RowCount(j) /\ Covered(j, pos, pend, em, bs) /\ SoundBatches(j, bs)
      /\ BatchSound(j, b) /\ BatchTyped(j, b)
      /\ end \in 0..RowCount(j)
      /\ Slice(j, 0, Dealt(pos, pend)) \o b.rows = Slice(j, 0, end)
  BY DEF CanAdd
<1>2. /\ Covered(j, end, <<>>, em + Len(b.rows), Append(bs, b))
      /\ SoundBatches(j, Append(bs, b))
      /\ Len(Append(bs, b)) = Len(bs) + 1 /\ Append(bs, b)[Len(bs) + 1] = b
      /\ \A k \in 1..Len(bs) : Append(bs, b)[k] = bs[k]
  BY <1>1, BatchAdded, SMTT(20)
<1> QED BY <1>2 DEF Added

LEMMA NextBatchReads ==
  ASSUME NEW j \in Jobs, j.schema # "none", NEW pos, NEW pend, NEW em, NEW dn, ~dn, NEW bs,
         Reading(j, pos, pend, em, dn, bs),
         NEW k \in DOMAIN (pend \o ChunksFrom(j, pos)),
         NEW s, s = Included(j, (pend \o ChunksFrom(j, pos))[k]), s # <<>>,
         \A h \in 1..(k - 1) : Included(j, (pend \o ChunksFrom(j, pos))[h]) = <<>>,
         NEW ps, ps = IF j.cast /\ j.schema = "batch"
                      THEN InferSchema(j, PlansOf(j), (pend \o ChunksFrom(j, pos))[k]) ELSE PlansOf(j)
  PROVE  Reading(j, Min({pos + (k - Len(pend)) * j.size, Len(j.rows)}), <<>>, em + Len(s), dn,
                 Append(bs, Materialize(j, ps, s, j.cast /\ j.schema = "batch")))
<1> DEFINE c == pend \o ChunksFrom(j, pos)
           d == Dealt(pos, pend)
           n == ChunksOf(j, d)
           L == RowCount(j)
           R == RowsOf(j)
           E(i) == ChunkEnd(j, d, i)
           inferring == j.cast /\ j.schema = "batch"
           b == Materialize(j, ps, s, inferring)
<1>1. Placed(j, pos, pend, em, dn, bs) /\ Sized(j, dn, bs)
  BY DEF Reading
<1>2. /\ d \in 0..L /\ c = ChunksFrom(j, d)
      /\ \A i \in Nat \ {0} : Min({pos + (i - Len(pend)) * j.size, Len(j.rows)}) = E(i)
  BY <1>1, ChunksLeft
<1>3. L \in Nat /\ j.size \in Nat \ {0}
  BY JobFacts
<1> HIDE DEF c, d, L, b
<1>4. n \in Nat /\ k \in 1..n
  <2>1. n \in Nat
    BY <1>2, ChunksOfFacts DEF L
  <2>2. DOMAIN ChunksFrom(j, d) = 1..n
    BY <1>2, ChunksFromFacts DEF L
  <2> QED BY <1>2, <2>1, <2>2 DEF c
<1>5. /\ E(k - 1) \in d..E(k) /\ E(k) <= E(k - 1) + j.size
      /\ Included(j, c[k]) = Slice(j, E(k - 1), E(k))
  BY <1>2, <1>4, ChunkEnds DEF L
<1>6. E(k) \in d..L /\ E(k - 1) \in d..L /\ k - 1 \in 0..n
  <2>1. k \in 0..n /\ k - 1 \in 0..n
    BY <1>4
  <2> QED BY <1>2, <2>1, ChunkEnds DEF L
<1>7. s = Slice(j, E(k - 1), E(k))
  BY <1>5 DEF c
<1>8. Slice(j, d, E(k - 1)) = <<>>
  <2>1. \A h \in 1..(k - 1) : Included(j, ChunksFrom(j, d)[h]) = <<>>
    BY <1>2 DEF c
  <2> HIDE DEF E
  <2> QED BY <1>2, <1>6, <2>1, FirstChunks DEF L, E
<1> DEFINE a == E(k - 1)
           e == E(k)
<1>9. a \in Nat /\ e \in Nat /\ a \in d..L /\ a \in 0..L /\ e \in a..L /\ e \in 0..L /\ e <= a + j.size /\ d \in Nat
      /\ L \in 0..L
  <2> HIDE DEF E
  <2> QED BY <1>2, <1>3, <1>5, <1>6
<1> HIDE DEF a, e
<1>10. s = Slice(j, a, e) /\ Slice(j, d, a) = <<>>
  BY <1>7, <1>8 DEF a, e
<1>11. s \in Seq(R) /\ RowsWithin(j, s) /\ Len(s) \in Nat /\ Len(s) <= e - a
  <2>1. s \in Seq(R) /\ RowsWithin(j, s)
    BY <1>9, <1>10, RowsPart DEF L
  <2>2. Len(s) \in Nat /\ Len(s) <= e - a
    BY <1>9, <1>10, SliceType DEF L
  <2> QED BY <2>1, <2>2
<1>12. Len(s) \in 1..j.size
  <2>1. Len(s) # 0
    BY <1>11, EmptySeq
  <2> QED BY <1>3, <1>9, <1>11, <2>1
<1>13. Slice(j, 0, d) \o s = Slice(j, 0, e)
  <2>0. 0 \in Nat /\ d \in 0..RowCount(j) /\ a \in d..RowCount(j) /\ 0 \in 0..RowCount(j)
    BY <1>2, <1>3, <1>9 DEF L
  <2>1. Slice(j, 0, d) \o Slice(j, d, a) = Slice(j, 0, a) /\ Slice(j, 0, d) \in Seq(R)
    <3>1. Slice(j, 0, d) \o Slice(j, d, a) = Slice(j, 0, a)
      BY <2>0, SliceJoin
    <3>2. Slice(j, 0, d) \in Seq(R)
      BY <2>0, RowsPart
    <3> QED BY <3>1, <3>2
  <2>2. Slice(j, 0, a) \o Slice(j, a, e) = Slice(j, 0, e)
    BY <1>3, <1>9, SliceJoin DEF L
  <2>3. Slice(j, 0, d) \o <<>> = Slice(j, 0, d)
    BY <2>1, ConcatEmptySeq
  <2> QED BY <1>10, <2>1, <2>2, <2>3
<1>14. IF inferring THEN ArePlans(j, ps, s) ELSE ps = PlansOf(j)
  <2>1. CASE inferring
    <3>1. KnownRows(j) = <<>>
      BY <2>1 DEF KnownRows
    <3>2. ArePlans(j, PlansOf(j), <<>>) /\ <<>> \in Seq(R)
      BY <2>1, <3>1, PlansOfAre
    <3>3. ps = InferSchema(j, PlansOf(j), c[k]) /\ s = Included(j, c[k])
      BY <2>1 DEF c
    <3>4. ArePlans(j, ps, <<>> \o s)
      BY <1>11, <3>2, <3>3, InferSchemaIs
    <3>5. <<>> \o s = s
      BY <1>11, ConcatEmptySeq
    <3> QED BY <2>1, <3>4, <3>5
  <2>2. CASE ~inferring
    BY <2>2
  <2> QED BY <2>1, <2>2
<1>15. b.rows = s /\ BatchSound(j, b) /\ BatchTyped(j, b)
  BY <1>11, <1>14, MaterializeTypes, ZenonT(30) DEF b
<1> DEFINE t == Append(bs, b)
<1>16. /\ Covered(j, e, <<>>, em + Len(s), t) /\ SoundBatches(j, t)
       /\ Len(t) = Len(bs) + 1 /\ t[Len(bs) + 1] = b /\ \A h \in 1..Len(bs) : t[h] = bs[h]
  <2>1. Slice(j, 0, Dealt(pos, pend)) \o b.rows = Slice(j, 0, e)
    BY <1>13, <1>15 DEF d
  <2>2. e \in 0..RowCount(j)
    BY <1>9 DEF L
  <2>3. Dealt(pos, pend) \in 0..RowCount(j) /\ Covered(j, pos, pend, em, bs) /\ SoundBatches(j, bs)
    BY <1>2 DEF d, L, Reading
  <2>4. CanAdd(j, pos, pend, em, bs, b, e)
    BY <1>15, <2>1, <2>2, <2>3 DEF CanAdd
  <2>5. t = Append(bs, b)
    OBVIOUS
  <2> HIDE DEF t
  <2>6. Added(j, e, em, bs, b, t)
    BY <2>4, <2>5, BatchIsAdded
  <2> QED BY <1>15, <2>6 DEF Added
<1>17. Len(bs) \in Nat /\ em \in Nat
  <2>1. Covered(j, pos, pend, em, bs)
    BY DEF Reading
  <2>2. Len(bs) \in Nat /\ em = Len(Slice(j, 0, d))
    BY <2>1 DEF Covered, d
  <2>3. Len(Slice(j, 0, d)) \in Nat
    <3>1. Slice(j, 0, d) \in Seq(R)
      BY <1>2, <1>3, RowsPart DEF L
    <3> QED BY <3>1, LenProperties
  <2> QED BY <2>2, <2>3
<1> HIDE DEF t
<1>18. Sized(j, dn, t)
  <2> SUFFICES ASSUME NEW h \in 1..Len(t) PROVE Len(t[h].rows) \in 1..j.size
    BY DEF Sized
  <2>1. CASE h = Len(bs) + 1
    BY <1>12, <1>15, <1>16, <2>1
  <2>2. CASE h # Len(bs) + 1
    <3>1. h \in 1..Len(bs)
      BY <1>16, <1>17, <2>2
    <3>2. Len(bs[h].rows) \in 1..j.size
      BY <1>1, <3>1 DEF Sized
    <3> QED BY <1>16, <3>1, <3>2
  <2> QED BY <2>1, <2>2
<1>19. Placed(j, e, <<>>, em + Len(s), dn, t)
  <2>1. em + Len(s) # 0 /\ dn \in BOOLEAN
    BY <1>1, <1>12, <1>17 DEF Placed
  <2>2. <<>> = <<>>
    OBVIOUS
  <2> QED BY <1>9, <2>1, <2>2 DEF Placed, L
<1>20. WholeFile(j, dn, t)
  BY DEF WholeFile
<1>21. Min({pos + (k - Len(pend)) * j.size, Len(j.rows)}) = e
  <2>1. k \in Nat \ {0}
    BY <1>4
  <2> QED BY <1>2, <2>1 DEF e
<1>22. Reading(j, e, <<>>, em + Len(s), dn, t)
  BY <1>16, <1>18, <1>19, <1>20 DEF Reading
<1> QED BY <1>21, <1>22 DEF t, b

LEMMA AllRead ==
  ASSUME NEW j \in Jobs, NEW pos, NEW pend, NEW em, NEW dn, NEW bs,
         Placed(j, pos, pend, em, dn, bs)
  PROVE  /\ FlattenSeq([k \in DOMAIN (pend \o ChunksFrom(j, pos)) |->
                           Included(j, (pend \o ChunksFrom(j, pos))[k])])
              = Slice(j, Dealt(pos, pend), RowCount(j))
         /\ (\A k \in DOMAIN (pend \o ChunksFrom(j, pos)) :
                Included(j, (pend \o ChunksFrom(j, pos))[k]) = <<>>)
              => Slice(j, Dealt(pos, pend), RowCount(j)) = <<>>
<1> DEFINE c == pend \o ChunksFrom(j, pos)
           d == Dealt(pos, pend)
           n == ChunksOf(j, d)
           L == RowCount(j)
<1>1. d \in 0..L /\ c = ChunksFrom(j, d)
  BY ChunksLeft
<1> HIDE DEF c, d
<1>2. n \in Nat /\ n \in 0..n
  <2>1. n \in Nat
    BY <1>1, ChunksOfFacts
  <2> QED BY <2>1
<1>3. DOMAIN c = 1..n
  BY <1>1, ChunksFromFacts
<1>4. ChunkEnd(j, d, n) = L
  BY <1>1, ChunkEnds
<1>5. /\ FlattenSeq(FirstIncluded(j, d, n)) = Slice(j, d, L)
      /\ (\A h \in 1..n : Included(j, c[h]) = <<>>) => Slice(j, d, L) = <<>>
  <2> HIDE DEF n, L
  <2> QED BY <1>1, <1>2, <1>4, FirstChunks DEF n, L
<1>6. [k \in DOMAIN c |-> Included(j, c[k])] = FirstIncluded(j, d, n)
  BY <1>1, <1>3 DEF FirstIncluded
<1> QED BY <1>3, <1>5, <1>6 DEF c, d

LEMMA SingleNonEmpty ==
  ASSUME NEW t, Len(t) = 1
  PROVE  t # <<>>
<1>1. Len(<<>>) = 0
  OBVIOUS
<1> QED BY <1>1

LEMMA LastCallReads ==
  ASSUME NEW j \in Jobs, j.schema # "none", NEW pos, NEW pend, NEW em, NEW dn, ~dn, NEW bs,
         Reading(j, pos, pend, em, dn, bs),
         \A k \in DOMAIN (pend \o ChunksFrom(j, pos)) : Included(j, (pend \o ChunksFrom(j, pos))[k]) = <<>>,
         NEW e \in BOOLEAN, e,
         NEW t, t = IF em = 0
                    THEN Append(bs, Materialize(j, PlansOf(j), <<>>, j.cast /\ j.schema = "batch"))
                    ELSE bs
  PROVE  Reading(j, RowCount(j), <<>>, em, e, t)
<1> DEFINE d == Dealt(pos, pend)
           L == RowCount(j)
           R == RowsOf(j)
           s == Slice(j, 0, d)
<1>1. Placed(j, pos, pend, em, dn, bs) /\ Sized(j, dn, bs) /\ Covered(j, pos, pend, em, bs) /\ SoundBatches(j, bs)
  BY DEF Reading
<1>2. d \in 0..L /\ L \in Nat /\ L \in 0..L
  BY <1>1, ChunksLeft, JobFacts
<1>3. Slice(j, d, L) = <<>>
  BY <1>1, AllRead
<1> HIDE DEF d, L
<1>4. s \in Seq(R)
  BY <1>2, RowsPart DEF L
<1>5. PassingRows(j) = s
  <2>1. s \o Slice(j, d, L) = Slice(j, 0, L)
    <3>1. d \in 0..RowCount(j) /\ L \in d..RowCount(j)
      BY <1>2 DEF L
    <3> QED BY <3>1, SliceJoin
  <2>2. s \o <<>> = s
    BY <1>4, ConcatEmptySeq
  <2> QED BY <1>3, <2>1, <2>2 DEF PassingRows, L
<1>6. Listed(bs, Len(bs)) /\ Len(bs) \in Nat /\ HandedOut(bs) = s /\ em = Len(s)
  BY <1>1 DEF Covered, d
<1>7. Dealt(L, <<>>) = L /\ Slice(j, 0, L) = s
  BY <1>5 DEF Dealt, PassingRows, L
<1> HIDE DEF s
<1>8. WholeFile(j, e, t)
  BY DEF WholeFile
<1>9. CASE em = 0
  <2> DEFINE inferring == j.cast /\ j.schema = "batch"
             b == Materialize(j, PlansOf(j), <<>>, inferring)
  <2>1. bs = <<>> /\ s = <<>>
    BY <1>1, <1>4, <1>6, <1>9, EmptySeq DEF Placed
  <2>2. <<>> \in Seq(R) /\ RowsWithin(j, <<>>)
    BY DEF RowsWithin, RowKinds
  <2>3. IF inferring THEN ArePlans(j, PlansOf(j), <<>>) ELSE PlansOf(j) = PlansOf(j)
    <3>1. CASE inferring
      <4>1. KnownRows(j) = <<>>
        BY <3>1 DEF KnownRows
      <4> QED BY <3>1, <4>1, PlansOfAre
    <3> QED BY <3>1
  <2>4. b.rows = <<>> /\ BatchSound(j, b) /\ BatchTyped(j, b)
    BY <2>2, <2>3, MaterializeTypes
  <2>5. t = Append(bs, b)
    BY <1>9
  <2> HIDE DEF b
  <2>6. Slice(j, 0, Dealt(pos, pend)) \o b.rows = Slice(j, 0, L)
    <3>1. <<>> \o <<>> = <<>>
      OBVIOUS
    <3> QED BY <1>5, <2>1, <2>4, <3>1 DEF PassingRows, L, s, d
  <2>7. /\ Covered(j, L, <<>>, em + Len(b.rows), t) /\ SoundBatches(j, t)
        /\ Len(t) = Len(bs) + 1 /\ t[Len(bs) + 1] = b
    <3>1. L \in 0..RowCount(j)
      BY <1>2 DEF L
    <3>2. Dealt(pos, pend) \in 0..RowCount(j)
      BY <1>2 DEF d, L
    <3>3. CanAdd(j, pos, pend, em, bs, b, L)
      BY <1>1, <2>4, <2>6, <3>1, <3>2 DEF CanAdd
    <3>4. Added(j, L, em, bs, b, t)
      BY <2>5, <3>3, BatchIsAdded
    <3> QED BY <3>4 DEF Added
  <2>8. em + Len(b.rows) = em
    <3>1. Len(b.rows) = 0
      BY <2>4
    <3> QED BY <1>9, <3>1
  <2>9. Len(t) = 1 /\ t # <<>>
    <3>1. Len(bs) = 0
      BY <2>1
    <3>2. Len(t) = 1
      BY <2>7, <3>1
    <3> QED BY <3>2, SingleNonEmpty
  <2>10. Placed(j, L, <<>>, em, e, t)
    BY <1>2, <2>9 DEF Placed, L
  <2>11. Sized(j, e, t)
    BY <1>5, <2>1, <2>9 DEF Sized
  <2> QED BY <1>8, <2>7, <2>8, <2>10, <2>11 DEF Reading, L
<1>10. CASE em # 0
  <2>1. t = bs
    BY <1>10
  <2>2. bs # <<>>
    <3>1. HandedOut(<<>>) = <<>>
      BY FlattenEmpty DEF HandedOut
    <3>2. Len(<<>>) = 0
      OBVIOUS
    <3> QED BY <1>6, <1>10, <3>1, <3>2
  <2>3. Placed(j, L, <<>>, em, e, t)
    BY <1>2, <2>1, <2>2 DEF Placed, L
  <2>4. Covered(j, L, <<>>, em, t)
    BY <1>6, <1>7, <2>1 DEF Covered
  <2>5. Sized(j, e, t)
    BY <1>1, <2>1 DEF Sized
  <2> QED BY <1>1, <1>8, <2>1, <2>3, <2>4, <2>5 DEF Reading, L
<1> QED BY <1>9, <1>10

WholeColumn(j, i, cells) ==
    IntoPython(Finalize(Replay(Fill(AppendMode(j, TRUE), PlansOf(j)[i], cells), cells)))

LEMMA WholeFileColumn ==
  ASSUME NEW j \in Jobs, j.schema = "none", NEW s \in Seq(RowsOf(j)), NEW i \in DOMAIN j.columns,
         NEW cells, cells = Cells(s, j.columns[i]),
         NEW column, column = WholeColumn(j, i, cells)
  PROVE  IsCast(column, cells, KindIn(j, s, j.columns[i])) /\ Len(column.values) = Len(s)
<1>1. Column(cells) /\ Len(cells) = Len(s)
  BY CellsFacts
<1>2. CASE j.cast
  <2>1. AppendMode(j, TRUE) = "infer"
    BY <1>2, Zenon DEF AppendMode
  <2>2. PlansOf(j)[i] = Plan
    BY <1>2 DEF PlansOf, FirstPlans
  <2>3. column = IntoPython(Finalize(Replay(Fill("infer", Plan, cells), cells)))
    BY <2>1, <2>2 DEF WholeColumn
  <2>4. KindIn(j, s, j.columns[i]) = CastKind(cells)
    BY <1>2 DEF KindIn
  <2>5. IsCast(column, cells, CastKind(cells))
    BY <1>1, <2>3, InferredColumn
  <2> QED BY <1>1, <2>4, <2>5, CastLength
<1>3. CASE ~j.cast
  <2>1. AppendMode(j, TRUE) = "text"
    BY <1>3, Zenon DEF AppendMode
  <2>2. PlansOf(j)[i] = StringPlan
    BY <1>3 DEF PlansOf, FirstPlans
  <2>3. column = IntoPython(Finalize(Replay(Fill("text", StringPlan, cells), cells)))
    BY <2>1, <2>2 DEF WholeColumn
  <2>4. KindIn(j, s, j.columns[i]) = "STRING"
    BY <1>3 DEF KindIn
  <2>5. IsCast(column, cells, "STRING")
    BY <1>1, <2>3, TextColumnIsCast
  <2> QED BY <1>1, <2>4, <2>5, CastLength
<1> QED BY <1>2, <1>3

WholeFileColumns(j, s) ==
    [i \in DOMAIN PlansOf(j) |-> WholeColumn(j, i, Cells(s, j.columns[i]))]

LEMMA PlansDomain ==
  ASSUME NEW j \in Jobs
  PROVE  DOMAIN PlansOf(j) = DOMAIN j.columns
<1>1. CASE j.cast
  <2>1. ArePlans(j, PlansOf(j), KnownRows(j))
    BY <1>1, PlansOfAre
  <2> QED BY <2>1 DEF ArePlans
<1>2. CASE ~j.cast
  <2>1. PlansOf(j) = [i \in DOMAIN j.columns |-> StringPlan]
    BY <1>2, PlansOfAre
  <2> QED BY <2>1
<1> QED BY <1>1, <1>2

AreCast(j, s, columns) == \A i \in DOMAIN j.columns :
    /\ IsCast(columns[i], Cells(s, j.columns[i]), KindIn(j, s, j.columns[i]))
    /\ Len(columns[i].values) = Len(s)

LEMMA WholeFileIsCast ==
  ASSUME NEW j \in Jobs, j.schema = "none", NEW s \in Seq(RowsOf(j)),
         NEW columns, columns = WholeFileColumns(j, s)
  PROVE  AreCast(j, s, columns)
<1> SUFFICES ASSUME NEW i \in DOMAIN j.columns
             PROVE  /\ IsCast(columns[i], Cells(s, j.columns[i]), KindIn(j, s, j.columns[i]))
                    /\ Len(columns[i].values) = Len(s)
  BY DEF AreCast
<1>1. columns[i] = WholeColumn(j, i, Cells(s, j.columns[i]))
  BY PlansDomain, Zenon DEF WholeFileColumns
<1> QED BY <1>1, WholeFileColumn

LEMMA ReadNumpyReads ==
  ASSUME NEW j \in Jobs, j.schema = "none", NEW pos, NEW pend, NEW em, NEW dn, ~dn, NEW bs,
         Reading(j, pos, pend, em, dn, bs),
         NEW s, s = FlattenSeq([k \in DOMAIN (pend \o ChunksFrom(j, pos)) |->
                                  Included(j, (pend \o ChunksFrom(j, pos))[k])]),
         NEW b, b = [rows |-> s, columns |-> WholeFileColumns(j, s)],
         NEW e \in BOOLEAN, e
  PROVE  Reading(j, RowCount(j), pend, Len(s), e, <<b>>)
<1> DEFINE L == RowCount(j)
           R == RowsOf(j)
           d == Dealt(pos, pend)
           z == Slice(j, 0, d)
           t == <<b>>
<1>1. Placed(j, pos, pend, em, dn, bs) /\ Covered(j, pos, pend, em, bs) /\ SoundBatches(j, bs)
  BY DEF Reading
<1>2. pend = <<>> /\ pos = 0 /\ em = 0 /\ bs = <<>>
  BY <1>1 DEF Placed
<1>3. d = 0 /\ L \in Nat /\ 0 \in 0..L /\ L \in 0..L
  BY <1>2, JobFacts DEF Dealt
<1>4. s = Slice(j, d, L)
  BY <1>1, AllRead
<1> HIDE DEF d, L
<1>5. s = PassingRows(j) /\ s \in Seq(R) /\ Slice(j, 0, L) = s
  <2>1. s = Slice(j, 0, L)
    BY <1>3, <1>4
  <2>2. Slice(j, 0, L) \in Seq(R)
    BY <1>3, RowsPart DEF L
  <2> QED BY <2>1, <2>2 DEF PassingRows, L
<1>6. z = <<>>
  BY <1>3, SliceEmpty DEF L
<1>7. b.rows = s /\ b.columns = WholeFileColumns(j, s)
  OBVIOUS
<1>8. \A i \in DOMAIN j.columns :
         /\ IsCast(b.columns[i], Cells(s, j.columns[i]), KindIn(j, s, j.columns[i]))
         /\ Len(b.columns[i].values) = Len(s)
  <2>1. AreCast(j, s, b.columns)
    BY <1>5, <1>7, WholeFileIsCast
  <2> QED BY <2>1 DEF AreCast
<1>9. BatchSound(j, b)
  BY <1>5, <1>7, <1>8 DEF BatchSound
<1>10. BatchTyped(j, b)
  BY DEF BatchTyped
<1>11. z \o b.rows = s
  <2>1. <<>> \o s = s
    BY <1>5, ConcatEmptySeq
  <2> QED BY <1>6, <1>7, <2>1
<1>12. CanAdd(j, pos, pend, em, bs, b, L)
  <2>1. d \in 0..RowCount(j)
    BY <1>3 DEF L
  <2> QED BY <1>1, <1>3, <1>5, <1>9, <1>10, <1>11, <2>1 DEF CanAdd, L, d
<1>13. t = Append(bs, b)
  <2>1. <<b>> = Append(<<>>, b)
    OBVIOUS
  <2> QED BY <1>2, <2>1
<1>14. t[1] = b /\ t # <<>> /\ Len(t) = 1
  OBVIOUS
<1> HIDE DEF t
<1>15. Added(j, L, em, bs, b, t)
  BY <1>12, <1>13, BatchIsAdded
<1>16. em + Len(b.rows) = Len(s)
  <2>1. Len(s) \in Nat
    BY <1>5, LenProperties
  <2> QED BY <1>2, <1>7, <2>1
<1>17. Covered(j, L, pend, Len(s), t) /\ SoundBatches(j, t)
  BY <1>2, <1>15, <1>16 DEF Added
<1>18. Placed(j, L, pend, Len(s), e, t)
  BY <1>2, <1>3, <1>14 DEF Placed, L
<1>19. Sized(j, e, t)
  BY <1>14 DEF Sized
<1>20. WholeFile(j, e, t)
  BY <1>5, <1>8, <1>14 DEF WholeFile
<1> QED BY <1>17, <1>18, <1>19, <1>20 DEF Reading, t, L

LEMMA FirstState ==
  ASSUME NEW j \in Jobs, NEW pos, NEW pend, NEW dn \in BOOLEAN, ~dn,
         \/ pend = <<>> /\ pos = 0
         \/ /\ pend = <<ChunkAt(j, 0)>> /\ pos = Len(ChunkAt(j, 0)) /\ RowCount(j) # 0
            /\ j.schema # "none"
  PROVE  Reading(j, pos, pend, 0, dn, <<>>)
<1> DEFINE first == ChunkAt(j, 0)
<1>1. RowCount(j) \in Nat /\ 0 \in 0..RowCount(j)
  BY JobFacts
<1>2. RowCount(j) # 0 => Len(first) \in 1..RowCount(j)
  BY SampleIsFirst
<1> HIDE DEF first
<1>3. pend = <<>> \/ pend = <<first>>
  BY DEF first
<1>4. Dealt(pos, pend) = 0
  <2>1. <<first>> # <<>>
    OBVIOUS
  <2> QED BY <1>3, <2>1 DEF Dealt
<1>5. Placed(j, pos, pend, 0, dn, <<>>)
  <2>1. pos \in 0..RowCount(j)
    BY <1>1, <1>2 DEF first
  <2> QED BY <1>1, <2>1 DEF Placed, first
<1>6. Covered(j, pos, pend, 0, <<>>)
  <2>1. Slice(j, 0, 0) = <<>>
    BY <1>1, SliceEmpty
  <2>2. HandedOut(<<>>) = <<>>
    BY FlattenEmpty DEF HandedOut
  <2>3. Len(<<>>) = 0
    OBVIOUS
  <2> QED BY <1>4, <2>1, <2>2, <2>3, ListedEmpty DEF Covered
<1>7. Sized(j, dn, <<>>) /\ SoundBatches(j, <<>>)
  BY DEF Sized, SoundBatches
<1>8. WholeFile(j, dn, <<>>)
  BY DEF WholeFile
<1> QED BY <1>5, <1>6, <1>7, <1>8 DEF Reading

LEMMA NumpyInitInv == Init => NumpyInv
<1> SUFFICES ASSUME Init PROVE NumpyInv
  OBVIOUS
<1>1. job \in Jobs /\ emitted_rows = 0 /\ batches = <<>> /\ done \in BOOLEAN /\ ~done
  BY DEF Init
<1>2. plans = PlansOf(job)
  BY DEF Init, Sampling, PlansOf
<1>3. \/ pending = <<>> /\ position = 0
      \/ /\ pending = <<ChunkAt(job, 0)>> /\ position = Len(ChunkAt(job, 0)) /\ RowCount(job) # 0
         /\ job.schema # "none"
  <2>1. CASE Sampling
    <3>1. job.rows # <<>> /\ job.rows \in Seq(RowsOf(job))
      BY <1>1, <2>1, JobFacts DEF Sampling
    <3>2. RowCount(job) # 0
      BY <3>1, EmptySeq DEF RowCount
    <3> QED BY <2>1, <3>2 DEF Init, Sampling
  <2>2. CASE ~Sampling
    BY <2>2 DEF Init
  <2> QED BY <2>1, <2>2
<1>4. Reading(job, position, pending, 0, done, <<>>)
  BY <1>1, <1>3, FirstState
<1> QED BY <1>1, <1>2, <1>4 DEF NumpyInv

LEMMA NextBatchInv == NumpyInv /\ NextBatch => NumpyInv'
<1> SUFFICES ASSUME NumpyInv, NextBatch PROVE NumpyInv'
  OBVIOUS
<1>1. /\ job \in Jobs /\ plans = PlansOf(job)
      /\ Reading(job, position, pending, emitted_rows, done, batches)
  BY DEF NumpyInv
<1> DEFINE c == pending \o ChunksFrom(job, position)
<1>2. PICK k \in DOMAIN c :
         LET s == Included(job, c[k])
             ps == IF InferPerBatch THEN InferSchema(job, plans, c[k]) ELSE plans
         IN  /\ s # <<>>
             /\ \A h \in 1..(k - 1) : Included(job, c[h]) = <<>>
             /\ batches' = Append(batches, Materialize(job, ps, s, InferPerBatch))
             /\ emitted_rows' = emitted_rows + Len(s)
             /\ position' = Min({position + (k - Len(pending)) * job.size, Len(job.rows)})
  BY Zenon DEF NextBatch, Chunks
<1> DEFINE s == Included(job, c[k])
           ps == IF InferPerBatch THEN InferSchema(job, plans, c[k]) ELSE plans
<1>3. /\ s # <<>>
      /\ \A h \in 1..(k - 1) : Included(job, c[h]) = <<>>
      /\ batches' = Append(batches, Materialize(job, ps, s, InferPerBatch))
      /\ emitted_rows' = emitted_rows + Len(s)
      /\ position' = Min({position + (k - Len(pending)) * job.size, Len(job.rows)})
  BY <1>2, Zenon
<1>4. /\ job' = job /\ plans' = plans /\ done' = done /\ pending' = <<>>
      /\ ~done /\ job.schema # "none"
  BY DEF NextBatch
<1>5. ps = IF job.cast /\ job.schema = "batch" THEN InferSchema(job, PlansOf(job), c[k]) ELSE PlansOf(job)
  BY <1>1 DEF InferPerBatch
<1>6. batches' = Append(batches, Materialize(job, ps, s, job.cast /\ job.schema = "batch"))
  <2> HIDE DEF ps, s
  <2> QED BY <1>3, Zenon DEF InferPerBatch
<1>7. s = Included(job, c[k])
  OBVIOUS
<1> HIDE DEF ps, s
<1>8. Reading(job, Min({position + (k - Len(pending)) * job.size, Len(job.rows)}), <<>>,
              emitted_rows + Len(s), done,
              Append(batches, Materialize(job, ps, s, job.cast /\ job.schema = "batch")))
  BY <1>1, <1>3, <1>4, <1>5, <1>7, NextBatchReads
<1>9. Reading(job, position', pending', emitted_rows', done, batches')
  BY <1>3, <1>4, <1>6, <1>8, Zenon
<1>10. job' \in Jobs /\ plans' = PlansOf(job')
  BY <1>1, <1>4
<1>11. Reading(job', position', pending', emitted_rows', done', batches')
  BY <1>4, <1>9
<1> QED BY <1>10, <1>11 DEF NumpyInv

LEMMA LastCallInv == NumpyInv /\ LastCall => NumpyInv'
<1> SUFFICES ASSUME NumpyInv, LastCall PROVE NumpyInv'
  OBVIOUS
<1>1. /\ job \in Jobs /\ plans = PlansOf(job)
      /\ Reading(job, position, pending, emitted_rows, done, batches)
  BY DEF NumpyInv
<1> DEFINE c == pending \o ChunksFrom(job, position)
<1>2. /\ ~done /\ job.schema # "none"
      /\ \A k \in DOMAIN c : Included(job, c[k]) = <<>>
      /\ done' \in BOOLEAN /\ done'
      /\ position' = RowCount(job) /\ pending' = <<>>
      /\ job' = job /\ plans' = plans /\ emitted_rows' = emitted_rows
  BY DEF LastCall, Chunks, RowCount
<1>3. batches' = IF emitted_rows = 0
                 THEN Append(batches, Materialize(job, PlansOf(job), <<>>, job.cast /\ job.schema = "batch"))
                 ELSE batches
  BY <1>1, Zenon DEF LastCall, InferPerBatch
<1>4. Reading(job, RowCount(job), <<>>, emitted_rows, done', batches')
  BY <1>1, <1>2, <1>3, LastCallReads
<1>5. job' \in Jobs /\ plans' = PlansOf(job')
  BY <1>1, <1>2
<1>6. Reading(job', position', pending', emitted_rows', done', batches')
  BY <1>2, <1>4
<1> QED BY <1>5, <1>6 DEF NumpyInv

LEMMA ReadNumpyInv == NumpyInv /\ ReadNumpy => NumpyInv'
<1> SUFFICES ASSUME NumpyInv, ReadNumpy PROVE NumpyInv'
  OBVIOUS
<1>1. /\ job \in Jobs /\ plans = PlansOf(job)
      /\ Reading(job, position, pending, emitted_rows, done, batches)
  BY DEF NumpyInv
<1> DEFINE c == pending \o ChunksFrom(job, position)
           s == FlattenSeq([k \in DOMAIN c |-> Included(job, c[k])])
           b == [rows |-> s, columns |-> WholeFileColumns(job, s)]
<1>2. /\ ~done /\ job.schema = "none" /\ done' \in BOOLEAN /\ done'
      /\ position' = RowCount(job) /\ pending' = pending /\ job' = job /\ plans' = plans
  BY DEF ReadNumpy, RowCount
<1>3. emitted_rows' = Len(s)
  BY Zenon DEF ReadNumpy, Chunks
<1>4. batches' = <<[rows |-> s,
                    columns |-> [i \in DOMAIN plans |-> WholeColumn(job, i, Cells(s, job.columns[i]))]]>>
  BY <1>1, Zenon DEF ReadNumpy, Chunks, WholeColumn
<1>5. batches' = <<b>>
  BY <1>1, <1>4, Zenon DEF WholeFileColumns
<1>6. s = FlattenSeq([k \in DOMAIN c |-> Included(job, c[k])])
      /\ b = [rows |-> s, columns |-> WholeFileColumns(job, s)]
  OBVIOUS
<1> HIDE DEF b, s
<1>7. Reading(job, RowCount(job), pending, Len(s), done', <<b>>)
  BY <1>1, <1>2, <1>6, ReadNumpyReads
<1>8. job' \in Jobs /\ plans' = PlansOf(job')
  BY <1>1, <1>2
<1>9. Reading(job', position', pending', emitted_rows', done', batches')
  BY <1>2, <1>3, <1>5, <1>7
<1> QED BY <1>8, <1>9 DEF NumpyInv

LEMMA NumpyNextInv == NumpyInv /\ [Next]_numpyVars => NumpyInv'
<1> SUFFICES ASSUME NumpyInv, [Next]_numpyVars PROVE NumpyInv'
  OBVIOUS
<1>1. CASE ReadNumpy
  BY <1>1, ReadNumpyInv
<1>2. CASE NextBatch
  BY <1>2, NextBatchInv
<1>3. CASE LastCall
  BY <1>3, LastCallInv
<1>4. CASE UNCHANGED numpyVars
  BY <1>4 DEF NumpyInv, numpyVars
<1>5. AlreadyDone => UNCHANGED numpyVars
  BY DEF AlreadyDone
<1> QED BY <1>1, <1>2, <1>3, <1>4, <1>5 DEF Next

LEMMA NumpyInvHolds == Spec => []NumpyInv
<1> QED BY NumpyInitInv, NumpyNextInv, PTL DEF Spec

-----------------------------------------------------------------------------
(* What the invariant says, in the words of the model.                     *)
LEMMA IncludedRowsAre == job \in Jobs => IncludedRows = PassingRows(job)
<1> SUFFICES ASSUME job \in Jobs PROVE IncludedRows = PassingRows(job)
  OBVIOUS
<1> QED BY RowsKeptIs, Zenon DEF IncludedRows

LEMMA PrefixJoin ==
  ASSUME NEW S, NEW s \in Seq(S), NEW t \in Seq(S)
  PROVE  IsPrefix(s, s \o t)
<1>1. Len(s) \in Nat /\ Len(t) \in Nat /\ Len(s \o t) = Len(s) + Len(t) /\ s \o t \in Seq(S)
      /\ \A i \in 1..Len(s) : (s \o t)[i] = s[i]
  BY ConcatProperties
<1>2. Len(s) <= Len(s \o t)
  BY <1>1
<1>3. SubSeq(s, 1, Len(s)) = SubSeq(s \o t, 1, Len(s))
  <2> DEFINE u == s \o t
  <2> HIDE DEF u
  <2>1. \A i \in 1..Len(s) : u[i] = s[i]
    BY <1>1 DEF u
  <2>2. 1 <= Len(s) + 1
    BY <1>1
  <2>3. SubSeq(s, 1, Len(s)) = [i \in 1..(Len(s) - 1 + 1) |-> s[i + 1 - 1]]
    BY <1>1
  <2>4. SubSeq(u, 1, Len(s)) = [i \in 1..(Len(s) - 1 + 1) |-> u[i + 1 - 1]]
    BY <1>1, <1>2 DEF u
  <2>5. \A i \in 1..(Len(s) - 1 + 1) : i + 1 - 1 \in 1..Len(s)
    BY <1>1
  <2> QED BY <2>1, <2>3, <2>4, <2>5 DEF u
<1> QED BY <1>2, <1>3 DEF IsPrefix

LEMMA CoversRows == NumpyInv => BatchesCoverRows
<1> SUFFICES ASSUME NumpyInv PROVE BatchesCoverRows
  OBVIOUS
<1> DEFINE j == job
           L == RowCount(j)
           d == Dealt(position, pending)
           s == FlattenSeq([k \in DOMAIN batches |-> batches[k].rows])
           all == PassingRows(j)
<1>1. j \in Jobs /\ Placed(j, position, pending, emitted_rows, done, batches)
      /\ Covered(j, position, pending, emitted_rows, batches)
      /\ Sized(j, done, batches) /\ SoundBatches(j, batches)
  BY DEF NumpyInv, Reading
<1>2. IncludedRows = all
  BY <1>1, IncludedRowsAre
<1>3. d \in 0..L /\ L \in Nat /\ 0 \in 0..L /\ L \in 0..L
  BY <1>1, ChunksLeft, JobFacts
<1>4. s = Slice(j, 0, d) /\ emitted_rows = Len(Slice(j, 0, d))
  BY <1>1 DEF Covered, HandedOut
<1>5. DOMAIN batches = 1..Len(batches)
  BY <1>1 DEF Covered, Listed
<1> HIDE DEF j, L, d, s, all
<1>6. IsPrefix(s, all)
  <2>1. Slice(j, 0, d) \in Seq(RowsOf(j)) /\ Slice(j, d, L) \in Seq(RowsOf(j))
    <3>1. L \in d..L /\ d \in 0..L
      BY <1>3
    <3> QED BY <1>1, <1>3, <3>1, RowsPart DEF L
  <2>2. Slice(j, 0, d) \o Slice(j, d, L) = all
    <3>1. d \in 0..RowCount(j) /\ L \in d..RowCount(j) /\ 0 \in Nat
      BY <1>3 DEF L
    <3> QED BY <1>1, <3>1, SliceJoin DEF L, all, PassingRows
  <2> QED BY <1>4, <2>1, <2>2, PrefixJoin
<1>7. done => s = all /\ batches # <<>>
  <2> SUFFICES ASSUME done PROVE s = all /\ batches # <<>>
    OBVIOUS
  <2>1. position = L /\ batches # <<>> /\ pending = <<>>
    BY <1>1 DEF Placed, L
  <2>2. d = L
    BY <2>1 DEF d, Dealt
  <2> QED BY <1>4, <2>1, <2>2 DEF all, PassingRows, L
<1>8. \A k \in DOMAIN batches :
         /\ \/ Len(batches[k].rows) \in 1..job.size
            \/ Len(batches) = 1 /\ (IncludedRows = <<>> \/ job.schema = "none")
         /\ \A i \in DOMAIN job.columns : Len(batches[k].columns[i].values) = Len(batches[k].rows)
  <2> SUFFICES ASSUME NEW k \in 1..Len(batches)
               PROVE  /\ \/ Len(batches[k].rows) \in 1..job.size
                         \/ Len(batches) = 1 /\ (IncludedRows = <<>> \/ job.schema = "none")
                      /\ \A i \in DOMAIN job.columns :
                            Len(batches[k].columns[i].values) = Len(batches[k].rows)
    BY <1>5
  <2>1. BatchSound(job, batches[k])
    BY <1>1 DEF SoundBatches, j
  <2> QED BY <1>1, <1>2, <2>1 DEF Sized, BatchSound, j, all
<1> QED BY <1>2, <1>4, <1>6, <1>7, <1>8 DEF BatchesCoverRows, s

LEMMA WholeFileRead == NumpyInv => ReadNumpyIsCast
<1> SUFFICES ASSUME NumpyInv, done, job.schema = "none", NEW i \in DOMAIN job.columns
             PROVE  IsCast(batches[1].columns[i], Cells(IncludedRows, job.columns[i]),
                           Kind(IncludedRows, job.columns[i]))
  BY DEF ReadNumpyIsCast
<1>1. job \in Jobs /\ WholeFile(job, done, batches)
  BY DEF NumpyInv, Reading
<1>2. IncludedRows = PassingRows(job)
  BY <1>1, IncludedRowsAre
<1>3. Kind(IncludedRows, job.columns[i]) = KindIn(job, PassingRows(job), job.columns[i])
  BY <1>2 DEF Kind, KindIn
<1> QED BY <1>1, <1>2, <1>3 DEF WholeFile

LEMMA TypesKept == NumpyInv => BatchTypes
<1> SUFFICES ASSUME NumpyInv, job.schema # "none", NEW k \in DOMAIN batches, NEW i \in DOMAIN job.columns
             PROVE  LET c == job.columns[i]
                        s == SchemaRows(k)
                        array == batches[k].columns[i]
                        decided == \E h \in DOMAIN s : s[h][c].kind # "NULL"
                    IN  IF job.schema = "sample" /\ job.cast
                        THEN decided => /\ array.dtype = Kind(s, c)
                                        /\ batches[k].rows = s => IsCast(array, Cells(s, c), Kind(s, c))
                        ELSE IsCast(array, Cells(batches[k].rows, c), Kind(s, c))
  BY Zenon DEF BatchTypes
<1> DEFINE c == job.columns[i]
           s == SchemaRows(k)
           array == batches[k].columns[i]
           b == batches[k]
<1>1. job \in Jobs /\ SoundBatches(job, batches) /\ k \in 1..Len(batches)
  BY DEF NumpyInv, Reading, Covered, Listed
<1>2. ColumnTyped(job, b, i)
  BY <1>1 DEF SoundBatches, BatchTyped
<1>3. s = RowsDeciding(job, b)
  BY <1>1, IncludedRowsAre DEF SchemaRows, RowsDeciding
<1>4. \A t : Kind(t, c) = KindIn(job, t, c)
  BY DEF Kind, KindIn
<1>5. \A t : Decided(t, c) <=> \E h \in DOMAIN t : t[h][c].kind # "NULL"
  BY DEF Decided
<1>6. IF job.schema = "sample" /\ job.cast
      THEN Decided(s, c) => /\ array.dtype = KindIn(job, s, c)
                            /\ b.rows = s => IsCast(array, Cells(s, c), KindIn(job, s, c))
      ELSE IsCast(array, Cells(b.rows, c), KindIn(job, s, c))
  <2> HIDE DEF s
  <2> QED BY <1>2, <1>3, Zenon DEF ColumnTyped
<1> HIDE DEF s
<1>7. IF job.schema = "sample" /\ job.cast
      THEN (\E h \in DOMAIN s : s[h][c].kind # "NULL")
              => /\ array.dtype = Kind(s, c)
                 /\ b.rows = s => IsCast(array, Cells(s, c), Kind(s, c))
      ELSE IsCast(array, Cells(b.rows, c), Kind(s, c))
  <2> HIDE DEF c, array, b
  <2> QED BY <1>4, <1>5, <1>6
<1> QED BY <1>7 DEF s

(* In every state of NumpyBatchReader, for all files, filters and batch    *)
(* sizes, the batches returned so far hold the rows that pass the filter,  *)
(* in order and each once, up to what next() has read, and all of them     *)
(* after the last call; no batch is empty unless it is the only one.       *)
THEOREM NumpyBatchesCoverRows == Spec => []BatchesCoverRows
<1> QED BY NumpyInvHolds, CoversRows, PTL

(* read_numpy(): whatever the cells of a column and in whatever order they *)
(* are appended to its buffer, the array is what looking at all its cells  *)
(* at once would give (AppendCasted, PromoteToFloat, replay_string_columns).*)
THEOREM ReadNumpyCasts == Spec => []ReadNumpyIsCast
<1> QED BY NumpyInvHolds, WholeFileRead, PTL

(* read_numpy_batches(): every batch has the types that the rows its       *)
(* schema mode names call for (infer_numpy_batch_schema,                   *)
(* promote_numpy_column_plan, append_fixed_casted).                        *)
THEOREM NumpyBatchesAreTyped == Spec => []BatchTypes
<1> QED BY NumpyInvHolds, TypesKept, PTL
=============================================================================
