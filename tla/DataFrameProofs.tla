-------------------------- MODULE DataFrameProofs ---------------------------
(***************************************************************************)
(* DataFrame for every source, every number of changes and any number of   *)
(* threads: the vectors that describe a frame stay parallel, a key index   *)
(* that is built is the right one, a column proxy that is valid shows its  *)
(* column, and the frame implements FrameTable.  The inductive invariant   *)
(* is Inv.                                                                 *)
(***************************************************************************)
EXTENDS DataFrame, SequenceLemmas

(* A RowOverlaySlot, and where a callback may be. *)
Partial == UNION {[D -> Values] : D \in SUBSET (1..width)}
Slot == [made : BOOLEAN, values : Partial]
CallType ==
    [at : {"idle"}]
    \cup [at : {"read", "get"}, i : 1..Len(rows), c : 1..Len(col_names), p : 1..width]
    \cup [at : {"edit", "lock", "ensure", "set"}, i : 1..Len(rows), c : 1..Len(col_names),
          p : 1..width, value : Values]
    \cup [at : {"find", "build", "fill", "find it"}, value : Values]

FrameTypes ==
    /\ width \in Nat
    /\ col_names \in Seq(Names) /\ column_indices \in Seq(1..width)
    /\ rows \in Seq(Seq(Values)) /\ edits \in Seq(Slot)
    /\ is_keyed \in BOOLEAN /\ keys_ \in Seq(Values) /\ key_column \in 0..width

(* A field per column, in order while none is hidden, a key per row; the    *)
(* keys of rows that were read as blank lines stay behind.                  *)
Parallel ==
    /\ column_indices # <<>> => \A i \in 1..Len(rows) : Len(rows[i]) = width
    /\ Len(col_names) <= width
    /\ Len(col_names) = width => \A c \in 1..width : column_indices[c] = c
    /\ ~is_keyed => key_column = 0
    /\ is_keyed => Len(rows) <= Len(keys_)

(* No callback runs where the owner has not sent one. *)
Callbacks ==
    /\ tasks \subseteq 1..Len(col_names)
    /\ call \in [Threads -> CallType]
    /\ \A t \in Threads :
          /\ call[t].at \in {"read", "get", "edit", "lock", "ensure", "set"} =>
                call[t].p = column_indices[call[t].c]
          /\ call[t].at \in {"set", "get"} => edits[call[t].i].made
          /\ call[t].at \in {"find", "build", "fill", "find it"} => is_keyed

(* Until two threads meet in ensure_key_index(), one builds and all find.   *)
Index ==
    /\ key_index.built \in BOOLEAN
    /\ key_index = [built |-> key_index.built, map |-> key_index.map]
    /\ undefined = "no" =>
          /\ key_index.built /\ (\A t \in Threads : call[t].at # "fill") =>
                key_index.map = IndexOf(Len(rows))
          /\ \A t \in Threads : call[t].at \in {"fill", "find it"} => key_index.built
          /\ \A t, u \in Threads :
                call[t].at \in {"build", "fill"} =>
                   t = u \/ call[u].at \notin {"build", "fill", "find it"}

(* What was made from the columns is of the columns there are. *)
FromColumns ==
    /\ generation \in Nat /\ view.generation \in Nat
    /\ view.taken => view.generation <= generation
    /\ ViewShowsItsColumn
    /\ json.once \in BOOLEAN /\ json.made \in BOOLEAN
    /\ json = [once |-> json.once, made |-> json.made, names |-> json.names]
    /\ json.made => json.names = col_names

Inv ==
    /\ FrameTypes
    /\ Parallel
    /\ ShapeKept
    /\ Callbacks
    /\ Index
    /\ FromColumns

-----------------------------------------------------------------------------
(* Loading with keys. *)

(* What append_keyed_batch has made of the first n rows: the first of those *)
(* with the same key, in order, or what the last overwrote it with.         *)
LoadedRows(K, rs, ks, th, src, n, field, policy, order) ==
    /\ order \in [1..K -> 1..n]
    /\ \A a, b \in 1..K : a < b => order[a] < order[b]
    /\ \A a \in 1..K :
          /\ ks[a] = src[order[a]][field]
          /\ \A j \in 1..n : src[j][field] = ks[a] => order[a] <= j
          /\ policy # "OVERWRITE" => rs[a] = src[order[a]]
          /\ policy = "OVERWRITE" =>
                \E k \in 1..n : /\ rs[a] = src[k] /\ src[k][field] = ks[a]
                                /\ \A j \in 1..n : src[j][field] = ks[a] => j <= k
    /\ \A j \in 1..n : \E a \in 1..K : ks[a] = src[j][field]
    /\ policy = "THROW" /\ ~th => K = n

LoadedFrom(acc, src, n, field, policy, order) ==
    /\ acc \in [rows : Seq(Seq(Values)), keys : Seq(Values), thrown : BOOLEAN]
    /\ Len(acc.rows) = Len(acc.keys)
    /\ LoadedRows(Len(acc.keys), acc.rows, acc.keys, acc.thrown, src, n, field, policy, order)

LEMMA LoadedRow ==
  ASSUME NEW src \in Seq(Seq(Values)), NEW n \in Nat, n + 1 <= Len(src), NEW w \in Nat,
         \A j \in 1..Len(src) : Len(src[j]) = w, NEW field \in 1..w, NEW policy,
         NEW acc, NEW order, LoadedFrom(acc, src, n, field, policy, order)
  PROVE  \E o : LoadedFrom(AppendKeyedRow(acc, src[n + 1], field, policy), src, n + 1,
                           field, policy, o)
<1> DEFINE row == src[n + 1]
           K == Len(acc.keys)
           existing == {i \in DOMAIN acc.keys : acc.keys[i] = row[field]}
           next == AppendKeyedRow(acc, row, field, policy)
<1>1. Len(src) \in Nat /\ n + 1 \in 1..Len(src) /\ \A j \in 1..Len(src) : src[j] \in Seq(Values)
  BY LenProperties, ElementOfSeq
<1>2. row \in Seq(Values) /\ row[field] \in Values
  BY <1>1, ElementOfSeq
<1>3. /\ acc = [rows |-> acc.rows, keys |-> acc.keys, thrown |-> acc.thrown]
      /\ acc.rows \in Seq(Seq(Values)) /\ acc.keys \in Seq(Values) /\ acc.thrown \in BOOLEAN
      /\ Len(acc.rows) = K /\ order \in [1..K -> 1..n]
  BY DEF LoadedFrom, LoadedRows
<1>4. K \in Nat /\ DOMAIN acc.keys = 1..K /\ DOMAIN acc.rows = 1..K
  BY <1>3, LenProperties
<1>5. /\ \A a, b \in 1..K : a < b => order[a] < order[b]
      /\ \A a \in 1..K :
            /\ acc.keys[a] = src[order[a]][field]
            /\ \A j \in 1..n : src[j][field] = acc.keys[a] => order[a] <= j
            /\ policy # "OVERWRITE" => acc.rows[a] = src[order[a]]
            /\ policy = "OVERWRITE" =>
                  \E k \in 1..n : /\ acc.rows[a] = src[k] /\ src[k][field] = acc.keys[a]
                                  /\ \A j \in 1..n : src[j][field] = acc.keys[a] => j <= k
      /\ \A j \in 1..n : \E a \in 1..K : acc.keys[a] = src[j][field]
      /\ policy = "THROW" /\ ~acc.thrown => K = n
  BY DEF LoadedFrom, LoadedRows
<1>6. existing = {a \in 1..K : acc.keys[a] = row[field]}
  BY <1>4
<1>7. next = IF existing = {}
             THEN [acc EXCEPT !.rows = Append(@, row), !.keys = Append(@, row[field])]
             ELSE IF policy = "OVERWRITE"
             THEN [acc EXCEPT !.rows = [i \in DOMAIN @ |-> IF i \in existing THEN row ELSE @[i]]]
             ELSE [acc EXCEPT !.thrown = (policy = "THROW")]
  BY DEF AppendKeyedRow
<1>8. \A j \in 1..(n + 1) : j \in 1..n \/ j = n + 1
  OBVIOUS
<1> HIDE DEF existing, next, K
<1>9. CASE existing = {}
  <2> DEFINE o == [a \in 1..(K + 1) |-> IF a = K + 1 THEN n + 1 ELSE order[a]]
             ks == Append(acc.keys, row[field])
             rs == Append(acc.rows, row)
  <2>1. /\ ks \in Seq(Values) /\ Len(ks) = K + 1
        /\ \A a \in 1..K : ks[a] = acc.keys[a]
        /\ ks[K + 1] = row[field]
    BY <1>2, <1>3, AppendProperties DEF K
  <2>2. /\ rs \in Seq(Seq(Values)) /\ Len(rs) = K + 1
        /\ \A a \in 1..K : rs[a] = acc.rows[a]
        /\ rs[K + 1] = row
    BY <1>2, <1>3, AppendProperties
  <2>3. next = [rows |-> rs, keys |-> ks, thrown |-> acc.thrown]
    BY <1>3, <1>7, <1>9
  <2> HIDE DEF rs, ks, row
  <2>4. next \in [rows : Seq(Seq(Values)), keys : Seq(Values), thrown : BOOLEAN]
        /\ next.keys = ks /\ next.rows = rs /\ next.thrown = acc.thrown
    BY <1>3, <2>1, <2>2, <2>3
  <2>5. /\ o \in [1..(K + 1) -> 1..(n + 1)]
        /\ \A a \in 1..K : o[a] = order[a]
        /\ o[K + 1] = n + 1
    <3>1. \A a \in 1..K : a # K + 1 /\ a \in 1..(K + 1)
      BY <1>4
    <3>2. K + 1 \in 1..(K + 1) /\ n + 1 \in 1..(n + 1) /\ \A j \in 1..n : j \in 1..(n + 1)
      BY <1>4
    <3>3. \A a \in 1..(K + 1) : a \in 1..K \/ a = K + 1
      BY <1>4
    <3>4. \A a \in 1..K : order[a] \in 1..n
      BY <1>3
    <3>5. \A a \in 1..(K + 1) : o[a] \in 1..(n + 1)
      BY <3>1, <3>2, <3>3, <3>4
    <3> QED BY <3>1, <3>2, <3>5
  <2> HIDE DEF o
  <2>6. \A a \in 1..(K + 1) : a \in 1..K \/ a = K + 1
    BY <1>4
  <2>7. \A a \in 1..K : order[a] \in 1..n /\ acc.keys[a] # row[field]
    BY <1>3, <1>6, <1>9
  <2>8. \A j \in 1..n : src[j][field] # row[field]
    BY <1>5, <2>7
  <2>9. ASSUME NEW a \in 1..(K + 1), NEW b \in 1..(K + 1), a < b PROVE o[a] < o[b]
    <3>1. a \in 1..K /\ o[a] \in 1..n
      <4>1. a # K + 1
        BY <1>4, <2>9
      <4> QED BY <2>5, <2>6, <2>7, <4>1
    <3>2. CASE b = K + 1
      BY <2>5, <3>1, <3>2
    <3>3. CASE b \in 1..K
      BY <1>5, <2>5, <2>9, <3>1, <3>3
    <3> QED BY <2>6, <3>2, <3>3
  <2>10. ASSUME NEW a \in 1..(K + 1)
         PROVE  /\ ks[a] = src[o[a]][field]
                /\ \A j \in 1..(n + 1) : src[j][field] = ks[a] => o[a] <= j
                /\ policy # "OVERWRITE" => rs[a] = src[o[a]]
                /\ policy = "OVERWRITE" =>
                      \E k \in 1..(n + 1) :
                         /\ rs[a] = src[k] /\ src[k][field] = ks[a]
                         /\ \A j \in 1..(n + 1) : src[j][field] = ks[a] => j <= k
    <3>1. CASE a = K + 1
      <4>1. o[a] = n + 1 /\ ks[a] = row[field] /\ rs[a] = row /\ row = src[n + 1]
        BY <2>1, <2>2, <2>5, <3>1 DEF row
      <4>2. n + 1 \in 1..(n + 1) /\ \A j \in 1..(n + 1) : j <= n + 1
        OBVIOUS
      <4> QED BY <1>8, <2>8, <4>1, <4>2
    <3>2. CASE a \in 1..K
      <4>1. o[a] = order[a] /\ ks[a] = acc.keys[a] /\ rs[a] = acc.rows[a]
        BY <2>1, <2>2, <2>5, <3>2
      <4>2. src[n + 1][field] # ks[a]
        BY <2>7, <3>2, <4>1 DEF row
      <4>3. /\ ks[a] = src[o[a]][field]
            /\ \A j \in 1..(n + 1) : src[j][field] = ks[a] => o[a] <= j
            /\ policy # "OVERWRITE" => rs[a] = src[o[a]]
        BY <1>5, <1>8, <3>2, <4>1, <4>2, ZenonT(30)
      <4>4. ASSUME policy = "OVERWRITE"
            PROVE  \E k \in 1..(n + 1) :
                         /\ rs[a] = src[k] /\ src[k][field] = ks[a]
                         /\ \A j \in 1..(n + 1) : src[j][field] = ks[a] => j <= k
        <5>1. PICK k \in 1..n : /\ acc.rows[a] = src[k] /\ src[k][field] = acc.keys[a]
                                /\ \A j \in 1..n : src[j][field] = acc.keys[a] => j <= k
          BY <1>5, <3>2, <4>4
        <5>2. k \in 1..(n + 1)
          OBVIOUS
        <5> QED BY <1>8, <4>1, <4>2, <5>1, <5>2
      <4> QED BY <4>3, <4>4
    <3> QED BY <2>6, <3>1, <3>2
  <2>11. ASSUME NEW j \in 1..(n + 1) PROVE \E a \in 1..(K + 1) : ks[a] = src[j][field]
    <3>1. K + 1 \in 1..(K + 1) /\ \A a \in 1..K : a \in 1..(K + 1)
      BY <1>4
    <3>2. CASE j = n + 1
      BY <2>1, <3>1, <3>2 DEF row
    <3>3. CASE j \in 1..n
      BY <1>5, <2>1, <3>1, <3>3
    <3> QED BY <1>8, <3>2, <3>3
  <2>12. policy = "THROW" /\ ~acc.thrown => K + 1 = n + 1
    BY <1>5
  <2>13. LoadedFrom(next, src, n + 1, field, policy, o)
    <3>1. LoadedRows(K + 1, rs, ks, acc.thrown, src, n + 1, field, policy, o)
      BY <2>5, <2>9, <2>10, <2>11, <2>12 DEF LoadedRows
    <3> QED BY <2>1, <2>2, <2>4, <3>1 DEF LoadedFrom
  <2> QED BY <2>13 DEF next, row
<1>10. CASE existing # {} /\ policy = "OVERWRITE"
  <2> DEFINE rs == [i \in 1..K |-> IF i \in existing THEN row ELSE acc.rows[i]]
  <2>1. next = [rows |-> rs, keys |-> acc.keys, thrown |-> acc.thrown]
    BY <1>3, <1>4, <1>7, <1>10
  <2>2. rs \in Seq(Seq(Values)) /\ Len(rs) = K
    <3>1. \A i \in 1..K : rs[i] \in Seq(Values)
      BY <1>2, <1>3, ElementOfSeq
    <3> QED BY <1>4, <3>1, IsASeq
  <2>3. \A a \in 1..K : rs[a] = IF a \in existing THEN row ELSE acc.rows[a]
    OBVIOUS
  <2> HIDE DEF rs, row
  <2>5. order \in [1..K -> 1..(n + 1)] /\ \A a \in 1..K : order[a] \in Nat /\ order[a] <= n + 1
    BY <1>3, <1>4, SMTT(30)
  <2>6. PICK e \in 1..K : acc.keys[e] = row[field]
    BY <1>6, <1>10
  <2>7. ASSUME NEW a \in 1..K
        PROVE  /\ \A j \in 1..(n + 1) : src[j][field] = acc.keys[a] => order[a] <= j
               /\ \E k \in 1..(n + 1) :
                     /\ rs[a] = src[k] /\ src[k][field] = acc.keys[a]
                     /\ \A j \in 1..(n + 1) : src[j][field] = acc.keys[a] => j <= k
    <3>1. order[a] \in Nat /\ order[a] <= n + 1
      BY <2>5
    <3>2. \A j \in 1..(n + 1) : src[j][field] = acc.keys[a] => order[a] <= j
      BY <1>5, <1>8, <3>1
    <3>3. CASE a \in existing
      <4>1. rs[a] = src[n + 1] /\ src[n + 1][field] = acc.keys[a]
        BY <1>6, <2>3, <3>3 DEF row
      <4>2. n + 1 \in 1..(n + 1) /\ \A j \in 1..(n + 1) : j <= n + 1
        OBVIOUS
      <4> QED BY <3>2, <4>1, <4>2
    <3>4. CASE a \notin existing
      <4>1. rs[a] = acc.rows[a] /\ src[n + 1][field] # acc.keys[a]
        BY <1>6, <2>3, <3>4 DEF row
      <4>2. PICK k \in 1..n : /\ acc.rows[a] = src[k] /\ src[k][field] = acc.keys[a]
                              /\ \A j \in 1..n : src[j][field] = acc.keys[a] => j <= k
        BY <1>5, <1>10
      <4>3. k \in 1..(n + 1)
        OBVIOUS
      <4> QED BY <1>8, <3>2, <4>1, <4>2, <4>3
    <3> QED BY <3>3, <3>4
  <2>8. \A j \in 1..(n + 1) : \E a \in 1..K : acc.keys[a] = src[j][field]
    BY <1>5, <1>8, <2>6 DEF row
  <2>9. LoadedRows(K, rs, acc.keys, acc.thrown, src, n + 1, field, policy, order)
    BY <1>5, <1>10, <2>5, <2>7, <2>8 DEF LoadedRows
  <2>10. LoadedFrom(next, src, n + 1, field, policy, order)
    BY <1>3, <2>1, <2>2, <2>9 DEF LoadedFrom, K
  <2> QED BY <2>10 DEF next, row
<1>11. CASE existing # {} /\ policy # "OVERWRITE"
  <2>1. next = [rows |-> acc.rows, keys |-> acc.keys, thrown |-> (policy = "THROW")]
    BY <1>3, <1>7, <1>11
  <2> HIDE DEF row
  <2>2. policy = "THROW" => next.thrown
    BY <2>1
  <2>3. order \in [1..K -> 1..(n + 1)] /\ \A a \in 1..K : order[a] \in Nat /\ order[a] <= n + 1
    BY <1>3, <1>4, SMTT(30)
  <2>4. PICK e \in 1..K : acc.keys[e] = row[field]
    BY <1>6, <1>11
  <2>5. ASSUME NEW a \in 1..K
        PROVE  \A j \in 1..(n + 1) : src[j][field] = acc.keys[a] => order[a] <= j
    <3>1. order[a] \in Nat /\ order[a] <= n + 1
      BY <2>3
    <3> QED BY <1>5, <1>8, <3>1
  <2>6. \A j \in 1..(n + 1) : \E a \in 1..K : acc.keys[a] = src[j][field]
    BY <1>5, <1>8, <2>4 DEF row
  <2>7. LoadedRows(K, acc.rows, acc.keys, next.thrown, src, n + 1, field, policy, order)
    BY <1>5, <1>11, <2>2, <2>3, <2>5, <2>6 DEF LoadedRows
  <2>8. LoadedFrom(next, src, n + 1, field, policy, order)
    BY <1>3, <2>1, <2>7 DEF LoadedFrom, K
  <2> QED BY <2>8 DEF next, row
<1> QED BY <1>9, <1>10, <1>11

LEMMA AppendKeyedFacts ==
  ASSUME NEW source, NEW w \in Nat, source.rows \in Seq(Seq(Values)),
         \A j \in 1..Len(source.rows) : Len(source.rows[j]) = w, NEW field \in 1..w, NEW policy
  PROVE  \E order : LoadedFrom(AppendKeyed(source, field, policy), source.rows,
                               Len(source.rows), field, policy, order)
<1> DEFINE src == source.rows
           N == Len(src)
           Acc == [rows : Seq(Seq(Values)), keys : Seq(Values), thrown : BOOLEAN]
           base == [rows |-> <<>>, keys |-> <<>>, thrown |-> FALSE]
           Loads(g) == g = [n \in 0..N |-> IF n = 0 THEN base
                                           ELSE AppendKeyedRow(g[n - 1], src[n], field, policy)]
           loaded == CHOOSE g : Loads(g)
<1>1. N \in Nat /\ \A n \in 1..N : src[n] \in Seq(Values) /\ src[n][field] \in Values
  <2>1. N \in Nat /\ \A n \in 1..N : src[n] \in Seq(Values)
    BY LenProperties, ElementOfSeq
  <2> QED BY <2>1, ElementOfSeq
<1>2. AppendKeyed(source, field, policy) = loaded[N]
  BY DEF AppendKeyed
<1>3. base \in Acc
  <2>1. <<>> \in Seq(Seq(Values)) /\ <<>> \in Seq(Values)
    BY EmptySeq
  <2> QED BY <2>1
<1>4. \E g : Loads(g)
  <2> DEFINE step == [x \in Acc \X (1..N) |-> AppendKeyedRow(x[1], src[x[2]], field, policy)]
  <2>1. ASSUME NEW a \in Acc, NEW n \in 1..N
        PROVE  AppendKeyedRow(a, src[n], field, policy) \in Acc
    <3> DEFINE row == src[n]
               existing == {i \in DOMAIN a.keys : a.keys[i] = row[field]}
               over == [i \in DOMAIN a.rows |-> IF i \in existing THEN row ELSE a.rows[i]]
    <3>1. /\ a = [rows |-> a.rows, keys |-> a.keys, thrown |-> a.thrown]
          /\ a.rows \in Seq(Seq(Values)) /\ a.keys \in Seq(Values) /\ a.thrown \in BOOLEAN
      OBVIOUS
    <3>2. row \in Seq(Values) /\ row[field] \in Values
      BY <1>1
    <3>3. Append(a.rows, row) \in Seq(Seq(Values)) /\ Append(a.keys, row[field]) \in Seq(Values)
      BY <3>1, <3>2, AppendProperties
    <3>4. over \in Seq(Seq(Values))
      <4>1. Len(a.rows) \in Nat /\ DOMAIN a.rows = 1..Len(a.rows)
            /\ \A i \in 1..Len(a.rows) : a.rows[i] \in Seq(Values)
        BY <3>1, LenProperties, ElementOfSeq
      <4>2. \A i \in 1..Len(a.rows) : over[i] \in Seq(Values)
        BY <3>2, <4>1
      <4>3. over = [i \in 1..Len(a.rows) |-> over[i]]
        BY <4>1
      <4> QED BY <4>1, <4>2, <4>3, IsASeq
    <3> DEFINE next == AppendKeyedRow(a, row, field, policy)
    <3>5. \/ next = [a EXCEPT !.rows = Append(@, row), !.keys = Append(@, row[field])]
          \/ next = [a EXCEPT !.rows = over]
          \/ next = [a EXCEPT !.thrown = (policy = "THROW")]
      BY DEF AppendKeyedRow
    <3> HIDE DEF row, existing, over, next
    <3>6. CASE next = [a EXCEPT !.rows = Append(@, row), !.keys = Append(@, row[field])]
      <4>1. next = [rows |-> Append(a.rows, row), keys |-> Append(a.keys, row[field]),
                    thrown |-> a.thrown]
        BY <3>1, <3>6
      <4> QED BY <3>1, <3>3, <4>1 DEF next, row
    <3>7. CASE next = [a EXCEPT !.rows = over]
      <4>1. next = [rows |-> over, keys |-> a.keys, thrown |-> a.thrown]
        BY <3>1, <3>7
      <4> QED BY <3>1, <3>4, <4>1 DEF next, row
    <3>8. CASE next = [a EXCEPT !.thrown = (policy = "THROW")]
      <4>1. next = [rows |-> a.rows, keys |-> a.keys, thrown |-> (policy = "THROW")]
        BY <3>1, <3>8
      <4> QED BY <3>1, <4>1 DEF next, row
    <3> QED BY <3>5, <3>6, <3>7, <3>8
  <2>2. \A a \in Acc, n \in 1..N : step[<<a, n>>] = AppendKeyedRow(a, src[n], field, policy)
    OBVIOUS
  <2> HIDE DEF Acc, base, step, N, src
  <2>3. step \in [Acc \X (1..N) -> Acc]
    BY <2>1 DEF step
  <2>4. PICK f \in [0..N -> Acc] : IsRecursive(f, base, N, step)
    BY <1>1, <1>3, <2>3, RecursionExists
  <2>5. \A n \in 0..N : f[n] = IF n = 0 THEN base ELSE step[<<f[n - 1], n>>]
    BY <2>4 DEF IsRecursive
  <2>6. ASSUME NEW n \in 0..N
        PROVE  f[n] = IF n = 0 THEN base ELSE AppendKeyedRow(f[n - 1], src[n], field, policy)
    <3>1. n # 0 => n \in 1..N /\ n - 1 \in 0..N
      BY <1>1
    <3>2. n # 0 => f[n - 1] \in Acc
      BY <3>1
    <3> QED BY <2>2, <2>5, <3>1, <3>2
  <2>7. Loads(f)
    BY <2>6
  <2> QED BY <2>7
<1>5. Loads(loaded)
  <2> HIDE DEF Loads
  <2> QED BY <1>4, Zenon
<1> HIDE DEF loaded
<1>6. /\ loaded[0] = base
      /\ \A n \in 1..N : loaded[n] = AppendKeyedRow(loaded[n - 1], src[n], field, policy)
  <2> HIDE DEF base, N, src
  <2>1. \A n \in 0..N : loaded[n] = IF n = 0 THEN base
                                    ELSE AppendKeyedRow(loaded[n - 1], src[n], field, policy)
    BY <1>5
  <2>2. 0 \in 0..N /\ \A n \in 1..N : n \in 0..N /\ n # 0
    BY <1>1
  <2> QED BY <2>1, <2>2
<1> DEFINE T == {n \in Nat : n <= N => \E o : LoadedFrom(loaded[n], src, n, field, policy, o)}
<1>7. 0 \in T
  <2>1. LoadedRows(0, <<>>, <<>>, FALSE, src, 0, field, policy, <<>>)
    BY DEF LoadedRows
  <2>2. LoadedFrom(base, src, 0, field, policy, <<>>)
    BY <1>3, <2>1, EmptySeq DEF LoadedFrom
  <2> QED BY <1>6, <2>2
<1>8. ASSUME NEW n \in Nat, n \in T PROVE n + 1 \in T
  <2> SUFFICES ASSUME n + 1 <= N PROVE \E o : LoadedFrom(loaded[n + 1], src, n + 1, field, policy, o)
    OBVIOUS
  <2>1. PICK o : LoadedFrom(loaded[n], src, n, field, policy, o)
    BY <1>1, <1>8
  <2>2. n + 1 \in 1..N /\ (n + 1) - 1 = n
    BY <1>1
  <2>3. loaded[n + 1] = AppendKeyedRow(loaded[n], src[n + 1], field, policy)
    BY <1>6, <2>2
  <2> HIDE DEF src
  <2>4. src \in Seq(Seq(Values)) /\ \A j \in 1..Len(src) : Len(src[j]) = w
    BY DEF src
  <2>5. \E p : LoadedFrom(AppendKeyedRow(loaded[n], src[n + 1], field, policy), src, n + 1, field, policy, p)
    BY <2>1, <2>4, LoadedRow
  <2> QED BY <2>3, <2>5
<1> HIDE DEF T
<1>9. N \in T
  BY <1>1, <1>7, <1>8, Induction
<1> QED BY <1>1, <1>2, <1>9 DEF T

(* A loaded frame has the rows FrameTable loads, and no key twice. *)
LEMMA LoadedContract ==
  ASSUME NEW src \in Seq(Seq(Values)), NEW field, NEW policy, NEW acc, NEW order,
         LoadedFrom(acc, src, Len(src), field, policy, order)
  PROVE  /\ acc.rows \in Seq(Seq(Values)) /\ acc.keys \in Seq(Values)
         /\ Len(acc.rows) = Len(acc.keys)
         /\ \A a \in 1..Len(acc.rows) : /\ acc.rows[a][field] = acc.keys[a]
                                        /\ \E k \in 1..Len(src) : acc.rows[a] = src[k]
         /\ IsInjective(acc.keys)
         /\ policy = "THROW" /\ ~acc.thrown => Len(acc.rows) = Len(src)
         /\ FT!IsLoaded(acc.rows, src, field, policy)
<1> DEFINE K == Len(acc.keys)
           N == Len(src)
<1>1. /\ acc.rows \in Seq(Seq(Values)) /\ acc.keys \in Seq(Values) /\ Len(acc.rows) = K
      /\ order \in [1..K -> 1..N]
  BY DEF LoadedFrom, LoadedRows
<1>2. /\ \A a, b \in 1..K : a < b => order[a] < order[b]
      /\ \A a \in 1..K :
            /\ acc.keys[a] = src[order[a]][field]
            /\ \A j \in 1..N : src[j][field] = acc.keys[a] => order[a] <= j
            /\ policy # "OVERWRITE" => acc.rows[a] = src[order[a]]
            /\ policy = "OVERWRITE" =>
                  \E k \in 1..N : /\ acc.rows[a] = src[k] /\ src[k][field] = acc.keys[a]
                                  /\ \A j \in 1..N : src[j][field] = acc.keys[a] => j <= k
      /\ \A j \in 1..N : \E a \in 1..K : acc.keys[a] = src[j][field]
      /\ policy = "THROW" /\ ~acc.thrown => K = N
  BY DEF LoadedFrom, LoadedRows
<1>3. K \in Nat /\ N \in Nat /\ DOMAIN acc.rows = 1..K /\ DOMAIN acc.keys = 1..K /\ DOMAIN src = 1..N
  BY <1>1, LenProperties
<1> HIDE DEF K, N
<1>4. \A a \in 1..K : order[a] \in 1..N
  BY <1>1
<1>5. \A a \in 1..K : /\ acc.rows[a][field] = acc.keys[a]
                      /\ \E k \in 1..N : acc.rows[a] = src[k]
  BY <1>2, <1>4
<1>6. IsInjective(acc.keys)
  <2>1. ASSUME NEW a \in 1..K, NEW b \in 1..K, acc.keys[a] = acc.keys[b] PROVE ~(a < b)
    <3>1. order[b] <= order[a]
      BY <1>2, <1>4, <2>1
    <3>2. order[a] \in Nat /\ order[b] \in Nat
      BY <1>3, <1>4
    <3> QED BY <1>2, <3>1, <3>2
  <2>2. \A a, b \in 1..K : acc.keys[a] = acc.keys[b] => a = b
    BY <1>3, <2>1
  <2> QED BY <1>3, <2>2 DEF IsInjective
<1>7. FT!IsLoaded(acc.rows, src, field, policy)
  <2> DEFINE same(i) == {j \in DOMAIN src : src[j][field] = src[i][field]}
             firsts == {i \in DOMAIN src : \A j \in same(i) : i <= j}
             last(i) == CHOOSE j \in same(i) : \A k \in same(i) : k <= j
  <2>1. \A i, j \in 1..N : j \in same(i) <=> src[j][field] = src[i][field]
    BY <1>3
  <2>2. \A i : same(i) \subseteq 1..N
    BY <1>3
  <2> HIDE DEF same
  <2>3. \A i \in 1..N : i \in firsts <=> \A j \in same(i) : i <= j
    BY <1>3
  <2>4. firsts \subseteq 1..N
    BY <1>3
  <2> HIDE DEF firsts
  <2>5. ASSUME NEW a \in 1..K PROVE order[a] \in firsts
    <3>1. \A j \in same(order[a]) : order[a] <= j
      BY <1>2, <1>4, <2>1, <2>2
    <3> QED BY <1>4, <2>3, <3>1
  <2>6. ASSUME NEW i \in firsts PROVE \E a \in 1..K : order[a] = i
    <3>1. i \in 1..N
      BY <2>4
    <3>2. PICK a \in 1..K : acc.keys[a] = src[i][field]
      BY <1>2, <3>1
    <3>3. order[a] <= i
      BY <1>2, <3>1, <3>2
    <3>4. order[a] \in same(i)
      BY <1>2, <1>4, <2>1, <3>1, <3>2
    <3>5. i <= order[a]
      BY <2>3, <3>1, <3>4
    <3>6. order[a] \in Nat /\ i \in Nat
      BY <1>3, <1>4, <3>1
    <3> QED BY <3>3, <3>5, <3>6
  <2>7. ASSUME NEW a \in 1..K
        PROVE  acc.rows[a] = src[IF policy = "OVERWRITE" THEN last(order[a]) ELSE order[a]]
    <3>1. CASE policy # "OVERWRITE"
      BY <1>2, <3>1
    <3>2. CASE policy = "OVERWRITE"
      <4>1. PICK k \in 1..N : /\ acc.rows[a] = src[k] /\ src[k][field] = acc.keys[a]
                              /\ \A j \in 1..N : src[j][field] = acc.keys[a] => j <= k
        BY <1>2, <3>2
      <4>2. k \in same(order[a]) /\ \A j \in same(order[a]) : j <= k
        <5>1. acc.keys[a] = src[order[a]][field] /\ order[a] \in 1..N
          BY <1>2, <1>4
        <5>2. \A j \in 1..N : j \in same(order[a]) <=> src[j][field] = acc.keys[a]
          BY <2>1, <5>1
        <5> QED BY <2>2, <4>1, <5>2
      <4> DEFINE l == last(order[a])
      <4>3. l \in same(order[a]) /\ \A j \in same(order[a]) : j <= l
        BY <4>2
      <4> HIDE DEF l
      <4>4. l \in Nat /\ k \in Nat
        BY <1>3, <2>2, <4>3
      <4>5. l = k
        BY <4>2, <4>3, <4>4
      <4> QED BY <3>2, <4>1, <4>5 DEF l
    <3> QED BY <3>1, <3>2
  <2>8. order \in [DOMAIN acc.rows -> firsts]
    BY <1>1, <1>3, <2>5
  <2> HIDE DEF last
  <2>9. \E o \in [DOMAIN acc.rows -> firsts] :
            /\ \A m, n \in DOMAIN acc.rows : m < n => o[m] < o[n]
            /\ \A i \in firsts : \E n \in DOMAIN acc.rows : o[n] = i
            /\ \A n \in DOMAIN acc.rows :
                  acc.rows[n] = src[IF policy = "OVERWRITE" THEN last(o[n]) ELSE o[n]]
    <3>1. \A m, n \in DOMAIN acc.rows : m < n => order[m] < order[n]
      BY <1>2, <1>3
    <3>2. \A i \in firsts : \E n \in DOMAIN acc.rows : order[n] = i
      BY <1>3, <2>6
    <3>3. \A n \in DOMAIN acc.rows :
              acc.rows[n] = src[IF policy = "OVERWRITE" THEN last(order[n]) ELSE order[n]]
      BY <1>3, <2>7
    <3> QED BY <2>8, <3>1, <3>2, <3>3
  <2> QED BY <2>9, Zenon DEF FT!IsLoaded, firsts, last, same
<1> QED BY <1>1, <1>2, <1>5, <1>6, <1>7 DEF K, N

-----------------------------------------------------------------------------
(* The beginning. *)

LEMMA EmptyOverlay == NoOverlay \in Slot /\ ~NoOverlay.made /\ NoOverlay.values = <<>>
<1>1. <<>> \in [{} -> Values]
  OBVIOUS
<1>2. <<>> \in Partial
  BY <1>1 DEF Partial
<1> QED BY <1>2 DEF NoOverlay, Overlay, Slot

LEMMA EmptyOverlays ==
  ASSUME NEW n \in Nat
  PROVE  /\ [i \in 1..n |-> NoOverlay] \in Seq(Slot) /\ Len([i \in 1..n |-> NoOverlay]) = n
         /\ \A i \in 1..n : [j \in 1..n |-> NoOverlay][i].values = <<>>
BY EmptyOverlay, IsASeq

(* All columns visible, in order. *)
LEMMA AllVisible ==
  ASSUME NEW w \in Nat
  PROVE  /\ [c \in 1..w |-> c] \in Seq(1..w) /\ Len([c \in 1..w |-> c]) = w
         /\ IsInjective([c \in 1..w |-> c])
BY IsASeq DEF IsInjective

LEMMA LoadedSource ==
  ASSUME NEW source \in Sources
  PROVE  /\ source.names \in Seq(Names) /\ source.rows \in Seq(Seq(Values))
         /\ Len(source.names) \in Nat /\ Len(source.rows) \in Nat
         /\ DOMAIN source.names = 1..Len(source.names)
         /\ \A i \in 1..Len(source.rows) : Len(source.rows[i]) = Len(source.names)
<1>1. source.names \in Seq(Names) /\ source.rows \in Seq(Seq(Values))
  BY FrameAssumption
<1>2. DOMAIN source.rows = 1..Len(source.rows) /\ Len(source.rows) \in Nat
  BY <1>1, LenProperties
<1>3. DOMAIN source.names = 1..Len(source.names) /\ Len(source.names) \in Nat
  BY <1>1, LenProperties
<1> QED BY <1>1, <1>2, <1>3, FrameAssumption

LEMMA InitKeyedFacts ==
  ASSUME NEW source \in Sources, InitKeyed(source)
  PROVE  /\ is_keyed = TRUE
         /\ rows \in Seq(Seq(Values)) /\ keys_ \in Seq(Values) /\ Len(rows) = Len(keys_)
         /\ \A i \in 1..Len(rows) : Len(rows[i]) = Len(source.names)
         /\ IsInjective(keys_)
         /\ \E field \in 1..Len(source.names), policy \in Policies :
               /\ key_column \in {0, field}
               /\ \A i \in 1..Len(rows) : rows[i][field] = keys_[i]
               /\ policy = "THROW" => Len(rows) = Len(source.rows)
               /\ FT!IsLoaded(rows, source.rows, field, policy)
<1>1. PICK field \in DOMAIN source.names, policy \in Policies :
         LET loaded == AppendKeyed(source, field, policy)
         IN  /\ ~loaded.thrown
             /\ rows = loaded.rows /\ keys_ = loaded.keys
             /\ key_column \in {0, field}
  BY DEF InitKeyed
<1> DEFINE loaded == AppendKeyed(source, field, policy)
           w == Len(source.names)
<1>2. /\ source.rows \in Seq(Seq(Values)) /\ w \in Nat /\ Len(source.rows) \in Nat
      /\ field \in 1..w /\ \A i \in 1..Len(source.rows) : Len(source.rows[i]) = w
  BY LoadedSource
<1>3. \E order : LoadedFrom(loaded, source.rows, Len(source.rows), field, policy, order)
  BY <1>2, AppendKeyedFacts
<1> HIDE DEF loaded
<1>4. PICK order : LoadedFrom(loaded, source.rows, Len(source.rows), field, policy, order)
  BY <1>3
<1>5. ~loaded.thrown /\ rows = loaded.rows /\ keys_ = loaded.keys /\ key_column \in {0, field}
  BY <1>1 DEF loaded
<1>6. /\ loaded.rows \in Seq(Seq(Values)) /\ loaded.keys \in Seq(Values)
      /\ Len(loaded.rows) = Len(loaded.keys)
      /\ \A a \in 1..Len(loaded.rows) : /\ loaded.rows[a][field] = loaded.keys[a]
                                        /\ \E k \in 1..Len(source.rows) : loaded.rows[a] = source.rows[k]
      /\ IsInjective(loaded.keys)
      /\ policy = "THROW" /\ ~loaded.thrown => Len(loaded.rows) = Len(source.rows)
      /\ FT!IsLoaded(loaded.rows, source.rows, field, policy)
  BY <1>2, <1>4, LoadedContract
<1>7. is_keyed = TRUE
  BY DEF InitKeyed
<1>8. \A i \in 1..Len(rows) : Len(rows[i]) = w
  BY <1>2, <1>5, <1>6
<1> QED BY <1>2, <1>5, <1>6, <1>7, <1>8

LEMMA InitInv == Init => Inv
<1> SUFFICES ASSUME Init PROVE Inv
  OBVIOUS
<1>1. PICK source \in Sources :
        /\ col_names = source.names /\ width = Len(source.names)
        /\ InitUnkeyed(source) \/ InitKeyed(source)
  BY DEF Init
<1>2. /\ column_indices = [c \in 1..width |-> c]
      /\ edits = [i \in DOMAIN rows |-> NoOverlay]
      /\ key_index = NoIndex
      /\ json = [once |-> FALSE, made |-> FALSE, names |-> <<>>]
      /\ generation = 0
      /\ view = [taken |-> FALSE, col |-> 1, generation |-> 0, name |-> ""]
      /\ tasks = {} /\ undefined = "no"
      /\ call = [t \in Threads |-> [at |-> "idle"]]
  BY DEF Init
<1>3. /\ col_names \in Seq(Names) /\ width \in Nat /\ Len(col_names) = width
      /\ source.rows \in Seq(Seq(Values))
      /\ \A i \in 1..Len(source.rows) : Len(source.rows[i]) = width
  BY <1>1, LoadedSource
<1>4. /\ rows \in Seq(Seq(Values)) /\ keys_ \in Seq(Values) /\ is_keyed \in BOOLEAN
      /\ \A i \in 1..Len(rows) : Len(rows[i]) = width
      /\ IsInjective(keys_) /\ key_column \in 0..width
      /\ ~is_keyed => key_column = 0
      /\ is_keyed => Len(rows) = Len(keys_)
  <2>1. CASE InitUnkeyed(source)
    <3>1. rows = source.rows /\ keys_ = <<>> /\ key_column = 0 /\ is_keyed = FALSE
      BY <2>1 DEF InitUnkeyed
    <3>2. IsInjective(keys_) /\ keys_ \in Seq(Values)
      BY <3>1, EmptySeq DEF IsInjective
    <3>3. key_column \in 0..width
      BY <1>3, <3>1
    <3>4. rows \in Seq(Seq(Values)) /\ \A i \in 1..Len(rows) : Len(rows[i]) = width
      BY <1>3, <3>1
    <3> QED BY <3>1, <3>2, <3>3, <3>4
  <2>2. CASE InitKeyed(source)
    <3>1. \E field \in 1..width : key_column \in {0, field}
      BY <1>1, <2>2, InitKeyedFacts
    <3>2. key_column \in 0..width
      BY <1>3, <3>1
    <3>3. rows \in Seq(Seq(Values)) /\ \A i \in 1..Len(rows) : Len(rows[i]) = width
      BY <1>1, <2>2, InitKeyedFacts
    <3>4. is_keyed = TRUE /\ keys_ \in Seq(Values) /\ Len(rows) = Len(keys_) /\ IsInjective(keys_)
      BY <2>2, InitKeyedFacts
    <3> QED BY <3>2, <3>3, <3>4
  <2> QED BY <1>1, <2>1, <2>2
<1>5. Len(rows) \in Nat /\ DOMAIN rows = 1..Len(rows)
  BY <1>4, LenProperties
<1>6. /\ edits \in Seq(Slot) /\ Len(edits) = Len(rows)
      /\ \A i \in 1..Len(rows) : edits[i].values = <<>>
  BY <1>2, <1>5, EmptyOverlays
<1>7. /\ column_indices \in Seq(1..width) /\ Len(column_indices) = width
      /\ IsInjective(column_indices) /\ \A c \in 1..width : column_indices[c] = c
  BY <1>2, <1>3, AllVisible
<1>8. FrameTypes
  BY <1>3, <1>4, <1>6, <1>7 DEF FrameTypes
<1>9. Parallel
  <2>1. Len(col_names) <= width /\ \A c \in 1..width : column_indices[c] = c
    BY <1>3, <1>7
  <2> QED BY <1>4, <1>5, <2>1 DEF Parallel
<1>10. ShapeKept
  <2>1. DOMAIN column_indices = 1..width /\ DOMAIN edits = 1..Len(rows)
    BY <1>6, <1>7, LenProperties
  <2>2. ASSUME NEW i \in DOMAIN rows, NEW c \in DOMAIN column_indices
        PROVE  column_indices[c] \in DOMAIN rows[i]
    <3>1. rows[i] \in Seq(Values) /\ Len(rows[i]) = width
      BY <1>4, <1>5, ElementOfSeq
    <3>2. DOMAIN rows[i] = 1..width
      BY <3>1, LenProperties
    <3> QED BY <1>7, <2>1, <3>2
  <2>3. key_column # 0 => Len(keys_) = Len(rows) /\ \E c \in DOMAIN column_indices : column_indices[c] = key_column
    BY <1>4, <1>7, <2>1
  <2> QED BY <1>3, <1>4, <1>6, <1>7, <2>1, <2>2, <2>3 DEF ShapeKept
<1>11. Callbacks
  <2>1. \A t \in Threads : call[t] = [at |-> "idle"]
    BY <1>2
  <2>2. [at |-> "idle"] \in CallType
    BY DEF CallType
  <2> QED BY <1>2, <2>1, <2>2 DEF Callbacks
<1>12. Index
  BY <1>2 DEF Index, NoIndex
<1>13. FromColumns
  BY <1>2 DEF FromColumns, ViewShowsItsColumn, Valid
<1> QED BY <1>8, <1>9, <1>10, <1>11, <1>12, <1>13 DEF Inv

-----------------------------------------------------------------------------
(* What the steps share. *)

LEMMA FrameSizes ==
  ASSUME FrameTypes, ShapeKept
  PROVE  /\ Len(rows) \in Nat /\ Len(keys_) \in Nat /\ Len(col_names) \in Nat
         /\ DOMAIN rows = 1..Len(rows) /\ DOMAIN edits = 1..Len(rows)
         /\ Len(edits) = Len(rows) /\ DOMAIN keys_ = 1..Len(keys_)
         /\ DOMAIN col_names = 1..Len(col_names) /\ DOMAIN column_indices = 1..Len(col_names)
         /\ Len(column_indices) = Len(col_names)
         /\ \A i \in 1..Len(rows) : /\ rows[i] \in Seq(Values) /\ Len(rows[i]) \in Nat
                                    /\ DOMAIN rows[i] = 1..Len(rows[i])
                                    /\ edits[i] \in Slot
         /\ \A c \in 1..Len(col_names) : column_indices[c] \in 1..width
<1>1. /\ Len(rows) \in Nat /\ DOMAIN rows = 1..Len(rows) /\ DOMAIN edits = 1..Len(edits)
      /\ Len(keys_) \in Nat /\ DOMAIN keys_ = 1..Len(keys_)
      /\ Len(col_names) \in Nat /\ DOMAIN col_names = 1..Len(col_names)
      /\ DOMAIN column_indices = 1..Len(column_indices)
  BY LenProperties DEF FrameTypes
<1>2. Len(edits) = Len(rows) /\ Len(column_indices) = Len(col_names)
  BY DEF ShapeKept
<1>3. \A i \in 1..Len(rows) : rows[i] \in Seq(Values) /\ edits[i] \in Slot
  BY <1>1, <1>2, ElementOfSeq DEF FrameTypes
<1>4. \A c \in 1..Len(col_names) : column_indices[c] \in 1..width
  BY <1>1, <1>2, ElementOfSeq DEF FrameTypes
<1>5. \A i \in 1..Len(rows) : Len(rows[i]) \in Nat /\ DOMAIN rows[i] = 1..Len(rows[i])
  BY <1>3, LenProperties
<1> QED BY <1>1, <1>2, <1>3, <1>4, <1>5

LEMMA OwnerIdle ==
  ASSUME Callbacks, Owner
  PROVE  tasks = {} /\ undefined = "no" /\ \A t \in Threads : call[t] = [at |-> "idle"]
<1>1. tasks = {} /\ undefined = "no" /\ \A t \in Threads : call[t].at = "idle"
  BY DEF Owner, Working
<1>2. ASSUME NEW t \in Threads PROVE call[t] = [at |-> "idle"]
  <2>1. call[t] \in CallType /\ call[t].at = "idle"
    BY <1>1 DEF Callbacks
  <2>2. call[t] \in [at : {"idle"}]
    BY <2>1 DEF CallType
  <2> QED BY <2>2
<1> QED BY <1>1, <1>2

(* While the owner has the frame to itself, no callback is on its way. *)
LEMMA OwnerCallbacks ==
  ASSUME Callbacks, Owner, UNCHANGED <<tasks, call>>
  PROVE  Callbacks'
<1>1. tasks' = {} /\ \A t \in Threads : call'[t] = [at |-> "idle"]
  BY OwnerIdle
<1>2. call' \in [Threads -> {[at |-> "idle"]}]
  BY <1>1 DEF Callbacks
<1>3. [at |-> "idle"] \in CallType'
  BY DEF CallType
<1>4. call' \in [Threads -> CallType']
  BY <1>2, <1>3
<1>5. \A t \in Threads : call'[t].at = "idle"
  BY <1>1
<1> QED BY <1>1, <1>4, <1>5 DEF Callbacks

LEMMA SameIndexOf ==
  ASSUME UNCHANGED <<rows, keys_>>
  PROVE  IndexOf(Len(rows))' = IndexOf(Len(rows))
BY DEF IndexOf

LEMMA OwnerIndex ==
  ASSUME Callbacks, Index, Owner, UNCHANGED call,
         \/ key_index' = NoIndex
         \/ key_index' \in {key_index, EnsureKeyIndex} /\ UNCHANGED <<rows, keys_>>
  PROVE  Index'
<1>1. \A t \in Threads : call'[t].at = "idle"
  BY OwnerIdle
<1>2. key_index.built => key_index.map = IndexOf(Len(rows))
  <2>1. undefined = "no" /\ \A t \in Threads : call[t].at = "idle"
    BY OwnerIdle
  <2> QED BY <2>1 DEF Index
<1>3. CASE key_index' = NoIndex
  BY <1>1, <1>3 DEF Index, NoIndex
<1>4. CASE key_index' \in {key_index, EnsureKeyIndex} /\ UNCHANGED <<rows, keys_>>
  <2>1. IndexOf(Len(rows))' = IndexOf(Len(rows))
    BY <1>4 DEF IndexOf
  <2>2. /\ key_index.built \in BOOLEAN
        /\ key_index = [built |-> key_index.built, map |-> key_index.map]
    BY DEF Index
  <2>3. CASE key_index' = key_index
    BY <1>1, <1>2, <2>1, <2>2, <2>3 DEF Index
  <2>4. CASE key_index' # key_index
    <3>1. key_index' = [built |-> TRUE, map |-> IndexOf(Len(rows))]
      BY <1>4, <2>4 DEF EnsureKeyIndex
    <3> QED BY <1>1, <2>1, <3>1 DEF Index
  <2> QED BY <2>3, <2>4
<1> QED BY <1>3, <1>4

LEMMA SameColumns ==
  ASSUME FromColumns, UNCHANGED <<col_names, generation, view, json>>
  PROVE  FromColumns'
BY DEF FromColumns, ViewShowsItsColumn, Valid

LEMMA ChangedColumns ==
  ASSUME FromColumns, InvalidateColumnProxies, InvalidateJsonConverter, UNCHANGED view
  PROVE  FromColumns'
<1>1. generation' = generation + 1 /\ generation \in Nat /\ view.generation \in Nat
      /\ (view.taken => view.generation <= generation)
  BY DEF FromColumns, InvalidateColumnProxies
<1>2. ~Valid(view)'
  BY <1>1 DEF Valid
<1>3. json = [once |-> json.once, made |-> json.made, names |-> json.names] /\ json.once \in BOOLEAN
  BY DEF FromColumns
<1>4. json' = [once |-> json.once, made |-> FALSE, names |-> <<>>]
  BY <1>3 DEF InvalidateJsonConverter
<1>5. generation' \in Nat /\ view' = view /\ (view.taken => view.generation <= generation')
  BY <1>1
<1> QED BY <1>1, <1>2, <1>3, <1>4, <1>5 DEF FromColumns, ViewShowsItsColumn

LEMMA SameFrame ==
  ASSUME FrameTypes, Parallel, ShapeKept, UNCHANGED frameVars
  PROVE  FrameTypes' /\ Parallel' /\ ShapeKept'
<1>1. FrameTypes'
  BY DEF FrameTypes, Slot, Partial, frameVars
<1>2. Parallel'
  BY DEF Parallel, frameVars
<1>3. ShapeKept'
  BY DEF ShapeKept, frameVars
<1> QED BY <1>1, <1>2, <1>3

-----------------------------------------------------------------------------
(* Cells and their edits. *)

LEMMA PutFacts ==
  ASSUME FrameTypes, NEW f \in Partial, NEW p \in 1..width, NEW x \in Values
  PROVE  Put(f, p, x) \in Partial
<1>1. PICK D \in SUBSET (1..width) : f \in [D -> Values]
  BY DEF Partial
<1>2. D \cup {p} \in SUBSET (1..width)
  BY <1>1
<1>3. Put(f, p, x) \in [D \cup {p} -> Values]
  BY <1>1 DEF Put
<1> QED BY <1>2, <1>3 DEF Partial

LEMMA SlotFacts ==
  ASSUME NEW slot \in Slot
  PROVE  /\ slot = [made |-> slot.made, values |-> slot.values]
         /\ slot.made \in BOOLEAN /\ slot.values \in Partial
         /\ \A q \in DOMAIN slot.values : slot.values[q] \in Values
<1>1. /\ slot = [made |-> slot.made, values |-> slot.values]
      /\ slot.made \in BOOLEAN /\ slot.values \in Partial
  BY DEF Slot
<1>2. PICK D \in SUBSET (1..width) : slot.values \in [D -> Values]
  BY <1>1 DEF Partial
<1> QED BY <1>1, <1>2

(* One overlay replaced by another. *)
LEMMA EditedFrame ==
  ASSUME FrameTypes, Parallel, ShapeKept, NEW i \in 1..Len(rows), NEW slot \in Slot,
         slot.made, edits' = [edits EXCEPT ![i] = slot],
         UNCHANGED <<col_names, width, column_indices, rows, is_keyed, keys_, key_column>>
  PROVE  FrameTypes' /\ Parallel' /\ ShapeKept'
<1>1. /\ Len(edits) = Len(rows) /\ DOMAIN edits = 1..Len(rows)
      /\ edits \in Seq(Slot)
  BY FrameSizes DEF FrameTypes
<1>2. edits' \in Seq(Slot) /\ Len(edits') = Len(rows)
  BY <1>1, ExceptSeq
<1>3. Slot' = Slot
  BY DEF Slot, Partial
<1>4. FrameTypes'
  BY <1>2, <1>3 DEF FrameTypes
<1>5. Parallel'
  BY DEF Parallel
<1>6. \A j \in DOMAIN edits' : edits'[j].made \/ edits'[j].values = <<>>
  <2>1. ASSUME NEW j \in 1..Len(rows) PROVE edits'[j].made \/ edits'[j].values = <<>>
    <3>1. edits[j].made \/ edits[j].values = <<>>
      BY <1>1, <2>1 DEF ShapeKept
    <3>2. edits'[j] = IF j = i THEN slot ELSE edits[j]
      BY <1>1
    <3> QED BY <3>1, <3>2
  <2> QED BY <1>1, <2>1
<1>7. ShapeKept'
  BY <1>2, <1>6 DEF ShapeKept
<1> QED BY <1>4, <1>5, <1>7

LEMMA CellFacts ==
  ASSUME FrameTypes, ShapeKept, NEW i \in 1..Len(rows), NEW c \in 1..Len(col_names)
  PROVE  Cell(i, column_indices[c]) \in Values
<1> DEFINE p == column_indices[c]
<1>1. /\ DOMAIN rows = 1..Len(rows) /\ DOMAIN column_indices = 1..Len(col_names)
      /\ rows[i] \in Seq(Values) /\ DOMAIN rows[i] = 1..Len(rows[i]) /\ edits[i] \in Slot
  BY FrameSizes
<1>2. p \in DOMAIN rows[i]
  BY <1>1 DEF ShapeKept
<1>3. rows[i][p] \in Values
  BY <1>1, <1>2, ElementOfSeq
<1>4. p \in DOMAIN edits[i].values => edits[i].values[p] \in Values
  BY <1>1, SlotFacts
<1> QED BY <1>3, <1>4 DEF Cell

LEMMA RowFacts ==
  ASSUME FrameTypes, ShapeKept, NEW i \in 1..Len(rows)
  PROVE  /\ Row(i) \in Seq(Values) /\ Len(Row(i)) = Len(col_names)
         /\ DOMAIN Row(i) = 1..Len(col_names)
         /\ \A c \in 1..Len(col_names) : Row(i)[c] = Cell(i, column_indices[c])
<1>1. Len(col_names) \in Nat /\ DOMAIN column_indices = 1..Len(col_names)
  BY FrameSizes
<1>2. \A c \in 1..Len(col_names) : Cell(i, column_indices[c]) \in Values
  BY CellFacts
<1>3. Row(i) = [c \in 1..Len(col_names) |-> Cell(i, column_indices[c])]
  BY <1>1 DEF Row
<1>4. Row(i) \in Seq(Values) /\ Len(Row(i)) = Len(col_names)
  BY <1>1, <1>2, <1>3, IsASeq
<1> QED BY <1>3, <1>4

-----------------------------------------------------------------------------
(* The owner's changes. *)

LEMMA EditCellInv ==
  ASSUME Inv, NEW i \in DOMAIN rows, NEW c \in DOMAIN col_names, NEW value \in Values,
         EditCell(i, c, value)
  PROVE  Inv'
<1>1. FrameTypes /\ Parallel /\ ShapeKept /\ Callbacks /\ Index /\ FromColumns
  BY DEF Inv
<1>2. /\ Owner /\ UNCHANGED <<tasks, call, undefined>> /\ UNCHANGED cacheVars
      /\ UNCHANGED <<col_names, width, column_indices, rows, is_keyed, keys_, key_column>>
      /\ edits' = [edits EXCEPT ![i] = Overlay(TRUE, Put(@.values, column_indices[c], value))]
  BY DEF EditCell, Change, applyVars
<1>3. i \in 1..Len(rows) /\ column_indices[c] \in 1..width /\ edits[i] \in Slot
  BY <1>1, FrameSizes
<1> DEFINE slot == Overlay(TRUE, Put(edits[i].values, column_indices[c], value))
<1>4. Put(edits[i].values, column_indices[c], value) \in Partial
  BY <1>1, <1>3, SlotFacts, PutFacts
<1>5. slot \in Slot /\ slot.made
  BY <1>4 DEF Overlay, Slot
<1>6. edits' = [edits EXCEPT ![i] = slot]
  BY <1>2
<1> HIDE DEF slot
<1>7. FrameTypes' /\ Parallel' /\ ShapeKept'
  BY <1>1, <1>2, <1>3, <1>5, <1>6, EditedFrame
<1>8. Callbacks'
  BY <1>1, <1>2, OwnerCallbacks
<1>9. Index'
  BY <1>1, <1>2, OwnerIndex DEF cacheVars
<1>10. FromColumns'
  BY <1>1, <1>2, SameColumns DEF cacheVars
<1> QED BY <1>7, <1>8, <1>9, <1>10 DEF Inv

(* Every field of an inserted row stands where its column does. *)
LEMMA ExpandedRow ==
  ASSUME FrameTypes, Parallel, ShapeKept, NEW row \in [DOMAIN col_names -> Values]
  PROVE  /\ ExpandVisibleRow(row) \in Seq(Values)
         /\ column_indices # <<>> => Len(ExpandVisibleRow(row)) = width
<1>1. /\ Len(col_names) \in Nat /\ DOMAIN col_names = 1..Len(col_names)
      /\ DOMAIN column_indices = 1..Len(col_names) /\ Len(column_indices) = Len(col_names)
      /\ width \in Nat
  BY FrameSizes DEF FrameTypes
<1>2. row \in Seq(Values) /\ Len(row) = Len(col_names) /\ DOMAIN row = 1..Len(col_names)
  <2>1. row = [c \in 1..Len(col_names) |-> row[c]] /\ \A c \in 1..Len(col_names) : row[c] \in Values
    BY <1>1
  <2>2. [c \in 1..Len(col_names) |-> row[c]] \in Seq(Values)
        /\ Len([c \in 1..Len(col_names) |-> row[c]]) = Len(col_names)
    BY <1>1, <2>1, IsASeq
  <2> QED BY <1>1, <2>1, <2>2
<1>3. CASE column_indices = <<>> \/ width = Len(col_names)
  BY <1>2, <1>3 DEF ExpandVisibleRow
<1>4. CASE column_indices # <<>> /\ width # Len(col_names)
  <2> DEFINE field(p) == IF \E c \in DOMAIN row : column_indices[c] = p
                         THEN row[CHOOSE c \in DOMAIN row : column_indices[c] = p] ELSE ""
  <2>1. ExpandVisibleRow(row) = [p \in 1..width |-> field(p)]
    BY <1>4 DEF ExpandVisibleRow
  <2>2. ASSUME NEW p \in 1..width PROVE field(p) \in Values
    <3>1. CASE \E c \in DOMAIN row : column_indices[c] = p
      <4>1. (CHOOSE c \in DOMAIN row : column_indices[c] = p) \in DOMAIN row
        BY <3>1
      <4> QED BY <3>1, <4>1
    <3>2. CASE ~\E c \in DOMAIN row : column_indices[c] = p
      BY <3>2, FrameAssumption
    <3> QED BY <3>1, <3>2
  <2> HIDE DEF field
  <2>3. [p \in 1..width |-> field(p)] \in Seq(Values) /\ Len([p \in 1..width |-> field(p)]) = width
    BY <1>1, <2>2, IsASeq
  <2> QED BY <2>1, <2>3
<1> QED BY <1>3, <1>4

(* Columns that are fields of every row of the full width. *)
LEMMA ColumnsInRows ==
  ASSUME NEW w \in Nat, NEW rs \in Seq(Seq(Values)), NEW ci \in Seq(1..w),
         ci # <<>> => \A i \in 1..Len(rs) : Len(rs[i]) = w
  PROVE  \A i \in DOMAIN rs : \A c \in DOMAIN ci : ci[c] \in DOMAIN rs[i]
<1>1. DOMAIN rs = 1..Len(rs) /\ DOMAIN ci = 1..Len(ci) /\ DOMAIN <<>> = {}
  BY LenProperties
<1>2. ASSUME NEW i \in DOMAIN rs, NEW c \in DOMAIN ci PROVE ci[c] \in DOMAIN rs[i]
  <2>1. ci # <<>>
    BY <1>1, <1>2
  <2>2. rs[i] \in Seq(Values) /\ Len(rs[i]) = w /\ ci[c] \in 1..w
    BY <1>1, <2>1, ElementOfSeq
  <2>3. DOMAIN rs[i] = 1..w
    BY <2>2, LenProperties
  <2> QED BY <2>2, <2>3
<1> QED BY <1>2

(* A key that the index does not know is of no row. *)
LEMMA UnknownKey ==
  ASSUME FrameTypes, ShapeKept, Index, Callbacks, Owner, NEW key,
         Find(EnsureKeyIndex, key) = {}
  PROVE  \A j \in 1..Len(rows) : keys_[j] # key
<1>1. key_index.built => key_index.map = IndexOf(Len(rows))
  <2>1. undefined = "no" /\ \A t \in Threads : call[t].at = "idle"
    BY OwnerIdle
  <2> QED BY <2>1 DEF Index
<1>2. EnsureKeyIndex.map = IndexOf(Len(rows))
  BY <1>1 DEF EnsureKeyIndex
<1>3. key \notin DOMAIN IndexOf(Len(rows))
  BY <1>2 DEF Find
<1>4. DOMAIN IndexOf(Len(rows)) = {keys_[j] : j \in 1..Len(rows)}
  BY DEF IndexOf
<1> QED BY <1>3, <1>4

LEMMA InsertRowInv ==
  ASSUME Inv, NEW i \in 1..(Len(rows) + 1), NEW row \in [DOMAIN col_names -> Values],
         InsertRow(i, row)
  PROVE  Inv'
<1> DEFINE inserted == ExpandVisibleRow(row)
           index == EnsureKeyIndex
           refused == is_keyed /\ (key_column = 0 \/ Find(index, inserted[key_column]) # {})
<1>1. FrameTypes /\ Parallel /\ ShapeKept /\ Callbacks /\ Index /\ FromColumns
  BY DEF Inv
<1>2. /\ Owner /\ UNCHANGED <<tasks, call, undefined>> /\ UNCHANGED <<json, generation, view>>
  BY DEF InsertRow, Change, applyVars
<1>3. Callbacks'
  BY <1>1, <1>2, OwnerCallbacks
<1>4. CASE refused
  <2>1. /\ key_index' = IF key_column = 0 THEN key_index ELSE index
        /\ UNCHANGED frameVars
    BY <1>4 DEF InsertRow
  <2>2. FrameTypes' /\ Parallel' /\ ShapeKept'
    BY <1>1, <2>1, SameFrame
  <2>3. Index'
    BY <1>1, <1>2, <2>1, OwnerIndex DEF frameVars
  <2>4. FromColumns'
    BY <1>1, <1>2, <2>1, SameColumns DEF frameVars
  <2> QED BY <1>3, <2>2, <2>3, <2>4 DEF Inv
<1>5. CASE ~refused
  <2>1. /\ rows' = InsertAt(rows, i, inserted)
        /\ edits' = InsertAt(edits, i, NoOverlay)
        /\ keys_' = IF is_keyed THEN InsertAt(keys_, i, inserted[key_column]) ELSE keys_
        /\ key_index' = NoIndex
        /\ UNCHANGED <<col_names, width, column_indices, is_keyed, key_column>>
    BY <1>5 DEF InsertRow, InvalidateKeyIndex
  <2>2. inserted \in Seq(Values) /\ (column_indices # <<>> => Len(inserted) = width)
    BY <1>1, ExpandedRow
  <2>3. is_keyed => key_column # 0 /\ Find(index, inserted[key_column]) = {}
    BY <1>5
  <2> HIDE DEF inserted, index, refused
  <2>4. /\ rows \in Seq(Seq(Values)) /\ edits \in Seq(Slot) /\ keys_ \in Seq(Values)
        /\ Len(rows) \in Nat /\ Len(edits) = Len(rows) /\ width \in Nat
        /\ column_indices \in Seq(1..width)
    BY <1>1, FrameSizes DEF FrameTypes
  <2>5. /\ rows' \in Seq(Seq(Values)) /\ Len(rows') = Len(rows) + 1
        /\ rows'[i] = inserted
        /\ \A j \in 1..(Len(rows) + 1) : /\ j < i => rows'[j] = rows[j]
                                         /\ j > i => rows'[j] = rows[j - 1]
    <3> DEFINE S == Seq(Values)
    <3>1. inserted \in S /\ rows \in Seq(S) /\ i \in 1..(Len(rows) + 1)
      BY <2>2, <2>4
    <3> HIDE DEF S
    <3>2. InsertAt(rows, i, inserted) \in Seq(S) /\ IsInserted(InsertAt(rows, i, inserted), rows, i, inserted)
      BY ONLY <3>1, Inserted, Zenon
    <3> QED BY <2>1, <3>2 DEF S, IsInserted
  <2>6. /\ edits' \in Seq(Slot) /\ Len(edits') = Len(rows) + 1
        /\ edits'[i] = NoOverlay
        /\ \A j \in 1..(Len(rows) + 1) : /\ j < i => edits'[j] = edits[j]
                                         /\ j > i => edits'[j] = edits[j - 1]
    <3>1. NoOverlay \in Slot /\ i \in 1..(Len(edits) + 1)
      BY <2>4, EmptyOverlay
    <3>2. /\ InsertAt(edits, i, NoOverlay) \in Seq(Slot)
          /\ Len(InsertAt(edits, i, NoOverlay)) = Len(edits) + 1
          /\ InsertAt(edits, i, NoOverlay)[i] = NoOverlay
          /\ \A j \in 1..(Len(edits) + 1) :
                /\ j < i => InsertAt(edits, i, NoOverlay)[j] = edits[j]
                /\ j > i => InsertAt(edits, i, NoOverlay)[j] = edits[j - 1]
      BY <2>4, <3>1, InsertAtFacts
    <3> QED BY <2>1, <2>4, <3>2
  <2>7. ASSUME is_keyed
        PROVE  /\ keys_' \in Seq(Values) /\ IsInjective(keys_')
               /\ Len(keys_') = Len(rows) + 1
    <3>1. /\ key_column \in 1..width /\ Len(keys_) = Len(rows)
          /\ \E c \in DOMAIN column_indices : column_indices[c] = key_column
      BY <1>1, <2>3, <2>7 DEF ShapeKept, FrameTypes
    <3>2. column_indices # <<>>
      BY <3>1
    <3>3. inserted[key_column] \in Values
      BY <2>2, <3>1, <3>2, ElementOfSeq
    <3>4. \A j \in 1..Len(keys_) : keys_[j] # inserted[key_column]
      BY <1>1, <1>2, <2>3, <2>7, <3>1, UnknownKey DEF index
    <3>5. IsInjective(keys_)
      BY <1>1 DEF ShapeKept
    <3>6. keys_' = InsertAt(keys_, i, inserted[key_column])
      BY <2>1, <2>7
    <3>7. keys_' \in Seq(Values) /\ Len(keys_') = Len(keys_) + 1
      BY <2>4, <3>1, <3>3, <3>6, InsertAtFacts
    <3>8. IsInjective(keys_')
      BY <2>4, <3>1, <3>3, <3>4, <3>5, <3>6, InsertAtInjective
    <3> QED BY <3>1, <3>7, <3>8
  <2>8. ~is_keyed => keys_' = keys_ /\ key_column = 0
    BY <1>1, <2>1 DEF Parallel
  <2>9. Partial' = Partial /\ Slot' = Slot
    BY <2>1 DEF Partial, Slot
  <2>10. FrameTypes'
    BY <1>1, <2>1, <2>5, <2>6, <2>7, <2>8, <2>9 DEF FrameTypes
  <2>11. Parallel'
    <3>1. ASSUME column_indices # <<>>, NEW j \in 1..Len(rows') PROVE Len(rows'[j]) = width
      <4>1. \A k \in 1..Len(rows) : Len(rows[k]) = width
        BY <1>1, <3>1 DEF Parallel
      <4>2. j \in Nat /\ i \in Nat
        BY <2>4, <2>5
      <4>3. CASE j < i
        <5>1. j \in 1..Len(rows)
          BY <2>4, <2>5, <4>3
        <5> QED BY <2>5, <4>1, <4>3, <5>1
      <4>4. CASE j = i
        BY <2>2, <2>5, <3>1, <4>4
      <4>5. CASE j > i
        <5>1. j - 1 \in 1..Len(rows)
          BY <2>4, <2>5, <4>5
        <5> QED BY <2>5, <4>1, <4>5, <5>1
      <4> QED BY <4>2, <4>3, <4>4, <4>5
    <3>2. is_keyed' => Len(rows') <= Len(keys_')
      BY <2>1, <2>4, <2>5, <2>7
    <3>3. /\ Len(col_names) <= width
          /\ Len(col_names) = width => \A c \in 1..width : column_indices[c] = c
      BY <1>1 DEF Parallel
    <3> QED BY <2>1, <2>8, <3>1, <3>2, <3>3 DEF Parallel
  <2>12. ShapeKept'
    <3>1. Len(edits') = Len(rows') /\ DOMAIN edits' = 1..(Len(rows) + 1)
      BY <2>5, <2>6, LenProperties
    <3>2. Len(column_indices') = Len(col_names') /\ IsInjective(column_indices')
      BY <1>1, <2>1 DEF ShapeKept
    <3>3. column_indices' # <<>> => \A j \in 1..Len(rows') : Len(rows'[j]) = width
      BY <2>1, <2>11 DEF Parallel
    <3>4. \A j \in DOMAIN rows' : \A c \in DOMAIN column_indices' : column_indices'[c] \in DOMAIN rows'[j]
      BY <2>1, <2>4, <2>5, <3>3, ColumnsInRows
    <3>5. ASSUME NEW j \in 1..(Len(rows) + 1) PROVE edits'[j].made \/ edits'[j].values = <<>>
      <4>1. \A k \in 1..Len(rows) : edits[k].made \/ edits[k].values = <<>>
        BY <1>1, FrameSizes DEF ShapeKept
      <4>2. j \in Nat /\ i \in Nat
        BY <2>4
      <4>3. CASE j < i
        <5>1. j \in 1..Len(rows)
          BY <2>4, <4>3
        <5> QED BY <2>6, <4>1, <4>3, <5>1
      <4>4. CASE j = i
        BY <2>6, <4>4, EmptyOverlay
      <4>5. CASE j > i
        <5>1. j - 1 \in 1..Len(rows)
          BY <2>4, <4>5
        <5> QED BY <2>6, <4>1, <4>5, <5>1
      <4> QED BY <4>2, <4>3, <4>4, <4>5
    <3>6. IsInjective(keys_')
      BY <1>1, <2>7, <2>8 DEF ShapeKept
    <3>7. key_column' # 0 =>
            /\ Len(keys_') = Len(rows')
            /\ \E c \in DOMAIN column_indices' : column_indices'[c] = key_column'
      BY <1>1, <2>1, <2>5, <2>7, <2>8 DEF ShapeKept
    <3> QED BY <3>1, <3>2, <3>4, <3>5, <3>6, <3>7 DEF ShapeKept
  <2>13. Index'
    BY <1>1, <1>2, <2>1, OwnerIndex
  <2>14. FromColumns'
    BY <1>1, <1>2, <2>1, SameColumns
  <2> QED BY <1>3, <2>10, <2>11, <2>12, <2>13, <2>14 DEF Inv
<1> QED BY <1>4, <1>5

LEMMA EraseAtIndexInv ==
  ASSUME Inv, NEW i \in DOMAIN rows, EraseAtIndex(i)
  PROVE  Inv'
<1>1. FrameTypes /\ Parallel /\ ShapeKept /\ Callbacks /\ Index /\ FromColumns
  BY DEF Inv
<1>2. /\ Owner /\ UNCHANGED <<tasks, call, undefined>> /\ UNCHANGED <<json, generation, view>>
      /\ rows' = RemoveAt(rows, i) /\ edits' = RemoveAt(edits, i)
      /\ keys_' = IF is_keyed THEN RemoveAt(keys_, i) ELSE keys_
      /\ key_index' = NoIndex
      /\ UNCHANGED <<col_names, width, column_indices, is_keyed, key_column>>
  BY DEF EraseAtIndex, Change, applyVars, InvalidateKeyIndex
<1>3. /\ rows \in Seq(Seq(Values)) /\ edits \in Seq(Slot) /\ keys_ \in Seq(Values)
      /\ Len(rows) \in Nat /\ Len(keys_) \in Nat /\ Len(edits) = Len(rows) /\ width \in Nat
      /\ column_indices \in Seq(1..width)
      /\ i \in 1..Len(rows)
  BY <1>1, FrameSizes DEF FrameTypes
<1>4. /\ rows' \in Seq(Seq(Values)) /\ Len(rows') = Len(rows) - 1
      /\ \A j \in 1..(Len(rows) - 1) : rows'[j] = IF j < i THEN rows[j] ELSE rows[j + 1]
  <2> DEFINE S == Seq(Values)
  <2>1. rows \in Seq(S) /\ i \in 1..Len(rows)
    BY <1>3
  <2> HIDE DEF S
  <2>2. /\ RemoveAt(rows, i) \in Seq(S) /\ Len(RemoveAt(rows, i)) = Len(rows) - 1
        /\ \A j \in 1..(Len(rows) - 1) :
              RemoveAt(rows, i)[j] = IF j < i THEN rows[j] ELSE rows[j + 1]
    BY <2>1, RemoveAtFacts
  <2> QED BY <1>2, <2>2 DEF S
<1>5. /\ edits' \in Seq(Slot) /\ Len(edits') = Len(rows) - 1
      /\ \A j \in 1..(Len(rows) - 1) : edits'[j] = IF j < i THEN edits[j] ELSE edits[j + 1]
  <2>1. edits \in Seq(Slot) /\ i \in 1..Len(edits)
    BY <1>3
  <2>2. /\ RemoveAt(edits, i) \in Seq(Slot) /\ Len(RemoveAt(edits, i)) = Len(edits) - 1
        /\ \A j \in 1..(Len(edits) - 1) :
              RemoveAt(edits, i)[j] = IF j < i THEN edits[j] ELSE edits[j + 1]
    BY <2>1, RemoveAtFacts
  <2> QED BY <1>2, <1>3, <2>2
<1>6. /\ keys_' \in Seq(Values) /\ IsInjective(keys_')
      /\ is_keyed => Len(keys_') = Len(keys_) - 1
  <2>1. CASE is_keyed
    <3>1. keys_ \in Seq(Values) /\ i \in 1..Len(keys_) /\ IsInjective(keys_)
      BY <1>1, <1>3, <2>1 DEF Parallel, ShapeKept
    <3>2. RemoveAt(keys_, i) \in Seq(Values) /\ Len(RemoveAt(keys_, i)) = Len(keys_) - 1
      BY <3>1, RemoveAtFacts
    <3>3. IsInjective(RemoveAt(keys_, i))
      BY <3>1, RemoveAtInjective
    <3> QED BY <1>2, <2>1, <3>2, <3>3
  <2>2. CASE ~is_keyed
    BY <1>1, <1>2, <1>3, <2>2 DEF ShapeKept
  <2> QED BY <2>1, <2>2
<1>7. Partial' = Partial /\ Slot' = Slot
  BY <1>2 DEF Partial, Slot
<1>8. FrameTypes'
  BY <1>1, <1>2, <1>4, <1>5, <1>6, <1>7 DEF FrameTypes
<1>9. \A j \in 1..(Len(rows) - 1) : j \in 1..Len(rows) /\ j + 1 \in 1..Len(rows)
  BY <1>3
<1>10. Parallel'
  <2>1. column_indices # <<>> => \A j \in 1..Len(rows') : Len(rows'[j]) = width
    BY <1>1, <1>4, <1>9 DEF Parallel
  <2>2. is_keyed => Len(rows') <= Len(keys_')
    BY <1>1, <1>3, <1>4, <1>6 DEF Parallel
  <2>3. /\ ~is_keyed => key_column = 0
        /\ Len(col_names) <= width
        /\ Len(col_names) = width => \A c \in 1..width : column_indices[c] = c
    BY <1>1 DEF Parallel
  <2> QED BY <1>2, <2>1, <2>2, <2>3 DEF Parallel
<1>11. ShapeKept'
  <2>1. Len(edits') = Len(rows') /\ DOMAIN edits' = 1..(Len(rows) - 1)
    BY <1>4, <1>5, LenProperties
  <2>2. column_indices # <<>> => \A j \in 1..Len(rows') : Len(rows'[j]) = width
    BY <1>2, <1>10 DEF Parallel
  <2>3. \A j \in DOMAIN rows' : \A c \in DOMAIN column_indices : column_indices[c] \in DOMAIN rows'[j]
    BY <1>3, <1>4, <2>2, ColumnsInRows
  <2>4. ASSUME NEW j \in 1..(Len(rows) - 1) PROVE edits'[j].made \/ edits'[j].values = <<>>
    <3>1. \A k \in 1..Len(rows) : edits[k].made \/ edits[k].values = <<>>
      BY <1>1, FrameSizes DEF ShapeKept
    <3> QED BY <1>5, <1>9, <3>1
  <2>5. key_column # 0 => /\ Len(keys_') = Len(rows')
                          /\ \E c \in DOMAIN column_indices : column_indices[c] = key_column
    BY <1>1, <1>4, <1>6 DEF Parallel, ShapeKept
  <2>6. Len(column_indices) = Len(col_names) /\ IsInjective(column_indices)
    BY <1>1 DEF ShapeKept
  <2> QED BY <1>2, <1>6, <2>1, <2>3, <2>4, <2>5, <2>6 DEF ShapeKept
<1>12. Callbacks'
  BY <1>1, <1>2, OwnerCallbacks
<1>13. Index'
  BY <1>1, <1>2, OwnerIndex
<1>14. FromColumns'
  BY <1>1, <1>2, SameColumns
<1> QED BY <1>8, <1>10, <1>11, <1>12, <1>13, <1>14 DEF Inv

(* A valid proxy, the one kept or a new one, stands at a column. *)
Proxies == {view} \cup {ProxyOf(c) : c \in DOMAIN col_names}

LEMMA ValidProxy ==
  ASSUME FromColumns, NEW proxy \in Proxies, Valid(proxy)
  PROVE  proxy.col \in DOMAIN col_names
<1>1. CASE proxy = view
  BY <1>1 DEF FromColumns, ViewShowsItsColumn
<1>2. ASSUME NEW c \in DOMAIN col_names, proxy = ProxyOf(c) PROVE proxy.col \in DOMAIN col_names
  <2>1. ProxyOf(c).col = c
    BY DEF ProxyOf
  <2> QED BY <1>2, <2>1
<1> QED BY <1>1, <1>2 DEF Proxies

LEMMA EraseColumnInv ==
  ASSUME Inv, NEW proxy \in Proxies, EraseColumn(proxy)
  PROVE  Inv'
<1> DEFINE refused == ~Valid(proxy) \/ (is_keyed /\ column_indices[proxy.col] = key_column)
<1>1. FrameTypes /\ Parallel /\ ShapeKept /\ Callbacks /\ Index /\ FromColumns
  BY DEF Inv
<1>2. Owner /\ UNCHANGED <<tasks, call, undefined>>
  BY DEF EraseColumn, Change, applyVars
<1>3. Callbacks'
  BY <1>1, <1>2, OwnerCallbacks
<1>4. CASE refused
  <2>1. UNCHANGED <<frameVars, cacheVars>>
    BY <1>4 DEF EraseColumn
  <2>2. FrameTypes' /\ Parallel' /\ ShapeKept'
    BY <1>1, <2>1, SameFrame
  <2>3. Index'
    BY <1>1, <1>2, <2>1, OwnerIndex DEF frameVars, cacheVars
  <2>4. FromColumns'
    BY <1>1, <2>1, SameColumns DEF frameVars, cacheVars
  <2> QED BY <1>3, <2>2, <2>3, <2>4 DEF Inv
<1>5. CASE ~refused
  <2> DEFINE v == proxy.col
  <2>1. /\ col_names' = RemoveAt(col_names, v) /\ column_indices' = RemoveAt(column_indices, v)
        /\ InvalidateColumnProxies /\ InvalidateJsonConverter
        /\ UNCHANGED <<width, rows, edits, is_keyed, keys_, key_column, key_index, view>>
    BY <1>5 DEF EraseColumn
  <2>2. Valid(proxy) /\ (is_keyed => column_indices[v] # key_column)
    BY <1>5
  <2> HIDE DEF refused, v
  <2>3. /\ v \in 1..Len(col_names) /\ v \in 1..Len(column_indices)
        /\ col_names \in Seq(Names) /\ column_indices \in Seq(1..width)
        /\ Len(column_indices) = Len(col_names) /\ Len(col_names) \in Nat
        /\ IsInjective(column_indices)
    <3>1. v \in DOMAIN col_names
      BY <1>1, <2>2, ValidProxy DEF v
    <3> QED BY <1>1, <3>1, FrameSizes DEF FrameTypes, ShapeKept
  <2>4. col_names' \in Seq(Names) /\ Len(col_names') = Len(col_names) - 1
    BY <2>1, <2>3, RemoveAtFacts
  <2>5. /\ column_indices' \in Seq(1..width) /\ Len(column_indices') = Len(col_names) - 1
        /\ \A j \in 1..(Len(col_names) - 1) :
              column_indices'[j] = IF j < v THEN column_indices[j] ELSE column_indices[j + 1]
    BY <2>1, <2>3, RemoveAtFacts
  <2>6. IsInjective(column_indices')
    BY <2>1, <2>3, RemoveAtInjective
  <2>7. Partial' = Partial /\ Slot' = Slot
    BY <2>1 DEF Partial, Slot
  <2>8. FrameTypes'
    BY <1>1, <2>1, <2>4, <2>5, <2>7 DEF FrameTypes
  <2>9. column_indices' # <<>> => column_indices # <<>>
    BY <2>3, <2>5, EmptySeq
  <2>10. Parallel'
    <3>1. Len(col_names') < width'
      BY <1>1, <2>1, <2>3, <2>4 DEF FrameTypes, Parallel
    <3>2. Len(col_names') <= width' /\ Len(col_names') # width'
      BY <2>3, <2>4, <2>8, <3>1 DEF FrameTypes
    <3> QED BY <1>1, <2>1, <2>9, <3>2 DEF Parallel
  <2>11. \A j \in DOMAIN rows : \A c \in DOMAIN column_indices' : column_indices'[c] \in DOMAIN rows[j]
    <3>1. column_indices' # <<>> => \A j \in 1..Len(rows) : Len(rows[j]) = width
      BY <1>1, <2>9 DEF Parallel
    <3>2. rows \in Seq(Seq(Values)) /\ width \in Nat
      BY <1>1 DEF FrameTypes
    <3> QED BY <2>5, <3>1, <3>2, ColumnsInRows
  <2>12. ASSUME key_column # 0
         PROVE  \E c \in DOMAIN column_indices' : column_indices'[c] = key_column
    <3>1. PICK c \in DOMAIN column_indices : column_indices[c] = key_column
      BY <1>1, <2>12 DEF ShapeKept
    <3>2. is_keyed
      BY <1>1, <2>12 DEF Parallel
    <3>3. c \in 1..Len(col_names) /\ c # v
      BY <1>1, <2>2, <3>1, <3>2, FrameSizes
    <3>4. DOMAIN column_indices' = 1..(Len(col_names) - 1)
      BY <2>5, LenProperties
    <3>5. CASE c < v
      <4>1. c \in 1..(Len(col_names) - 1)
        BY <2>3, <3>3, <3>5
      <4> QED BY <2>5, <3>1, <3>4, <3>5, <4>1
    <3>6. CASE c > v
      <4>1. c - 1 \in 1..(Len(col_names) - 1) /\ ~(c - 1 < v) /\ (c - 1) + 1 = c
        BY <2>3, <3>3, <3>6
      <4> QED BY <2>5, <3>1, <3>4, <4>1
    <3>7. c < v \/ c > v
      BY <2>3, <3>3
    <3> QED BY <3>5, <3>6, <3>7
  <2>13. ShapeKept'
    BY <1>1, <2>1, <2>4, <2>5, <2>6, <2>11, <2>12 DEF ShapeKept
  <2>14. Index'
    BY <1>1, <1>2, <2>1, OwnerIndex
  <2>15. FromColumns'
    BY <1>1, <2>1, ChangedColumns
  <2> QED BY <1>3, <2>8, <2>10, <2>13, <2>14, <2>15 DEF Inv
<1> QED BY <1>4, <1>5

(* The rows that come back from a rebuild are the rows with the new cell. *)
LEMMA RebuiltRows ==
  ASSUME FrameTypes, ShapeKept, NEW at \in 1..(Len(col_names) + 1), NEW value \in Values
  PROVE  LET parts == [i \in DOMAIN rows |-> ReadBack(InsertAt(Row(i), at, value))]
         IN  /\ FlattenSeq(parts) \in Seq({r \in Seq(Values) : Len(r) = Len(col_names) + 1})
             /\ Len(FlattenSeq(parts)) <= Len(rows)
<1> DEFINE parts == [i \in DOMAIN rows |-> ReadBack(InsertAt(Row(i), at, value))]
           W == {r \in Seq(Values) : Len(r) = Len(col_names) + 1}
<1>1. Len(rows) \in Nat /\ DOMAIN rows = 1..Len(rows) /\ Len(col_names) \in Nat
  BY FrameSizes
<1>2. ASSUME NEW i \in 1..Len(rows) PROVE InsertAt(Row(i), at, value) \in W
  <2>1. Row(i) \in Seq(Values) /\ Len(Row(i)) = Len(col_names) /\ at \in 1..(Len(Row(i)) + 1)
    BY RowFacts
  <2>2. InsertAt(Row(i), at, value) \in Seq(Values)
        /\ IsInserted(InsertAt(Row(i), at, value), Row(i), at, value)
    <3>1. value \in Values
      OBVIOUS
    <3> QED BY ONLY <2>1, <3>1, Inserted, Zenon
  <2>3. Len(InsertAt(Row(i), at, value)) = Len(col_names) + 1
    BY <2>1, <2>2 DEF IsInserted
  <2> QED BY <2>2, <2>3
<1> HIDE DEF W
<1>3. ASSUME NEW r \in W PROVE ReadBack(r) \in Seq(W) /\ Len(ReadBack(r)) <= 1
  <2>1. <<>> \in Seq(W) /\ Len(<<>>) <= 1
    BY EmptySeq
  <2>2. <<r>> \in Seq(W) /\ Len(<<r>>) <= 1
    OBVIOUS
  <2>3. ReadBack(r) \in {<<>>, <<r>>}
    BY DEF ReadBack
  <2> QED BY <2>1, <2>2, <2>3
<1>4. parts = [i \in 1..Len(rows) |-> ReadBack(InsertAt(Row(i), at, value))]
  BY <1>1
<1>5. \A i \in 1..Len(rows) : ReadBack(InsertAt(Row(i), at, value)) \in Seq(W)
                              /\ Len(ReadBack(InsertAt(Row(i), at, value))) <= 1
  BY <1>2, <1>3
<1> DEFINE part(i) == ReadBack(InsertAt(Row(i), at, value))
<1> HIDE DEF part
<1>6. [i \in 1..Len(rows) |-> part(i)] \in Seq(Seq(W))
      /\ Len([i \in 1..Len(rows) |-> part(i)]) = Len(rows)
  BY <1>1, <1>5, IsASeq DEF part
<1>7. parts \in Seq(Seq(W)) /\ Len(parts) = Len(rows)
      /\ \A i \in 1..Len(parts) : Len(parts[i]) <= 1
  BY <1>4, <1>5, <1>6 DEF part
<1> HIDE DEF parts
<1>8. FlattenSeq(parts) \in Seq(W) /\ Len(FlattenSeq(parts)) <= Len(parts)
  BY <1>7, FlattenType, FlattenShort
<1> QED BY <1>7, <1>8 DEF W, parts

LEMMA InsertColumnInv ==
  ASSUME Inv, NEW at \in 1..(Len(col_names) + 1), NEW name \in Names, NEW value \in Values,
         InsertColumn(at, name, value)
  PROVE  Inv'
<1> DEFINE rebuilt == FlattenSeq([i \in DOMAIN rows |-> ReadBack(InsertAt(Row(i), at, value))])
           old == CHOOSE c \in 0..Len(column_indices) :
                      key_column # 0 => c > 0 /\ column_indices[c] = key_column
           key == IF key_column = 0 THEN 0 ELSE IF at <= old THEN old + 1 ELSE old
           rebuilt_keys == IF key = 0 THEN keys_ ELSE [i \in DOMAIN rebuilt |-> rebuilt[i][key]]
           refused == key # 0 /\ ~IsInjective(rebuilt_keys)
           W == {r \in Seq(Values) : Len(r) = Len(col_names) + 1}
<1>1. FrameTypes /\ Parallel /\ ShapeKept /\ Callbacks /\ Index /\ FromColumns
  BY DEF Inv
<1>2. Owner /\ UNCHANGED <<tasks, call, undefined>>
  BY DEF InsertColumn, Change, applyVars
<1>3. Callbacks'
  BY <1>1, <1>2, OwnerCallbacks
<1>4. CASE refused
  <2>1. UNCHANGED <<frameVars, cacheVars>>
    BY <1>4 DEF InsertColumn
  <2>2. FrameTypes' /\ Parallel' /\ ShapeKept'
    BY <1>1, <2>1, SameFrame
  <2>3. Index'
    BY <1>1, <1>2, <2>1, OwnerIndex DEF frameVars, cacheVars
  <2>4. FromColumns'
    BY <1>1, <2>1, SameColumns DEF frameVars, cacheVars
  <2> QED BY <1>3, <2>2, <2>3, <2>4 DEF Inv
<1>5. CASE ~refused
  <2>1. /\ col_names' = InsertAt(col_names, at, name)
        /\ width' = Len(col_names')
        /\ column_indices' = [c \in 1..width' |-> c]
        /\ rows' = rebuilt
        /\ edits' = [i \in DOMAIN rebuilt |-> NoOverlay]
        /\ key_column' = key
        /\ keys_' = rebuilt_keys
        /\ key_index' = NoIndex
        /\ InvalidateColumnProxies
        /\ InvalidateJsonConverter
        /\ UNCHANGED <<is_keyed, view>>
    BY <1>5 DEF InsertColumn, InvalidateKeyIndex
  <2>2. key # 0 => IsInjective(rebuilt_keys)
    BY <1>5
  <2>3. Len(rows) \in Nat /\ Len(col_names) \in Nat /\ Len(column_indices) = Len(col_names)
        /\ col_names \in Seq(Names)
    BY <1>1, FrameSizes DEF FrameTypes
  <2>4. rebuilt \in Seq(W) /\ Len(rebuilt) <= Len(rows)
    BY <1>1, RebuiltRows
  <2> HIDE DEF rebuilt
  <2>5. /\ \A i \in 1..Len(rebuilt) : rebuilt[i] \in Seq(Values) /\ Len(rebuilt[i]) = Len(col_names) + 1
        /\ Len(rebuilt) \in Nat /\ DOMAIN rebuilt = 1..Len(rebuilt)
    <3>1. Len(rebuilt) \in Nat /\ DOMAIN rebuilt = 1..Len(rebuilt) /\ \A i \in 1..Len(rebuilt) : rebuilt[i] \in W
      BY <2>4, LenProperties, ElementOfSeq
    <3> QED BY <3>1
  <2>6. rebuilt \in Seq(Seq(Values))
    <3>1. rebuilt = [i \in 1..Len(rebuilt) |-> rebuilt[i]]
      BY <2>4, <2>5
    <3> QED BY <2>5, <3>1, IsASeq
  <2>7. col_names' \in Seq(Names) /\ width' = Len(col_names) + 1
    BY <2>1, <2>3, InsertAtFacts
  <2>8. /\ column_indices' \in Seq(1..width') /\ Len(column_indices') = width'
        /\ IsInjective(column_indices') /\ width' \in Nat
        /\ DOMAIN column_indices' = 1..width' /\ \A c \in 1..width' : column_indices'[c] = c
    <3>1. Len(col_names) + 1 \in Nat
      BY <2>3
    <3> QED BY <2>1, <2>7, <3>1, AllVisible
  <2>9. key \in 0..width' /\ (key_column = 0 <=> key = 0)
    <3>1. CASE key_column = 0
      BY <2>8, <3>1
    <3>2. CASE key_column # 0
      <4>1. PICK c \in DOMAIN column_indices : column_indices[c] = key_column
        BY <1>1, <3>2 DEF ShapeKept
      <4>2. c \in 0..Len(column_indices) /\ c > 0
        BY <1>1, <2>3, FrameSizes
      <4>3. old \in 0..Len(column_indices) /\ old > 0
        BY <3>2, <4>1, <4>2
      <4> HIDE DEF old
      <4>4. key = IF at <= old THEN old + 1 ELSE old
        BY <3>2
      <4>5. key \in 0..width' /\ key # 0
        BY <2>3, <2>7, <4>3, <4>4
      <4> QED BY <3>2, <4>5
    <3> QED BY <3>1, <3>2
  <2> HIDE DEF old, key, refused
  <2>12. /\ rebuilt_keys \in Seq(Values) /\ IsInjective(rebuilt_keys)
         /\ is_keyed => Len(rebuilt) <= Len(rebuilt_keys)
         /\ key # 0 => Len(rebuilt_keys) = Len(rebuilt)
    <3>1. CASE key = 0
      <4>1. keys_ \in Seq(Values) /\ IsInjective(keys_) /\ (is_keyed => Len(rows) <= Len(keys_))
        BY <1>1 DEF FrameTypes, Parallel, ShapeKept
      <4>2. Len(keys_) \in Nat
        BY <4>1, LenProperties
      <4>3. is_keyed => Len(rebuilt) <= Len(keys_)
        BY <2>3, <2>4, <2>5, <4>1, <4>2
      <4> QED BY <3>1, <4>1, <4>3
    <3>2. CASE key # 0
      <4>1. rebuilt_keys = [i \in 1..Len(rebuilt) |-> rebuilt[i][key]]
        BY <2>5, <3>2
      <4>2. ASSUME NEW i \in 1..Len(rebuilt) PROVE rebuilt[i][key] \in Values
        <5>1. rebuilt[i] \in Seq(Values) /\ Len(rebuilt[i]) = width'
          BY <2>5, <2>7
        <5>2. key \in 1..Len(rebuilt[i])
          BY <2>8, <2>9, <3>2, <5>1
        <5> QED BY <5>1, <5>2, ElementOfSeq
      <4>3. rebuilt_keys \in Seq(Values) /\ Len(rebuilt_keys) = Len(rebuilt)
        BY <2>5, <4>1, <4>2, IsASeq
      <4>4. IsInjective(rebuilt_keys)
        BY <2>2, <3>2
      <4>5. is_keyed => Len(rebuilt) <= Len(rebuilt_keys)
        BY <2>5, <4>3
      <4> QED BY <4>3, <4>4, <4>5
    <3> QED BY <3>1, <3>2
  <2> HIDE DEF rebuilt_keys
  <2>13. /\ edits' \in Seq(Slot)' /\ Len(edits') = Len(rebuilt) /\ DOMAIN edits' = 1..Len(rebuilt)
         /\ \A i \in 1..Len(rebuilt) : edits'[i].values = <<>>
    <3>1. /\ edits' = [i \in 1..Len(rebuilt) |-> NoOverlay]
      BY <2>1, <2>5
    <3>2. NoOverlay \in Slot'
      <4>1. <<>> \in [{} -> Values] /\ {} \in SUBSET (1..width')
        OBVIOUS
      <4>2. <<>> \in Partial'
        BY <4>1 DEF Partial
      <4> QED BY <4>2 DEF NoOverlay, Overlay, Slot
    <3>3. edits' \in Seq(Slot') /\ Len(edits') = Len(rebuilt)
      BY <2>5, <3>1, <3>2, IsASeq
    <3>4. \A i \in 1..Len(rebuilt) : edits'[i].values = <<>>
      BY <3>1, EmptyOverlay
    <3>5. DOMAIN edits' = 1..Len(rebuilt)
      BY <3>1
    <3> QED BY <3>3, <3>4, <3>5
  <2>14. FrameTypes'
    BY <1>1, <2>1, <2>6, <2>7, <2>8, <2>9, <2>12, <2>13 DEF FrameTypes
  <2>15. Parallel'
    <3>1. ~is_keyed => key = 0
      BY <1>1, <2>9 DEF Parallel
    <3>2. \A i \in 1..Len(rebuilt) : Len(rebuilt[i]) = width'
      BY <2>5, <2>7
    <3>3. Len(col_names') <= width' /\ \A c \in 1..width' : column_indices'[c] = c
      BY <2>1, <2>8
    <3> QED BY <2>1, <2>12, <3>1, <3>2, <3>3 DEF Parallel
  <2>16. ShapeKept'
    <3>1. Len(edits') = Len(rows')
      BY <2>1, <2>13
    <3>2. Len(column_indices') = Len(col_names') /\ IsInjective(column_indices')
      BY <2>1, <2>8
    <3>3. \A i \in DOMAIN rebuilt : \A c \in DOMAIN column_indices' : column_indices'[c] \in DOMAIN rebuilt[i]
      <4>1. \A i \in 1..Len(rebuilt) : Len(rebuilt[i]) = width'
        BY <2>5, <2>7
      <4> QED BY <2>6, <2>8, <4>1, ColumnsInRows
    <3>4. \A i \in DOMAIN edits' : edits'[i].made \/ edits'[i].values = <<>>
      BY <2>13
    <3>5. key # 0 => \E c \in DOMAIN column_indices' : column_indices'[c] = key
      BY <2>8, <2>9
    <3> QED BY <2>1, <2>12, <3>1, <3>2, <3>3, <3>4, <3>5 DEF ShapeKept
  <2>17. Index'
    BY <1>1, <1>2, <2>1, OwnerIndex
  <2>18. FromColumns'
    BY <1>1, <2>1, ChangedColumns
  <2> QED BY <1>3, <2>14, <2>15, <2>16, <2>17, <2>18 DEF Inv
<1> QED BY <1>4, <1>5

-----------------------------------------------------------------------------
(* The callbacks. *)

Editing == {"edit", "lock", "ensure", "set"}
Reading == {"read", "get"}
Finding == {"find", "build", "fill", "find it"}

LEMMA CallFacts ==
  ASSUME Callbacks, NEW t \in Threads
  PROVE  /\ call[t].at \in {"idle"} \cup Reading \cup Editing \cup Finding
         /\ call[t].at \in Reading =>
               call[t] \in [at : Reading, i : 1..Len(rows), c : 1..Len(col_names), p : 1..width]
         /\ call[t].at \in Editing =>
               call[t] \in [at : Editing, i : 1..Len(rows), c : 1..Len(col_names), p : 1..width,
                            value : Values]
         /\ call[t].at \in Finding => call[t] \in [at : Finding, value : Values]
<1>1. call[t] \in CallType
  BY DEF Callbacks
<1>2. \/ call[t] \in [at : {"idle"}]
      \/ call[t] \in [at : Reading, i : 1..Len(rows), c : 1..Len(col_names), p : 1..width]
      \/ call[t] \in [at : Editing, i : 1..Len(rows), c : 1..Len(col_names), p : 1..width,
                      value : Values]
      \/ call[t] \in [at : Finding, value : Values]
  BY <1>1 DEF CallType, Reading, Editing, Finding
<1> QED BY <1>2 DEF Reading, Editing, Finding

(* A callback that goes on stays what it is. *)
LEMMA StepFacts ==
  ASSUME Callbacks, NEW t \in Threads, NEW from, NEW to, Step(t, from, to),
         {from, to} \subseteq Reading \/ {from, to} \subseteq Editing \/ {from, to} \subseteq Finding
  PROVE  \E next \in CallType :
            /\ call' = [call EXCEPT ![t] = next] /\ next.at = to
            /\ from \notin Finding =>
                  next.i = call[t].i /\ next.c = call[t].c /\ next.p = call[t].p
<1> DEFINE next == [call[t] EXCEPT !.at = to]
<1>1. call[t].at = from /\ call' = [call EXCEPT ![t].at = to]
  BY DEF Step
<1>2. call' = [call EXCEPT ![t] = next]
  BY <1>1
<1>3. CASE {from, to} \subseteq Reading
  <2>1. call[t] \in [at : Reading, i : 1..Len(rows), c : 1..Len(col_names), p : 1..width]
    BY <1>1, <1>3, CallFacts
  <2>2. next \in [at : Reading, i : 1..Len(rows), c : 1..Len(col_names), p : 1..width]
        /\ next.at = to /\ next.i = call[t].i /\ next.c = call[t].c /\ next.p = call[t].p
    BY <1>3, <2>1
  <2>3. next \in CallType
    BY <2>2 DEF CallType, Reading
  <2> HIDE DEF next
  <2> QED BY <1>2, <2>2, <2>3
<1>4. CASE {from, to} \subseteq Editing
  <2>1. call[t] \in [at : Editing, i : 1..Len(rows), c : 1..Len(col_names), p : 1..width, value : Values]
    BY <1>1, <1>4, CallFacts
  <2>2. next \in [at : Editing, i : 1..Len(rows), c : 1..Len(col_names), p : 1..width, value : Values]
        /\ next.at = to /\ next.i = call[t].i /\ next.c = call[t].c /\ next.p = call[t].p
    BY <1>4, <2>1
  <2>3. next \in CallType
    BY <2>2 DEF CallType, Editing
  <2> HIDE DEF next
  <2> QED BY <1>2, <2>2, <2>3
<1>5. CASE {from, to} \subseteq Finding
  <2>1. call[t] \in [at : Finding, value : Values]
    BY <1>1, <1>5, CallFacts
  <2>2. next \in [at : Finding, value : Values] /\ next.at = to
    BY <1>5, <2>1
  <2>3. next \in CallType
    BY <2>2 DEF CallType, Finding
  <2> HIDE DEF next
  <2> QED BY <1>2, <1>5, <2>2, <2>3
<1> QED BY <1>3, <1>4, <1>5

(* One callback takes a step, the others are where they were. *)
LEMMA CallMoves ==
  ASSUME Callbacks, NEW t \in Threads, NEW next \in CallType,
         call' = [call EXCEPT ![t] = next], tasks' \subseteq tasks,
         next.at \in Reading \cup Editing => next.p = column_indices[next.c],
         next.at \in {"set", "get"} => edits'[next.i].made,
         next.at \in Finding => is_keyed,
         \A i \in 1..Len(rows) : edits[i].made => edits'[i].made,
         UNCHANGED <<col_names, width, column_indices, rows, is_keyed>>
  PROVE  Callbacks'
<1>1. CallType' = CallType
  BY DEF CallType
<1>2. call \in [Threads -> CallType] /\ tasks \subseteq 1..Len(col_names)
  BY DEF Callbacks
<1>3. call' \in [Threads -> CallType] /\ tasks' \subseteq 1..Len(col_names)
  BY <1>2
<1>4. ASSUME NEW u \in Threads
      PROVE  /\ call'[u].at \in Reading \cup Editing => call'[u].p = column_indices[call'[u].c]
             /\ call'[u].at \in {"set", "get"} => edits'[call'[u].i].made
             /\ call'[u].at \in Finding => is_keyed
  <2>1. CASE u = t
    <3>1. call'[u] = next
      BY <1>2, <2>1
    <3> QED BY <3>1
  <2>2. CASE u # t
    <3>1. call'[u] = call[u]
      BY <1>2, <2>2
    <3>2. /\ call[u].at \in Reading \cup Editing => call[u].p = column_indices[call[u].c]
          /\ call[u].at \in {"set", "get"} => edits[call[u].i].made
          /\ call[u].at \in Finding => is_keyed
      BY DEF Callbacks, Reading, Editing, Finding
    <3>3. call[u].at \in {"set", "get"} => call[u].i \in 1..Len(rows)
      BY CallFacts DEF Reading, Editing
    <3> QED BY <3>1, <3>2, <3>3
  <2> QED BY <2>1, <2>2
<1> QED BY <1>1, <1>3, <1>4 DEF Callbacks, Reading, Editing, Finding

(* Nothing is asked of the index. *)
LEMMA IndexAlone ==
  ASSUME Callbacks, Index, NEW t \in Threads, NEW next, call' = [call EXCEPT ![t] = next],
         call[t].at # "fill", next.at \notin {"build", "fill", "find it"},
         UNCHANGED <<rows, keys_, key_index, undefined>>
  PROVE  Index'
<1>1. call \in [Threads -> CallType]
  BY DEF Callbacks
<1>2. \A u \in Threads : call'[u] = IF u = t THEN next ELSE call[u]
  BY <1>1
<1>3. IndexOf(Len(rows))' = IndexOf(Len(rows))
  BY SameIndexOf
<1>4. (\A u \in Threads : call'[u].at # "fill") => \A u \in Threads : call[u].at # "fill"
  BY <1>2
<1>5. \A u \in Threads : call'[u].at \in {"build", "fill", "find it"} => call'[u] = call[u]
  BY <1>2
<1>6. /\ key_index'.built \in BOOLEAN
      /\ key_index' = [built |-> key_index'.built, map |-> key_index'.map]
  BY DEF Index
<1>7. ASSUME undefined = "no"
      PROVE  /\ key_index.built /\ (\A u \in Threads : call'[u].at # "fill") =>
                   key_index.map = IndexOf(Len(rows))
             /\ \A u \in Threads : call'[u].at \in {"fill", "find it"} => key_index.built
             /\ \A u, v \in Threads :
                   call'[u].at \in {"build", "fill"} =>
                      u = v \/ call'[v].at \notin {"build", "fill", "find it"}
  BY <1>4, <1>5, <1>7 DEF Index
<1> QED BY <1>3, <1>6, <1>7 DEF Index

LEMMA CallbackInv ==
  ASSUME Inv, NEW t \in Threads, Callback(t)
  PROVE  Inv'
<1>1. FrameTypes /\ Parallel /\ ShapeKept /\ Callbacks /\ Index /\ FromColumns
  BY DEF Inv
<1>2. PICK c \in tasks : \E next \in Calls(c) :
         tasks' = tasks \ {c} /\ call' = [call EXCEPT ![t] = next]
  BY DEF Callback
<1>3. PICK next \in Calls(c) : tasks' = tasks \ {c} /\ call' = [call EXCEPT ![t] = next]
  BY <1>2
<1>4. call[t].at = "idle" /\ UNCHANGED <<frameVars, cacheVars, undefined>>
  BY DEF Callback
<1>5. c \in 1..Len(col_names) /\ column_indices[c] \in 1..width /\ DOMAIN rows = 1..Len(rows)
  BY <1>1, FrameSizes DEF Callbacks
<1>6. /\ next \in CallType /\ next.at \in {"idle", "read", "edit", "find"}
      /\ next.at \in {"read", "edit"} => next.p = column_indices[next.c]
      /\ next.at = "find" => is_keyed
  <2>1. CASE next = [at |-> "idle"]
    BY <2>1 DEF CallType
  <2>2. CASE next \in {[at |-> "read", i |-> i, c |-> c, p |-> column_indices[c]] : i \in DOMAIN rows}
    <3>1. PICK i \in DOMAIN rows :
             next = [at |-> "read", i |-> i, c |-> c, p |-> column_indices[c]]
      BY <2>2
    <3>2. next \in [at : {"read", "get"}, i : 1..Len(rows), c : 1..Len(col_names), p : 1..width]
      BY <1>5, <3>1
    <3> QED BY <3>1, <3>2 DEF CallType
  <2>3. CASE next \in {[at |-> "edit", i |-> i, c |-> c, p |-> column_indices[c], value |-> value] :
                          i \in DOMAIN rows, value \in Values}
    <3>1. PICK i \in DOMAIN rows, value \in Values :
             next = [at |-> "edit", i |-> i, c |-> c, p |-> column_indices[c], value |-> value]
      BY <2>3
    <3>2. next \in [at : {"edit", "lock", "ensure", "set"}, i : 1..Len(rows),
                    c : 1..Len(col_names), p : 1..width, value : Values]
      BY <1>5, <3>1
    <3> QED BY <3>1, <3>2 DEF CallType
  <2>4. CASE next \in {[at |-> "find", value |-> value] : value \in IF is_keyed THEN Values ELSE {}}
    <3>1. is_keyed /\ \E value \in Values : next = [at |-> "find", value |-> value]
      BY <2>4
    <3>2. next \in [at : {"find", "build", "fill", "find it"}, value : Values]
      BY <3>1
    <3> QED BY <3>1, <3>2 DEF CallType
  <2> QED BY <2>1, <2>2, <2>3, <2>4 DEF Calls
<1>7. FrameTypes' /\ Parallel' /\ ShapeKept'
  BY <1>1, <1>4, SameFrame
<1>8. Callbacks'
  <2>1. tasks' \subseteq tasks
    BY <1>3
  <2>2. UNCHANGED <<col_names, width, column_indices, rows, edits, is_keyed>>
    BY <1>4 DEF frameVars
  <2>3. /\ next.at \in Reading \cup Editing => next.p = column_indices[next.c]
        /\ next.at \notin {"set", "get"}
        /\ next.at \in Finding => is_keyed
    BY <1>6 DEF Reading, Editing, Finding
  <2>4. \A i \in 1..Len(rows) : edits[i].made => edits'[i].made
    BY <2>2
  <2> QED BY <1>1, <1>3, <1>6, <2>1, <2>2, <2>3, <2>4, CallMoves
<1>9. Index'
  <2>1. UNCHANGED <<rows, keys_, key_index, undefined>>
    BY <1>4 DEF frameVars, cacheVars
  <2>2. call[t].at # "fill" /\ next.at \notin {"build", "fill", "find it"}
    BY <1>4, <1>6
  <2> QED BY <1>1, <1>3, <2>1, <2>2, IndexAlone
<1>10. FromColumns'
  BY <1>1, <1>4, SameColumns DEF frameVars, cacheVars
<1> QED BY <1>7, <1>8, <1>9, <1>10 DEF Inv

(* A step of a callback that leaves the frame alone, and the index. *)
LEMMA LooksInv ==
  ASSUME Inv, NEW t \in Threads, NEW from, NEW to, Step(t, from, to),
         <<from, to>> \in {<<"edit", "lock">>, <<"edit", "set">>, <<"lock", "ensure">>, <<"read", "get">>},
         to \in {"set", "get"} => edits[call[t].i].made,
         UNCHANGED <<Others, edits, key_index, undefined>>
  PROVE  Inv'
<1>1. FrameTypes /\ Parallel /\ ShapeKept /\ Callbacks /\ Index /\ FromColumns
  BY DEF Inv
<1>2. from \in {"edit", "lock", "read"} /\ to \in {"lock", "set", "ensure", "get"}
      /\ ({from, to} \subseteq Reading \/ {from, to} \subseteq Editing)
  BY DEF Reading, Editing
<1>3. PICK next \in CallType :
         /\ call' = [call EXCEPT ![t] = next] /\ next.at = to
         /\ from \notin Finding =>
               next.i = call[t].i /\ next.c = call[t].c /\ next.p = call[t].p
  BY <1>1, <1>2, StepFacts
<1>4. next.i = call[t].i /\ next.c = call[t].c /\ next.p = call[t].p
  BY <1>2, <1>3 DEF Finding
<1>5. call[t].at = from /\ call[t].p = column_indices[call[t].c]
  BY <1>1, <1>2 DEF Step, Callbacks
<1>6. /\ UNCHANGED <<col_names, width, column_indices, rows, is_keyed, keys_, key_column>>
      /\ UNCHANGED <<json, generation, view>> /\ UNCHANGED <<edits, key_index, undefined, tasks>>
  BY DEF Others
<1>7. FrameTypes' /\ Parallel' /\ ShapeKept'
  BY <1>1, <1>6, SameFrame DEF frameVars
<1>8. Callbacks'
  <2>1. next.at \in {"set", "get"} => edits'[next.i].made
    BY <1>3, <1>4, <1>6
  <2>2. \A i \in 1..Len(rows) : edits[i].made => edits'[i].made
    BY <1>6
  <2>3. next.p = column_indices[next.c] /\ next.at \notin Finding
    BY <1>2, <1>3, <1>4, <1>5 DEF Finding
  <2> QED BY <1>1, <1>3, <1>6, <2>1, <2>2, <2>3, CallMoves
<1>9. Index'
  <2>1. call[t].at # "fill" /\ next.at \notin {"build", "fill", "find it"}
    BY <1>2, <1>3, <1>5
  <2> QED BY <1>1, <1>3, <1>6, <2>1, IndexAlone
<1>10. FromColumns'
  BY <1>1, <1>6, SameColumns
<1> QED BY <1>7, <1>8, <1>9, <1>10 DEF Inv

(* A callback comes back, the frame as it was. *)
LEMMA ReturnsInv ==
  ASSUME Inv, NEW t \in Threads, NEW from, Return(t, from), from # "fill",
         UNCHANGED <<Others, edits, key_index, undefined>>
  PROVE  Inv'
<1>1. FrameTypes /\ Parallel /\ ShapeKept /\ Callbacks /\ Index /\ FromColumns
  BY DEF Inv
<1> DEFINE next == [at |-> "idle"]
<1>2. call' = [call EXCEPT ![t] = next] /\ call[t].at # "fill"
  BY DEF Return
<1>3. /\ UNCHANGED <<col_names, width, column_indices, rows, is_keyed, keys_, key_column>>
      /\ UNCHANGED <<json, generation, view>> /\ UNCHANGED <<edits, key_index, undefined, tasks>>
  BY DEF Others
<1>4. next \in CallType /\ next.at = "idle"
  BY DEF CallType
<1> HIDE DEF next
<1>5. FrameTypes' /\ Parallel' /\ ShapeKept'
  BY <1>1, <1>3, SameFrame DEF frameVars
<1>6. Callbacks'
  <2>1. \A i \in 1..Len(rows) : edits[i].made => edits'[i].made
    BY <1>3
  <2>2. next.at \notin Reading \cup Editing \cup Finding /\ next.at \notin {"set", "get"}
    BY <1>4 DEF Reading, Editing, Finding
  <2> QED BY <1>1, <1>2, <1>3, <1>4, <2>1, <2>2, CallMoves
<1>7. Index'
  <2>1. next.at \notin {"build", "fill", "find it"}
    BY <1>4
  <2> QED BY <1>1, <1>2, <1>3, <2>1, IndexAlone
<1>8. FromColumns'
  BY <1>1, <1>3, SameColumns
<1> QED BY <1>5, <1>6, <1>7, <1>8 DEF Inv

LEMMA EditEnsuresInv ==
  ASSUME Inv, NEW t \in Threads, EditEnsures(t)
  PROVE  Inv'
<1>1. FrameTypes /\ Parallel /\ ShapeKept /\ Callbacks /\ Index /\ FromColumns
  BY DEF Inv
<1> DEFINE i == call[t].i
           slot == Ensure(edits[i])
<1>2. /\ Step(t, "ensure", "set") /\ edits' = [edits EXCEPT ![i] = slot]
      /\ UNCHANGED <<col_names, width, column_indices, rows, is_keyed, keys_, key_column>>
      /\ UNCHANGED <<json, generation, view>> /\ UNCHANGED <<key_index, undefined, tasks>>
  BY DEF EditEnsures, Others
<1>3. call[t].at = "ensure" /\ i \in 1..Len(rows) /\ call[t].p = column_indices[call[t].c]
  BY <1>1, <1>2, CallFacts DEF Step, Editing, Callbacks
<1> HIDE DEF i
<1>4. edits[i] \in Slot /\ DOMAIN edits = 1..Len(rows)
  BY <1>1, <1>3, FrameSizes
<1>5. slot \in Slot /\ slot.made
  <2>1. CASE edits[i].made
    BY <1>4, <2>1 DEF Ensure
  <2>2. CASE ~edits[i].made
    <3>1. slot = Overlay(TRUE, <<>>)
      BY <2>2 DEF Ensure
    <3>2. <<>> \in Partial
      BY EmptyOverlay DEF Slot
    <3> QED BY <3>1, <3>2 DEF Overlay, Slot
  <2> QED BY <2>1, <2>2
<1> HIDE DEF slot
<1>6. FrameTypes' /\ Parallel' /\ ShapeKept'
  BY <1>1, <1>2, <1>3, <1>5, EditedFrame
<1>7. PICK next \in CallType :
         /\ call' = [call EXCEPT ![t] = next] /\ next.at = "set"
         /\ next.i = i /\ next.c = call[t].c /\ next.p = call[t].p
  <2>1. {"ensure", "set"} \subseteq Editing /\ "ensure" \notin Finding
    BY DEF Editing, Finding
  <2> QED BY <1>1, <1>2, <2>1, StepFacts DEF i
<1>8. Callbacks'
  <2>1. next.p = column_indices[next.c] /\ next.at \notin Finding
    BY <1>3, <1>7 DEF Finding
  <2>2. edits'[next.i].made /\ \A j \in 1..Len(rows) : edits[j].made => edits'[j].made
    <3>1. \A j \in 1..Len(rows) : edits'[j] = IF j = i THEN slot ELSE edits[j]
      BY <1>2, <1>4
    <3> QED BY <1>3, <1>5, <1>7, <3>1
  <2> QED BY <1>1, <1>2, <1>7, <2>1, <2>2, CallMoves
<1>9. Index'
  BY <1>1, <1>2, <1>3, <1>7, IndexAlone
<1>10. FromColumns'
  BY <1>1, <1>2, SameColumns
<1> QED BY <1>6, <1>8, <1>9, <1>10 DEF Inv

LEMMA EditSetsInv ==
  ASSUME Inv, NEW t \in Threads, EditSets(t)
  PROVE  Inv'
<1>1. FrameTypes /\ Parallel /\ ShapeKept /\ Callbacks /\ Index /\ FromColumns
  BY DEF Inv
<1> DEFINE i == call[t].i
           values == Put(edits[i].values, call[t].p, call[t].value)
           slot == [edits[i] EXCEPT !.values = values]
           next == [at |-> "idle"]
<1>2. /\ call[t].at = "set" /\ call' = [call EXCEPT ![t] = next]
      /\ edits' = [edits EXCEPT ![i].values = Put(@, call[t].p, call[t].value)]
      /\ UNCHANGED <<col_names, width, column_indices, rows, is_keyed, keys_, key_column>>
      /\ UNCHANGED <<json, generation, view>> /\ UNCHANGED <<key_index, undefined, tasks>>
  BY DEF EditSets, Return, Others
<1>3. i \in 1..Len(rows) /\ call[t].p \in 1..width /\ call[t].value \in Values /\ edits[i].made
  BY <1>1, <1>2, CallFacts DEF Editing, Callbacks
<1>4. edits' = [edits EXCEPT ![i] = slot]
  BY <1>2
<1> HIDE DEF i
<1>5. edits[i] \in Slot /\ DOMAIN edits = 1..Len(rows)
  BY <1>1, <1>3, FrameSizes
<1>6. values \in Partial
  BY <1>1, <1>3, <1>5, SlotFacts, PutFacts
<1> HIDE DEF values
<1>7. slot \in Slot /\ slot.made
  BY <1>3, <1>5, <1>6 DEF Slot
<1>8. next \in CallType /\ next.at = "idle"
  BY DEF CallType
<1> HIDE DEF slot, next
<1>9. FrameTypes' /\ Parallel' /\ ShapeKept'
  BY <1>1, <1>2, <1>3, <1>4, <1>7, EditedFrame
<1>10. Callbacks'
  <2>1. next.at \notin Reading \cup Editing \cup Finding /\ next.at \notin {"set", "get"}
    BY <1>8 DEF Reading, Editing, Finding
  <2>2. \A j \in 1..Len(rows) : edits[j].made => edits'[j].made
    <3>1. \A j \in 1..Len(rows) : edits'[j] = IF j = i THEN slot ELSE edits[j]
      BY <1>4, <1>5
    <3> QED BY <1>7, <3>1
  <2> QED BY <1>1, <1>2, <1>8, <2>1, <2>2, CallMoves
<1>11. Index'
  BY <1>1, <1>2, <1>8, IndexAlone
<1>12. FromColumns'
  BY <1>1, <1>2, SameColumns
<1> QED BY <1>9, <1>10, <1>11, <1>12 DEF Inv

(* A callback goes on with a lookup. *)
LEMMA FindingCall ==
  ASSUME Inv, NEW t \in Threads, NEW from \in Finding, NEW to \in Finding, Step(t, from, to),
         UNCHANGED <<Others, edits>>
  PROVE  /\ FrameTypes' /\ Parallel' /\ ShapeKept' /\ Callbacks' /\ FromColumns'
         /\ call[t].at = from
         /\ \E next : /\ next.at = to
                      /\ \A u \in Threads : call'[u] = IF u = t THEN next ELSE call[u]
         /\ IndexOf(Len(rows))' = IndexOf(Len(rows))
<1>1. FrameTypes /\ Parallel /\ ShapeKept /\ Callbacks /\ FromColumns
  BY DEF Inv
<1>2. /\ UNCHANGED <<col_names, width, column_indices, rows, is_keyed, keys_, key_column>>
      /\ UNCHANGED <<json, generation, view>> /\ UNCHANGED <<edits, tasks>>
  BY DEF Others
<1>3. PICK next \in CallType : call' = [call EXCEPT ![t] = next] /\ next.at = to
  <2>1. {from, to} \subseteq Finding
    OBVIOUS
  <2> QED BY <1>1, <2>1, StepFacts
<1>4. Callbacks'
  <2>1. next.at \notin Reading \cup Editing /\ next.at \notin {"set", "get"}
    BY <1>3 DEF Reading, Editing, Finding
  <2>2. \A j \in 1..Len(rows) : edits[j].made => edits'[j].made
    BY <1>2
  <2>3. is_keyed
    <3>1. call[t].at \in {"find", "build", "fill", "find it"}
      BY DEF Step, Finding
    <3> QED BY <1>1, <3>1 DEF Callbacks
  <2> QED BY <1>1, <1>2, <1>3, <2>1, <2>2, <2>3, CallMoves
<1>5. FrameTypes' /\ Parallel' /\ ShapeKept'
  BY <1>1, <1>2, SameFrame DEF frameVars
<1>6. FromColumns'
  BY <1>1, <1>2, SameColumns
<1>7. call[t].at = from /\ \A u \in Threads : call'[u] = IF u = t THEN next ELSE call[u]
  BY <1>1, <1>3 DEF Step, Callbacks
<1>8. IndexOf(Len(rows))' = IndexOf(Len(rows))
  BY <1>2, SameIndexOf
<1> QED BY <1>3, <1>4, <1>5, <1>6, <1>7, <1>8

LEMMA FindLooksInv ==
  ASSUME Inv, NEW t \in Threads, FindLooks(t)
  PROVE  Inv'
<1> DEFINE to == IF key_index.built THEN "find it" ELSE "build"
           met == \E u \in Threads : call[u].at \in {"build", "fill"}
<1>1. /\ Step(t, "find", to) /\ UNCHANGED <<Others, edits, key_index>>
      /\ undefined' = IF met THEN "key index" ELSE undefined
  BY DEF FindLooks
<1>2. to \in Finding /\ "find" \in Finding
  BY DEF Finding
<1> HIDE DEF to, met
<1>3. /\ FrameTypes' /\ Parallel' /\ ShapeKept' /\ Callbacks' /\ FromColumns'
      /\ call[t].at = "find" /\ IndexOf(Len(rows))' = IndexOf(Len(rows))
  BY <1>1, <1>2, FindingCall
<1>4. PICK next : /\ next.at = to
                  /\ \A u \in Threads : call'[u] = IF u = t THEN next ELSE call[u]
  BY <1>1, <1>2, FindingCall
<1>5. Index'
  <2>1. Index
    BY DEF Inv
  <2>2. ASSUME undefined' = "no"
        PROVE  /\ key_index.built /\ (\A u \in Threads : call'[u].at # "fill") =>
                     key_index.map = IndexOf(Len(rows))
               /\ \A u \in Threads : call'[u].at \in {"fill", "find it"} => key_index.built
               /\ \A u, v \in Threads :
                     call'[u].at \in {"build", "fill"} =>
                        u = v \/ call'[v].at \notin {"build", "fill", "find it"}
    <3>1. undefined = "no" /\ \A u \in Threads : call[u].at \notin {"build", "fill"}
      BY <1>1, <2>2 DEF met
    <3>2. /\ key_index.built => key_index.map = IndexOf(Len(rows))
          /\ \A u \in Threads : call[u].at \in {"fill", "find it"} => key_index.built
      BY <2>1, <3>1 DEF Index
    <3>3. CASE key_index.built
      <4>1. to = "find it"
        BY <3>3 DEF to
      <4>2. \A u \in Threads : call'[u].at \notin {"build", "fill"}
        BY <1>4, <3>1, <4>1
      <4> QED BY <3>2, <3>3, <4>2
    <3>4. CASE ~key_index.built
      <4>1. to = "build"
        BY <3>4 DEF to
      <4>2. \A u \in Threads : IF u = t THEN call'[u].at = "build"
                               ELSE call'[u].at \notin {"build", "fill", "find it"}
        BY <1>4, <3>1, <3>2, <3>4, <4>1
      <4> QED BY <3>4, <4>2
    <3> QED BY <3>3, <3>4
  <2>3. /\ key_index.built \in BOOLEAN
        /\ key_index = [built |-> key_index.built, map |-> key_index.map]
    BY <2>1 DEF Index
  <2> QED BY <1>1, <1>3, <2>2, <2>3 DEF Index
<1> QED BY <1>3, <1>5 DEF Inv

LEMMA FindBuildsInv ==
  ASSUME Inv, NEW t \in Threads, FindBuilds(t)
  PROVE  Inv'
<1>1. /\ Step(t, "build", "fill") /\ UNCHANGED <<Others, edits>> /\ UNCHANGED undefined
      /\ key_index' = [built |-> TRUE, map |-> <<>>]
  BY DEF FindBuilds
<1>2. "build" \in Finding /\ "fill" \in Finding
  BY DEF Finding
<1>3. /\ FrameTypes' /\ Parallel' /\ ShapeKept' /\ Callbacks' /\ FromColumns'
      /\ call[t].at = "build"
  BY <1>1, <1>2, FindingCall
<1>4. PICK next : /\ next.at = "fill"
                  /\ \A u \in Threads : call'[u] = IF u = t THEN next ELSE call[u]
  BY <1>1, <1>2, FindingCall
<1>5. ASSUME undefined = "no"
      PROVE  /\ \E u \in Threads : call'[u].at = "fill"
             /\ \A u, v \in Threads :
                   call'[u].at \in {"build", "fill"} =>
                      u = v \/ call'[v].at \notin {"build", "fill", "find it"}
  <2>1. \A v \in Threads : t = v \/ call[v].at \notin {"build", "fill", "find it"}
    BY <1>3, <1>5 DEF Inv, Index
  <2> QED BY <1>4, <2>1
<1>6. Index'
  BY <1>1, <1>5 DEF Index
<1> QED BY <1>3, <1>6 DEF Inv

LEMMA FindFillsInv ==
  ASSUME Inv, NEW t \in Threads, FindFills(t)
  PROVE  Inv'
<1>1. /\ Step(t, "fill", "find it") /\ UNCHANGED <<Others, edits>> /\ UNCHANGED undefined
      /\ key_index' = [key_index EXCEPT !.map = IndexOf(Len(rows))]
  BY DEF FindFills
<1>2. "fill" \in Finding /\ "find it" \in Finding
  BY DEF Finding
<1>3. /\ FrameTypes' /\ Parallel' /\ ShapeKept' /\ Callbacks' /\ FromColumns'
      /\ call[t].at = "fill" /\ IndexOf(Len(rows))' = IndexOf(Len(rows))
  BY <1>1, <1>2, FindingCall
<1>4. PICK next : /\ next.at = "find it"
                  /\ \A u \in Threads : call'[u] = IF u = t THEN next ELSE call[u]
  BY <1>1, <1>2, FindingCall
<1>5. /\ key_index.built \in BOOLEAN
      /\ key_index = [built |-> key_index.built, map |-> key_index.map]
  BY DEF Inv, Index
<1>6. key_index' = [built |-> key_index.built, map |-> IndexOf(Len(rows))]
  BY <1>1, <1>5
<1>7. ASSUME undefined = "no"
      PROVE  /\ key_index.built
             /\ \A u \in Threads : call'[u].at \notin {"build", "fill"}
  <2>1. /\ key_index.built
        /\ \A v \in Threads : t = v \/ call[v].at \notin {"build", "fill", "find it"}
    BY <1>3, <1>7 DEF Inv, Index
  <2> QED BY <1>4, <2>1
<1>8. Index'
  BY <1>1, <1>3, <1>5, <1>6, <1>7 DEF Index
<1> QED BY <1>3, <1>8 DEF Inv

-----------------------------------------------------------------------------
(* The other steps of the owner. *)

LEMMA ColumnParallelApplyInv ==
  ASSUME Inv, ColumnParallelApply
  PROVE  Inv'
<1>1. FrameTypes /\ Parallel /\ ShapeKept /\ Callbacks /\ Index /\ FromColumns
  BY DEF Inv
<1>2. /\ Owner /\ tasks' = DOMAIN col_names /\ UNCHANGED frameVars /\ UNCHANGED cacheVars
      /\ UNCHANGED call
  BY DEF ColumnParallelApply
<1>3. FrameTypes' /\ Parallel' /\ ShapeKept'
  BY <1>1, <1>2, SameFrame
<1>4. Callbacks'
  <2>1. call' = call /\ call \in [Threads -> CallType] /\ \A t \in Threads : call'[t] = [at |-> "idle"]
    BY <1>1, <1>2, OwnerIdle DEF Callbacks
  <2>2. CallType' = CallType /\ col_names' = col_names
    BY <1>2 DEF CallType, frameVars
  <2>3. tasks' = 1..Len(col_names)
    BY <1>1, <1>2, FrameSizes
  <2>4. \A t \in Threads : call'[t].at = "idle"
    BY <2>1
  <2> QED BY <2>1, <2>2, <2>3, <2>4 DEF Callbacks
<1>5. Index'
  BY <1>1, <1>2, OwnerIndex DEF frameVars, cacheVars
<1>6. FromColumns'
  BY <1>1, <1>2, SameColumns DEF frameVars, cacheVars
<1> QED BY <1>3, <1>4, <1>5, <1>6 DEF Inv

LEMMA QueryInv ==
  ASSUME Inv, Owner, UNCHANGED <<frameVars, applyVars, json, generation>>,
         key_index' \in {key_index, EnsureKeyIndex},
         \/ UNCHANGED view
         \/ \E c \in DOMAIN col_names : TakeView(c)
  PROVE  Inv'
<1>1. FrameTypes /\ Parallel /\ ShapeKept /\ Callbacks /\ Index /\ FromColumns
  BY DEF Inv
<1>2. FrameTypes' /\ Parallel' /\ ShapeKept'
  BY <1>1, SameFrame
<1>3. Callbacks'
  BY <1>1, OwnerCallbacks DEF applyVars
<1>4. Index'
  <2>1. UNCHANGED call /\ UNCHANGED <<rows, keys_>>
    BY DEF applyVars, frameVars
  <2> QED BY <1>1, <2>1, OwnerIndex
<1>5. FromColumns'
  <2>1. UNCHANGED <<col_names, generation, json>>
    BY DEF frameVars
  <2>2. CASE UNCHANGED view
    BY <1>1, <2>1, <2>2, SameColumns
  <2>3. CASE \E c \in DOMAIN col_names : TakeView(c)
    <3>1. PICK c \in DOMAIN col_names :
             view' = [taken |-> TRUE, col |-> c, generation |-> generation, name |-> col_names[c]]
      BY <2>3 DEF TakeView, ProxyOf
    <3>2. ViewShowsItsColumn'
      BY <2>1, <3>1 DEF ViewShowsItsColumn
    <3>3. view'.generation = generation /\ generation \in Nat
      BY <1>1, <3>1 DEF FromColumns
    <3> QED BY <1>1, <2>1, <3>2, <3>3 DEF FromColumns
  <2> QED BY <2>2, <2>3
<1> QED BY <1>2, <1>3, <1>4, <1>5 DEF Inv

LEMMA ToJsonInv ==
  ASSUME Inv, NEW i, NEW subset, ToJson(i, subset)
  PROVE  Inv'
<1>1. FrameTypes /\ Parallel /\ ShapeKept /\ Callbacks /\ Index /\ FromColumns
  BY DEF Inv
<1>2. /\ Owner /\ UNCHANGED <<frameVars, key_index, generation, view, applyVars>>
      /\ json' = IF json.once THEN json ELSE [once |-> TRUE, made |-> TRUE, names |-> col_names]
  BY DEF ToJson
<1>3. FrameTypes' /\ Parallel' /\ ShapeKept'
  BY <1>1, <1>2, SameFrame
<1>4. Callbacks'
  BY <1>1, <1>2, OwnerCallbacks DEF applyVars
<1>5. Index'
  BY <1>1, <1>2, OwnerIndex DEF frameVars, applyVars
<1>6. FromColumns'
  <2>1. UNCHANGED <<col_names, generation, view>>
    BY <1>2 DEF frameVars
  <2>2. ViewShowsItsColumn'
    BY <1>1, <2>1 DEF FromColumns, ViewShowsItsColumn, Valid
  <2>3. CASE json.once
    BY <1>1, <1>2, <2>1, <2>3, SameColumns
  <2>4. CASE ~json.once
    BY <1>1, <1>2, <2>1, <2>2, <2>4 DEF FromColumns
  <2> QED BY <2>3, <2>4
<1> QED BY <1>3, <1>4, <1>5, <1>6 DEF Inv

LEMMA SameInv ==
  ASSUME Inv, UNCHANGED vars
  PROVE  Inv'
<1>1. FrameTypes /\ Parallel /\ ShapeKept /\ Callbacks /\ Index /\ FromColumns
  BY DEF Inv
<1>2. UNCHANGED frameVars /\ UNCHANGED cacheVars /\ UNCHANGED <<tasks, call, undefined>>
  BY DEF vars, applyVars
<1>3. FrameTypes' /\ Parallel' /\ ShapeKept'
  BY <1>1, <1>2, SameFrame
<1>4. Callbacks'
  <2>1. UNCHANGED <<tasks, call, edits, column_indices, rows, col_names, width, is_keyed>>
    BY <1>2 DEF frameVars
  <2>2. CallType' = CallType
    BY <2>1 DEF CallType
  <2> QED BY <1>1, <2>1, <2>2 DEF Callbacks
<1>5. Index'
  <2>1. UNCHANGED <<rows, keys_>> /\ UNCHANGED <<key_index, call, undefined>>
    BY <1>2 DEF frameVars, cacheVars
  <2>2. IndexOf(Len(rows))' = IndexOf(Len(rows))
    BY <2>1, SameIndexOf
  <2> QED BY <1>1, <2>1, <2>2 DEF Index
<1>6. FromColumns'
  BY <1>1, <1>2, SameColumns DEF frameVars, cacheVars
<1> QED BY <1>3, <1>4, <1>5, <1>6 DEF Inv

LEMMA OwnerAsksInv ==
  ASSUME Inv, OwnerAsks
  PROVE  Inv'
<1>1. CASE \E c \in DOMAIN col_names : TakeView(c)
  <2>1. Owner /\ UNCHANGED <<frameVars, applyVars, json, generation>> /\ key_index' = key_index
    BY <1>1 DEF TakeView, Query
  <2> QED BY <1>1, <2>1, QueryInv
<1>2. CASE \E key \in Values : PositionOf(key)
  <2>1. /\ Owner /\ UNCHANGED <<frameVars, applyVars, json, generation>>
        /\ UNCHANGED view /\ key_index' \in {key_index, EnsureKeyIndex}
    BY <1>2 DEF PositionOf, Query
  <2> QED BY <2>1, QueryInv
<1>3. CASE \E i \in DOMAIN rows, subset \in SUBSET Names : ToJson(i, subset)
  BY <1>3, ToJsonInv
<1>4. CASE \/ \E i \in DOMAIN rows, c \in DOMAIN col_names : ReadCell(i, c)
           \/ ReadColumn
           \/ \E name \in Names : ColumnNamed(name)
           \/ \E mask \in SUBSET DOMAIN rows : SelectedRows(mask)
  <2>1. Owner /\ UNCHANGED <<frameVars, applyVars, cacheVars>>
    BY <1>4 DEF ReadCell, ReadColumn, ColumnNamed, SelectedRows, Query
  <2>2. UNCHANGED <<frameVars, applyVars, json, generation>> /\ UNCHANGED view /\ key_index' = key_index
    BY <2>1 DEF cacheVars
  <2> QED BY <2>1, <2>2, QueryInv
<1> QED BY <1>1, <1>2, <1>3, <1>4 DEF OwnerAsks

LEMMA ThreadInv ==
  ASSUME Inv, NEW t \in Threads, Thread(t)
  PROVE  Inv'
<1>1. CASE Callback(t)
  BY <1>1, CallbackInv
<1>2. CASE EditLooks(t)
  <2>1. UNCHANGED <<Others, edits, key_index, undefined>>
    BY <1>2 DEF EditLooks
  <2>2. CASE edits[call[t].i].made
    <3>1. Step(t, "edit", "set")
      BY <1>2, <2>2 DEF EditLooks
    <3> QED BY <2>1, <2>2, <3>1, LooksInv
  <2>3. CASE ~edits[call[t].i].made
    <3>1. Step(t, "edit", "lock")
      BY <1>2, <2>3 DEF EditLooks
    <3> QED BY <2>1, <3>1, LooksInv
  <2> QED BY <2>2, <2>3
<1>3. CASE EditLocks(t)
  <2>1. Step(t, "lock", "ensure") /\ UNCHANGED <<Others, edits, key_index, undefined>>
    BY <1>3 DEF EditLocks
  <2> QED BY <2>1, LooksInv
<1>4. CASE EditEnsures(t)
  BY <1>4, EditEnsuresInv
<1>5. CASE EditSets(t)
  BY <1>5, EditSetsInv
<1>6. CASE ReadLooks(t)
  <2>1. UNCHANGED <<Others, edits, key_index, undefined>>
    BY <1>6 DEF ReadLooks
  <2>2. CASE edits[call[t].i].made
    <3>1. Step(t, "read", "get")
      BY <1>6, <2>2 DEF ReadLooks
    <3> QED BY <2>1, <2>2, <3>1, LooksInv
  <2>3. CASE ~edits[call[t].i].made
    <3>1. Return(t, "read")
      BY <1>6, <2>3 DEF ReadLooks
    <3> QED BY <2>1, <3>1, ReturnsInv
  <2> QED BY <2>2, <2>3
<1>7. CASE ReadGets(t)
  <2>1. Return(t, "get") /\ UNCHANGED <<Others, edits, key_index, undefined>>
    BY <1>7 DEF ReadGets
  <2> QED BY <2>1, ReturnsInv
<1>8. CASE FindLooks(t)
  BY <1>8, FindLooksInv
<1>9. CASE FindBuilds(t)
  BY <1>9, FindBuildsInv
<1>10. CASE FindFills(t)
  BY <1>10, FindFillsInv
<1>11. CASE Finds(t)
  <2>1. Return(t, "find it") /\ UNCHANGED <<Others, edits, key_index, undefined>>
    BY <1>11 DEF Finds
  <2> QED BY <2>1, ReturnsInv
<1> QED BY <1>1, <1>2, <1>3, <1>4, <1>5, <1>6, <1>7, <1>8, <1>9, <1>10, <1>11 DEF Thread

(* Inv is inductive. *)
LEMMA InvStep ==
  ASSUME Inv, [Next]_vars
  PROVE  Inv'
<1>1. CASE OwnerChanges
  BY <1>1, EditCellInv, InsertRowInv, EraseAtIndexInv, InsertColumnInv, EraseColumnInv,
     ColumnParallelApplyInv DEF OwnerChanges, Proxies
<1>2. CASE OwnerAsks
  BY <1>2, OwnerAsksInv
<1>3. CASE \E t \in Threads : Thread(t)
  BY <1>3, ThreadInv
<1>4. CASE Undefined \/ UNCHANGED vars
  BY <1>4, SameInv DEF Undefined
<1> QED BY <1>1, <1>2, <1>3, <1>4 DEF Next

LEMMA InvHolds == Spec => []Inv
<1>1. Init => Inv
  BY InitInv
<1>2. Inv /\ [Next]_vars => Inv'
  BY InvStep
<1> QED BY <1>1, <1>2, PTL DEF Spec

-----------------------------------------------------------------------------
(* What follows from it. *)

(* Whatever is edited, inserted, erased, hidden or rebuilt, by the owner or  *)
(* by callbacks: an overlay slot per row, a visible position per name and   *)
(* each of them a field of every row, no key twice, and the key column is   *)
(* visible.                                                                 *)
THEOREM FrameKeepsItsShape == Spec => []ShapeKept
<1>1. Inv => ShapeKept
  BY DEF Inv
<1> QED BY <1>1, InvHolds, PTL

(* A key index that is built when the owner has the frame is the index of   *)
(* the rows as they are: ensure_key_index() after any insertion, erasure,   *)
(* rebuild and callbacks that asked for keys.                               *)
THEOREM KeyIndexNeverStale == Spec => []KeyIndexCurrent
<1>1. Inv => KeyIndexCurrent
  <2> SUFFICES ASSUME Inv, Owner, key_index.built PROVE key_index.map = IndexOf(Len(rows))
    BY DEF KeyIndexCurrent
  <2>1. undefined = "no" /\ \A t \in Threads : call[t].at = "idle"
    BY OwnerIdle DEF Inv
  <2> QED BY <2>1 DEF Inv, Index
<1> QED BY <1>1, InvHolds, PTL

(* A DataFrameColumn that passes its generation check stands where the      *)
(* column it was taken of stands.                                           *)
THEOREM ProxyShowsItsColumn == Spec => []ViewShowsItsColumn
<1>1. Inv => ViewShowsItsColumn
  BY DEF Inv, FromColumns
<1> QED BY <1>1, InvHolds, PTL

-----------------------------------------------------------------------------
(* The frame implements FrameTable.  What a caller sees of it: *)

Parsed == [i \in DOMAIN rows |-> [c \in DOMAIN column_indices |-> rows[i][column_indices[c]]]]

TableShape ==
    /\ Table \in Seq(Seq(Values)) /\ Len(Table) = Len(rows) /\ DOMAIN Table = 1..Len(rows)
    /\ Parsed \in Seq(Seq(Values)) /\ Len(Parsed) = Len(rows) /\ DOMAIN Parsed = 1..Len(rows)
    /\ \A i \in 1..Len(rows) :
          /\ Table[i] = Row(i) /\ Len(Table[i]) = Len(col_names) /\ Table[i] \in Seq(Values)
          /\ DOMAIN Table[i] = 1..Len(col_names)
          /\ Parsed[i] \in Seq(Values) /\ Len(Parsed[i]) = Len(col_names)
          /\ DOMAIN Parsed[i] = 1..Len(col_names)
    /\ \A i \in 1..Len(rows), c \in 1..Len(col_names) :
          /\ Table[i][c] = Cell(i, column_indices[c])
          /\ Parsed[i][c] = rows[i][column_indices[c]]

KeyColumnShape ==
    /\ key_column = 0 => VisibleKeyColumn = 0
    /\ key_column # 0 =>
          /\ VisibleKeyColumn \in 1..Len(col_names)
          /\ column_indices[VisibleKeyColumn] = key_column
    /\ \A c \in 1..Len(col_names) : key_column # 0 =>
          (column_indices[c] = key_column <=> c = VisibleKeyColumn)

LEMMA TableFacts == FrameTypes /\ ShapeKept => TableShape
<1> SUFFICES ASSUME FrameTypes, ShapeKept PROVE TableShape
  OBVIOUS
<1>1. /\ Len(rows) \in Nat /\ DOMAIN rows = 1..Len(rows) /\ Len(col_names) \in Nat
      /\ DOMAIN column_indices = 1..Len(col_names)
  BY FrameSizes
<1> DEFINE parsed(i) == [c \in 1..Len(col_names) |-> rows[i][column_indices[c]]]
           row(i) == Row(i)
<1>2. ASSUME NEW i \in 1..Len(rows)
      PROVE  /\ row(i) \in Seq(Values) /\ Len(row(i)) = Len(col_names)
             /\ DOMAIN row(i) = 1..Len(col_names)
             /\ \A c \in 1..Len(col_names) : row(i)[c] = Cell(i, column_indices[c])
  BY RowFacts
<1>3. ASSUME NEW i \in 1..Len(rows)
      PROVE  /\ parsed(i) \in Seq(Values) /\ Len(parsed(i)) = Len(col_names)
             /\ DOMAIN parsed(i) = 1..Len(col_names)
             /\ \A c \in 1..Len(col_names) : parsed(i)[c] = rows[i][column_indices[c]]
  <2>1. \A c \in 1..Len(col_names) : rows[i][column_indices[c]] \in Values
    <3>1. ASSUME NEW c \in 1..Len(col_names) PROVE rows[i][column_indices[c]] \in Values
      <4>1. column_indices[c] \in DOMAIN rows[i]
        BY <1>1 DEF ShapeKept
      <4>2. rows[i] \in Seq(Values) /\ DOMAIN rows[i] = 1..Len(rows[i])
        BY FrameSizes
      <4> QED BY <4>1, <4>2, ElementOfSeq
    <3> QED BY <3>1
  <2> QED BY <1>1, <2>1, IsASeq
<1>4. Table = [i \in 1..Len(rows) |-> row(i)]
  BY <1>1 DEF Table
<1>5. Parsed = [i \in 1..Len(rows) |-> parsed(i)]
  BY <1>1 DEF Parsed
<1> HIDE DEF parsed, row
<1>6. Table \in Seq(Seq(Values)) /\ Len(Table) = Len(rows)
  BY <1>1, <1>2, <1>4, IsASeq
<1>7. Parsed \in Seq(Seq(Values)) /\ Len(Parsed) = Len(rows)
  BY <1>1, <1>3, <1>5, IsASeq
<1>8. \A i \in 1..Len(rows) : Table[i] = row(i) /\ Parsed[i] = parsed(i) /\ row(i) = Row(i)
  BY <1>4, <1>5 DEF row
<1>9. DOMAIN Table = 1..Len(rows) /\ DOMAIN Parsed = 1..Len(rows)
  BY <1>4, <1>5
<1>10. ASSUME NEW i \in 1..Len(rows)
       PROVE  /\ Table[i] = Row(i) /\ Len(Table[i]) = Len(col_names) /\ Table[i] \in Seq(Values)
              /\ DOMAIN Table[i] = 1..Len(col_names)
              /\ Parsed[i] \in Seq(Values) /\ Len(Parsed[i]) = Len(col_names)
              /\ DOMAIN Parsed[i] = 1..Len(col_names)
              /\ \A c \in 1..Len(col_names) : /\ Table[i][c] = Cell(i, column_indices[c])
                                              /\ Parsed[i][c] = rows[i][column_indices[c]]
  <2>1. Table[i] = row(i) /\ Parsed[i] = parsed(i) /\ row(i) = Row(i)
    BY <1>8
  <2> QED BY <1>2, <1>3, <2>1
<1> QED BY <1>6, <1>7, <1>9, <1>10, Zenon DEF TableShape

(* Two tables are the same that have the same cells. *)
SameCells(a, b) ==
    /\ a \in Seq(Seq(Values)) /\ b \in Seq(Seq(Values)) /\ Len(a) = Len(b)
    /\ \A i \in 1..Len(a) : /\ Len(a[i]) = Len(b[i])
                            /\ \A c \in 1..Len(a[i]) : a[i][c] = b[i][c]

LEMMA TableEqual ==
  ASSUME NEW a, NEW b, SameCells(a, b)
  PROVE  a = b
<1>0. /\ a \in Seq(Seq(Values)) /\ b \in Seq(Seq(Values)) /\ Len(a) = Len(b)
      /\ \A i \in 1..Len(a) : /\ Len(a[i]) = Len(b[i])
                              /\ \A c \in 1..Len(a[i]) : a[i][c] = b[i][c]
  BY DEF SameCells
<1>1. ASSUME NEW i \in 1..Len(a) PROVE a[i] = b[i]
  <2>1. a[i] \in Seq(Values) /\ b[i] \in Seq(Values)
    BY <1>0, ElementOfSeq
  <2> QED BY <1>0, <2>1, SeqEqual
<1> QED BY <1>0, <1>1, SeqEqual

(* Where the key column is visible. *)
LEMMA KeyColumnFacts == FrameTypes /\ ShapeKept => KeyColumnShape
<1> SUFFICES ASSUME FrameTypes, ShapeKept PROVE KeyColumnShape
  OBVIOUS
<1>1. /\ DOMAIN column_indices = 1..Len(col_names) /\ Len(column_indices) = Len(col_names)
      /\ Len(col_names) \in Nat /\ \A c \in 1..Len(col_names) : column_indices[c] \in 1..width
  BY FrameSizes
<1> DEFINE Is(c) == IF \E d \in DOMAIN column_indices : column_indices[d] = key_column
                    THEN c # 0 /\ column_indices[c] = key_column ELSE c = 0
           v == CHOOSE c \in 0..Len(column_indices) : Is(c)
<1>2. VisibleKeyColumn = v
  BY DEF VisibleKeyColumn
<1>3. CASE key_column = 0
  <2>1. ~\E d \in DOMAIN column_indices : column_indices[d] = key_column
    BY <1>1, <1>3
  <2>2. 0 \in 0..Len(column_indices) /\ Is(0)
    BY <1>1, <2>1
  <2>3. Is(v)
    BY <2>2
  <2>4. v = 0
    BY <2>1, <2>3
  <2> QED BY <1>2, <1>3, <2>4 DEF KeyColumnShape
<1>4. CASE key_column # 0
  <2>1. PICK d \in DOMAIN column_indices : column_indices[d] = key_column
    BY <1>4 DEF ShapeKept
  <2>2. d \in 0..Len(column_indices) /\ Is(d)
    BY <1>1, <2>1
  <2>3. v \in 0..Len(column_indices) /\ Is(v)
    BY <2>2
  <2> HIDE DEF v
  <2>4. v \in 1..Len(col_names) /\ column_indices[v] = key_column
    BY <1>1, <2>1, <2>3
  <2>5. \A c \in 1..Len(col_names) : column_indices[c] = key_column <=> c = v
    BY <1>1, <2>4 DEF ShapeKept, IsInjective
  <2> QED BY <1>2, <1>4, <2>4, <2>5 DEF KeyColumnShape
<1> QED BY <1>3, <1>4

LEMMA SameTable ==
  ASSUME UNCHANGED frameVars
  PROVE  Table' = Table /\ Parsed' = Parsed /\ VisibleKeyColumn' = VisibleKeyColumn
<1>1. UNCHANGED <<col_names, width, column_indices, rows, edits, is_keyed, keys_, key_column>>
  BY DEF frameVars
<1>2. Table' = Table
  BY <1>1 DEF Table, Row, Cell
<1>3. Parsed' = Parsed
  BY <1>1 DEF Parsed
<1>4. VisibleKeyColumn' = VisibleKeyColumn
  BY <1>1 DEF VisibleKeyColumn
<1> QED BY <1>2, <1>3, <1>4

(* A step from one frame to another. *)
LEMMA FrameStep ==
  ASSUME Inv, [Next]_vars
  PROVE  /\ FrameTypes /\ Parallel /\ ShapeKept /\ Callbacks /\ Index /\ FromColumns
         /\ TableShape /\ KeyColumnShape
         /\ FrameTypes' /\ Parallel' /\ ShapeKept' /\ TableShape' /\ KeyColumnShape'
         /\ Index' /\ FromColumns'
<1>1. Inv'
  BY InvStep
<1>2. Inv => /\ FrameTypes /\ Parallel /\ ShapeKept /\ Callbacks /\ Index /\ FromColumns
             /\ TableShape /\ KeyColumnShape
  BY TableFacts, KeyColumnFacts DEF Inv
<1>3. Inv' => /\ FrameTypes' /\ Parallel' /\ ShapeKept' /\ Index' /\ FromColumns'
  BY DEF Inv
<1>4. (FrameTypes /\ ShapeKept => TableShape /\ KeyColumnShape)'
  <2>1. FrameTypes /\ ShapeKept => TableShape /\ KeyColumnShape
    BY TableFacts, KeyColumnFacts
  <2> QED BY <2>1, TableFacts, KeyColumnFacts, PTL
<1> QED BY <1>1, <1>2, <1>3, <1>4

-----------------------------------------------------------------------------
(* Calls that answer. *)

Answered ==
    \/ \E i \in DOMAIN Table, c \in DOMAIN col_names : answer' = <<"cell", i, c, Table[i][c]>>
    \/ \E c \in DOMAIN col_names :
          answer' = <<"column", col_names[c], [i \in DOMAIN Table |-> Table[i][c]]>>
    \/ \E key \in Values :
          is_keyed /\ answer' = <<"rows of", key, {i \in DOMAIN Table : keys_[i] = key}>>
    \/ \E c \in DOMAIN col_names :
          answer' = <<"groups", col_names[c],
              [value \in {Table[i][c] : i \in DOMAIN Table} |->
                  {i \in DOMAIN Table : Table[i][c] = value}]>>
    \/ \E i \in DOMAIN Table, subset \in SUBSET {col_names[c] : c \in DOMAIN col_names} :
          answer' = <<"json", i, subset,
              {<<col_names[c], Table[i][c]>> :
                  c \in {d \in DOMAIN col_names : subset = {} \/ col_names[d] \in subset}}>>
    \/ \E mask \in SUBSET DOMAIN Table : answer' = <<"selected", mask, [i \in mask |-> Parsed[i]]>>
    \/ answer' = <<"refused">>

LEMMA Answers ==
  ASSUME UNCHANGED frameVars, Answered
  PROVE  FT!Next
<1>1. Table' = Table /\ Parsed' = Parsed /\ VisibleKeyColumn' = VisibleKeyColumn
  BY SameTable
<1>2. UNCHANGED <<col_names, is_keyed, keys_>>
  BY DEF frameVars
<1>3. FT!Ask
  BY <1>1, <1>2 DEF FT!Ask, FT!Positions, Answered, Parsed
<1> QED BY <1>3 DEF FT!Next

LEMMA Silence ==
  ASSUME UNCHANGED frameVars, UNCHANGED answer
  PROVE  UNCHANGED FT!tableVars
<1>1. Table' = Table /\ Parsed' = Parsed /\ VisibleKeyColumn' = VisibleKeyColumn
  BY SameTable
<1>2. UNCHANGED <<col_names, is_keyed, keys_>>
  BY DEF frameVars
<1> QED BY <1>1, <1>2 DEF FT!tableVars, Parsed

(* What a map from keys to rows finds. *)
LEMMA IndexFinds ==
  ASSUME FrameTypes, Parallel, ShapeKept, is_keyed, NEW index, index.map = IndexOf(Len(rows)),
         NEW key
  PROVE  Find(index, key) = {i \in 1..Len(rows) : keys_[i] = key}
<1> DEFINE n == Len(rows)
           last == CHOOSE i \in 1..n : keys_[i] = key /\ \A j \in (i + 1)..n : keys_[j] # key
<1>1. n \in Nat /\ \A i, j \in 1..n : keys_[i] = keys_[j] => i = j
  <2>1. Len(rows) \in Nat /\ Len(keys_) \in Nat /\ DOMAIN keys_ = 1..Len(keys_)
    BY FrameSizes
  <2>2. Len(rows) <= Len(keys_)
    BY DEF Parallel
  <2>3. \A i \in 1..n : i \in DOMAIN keys_
    BY <2>1, <2>2
  <2> QED BY <2>1, <2>3 DEF ShapeKept, IsInjective
<1> HIDE DEF n
<1>2. /\ DOMAIN IndexOf(n) = {keys_[i] : i \in 1..n}
      /\ key \in {keys_[i] : i \in 1..n} => IndexOf(n)[key] = last
  BY DEF IndexOf
<1>3. CASE \E i \in 1..n : keys_[i] = key
  <2>1. PICK i \in 1..n : keys_[i] = key
    BY <1>3
  <2>2. \A j \in (i + 1)..n : keys_[j] # key
    <3>1. \A j \in (i + 1)..n : j \in 1..n /\ j # i
      BY <1>1
    <3> QED BY <1>1, <2>1, <3>1
  <2>3. last \in 1..n /\ keys_[last] = key
    BY <2>1, <2>2
  <2> HIDE DEF last
  <2>4. last = i /\ {j \in 1..n : keys_[j] = key} = {i}
    BY <1>1, <2>1, <2>3
  <2>5. key \in DOMAIN IndexOf(n) /\ IndexOf(n)[key] = i
    BY <1>2, <2>1, <2>4
  <2> QED BY <2>4, <2>5 DEF Find, n
<1>4. CASE ~\E i \in 1..n : keys_[i] = key
  <2>1. key \notin DOMAIN IndexOf(n)
    BY <1>2, <1>4
  <2>2. {j \in 1..n : keys_[j] = key} = {}
    BY <1>4
  <2> QED BY <2>1, <2>2 DEF Find, n
<1> QED BY <1>3, <1>4

LEMMA PositionOfAnswers ==
  ASSUME Inv, NEW key \in Values, PositionOf(key), [Next]_vars
  PROVE  FT!Next
<1>1. /\ FrameTypes /\ Parallel /\ ShapeKept /\ TableShape /\ Callbacks /\ Index
  BY FrameStep
<1>2. Owner /\ UNCHANGED frameVars
  BY DEF PositionOf, Query
<1>3. CASE ~is_keyed
  <2>1. Answered
    BY <1>3 DEF PositionOf, Answered
  <2> QED BY <1>2, <2>1, Answers
<1>4. CASE is_keyed
  <2>1. key_index' = EnsureKeyIndex /\ answer' = <<"rows of", key, Find(key_index', key)>>
    BY <1>4 DEF PositionOf
  <2>2. undefined = "no" /\ \A t \in Threads : call[t].at = "idle"
    BY <1>1, <1>2, OwnerIdle
  <2>3. key_index'.map = IndexOf(Len(rows))
    BY <1>1, <2>1, <2>2 DEF Index, EnsureKeyIndex
  <2>4. Find(key_index', key) = {i \in 1..Len(rows) : keys_[i] = key}
    BY <1>1, <1>4, <2>3, IndexFinds
  <2>5. DOMAIN Table = 1..Len(rows)
    BY <1>1 DEF TableShape
  <2>6. Answered
    BY <1>4, <2>1, <2>4, <2>5 DEF Answered
  <2> QED BY <1>2, <2>6, Answers
<1> QED BY <1>3, <1>4

LEMMA FindsAnswers ==
  ASSUME Inv, NEW t \in Threads, Finds(t), [Next]_vars, undefined' = "no"
  PROVE  FT!Next
<1>1. /\ FrameTypes /\ Parallel /\ ShapeKept /\ TableShape /\ Callbacks /\ Index
  BY FrameStep
<1>2. /\ call[t].at = "find it" /\ UNCHANGED frameVars /\ undefined = "no"
      /\ answer' = <<"rows of", call[t].value, Find(key_index, call[t].value)>>
  BY DEF Finds, Return, Others, frameVars
<1>3. is_keyed /\ call[t].value \in Values
  BY <1>1, <1>2, CallFacts DEF Callbacks, Finding
<1>4. key_index.built /\ \A u \in Threads : call[u].at # "fill"
  BY <1>1, <1>2 DEF Index
<1>5. key_index.map = IndexOf(Len(rows))
  BY <1>1, <1>2, <1>4 DEF Index
<1>6. Find(key_index, call[t].value) = {i \in 1..Len(rows) : keys_[i] = call[t].value}
  BY <1>1, <1>3, <1>5, IndexFinds
<1>7. DOMAIN Table = 1..Len(rows)
  BY <1>1 DEF TableShape
<1>8. Answered
  BY <1>2, <1>3, <1>6, <1>7 DEF Answered
<1> QED BY <1>2, <1>8, Answers

LEMMA ReadCellAnswers ==
  ASSUME Inv, NEW i \in DOMAIN rows, NEW c \in DOMAIN col_names, ReadCell(i, c), [Next]_vars
  PROVE  FT!Next
<1>1. FrameTypes /\ ShapeKept /\ TableShape
  BY FrameStep
<1>2. UNCHANGED frameVars /\ answer' = <<"cell", i, c, Cell(i, column_indices[c])>>
  BY DEF ReadCell, Query
<1>3. i \in DOMAIN Table /\ Table[i][c] = Cell(i, column_indices[c])
  BY <1>1, FrameSizes DEF TableShape
<1>4. Answered
  BY <1>2, <1>3 DEF Answered
<1> QED BY <1>2, <1>4, Answers

LEMMA ReadColumnAnswers ==
  ASSUME Inv, ReadColumn, [Next]_vars
  PROVE  FT!Next
<1>1. FrameTypes /\ ShapeKept /\ TableShape /\ FromColumns
  BY FrameStep
<1>2. UNCHANGED frameVars
  BY DEF ReadColumn, Query
<1>3. CASE ~Valid(view)
  <2>1. Answered
    BY <1>3 DEF ReadColumn, Answered
  <2> QED BY <1>2, <2>1, Answers
<1>4. CASE Valid(view)
  <2> DEFINE c == view.col
             cells == [i \in DOMAIN rows |-> Cell(i, column_indices[c])]
  <2>1. answer' = <<"column", view.name, cells>>
    BY <1>4 DEF ReadColumn
  <2>2. c \in DOMAIN col_names /\ col_names[c] = view.name
    BY <1>1, <1>4 DEF FromColumns, ViewShowsItsColumn
  <2> HIDE DEF c
  <2>3. cells = [i \in DOMAIN Table |-> Table[i][c]]
    BY <1>1, <2>2, FrameSizes DEF TableShape
  <2>4. Answered
    BY <2>1, <2>2, <2>3 DEF Answered
  <2> QED BY <1>2, <2>4, Answers
<1> QED BY <1>3, <1>4

LEMMA ColumnNamedAnswers ==
  ASSUME Inv, NEW name \in Names, ColumnNamed(name), [Next]_vars
  PROVE  FT!Next
<1>1. FrameTypes /\ ShapeKept /\ TableShape
  BY FrameStep
<1>2. UNCHANGED frameVars
  BY DEF ColumnNamed, Query
<1>3. CASE answer' = <<"refused">>
  BY <1>2, <1>3, Answers DEF Answered
<1>4. ASSUME NEW c \in DOMAIN col_names, col_names[c] = name,
             LET cells == [i \in DOMAIN rows |-> Cell(i, column_indices[c])]
             IN  \/ answer' = <<"column", name, cells>>
                 \/ answer' = <<"groups", name,
                        [value \in Range(cells) |-> {i \in DOMAIN rows : cells[i] = value}]>>
      PROVE  Answered
  <2> DEFINE cells == [i \in DOMAIN rows |-> Cell(i, column_indices[c])]
  <2>1. cells = [i \in DOMAIN Table |-> Table[i][c]]
    BY <1>1, FrameSizes DEF TableShape
  <2>2. DOMAIN Table = DOMAIN rows
    BY <1>1, FrameSizes DEF TableShape
  <2>3. \A i \in DOMAIN Table : cells[i] = Table[i][c]
    BY <2>1
  <2>4. Range(cells) = {Table[i][c] : i \in DOMAIN Table}
    BY <2>1 DEF Range
  <2>5. \A value : {i \in DOMAIN rows : cells[i] = value} = {i \in DOMAIN Table : Table[i][c] = value}
    BY <2>2, <2>3
  <2>6. [value \in Range(cells) |-> {i \in DOMAIN rows : cells[i] = value}]
           = [value \in {Table[i][c] : i \in DOMAIN Table} |-> {i \in DOMAIN Table : Table[i][c] = value}]
    BY <2>4, <2>5
  <2>7. \/ answer' = <<"column", col_names[c], cells>>
        \/ answer' = <<"groups", col_names[c],
                        [value \in Range(cells) |-> {i \in DOMAIN rows : cells[i] = value}]>>
    BY <1>4
  <2> QED BY <2>1, <2>6, <2>7 DEF Answered
<1>5. answer' = <<"refused">> \/ Answered
  BY <1>4 DEF ColumnNamed
<1> QED BY <1>2, <1>3, <1>5, Answers

LEMMA ToJsonAnswers ==
  ASSUME Inv, NEW i \in DOMAIN rows, NEW subset \in SUBSET Names, ToJson(i, subset),
         [Next]_vars, undefined' = "no"
  PROVE  FT!Next
<1>1. FrameTypes /\ ShapeKept /\ TableShape /\ FromColumns'
  BY FrameStep
<1>2. UNCHANGED frameVars
  BY DEF ToJson
<1>3. json'.made
  BY DEF ToJson
<1>4. json'.names = col_names
  BY <1>1, <1>2, <1>3 DEF FromColumns, frameVars
<1>5. CASE ~(subset \subseteq Range(json'.names))
  <2>1. Answered
    BY <1>5 DEF ToJson, Answered
  <2> QED BY <1>2, <2>1, Answers
<1>6. CASE subset \subseteq Range(json'.names)
  <2> DEFINE members == Members(col_names, Len(col_names), subset)
             shown == {d \in DOMAIN col_names : subset = {} \/ col_names[d] \in subset}
  <2>1. answer' = <<"json", i, subset,
                    {<<json'.names[c], Row(i)[c]>> :
                        c \in Members(json'.names, Len(col_names), subset)}>>
    BY <1>6 DEF ToJson
  <2>2. i \in DOMAIN Table /\ Table[i] = Row(i) /\ DOMAIN col_names = 1..Len(col_names)
    BY <1>1, FrameSizes DEF TableShape
  <2>3. members = shown
    BY <2>2 DEF Members
  <2>4. subset \in SUBSET {col_names[c] : c \in DOMAIN col_names}
    BY <1>4, <1>6 DEF Range
  <2>5. answer' = <<"json", i, subset, {<<col_names[c], Table[i][c]>> : c \in shown}>>
    BY <1>4, <2>1, <2>2, <2>3
  <2>6. Answered
    BY <2>2, <2>4, <2>5 DEF Answered
  <2> QED BY <1>2, <2>6, Answers
<1> QED BY <1>5, <1>6

LEMMA SelectedRowsAnswers ==
  ASSUME Inv, NEW mask \in SUBSET DOMAIN rows, SelectedRows(mask), [Next]_vars
  PROVE  FT!Next
<1>1. FrameTypes /\ ShapeKept /\ TableShape
  BY FrameStep
<1>2. /\ UNCHANGED frameVars
      /\ answer' = <<"selected", mask,
             [i \in mask |-> [c \in DOMAIN column_indices |-> rows[i][column_indices[c]]]]>>
  BY DEF SelectedRows, Query
<1>3. DOMAIN Table = DOMAIN rows
  BY <1>1, FrameSizes DEF TableShape
<1>4. \A i \in mask : Parsed[i] = [c \in DOMAIN column_indices |-> rows[i][column_indices[c]]]
  BY DEF Parsed
<1>5. answer' = <<"selected", mask, [i \in mask |-> Parsed[i]]>>
  BY <1>2, <1>4
<1>6. Answered
  BY <1>3, <1>5 DEF Answered
<1> QED BY <1>2, <1>6, Answers

(* A callback's read is of the cell as it is when it looks, or, if there is *)
(* an overlay, when it has that overlay's lock.                             *)
LEMMA ReadLooksAnswers ==
  ASSUME Inv, NEW t \in Threads, ReadLooks(t), [Next]_vars
  PROVE  FT!Next \/ UNCHANGED FT!tableVars
<1>1. FrameTypes /\ ShapeKept /\ TableShape /\ Callbacks
  BY FrameStep
<1>2. call[t].at = "read" /\ UNCHANGED frameVars
  BY DEF ReadLooks, Others, frameVars
<1> DEFINE i == call[t].i
           c == call[t].c
<1>3. i \in 1..Len(rows) /\ c \in 1..Len(col_names) /\ call[t].p = column_indices[c]
  BY <1>1, <1>2, CallFacts DEF Reading, Callbacks
<1>4. CASE edits[i].made
  <2>1. UNCHANGED answer
    BY <1>4 DEF ReadLooks
  <2> QED BY <1>2, <2>1, Silence
<1>5. CASE ~edits[i].made
  <2>1. answer' = <<"cell", i, c, rows[i][column_indices[c]]>>
    BY <1>3, <1>5 DEF ReadLooks
  <2> HIDE DEF i, c
  <2>2. edits[i].values = <<>>
    BY <1>1, <1>3, <1>5, FrameSizes DEF ShapeKept
  <2>3. Cell(i, column_indices[c]) = rows[i][column_indices[c]]
    BY <2>2 DEF Cell
  <2>4. i \in DOMAIN Table /\ c \in DOMAIN col_names /\ Table[i][c] = rows[i][column_indices[c]]
    BY <1>1, <1>3, <2>3, FrameSizes DEF TableShape
  <2>5. Answered
    BY <2>1, <2>4 DEF Answered
  <2> QED BY <1>2, <2>5, Answers
<1> QED BY <1>4, <1>5

LEMMA ReadGetsAnswers ==
  ASSUME Inv, NEW t \in Threads, ReadGets(t), [Next]_vars
  PROVE  FT!Next
<1>1. FrameTypes /\ ShapeKept /\ TableShape /\ Callbacks
  BY FrameStep
<1>2. /\ call[t].at = "get" /\ UNCHANGED frameVars
      /\ answer' = <<"cell", call[t].i, call[t].c, Cell(call[t].i, call[t].p)>>
  BY DEF ReadGets, Return, Others, frameVars
<1> DEFINE i == call[t].i
           c == call[t].c
<1>3. i \in 1..Len(rows) /\ c \in 1..Len(col_names) /\ call[t].p = column_indices[c]
  BY <1>1, <1>2, CallFacts DEF Reading, Callbacks
<1>4. answer' = <<"cell", i, c, Cell(i, column_indices[c])>>
  BY <1>2, <1>3
<1> HIDE DEF i, c
<1>5. i \in DOMAIN Table /\ c \in DOMAIN col_names /\ Table[i][c] = Cell(i, column_indices[c])
  BY <1>1, <1>3, FrameSizes DEF TableShape
<1>6. Answered
  BY <1>4, <1>5 DEF Answered
<1> QED BY <1>2, <1>6, Answers

-----------------------------------------------------------------------------
(* Cells change. *)

LEMMA EditShows ==
  ASSUME FrameTypes, ShapeKept, TableShape, TableShape',
         NEW i \in 1..Len(rows), NEW c \in 1..Len(col_names), NEW value \in Values,
         edits'[i].values = Put(edits[i].values, column_indices[c], value),
         \A j \in 1..Len(rows) : j # i => edits'[j] = edits[j],
         UNCHANGED <<col_names, width, column_indices, rows, is_keyed, keys_, key_column>>,
         answer' = <<"edited", i, c, value>>
  PROVE  FT!Next
<1>1. /\ Len(rows) \in Nat /\ DOMAIN rows = 1..Len(rows) /\ Len(col_names) \in Nat
      /\ DOMAIN column_indices = 1..Len(col_names)
      /\ DOMAIN col_names = 1..Len(col_names)
      /\ edits[i] \in Slot
  BY FrameSizes
<1> DEFINE edited == [Table EXCEPT ![i][c] = value]
<1>2. /\ Table \in Seq(Seq(Values)) /\ Len(Table) = Len(rows) /\ DOMAIN Table = 1..Len(rows)
      /\ Table' \in Seq(Seq(Values)) /\ Len(Table') = Len(rows)
      /\ \A j \in 1..Len(rows) :
            /\ Table[j] \in Seq(Values) /\ Len(Table[j]) = Len(col_names)
            /\ Len(Table'[j]) = Len(col_names)
            /\ \A d \in 1..Len(col_names) :
                  /\ Table[j][d] = Cell(j, column_indices[d])
                  /\ Table'[j][d] = Cell(j, column_indices[d])'
  <2>1. ASSUME NEW j \in 1..Len(rows)
        PROVE  /\ Table[j] \in Seq(Values) /\ Len(Table[j]) = Len(col_names)
               /\ Len(Table'[j]) = Len(col_names)
    BY DEF TableShape
  <2>2. ASSUME NEW j \in 1..Len(rows), NEW d \in 1..Len(col_names)
        PROVE  Table[j][d] = Cell(j, column_indices[d]) /\ Table'[j][d] = Cell(j, column_indices[d])'
    BY DEF TableShape
  <2>3. /\ Table \in Seq(Seq(Values)) /\ Len(Table) = Len(rows) /\ DOMAIN Table = 1..Len(rows)
        /\ Table' \in Seq(Seq(Values)) /\ Len(Table') = Len(rows)
    BY DEF TableShape
  <2> QED BY <2>1, <2>2, <2>3
<1>3. /\ edited \in Seq(Seq(Values)) /\ Len(edited) = Len(rows)
      /\ \A j \in 1..Len(rows) : Len(edited[j]) = Len(col_names)
      /\ \A j \in 1..Len(rows) : \A d \in 1..Len(col_names) :
            edited[j][d] = IF j = i /\ d = c THEN value ELSE Table[j][d]
  <2> DEFINE row == [Table[i] EXCEPT ![c] = value]
  <2>1. /\ row \in Seq(Values) /\ Len(row) = Len(col_names)
        /\ \A d \in 1..Len(col_names) : row[d] = IF d = c THEN value ELSE Table[i][d]
    BY <1>2, ExceptSeq
  <2>2. edited = [Table EXCEPT ![i] = row]
    BY <1>2
  <2> HIDE DEF row
  <2>3. edited \in Seq(Seq(Values)) /\ Len(edited) = Len(rows)
    BY <1>2, <2>1, <2>2, ExceptSeq
  <2>4. \A j \in 1..Len(rows) : edited[j] = IF j = i THEN row ELSE Table[j]
    BY <1>2, <2>2
  <2> HIDE DEF edited
  <2> QED BY <1>2, <2>1, <2>3, <2>4
<1> HIDE DEF edited
<1>4. ASSUME NEW j \in 1..Len(rows), NEW d \in 1..Len(col_names)
      PROVE  Table'[j][d] = edited[j][d]
  <2>1. Table'[j][d] = Cell(j, column_indices[d])' /\ Table[j][d] = Cell(j, column_indices[d])
    BY <1>2
  <2>2. CASE j # i
    <3>1. Cell(j, column_indices[d])' = Cell(j, column_indices[d])
      BY <2>2 DEF Cell
    <3> QED BY <1>3, <2>1, <2>2, <3>1
  <2>3. CASE j = i /\ d = c
    <3>1. Cell(j, column_indices[d])' = value
      BY <2>3 DEF Cell, Put
    <3> QED BY <1>3, <2>1, <2>3, <3>1
  <2>4. CASE j = i /\ d # c
    <3>1. column_indices[d] # column_indices[c]
      BY <1>1, <2>4 DEF ShapeKept, IsInjective
    <3>2. Cell(j, column_indices[d])' = Cell(j, column_indices[d])
      BY <2>4, <3>1 DEF Cell, Put
    <3> QED BY <1>3, <2>1, <2>4, <3>2
  <2> QED BY <2>2, <2>3, <2>4
<1>5. Table' = edited
  <2> DEFINE new == Table'
  <2>0. /\ new \in Seq(Seq(Values)) /\ Len(new) = Len(rows)
        /\ edited \in Seq(Seq(Values)) /\ Len(edited) = Len(rows)
    BY <1>2, <1>3
  <2>2. \A j \in 1..Len(rows) :
           /\ Len(new[j]) = Len(col_names) /\ Len(edited[j]) = Len(col_names)
           /\ \A d \in 1..Len(col_names) : new[j][d] = edited[j][d]
    BY <1>2, <1>3, <1>4
  <2> HIDE DEF new
  <2>3. SameCells(new, edited)
    BY <2>0, <2>2 DEF SameCells
  <2>1. SameCells(Table', edited)
    BY <2>3 DEF new
  <2> QED BY <2>1, TableEqual
<1>6. Parsed' = Parsed
  BY DEF Parsed
<1>7. VisibleKeyColumn' = VisibleKeyColumn
  BY DEF VisibleKeyColumn
<1>8. FT!EditCell(i, c, value)
  BY <1>5, <1>6, <1>7 DEF FT!EditCell, edited, Parsed
<1>9. i \in DOMAIN Table /\ c \in DOMAIN col_names
  BY <1>1, <1>2
<1> QED BY <1>8, <1>9 DEF FT!Next

LEMMA EditCellShows ==
  ASSUME Inv, NEW i \in DOMAIN rows, NEW c \in DOMAIN col_names, NEW value \in Values,
         EditCell(i, c, value), [Next]_vars
  PROVE  FT!Next
<1>1. FrameTypes /\ ShapeKept /\ TableShape /\ TableShape'
  BY FrameStep
<1>2. /\ UNCHANGED <<col_names, width, column_indices, rows, is_keyed, keys_, key_column>>
      /\ edits' = [edits EXCEPT ![i] = Overlay(TRUE, Put(@.values, column_indices[c], value))]
      /\ answer' = <<"edited", i, c, value>>
  BY DEF EditCell
<1>3. i \in 1..Len(rows) /\ c \in 1..Len(col_names) /\ DOMAIN edits = 1..Len(rows)
  BY <1>1, FrameSizes
<1>4. edits'[i].values = Put(edits[i].values, column_indices[c], value)
  BY <1>2, <1>3 DEF Overlay
<1>5. \A j \in 1..Len(rows) : j # i => edits'[j] = edits[j]
  BY <1>2, <1>3
<1> QED BY <1>1, <1>2, <1>3, <1>4, <1>5, EditShows

LEMMA EditSetsShows ==
  ASSUME Inv, NEW t \in Threads, EditSets(t), [Next]_vars
  PROVE  FT!Next
<1>1. FrameTypes /\ ShapeKept /\ TableShape /\ TableShape' /\ Callbacks
  BY FrameStep
<1> DEFINE i == call[t].i
           c == call[t].c
           value == call[t].value
<1>2. /\ UNCHANGED <<col_names, width, column_indices, rows, is_keyed, keys_, key_column>>
      /\ edits' = [edits EXCEPT ![i].values = Put(@, call[t].p, value)]
      /\ answer' = <<"edited", i, c, value>> /\ call[t].at = "set"
  BY DEF EditSets, Return, Others
<1>3. /\ i \in 1..Len(rows) /\ c \in 1..Len(col_names) /\ value \in Values
      /\ call[t].p = column_indices[c]
  BY <1>1, <1>2, CallFacts DEF Editing, Callbacks
<1> HIDE DEF i, c, value
<1>4. DOMAIN edits = 1..Len(rows) /\ edits[i] \in Slot
  BY <1>1, <1>3, FrameSizes
<1>5. edits' = [edits EXCEPT ![i] = [edits[i] EXCEPT !.values = Put(edits[i].values, column_indices[c], value)]]
  BY <1>2, <1>3
<1>6. edits'[i].values = Put(edits[i].values, column_indices[c], value)
  BY <1>3, <1>4, <1>5 DEF Slot
<1>7. \A j \in 1..Len(rows) : j # i => edits'[j] = edits[j]
  BY <1>4, <1>5
<1> QED BY <1>1, <1>2, <1>3, <1>6, <1>7, EditShows

LEMMA EditEnsuresSilent ==
  ASSUME Inv, NEW t \in Threads, EditEnsures(t), [Next]_vars
  PROVE  UNCHANGED FT!tableVars
<1>1. FrameTypes /\ ShapeKept /\ TableShape /\ TableShape' /\ Callbacks
  BY FrameStep
<1> DEFINE i == call[t].i
<1>2. /\ UNCHANGED <<col_names, width, column_indices, rows, is_keyed, keys_, key_column>>
      /\ edits' = [edits EXCEPT ![i] = Ensure(@)] /\ UNCHANGED answer
  BY DEF EditEnsures, Others
<1>3. DOMAIN edits = 1..Len(rows)
  BY <1>1, FrameSizes
<1> HIDE DEF i
<1>4. ASSUME NEW j \in 1..Len(rows) PROVE edits'[j].values = edits[j].values
  <2>1. CASE j # i
    BY <1>2, <1>3, <2>1
  <2>2. CASE j = i
    <3>1. edits'[j] = Ensure(edits[j])
      BY <1>2, <1>3, <2>2
    <3>2. edits[j].made \/ edits[j].values = <<>>
      BY <1>1, <1>3 DEF ShapeKept
    <3>3. CASE edits[j].made
      BY <3>1, <3>3 DEF Ensure
    <3>4. CASE ~edits[j].made
      BY <3>1, <3>2, <3>4 DEF Ensure, Overlay
    <3> QED BY <3>3, <3>4
  <2> QED BY <2>1, <2>2
<1>6. /\ Table \in Seq(Seq(Values)) /\ Table' \in Seq(Seq(Values))
      /\ Len(Table) = Len(rows) /\ Len(Table') = Len(rows)
      /\ \A j \in 1..Len(rows) :
            /\ Len(Table[j]) = Len(col_names) /\ Len(Table'[j]) = Len(col_names)
            /\ \A d \in 1..Len(col_names) :
                  /\ Table[j][d] = Cell(j, column_indices[d])
                  /\ Table'[j][d] = Cell(j, column_indices[d])'
  BY <1>1, <1>2 DEF TableShape
<1>7. ASSUME NEW j \in 1..Len(rows), NEW d \in 1..Len(col_names) PROVE Table'[j][d] = Table[j][d]
  <2>1. Cell(j, column_indices[d])' = Cell(j, column_indices[d])
    BY <1>2, <1>4 DEF Cell
  <2> QED BY <1>6, <2>1
<1>8. Table' = Table
  <2>1. SameCells(Table', Table)
    BY <1>6, <1>7 DEF SameCells
  <2> QED BY <2>1, TableEqual
<1>9. Parsed' = Parsed
  BY <1>2 DEF Parsed
<1>10. VisibleKeyColumn' = VisibleKeyColumn
  BY <1>2 DEF VisibleKeyColumn
<1> QED BY <1>2, <1>8, <1>9, <1>10 DEF FT!tableVars, Parsed

-----------------------------------------------------------------------------
(* Rows and columns come and go. *)

LEMMA SameOperators ==
  /\ \A s, i, x : FT!InsertAt(s, i, x) = InsertAt(s, i, x)
  /\ \A s, i : FT!RemoveAt(s, i) = RemoveAt(s, i)
  /\ \A f : FT!IsInjective(f) <=> IsInjective(f)
  /\ \A row : FT!ReadBack(row) = ReadBack(row)
<1>1. \A s, i, x : FT!InsertAt(s, i, x) = InsertAt(s, i, x)
  BY DEF FT!InsertAt, InsertAt
<1>2. \A s, i : FT!RemoveAt(s, i) = RemoveAt(s, i)
  BY DEF FT!RemoveAt, RemoveAt
<1>3. \A f : FT!IsInjective(f) <=> IsInjective(f)
  BY DEF FT!IsInjective, IsInjective
<1>4. \A row : FT!ReadBack(row) = ReadBack(row)
  BY DEF FT!ReadBack, ReadBack
<1> QED BY <1>1, <1>2, <1>3, <1>4

LEMMA SameFlatten == \A s : FT!FlattenSeq(s) = FlattenSeq(s)
BY Zenon DEF FT!FlattenSeq, FlattenSeq

(* What an inserted row shows of itself. *)
LEMMA ExpandedShows ==
  ASSUME FrameTypes, Parallel, ShapeKept, NEW row \in [DOMAIN col_names -> Values],
         NEW c \in 1..Len(col_names)
  PROVE  ExpandVisibleRow(row)[column_indices[c]] = row[c]
<1>1. /\ DOMAIN col_names = 1..Len(col_names) /\ DOMAIN column_indices = 1..Len(col_names)
      /\ Len(col_names) \in Nat /\ column_indices[c] \in 1..width /\ DOMAIN row = 1..Len(col_names)
  BY FrameSizes
<1>2. CASE width = Len(col_names)
  <2>1. column_indices[c] = c
    BY <1>2 DEF Parallel
  <2> QED BY <1>2, <2>1 DEF ExpandVisibleRow
<1>3. CASE width # Len(col_names)
  <2> DEFINE p == column_indices[c]
             d == CHOOSE e \in DOMAIN row : column_indices[e] = p
  <2>1. column_indices # <<>>
    BY <1>1
  <2>2. ExpandVisibleRow(row)[p] = row[d]
    BY <1>1, <1>3, <2>1 DEF ExpandVisibleRow
  <2>3. d \in DOMAIN row /\ column_indices[d] = p
    BY <1>1
  <2>4. d = c
    BY <1>1, <2>3 DEF ShapeKept, IsInjective
  <2> QED BY <2>2, <2>4
<1> QED BY <1>2, <1>3

(* A row that moves with its overlay shows the same. *)
LEMMA RowMoves ==
  ASSUME FrameTypes, ShapeKept, TableShape, FrameTypes', ShapeKept', TableShape',
         NEW j \in 1..Len(rows'), NEW k \in 1..Len(rows),
         rows'[j] = rows[k], edits'[j].values = edits[k].values,
         UNCHANGED <<col_names, column_indices>>
  PROVE  Table'[j] = Table[k] /\ Parsed'[j] = Parsed[k]
<1>1. Table'[j] = Row(j)' /\ Table[k] = Row(k)
  BY DEF TableShape
<1>2. Row(j)' = Row(k)
  BY DEF Row, Cell
<1>3. DOMAIN rows = 1..Len(rows) /\ DOMAIN rows' = 1..Len(rows')
  BY LenProperties DEF FrameTypes
<1>4. Parsed'[j] = Parsed[k]
  BY <1>3 DEF Parsed
<1> QED BY <1>1, <1>2, <1>4

LEMMA InsertRowShows ==
  ASSUME Inv, NEW i \in 1..(Len(rows) + 1), NEW row \in [DOMAIN col_names -> Values],
         InsertRow(i, row), [Next]_vars
  PROVE  FT!Next
<1> DEFINE inserted == ExpandVisibleRow(row)
           index == EnsureKeyIndex
           refused == is_keyed /\ (key_column = 0 \/ Find(index, inserted[key_column]) # {})
           S == Seq(Values)
<1>1. /\ FrameTypes /\ Parallel /\ ShapeKept /\ Callbacks /\ Index
      /\ TableShape /\ FrameTypes' /\ ShapeKept' /\ TableShape' /\ KeyColumnShape
  BY FrameStep
<1>2. CASE refused
  <2>1. UNCHANGED frameVars /\ answer' = <<"refused">>
    BY <1>2 DEF InsertRow
  <2> QED BY <2>1, Answers DEF Answered
<1>3. CASE ~refused
  <2>1. /\ rows' = InsertAt(rows, i, inserted)
        /\ edits' = InsertAt(edits, i, NoOverlay)
        /\ keys_' = IF is_keyed THEN InsertAt(keys_, i, inserted[key_column]) ELSE keys_
        /\ answer' = <<>>
        /\ UNCHANGED <<col_names, width, column_indices, is_keyed, key_column>>
    BY <1>3 DEF InsertRow
  <2>2. is_keyed => key_column # 0 /\ Find(index, inserted[key_column]) = {}
    BY <1>3
  <2>3. /\ \A c \in 1..Len(col_names) : inserted[column_indices[c]] = row[c]
        /\ inserted \in S
    BY <1>1, ExpandedShows, ExpandedRow
  <2> HIDE DEF inserted, index, refused
  <2>4. /\ rows \in Seq(S) /\ edits \in Seq(Slot)
        /\ Len(rows) \in Nat /\ Len(edits) = Len(rows) /\ Len(col_names) \in Nat
        /\ DOMAIN col_names = 1..Len(col_names) /\ DOMAIN column_indices = 1..Len(col_names)
        /\ i \in 1..(Len(rows) + 1)
    BY <1>1, FrameSizes DEF FrameTypes
  <2>5. row \in S /\ Len(row) = Len(col_names)
    <3>1. row = [c \in 1..Len(col_names) |-> row[c]] /\ \A c \in 1..Len(col_names) : row[c] \in Values
      BY <2>4
    <3>2. [c \in 1..Len(col_names) |-> row[c]] \in Seq(Values)
          /\ Len([c \in 1..Len(col_names) |-> row[c]]) = Len(col_names)
      BY <2>4, <3>1, IsASeq
    <3> QED BY <3>1, <3>2
  <2> HIDE DEF S
  <2>6. IsInserted(rows', rows, i, inserted)
    <3>1. inserted \in S /\ rows \in Seq(S) /\ i \in 1..(Len(rows) + 1)
      BY <2>3, <2>4
    <3>2. IsInserted(InsertAt(rows, i, inserted), rows, i, inserted)
      BY <3>1, Inserted
    <3> QED BY <2>1, <3>2
  <2>7. IsInserted(edits', edits, i, NoOverlay)
    <3>1. NoOverlay \in Slot /\ edits \in Seq(Slot) /\ i \in 1..(Len(edits) + 1)
      BY <2>4, EmptyOverlay
    <3>2. IsInserted(InsertAt(edits, i, NoOverlay), edits, i, NoOverlay)
      BY <3>1, Inserted
    <3> QED BY <2>1, <3>2
  <2>8. /\ Table \in Seq(S) /\ Len(Table) = Len(rows)
        /\ Parsed \in Seq(S) /\ Len(Parsed) = Len(rows)
        /\ Table' \in Seq(S) /\ Len(Table') = Len(rows')
        /\ Parsed' \in Seq(S) /\ Len(Parsed') = Len(rows')
        /\ DOMAIN Table = 1..Len(rows)
    BY <1>1 DEF TableShape, S
  <2>9. Len(rows') = Len(rows) + 1
    BY <2>6 DEF IsInserted
  <2>10. ASSUME NEW j \in 1..(Len(rows) + 1)
         PROVE  /\ j < i => Table'[j] = Table[j] /\ Parsed'[j] = Parsed[j]
                /\ j > i => Table'[j] = Table[j - 1] /\ Parsed'[j] = Parsed[j - 1]
    <3>1. CASE j < i
      <4>1. j \in 1..Len(rows) /\ j \in 1..Len(rows') /\ j \in 1..(Len(edits) + 1)
        BY <2>4, <2>9, <3>1
      <4>2. rows'[j] = rows[j] /\ edits'[j] = edits[j]
        BY <2>6, <2>7, <3>1, <4>1 DEF IsInserted
      <4>3. Table'[j] = Table[j] /\ Parsed'[j] = Parsed[j]
        BY <1>1, <2>1, <4>1, <4>2, RowMoves
      <4>4. ~(j > i)
        BY <2>4, <3>1
      <4> QED BY <4>3, <4>4
    <3>2. CASE j > i
      <4>1. j - 1 \in 1..Len(rows) /\ j \in 1..Len(rows') /\ j \in 1..(Len(edits) + 1)
        BY <2>4, <2>9, <3>2
      <4>2. rows'[j] = rows[j - 1] /\ edits'[j] = edits[j - 1]
        BY <2>6, <2>7, <3>2, <4>1 DEF IsInserted
      <4>3. Table'[j] = Table[j - 1] /\ Parsed'[j] = Parsed[j - 1]
        BY <1>1, <2>1, <4>1, <4>2, RowMoves
      <4>4. ~(j < i)
        BY <2>4, <3>2
      <4> QED BY <4>3, <4>4
    <3> QED BY <3>1, <3>2
  <2>11. Table'[i] = row /\ Parsed'[i] = row
    <3>1. i \in 1..Len(rows') /\ rows'[i] = inserted /\ edits'[i] = NoOverlay
      BY <2>4, <2>6, <2>7, <2>9 DEF IsInserted
    <3>2. \A p : Cell(i, p)' = inserted[p]
      BY <3>1, EmptyOverlay DEF Cell
    <3> DEFINE t == Table'[i]
               u == Parsed'[i]
    <3>3. /\ t \in Seq(Values) /\ Len(t) = Len(col_names)
          /\ u \in Seq(Values) /\ Len(u) = Len(col_names)
      BY <1>1, <2>1, <3>1 DEF TableShape
    <3>4. \A c \in 1..Len(col_names) : t[c] = Cell(i, column_indices[c])' /\ u[c] = rows'[i][column_indices[c]]
      BY <1>1, <2>1, <3>1 DEF TableShape
    <3>5. \A c \in 1..Len(col_names) : Cell(i, column_indices[c])' = inserted[column_indices[c]]
      BY <2>1, <3>1, EmptyOverlay DEF Cell
    <3>6. \A c \in 1..Len(col_names) : t[c] = row[c] /\ u[c] = row[c]
      BY <2>3, <3>1, <3>4, <3>5
    <3> HIDE DEF t, u
    <3>7. row \in Seq(Values)
      BY <2>5 DEF S
    <3>8. t = row /\ u = row
      BY <2>5, <3>3, <3>6, <3>7, SeqEqual
    <3> QED BY <3>8 DEF t, u
  <2>12. IsInserted(Table', Table, i, row) /\ IsInserted(Parsed', Parsed, i, row)
    BY <2>8, <2>9, <2>10, <2>11 DEF IsInserted
  <2>13. Table' = InsertAt(Table, i, row)
    <3>1. i \in 1..(Len(Table) + 1) /\ row \in S
      BY <2>4, <2>5, <2>8
    <3> QED BY <2>8, <2>12, <3>1, InsertedOnly
  <2>14. Parsed' = InsertAt(Parsed, i, row)
    <3>1. i \in 1..(Len(Parsed) + 1) /\ row \in S
      BY <2>4, <2>5, <2>8
    <3> QED BY <2>8, <2>12, <3>1, InsertedOnly
  <2>15. VisibleKeyColumn' = VisibleKeyColumn
    BY <2>1 DEF VisibleKeyColumn
  <2>16. ASSUME is_keyed
         PROVE  /\ VisibleKeyColumn # 0 /\ inserted[key_column] = row[VisibleKeyColumn]
                /\ \A j \in 1..Len(rows) : keys_[j] # row[VisibleKeyColumn]
    <3>1. /\ VisibleKeyColumn \in 1..Len(col_names)
          /\ column_indices[VisibleKeyColumn] = key_column
      BY <1>1, <2>2, <2>16 DEF KeyColumnShape
    <3>2. inserted[key_column] = row[VisibleKeyColumn]
      BY <2>3, <3>1
    <3>3. Owner
      BY DEF InsertRow, Change
    <3>4. \A j \in 1..Len(rows) : keys_[j] # inserted[key_column]
      BY <1>1, <2>2, <2>16, <3>3, UnknownKey DEF index
    <3>5. VisibleKeyColumn # 0
      BY <2>4, <3>1
    <3> QED BY <3>2, <3>4, <3>5
  <2>17. FT!InsertRow(i, row)
    <3>1. is_keyed => VisibleKeyColumn # 0 /\ FT!Positions(row[VisibleKeyColumn]) = {}
      BY <2>8, <2>16 DEF FT!Positions
    <3>2. Table' = FT!InsertAt(Table, i, row) /\ Parsed' = FT!InsertAt(Parsed, i, row)
      BY <2>13, <2>14, SameOperators
    <3>3. keys_' = IF is_keyed THEN FT!InsertAt(keys_, i, row[VisibleKeyColumn]) ELSE keys_
      BY <2>1, <2>16, SameOperators
    <3> QED BY <2>1, <2>5, <2>15, <3>1, <3>2, <3>3 DEF FT!InsertRow, Parsed
  <2>18. i \in 1..(Len(Table) + 1)
    BY <2>4, <2>8
  <2>19. FT!Restructure
    BY <2>1, <2>17, <2>18 DEF FT!Restructure
  <2> QED BY <2>19 DEF FT!Next
<1> QED BY <1>2, <1>3

LEMMA EraseAtIndexShows ==
  ASSUME Inv, NEW i \in DOMAIN rows, EraseAtIndex(i), [Next]_vars
  PROVE  FT!Next
<1> DEFINE S == Seq(Values)
<1>1. /\ FrameTypes /\ Parallel /\ ShapeKept
      /\ TableShape /\ FrameTypes' /\ ShapeKept' /\ TableShape'
  BY FrameStep
<1>2. /\ rows' = RemoveAt(rows, i) /\ edits' = RemoveAt(edits, i)
      /\ keys_' = IF is_keyed THEN RemoveAt(keys_, i) ELSE keys_
      /\ answer' = <<>>
      /\ UNCHANGED <<col_names, width, column_indices, is_keyed, key_column>>
  BY DEF EraseAtIndex
<1>3. /\ rows \in Seq(S) /\ edits \in Seq(Slot)
      /\ Len(rows) \in Nat /\ Len(edits) = Len(rows) /\ i \in 1..Len(rows)
  BY <1>1, FrameSizes DEF FrameTypes
<1> HIDE DEF S
<1>4. IsRemoved(rows', rows, i)
  BY <1>2, <1>3, Removed
<1>5. IsRemoved(edits', edits, i)
  BY <1>2, <1>3, Removed
<1>6. /\ Table \in Seq(S) /\ Len(Table) = Len(rows)
      /\ Parsed \in Seq(S) /\ Len(Parsed) = Len(rows)
      /\ Table' \in Seq(S) /\ Len(Table') = Len(rows')
      /\ Parsed' \in Seq(S) /\ Len(Parsed') = Len(rows')
      /\ DOMAIN Table = 1..Len(rows)
  BY <1>1 DEF TableShape, S
<1>7. Len(rows') = Len(rows) - 1
  BY <1>4 DEF IsRemoved
<1>8. ASSUME NEW j \in 1..(Len(rows) - 1)
      PROVE  /\ j < i => Table'[j] = Table[j] /\ Parsed'[j] = Parsed[j]
             /\ j >= i => Table'[j] = Table[j + 1] /\ Parsed'[j] = Parsed[j + 1]
  <2>1. j \in 1..Len(rows) /\ j + 1 \in 1..Len(rows) /\ j \in 1..Len(rows') /\ j \in 1..(Len(edits) - 1)
    BY <1>3, <1>7
  <2>2. j < i => rows'[j] = rows[j] /\ edits'[j] = edits[j]
    BY <1>4, <1>5, <2>1 DEF IsRemoved
  <2>3. j >= i => rows'[j] = rows[j + 1] /\ edits'[j] = edits[j + 1]
    BY <1>4, <1>5, <2>1 DEF IsRemoved
  <2>4. j < i => Table'[j] = Table[j] /\ Parsed'[j] = Parsed[j]
    BY <1>1, <1>2, <2>1, <2>2, RowMoves
  <2>5. j >= i => Table'[j] = Table[j + 1] /\ Parsed'[j] = Parsed[j + 1]
    BY <1>1, <1>2, <2>1, <2>3, RowMoves
  <2> QED BY <2>4, <2>5
<1>9. IsRemoved(Table', Table, i) /\ IsRemoved(Parsed', Parsed, i)
  BY <1>6, <1>7, <1>8 DEF IsRemoved
<1>10. Table' = RemoveAt(Table, i) /\ Parsed' = RemoveAt(Parsed, i)
  <2>1. i \in 1..Len(Table) /\ i \in 1..Len(Parsed)
    BY <1>3, <1>6
  <2> QED BY <1>6, <1>9, <2>1, RemovedOnly
<1>11. VisibleKeyColumn' = VisibleKeyColumn
  BY <1>2 DEF VisibleKeyColumn
<1>12. FT!EraseRow(i)
  <2>1. Table' = FT!RemoveAt(Table, i) /\ Parsed' = FT!RemoveAt(Parsed, i)
    BY <1>10, SameOperators
  <2>2. keys_' = IF is_keyed THEN FT!RemoveAt(keys_, i) ELSE keys_
    BY <1>2, SameOperators
  <2> QED BY <1>2, <1>11, <2>1, <2>2 DEF FT!EraseRow, Parsed
<1>13. i \in DOMAIN Table
  BY <1>3, <1>6
<1>14. FT!Restructure
  BY <1>2, <1>12, <1>13 DEF FT!Restructure
<1> QED BY <1>14 DEF FT!Next

(* With a key column a rebuilt row has two fields at least: none is blank. *)
LEMMA RebuiltKeyed ==
  ASSUME FrameTypes, ShapeKept, NEW at \in 1..(Len(col_names) + 1), NEW value \in Values,
         Len(col_names) >= 1
  PROVE  /\ FlattenSeq([i \in DOMAIN rows |-> ReadBack(InsertAt(Row(i), at, value))])
               = [i \in 1..Len(rows) |-> InsertAt(Row(i), at, value)]
         /\ \A i \in 1..Len(rows) : IsInserted(InsertAt(Row(i), at, value), Row(i), at, value)
<1> DEFINE S == Seq(Values)
           new(i) == InsertAt(Row(i), at, value)
           s == [i \in 1..Len(rows) |-> new(i)]
<1>1. Len(rows) \in Nat /\ DOMAIN rows = 1..Len(rows) /\ Len(col_names) \in Nat
  BY FrameSizes
<1>2. ASSUME NEW i \in 1..Len(rows)
      PROVE  new(i) \in S /\ new(i) # <<"">> /\ IsInserted(new(i), Row(i), at, value)
  <2>1. Row(i) \in Seq(Values) /\ Len(Row(i)) = Len(col_names)
    BY RowFacts
  <2>2. at \in 1..(Len(Row(i)) + 1)
    BY <2>1
  <2>3. new(i) \in S /\ IsInserted(new(i), Row(i), at, value)
    BY <2>1, <2>2, Inserted
  <2>4. Len(new(i)) = Len(col_names) + 1
    BY <2>1, <2>3 DEF IsInserted
  <2>5. Len(<<"">>) = 1
    OBVIOUS
  <2>6. ASSUME new(i) = <<"">> PROVE FALSE
    <3>1. Len(new(i)) = 1
      BY <2>5, <2>6
    <3> DEFINE n == Len(new(i))
               m == Len(col_names)
    <3>2. n = 1 /\ n = m + 1 /\ m \in Nat /\ m >= 1
      BY <1>1, <2>4, <3>1
    <3> HIDE DEF n, m
    <3> QED BY <3>2
  <2> QED BY <2>3, <2>6
<1>3. \A i \in 1..Len(rows) : ReadBack(InsertAt(Row(i), at, value)) = <<new(i)>>
  BY <1>2 DEF ReadBack
<1> HIDE DEF new, S
<1>4. s \in Seq(S) /\ Len(s) = Len(rows) /\ \A i \in 1..Len(rows) : s[i] = new(i)
  <2>1. \A i \in 1..Len(rows) : new(i) \in S
    BY <1>2
  <2> QED BY <1>1, <2>1, IsASeq
<1>5. [i \in DOMAIN rows |-> ReadBack(InsertAt(Row(i), at, value))] = [i \in 1..Len(s) |-> <<s[i]>>]
  BY <1>1, <1>3, <1>4
<1> HIDE DEF s
<1>6. FlattenSeq([i \in 1..Len(s) |-> <<s[i]>>]) = s
  BY <1>4, FlattenSingles
<1>7. FlattenSeq([i \in DOMAIN rows |-> ReadBack(InsertAt(Row(i), at, value))]) = s
  BY <1>5, <1>6
<1> QED BY <1>2, <1>7 DEF s, new

LEMMA InsertColumnShows ==
  ASSUME Inv, NEW at \in 1..(Len(col_names) + 1), NEW name \in Names, NEW value \in Values,
         InsertColumn(at, name, value), [Next]_vars
  PROVE  FT!Next
<1> DEFINE rebuilt == FlattenSeq([i \in DOMAIN rows |-> ReadBack(InsertAt(Row(i), at, value))])
           old == CHOOSE c \in 0..Len(column_indices) :
                      key_column # 0 => c > 0 /\ column_indices[c] = key_column
           key == IF key_column = 0 THEN 0 ELSE IF at <= old THEN old + 1 ELSE old
           rebuilt_keys == IF key = 0 THEN keys_ ELSE [i \in DOMAIN rebuilt |-> rebuilt[i][key]]
           refused == key # 0 /\ ~IsInjective(rebuilt_keys)
           VKC == VisibleKeyColumn
<1>1. /\ FrameTypes /\ Parallel /\ ShapeKept /\ TableShape /\ KeyColumnShape
      /\ FrameTypes' /\ Parallel' /\ ShapeKept' /\ TableShape' /\ KeyColumnShape'
  BY FrameStep
<1>2. CASE refused
  <2>1. UNCHANGED frameVars /\ answer' = <<"refused">>
    BY <1>2 DEF InsertColumn
  <2> QED BY <2>1, Answers DEF Answered
<1>3. CASE ~refused
  <2>1. /\ col_names' = InsertAt(col_names, at, name)
        /\ width' = Len(col_names')
        /\ column_indices' = [c \in 1..width' |-> c]
        /\ rows' = rebuilt
        /\ edits' = [i \in DOMAIN rebuilt |-> NoOverlay]
        /\ key_column' = key
        /\ keys_' = rebuilt_keys
        /\ answer' = <<>>
        /\ UNCHANGED is_keyed
        /\ \A c \in DOMAIN col_names : col_names[c] # name
    BY <1>3 DEF InsertColumn
  <2>2. /\ Len(col_names) \in Nat /\ Len(column_indices) = Len(col_names)
        /\ Len(rows) \in Nat /\ DOMAIN rows = 1..Len(rows)
    BY <1>1, FrameSizes
  <2>3. key_column # 0 => VKC \in 1..Len(col_names) /\ old = VKC
    <3> SUFFICES ASSUME key_column # 0 PROVE VKC \in 1..Len(col_names) /\ old = VKC
      OBVIOUS
    <3>1. VKC \in 1..Len(col_names) /\ column_indices[VKC] = key_column
          /\ \A c \in 1..Len(col_names) : column_indices[c] = key_column <=> c = VKC
      BY <1>1 DEF KeyColumnShape
    <3> HIDE DEF VKC
    <3>2. VKC \in 0..Len(column_indices) /\ VKC > 0
      BY <2>2, <3>1
    <3>3. old \in 0..Len(column_indices) /\ old > 0 /\ column_indices[old] = key_column
      BY <3>1, <3>2
    <3> HIDE DEF old
    <3>4. old \in 1..Len(col_names)
      BY <2>2, <3>3
    <3> QED BY <3>1, <3>3, <3>4
  <2>4. key_column = 0 => VKC = 0
    BY <1>1 DEF KeyColumnShape
  <2> HIDE DEF old, VKC, rebuilt, refused
  <2>5. key = IF VKC # 0 /\ at <= VKC THEN VKC + 1 ELSE VKC
    BY <2>2, <2>3, <2>4
  <2>6. (key = 0 <=> key_column = 0) /\ (key_column = 0 <=> VKC = 0)
    BY <2>2, <2>3, <2>4, <2>5
  <2> HIDE DEF key, rebuilt_keys
  <2>7. VisibleKeyColumn' = key
    <3>1. CASE key = 0
      BY <1>1, <2>1, <3>1 DEF KeyColumnShape
    <3>2. CASE key # 0
      <4> DEFINE v == VisibleKeyColumn'
      <4>1. v \in 1..Len(col_names') /\ column_indices'[v] = key
        BY <1>1, <2>1, <3>2 DEF KeyColumnShape
      <4>2. column_indices'[v] = v
        BY <2>1, <4>1
      <4> QED BY <4>1, <4>2
    <3> QED BY <3>1, <3>2
  <2>8. Table' = rebuilt /\ Parsed' = rebuilt
    <3> DEFINE t == Table'
               u == Parsed'
    <3>1. /\ t \in Seq(Seq(Values)) /\ Len(t) = Len(rebuilt) /\ u \in Seq(Seq(Values)) /\ Len(u) = Len(rebuilt)
          /\ \A i \in 1..Len(rebuilt) : /\ Len(t[i]) = Len(col_names') /\ Len(u[i]) = Len(col_names')
                                        /\ \A c \in 1..Len(col_names') :
                                              /\ t[i][c] = Cell(i, column_indices[c])'
                                              /\ u[i][c] = rows'[i][column_indices'[c]]
      BY <1>1, <2>1 DEF TableShape
    <3>2. rebuilt \in Seq(Seq(Values)) /\ DOMAIN rebuilt = 1..Len(rebuilt)
      <4>1. rows' \in Seq(Seq(Values))
        BY <1>1 DEF FrameTypes
      <4> QED BY <2>1, <4>1, LenProperties
    <3>3. ASSUME NEW i \in 1..Len(rebuilt)
          PROVE  /\ Len(rebuilt[i]) = Len(col_names')
                 /\ \A c \in 1..Len(col_names') : t[i][c] = rebuilt[i][c] /\ u[i][c] = rebuilt[i][c]
      <4> DEFINE W == {r \in Seq(Values) : Len(r) = Len(col_names) + 1}
      <4>1. Len(rebuilt[i]) = Len(col_names')
        <5>1. rebuilt \in Seq(W)
          BY <1>1, RebuiltRows DEF rebuilt
        <5>2. rebuilt[i] \in W
          BY <5>1, ElementOfSeq
        <5>3. col_names \in Seq(Names)
          BY <1>1 DEF FrameTypes
        <5>4. Len(col_names') = Len(col_names) + 1
          BY <2>1, <5>3, InsertAtFacts
        <5> QED BY <5>2, <5>4
      <4>2. ASSUME NEW c \in 1..Len(col_names') PROVE t[i][c] = rebuilt[i][c] /\ u[i][c] = rebuilt[i][c]
        <5>1. column_indices'[c] = c /\ rows'[i] = rebuilt[i]
          BY <2>1
        <5>2. edits'[i].values = <<>>
          BY <2>1, <3>2, EmptyOverlay
        <5>3. Cell(i, column_indices[c])' = rebuilt[i][c]
          <6>1. Cell(i, column_indices[c])' = rows'[i][column_indices'[c]]
            BY <5>2 DEF Cell
          <6> QED BY <5>1, <6>1
        <5> QED BY <3>1, <5>1, <5>3
      <4> QED BY <4>1, <4>2
    <3> HIDE DEF t, u
    <3>4. SameCells(t, rebuilt) /\ SameCells(u, rebuilt)
      BY <3>1, <3>2, <3>3, SMTT(30) DEF SameCells
    <3>5. t = rebuilt /\ u = rebuilt
      BY <3>4, TableEqual
    <3> QED BY <3>5 DEF t, u
  <2>9. /\ DOMAIN Table = DOMAIN rows
        /\ \A i \in DOMAIN rows : Table[i] = Row(i)
    BY <1>1, <2>2 DEF TableShape
  <2>10. Table' = FT!FlattenSeq([i \in DOMAIN Table |-> FT!ReadBack(FT!InsertAt(Table[i], at, value))])
    <3>1. \A i \in DOMAIN rows : FT!ReadBack(FT!InsertAt(Table[i], at, value)) = ReadBack(InsertAt(Row(i), at, value))
      BY <2>9, SameOperators
    <3>2. [i \in DOMAIN Table |-> FT!ReadBack(FT!InsertAt(Table[i], at, value))]
            = [i \in DOMAIN rows |-> ReadBack(InsertAt(Row(i), at, value))]
      BY <2>9, <3>1
    <3> QED BY <2>8, <3>2, SameFlatten DEF rebuilt
  <2>11. keys_' = IF VKC = 0 THEN keys_ ELSE [i \in DOMAIN Table |-> Table[i][VKC]]
    <3>1. CASE VKC = 0
      BY <2>1, <2>6, <3>1 DEF rebuilt_keys
    <3>2. CASE VKC # 0
      <4>1. VKC \in 1..Len(col_names) /\ Len(col_names) >= 1 /\ key # 0
            /\ key = IF at <= VKC THEN VKC + 1 ELSE VKC
        BY <2>2, <2>3, <2>5, <2>6, <3>2
      <4>2. /\ rebuilt = [i \in 1..Len(rows) |-> InsertAt(Row(i), at, value)]
            /\ \A i \in 1..Len(rows) : IsInserted(InsertAt(Row(i), at, value), Row(i), at, value)
        BY <1>1, <4>1, RebuiltKeyed DEF rebuilt
      <4>3. \A i \in 1..Len(rows) : Len(Row(i)) = Len(col_names)
        BY <1>1, RowFacts
      <4>4. ASSUME NEW i \in 1..Len(rows) PROVE InsertAt(Row(i), at, value)[key] = Table[i][VKC]
        <5>1. Table[i] = Row(i) /\ IsInserted(InsertAt(Row(i), at, value), Table[i], at, value)
              /\ Len(Table[i]) = Len(col_names)
          BY <2>2, <2>9, <4>2, <4>3
        <5>2. CASE at <= VKC
          <6>1. key \in 1..(Len(col_names) + 1) /\ key > at /\ key - 1 = VKC
            BY <2>2, <4>1, <5>2
          <6> QED BY <5>1, <6>1 DEF IsInserted
        <5>3. CASE ~(at <= VKC)
          <6>1. key \in 1..(Len(col_names) + 1) /\ key < at /\ key = VKC
            BY <2>2, <4>1, <5>3
          <6> QED BY <5>1, <6>1 DEF IsInserted
        <5> QED BY <5>2, <5>3
      <4>5. rebuilt_keys = [i \in DOMAIN rebuilt |-> rebuilt[i][key]]
        BY <4>1 DEF rebuilt_keys
      <4>6. DOMAIN rebuilt = 1..Len(rows) /\ \A i \in 1..Len(rows) : rebuilt[i][key] = Table[i][VKC]
        BY <4>2, <4>4
      <4>7. rebuilt_keys = [i \in DOMAIN Table |-> Table[i][VKC]]
        BY <2>2, <2>9, <4>5, <4>6
      <4> QED BY <2>1, <3>2, <4>7
    <3> QED BY <3>1, <3>2
  <2>12. IsInjective(keys_')
    BY <1>1 DEF ShapeKept
  <2>13. FT!InsertColumn(at, name, value)
    <3>1. FT!IsInjective(keys_') /\ col_names' = FT!InsertAt(col_names, at, name)
      BY <2>1, <2>12, SameOperators
    <3>2. Parsed' = Table'
      BY <2>8
    <3>3. VisibleKeyColumn' = IF VisibleKeyColumn # 0 /\ at <= VisibleKeyColumn
                              THEN VisibleKeyColumn + 1 ELSE VisibleKeyColumn
      BY <2>5, <2>7 DEF VKC
    <3>4. keys_' = IF VisibleKeyColumn = 0 THEN keys_ ELSE [i \in DOMAIN Table |-> Table[i][VisibleKeyColumn]]
      BY <2>11 DEF VKC
    <3>5. \A d \in DOMAIN col_names : col_names[d] # name
      BY <2>1
    <3>6. UNCHANGED is_keyed
      BY <2>1
    <3> QED BY <2>10, <3>1, <3>2, <3>3, <3>4, <3>5, <3>6 DEF FT!InsertColumn, Parsed
  <2>14. FT!Restructure
    BY <2>1, <2>13 DEF FT!Restructure
  <2> QED BY <2>14 DEF FT!Next
<1> QED BY <1>2, <1>3

LEMMA EraseColumnShows ==
  ASSUME Inv, NEW proxy \in Proxies, EraseColumn(proxy), [Next]_vars
  PROVE  FT!Next
<1> DEFINE refused == ~Valid(proxy) \/ (is_keyed /\ column_indices[proxy.col] = key_column)
           n == Len(col_names)
           K == VisibleKeyColumn
<1>0. PICK v : v = proxy.col
  OBVIOUS
<1>1. /\ FrameTypes /\ Parallel /\ ShapeKept /\ TableShape /\ KeyColumnShape /\ FromColumns
      /\ FrameTypes' /\ ShapeKept' /\ TableShape' /\ KeyColumnShape'
  BY FrameStep
<1>2. CASE refused
  <2>1. UNCHANGED frameVars /\ answer' = <<"refused">>
    BY <1>2 DEF EraseColumn
  <2> QED BY <2>1, Answers DEF Answered
<1>3. CASE ~refused
  <2>1. /\ col_names' = RemoveAt(col_names, v) /\ column_indices' = RemoveAt(column_indices, v)
        /\ answer' = <<>>
        /\ UNCHANGED <<width, rows, edits, is_keyed, keys_, key_column>>
    BY <1>0, <1>3 DEF EraseColumn
  <2>2. Valid(proxy) /\ (is_keyed => column_indices[v] # key_column)
    BY <1>0, <1>3
  <2> HIDE DEF refused
  <2>3. v \in 1..n /\ n \in Nat /\ v \in DOMAIN col_names
    <3>1. v \in DOMAIN col_names
      BY <1>0, <1>1, <2>2, ValidProxy
    <3> QED BY <1>1, <3>1, FrameSizes
  <2>4. Len(col_names') = n - 1
    <3>1. col_names \in Seq(Names)
      BY <1>1 DEF FrameTypes
    <3> QED BY <2>1, <2>3, <3>1, RemoveAtFacts
  <2>5. IsRemoved(column_indices', column_indices, v) /\ Len(column_indices) = n
    <3>1. column_indices \in Seq(1..width) /\ Len(column_indices) = n
      BY <1>1 DEF FrameTypes, ShapeKept
    <3>2. v \in 1..Len(column_indices)
      BY <2>3, <3>1
    <3> QED BY <2>1, <3>1, <3>2, Removed
  <2> HIDE DEF n
  <2>6. ASSUME NEW c \in 1..(n - 1)
        PROVE  /\ c < v => column_indices'[c] = column_indices[c] /\ c \in 1..n
               /\ c >= v => column_indices'[c] = column_indices[c + 1] /\ c + 1 \in 1..n
    BY <2>3, <2>5 DEF IsRemoved
  <2>7. K # v /\ VisibleKeyColumn' = IF v < K THEN K - 1 ELSE K
    <3>1. CASE key_column = 0
      <4>1. K = 0 /\ VisibleKeyColumn' = 0
        BY <1>1, <2>1, <3>1 DEF KeyColumnShape
      <4> QED BY <2>3, <4>1
    <3>2. CASE key_column # 0
      <4>1. is_keyed
        BY <1>1, <3>2 DEF Parallel
      <4>2. K \in 1..n /\ column_indices[K] = key_column
        BY <1>1, <3>2 DEF KeyColumnShape, n
      <4>3. K # v
        BY <2>2, <4>1, <4>2
      <4> DEFINE w == IF v < K THEN K - 1 ELSE K
      <4>4. w \in 1..(n - 1) /\ column_indices'[w] = key_column
        <5>1. CASE v < K
          <6>1. K - 1 \in 1..(n - 1) /\ K - 1 >= v /\ (K - 1) + 1 = K
            BY <2>3, <4>2, <5>1
          <6> HIDE DEF K
          <6>2. column_indices'[K - 1] = column_indices[K]
            BY <2>6, <6>1
          <6> QED BY <4>2, <5>1, <6>1, <6>2
        <5>2. CASE ~(v < K)
          <6>1. K \in 1..(n - 1) /\ K < v
            BY <2>3, <4>2, <4>3, <5>2
          <6> HIDE DEF K
          <6>2. column_indices'[K] = column_indices[K]
            BY <2>6, <6>1
          <6> QED BY <4>2, <5>2, <6>1, <6>2
        <5> QED BY <5>1, <5>2
      <4> HIDE DEF w
      <4>5. w = VisibleKeyColumn'
        BY <1>1, <2>1, <2>4, <3>2, <4>4 DEF KeyColumnShape
      <4> QED BY <4>3, <4>5 DEF w
    <3> QED BY <3>1, <3>2
  <2> HIDE DEF K
  <2>8. ASSUME NEW i \in DOMAIN Table
        PROVE  Table'[i] = RemoveAt(Table[i], v) /\ Parsed'[i] = RemoveAt(Parsed[i], v)
    <3> DEFINE t == Table[i]
               u == Parsed[i]
               tt == Table'[i]
               uu == Parsed'[i]
    <3>1. i \in 1..Len(rows) /\ i \in 1..Len(rows') /\ rows'[i] = rows[i]
      BY <1>1, <2>1 DEF TableShape
    <3>2. /\ t \in Seq(Values) /\ Len(t) = n /\ u \in Seq(Values) /\ Len(u) = n
          /\ \A c \in 1..n : t[c] = Cell(i, column_indices[c]) /\ u[c] = rows[i][column_indices[c]]
      BY <1>1, <3>1 DEF TableShape, n
    <3>3. /\ tt \in Seq(Values) /\ Len(tt) = n - 1 /\ uu \in Seq(Values) /\ Len(uu) = n - 1
          /\ \A c \in 1..(n - 1) : tt[c] = Cell(i, column_indices[c])' /\ uu[c] = rows[i][column_indices'[c]]
      BY <1>1, <2>4, <3>1, SMTT(30) DEF TableShape
    <3>4. \A p, q : p = q => Cell(i, p) = Cell(i, q)
      OBVIOUS
    <3>5. \A c \in 1..(n - 1) : Cell(i, column_indices[c])' = Cell(i, column_indices'[c])
      BY <2>1 DEF Cell
    <3> HIDE DEF t, u, tt, uu
    <3>6. ASSUME NEW c \in 1..(n - 1)
          PROVE  /\ c < v => tt[c] = t[c] /\ uu[c] = u[c]
                 /\ c >= v => tt[c] = t[c + 1] /\ uu[c] = u[c + 1]
      <4>1. tt[c] = Cell(i, column_indices'[c]) /\ uu[c] = rows[i][column_indices'[c]]
        BY <3>3, <3>5
      <4>2. c < v => tt[c] = t[c] /\ uu[c] = u[c]
        <5> SUFFICES ASSUME c < v PROVE tt[c] = t[c] /\ uu[c] = u[c]
          OBVIOUS
        <5>1. column_indices'[c] = column_indices[c] /\ c \in 1..n
          BY <2>6
        <5> QED BY <3>2, <4>1, <5>1
      <4>3. c >= v => tt[c] = t[c + 1] /\ uu[c] = u[c + 1]
        <5> SUFFICES ASSUME c >= v PROVE tt[c] = t[c + 1] /\ uu[c] = u[c + 1]
          OBVIOUS
        <5>1. column_indices'[c] = column_indices[c + 1] /\ c + 1 \in 1..n
          BY <2>6
        <5> QED BY <3>2, <4>1, <5>1
      <4> QED BY <4>2, <4>3
    <3>7. IsRemoved(tt, t, v) /\ IsRemoved(uu, u, v)
      BY <3>2, <3>3, <3>6 DEF IsRemoved
    <3>8. v \in 1..Len(t) /\ v \in 1..Len(u)
      BY <2>3, <3>2
    <3>9. tt = RemoveAt(t, v) /\ uu = RemoveAt(u, v)
      BY <3>2, <3>3, <3>7, <3>8, RemovedOnly
    <3> QED BY <3>9 DEF t, u, tt, uu
  <2>9. FT!EraseColumn(v)
    <3>1. /\ DOMAIN Table' = 1..Len(rows) /\ DOMAIN Table = 1..Len(rows)
          /\ DOMAIN Parsed' = 1..Len(rows) /\ Table' = [i \in DOMAIN Table' |-> Table'[i]]
          /\ Parsed' = [i \in DOMAIN Parsed' |-> Parsed'[i]]
      <4>1. /\ Table' = [i \in DOMAIN rows' |-> Row(i)']
            /\ Parsed' = [i \in DOMAIN rows' |-> [c \in DOMAIN column_indices' |-> rows'[i][column_indices'[c]]]]
        BY DEF Table, Parsed
      <4> QED BY <1>1, <2>1, <4>1 DEF TableShape
    <3>2. Table' = [i \in DOMAIN Table |-> FT!RemoveAt(Table[i], v)]
      BY <2>8, <3>1, SameOperators
    <3>3. Parsed' = [i \in DOMAIN Table |-> FT!RemoveAt(Parsed[i], v)]
      BY <2>8, <3>1, SameOperators
    <3>4. col_names' = FT!RemoveAt(col_names, v)
      BY <2>1, SameOperators
    <3>5. v # VisibleKeyColumn
          /\ VisibleKeyColumn' = IF v < VisibleKeyColumn THEN VisibleKeyColumn - 1 ELSE VisibleKeyColumn
      BY <2>7 DEF K
    <3>6. UNCHANGED <<is_keyed, keys_>>
      BY <2>1
    <3> QED BY <3>2, <3>3, <3>4, <3>5, <3>6 DEF FT!EraseColumn, Parsed
  <2>10. \E c \in DOMAIN col_names : FT!EraseColumn(c)
    BY <2>3, <2>9
  <2>11. FT!Restructure
    BY <2>1, <2>10 DEF FT!Restructure
  <2> QED BY <2>11 DEF FT!Next
<1> QED BY <1>2, <1>3

-----------------------------------------------------------------------------
(* The steps a caller does not see. *)
LEMMA QuietSteps ==
  ASSUME NEW t \in Threads,
         Callback(t) \/ EditLooks(t) \/ EditLocks(t) \/ FindLooks(t) \/ FindBuilds(t) \/ FindFills(t)
  PROVE  UNCHANGED frameVars /\ UNCHANGED answer
<1>1. CASE Callback(t)
  BY <1>1 DEF Callback
<1>2. CASE EditLooks(t)
  BY <1>2 DEF EditLooks, Others, frameVars
<1>3. CASE EditLocks(t)
  BY <1>3 DEF EditLocks, Others, frameVars
<1>4. CASE FindLooks(t)
  BY <1>4 DEF FindLooks, Others, frameVars
<1>5. CASE FindBuilds(t)
  BY <1>5 DEF FindBuilds, Others, frameVars
<1>6. CASE FindFills(t)
  BY <1>6 DEF FindFills, Others, frameVars
<1> QED BY <1>1, <1>2, <1>3, <1>4, <1>5, <1>6

LEMMA QuietOwner ==
  /\ ColumnParallelApply => UNCHANGED frameVars /\ UNCHANGED answer
  /\ \A c : TakeView(c) => UNCHANGED frameVars /\ UNCHANGED answer
  /\ UNCHANGED vars => UNCHANGED frameVars /\ UNCHANGED answer
<1>1. ColumnParallelApply => UNCHANGED frameVars /\ UNCHANGED answer
  BY DEF ColumnParallelApply
<1>2. \A c : TakeView(c) => UNCHANGED frameVars /\ UNCHANGED answer
  BY DEF TakeView, Query
<1>3. UNCHANGED vars => UNCHANGED frameVars /\ UNCHANGED answer
  BY DEF vars
<1> QED BY <1>1, <1>2, <1>3

LEMMA OwnerShows ==
  ASSUME Inv, OwnerChanges \/ OwnerAsks, [Next]_vars
  PROVE  undefined' # "no" \/ FT!Next \/ UNCHANGED FT!tableVars
<1>1. ASSUME NEW i \in DOMAIN rows, NEW c \in DOMAIN col_names, NEW value \in Values,
             EditCell(i, c, value)
      PROVE  FT!Next
  BY <1>1, EditCellShows
<1>2. ASSUME NEW i \in 1..(Len(rows) + 1), NEW row \in [DOMAIN col_names -> Values],
             InsertRow(i, row)
      PROVE  FT!Next
  BY <1>2, InsertRowShows
<1>3. ASSUME NEW i \in DOMAIN rows, EraseAtIndex(i) PROVE FT!Next
  BY <1>3, EraseAtIndexShows
<1>4. ASSUME NEW at \in 1..(Len(col_names) + 1), NEW name \in Names, NEW value \in Values,
             InsertColumn(at, name, value)
      PROVE  FT!Next
  BY <1>4, InsertColumnShows
<1>5. ASSUME NEW proxy \in Proxies, EraseColumn(proxy) PROVE FT!Next
  BY <1>5, EraseColumnShows
<1>6. CASE ColumnParallelApply
  BY <1>6, QuietOwner, Silence
<1>7. ASSUME NEW c \in DOMAIN col_names, TakeView(c) PROVE UNCHANGED FT!tableVars
  BY <1>7, QuietOwner, Silence
<1>8. ASSUME NEW i \in DOMAIN rows, NEW c \in DOMAIN col_names, ReadCell(i, c) PROVE FT!Next
  BY <1>8, ReadCellAnswers
<1>9. CASE ReadColumn
  BY <1>9, ReadColumnAnswers
<1>10. ASSUME NEW key \in Values, PositionOf(key) PROVE FT!Next
  BY <1>10, PositionOfAnswers
<1>11. ASSUME NEW name \in Names, ColumnNamed(name) PROVE FT!Next
  BY <1>11, ColumnNamedAnswers
<1>12. ASSUME NEW i \in DOMAIN rows, NEW subset \in SUBSET Names, ToJson(i, subset)
       PROVE  undefined' # "no" \/ FT!Next
  BY <1>12, ToJsonAnswers
<1>13. ASSUME NEW mask \in SUBSET DOMAIN rows, SelectedRows(mask) PROVE FT!Next
  BY <1>13, SelectedRowsAnswers
<1>14. CASE OwnerChanges
  BY <1>1, <1>2, <1>3, <1>4, <1>5, <1>6, <1>14 DEF OwnerChanges, Proxies
<1>15. CASE OwnerAsks
  BY <1>7, <1>8, <1>9, <1>10, <1>11, <1>12, <1>13, <1>15 DEF OwnerAsks
<1> QED BY <1>14, <1>15

LEMMA ThreadShows ==
  ASSUME Inv, NEW t \in Threads, Thread(t), [Next]_vars
  PROVE  undefined' # "no" \/ FT!Next \/ UNCHANGED FT!tableVars
<1>1. CASE Callback(t) \/ EditLooks(t) \/ EditLocks(t) \/ FindLooks(t) \/ FindBuilds(t) \/ FindFills(t)
  BY <1>1, QuietSteps, Silence
<1>2. CASE EditEnsures(t)
  BY <1>2, EditEnsuresSilent
<1>3. CASE EditSets(t)
  BY <1>3, EditSetsShows
<1>4. CASE ReadLooks(t)
  BY <1>4, ReadLooksAnswers
<1>5. CASE ReadGets(t)
  BY <1>5, ReadGetsAnswers
<1>6. CASE Finds(t)
  BY <1>6, FindsAnswers
<1> QED BY <1>1, <1>2, <1>3, <1>4, <1>5, <1>6 DEF Thread

LEMMA StepShows ==
  ASSUME Inv, [Next]_vars
  PROVE  [undefined' # "no" \/ FT!Next]_(FT!tableVars)
<1>1. CASE OwnerChanges \/ OwnerAsks
  BY <1>1, OwnerShows
<1>2. ASSUME NEW t \in Threads, Thread(t) PROVE undefined' # "no" \/ FT!Next \/ UNCHANGED FT!tableVars
  BY <1>2, ThreadShows
<1>3. CASE UNCHANGED vars
  BY <1>3, QuietOwner, Silence
<1>4. CASE Undefined
  <2>1. UNCHANGED vars
    BY <1>4 DEF Undefined
  <2> QED BY <2>1, QuietOwner, Silence
<1> QED BY <1>1, <1>2, <1>3, <1>4 DEF Next

(* A frame just loaded. *)
LEMMA FirstTable ==
  ASSUME Init
  PROVE  /\ Table = rows /\ Parsed = rows /\ VisibleKeyColumn = key_column /\ answer = <<>>
         /\ DOMAIN rows = 1..Len(rows) /\ Len(rows) \in Nat
<1>1. FrameTypes /\ Parallel /\ ShapeKept /\ TableShape /\ KeyColumnShape
  BY InitInv, TableFacts, KeyColumnFacts DEF Inv
<1>2. /\ column_indices = [c \in 1..width |-> c] /\ edits = [i \in DOMAIN rows |-> NoOverlay]
      /\ answer = <<>> /\ Len(col_names) = width /\ width \in Nat
      /\ \A i \in 1..Len(rows) : Len(rows[i]) = width
  <2>1. /\ column_indices = [c \in 1..width |-> c] /\ edits = [i \in DOMAIN rows |-> NoOverlay]
        /\ answer = <<>> /\ \E source \in Sources : width = Len(source.names) /\ col_names = source.names
    BY DEF Init
  <2>2. PICK source \in Sources : /\ width = Len(source.names) /\ col_names = source.names
                                  /\ InitUnkeyed(source) \/ InitKeyed(source)
    BY DEF Init
  <2>3. \A i \in 1..Len(rows) : Len(rows[i]) = width
    <3>1. CASE InitUnkeyed(source)
      BY <2>2, <3>1, LoadedSource DEF InitUnkeyed
    <3>2. CASE InitKeyed(source)
      BY <2>2, <3>2, InitKeyedFacts
    <3> QED BY <2>2, <3>1, <3>2
  <2> QED BY <1>1, <2>1, <2>2, <2>3 DEF FrameTypes
<1>3. Len(rows) \in Nat /\ DOMAIN rows = 1..Len(rows) /\ rows \in Seq(Seq(Values))
  BY <1>1, FrameSizes DEF FrameTypes
<1>4. ASSUME NEW i \in 1..Len(rows), NEW c \in 1..width
      PROVE  Table[i][c] = rows[i][c] /\ Parsed[i][c] = rows[i][c]
  <2>1. column_indices[c] = c /\ edits[i].values = <<>>
    BY <1>2, <1>3, EmptyOverlay
  <2>2. Cell(i, c) = rows[i][c]
    BY <2>1 DEF Cell
  <2>3. Table[i][c] = Cell(i, column_indices[c]) /\ Parsed[i][c] = rows[i][column_indices[c]]
    BY <1>1, <1>2 DEF TableShape
  <2> QED BY <2>1, <2>2, <2>3
<1>5. SameCells(Table, rows) /\ SameCells(Parsed, rows)
  BY <1>1, <1>2, <1>3, <1>4, SMTT(30) DEF TableShape, SameCells
<1>6. Table = rows /\ Parsed = rows
  BY <1>5, TableEqual
<1>7. VisibleKeyColumn = key_column
  <2>1. CASE key_column = 0
    BY <1>1, <2>1 DEF KeyColumnShape
  <2>2. CASE key_column # 0
    <3>1. VisibleKeyColumn \in 1..width /\ column_indices[VisibleKeyColumn] = key_column
      BY <1>1, <1>2, <2>2 DEF KeyColumnShape
    <3> QED BY <1>2, <3>1
  <2> QED BY <2>1, <2>2
<1> QED BY <1>2, <1>3, <1>6, <1>7

LEMMA InitShows == Init => FT!Init
<1> SUFFICES ASSUME Init PROVE FT!Init
  OBVIOUS
<1>1. PICK source \in Sources :
        /\ col_names = source.names /\ width = Len(source.names)
        /\ InitUnkeyed(source) \/ InitKeyed(source)
  BY DEF Init
<1>2. /\ Table = rows /\ Parsed = rows /\ VisibleKeyColumn = key_column /\ answer = <<>>
      /\ DOMAIN rows = 1..Len(rows)
  BY FirstTable
<1>3. CASE InitUnkeyed(source)
  <2>1. ~is_keyed /\ VisibleKeyColumn = 0 /\ keys_ = <<>> /\ Table = source.rows
    BY <1>2, <1>3 DEF InitUnkeyed
  <2> QED BY <1>1, <1>2, <2>1 DEF FT!Init, Parsed
<1>4. CASE InitKeyed(source)
  <2>1. PICK field \in 1..Len(source.names), policy \in Policies :
               /\ key_column \in {0, field}
               /\ \A i \in 1..Len(rows) : rows[i][field] = keys_[i]
               /\ policy = "THROW" => Len(rows) = Len(source.rows)
               /\ FT!IsLoaded(rows, source.rows, field, policy)
    BY <1>4, InitKeyedFacts
  <2>2. is_keyed /\ keys_ \in Seq(Values) /\ Len(rows) = Len(keys_)
    BY <1>4, InitKeyedFacts
  <2>3. keys_ = [i \in DOMAIN Table |-> Table[i][field]]
    <3>1. keys_ = [i \in 1..Len(keys_) |-> keys_[i]]
      BY <2>2
    <3> QED BY <1>2, <2>1, <2>2, <3>1
  <2>4. field \in DOMAIN col_names
    BY <1>1, LoadedSource
  <2>5. FT!IsLoaded(Table, source.rows, field, policy) /\ (policy = "THROW" => Len(Table) = Len(source.rows))
    BY <1>2, <2>1
  <2>6. VisibleKeyColumn \in {0, field}
    BY <1>2, <2>1
  <2>7. \E f \in DOMAIN col_names, p \in Policies :
           /\ VisibleKeyColumn \in {0, f}
           /\ FT!IsLoaded(Table, source.rows, f, p)
           /\ p = "THROW" => Len(Table) = Len(source.rows)
           /\ keys_ = [i \in DOMAIN Table |-> Table[i][f]]
    BY <2>3, <2>4, <2>5, <2>6
  <2> QED BY <1>1, <1>2, <2>2, <2>7 DEF FT!Init, Parsed
<1> QED BY <1>1, <1>3, <1>4

(* Whatever is hidden, edited, indexed or cached, and however the callbacks *)
(* of column_parallel_apply() come between each other, every answer is that *)
(* of the plain table, and every change changes only what it should, until  *)
(* the behaviour is undefined: the frame implements FrameTable.             *)
THEOREM FrameImplementsTable == Spec => FrameSpec
<1>1. Init => FT!Init
  BY InitShows
<1>2. Inv /\ [Next]_vars => [undefined' # "no" \/ FT!Next]_(FT!tableVars)
  BY StepShows
<1>3. Spec => []Inv
  BY InvHolds
<1> QED BY <1>1, <1>2, <1>3, PTL DEF Spec, FrameSpec
=============================================================================
