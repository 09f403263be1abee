-------------------------- MODULE CSVReaderProofs --------------------------
(***************************************************************************)
(* The safety of CSVReader for every set of sources, every notify size and *)
(* every sequence of calls.  The inductive invariant is Inv; its conjuncts *)
(* WithinLimit and Phases are there for the others, which runs check too.  *)
(***************************************************************************)
EXTENDS CSVReader, SequenceLemmas

Inv ==
  /\ TypeOK
  /\ WithinLimit
  /\ QueueInOrder
  /\ WaitableMeansWorking
  /\ TakeFindsRow
  /\ Phases
  /\ EndMeansParsed

-----------------------------------------------------------------------------
(* The sequence 1, 2, ..., n, and how it grows by n + 1 or by n + 1, ..., m. *)
UpTo(n) == [i \in 1..n |-> i]

LEMMA UpToType ==
  ASSUME NEW n \in Nat, NEW m \in Nat, n <= m
  PROVE  UpTo(n) \in Seq(1..m) /\ Len(UpTo(n)) = n
BY DEF UpTo

LEMMA UpToNext ==
  ASSUME NEW n \in Nat
  PROVE  Append(UpTo(n), n + 1) = UpTo(n + 1)
<1>1. UpTo(n) \in Seq(1..(n + 1)) /\ Len(UpTo(n)) = n
  BY UpToType
<1>2. UpTo(n + 1) \in Seq(1..(n + 1)) /\ Len(UpTo(n + 1)) = n + 1
  BY UpToType
<1>3. /\ Append(UpTo(n), n + 1) \in Seq(1..(n + 1))
      /\ Len(Append(UpTo(n), n + 1)) = n + 1
      /\ \A i \in 1..n : Append(UpTo(n), n + 1)[i] = i
      /\ Append(UpTo(n), n + 1)[n + 1] = n + 1
  BY <1>1, AppendProperties DEF UpTo
<1>4. \A i \in 1..(n + 1) : Append(UpTo(n), n + 1)[i] = UpTo(n + 1)[i]
  BY <1>3 DEF UpTo
<1> QED BY <1>2, <1>3, <1>4, SeqEqual

LEMMA UpToBatch ==
  ASSUME NEW n \in Nat, NEW m \in Nat, n <= m
  PROVE  LET batch == [k \in 1..(m - n) |-> n + k]
         IN  batch \in Seq(1..m) /\ UpTo(n) \o batch = UpTo(m)
<1> DEFINE batch == [k \in 1..(m - n) |-> n + k]
<1>1. batch \in Seq(1..m) /\ Len(batch) = m - n
  OBVIOUS
<1> HIDE DEF batch
<1>2. UpTo(n) \in Seq(1..m) /\ Len(UpTo(n)) = n
  BY UpToType
<1>3. UpTo(m) \in Seq(1..m) /\ Len(UpTo(m)) = m
  BY UpToType
<1>4. /\ UpTo(n) \o batch \in Seq(1..m)
      /\ Len(UpTo(n) \o batch) = m
      /\ \A i \in 1..m : (UpTo(n) \o batch)[i] = IF i <= n THEN UpTo(n)[i] ELSE batch[i - n]
  <2>1. /\ UpTo(n) \o batch \in Seq(1..m)
        /\ Len(UpTo(n) \o batch) = Len(UpTo(n)) + Len(batch)
        /\ \A i \in 1..(Len(UpTo(n)) + Len(batch)) :
             (UpTo(n) \o batch)[i] = IF i <= Len(UpTo(n)) THEN UpTo(n)[i]
                                     ELSE batch[i - Len(UpTo(n))]
    BY <1>1, <1>2, ConcatProperties, Zenon
  <2>2. Len(UpTo(n)) + Len(batch) = m
    BY <1>1, <1>2
  <2> QED BY <2>1, <2>2, <1>2
<1>5. \A i \in 1..m : (UpTo(n) \o batch)[i] = UpTo(m)[i]
  BY <1>4 DEF UpTo, batch
<1>6. UpTo(n) \o batch = UpTo(m)
  BY <1>3, <1>4, <1>5, SeqEqual
<1> QED BY <1>1, <1>6 DEF batch

-----------------------------------------------------------------------------
(* Types. *)

(* What SourcesAssumption says of the source being read. *)
LEMMA SourceFacts ==
  ASSUME csv \in Sources
  PROVE  /\ csv.rows \in Seq([end : Nat \ {0}, cols : Nat])
         /\ RowCount \in Nat
         /\ \A i \in 1..RowCount : csv.rows[i].end \in Nat /\ csv.rows[i].cols \in Nat
         /\ csv.chunk \in Nat \ {0} /\ csv.head \in Nat
         /\ csv.workers \in Nat \ {0}
         /\ csv.header \in Nat \cup {-1}
         /\ csv.n_cols \in Nat
         /\ csv.mmap \in BOOLEAN /\ csv.named \in BOOLEAN
         /\ StreamWindowMax \in Nat /\ NotifySize \in Nat
         /\ ChunkLimits \subseteq Nat
<1>1. IsSource(csv)
  BY SourcesAssumption
<1>2. RowCount \in Nat /\ \A i \in 1..RowCount : csv.rows[i] \in [end : Nat \ {0}, cols : Nat]
  <2>1. csv.rows \in Seq([end : Nat \ {0}, cols : Nat])
    BY <1>1 DEF IsSource
  <2> QED BY <2>1, LenProperties, ElementOfSeq DEF RowCount
<1> QED BY <1>1, <1>2, SourcesAssumption DEF IsSource

(* Offsets and window lengths are numbers. *)
LEMMA OffsetFacts ==
  ASSUME TypeOK
  PROVE  /\ Position \in Nat
         /\ Remaining \in Int
         /\ WindowLength \in Int
         /\ SourceExhausted \in BOOLEAN
<1>1. Position \in Nat /\ Remaining \in Int
  <2>1. csv \in Sources /\ parsed \in 0..RowCount
    BY DEF TypeOK, ParserTypes
  <2>2. \A i \in 0..RowCount : EndOf(i) \in Nat
    BY <2>1, SourceFacts DEF EndOf
  <2>3. Position \in Nat /\ SourceSize \in Nat
    BY <2>1, <2>2, SourceFacts DEF Position, SourceSize
  <2> QED BY <2>3 DEF Remaining
<1>2. read_window_size \in Nat
  <2>1. \A a, b \in Nat : a * b \in Nat
    OBVIOUS
  <2>2. csv.chunk \in Nat /\ csv.workers \in Nat
    BY SourceFacts DEF TypeOK
  <2> QED BY <2>1, <2>2 DEF read_window_size
<1>3. stream_window_size \in Nat
  BY <1>2, SourceFacts DEF TypeOK, stream_window_size, stream_window_cap
<1>4. WindowLimit \in Int
  <2>1. leftover \in Int /\ csv.chunk \in Nat /\ csv.head \in Nat
    BY SourceFacts DEF TypeOK, ParserTypes
  <2> QED BY <2>1, <1>2, <1>3 DEF WindowLimit
<1>5. WindowLength \in Int
  BY <1>1, <1>4 DEF WindowLength
<1>6. SourceExhausted \in BOOLEAN
  <2>1. CASE csv.mmap
    <3>1. SourceExhausted <=> WindowLength = Remaining
      BY <2>1, Zenon DEF SourceExhausted
    <3> QED BY <2>1, Zenon DEF SourceExhausted
  <2>2. CASE ~csv.mmap
    BY <2>2 DEF SourceExhausted
  <2> QED BY <2>1, <2>2
<1> QED BY <1>1, <1>5, <1>6

LEMMA InitType == Init => TypeOK
<1> SUFFICES ASSUME Init PROVE TypeOK
  OBVIOUS
<1>1. csv \in Sources
  BY DEF Init
<1>2. RowCount \in Nat /\ csv.n_cols \in Nat /\ csv.named \in BOOLEAN /\ csv.mmap \in BOOLEAN
  BY <1>1, SourceFacts
<1>0. <<>> \in Seq(1..RowCount)
  OBVIOUS
<1>3. QueueTypes
  BY <1>0 DEF Init, Q!Init, QueueTypes
<1>4. ParserTypes
  <2>1. leftover \in Int
    <3>1. SourceSize \in Nat /\ csv.head \in Nat
      BY <1>1, <1>2, SourceFacts DEF SourceSize, EndOf
    <3> QED BY <3>1 DEF Init
  <2>2. window \in [last : 0..RowCount, length : Int, end : Int, exhausted : BOOLEAN]
    BY <1>2 DEF Init
  <2> QED BY <1>2, <2>1, <2>2 DEF Init, ParserTypes
<1>5. HeaderTypes
  BY <1>2 DEF Init, HeaderTypes
<1>6. ThreadTypes
  BY DEF Init, ThreadTypes, WorkerStates, CallerStates
<1>7. CallTypes
  BY <1>0 DEF Init, CallTypes
<1> QED BY <1>1, <1>3, <1>4, <1>5, <1>6, <1>7 DEF TypeOK

(* A group of variables a step leaves alone keeps its types. *)
LEMMA SameTypes ==
  ASSUME TypeOK, csv' = csv
  PROVE  /\ csv' \in Sources
         /\ RowCount' = RowCount
         /\ UNCHANGED queue => QueueTypes'
         /\ UNCHANGED parserSt => ParserTypes'
         /\ UNCHANGED header => HeaderTypes'
         /\ UNCHANGED <<read_requested, exception, wpc, cpc>> => ThreadTypes'
         /\ UNCHANGED callSt => CallTypes'
<1>1. csv' \in Sources /\ RowCount' = RowCount
  BY DEF TypeOK, RowCount
<1>2. UNCHANGED queue => QueueTypes'
  BY <1>1 DEF TypeOK, queue, QueueTypes
<1>3. UNCHANGED parserSt => ParserTypes'
  BY <1>1 DEF TypeOK, parserSt, ParserTypes
<1>4. UNCHANGED header => HeaderTypes'
  BY <1>1 DEF TypeOK, header, HeaderTypes
<1>5. UNCHANGED <<read_requested, exception, wpc, cpc>> => ThreadTypes'
  BY DEF TypeOK, ThreadTypes
<1>6. UNCHANGED callSt => CallTypes'
  BY <1>1 DEF TypeOK, callSt, CallTypes
<1> QED BY <1>1, <1>2, <1>3, <1>4, <1>5, <1>6

(* What each thread never writes. *)
LEMMA WorkerFrame == Worker => UNCHANGED <<csv, read_requested, cpc, callSt>>
BY DEF Worker, WorkerNotify, NextWindow, NextFails, PushRow, AppendChunk,
       FinishWindow, TrimHeader, WorkerKill, AdoptException

LEMMA CallerFrame == Reader \/ Caller \/ Gone => UNCHANGED <<csv, parserSt, header>>
<1>1. Launch => UNCHANGED <<csv, parserSt, header>>
  BY DEF Launch, InitialRead, InitialReadDone, AfterRun, AfterRunRethrow
<1>2. Check => UNCHANGED <<csv, parserSt, header>>
  BY DEF Check, SeeRows, SeeEmpty, SeeWaitable, SeeFinished, EndWait, AtReader
<1>3. Joined => UNCHANGED <<csv, parserSt, header>>
  BY DEF Joined, JoinRethrow, JoinEof, JoinTooLarge, JoinRun
<1>4. Take => UNCHANGED <<csv, parserSt, header>>
  BY DEF Take, StillEmpty, FoundRows, TakeRow, TakeBatch, AtReader
<1>5. Accept => UNCHANGED <<csv, parserSt, header>>
  BY DEF Accept, AcceptRow, RejectRow, ThrowBadRow, ReturnRows, ReadMore, AtReader
<1>6. Caller \/ Gone => UNCHANGED <<csv, parserSt, header>>
  BY DEF Caller, CallReadRow, CallReadChunk, Call, Move, Destroy, Gone, vars
<1> QED BY <1>1, <1>2, <1>3, <1>4, <1>5, <1>6 DEF Reader

(* The worker's steps keep the types. *)
LEMMA WorkerType == TypeOK /\ Worker => TypeOK'
<1> SUFFICES ASSUME TypeOK, Worker PROVE TypeOK'
  OBVIOUS
<1>csv. csv' = csv
  BY WorkerFrame
<1>0. /\ csv \in Sources /\ RowCount' = RowCount
      /\ RowCount \in Nat /\ parsed \in 0..RowCount
      /\ window \in [last : 0..RowCount, length : Int, end : Int, exhausted : BOOLEAN]
      /\ csv.header \in Nat \cup {-1}
      /\ rows \in Seq(1..RowCount) /\ taken \in Seq(1..RowCount) /\ Len(rows) \in Nat
  BY <1>csv, SameTypes, SourceFacts, LenProperties DEF TypeOK, ParserTypes, QueueTypes
<1>call. CallTypes'
  BY <1>csv, SameTypes, WorkerFrame
<1>thread. ThreadTypes'
  <2>1. read_requested' = read_requested /\ cpc' = cpc
    BY WorkerFrame
  <2>2. exception' = exception \/ exception' = "io_error"
    BY DEF Worker, WorkerNotify, NextWindow, NextFails, PushRow, AppendChunk,
           FinishWindow, TrimHeader, WorkerKill, AdoptException
  <2>3. wpc' = wpc \/ wpc' \in WorkerStates
    BY DEF Worker, WorkerNotify, NextWindow, NextFails, PushRow, AppendChunk,
           FinishWindow, TrimHeader, WorkerKill, AdoptException, WorkerStates
  <2> QED BY <2>1, <2>2, <2>3 DEF TypeOK, ThreadTypes
<1>1. CASE WorkerNotify
  <2>1. QueueTypes'
    BY <1>1, <1>0 DEF WorkerNotify, Q!NotifyAll, QueueTypes
  <2> QED BY <1>1, <1>csv, <1>call, <1>thread, <2>1, SameTypes DEF WorkerNotify, TypeOK
<1>2. CASE NextWindow
  <2>1. PICK last \in 0..RowCount :
          window' = [last |-> last, length |-> WindowLength,
                     end |-> Position + WindowLength, exhausted |-> SourceExhausted]
    BY <1>2, Zenon DEF NextWindow
  <2>2. window' \in [last : 0..RowCount, length : Int, end : Int, exhausted : BOOLEAN]
    <3>1. WindowLength \in Int /\ Position + WindowLength \in Int /\ SourceExhausted \in BOOLEAN
      BY OffsetFacts
    <3> QED BY <2>1, <3>1, Zenon
  <2>3. ParserTypes'
    BY <1>2, <1>0, <2>2 DEF NextWindow, ParserTypes, TypeOK
  <2> QED BY <1>2, <1>csv, <1>call, <1>thread, <2>3, SameTypes DEF NextWindow, TypeOK
<1>3. CASE NextFails
  <2>1. ParserTypes'
    BY <1>3, <1>0, SourceFacts DEF NextFails, ParserTypes, TypeOK
  <2> QED BY <1>3, <1>csv, <1>call, <1>thread, <2>1, SameTypes DEF NextFails, TypeOK
<1>4. CASE PushRow
  <2>1. parsed + 1 \in 1..RowCount
    BY <1>4, <1>0 DEF PushRow
  <2>2. QueueTypes'
    BY <1>4, <1>0, <2>1, AppendProperties DEF PushRow, Q!PushBack, QueueTypes, TypeOK
  <2>3. ParserTypes'
    BY <1>4, <1>0, <2>1 DEF PushRow, ParserTypes, TypeOK
  <2> QED BY <1>4, <1>csv, <1>call, <1>thread, <2>2, <2>3, SameTypes DEF PushRow, TypeOK
<1>5. CASE AppendChunk
  <2>1. PICK upto \in (parsed + 1)..window.last :
          /\ Q!AppendRows([k \in 1..(upto - parsed) |-> parsed + k])
          /\ parsed' = upto
    BY <1>5 DEF AppendChunk
  <2>2. [k \in 1..(upto - parsed) |-> parsed + k] \in Seq(1..RowCount)
    BY <2>1, <1>0
  <2>3. QueueTypes'
    BY <2>1, <2>2, <1>0, ConcatProperties DEF Q!AppendRows, QueueTypes, TypeOK
  <2>4. ParserTypes'
    BY <1>5, <1>0, <2>1 DEF AppendChunk, ParserTypes, TypeOK
  <2> QED BY <1>5, <1>csv, <1>call, <1>thread, <2>3, <2>4, SameTypes DEF AppendChunk, TypeOK
<1>6. CASE FinishWindow
  <2>1. leftover' \in Int /\ eof' \in BOOLEAN
    BY <1>6, <1>0, OffsetFacts DEF FinishWindow, ParserTypes, TypeOK
  <2>2. ParserTypes'
    BY <1>6, <1>0, <2>1 DEF FinishWindow, ParserTypes, TypeOK
  <2> QED BY <1>6, <1>csv, <1>call, <1>thread, <2>2, SameTypes DEF FinishWindow, TypeOK
<1>7. CASE TrimHeader
  <2>1. CASE header_trimmed
    BY <1>7, <1>csv, <1>call, <1>thread, <2>1, SameTypes DEF TrimHeader, TypeOK
  <2>2. CASE ~header_trimmed
    <3>1. QueueTypes'
      <4>1. Q!DrainCount(csv.header + 1) \in 0..Len(rows)
        BY <1>0 DEF Q!DrainCount, Q!Size
      <4>2. /\ SubSeq(rows, 1, Q!DrainCount(csv.header + 1)) \in Seq(1..RowCount)
            /\ SubSeq(rows, Q!DrainCount(csv.header + 1) + 1, Len(rows)) \in Seq(1..RowCount)
        BY <1>0, <4>1, MoveFront
      <4>3. rows' \in Seq(1..RowCount) /\ taken' \in Seq(1..RowCount) /\ is_waitable' = is_waitable
        <5>1. /\ rows' = SubSeq(rows, Q!DrainCount(csv.header + 1) + 1, Len(rows))
              /\ taken' = taken \o SubSeq(rows, 1, Q!DrainCount(csv.header + 1))
              /\ is_waitable' = is_waitable
          BY <1>7, <2>2, Zenon DEF TrimHeader, Q!DrainFront
        <5> QED BY <1>0, <4>2, <5>1, ConcatProperties
      <4> QED BY <1>0, <4>3 DEF QueueTypes, TypeOK
    <3>2. HeaderTypes'
      <4>1. ASSUME csv.header >= 0, csv.header < Len(rows)
            PROVE  ColsOf(rows[csv.header + 1]) \in Nat
        <5>1. csv.header + 1 \in 1..Len(rows)
          BY <4>1, <1>0
        <5>2. rows[csv.header + 1] \in 1..RowCount
          BY <5>1, <1>0, ElementOfSeq
        <5> QED BY <5>2, <1>0, SourceFacts DEF ColsOf
      <4> QED BY <1>7, <2>2, <4>1 DEF TrimHeader, TypeOK, HeaderTypes
    <3> QED BY <1>7, <1>csv, <1>call, <1>thread, <3>1, <3>2, SameTypes DEF TrimHeader, TypeOK
  <2> QED BY <2>1, <2>2
<1>8. CASE WorkerKill
  <2>1. QueueTypes'
    BY <1>8, <1>0 DEF WorkerKill, Q!KillAll, QueueTypes
  <2> QED BY <1>8, <1>csv, <1>call, <1>thread, <2>1, SameTypes DEF WorkerKill, TypeOK
<1>9. CASE AdoptException
  BY <1>9, <1>csv, <1>call, <1>thread, SameTypes DEF AdoptException, TypeOK
<1> QED BY <1>1, <1>2, <1>3, <1>4, <1>5, <1>6, <1>7, <1>8, <1>9 DEF Worker

(* So do the steps on the caller's thread. *)
LEMMA CallerType == TypeOK /\ WithinLimit /\ (Reader \/ Caller \/ Gone) => TypeOK'
<1> SUFFICES ASSUME TypeOK, WithinLimit, Reader \/ Caller \/ Gone PROVE TypeOK'
  OBVIOUS
<1>csv. csv' = csv
  BY CallerFrame
<1>0. /\ csv \in Sources /\ RowCount' = RowCount /\ RowCount \in Nat
      /\ rows \in Seq(1..RowCount) /\ taken \in Seq(1..RowCount) /\ Len(rows) \in Nat
      /\ limit \in Nat /\ out \in Seq(1..RowCount) /\ Len(out) \in Nat
      /\ drained \in Seq(1..RowCount) /\ delivered \in Seq(1..RowCount)
      /\ swept \subseteq 1..RowCount
      /\ <<>> \in Seq(1..RowCount)
  BY <1>csv, SameTypes, SourceFacts, LenProperties DEF TypeOK, QueueTypes, CallTypes
<1>same. ParserTypes' /\ HeaderTypes' /\ csv' \in Sources
  BY <1>csv, SameTypes, CallerFrame
<1>1. CASE Launch
  <2>1. CASE InitialRead
    <3>1. ThreadTypes'
      BY <2>1 DEF InitialRead, StartWorker, ThreadTypes, TypeOK, WorkerStates, CallerStates
    <3> QED BY <2>1, <3>1, <1>csv, <1>same, SameTypes DEF InitialRead, TypeOK
  <2>2. CASE InitialReadDone
    <3>1. ThreadTypes'
      BY <2>2 DEF InitialReadDone, ThreadTypes, TypeOK, WorkerStates, CallerStates
    <3>2. CallTypes'
      BY <2>2, <1>0 DEF InitialReadDone, CallTypes, ThreadTypes, TypeOK
    <3> QED BY <2>2, <3>1, <3>2, <1>csv, <1>same, SameTypes DEF InitialReadDone, TypeOK
  <2>3. CASE AfterRun
    <3>1. ThreadTypes'
      BY <2>3 DEF AfterRun, ThreadTypes, TypeOK, CallerStates
    <3> QED BY <2>3, <3>1, <1>csv, <1>same, SameTypes DEF AfterRun, TypeOK
  <2>4. CASE AfterRunRethrow
    <3>1. ThreadTypes'
      BY <2>4 DEF AfterRunRethrow, Rethrow, Return, ThreadTypes, TypeOK, CallerStates
    <3>2. CallTypes'
      BY <2>4, <1>0 DEF AfterRunRethrow, Rethrow, Return, CallTypes, ThreadTypes, TypeOK
    <3> QED BY <2>4, <3>1, <3>2, <1>csv, <1>same, SameTypes DEF AfterRunRethrow, TypeOK
  <2> QED BY <1>1, <2>1, <2>2, <2>3, <2>4 DEF Launch
<1>2. CASE Check \/ StillEmpty \/ FoundRows \/ ReadMore
  <2>1. ASSUME NEW from, NEW to \in CallerStates, AtReader(from, to)
        PROVE  TypeOK'
    <3>1. ThreadTypes'
      BY <2>1 DEF AtReader, ThreadTypes, TypeOK
    <3> QED BY <2>1, <3>1, <1>csv, <1>same, SameTypes DEF AtReader, TypeOK
  <2> QED BY <1>2, <2>1 DEF Check, SeeRows, SeeEmpty, SeeWaitable, SeeFinished, EndWait,
                            StillEmpty, FoundRows, ReadMore, CallerStates
<1>3. CASE Joined
  <2>1. CASE JoinRethrow
    <3>1. ThreadTypes'
      BY <2>1 DEF JoinRethrow, Rethrow, Return, ThreadTypes, TypeOK, WorkerStates, CallerStates
    <3>2. CallTypes'
      BY <2>1, <1>0 DEF JoinRethrow, Rethrow, Return, CallTypes, ThreadTypes, TypeOK
    <3> QED BY <2>1, <3>1, <3>2, <1>csv, <1>same, SameTypes DEF JoinRethrow, TypeOK
  <2>2. CASE JoinEof
    <3>1. ThreadTypes'
      BY <2>2 DEF JoinEof, Return, ThreadTypes, TypeOK, WorkerStates, CallerStates
    <3>2. CallTypes'
      BY <2>2, <1>0 DEF JoinEof, Return, CallTypes, TypeOK
    <3> QED BY <2>2, <3>1, <3>2, <1>csv, <1>same, SameTypes DEF JoinEof, TypeOK
  <2>3. CASE JoinTooLarge
    <3>1. ThreadTypes'
      BY <2>3 DEF JoinTooLarge, Return, ThreadTypes, TypeOK, WorkerStates, CallerStates
    <3>2. CallTypes'
      BY <2>3, <1>0 DEF JoinTooLarge, Return, CallTypes, TypeOK
    <3> QED BY <2>3, <3>1, <3>2, <1>csv, <1>same, SameTypes DEF JoinTooLarge, TypeOK
  <2>4. CASE JoinRun
    <3>1. ThreadTypes'
      BY <2>4 DEF JoinRun, StartWorker, ThreadTypes, TypeOK, WorkerStates, CallerStates
    <3>2. QueueTypes'
      <4>1. /\ rows' = rows /\ taken' = taken
            /\ is_waitable' = TRUE \/ is_waitable' = is_waitable
        BY <2>4 DEF JoinRun, Q!NotifyAll, queue
      <4> QED BY <4>1, <1>0 DEF QueueTypes, TypeOK
    <3> QED BY <2>4, <3>1, <3>2, <1>csv, <1>same, SameTypes DEF JoinRun, TypeOK
  <2> QED BY <1>3, <2>1, <2>2, <2>3, <2>4 DEF Joined
<1>4. CASE TakeRow
  <2>1. Head(rows) \in 1..RowCount /\ Tail(rows) \in Seq(1..RowCount)
    BY <1>4, <1>0, HeadTailProperties DEF TakeRow, Q!PopFront
  <2>2. QueueTypes'
    BY <1>4, <1>0, <2>1, AppendProperties DEF TakeRow, Q!PopFront, QueueTypes, TypeOK
  <2>3. ThreadTypes'
    BY <1>4 DEF TakeRow, ThreadTypes, TypeOK, CallerStates
  <2>4. CallTypes'
    BY <1>4, <1>0, <2>1 DEF TakeRow, CallTypes, TypeOK
  <2> QED BY <2>2, <2>3, <2>4, <1>csv, <1>same DEF TypeOK
<1>5. CASE TakeBatch
  <2> DEFINE n == Q!DrainCount(limit - Len(out))
  <2>1. n \in 0..Len(rows)
    BY <1>5, <1>0 DEF TakeBatch, WithinLimit, Searching, Q!DrainCount, Q!Size
  <2>2. SubSeq(rows, 1, n) \in Seq(1..RowCount) /\ SubSeq(rows, n + 1, Len(rows)) \in Seq(1..RowCount)
    BY <1>0, <2>1, MoveFront
  <2>3. /\ rows' = SubSeq(rows, n + 1, Len(rows)) /\ taken' = taken \o SubSeq(rows, 1, n)
        /\ is_waitable' = is_waitable /\ drained' = SubSeq(rows, 1, n)
    BY <1>5, Zenon DEF TakeBatch, Q!DrainFront
  <2> HIDE DEF n
  <2>4. QueueTypes'
    BY <1>0, <2>2, <2>3, ConcatProperties DEF QueueTypes, TypeOK
  <2>5. ThreadTypes'
    BY <1>5 DEF TakeBatch, ThreadTypes, TypeOK, CallerStates
  <2>6. CallTypes'
    BY <1>5, <1>0, <2>2, <2>3 DEF TakeBatch, CallTypes, TypeOK
  <2> QED BY <2>4, <2>5, <2>6, <1>csv, <1>same DEF TypeOK
<1>6. CASE AcceptRow \/ RejectRow \/ ThrowBadRow \/ ReturnRows
  <2>1. QueueTypes'
    BY <1>6, <1>csv, SameTypes DEF AcceptRow, RejectRow, ThrowBadRow, ReturnRows
  <2>2. ThreadTypes'
    BY <1>6 DEF AcceptRow, RejectRow, ThrowBadRow, ReturnRows, Return, ThreadTypes, TypeOK,
                CallerStates
  <2>3. CallTypes'
    <3>1. CASE ReturnRows
      BY <3>1, <1>0 DEF ReturnRows, Return, CallTypes, TypeOK
    <3>2. CASE drained # <<>>
      <4>1. Head(drained) \in 1..RowCount /\ Tail(drained) \in Seq(1..RowCount)
        BY <3>2, <1>0, HeadTailProperties
      <4>2. CASE AcceptRow
        BY <4>1, <4>2, <1>0, AppendProperties DEF AcceptRow, CallTypes, TypeOK
      <4>3. CASE RejectRow
        BY <4>1, <4>3, <1>0 DEF RejectRow, CallTypes, TypeOK
      <4>4. CASE ThrowBadRow
        <5>1. {drained[k] : k \in 2..Len(drained)} \subseteq 1..RowCount
          BY <1>0, ElementOfSeq, LenProperties
        <5> QED BY <4>4, <5>1, <1>0 DEF ThrowBadRow, Return, CallTypes, TypeOK
      <4> QED BY <1>6, <3>1, <4>2, <4>3, <4>4
    <3> QED BY <1>6, <3>1, <3>2 DEF AcceptRow, RejectRow, ThrowBadRow
  <2> QED BY <2>1, <2>2, <2>3, <1>csv, <1>same DEF TypeOK
<1>7. CASE CallReadRow \/ CallReadChunk
  <2>1. PICK is_chunk \in BOOLEAN, max_rows \in Nat : Call(is_chunk, max_rows)
    BY <1>7, SourceFacts DEF CallReadRow, CallReadChunk, TypeOK
  <2>2. QueueTypes'
    BY <2>1, <1>csv, SameTypes DEF Call
  <2>3. ThreadTypes'
    BY <2>1 DEF Call, Return, ThreadTypes, TypeOK, CallerStates
  <2>4. CallTypes'
    BY <2>1, <1>0 DEF Call, Return, CallTypes, TypeOK
  <2> QED BY <2>2, <2>3, <2>4, <1>csv, <1>same DEF TypeOK
<1>8. CASE Move \/ Destroy \/ Gone
  <2>1. ThreadTypes'
    BY <1>8 DEF Move, Destroy, Gone, vars, ThreadTypes, TypeOK, WorkerStates, CallerStates
  <2> QED BY <1>8, <2>1, <1>csv, <1>same, SameTypes DEF Move, Destroy, Gone, vars, TypeOK
<1> QED BY <1>1, <1>2, <1>3, <1>4, <1>5, <1>6, <1>7, <1>8 DEF Reader, Take, Accept, Caller

LEMMA StutterType == TypeOK /\ UNCHANGED vars => TypeOK'
BY SameTypes DEF vars, TypeOK

LEMMA NextType == TypeOK /\ WithinLimit /\ [Next]_vars => TypeOK'
BY WorkerType, CallerType, StutterType DEF Next

(* A call in progress respects its limit. *)
LEMMA NextLimit == TypeOK /\ WithinLimit /\ [Next]_vars => WithinLimit'
<1> SUFFICES ASSUME TypeOK, WithinLimit, [Next]_vars PROVE WithinLimit'
  OBVIOUS
<1>0. /\ rows \in Seq(1..RowCount) /\ Len(rows) \in Nat
      /\ limit \in Nat /\ out \in Seq(1..RowCount) /\ Len(out) \in Nat
      /\ drained \in Seq(1..RowCount) /\ Len(drained) \in Nat
      /\ Len(<<>>) = 0 /\ Len(out) + Len(drained) <= limit
      /\ cpc \in Searching => Len(out) < limit /\ drained = <<>>
  BY LenProperties DEF TypeOK, QueueTypes, CallTypes, WithinLimit
<1>frame. ASSUME UNCHANGED <<out, drained, limit>>, cpc' \in Searching => Len(out) < limit /\ drained = <<>>
          PROVE  WithinLimit'
  BY <1>0, <1>frame DEF WithinLimit
<1>1. CASE Worker
  BY <1>1, <1>0, <1>frame, WorkerFrame DEF callSt
<1>2. CASE Launch
  BY <1>2, <1>0, <1>frame DEF Launch, InitialRead, InitialReadDone, AfterRun, AfterRunRethrow,
       Rethrow, Return, callSt, Searching
<1>3. CASE Check \/ StillEmpty \/ FoundRows \/ ReadMore
  <2>1. UNCHANGED <<out, drained, limit>> /\ (cpc' \in Searching => Len(out) < limit /\ drained = <<>>)
    BY <1>3, <1>0 DEF Check, SeeRows, SeeEmpty, SeeWaitable, SeeFinished, EndWait, StillEmpty,
         FoundRows, ReadMore, AtReader, callSt, Searching
  <2> QED BY <2>1, <1>frame
<1>4. CASE Joined
  BY <1>4, <1>0, <1>frame DEF Joined, JoinRethrow, JoinEof, JoinTooLarge, JoinRun, Rethrow, Return,
       callSt, Searching
<1>5. CASE TakeRow
  <2>1. Len(<<Head(rows)>>) = 1 /\ Len(out) < limit
    BY <1>5, <1>0 DEF TakeRow, Searching
  <2> QED BY <1>5, <1>0, <2>1 DEF TakeRow, WithinLimit, Searching
<1>6. CASE TakeBatch
  <2>1. Len(out) < limit
    BY <1>6, <1>0 DEF TakeBatch, Searching
  <2>2. Q!DrainCount(limit - Len(out)) \in 0..(limit - Len(out))
    BY <1>0, <2>1 DEF Q!DrainCount, Q!Size
  <2>3. Q!DrainCount(limit - Len(out)) <= Len(rows)
    BY <1>0, <2>1 DEF Q!DrainCount, Q!Size
  <2>4. Len(SubSeq(rows, 1, Q!DrainCount(limit - Len(out)))) = Q!DrainCount(limit - Len(out))
    BY <1>0, <2>2, <2>3, MoveFront
  <2> QED BY <1>6, <1>0, <2>2, <2>4 DEF TakeBatch, WithinLimit, Searching
<1>7. CASE AcceptRow \/ RejectRow
  <2>1. Len(Tail(drained)) = Len(drained) - 1 /\ Len(drained) # 0
    BY <1>7, <1>0, HeadTailProperties, EmptySeq DEF AcceptRow, RejectRow
  <2>2. Len(out') <= Len(out) + 1 /\ Len(out') \in Nat /\ limit' = limit /\ drained' = Tail(drained)
    BY <1>7, <1>0, HeadTailProperties, AppendProperties DEF AcceptRow, RejectRow
  <2>3. cpc' \notin Searching
    BY <1>7 DEF AcceptRow, RejectRow, Searching
  <2> QED BY <1>0, <2>1, <2>2, <2>3 DEF WithinLimit
<1>8. CASE ThrowBadRow
  BY <1>8, <1>0 DEF ThrowBadRow, Return, WithinLimit, Searching
<1>9. CASE ReturnRows
  BY <1>9, <1>0, <1>frame DEF ReturnRows, Return, Searching
<1>10. CASE CallReadRow \/ CallReadChunk
  <2>1. PICK is_chunk \in BOOLEAN, max_rows \in Nat : Call(is_chunk, max_rows)
    BY <1>10, SourceFacts DEF CallReadRow, CallReadChunk, TypeOK
  <2> QED BY <2>1, <1>0 DEF Call, Return, WithinLimit, Searching
<1>11. CASE Move \/ Destroy \/ Gone \/ UNCHANGED vars
  BY <1>11, <1>0, <1>frame DEF Move, Destroy, Gone, vars, callSt, Searching
<1> QED BY <1>1, <1>2, <1>3, <1>4, <1>5, <1>6, <1>7, <1>8, <1>9, <1>10, <1>11
        DEF Next, Reader, Take, Accept, Caller

LEMMA TypeInvariant == Spec => [](TypeOK /\ WithinLimit)
<1>1. Init => TypeOK /\ WithinLimit
  BY InitType DEF Init, WithinLimit, Searching
<1>2. TypeOK /\ WithinLimit /\ [Next]_vars => (TypeOK /\ WithinLimit)'
  BY NextType, NextLimit
<1> QED BY <1>1, <1>2, PTL DEF Spec

(* Every thread is always at one of its program points, and every variable  *)
(* holds a value of its type.                                               *)
THEOREM TypeCorrect == Spec => []TypeOK
BY TypeInvariant, PTL

(* read_chunk never returns more rows than it was asked for, and never asks *)
(* the queue for a negative number of rows.                                 *)
THEOREM LimitKept == Spec => []WithinLimit
BY TypeInvariant, PTL
-----------------------------------------------------------------------------
(* The order of the rows. *)

LEMMA NextInOrder == TypeOK /\ WithinLimit /\ QueueInOrder /\ [Next]_vars => QueueInOrder'
<1> SUFFICES ASSUME TypeOK, WithinLimit, QueueInOrder, [Next]_vars PROVE QueueInOrder'
  OBVIOUS
<1>0. /\ csv \in Sources /\ RowCount \in Nat /\ csv.header \in Nat \cup {-1}
      /\ parsed \in 0..RowCount
      /\ window \in [last : 0..RowCount, length : Int, end : Int, exhausted : BOOLEAN]
      /\ rows \in Seq(1..RowCount) /\ taken \in Seq(1..RowCount) /\ Len(rows) \in Nat
      /\ limit \in Nat /\ Len(out) \in Nat
      /\ taken \o rows = UpTo(parsed)
  BY SourceFacts, LenProperties
     DEF TypeOK, QueueTypes, ParserTypes, CallTypes, QueueInOrder, UpTo
<1>q. rows \in Seq(1..RowCount) /\ taken \in Seq(1..RowCount)
  BY <1>0
<1>n. Len(rows) \in Nat /\ csv.header + 1 \in Nat
  BY <1>0
<1>goal. ASSUME taken' \o rows' = UpTo(parsed') PROVE QueueInOrder'
  BY <1>goal DEF QueueInOrder, UpTo
<1>whole. taken \o rows = UpTo(parsed)
  BY <1>0
<1>frame. ASSUME UNCHANGED <<rows, taken, parsed>> PROVE QueueInOrder'
  BY <1>frame DEF QueueInOrder
<1>1. CASE WorkerNotify \/ NextWindow \/ NextFails \/ FinishWindow \/ WorkerKill \/ AdoptException
  BY <1>1, <1>frame DEF WorkerNotify, NextWindow, NextFails, FinishWindow, WorkerKill,
       AdoptException, Q!NotifyAll, Q!KillAll, queue, parserSt
<1>2. CASE PushRow
  <2> DEFINE next == parsed + 1
  <2>1. next \in 1..RowCount /\ parsed \in Nat
    BY <1>2, <1>0 DEF PushRow
  <2>2. taken' = taken /\ rows' = Append(rows, next) /\ parsed' = next
    BY <1>2 DEF PushRow, Q!PushBack
  <2>3. Append(UpTo(parsed), next) = UpTo(next)
    BY <2>1, UpToNext
  <2> HIDE DEF next
  <2>4. taken \o Append(rows, next) = Append(taken \o rows, next)
    BY <1>q, <2>1, AppendToQueued
  <2>5. taken' \o rows' = UpTo(parsed')
    <3>1. taken' \o rows' = Append(taken \o rows, next)
      BY <2>2, <2>4, Zenon
    <3>2. Append(taken \o rows, next) = UpTo(next)
      BY <1>whole, <2>3, Zenon
    <3> QED BY <3>1, <3>2, <2>2, Zenon
  <2> QED BY <1>goal, <2>5
<1>3. CASE AppendChunk
  <2>1. PICK upto \in (parsed + 1)..window.last :
          /\ Q!AppendRows([k \in 1..(upto - parsed) |-> parsed + k])
          /\ parsed' = upto
    BY <1>3 DEF AppendChunk
  <2> DEFINE batch == [k \in 1..(upto - parsed) |-> parsed + k]
  <2>2. parsed \in Nat /\ upto \in Nat /\ parsed <= upto /\ upto <= RowCount
    BY <1>0
  <2>3. batch \in Seq(1..upto) /\ UpTo(parsed) \o batch = UpTo(upto)
    BY <2>2, UpToBatch
  <2>4. batch \in Seq(1..RowCount)
    BY <2>2, <1>0
  <2>5. taken' = taken /\ rows' = rows \o batch
    BY <2>1, Zenon DEF Q!AppendRows
  <2> HIDE DEF batch
  <2>6. (taken \o rows) \o batch = taken \o (rows \o batch)
    <3> DEFINE S == 1..RowCount
    <3>1. taken \in Seq(S) /\ rows \in Seq(S) /\ batch \in Seq(S)
      BY <1>q, <2>4
    <3> HIDE DEF S
    <3> QED BY ONLY <3>1, ConcatAssociative
  <2>7. taken' \o rows' = UpTo(parsed')
    <3>1. taken' \o rows' = (taken \o rows) \o batch
      BY <2>5, <2>6, Zenon
    <3>2. (taken \o rows) \o batch = UpTo(upto)
      BY <1>whole, <2>3, Zenon
    <3> QED BY <3>1, <3>2, <2>1, Zenon
  <2> QED BY <1>goal, <2>7
<1>4. CASE TrimHeader
  <2>1. CASE header_trimmed
    BY <1>4, <2>1, <1>frame DEF TrimHeader, queue, parserSt
  <2>2. CASE ~header_trimmed
    <3> DEFINE n == Q!DrainCount(csv.header + 1)
    <3>1. n \in 0..Len(rows)
      BY <1>n DEF Q!DrainCount, Q!Size
    <3>2. /\ rows' = SubSeq(rows, n + 1, Len(rows)) /\ taken' = taken \o SubSeq(rows, 1, n)
          /\ parsed' = parsed
      BY <1>4, <2>2 DEF TrimHeader, Q!DrainFront, parserSt
    <3> HIDE DEF n
    <3>3. (taken \o SubSeq(rows, 1, n)) \o SubSeq(rows, n + 1, Len(rows)) = taken \o rows
      BY ONLY <1>q, <3>1, WholeKept, ZenonT(60)
    <3> QED BY <3>2, <3>3 DEF QueueInOrder
  <2> QED BY <2>1, <2>2
<1>5. CASE Launch \/ Check \/ StillEmpty \/ FoundRows \/ Accept \/ Caller \/ Gone \/ UNCHANGED vars
  <2>1. UNCHANGED parserSt
    BY <1>5, CallerFrame DEF Reader, Take, vars
  <2>2. UNCHANGED queue
    BY <1>5 DEF Launch, InitialRead, InitialReadDone, AfterRun, AfterRunRethrow, Check, SeeRows,
         SeeEmpty, SeeWaitable, SeeFinished, EndWait, StillEmpty, FoundRows, AtReader, Accept,
         AcceptRow, RejectRow, ThrowBadRow, ReturnRows, ReadMore, Caller, CallReadRow,
         CallReadChunk, Call, Move, Destroy, Gone, vars
  <2> QED BY <2>1, <2>2, <1>frame DEF queue, parserSt
<1>6. CASE Joined
  BY <1>6, <1>frame DEF Joined, JoinRethrow, JoinEof, JoinTooLarge, JoinRun, Q!NotifyAll,
       queue, parserSt
<1>7. CASE TakeRow
  <2>1. rows # <<>> /\ taken' = Append(taken, Head(rows)) /\ rows' = Tail(rows)
        /\ UNCHANGED parserSt
    BY <1>7 DEF TakeRow, Q!PopFront
  <2>2. Append(taken, Head(rows)) \o Tail(rows) = taken \o rows
    BY ONLY <1>q, <2>1, MoveHead, ZenonT(60)
  <2> QED BY <2>1, <2>2 DEF QueueInOrder, parserSt
<1>8. CASE TakeBatch
  <2> DEFINE n == Q!DrainCount(limit - Len(out))
  <2>1. n \in 0..Len(rows)
    BY <1>8, <1>0 DEF TakeBatch, WithinLimit, Searching, Q!DrainCount, Q!Size
  <2>2. /\ rows' = SubSeq(rows, n + 1, Len(rows)) /\ taken' = taken \o SubSeq(rows, 1, n)
        /\ parsed' = parsed
    BY <1>8 DEF TakeBatch, Q!DrainFront, parserSt
  <2> HIDE DEF n
  <2>3. (taken \o SubSeq(rows, 1, n)) \o SubSeq(rows, n + 1, Len(rows)) = taken \o rows
    BY ONLY <1>q, <2>1, WholeKept, ZenonT(60)
  <2> QED BY <2>2, <2>3 DEF QueueInOrder
<1> QED BY <1>1, <1>2, <1>3, <1>4, <1>5, <1>6, <1>7, <1>8 DEF Next, Worker, Reader, Take

(* Between the worker and the caller no row is lost, repeated or overtaken, *)
(* whatever the interleaving and wherever the windows end.                  *)
THEOREM RowsInOrder == Spec => []QueueInOrder
<1>1. Init => QueueInOrder
  BY DEF Init, Q!Init, QueueInOrder
<1>2. TypeOK /\ WithinLimit /\ QueueInOrder /\ [Next]_vars => QueueInOrder'
  BY NextInOrder
<1> QED BY <1>1, <1>2, TypeInvariant, PTL DEF Spec
-----------------------------------------------------------------------------
(* The two threads: announcements, phases, and what "end" means. *)

LEMMA NextWaitable ==
  TypeOK /\ WaitableMeansWorking /\ [Next]_vars => WaitableMeansWorking'
<1> SUFFICES ASSUME TypeOK, WaitableMeansWorking, [Next]_vars PROVE WaitableMeansWorking'
  OBVIOUS
<1>1. CASE Worker
  BY <1>1 DEF Worker, WorkerNotify, NextWindow, NextFails, PushRow, AppendChunk, FinishWindow,
       TrimHeader, WorkerKill, AdoptException, Q!NotifyAll, Q!PushBack, Q!AppendRows,
       Q!DrainFront, Q!KillAll, queue, WaitableMeansWorking
<1>2. CASE Launch
  BY <1>2 DEF Launch, InitialRead, InitialReadDone, AfterRun, AfterRunRethrow, StartWorker,
       Joinable, queue, WaitableMeansWorking
<1>3. CASE Check \/ Take \/ Accept
  <2>1. wpc' = wpc /\ is_waitable' = is_waitable
    BY <1>3 DEF Check, SeeRows, SeeEmpty, SeeWaitable, SeeFinished, EndWait, Take, StillEmpty,
         FoundRows, TakeRow, TakeBatch, Q!PopFront, Q!DrainFront, Accept, AcceptRow, RejectRow,
         ThrowBadRow, ReturnRows, ReadMore, AtReader, queue
  <2> QED BY <2>1 DEF WaitableMeansWorking
<1>4. CASE Joined
  BY <1>4 DEF Joined, JoinRethrow, JoinEof, JoinTooLarge, JoinRun, StartWorker, Joinable,
       Q!NotifyAll, queue, WaitableMeansWorking
<1>5. CASE Caller \/ Gone \/ UNCHANGED vars
  BY <1>5 DEF Caller, CallReadRow, CallReadChunk, Call, Move, Destroy, Gone, vars, Joinable,
       queue, WaitableMeansWorking
<1> QED BY <1>1, <1>2, <1>3, <1>4, <1>5 DEF Next, Reader

(* A window at the end of the source holds all the rows that are left. *)
LEMMA LastWindow ==
  ASSUME TypeOK, NextWindow, window'.exhausted
  PROVE  window'.last = RowCount
<1>0. RowCount \in Nat /\ parsed \in 0..RowCount
  BY SourceFacts DEF TypeOK, ParserTypes
<1>1. PICK last \in 0..RowCount :
        /\ LastComplete(last)
        /\ window' = [last |-> last, length |-> WindowLength,
                      end |-> Position + WindowLength, exhausted |-> SourceExhausted]
  BY DEF NextWindow
<1>2. SourceExhausted /\ window'.last = last
  BY <1>1
<1>3. last + 1 \in Nat /\ CompleteInWindow(last + 1)
  BY <1>0, <1>2 DEF CompleteInWindow
<1>4. ~(last < RowCount)
  BY <1>1, <1>3 DEF LastComplete
<1> QED BY <1>0, <1>2, <1>4

LEMMA NextPhases == TypeOK /\ Phases /\ [Next]_vars => Phases'
<1> SUFFICES ASSUME TypeOK, Phases, [Next]_vars PROVE Phases'
  OBVIOUS
<1>0. /\ RowCount \in Nat /\ RowCount' = RowCount
      /\ parsed \in 0..RowCount
      /\ window \in [last : 0..RowCount, length : Int, end : Int, exhausted : BOOLEAN]
      /\ exception \in {None, "io_error"}
  <2>1. csv' = csv
    BY WorkerFrame, CallerFrame DEF Next, vars
  <2> QED BY <2>1, SameTypes, SourceFacts DEF TypeOK, ParserTypes, ThreadTypes
<1>1. CASE Worker
  <2>0. cpc' = cpc /\ ret' = ret
    BY <1>1, WorkerFrame DEF callSt
  <2>1. CASE NextWindow
    BY <2>0, <2>1, <1>0, LastWindow DEF NextWindow, header, Phases
  <2>2. CASE PushRow
    BY <2>0, <2>2, <1>0 DEF PushRow, header, Phases
  <2>3. CASE AppendChunk
    <3>1. parsed < window.last
      BY <2>3, <1>0 DEF AppendChunk
    <3>2. ~eof
      BY <3>1, <1>0 DEF Phases
    <3> QED BY <2>0, <2>3, <3>2, <1>0 DEF AppendChunk, header, Phases
  <2>4. CASE FinishWindow
    BY <2>0, <2>4, <1>0 DEF FinishWindow, header, Phases
  <2>5. CASE TrimHeader
    BY <2>0, <2>5, <1>0 DEF TrimHeader, header, parserSt, Phases
  <2>6. CASE WorkerNotify \/ NextFails \/ WorkerKill
    BY <2>0, <2>6, <1>0 DEF WorkerNotify, NextFails, WorkerKill, header, parserSt, Phases
  <2>7. CASE AdoptException
    BY <2>0, <2>7, <1>0 DEF AdoptException, header, parserSt, Phases, None
  <2> QED BY <1>1, <2>1, <2>2, <2>3, <2>4, <2>5, <2>6, <2>7 DEF Worker
<1>frame. ASSUME ~Worker
          PROVE  UNCHANGED <<parsed, window, eof, header_trimmed>>
  BY <1>frame, CallerFrame DEF Next, vars, parserSt, header
<1>2. CASE ~Worker /\ Launch
  <2>1. CASE InitialRead
    BY <1>2, <2>1, <1>0, <1>frame DEF InitialRead, StartWorker, Phases
  <2>2. CASE InitialReadDone
    BY <1>2, <2>2, <1>0, <1>frame DEF InitialReadDone, Joinable, Phases, None
  <2>3. CASE AfterRun
    BY <1>2, <2>3, <1>0, <1>frame DEF AfterRun, Phases
  <2>4. CASE AfterRunRethrow
    BY <1>2, <2>4, <1>0, <1>frame DEF AfterRunRethrow, Rethrow, Return, Phases, None
  <2> QED BY <1>2, <2>1, <2>2, <2>3, <2>4 DEF Launch
<1>3. CASE ~Worker /\ (Check \/ StillEmpty \/ FoundRows \/ ReadMore)
  BY <1>3, <1>0, <1>frame DEF Check, SeeRows, SeeEmpty, SeeWaitable, SeeFinished, EndWait,
       StillEmpty, FoundRows, ReadMore, AtReader, Phases
<1>4. CASE ~Worker /\ Joined
  BY <1>4, <1>0, <1>frame DEF Joined, JoinRethrow, JoinEof, JoinTooLarge, JoinRun, StartWorker,
       Joinable, Rethrow, Return, Phases, None
<1>5. CASE ~Worker /\ (TakeRow \/ TakeBatch)
  BY <1>5, <1>0, <1>frame DEF TakeRow, TakeBatch, Phases
<1>6. CASE ~Worker /\ (AcceptRow \/ RejectRow \/ ThrowBadRow \/ ReturnRows)
  BY <1>6, <1>0, <1>frame DEF AcceptRow, RejectRow, ThrowBadRow, ReturnRows, Return, Phases
<1>7. CASE ~Worker /\ (Caller \/ Gone \/ UNCHANGED vars)
  BY <1>7, <1>0, <1>frame DEF Caller, CallReadRow, CallReadChunk, Call, Return, Move, Destroy,
       Gone, vars, Joinable, callSt, Phases, None
<1> QED BY <1>1, <1>2, <1>3, <1>4, <1>5, <1>6, <1>7 DEF Next, Reader, Take, Accept

(* Once the header is trimmed the worker removes nothing from the queue. *)
LEMMA NextTake == TypeOK /\ Phases /\ TakeFindsRow /\ [Next]_vars => TakeFindsRow'
<1> SUFFICES ASSUME TypeOK, Phases, TakeFindsRow, [Next]_vars, cpc' = "take"
             PROVE  rows' # <<>>
  BY DEF TakeFindsRow
<1>0. rows \in Seq(1..RowCount) /\ RowCount \in Nat /\ parsed \in 0..RowCount
      /\ window \in [last : 0..RowCount, length : Int, end : Int, exhausted : BOOLEAN]
  BY SourceFacts DEF TypeOK, QueueTypes, ParserTypes
<1>1. CASE Worker
  <2>1. cpc = "take" /\ rows # <<>> /\ header_trimmed
    BY <1>1, WorkerFrame DEF TakeFindsRow, Phases
  <2>2. CASE PushRow
    BY <2>2, <1>0, AppendProperties DEF PushRow, Q!PushBack
  <2>3. CASE AppendChunk
    <3>1. PICK upto \in (parsed + 1)..window.last :
            rows' = rows \o [k \in 1..(upto - parsed) |-> parsed + k]
      BY <2>3, Zenon DEF AppendChunk, Q!AppendRows
    <3>2. [k \in 1..(upto - parsed) |-> parsed + k] \in Seq(1..RowCount)
      BY <1>0
    <3> QED BY <2>1, <3>1, <3>2, <1>0, ConcatEmptySeq, ConcatProperties, EmptySeq
  <2>4. CASE ~PushRow /\ ~AppendChunk
    BY <1>1, <2>1, <2>4 DEF Worker, WorkerNotify, NextWindow, NextFails, FinishWindow, TrimHeader,
         WorkerKill, AdoptException, Q!NotifyAll, Q!KillAll, queue
  <2> QED BY <2>2, <2>3, <2>4
<1>2. CASE Reader \/ Caller \/ Gone \/ UNCHANGED vars
  <2>1. CASE FoundRows
    BY <2>1 DEF FoundRows, AtReader, Q!Empty, queue
  <2>2. CASE ~FoundRows /\ ~Gone /\ ~UNCHANGED vars
    BY <1>2, <2>2 DEF Reader, Launch, InitialRead, InitialReadDone, AfterRun, AfterRunRethrow, Check,
         SeeRows, SeeEmpty, SeeWaitable, SeeFinished, EndWait, Joined, JoinRethrow, JoinEof,
         JoinTooLarge, JoinRun, Take, StillEmpty, TakeRow, TakeBatch, Accept, AcceptRow,
         RejectRow, ThrowBadRow, ReturnRows, ReadMore, AtReader, Rethrow, Return, Caller,
         CallReadRow, CallReadChunk, Call, Move, Destroy
  <2>3. CASE Gone \/ UNCHANGED vars
    BY <2>3 DEF Gone, vars, queue, TakeFindsRow
  <2> QED BY <1>2, <2>1, <2>2, <2>3
<1> QED BY <1>1, <1>2 DEF Next

LEMMA NextEnd == TypeOK /\ Phases /\ EndMeansParsed /\ [Next]_vars => EndMeansParsed'
<1> SUFFICES ASSUME TypeOK, Phases, EndMeansParsed, [Next]_vars, cpc' = "idle", ret' = "end"
             PROVE  (eof /\ parsed = RowCount /\ exception = None)'
  BY DEF EndMeansParsed
<1>0. RowCount' = RowCount /\ exception \in {None, "io_error"}
  <2>1. csv' = csv
    BY WorkerFrame, CallerFrame DEF Next, vars
  <2> QED BY <2>1, SameTypes DEF TypeOK, ThreadTypes
<1>1. CASE Worker
  <2>1. cpc = "idle" /\ ret = "end"
    BY <1>1, WorkerFrame DEF callSt
  <2>2. wpc = "off"
    BY <2>1 DEF Phases
  <2> QED BY <1>1, <2>2 DEF Worker, WorkerNotify, NextWindow, NextFails, PushRow, AppendChunk,
            FinishWindow, TrimHeader, WorkerKill, AdoptException
<1>2. CASE ~Worker
  <2>1. UNCHANGED <<parsed, eof>>
    BY <1>2, CallerFrame DEF Next, vars, parserSt
  <2>2. CASE JoinEof
    BY <2>1, <2>2, <1>0 DEF JoinEof, Phases
  <2>3. CASE Move \/ Destroy \/ Gone \/ UNCHANGED vars
    BY <2>1, <2>3, <1>0 DEF Move, Destroy, Gone, vars, callSt, EndMeansParsed
  <2>4. CASE Launch
    BY <2>4, <1>0 DEF Launch, InitialRead, InitialReadDone, AfterRun, AfterRunRethrow, Rethrow,
         Return, None
  <2>5. CASE Check \/ Take \/ Accept
    BY <2>5 DEF Check, SeeRows, SeeEmpty, SeeWaitable, SeeFinished, EndWait, Take, StillEmpty,
         FoundRows, TakeRow, TakeBatch, Accept, AcceptRow, RejectRow, ThrowBadRow, ReturnRows,
         ReadMore, AtReader, Return
  <2>6. CASE JoinRethrow \/ JoinTooLarge \/ JoinRun
    BY <2>6, <1>0 DEF JoinRethrow, JoinTooLarge, JoinRun, Rethrow, Return, None
  <2>7. CASE CallReadRow \/ CallReadChunk
    BY <2>7 DEF CallReadRow, CallReadChunk, Call, Return, None
  <2> QED BY <1>2, <2>2, <2>3, <2>4, <2>5, <2>6, <2>7 DEF Next, Reader, Joined, Caller
<1> QED BY <1>1, <1>2

(* The exception slot is emptied only by a call that throws what it held. *)
LEMMA StepReportsError ==
  TypeOK /\ Phases /\ [Next]_vars
    => [exception # None /\ exception' = None => ret' = exception]_vars
<1> SUFFICES ASSUME TypeOK, Phases, Next, exception # None, exception' = None
             PROVE  ret' = exception
  OBVIOUS
<1>1. CASE Worker
  BY <1>1 DEF Worker, WorkerNotify, NextWindow, NextFails, PushRow, AppendChunk,
       FinishWindow, TrimHeader, WorkerKill, AdoptException, None
<1>2. CASE Launch
  BY <1>2 DEF Launch, InitialRead, InitialReadDone, AfterRun, AfterRunRethrow, Rethrow, Return,
       Phases
<1>3. CASE Check \/ Take \/ Accept
  BY <1>3 DEF Check, SeeRows, SeeEmpty, SeeWaitable, SeeFinished, EndWait, Take, StillEmpty,
       FoundRows, TakeRow, TakeBatch, Accept, AcceptRow, RejectRow, ThrowBadRow, ReturnRows,
       ReadMore, AtReader
<1>4. CASE Joined
  BY <1>4 DEF Joined, JoinRethrow, JoinEof, JoinTooLarge, JoinRun, Rethrow, Return
<1>5. CASE Caller \/ Gone
  BY <1>5 DEF Caller, CallReadRow, CallReadChunk, Call, Move, Destroy, Gone, vars
<1> QED BY <1>1, <1>2, <1>3, <1>4, <1>5 DEF Next, Reader

(* The invariant, inductive as a whole. *)
LEMMA Invariance == Spec => []Inv
<1>1. Init => Inv
  BY InitType DEF Init, Q!Init, Inv, WithinLimit, Searching, QueueInOrder, WaitableMeansWorking,
     TakeFindsRow, Phases, EndMeansParsed, None
<1>2. Inv /\ [Next]_vars => Inv'
  BY NextType, NextLimit, NextInOrder, NextWaitable, NextTake, NextPhases, NextEnd DEF Inv
<1> QED BY <1>1, <1>2, PTL DEF Spec

(* While the queue is waitable, a worker is on its way to kill_all: wait()  *)
(* never waits for nobody.                                                  *)
THEOREM NobodyWaitsAlone == Spec => []WaitableMeansWorking
<1>1. Inv => WaitableMeansWorking
  BY DEF Inv
<1> QED BY <1>1, Invariance, PTL

(* pop_front and drain_front find the row that the caller saw. *)
THEOREM NoEmptyPop == Spec => []TakeFindsRow
<1>1. Inv => TakeFindsRow
  BY DEF Inv
<1> QED BY <1>1, Invariance, PTL

(* The phases of the reader's life follow each other as described. *)
THEOREM PhasesHold == Spec => []Phases
<1>1. Inv => Phases
  BY DEF Inv
<1> QED BY <1>1, Invariance, PTL

(* A call that answers "end" has seen the whole source parsed and no error. *)
THEOREM EndIsTheEnd == Spec => []EndMeansParsed
<1>1. Inv => EndMeansParsed
  BY DEF Inv
<1> QED BY <1>1, Invariance, PTL

(* No exception of the worker is ever discarded. *)
THEOREM ErrorsAreReported == Spec => ErrorReachesCaller
<1>1. Inv /\ [Next]_vars => [exception # None /\ exception' = None => ret' = exception]_vars
  BY StepReportsError DEF Inv
<1> QED BY <1>1, Invariance, PTL DEF Spec, ErrorReachesCaller
-----------------------------------------------------------------------------
(* What the caller has received. *)

(* The rows up to the header row end in the bytes read to guess the format: *)
(* a header that ends behind them trim_header does not find.                *)
HeaderInHead(s) == \A i \in DOMAIN s.rows : i <= s.header + 1 => s.rows[i].end <= s.head

(* Until the header is trimmed nothing is taken off the queue, and the      *)
(* window that is parsed, the first, holds the rows up to the header row.   *)
FirstWindow ==
  ~header_trimmed =>
    /\ taken = <<>> /\ drained = <<>> /\ delivered = <<>>
    /\ n_cols = csv.n_cols /\ col_names_set = csv.named
    /\ wpc \notin {"push", "trim"} =>
          /\ parsed = 0 /\ head_pending = csv.mmap
          /\ leftover = IF csv.mmap THEN 0
                        ELSE IF csv.head < SourceSize THEN csv.head ELSE SourceSize
    /\ wpc \in {"push", "trim"} =>
          \A i \in 1..RowCount : i <= csv.header + 1 => i <= window.last
    /\ wpc = "trim" => parsed = window.last

(* The rows taken off the queue and done with: trimmed, delivered, rejected, *)
(* or thrown away.                                                          *)
Done == Len(taken) - Len(drained)

InHand ==
  /\ Len(drained) <= Len(taken)
  /\ \A k \in 1..Len(drained) : drained[k] = Done + k
  /\ cpc # "accept" => drained = <<>>

Received ==
  /\ \A m, n \in 1..Len(delivered) : m < n => delivered[m] < delivered[n]
  /\ \A n \in 1..Len(delivered) :
        delivered[n] <= Done /\ Wanted(delivered[n]) /\ Owed(delivered[n])
  /\ \A i \in 1..Done : Wanted(i) /\ Owed(i) => \E m \in 1..Len(delivered) : delivered[m] = i
  /\ swept \subseteq 1..Done

Header ==
  header_trimmed =>
    /\ n_cols = FinalCols
    /\ \A i \in 1..RowCount : i > Done => i > csv.header + 1

Delivery == FirstWindow /\ InHand /\ Received /\ Header

(* What QueueInOrder says of the two halves. *)
LEMMA TakenFacts ==
  ASSUME TypeOK, QueueInOrder
  PROVE  /\ Len(taken) \in Nat /\ Len(rows) \in Nat /\ Len(taken) + Len(rows) = parsed
         /\ parsed \in 0..RowCount /\ RowCount \in Nat
         /\ \A i \in 1..Len(taken) : taken[i] = i
         /\ \A k \in 1..Len(rows) : rows[k] = Len(taken) + k
<1>1. /\ taken \in Seq(1..RowCount) /\ rows \in Seq(1..RowCount) /\ parsed \in 0..RowCount
      /\ RowCount \in Nat
  BY SourceFacts DEF TypeOK, QueueTypes, ParserTypes
<1>2. Len(taken) \in Nat /\ Len(rows) \in Nat
  BY <1>1, LenProperties
<1> DEFINE both == taken \o rows
<1>3. /\ Len(both) = Len(taken) + Len(rows)
      /\ \A i \in 1..(Len(taken) + Len(rows)) :
           both[i] = IF i <= Len(taken) THEN taken[i] ELSE rows[i - Len(taken)]
  BY <1>1, ConcatProperties
<1>4. Len(both) = parsed /\ \A i \in 1..parsed : both[i] = i
  BY <1>1, UpToType DEF QueueInOrder, UpTo
<1> HIDE DEF both
<1>5. \A i \in 1..Len(taken) : taken[i] = i
  BY <1>2, <1>3, <1>4
<1>6. ASSUME NEW k \in 1..Len(rows) PROVE rows[k] = Len(taken) + k
  <2>1. /\ Len(taken) + k \in 1..(Len(taken) + Len(rows)) /\ ~(Len(taken) + k <= Len(taken))
        /\ (Len(taken) + k) - Len(taken) = k
    BY <1>2
  <2> QED BY <1>3, <1>4, <2>1
<1> QED BY <1>1, <1>2, <1>3, <1>4, <1>5, <1>6

(* The first window: at least the head, and all of a source that is not     *)
(* longer.                                                                  *)
LEMMA FirstRead ==
  ASSUME TypeOK, HeaderInHead(csv), parsed = 0, head_pending = csv.mmap,
         leftover = IF csv.mmap THEN 0
                    ELSE IF csv.head < SourceSize THEN csv.head ELSE SourceSize,
         NEW last \in 0..RowCount, LastComplete(last)
  PROVE  \A i \in 1..RowCount : i <= csv.header + 1 => i <= last
<1>1. /\ csv \in Sources /\ RowCount \in Nat /\ csv.header + 1 \in Nat
      /\ csv.head \in Nat /\ csv.chunk \in Nat \ {0} /\ csv.mmap \in BOOLEAN
  BY SourceFacts DEF TypeOK
<1>2. /\ \A i \in 0..RowCount : EndOf(i) \in Nat
      /\ \A i, j \in 1..RowCount : i < j => EndOf(i) < EndOf(j)
  <2>1. IsSource(csv)
    BY <1>1, SourcesAssumption
  <2>2. DOMAIN csv.rows = 1..RowCount
    BY <2>1, LenProperties DEF IsSource, RowCount
  <2>3. \A i \in 1..RowCount : EndOf(i) = csv.rows[i].end
    BY <1>1 DEF EndOf
  <2>4. \A i, j \in 1..RowCount : i < j => csv.rows[i].end < csv.rows[j].end
    BY <2>1, <2>2 DEF IsSource
  <2>5. \A i \in 1..RowCount : csv.rows[i].end \in Nat
    BY <1>1, SourceFacts
  <2>6. EndOf(0) = 0
    BY DEF EndOf
  <2> QED BY <1>1, <2>3, <2>4, <2>5, <2>6
<1>3. Position = 0 /\ SourceSize \in Nat /\ Remaining = SourceSize
  BY <1>1, <1>2 DEF Position, EndOf, SourceSize, Remaining
<1>4. stream_window_size \in Nat
  <2>1. \A a, b \in Nat : a * b \in Nat
    OBVIOUS
  <2>2. read_window_size \in Nat
    BY <1>1, <2>1, SourceFacts DEF read_window_size
  <2> QED BY <1>1, <2>2, SourceFacts DEF stream_window_size, stream_window_cap
<1>5. /\ WindowLimit \in Int
      /\ (WindowLimit >= csv.head \/ WindowLimit > SourceSize)
      /\ SourceSize <= csv.head => SourceExhausted
  <2>1. CASE csv.mmap
    <3>1. WindowLimit = csv.head
      BY <2>1 DEF WindowLimit
    <3>2. SourceSize <= csv.head => WindowLength = Remaining
      BY <1>1, <1>3, <3>1 DEF WindowLength
    <3>3. SourceSize <= csv.head => SourceExhausted
      BY <2>1, <3>2, Zenon DEF SourceExhausted
    <3> QED BY <1>1, <3>1, <3>3
  <2>2. CASE ~csv.mmap
    <3>1. leftover = IF csv.head < SourceSize THEN csv.head ELSE SourceSize
      BY <2>2
    <3>2. WindowLimit = IF leftover < stream_window_size THEN stream_window_size
                                                         ELSE leftover + csv.chunk
      BY <2>2 DEF WindowLimit
    <3>3. WindowLimit \in Int /\ WindowLimit > leftover
      BY <1>1, <1>3, <1>4, <3>1, <3>2
    <3>4. SourceSize <= csv.head => WindowLimit > Remaining
      BY <1>1, <1>3, <3>1, <3>3
    <3>5. SourceSize <= csv.head => SourceExhausted
      BY <2>2, <3>4, Zenon DEF SourceExhausted
    <3>6. (WindowLimit >= csv.head \/ WindowLimit > SourceSize)
      BY <1>1, <1>3, <3>1, <3>3
    <3> QED BY <3>3, <3>5, <3>6
  <2> QED BY <1>1, <2>1, <2>2
<1> SUFFICES ASSUME NEW i \in 1..RowCount, i <= csv.header + 1, i > last PROVE FALSE
  BY <1>1
<1>6. last + 1 \in 1..RowCount /\ last + 1 <= csv.header + 1 /\ last < RowCount
  BY <1>1
<1>7. EndOf(last + 1) <= csv.head
  <2>1. IsSource(csv)
    BY <1>1, SourcesAssumption
  <2>2. DOMAIN csv.rows = 1..RowCount
    BY <2>1, LenProperties DEF IsSource, RowCount
  <2>3. csv.rows[last + 1].end <= csv.head
    BY <1>6, <2>2 DEF HeaderInHead
  <2> QED BY <1>6, <2>3 DEF EndOf
<1>8. EndOf(last + 1) <= SourceSize
  <2>1. SourceSize = EndOf(RowCount) /\ RowCount \in 1..RowCount
    BY <1>1, <1>6 DEF SourceSize
  <2>2. last + 1 < RowCount \/ last + 1 = RowCount
    BY <1>1, <1>6
  <2>3. EndOf(RowCount) \in Nat /\ EndOf(last + 1) \in Nat
    BY <1>1, <1>2, <1>6
  <2> QED BY <1>2, <1>6, <2>1, <2>2, <2>3
<1>9. CompleteInWindow(last + 1)
  <2>1. CASE SourceExhausted
    BY <2>1 DEF CompleteInWindow
  <2>2. CASE ~SourceExhausted
    <3>1. csv.head < SourceSize
      BY <1>1, <1>3, <1>5, <2>2
    <3>2. EndOf(last + 1) \in Nat /\ WindowLength \in Int
      BY <1>2, <1>6, OffsetFacts
    <3>3. EndOf(last + 1) <= Position + WindowLength
      <4>1. WindowLength = WindowLimit \/ WindowLength = SourceSize
        BY <1>3 DEF WindowLength
      <4> QED BY <1>1, <1>3, <1>5, <1>7, <1>8, <3>2, <4>1
    <3>4. last + 1 # RowCount
      BY <1>7, <3>1, <3>2, <1>1, <1>3 DEF SourceSize
    <3>5. last + 1 < RowCount
      BY <1>1, <1>6, <3>4
    <3> QED BY <3>3, <3>5 DEF CompleteInWindow
  <2> QED BY <2>1, <2>2
<1> QED BY <1>6, <1>9 DEF LastComplete

(* Which rows are wanted depends on the source alone. *)
LEMMA SameWanted ==
  ASSUME csv' = csv
  PROVE  /\ \A i : Wanted(i)' = Wanted(i)
         /\ FinalCols' = FinalCols /\ RowCount' = RowCount
         /\ SourceSize' = SourceSize
BY DEF Wanted, FinalCols, HasHeaderRow, ColsOf, RowCount, SourceSize, EndOf

(* A step that takes no row, and does nothing with those in hand. *)
LEMMA SameReceived ==
  ASSUME Received, UNCHANGED <<csv, taken, drained, delivered, swept>>
  PROVE  Received'
<1>1. Done' = Done /\ \A i : Wanted(i)' = Wanted(i)
  BY SameWanted DEF Done
<1>2. \A i : Owed(i)' = Owed(i)
  BY DEF Owed
<1> QED BY <1>1, <1>2 DEF Received

LEMMA SameInHand ==
  ASSUME InHand, UNCHANGED <<taken, drained>>, cpc' # "accept" => drained = <<>>
  PROVE  InHand'
BY DEF InHand, Done

LEMMA SameHeader ==
  ASSUME Header, UNCHANGED <<csv, taken, drained, header_trimmed, n_cols>>
  PROVE  Header'
<1>1. Done' = Done /\ FinalCols' = FinalCols /\ RowCount' = RowCount
  BY SameWanted DEF Done
<1> QED BY <1>1 DEF Header

(* The worker parses, and at the end of the first window trims. *)
LEMMA WorkerFirstWindow ==
  ASSUME TypeOK, Phases, FirstWindow, HeaderInHead(csv), Worker
  PROVE  FirstWindow'
<1> SUFFICES ASSUME ~header_trimmed' PROVE FirstWindow'
  BY DEF FirstWindow
<1>0. /\ csv' = csv /\ UNCHANGED <<drained, delivered, cpc>>
      /\ RowCount' = RowCount /\ SourceSize' = SourceSize
  BY WorkerFrame, SameWanted DEF callSt
<1>1. ~header_trimmed
  BY DEF Worker, WorkerNotify, NextWindow, NextFails, PushRow, AppendChunk, FinishWindow,
     TrimHeader, WorkerKill, AdoptException, header
<1>2. /\ taken = <<>> /\ drained = <<>> /\ delivered = <<>>
      /\ n_cols = csv.n_cols /\ col_names_set = csv.named
  BY <1>1 DEF FirstWindow
<1>3. CASE WorkerNotify \/ NextFails \/ WorkerKill \/ AdoptException
  <2>1. /\ UNCHANGED <<taken, parsed, head_pending, leftover, n_cols, col_names_set>>
        /\ wpc' \notin {"push", "trim"}
    BY <1>3 DEF WorkerNotify, NextFails, WorkerKill, AdoptException, Q!NotifyAll, Q!KillAll,
         queue, parserSt, header
  <2>2. wpc \notin {"push", "trim"}
    BY <1>3 DEF WorkerNotify, NextFails, WorkerKill, AdoptException
  <2> QED BY <1>0, <1>1, <1>2, <2>1, <2>2 DEF FirstWindow
<1>4. CASE NextWindow
  <2>1. PICK last \in 0..RowCount : LastComplete(last) /\ window'.last = last
    BY <1>4 DEF NextWindow
  <2>2. parsed = 0 /\ head_pending = csv.mmap
        /\ leftover = IF csv.mmap THEN 0 ELSE IF csv.head < SourceSize THEN csv.head ELSE SourceSize
    BY <1>1, <1>4 DEF FirstWindow, NextWindow
  <2>3. \A i \in 1..RowCount : i <= csv.header + 1 => i <= window'.last
    BY <2>1, <2>2, FirstRead
  <2>4. wpc' = "push" /\ UNCHANGED <<taken, n_cols, col_names_set>>
    BY <1>4 DEF NextWindow, queue, header
  <2> QED BY <1>0, <1>2, <2>3, <2>4 DEF FirstWindow
<1>5. CASE PushRow \/ AppendChunk
  <2>1. wpc = "push" /\ wpc' = "push" /\ UNCHANGED <<taken, window, n_cols, col_names_set>>
    BY <1>5 DEF PushRow, AppendChunk, Q!PushBack, Q!AppendRows, header
  <2> QED BY <1>0, <1>1, <1>2, <2>1 DEF FirstWindow
<1>6. CASE FinishWindow
  <2>1. /\ wpc = "push" /\ wpc' = "trim" /\ parsed = window.last
        /\ UNCHANGED <<taken, window, parsed, n_cols, col_names_set>>
    BY <1>6 DEF FinishWindow, queue, header
  <2> QED BY <1>0, <1>1, <1>2, <2>1 DEF FirstWindow
<1>7. ~TrimHeader
  <2>1. TrimHeader => header_trimmed'
    BY <1>1 DEF TrimHeader
  <2> QED BY <2>1
<1> QED BY <1>3, <1>4, <1>5, <1>6, <1>7 DEF Worker

LEMMA TrimDelivers ==
  ASSUME TypeOK, QueueInOrder, Phases, Delivery, TrimHeader, ~header_trimmed
  PROVE  InHand' /\ Received' /\ Header'
<1> DEFINE n == Q!DrainCount(csv.header + 1)
<1>0. /\ csv' = csv /\ UNCHANGED <<drained, delivered, swept, cpc>>
      /\ RowCount' = RowCount /\ FinalCols' = FinalCols /\ \A i : Wanted(i)' = Wanted(i)
  BY WorkerFrame, SameWanted DEF callSt, Worker
<1>1. /\ taken = <<>> /\ drained = <<>> /\ delivered = <<>> /\ parsed = window.last
      /\ n_cols = csv.n_cols /\ col_names_set = csv.named
      /\ \A i \in 1..RowCount : i <= csv.header + 1 => i <= window.last
  BY DEF Delivery, FirstWindow, TrimHeader
<1>2. /\ Len(taken) = 0 /\ Len(rows) = parsed /\ parsed \in 0..RowCount /\ RowCount \in Nat
      /\ \A k \in 1..Len(rows) : rows[k] = k
  <2>1. Len(taken) = 0
    BY <1>1, EmptySeq
  <2> QED BY <2>1, TakenFacts
<1>3. csv.header \in Nat \cup {-1} /\ rows \in Seq(1..RowCount) /\ csv.named \in BOOLEAN
  BY SourceFacts DEF TypeOK, QueueTypes
<1>4. n \in 0..parsed /\ (n = csv.header + 1 \/ n = parsed) /\ n <= csv.header + 1
  BY <1>2, <1>3 DEF Q!DrainCount, Q!Size
<1>5. taken' = taken \o SubSeq(rows, 1, n)
  BY DEF TrimHeader, Q!DrainFront
<1> HIDE DEF n
<1>6. Len(taken') = n
  <2>1. SubSeq(rows, 1, n) \in Seq(1..RowCount) /\ Len(SubSeq(rows, 1, n)) = n
    BY <1>2, <1>3, <1>4, TakeFacts DEF TakeN
  <2>2. taken' = SubSeq(rows, 1, n)
    BY <1>1, <1>5, <2>1, EmptySeq
  <2> QED BY <2>1, <2>2
<1>7. Len(drained) = 0 /\ Len(delivered) = 0
  BY <1>1, EmptySeq
<1>8. Done = 0 /\ Done' = n
  BY <1>0, <1>2, <1>4, <1>6, <1>7 DEF Done
<1>9. InHand'
  BY <1>0, <1>1, <1>4, <1>6, <1>7 DEF InHand
<1>10. Received'
  <2>1. \A i \in 1..n : ~Wanted(i)
    BY <1>3, <1>4 DEF Wanted
  <2>2. swept = {}
    BY <1>8 DEF Delivery, Received
  <2> QED BY <1>0, <1>7, <1>8, <2>1, <2>2 DEF Received
<1>11. Header'
  <2>1. \A i \in 1..RowCount : i > n => i > csv.header + 1
    BY <1>1, <1>2, <1>3, <1>4
  <2>2. n_cols' = FinalCols
    <3>1. CASE csv.header >= 0 /\ csv.header < Len(rows) /\ ~csv.named
      <4>1. csv.header + 1 \in 1..Len(rows)
        BY <1>2, <1>3, <3>1
      <4>2. rows[csv.header + 1] = csv.header + 1
        BY <1>2, <4>1
      <4>3. n_cols' = ColsOf(csv.header + 1)
        BY <1>1, <3>1, <4>2 DEF TrimHeader
      <4>4. HasHeaderRow
        BY <1>2, <1>3, <3>1 DEF HasHeaderRow
      <4> QED BY <3>1, <4>3, <4>4 DEF FinalCols
    <3>2. CASE ~(csv.header >= 0 /\ csv.header < Len(rows) /\ ~csv.named)
      <4>1. n_cols' = csv.n_cols
        BY <1>1, <3>2 DEF TrimHeader
      <4>2. ~(HasHeaderRow /\ ~csv.named)
        <5> SUFFICES ASSUME HasHeaderRow, ~csv.named PROVE FALSE
          OBVIOUS
        <5>1. csv.header >= 0 /\ csv.header + 1 \in 1..RowCount
          BY <1>2, <1>3 DEF HasHeaderRow
        <5>2. csv.header + 1 <= parsed
          BY <1>1, <5>1
        <5>3. csv.header < Len(rows)
          BY <1>2, <1>3, <5>2
        <5> QED BY <3>2, <5>1, <5>3
      <4> QED BY <4>1, <4>2 DEF FinalCols
    <3> QED BY <3>1, <3>2
  <2> QED BY <1>0, <1>8, <2>1, <2>2 DEF Header
<1> QED BY <1>9, <1>10, <1>11

(* Before that the caller only waits for the constructor. *)
LEMMA CallerFirstWindow ==
  ASSUME TypeOK, Phases, FirstWindow, Reader \/ Caller \/ Gone \/ UNCHANGED vars
  PROVE  FirstWindow'
<1> SUFFICES ASSUME ~header_trimmed' PROVE FirstWindow'
  BY DEF FirstWindow
<1>0. /\ UNCHANGED <<csv, parserSt, header>>
      /\ RowCount' = RowCount /\ SourceSize' = SourceSize
  BY CallerFrame, SameWanted DEF vars
<1>1. ~header_trimmed /\ cpc \in {"new", "init_join", "closed"}
  BY <1>0 DEF header, Phases
<1>2. InitialRead \/ InitialReadDone \/ Gone \/ UNCHANGED vars
  <2>1. ~AfterRun /\ ~AfterRunRethrow /\ ~Joined
    BY <1>1 DEF AfterRun, AfterRunRethrow, Joined, JoinRethrow, JoinEof, JoinTooLarge, JoinRun
  <2>2. ~Check /\ ~Take
    BY <1>1 DEF Check, SeeRows, SeeEmpty, SeeWaitable, SeeFinished, EndWait, AtReader, Take,
       StillEmpty, FoundRows, TakeRow, TakeBatch
  <2>3. ~Accept
    BY <1>1 DEF Accept, AcceptRow, RejectRow, ThrowBadRow, ReturnRows, ReadMore, AtReader
  <2>4. ~Caller
    BY <1>1 DEF Caller, CallReadRow, CallReadChunk, Call, Move, Destroy
  <2> QED BY <2>1, <2>2, <2>3, <2>4 DEF Reader, Launch
<1>3. UNCHANGED <<taken, drained, delivered>>
  BY <1>2 DEF InitialRead, InitialReadDone, Gone, vars, queue, callSt
<1>4. \/ wpc' = wpc
      \/ wpc \notin {"push", "trim"} /\ wpc' \notin {"push", "trim"}
  BY <1>1, <1>2 DEF InitialRead, InitialReadDone, Gone, vars, StartWorker, Joinable, Phases
<1> QED BY <1>0, <1>1, <1>3, <1>4 DEF FirstWindow, parserSt, header

(* Rows move from the queue into the caller's hand. *)
LEMMA TakeDelivers ==
  ASSUME TypeOK, WithinLimit, QueueInOrder, Delivery, cpc = "take", cpc' = "accept",
         NEW front \in Seq(1..RowCount),
         \A k \in 1..Len(front) : k \in 1..Len(rows) /\ front[k] = rows[k],
         taken' = taken \o front, drained' = front,
         UNCHANGED <<csv, delivered, swept, header_trimmed, n_cols>>
  PROVE  InHand' /\ Received' /\ Header'
<1>0. /\ RowCount' = RowCount /\ FinalCols' = FinalCols /\ \A i : Wanted(i)' = Wanted(i)
      /\ \A i : Owed(i)' = Owed(i)
  BY SameWanted DEF Owed
<1>1. drained = <<>> /\ Len(drained) = 0
  BY EmptySeq DEF WithinLimit, Searching
<1>2. Len(taken) \in Nat /\ \A k \in 1..Len(rows) : rows[k] = Len(taken) + k
  BY TakenFacts
<1>3. Len(front) \in Nat /\ Len(taken') = Len(taken) + Len(front)
  BY LenProperties, ConcatProperties DEF TypeOK, QueueTypes
<1>4. Done = Len(taken) /\ Done' = Len(taken)
  BY <1>1, <1>2, <1>3 DEF Done
<1>5. InHand'
  BY <1>2, <1>3, <1>4 DEF InHand
<1>6. Received'
  BY <1>0, <1>4 DEF Delivery, Received
<1>7. Header'
  BY <1>0, <1>4 DEF Delivery, Header
<1> QED BY <1>5, <1>6, <1>7

(* The next row in hand. *)
LEMMA NextInHand ==
  ASSUME TypeOK, Phases, QueueInOrder, Delivery, cpc = "accept", drained # <<>>
  PROVE  /\ Done \in Nat /\ Len(drained) \in Nat /\ Len(drained) >= 1
         /\ Done + Len(drained) = Len(taken) /\ Len(taken) \in Nat /\ Len(taken) <= RowCount
         /\ RowCount \in Nat
         /\ Head(drained) = Done + 1
         /\ Tail(drained) \in Seq(1..RowCount) /\ Len(Tail(drained)) = Len(drained) - 1
         /\ \A k \in 1..(Len(drained) - 1) : Tail(drained)[k] = Done + 1 + k
         /\ Acceptable(Done + 1) <=> Wanted(Done + 1)
<1>1. /\ drained \in Seq(1..RowCount) /\ Len(drained) \in Nat
      /\ Len(taken) \in Nat /\ Len(taken) <= RowCount /\ RowCount \in Nat
      /\ csv.header \in Nat \cup {-1}
  <2>1. drained \in Seq(1..RowCount) /\ csv \in Sources
    BY DEF TypeOK, CallTypes
  <2>2. /\ Len(taken) \in Nat /\ Len(rows) \in Nat /\ Len(taken) + Len(rows) = parsed
        /\ parsed \in 0..RowCount /\ RowCount \in Nat
    BY TakenFacts
  <2>3. Len(drained) \in Nat /\ csv.header \in Nat \cup {-1}
    BY <2>1, LenProperties, SourceFacts
  <2> QED BY <2>1, <2>2, <2>3
<1>2. Len(drained) >= 1
  BY <1>1, EmptySeq
<1>3. Done \in Nat /\ Done + Len(drained) = Len(taken)
  BY <1>1 DEF Delivery, InHand, Done
<1>4. Head(drained) = Done + 1
  BY <1>1, <1>2, <1>3, HeadTailProperties DEF Delivery, InHand
<1>5. /\ Tail(drained) \in Seq(1..RowCount) /\ Len(Tail(drained)) = Len(drained) - 1
      /\ \A k \in 1..(Len(drained) - 1) : Tail(drained)[k] = drained[k + 1]
  BY <1>1, HeadTailProperties
<1>6. ASSUME NEW k \in 1..(Len(drained) - 1) PROVE Tail(drained)[k] = Done + 1 + k
  <2>1. k + 1 \in 1..Len(drained)
    BY <1>1
  <2>2. drained[k + 1] = Done + (k + 1)
    BY <2>1 DEF Delivery, InHand
  <2> QED BY <1>1, <1>3, <1>5, <2>2
<1>7. Acceptable(Done + 1) <=> Wanted(Done + 1)
  <2>1. header_trimmed
    BY DEF Phases
  <2>2. Done + 1 \in 1..RowCount
    BY <1>1, <1>2, <1>3
  <2>3. n_cols = FinalCols /\ Done + 1 > csv.header + 1
    BY <1>3, <2>1, <2>2 DEF Delivery, Header
  <2> QED BY <2>3 DEF Acceptable, FitsColumns, Wanted
<1> QED BY <1>1, <1>2, <1>3, <1>4, <1>5, <1>6, <1>7

(* A row in hand is delivered, rejected, or the reason to throw the rest    *)
(* away.                                                                    *)
LEMMA AcceptDelivers ==
  ASSUME TypeOK, Phases, QueueInOrder, Delivery, AcceptRow \/ RejectRow
  PROVE  InHand' /\ Received' /\ Header'
<1> DEFINE i == Done + 1
<1>0. /\ UNCHANGED <<csv, taken, swept, header_trimmed, n_cols, cpc>>
      /\ cpc = "accept" /\ drained # <<>> /\ drained' = Tail(drained)
  BY DEF AcceptRow, RejectRow, queue, header
<1>1. /\ RowCount' = RowCount /\ FinalCols' = FinalCols /\ \A j : Wanted(j)' = Wanted(j)
      /\ \A j : Owed(j)' = Owed(j)
  BY <1>0, SameWanted DEF Owed
<1>2. /\ Done \in Nat /\ Len(drained) \in Nat /\ Len(drained) >= 1
      /\ Done + Len(drained) = Len(taken) /\ Len(taken) \in Nat
      /\ Len(taken) <= RowCount /\ RowCount \in Nat
      /\ Head(drained) = Done + 1
      /\ Len(Tail(drained)) = Len(drained) - 1
      /\ \A k \in 1..(Len(drained) - 1) : Tail(drained)[k] = Done + 1 + k
      /\ Acceptable(Done + 1) <=> Wanted(Done + 1)
  BY <1>0, NextInHand
<1>3. Done' = i
  BY <1>0, <1>2 DEF Done
<1>4. InHand'
  BY <1>0, <1>2, <1>3 DEF InHand
<1>5. Header'
  BY <1>0, <1>1, <1>2, <1>3 DEF Delivery, Header
<1>6. delivered \in Seq(1..RowCount) /\ Len(delivered) \in Nat
  BY LenProperties DEF TypeOK, CallTypes
<1>7. Received
  BY DEF Delivery
<1>8. Owed(i)
  BY <1>2, <1>7 DEF Received, Owed
<1>9. CASE AcceptRow
  <2>1. delivered' = Append(delivered, i) /\ Wanted(i)
    BY <1>2, <1>9 DEF AcceptRow
  <2>2. /\ Len(delivered') = Len(delivered) + 1
        /\ delivered'[Len(delivered) + 1] = i
        /\ \A n \in 1..Len(delivered) : delivered'[n] = delivered[n]
    <3>1. i \in 1..RowCount
      BY <1>2
    <3> QED BY <1>6, <2>1, <3>1, AppendProperties
  <2> HIDE DEF i
  <2>3. i = Done + 1
    BY DEF i
  <2>4. ASSUME NEW m \in 1..Len(delivered'), NEW n \in 1..Len(delivered'), m < n
        PROVE  delivered'[m] < delivered'[n]
    <3>1. m \in 1..Len(delivered) /\ delivered'[m] = delivered[m]
      BY <1>6, <2>2, <2>4
    <3>2. CASE n = Len(delivered) + 1
      <4>1. delivered[m] <= Done /\ delivered[m] \in 1..RowCount
        BY <1>6, <1>7, <3>1, ElementOfSeq DEF Received
      <4> QED BY <1>2, <2>2, <2>3, <3>1, <3>2, <4>1
    <3>3. CASE n # Len(delivered) + 1
      <4>1. n \in 1..Len(delivered) /\ delivered'[n] = delivered[n]
        BY <1>6, <2>2, <3>3
      <4> QED BY <1>7, <2>4, <3>1, <4>1 DEF Received
    <3> QED BY <3>2, <3>3
  <2>5. ASSUME NEW n \in 1..Len(delivered')
        PROVE  delivered'[n] <= i /\ Wanted(delivered'[n]) /\ Owed(delivered'[n])
    <3>1. CASE n = Len(delivered) + 1
      BY <1>2, <1>8, <2>1, <2>2, <2>3, <3>1
    <3>2. CASE n # Len(delivered) + 1
      <4>1. n \in 1..Len(delivered) /\ delivered'[n] = delivered[n]
        BY <1>6, <2>2, <3>2
      <4>2. delivered[n] \in 1..RowCount
        BY <1>6, <4>1, ElementOfSeq
      <4>3. delivered[n] <= Done /\ Wanted(delivered[n]) /\ Owed(delivered[n])
        BY <1>7, <4>1 DEF Received
      <4> QED BY <1>2, <2>3, <4>1, <4>2, <4>3
    <3> QED BY <3>1, <3>2
  <2>6. ASSUME NEW j \in 1..i, Wanted(j), Owed(j)
        PROVE  \E m \in 1..Len(delivered') : delivered'[m] = j
    <3>1. CASE j = i
      <4>1. Len(delivered) + 1 \in 1..Len(delivered')
        BY <1>6, <2>2
      <4> QED BY <2>2, <3>1, <4>1
    <3>2. CASE j # i
      <4>1. j \in 1..Done
        BY <1>2, <2>3, <3>2
      <4>2. PICK m \in 1..Len(delivered) : delivered[m] = j
        BY <1>7, <2>6, <4>1 DEF Received
      <4>3. m \in 1..Len(delivered') /\ delivered'[m] = j
        BY <1>6, <2>2, <4>2
      <4> QED BY <4>3
    <3> QED BY <3>1, <3>2
  <2>7. swept' \subseteq 1..i
    BY <1>0, <1>2, <1>7, <2>3 DEF Received
  <2>8. Received'
    BY <1>1, <1>3, <2>4, <2>5, <2>6, <2>7 DEF Received
  <2> QED BY <1>4, <1>5, <2>8
<1>10. CASE RejectRow
  <2>1. delivered' = delivered /\ ~Wanted(i)
    BY <1>2, <1>10 DEF RejectRow
  <2>2. ASSUME NEW n \in 1..Len(delivered) PROVE delivered[n] <= i
    <3>1. delivered[n] \in 1..RowCount /\ delivered[n] <= Done
      BY <1>6, <1>7, ElementOfSeq DEF Received
    <3> QED BY <1>2, <3>1
  <2>3. \A j \in 1..i : j \in 1..Done \/ j = i
    BY <1>2
  <2>4. swept' \subseteq 1..i
    BY <1>0, <1>2, <1>7 DEF Received
  <2> HIDE DEF i
  <2>5. Received'
    BY <1>1, <1>3, <1>7, <2>1, <2>2, <2>3, <2>4 DEF Received
  <2> QED BY <1>4, <1>5, <2>5
<1> QED BY <1>9, <1>10

LEMMA ThrowDelivers ==
  ASSUME TypeOK, Phases, QueueInOrder, Delivery, ThrowBadRow
  PROVE  InHand' /\ Received' /\ Header'
<1>0. /\ UNCHANGED <<csv, taken, delivered, header_trimmed, n_cols>>
      /\ cpc = "accept" /\ drained # <<>> /\ drained' = <<>> /\ csv.policy = "THROW"
      /\ swept' = swept \cup {drained[k] : k \in 2..Len(drained)}
      /\ ~Acceptable(Head(drained))
  BY DEF ThrowBadRow, queue, header
<1>1. /\ RowCount' = RowCount /\ FinalCols' = FinalCols /\ \A j : Wanted(j)' = Wanted(j)
  BY <1>0, SameWanted
<1>2. /\ Done \in Nat /\ Len(drained) \in Nat /\ Len(drained) >= 1
      /\ Done + Len(drained) = Len(taken) /\ Len(taken) \in Nat
      /\ Len(taken) <= RowCount /\ RowCount \in Nat
      /\ Head(drained) = Done + 1
      /\ Acceptable(Done + 1) <=> Wanted(Done + 1)
  BY <1>0, NextInHand
<1>3. Done' = Len(taken) /\ Len(drained') = 0
  BY <1>0, <1>2, EmptySeq DEF Done
<1>4. InHand'
  BY <1>0, <1>2, <1>3 DEF InHand
<1>5. Header'
  BY <1>0, <1>1, <1>2, <1>3 DEF Delivery, Header
<1>6. delivered \in Seq(1..RowCount) /\ Received
  BY DEF TypeOK, CallTypes, Delivery
<1>7. \A k \in 2..Len(drained) : drained[k] = Done + k
  BY <1>2 DEF Delivery, InHand
<1>8. /\ \A j \in swept' : j \in swept \/ j \in (Done + 2)..Len(taken)
      /\ \A j \in (Done + 2)..Len(taken) : j \in swept'
  <2>1. ASSUME NEW j \in (Done + 2)..Len(taken) PROVE j \in swept'
    <3>1. j - Done \in 2..Len(drained) /\ Done + (j - Done) = j
      BY <1>2
    <3>2. drained[j - Done] = j
      BY <1>7, <3>1
    <3> QED BY <1>0, <3>1, <3>2
  <2>2. ASSUME NEW k \in 2..Len(drained) PROVE drained[k] \in (Done + 2)..Len(taken)
    BY <1>2, <1>7
  <2> QED BY <1>0, <2>1, <2>2
<1>9. swept' \subseteq 1..Len(taken)
  <2>1. \A j \in swept : j \in 1..Done
    BY <1>6 DEF Received
  <2>2. \A j \in 1..Done : j \in 1..Len(taken)
    BY <1>2
  <2>3. \A j \in (Done + 2)..Len(taken) : j \in 1..Len(taken)
    BY <1>2
  <2> QED BY <1>8, <2>1, <2>2, <2>3
<1>10. ASSUME NEW n \in 1..Len(delivered)
       PROVE  delivered[n] <= Len(taken) /\ Wanted(delivered[n]) /\ Owed(delivered[n])'
  <2>1. /\ delivered[n] \in 1..RowCount /\ delivered[n] <= Done
        /\ Wanted(delivered[n]) /\ Owed(delivered[n])
    BY <1>6, ElementOfSeq DEF Received
  <2>2. delivered[n] \notin swept'
    BY <1>0, <1>2, <1>8, <2>1 DEF Owed
  <2> QED BY <1>0, <1>2, <2>1, <2>2 DEF Owed
<1>11. ASSUME NEW j \in 1..Len(taken), Wanted(j), j \notin swept'
       PROVE  \E m \in 1..Len(delivered) : delivered[m] = j
  <2>1. j \in 1..Done \/ j = Done + 1 \/ j \in (Done + 2)..Len(taken)
    BY <1>2
  <2>2. j \in 1..Done
    BY <1>0, <1>2, <1>8, <1>11, <2>1
  <2>3. Owed(j)
    BY <1>0, <1>11 DEF Owed
  <2> QED BY <1>6, <1>11, <2>2, <2>3 DEF Received
<1>12. \A j \in 1..Len(taken) : Wanted(j) /\ Owed(j)' => \E m \in 1..Len(delivered) : delivered[m] = j
  BY <1>0, <1>11 DEF Owed
<1>13. Received'
  BY <1>0, <1>1, <1>3, <1>6, <1>9, <1>10, <1>12 DEF Received
<1> QED BY <1>4, <1>5, <1>13

LEMMA NextDelivery ==
  TypeOK /\ WithinLimit /\ QueueInOrder /\ Phases /\ HeaderInHead(csv) /\ Delivery /\ [Next]_vars
    => Delivery'
<1> SUFFICES ASSUME TypeOK, WithinLimit, QueueInOrder, Phases, HeaderInHead(csv), Delivery,
                    [Next]_vars
             PROVE  Delivery'
  OBVIOUS
<1>0. FirstWindow'
  BY WorkerFirstWindow, CallerFirstWindow DEF Next, Delivery
<1>frame. ASSUME UNCHANGED <<csv, taken, drained, delivered, swept, header_trimmed, n_cols>>,
                 cpc' # "accept" => drained = <<>>
          PROVE  Delivery'
  BY <1>0, <1>frame, SameReceived, SameInHand, SameHeader DEF Delivery
<1>hand. cpc # "accept" => drained = <<>>
  BY DEF Delivery, InHand
<1>1. CASE Worker
  <2>1. CASE TrimHeader /\ ~header_trimmed
    BY <1>0, <2>1, TrimDelivers DEF Delivery
  <2>2. CASE ~(TrimHeader /\ ~header_trimmed)
    <3>1. UNCHANGED <<csv, drained, delivered, swept, cpc>>
      BY <1>1, WorkerFrame DEF callSt
    <3>2. UNCHANGED <<taken, header_trimmed, n_cols>>
      BY <1>1, <2>2 DEF Worker, WorkerNotify, NextWindow, NextFails, PushRow, AppendChunk,
         FinishWindow, TrimHeader, WorkerKill, AdoptException, Q!NotifyAll, Q!PushBack,
         Q!AppendRows, Q!KillAll, queue, header
    <3> QED BY <1>frame, <1>hand, <3>1, <3>2
  <2> QED BY <2>1, <2>2
<1>rest. ASSUME ~Worker PROVE UNCHANGED <<csv, header_trimmed, n_cols>>
  BY <1>rest, CallerFrame DEF Next, vars, header
<1>2. CASE ~Worker /\ TakeRow
  <2>1. rows # <<>> /\ rows \in Seq(1..RowCount) /\ taken \in Seq(1..RowCount)
    BY <1>2 DEF TakeRow, Q!PopFront, TypeOK, QueueTypes
  <2>2. /\ <<Head(rows)>> \in Seq(1..RowCount) /\ Len(<<Head(rows)>>) = 1
        /\ <<Head(rows)>>[1] = Head(rows)
    <3>1. Head(rows) \in 1..RowCount
      BY <2>1, HeadTailProperties
    <3> QED BY <3>1
  <2>3. Head(rows) = rows[1] /\ 1 \in 1..Len(rows)
    BY <2>1, HeadTailProperties, EmptySeq, LenProperties
  <2>4. taken' = taken \o <<Head(rows)>>
    <3>1. Head(rows) \in 1..RowCount /\ taken' = Append(taken, Head(rows))
      BY <1>2, <2>1, HeadTailProperties DEF TakeRow, Q!PopFront
    <3> QED BY <2>1, <3>1, AppendIsConcat
  <2>5. /\ cpc = "take" /\ cpc' = "accept" /\ drained' = <<Head(rows)>>
        /\ UNCHANGED <<delivered, swept>>
    BY <1>2 DEF TakeRow
  <2>6. \A k \in 1..Len(<<Head(rows)>>) : k \in 1..Len(rows) /\ <<Head(rows)>>[k] = rows[k]
    BY <2>2, <2>3
  <2>7. InHand' /\ Received' /\ Header'
    BY <1>2, <1>rest, <2>2, <2>4, <2>5, <2>6, TakeDelivers
  <2> QED BY <1>0, <2>7 DEF Delivery
<1>3. CASE ~Worker /\ TakeBatch
  <2> DEFINE n == Q!DrainCount(limit - Len(out))
             front == SubSeq(rows, 1, n)
  <2>1. rows \in Seq(1..RowCount) /\ Len(rows) \in Nat /\ limit \in Nat /\ Len(out) \in Nat
    BY LenProperties DEF TypeOK, QueueTypes, CallTypes
  <2>2. n \in 0..Len(rows)
    BY <1>3, <2>1 DEF TakeBatch, WithinLimit, Searching, Q!DrainCount, Q!Size
  <2>3. /\ taken' = taken \o front /\ drained' = front /\ cpc = "take" /\ cpc' = "accept"
        /\ UNCHANGED <<delivered, swept>>
    BY <1>3 DEF TakeBatch, Q!DrainFront
  <2> HIDE DEF n
  <2>4. /\ front \in Seq(1..RowCount) /\ Len(front) = n
        /\ \A k \in 1..n : front[k] = rows[k]
    BY <2>1, <2>2, TakeFacts DEF TakeN
  <2> HIDE DEF front
  <2>5. \A k \in 1..Len(front) : k \in 1..Len(rows) /\ front[k] = rows[k]
    BY <2>1, <2>2, <2>4
  <2>6. InHand' /\ Received' /\ Header'
    BY <1>3, <1>rest, <2>3, <2>4, <2>5, TakeDelivers
  <2> QED BY <1>0, <2>6 DEF Delivery
<1>4. CASE AcceptRow \/ RejectRow \/ ThrowBadRow
  BY <1>0, <1>4, AcceptDelivers, ThrowDelivers DEF Delivery
<1>5. CASE ~Worker /\ (ReturnRows \/ ReadMore \/ StillEmpty \/ FoundRows \/ Check)
  <2>1. UNCHANGED <<taken, drained, delivered, swept>> /\ drained = <<>>
    BY <1>5, <1>hand DEF ReturnRows, ReadMore, StillEmpty, FoundRows, Check, SeeRows, SeeEmpty,
       SeeWaitable, SeeFinished, EndWait, AtReader, queue, callSt
  <2> QED BY <1>5, <1>frame, <1>rest, <2>1
<1>6. CASE ~Worker /\ (Launch \/ Joined)
  <2>1. UNCHANGED <<taken, drained, delivered, swept>> /\ drained = <<>>
    BY <1>6, <1>hand DEF Launch, InitialRead, InitialReadDone, AfterRun, AfterRunRethrow, Joined,
       JoinRethrow, JoinEof, JoinTooLarge, JoinRun, Q!NotifyAll, queue, callSt
  <2> QED BY <1>6, <1>frame, <1>rest, <2>1
<1>7. CASE ~Worker /\ (Caller \/ Gone \/ UNCHANGED vars)
  <2>1. UNCHANGED <<taken, drained, delivered, swept>> /\ (cpc' # "accept" => drained = <<>>)
    BY <1>7, <1>hand DEF Caller, CallReadRow, CallReadChunk, Call, Move, Destroy, Gone, vars,
       queue, callSt
  <2> QED BY <1>7, <1>frame, <1>rest, <2>1
<1>8. \/ Worker \/ TakeRow \/ TakeBatch
      \/ AcceptRow \/ RejectRow \/ ThrowBadRow
      \/ ReturnRows \/ ReadMore \/ StillEmpty \/ FoundRows \/ Check
      \/ Launch \/ Joined \/ Caller \/ Gone \/ UNCHANGED vars
  BY DEF Next, Reader, Take, Accept
<1> QED BY <1>1, <1>2, <1>3, <1>4, <1>5, <1>6, <1>7, <1>8

LEMMA DeliveryInvariance ==
  ASSUME \A s \in Sources : HeaderInHead(s)
  PROVE  Spec => []Delivery
<1>1. Init => Delivery
  <2> SUFFICES ASSUME Init PROVE Delivery
    OBVIOUS
  <2>1. Len(taken) = 0 /\ Len(drained) = 0 /\ Len(delivered) = 0
    BY EmptySeq DEF Init, Q!Init
  <2>2. Done = 0
    BY <2>1 DEF Done
  <2> QED BY <2>1, <2>2 DEF Init, Q!Init, Delivery, FirstWindow, InHand, Received, Header
<1>2. Inv /\ Delivery /\ [Next]_vars => Delivery'
  <2>1. Inv => HeaderInHead(csv)
    BY DEF Inv, TypeOK
  <2> QED BY <2>1, NextDelivery DEF Inv
<1> QED BY <1>1, <1>2, Invariance, PTL DEF Spec

(* Whatever mixture of read_row and read_chunk the caller uses, and however *)
(* the two threads interleave, it receives the data rows of the source, in  *)
(* their order and without a gap; only a throw skips rows, those it names.  *)
(* The hypothesis is what the constructor relies on: trim_header runs once, *)
(* after the first window, so the header row must end in the bytes that     *)
(* were read to guess the format.                                           *)
THEOREM RowsDeliveredInOrder ==
  ASSUME \A s \in Sources : HeaderInHead(s)
  PROVE  Spec => []DeliveredIsPrefix
<1>1. Inv /\ Delivery => DeliveredIsPrefix
  <2> SUFFICES ASSUME Inv, Delivery PROVE DeliveredIsPrefix
    OBVIOUS
  <2>1. delivered \in Seq(1..RowCount) /\ DOMAIN delivered = 1..Len(delivered) /\ Received
    BY LenProperties DEF Inv, TypeOK, CallTypes, Delivery
  <2>2. Done \in Int /\ RowCount \in Nat
    <3>1. Len(taken) \in Nat /\ Len(drained) \in Nat
      BY LenProperties DEF Inv, TypeOK, CallTypes, QueueTypes
    <3> QED BY <3>1, SourceFacts DEF Inv, TypeOK, Done
  <2>3. ASSUME NEW n \in 1..Len(delivered)
        PROVE  delivered[n] \in Nat /\ 1..delivered[n] \subseteq 1..Done
    <3>1. delivered[n] \in 1..RowCount /\ delivered[n] <= Done
      BY <2>1, ElementOfSeq DEF Received
    <3> QED BY <2>2, <3>1
  <2> QED BY <2>1, <2>3 DEF Received, DeliveredIsPrefix
<1> QED BY <1>1, DeliveryInvariance, Invariance, PTL

-----------------------------------------------------------------------------
(* DataRowsUpTo, by induction on the number of rows. *)

LEMMA DataRowsFrom ==
  ASSUME NEW f, f = [n \in 0..RowCount |->
                       IF n = 0 THEN <<>>
                       ELSE IF Wanted(n) THEN Append(f[n - 1], n) ELSE f[n - 1]]
  PROVE  DataRowsUpTo = [n \in 0..RowCount |->
                           IF n = 0 THEN <<>>
                           ELSE IF Wanted(n) THEN Append(DataRowsUpTo[n - 1], n)
                                             ELSE DataRowsUpTo[n - 1]]
BY Zenon DEF DataRowsUpTo

LEMMA DataRowsExist ==
  ASSUME csv \in Sources
  PROVE  \E f \in [0..RowCount -> Seq(1..RowCount)] :
            f = [n \in 0..RowCount |->
                   IF n = 0 THEN <<>>
                   ELSE IF Wanted(n) THEN Append(f[n - 1], n) ELSE f[n - 1]]
<1> DEFINE A == Seq(1..RowCount)
           step == [p \in A \X (1..RowCount) |->
                      IF Wanted(p[2]) THEN Append(p[1], p[2]) ELSE p[1]]
<1>1. RowCount \in Nat
  BY SourceFacts
<1>2. <<>> \in A
  OBVIOUS
<1>3. step \in [A \X (1..RowCount) -> A]
  <2>1. ASSUME NEW p \in A \X (1..RowCount)
        PROVE  (IF Wanted(p[2]) THEN Append(p[1], p[2]) ELSE p[1]) \in A
    <3>1. p[1] \in A /\ p[2] \in 1..RowCount
      OBVIOUS
    <3>2. Append(p[1], p[2]) \in A
      BY <3>1, AppendProperties
    <3> QED BY <3>1, <3>2
  <2> QED BY <2>1
<1>4. \A s \in A, n \in 1..RowCount :
         step[<<s, n>>] = IF Wanted(n) THEN Append(s, n) ELSE s
  OBVIOUS
<1> HIDE DEF step, A
<1>5. PICK f \in [0..RowCount -> A] : IsRecursive(f, <<>>, RowCount, step)
  BY ONLY <1>1, <1>2, <1>3, RecursionExists, Zenon
<1>6. ASSUME NEW n \in 0..RowCount
      PROVE  f[n] = IF n = 0 THEN <<>>
                    ELSE IF Wanted(n) THEN Append(f[n - 1], n) ELSE f[n - 1]
  <2>1. CASE n = 0
    BY <1>5, <2>1 DEF IsRecursive
  <2>2. CASE n # 0
    <3>1. n \in 1..RowCount /\ n - 1 \in 0..RowCount
      BY <1>1, <2>2
    <3>2. f[n] = step[<<f[n - 1], n>>] /\ f[n - 1] \in A
      BY <1>5, <2>2, <3>1 DEF IsRecursive
    <3> QED BY <1>4, <2>2, <3>1, <3>2
  <2> QED BY <2>1, <2>2
<1>7. f = [n \in 0..RowCount |-> f[n]]
  BY <1>5
<1>8. f = [n \in 0..RowCount |->
             IF n = 0 THEN <<>>
             ELSE IF Wanted(n) THEN Append(f[n - 1], n) ELSE f[n - 1]]
  BY <1>6, <1>7
<1> QED BY <1>5, <1>8 DEF A

(* The equation of DataRowsUpTo. *)
DataRowsRecur ==
  /\ DataRowsUpTo[0] = <<>>
  /\ \A n \in 1..RowCount :
       /\ Wanted(n) => DataRowsUpTo[n] = Append(DataRowsUpTo[n - 1], n)
       /\ ~Wanted(n) => DataRowsUpTo[n] = DataRowsUpTo[n - 1]
  /\ \A n \in 0..RowCount : DataRowsUpTo[n] \in Seq(1..RowCount)

LEMMA DataRowsFacts == TypeOK => DataRowsRecur
<1> SUFFICES ASSUME TypeOK PROVE DataRowsRecur
  OBVIOUS
<1>1. csv \in Sources /\ RowCount \in Nat
  BY SourceFacts DEF TypeOK
<1>2. DataRowsUpTo = [n \in 0..RowCount |->
                           IF n = 0 THEN <<>>
                           ELSE IF Wanted(n) THEN Append(DataRowsUpTo[n - 1], n)
                                             ELSE DataRowsUpTo[n - 1]]
  BY <1>1, DataRowsExist, DataRowsFrom
<1>3. DataRowsUpTo[0] = <<>>
  BY <1>1, <1>2
<1>4. ASSUME NEW n \in 1..RowCount
      PROVE  /\ Wanted(n) => DataRowsUpTo[n] = Append(DataRowsUpTo[n - 1], n)
             /\ ~Wanted(n) => DataRowsUpTo[n] = DataRowsUpTo[n - 1]
  <2>1. n \in 0..RowCount /\ n # 0
    BY <1>1
  <2> QED BY <1>2, <2>1
<1> DEFINE T == {n \in Nat : n <= RowCount => DataRowsUpTo[n] \in Seq(1..RowCount)}
<1>5. 0 \in T
  <2>1. <<>> \in Seq(1..RowCount)
    OBVIOUS
  <2> QED BY <1>3, <2>1
<1>6. ASSUME NEW n \in Nat, n \in T PROVE n + 1 \in T
  <2> SUFFICES ASSUME n + 1 <= RowCount PROVE DataRowsUpTo[n + 1] \in Seq(1..RowCount)
    OBVIOUS
  <2>1. n + 1 \in 1..RowCount /\ (n + 1) - 1 = n /\ DataRowsUpTo[n] \in Seq(1..RowCount)
    BY <1>1, <1>6
  <2>2. Append(DataRowsUpTo[n], n + 1) \in Seq(1..RowCount)
    BY <2>1, AppendProperties
  <2> QED BY <1>4, <2>1, <2>2
<1> HIDE DEF T
<1>7. Nat \subseteq T
  BY <1>5, <1>6, Induction
<1>8. \A n \in 0..RowCount : DataRowsUpTo[n] \in Seq(1..RowCount)
  BY <1>1, <1>7 DEF T
<1> QED BY <1>3, <1>4, <1>8 DEF DataRowsRecur

(* The data rows depend on the source alone. *)
LEMMA SameData ==
  ASSUME TypeOK, DataRowsRecur, DataRowsRecur', csv' = csv
  PROVE  /\ \A n \in 0..RowCount : DataRowsUpTo'[n] = DataRowsUpTo[n]
         /\ DataRows' = DataRows
<1>1. RowCount \in Nat /\ RowCount' = RowCount /\ \A i : Wanted(i)' = Wanted(i)
  BY SourceFacts, SameWanted DEF TypeOK
<1>2. DataRowsUpTo'[0] = <<>>
  BY DEF DataRowsRecur
<1>3. \A n \in 1..RowCount :
       /\ Wanted(n) => DataRowsUpTo'[n] = Append(DataRowsUpTo'[n - 1], n)
       /\ ~Wanted(n) => DataRowsUpTo'[n] = DataRowsUpTo'[n - 1]
  BY <1>1 DEF DataRowsRecur
<1> DEFINE T == {n \in Nat : n <= RowCount => DataRowsUpTo'[n] = DataRowsUpTo[n]}
<1>4. 0 \in T
  BY <1>2 DEF DataRowsRecur
<1>5. ASSUME NEW n \in Nat, n \in T PROVE n + 1 \in T
  <2> SUFFICES ASSUME n + 1 <= RowCount PROVE DataRowsUpTo'[n + 1] = DataRowsUpTo[n + 1]
    OBVIOUS
  <2>1. n + 1 \in 1..RowCount /\ (n + 1) - 1 = n /\ DataRowsUpTo'[n] = DataRowsUpTo[n]
    BY <1>1, <1>5
  <2> QED BY <1>3, <2>1 DEF DataRowsRecur
<1> HIDE DEF T
<1>6. Nat \subseteq T
  BY <1>4, <1>5, Induction
<1>7. \A n \in 0..RowCount : DataRowsUpTo'[n] = DataRowsUpTo[n]
  BY <1>1, <1>6 DEF T
<1> QED BY <1>1, <1>7 DEF DataRows

(* The data rows begin with those among the first n rows. *)
LEMMA DataRowsPrefix ==
  ASSUME TypeOK, NEW n \in 0..RowCount
  PROVE  /\ Len(DataRowsUpTo[n]) <= Len(DataRows)
         /\ \A j \in 1..Len(DataRowsUpTo[n]) : DataRows[j] = DataRowsUpTo[n][j]
<1>1. RowCount \in Nat /\ DataRowsRecur
  BY SourceFacts, DataRowsFacts DEF TypeOK
<1>2. \A k \in 0..RowCount : DataRowsUpTo[k] \in Seq(1..RowCount) /\ Len(DataRowsUpTo[k]) \in Nat
  BY <1>1, LenProperties DEF DataRowsRecur
<1> DEFINE Extends(k) == /\ Len(DataRowsUpTo[n]) <= Len(DataRowsUpTo[n + k])
                         /\ \A j \in 1..Len(DataRowsUpTo[n]) :
                               DataRowsUpTo[n + k][j] = DataRowsUpTo[n][j]
           T == {k \in Nat : n + k <= RowCount => Extends(k)}
<1>3. 0 \in T
  <2>1. n + 0 = n
    OBVIOUS
  <2> QED BY <1>2, <2>1
<1>4. ASSUME NEW k \in Nat, k \in T PROVE k + 1 \in T
  <2> SUFFICES ASSUME n + (k + 1) <= RowCount PROVE Extends(k + 1)
    OBVIOUS
  <2>1. /\ n + (k + 1) \in 1..RowCount /\ (n + (k + 1)) - 1 = n + k /\ n + k \in 0..RowCount
        /\ Extends(k)
    BY <1>1, <1>4
  <2>2. /\ Len(Append(DataRowsUpTo[n + k], n + (k + 1))) = Len(DataRowsUpTo[n + k]) + 1
        /\ \A j \in 1..Len(DataRowsUpTo[n + k]) :
              Append(DataRowsUpTo[n + k], n + (k + 1))[j] = DataRowsUpTo[n + k][j]
    BY <1>2, <2>1, AppendProperties
  <2>3. \/ DataRowsUpTo[n + (k + 1)] = Append(DataRowsUpTo[n + k], n + (k + 1))
        \/ DataRowsUpTo[n + (k + 1)] = DataRowsUpTo[n + k]
    BY <1>1, <2>1 DEF DataRowsRecur
  <2>4. Len(DataRowsUpTo[n]) \in Nat /\ Len(DataRowsUpTo[n + k]) \in Nat
    BY <1>2, <2>1
  <2>5. \A j \in 1..Len(DataRowsUpTo[n]) : j \in 1..Len(DataRowsUpTo[n + k])
    BY <2>1, <2>4
  <2>6. CASE DataRowsUpTo[n + (k + 1)] = DataRowsUpTo[n + k]
    BY <2>1, <2>6
  <2>7. CASE DataRowsUpTo[n + (k + 1)] = Append(DataRowsUpTo[n + k], n + (k + 1))
    <3>1. Len(DataRowsUpTo[n]) <= Len(DataRowsUpTo[n + (k + 1)])
      BY <2>1, <2>2, <2>4, <2>7
    <3>2. ASSUME NEW j \in 1..Len(DataRowsUpTo[n])
          PROVE  DataRowsUpTo[n + (k + 1)][j] = DataRowsUpTo[n][j]
      BY <2>1, <2>2, <2>5, <2>7
    <3> QED BY <3>1, <3>2
  <2> QED BY <2>3, <2>6, <2>7
<1>5. Nat \subseteq T
  <2> HIDE DEF T
  <2> QED BY <1>3, <1>4, Induction
<1>6. RowCount - n \in Nat /\ n + (RowCount - n) = RowCount
  BY <1>1
<1>7. Extends(RowCount - n)
  <2> HIDE DEF Extends
  <2>1. RowCount - n \in T
    BY <1>5, <1>6
  <2> QED BY <1>1, <1>6, <2>1
<1>8. DataRowsUpTo[n + (RowCount - n)] = DataRows
  BY <1>6 DEF DataRows
<1> QED BY <1>7, <1>8

(* No row up to the header row is one. *)
LEMMA DataRowsNone ==
  ASSUME TypeOK, NEW m \in 0..RowCount, \A i \in 1..m : ~Wanted(i)
  PROVE  DataRowsUpTo[m] = <<>>
<1>1. RowCount \in Nat /\ DataRowsRecur
  BY SourceFacts, DataRowsFacts DEF TypeOK
<1> DEFINE T == {n \in Nat : n <= m => DataRowsUpTo[n] = <<>>}
<1>2. 0 \in T
  BY <1>1 DEF DataRowsRecur
<1>3. ASSUME NEW n \in Nat, n \in T PROVE n + 1 \in T
  <2> SUFFICES ASSUME n + 1 <= m PROVE DataRowsUpTo[n + 1] = <<>>
    OBVIOUS
  <2>1. n + 1 \in 1..m /\ n + 1 \in 1..RowCount /\ (n + 1) - 1 = n /\ DataRowsUpTo[n] = <<>>
    BY <1>1, <1>3
  <2> QED BY <1>1, <2>1 DEF DataRowsRecur
<1> HIDE DEF T
<1>4. Nat \subseteq T
  BY <1>2, <1>3, Induction
<1> QED BY <1>1, <1>4 DEF T

-----------------------------------------------------------------------------
(* The refinement of RowStream. *)

LEMMA DoneFacts ==
  ASSUME TypeOK, QueueInOrder, Delivery
  PROVE  Done \in 0..RowCount /\ RowCount \in Nat
<1>1. /\ Len(taken) \in Nat /\ Len(rows) \in Nat /\ Len(taken) + Len(rows) = parsed
      /\ parsed \in 0..RowCount /\ RowCount \in Nat
  BY TakenFacts
<1>2. Len(drained) \in Nat /\ Len(drained) <= Len(taken)
  BY LenProperties DEF TypeOK, CallTypes, Delivery, InHand
<1> QED BY <1>1, <1>2 DEF Done

(* What was delivered are the data rows among the rows done with.           *)
LEMMA DeliveredSoFar ==
  ASSUME TypeOK, QueueInOrder, Delivery, csv.policy # "THROW"
  PROVE  delivered = DataRowsUpTo[Done]
<1> DEFINE got == Len(delivered)
           L(n) == Len(DataRowsUpTo[n])
           Good(n) == /\ L(n) <= got
                      /\ \A j \in 1..L(n) : delivered[j] = DataRowsUpTo[n][j] /\ delivered[j] <= n
                      /\ \A j \in 1..got : j > L(n) => delivered[j] > n
           T == {n \in Nat : n <= Done => Good(n)}
<1>1. Done \in 0..RowCount /\ RowCount \in Nat /\ DataRowsRecur
  BY DoneFacts, DataRowsFacts
<1>2. /\ delivered \in Seq(1..RowCount) /\ got \in Nat
      /\ \A j \in 1..got : delivered[j] \in 1..RowCount
  BY LenProperties, ElementOfSeq DEF TypeOK, CallTypes
<1>3. \A n \in 0..RowCount : DataRowsUpTo[n] \in Seq(1..RowCount) /\ L(n) \in Nat
  BY <1>1, LenProperties DEF DataRowsRecur
<1>4. /\ \A m, n \in 1..got : m < n => delivered[m] < delivered[n]
      /\ \A n \in 1..got : delivered[n] <= Done /\ Wanted(delivered[n])
      /\ \A i \in 1..Done : Wanted(i) => \E m \in 1..got : delivered[m] = i
  BY DEF Delivery, Received, Owed
<1> HIDE DEF got
<1>5. 0 \in T
  <2>1. L(0) = 0
    BY <1>1, EmptySeq DEF DataRowsRecur
  <2> QED BY <1>2, <2>1
<1>6. ASSUME NEW n \in Nat, n \in T PROVE n + 1 \in T
  <2> SUFFICES ASSUME n + 1 <= Done PROVE Good(n + 1)
    OBVIOUS
  <2>1. /\ n + 1 \in 1..RowCount /\ n + 1 \in 1..Done /\ (n + 1) - 1 = n /\ n \in 0..RowCount
        /\ Good(n)
    BY <1>1, <1>6
  <2>2. L(n) \in Nat /\ L(n + 1) \in Nat /\ DataRowsUpTo[n] \in Seq(1..RowCount)
    <3>1. n + 1 \in 0..RowCount
      BY <1>1, <2>1
    <3> HIDE DEF L
    <3> QED BY <1>3, <2>1, <3>1
  <2>3. CASE Wanted(n + 1)
    <3>1. DataRowsUpTo[n + 1] = Append(DataRowsUpTo[n], n + 1)
      BY <1>1, <2>1, <2>3 DEF DataRowsRecur
    <3>2. /\ L(n + 1) = L(n) + 1
          /\ DataRowsUpTo[n + 1][L(n) + 1] = n + 1
          /\ \A j \in 1..L(n) : DataRowsUpTo[n + 1][j] = DataRowsUpTo[n][j]
      BY <2>1, <2>2, <3>1, AppendProperties
    <3>3. PICK m \in 1..got : delivered[m] = n + 1
      BY <1>4, <2>1, <2>3
    <3>4. m > L(n)
      BY <1>2, <2>1, <2>2, <3>3
    <3> HIDE DEF L
    <3>5. m = L(n) + 1
      <4> SUFFICES ASSUME m > L(n) + 1 PROVE FALSE
        BY <1>2, <2>2, <3>4
      <4>1. L(n) + 1 \in 1..got /\ L(n) + 1 < m
        BY <1>2, <2>2, <3>3
      <4>2. delivered[L(n) + 1] < n + 1 /\ delivered[L(n) + 1] > n
        BY <1>4, <2>1, <2>2, <3>3, <4>1
      <4>3. delivered[L(n) + 1] \in 1..RowCount
        BY <1>2, <4>1
      <4> QED BY <1>1, <4>2, <4>3
    <3>6. L(n + 1) <= got
      BY <1>2, <2>2, <3>2, <3>3, <3>5
    <3>7. ASSUME NEW j \in 1..L(n + 1)
          PROVE  delivered[j] = DataRowsUpTo[n + 1][j] /\ delivered[j] <= n + 1
      <4>1. CASE j = L(n) + 1
        BY <3>2, <3>3, <3>5, <4>1
      <4>2. CASE j # L(n) + 1
        <5>1. j \in 1..L(n) /\ j \in 1..got
          BY <1>2, <2>2, <3>2, <3>6, <4>2
        <5>2. delivered[j] = DataRowsUpTo[n][j] /\ delivered[j] <= n
          BY <2>1, <5>1
        <5> QED BY <1>2, <3>2, <5>1, <5>2
      <4> QED BY <4>1, <4>2
    <3>8. ASSUME NEW j \in 1..got, j > L(n + 1) PROVE delivered[j] > n + 1
      <4>1. m < j
        BY <2>2, <3>2, <3>5, <3>8
      <4> QED BY <1>4, <3>3, <4>1
    <3> QED BY <3>6, <3>7, <3>8
  <2>4. CASE ~Wanted(n + 1)
    <3>1. DataRowsUpTo[n + 1] = DataRowsUpTo[n] /\ L(n + 1) = L(n)
      BY <1>1, <2>1, <2>4 DEF DataRowsRecur
    <3> HIDE DEF L
    <3>2. ASSUME NEW j \in 1..L(n + 1)
          PROVE  delivered[j] = DataRowsUpTo[n + 1][j] /\ delivered[j] <= n + 1
      <4>1. j \in 1..got
        BY <1>2, <2>1, <2>2, <3>1
      <4>2. delivered[j] = DataRowsUpTo[n][j] /\ delivered[j] <= n
        BY <2>1, <3>1
      <4> QED BY <1>2, <3>1, <4>1, <4>2
    <3>3. ASSUME NEW j \in 1..got, j > L(n + 1) PROVE delivered[j] > n + 1
      <4>1. delivered[j] > n
        BY <2>1, <3>1, <3>3
      <4>2. Wanted(delivered[j]) /\ delivered[j] \in 1..RowCount
        BY <1>2, <1>4
      <4>3. delivered[j] # n + 1
        BY <2>4, <4>2
      <4> QED BY <4>1, <4>2, <4>3
    <3> QED BY <2>1, <3>1, <3>2, <3>3
  <2> QED BY <2>3, <2>4
<1>7. Good(Done)
  <2> HIDE DEF T, Good
  <2>1. Nat \subseteq T
    BY <1>5, <1>6, Induction
  <2> QED BY <1>1, <2>1 DEF T
<1>8. L(Done) = got
  <2> SUFFICES ASSUME L(Done) < got PROVE FALSE
    BY <1>1, <1>2, <1>3, <1>7
  <2>1. got \in 1..got /\ got > L(Done)
    BY <1>1, <1>2, <1>3
  <2>2. delivered[got] > Done
    BY <1>7, <2>1
  <2>3. delivered[got] \in 1..RowCount /\ delivered[got] <= Done
    BY <1>2, <1>4, <2>1
  <2> QED BY <1>1, <2>2, <2>3
<1>9. \A j \in 1..got : delivered[j] = DataRowsUpTo[Done][j]
  BY <1>7, <1>8
<1>10. DataRowsUpTo[Done] \in Seq(1..RowCount) /\ Len(DataRowsUpTo[Done]) = Len(delivered)
  BY <1>1, <1>3, <1>8 DEF got
<1>11. \A j \in 1..Len(delivered) : delivered[j] = DataRowsUpTo[Done][j]
  BY <1>9 DEF got
<1> QED BY <1>2, <1>10, <1>11, SeqEqual

(* Without threading the worker runs inside the call that starts it, and    *)
(* nothing can arrive between the two looks at the queue.                   *)
OneThread ==
  ~csv.threading =>
    /\ wpc \in {"off", "done"} \/ cpc \in {"init_join", "after_run"}
    /\ cpc \in {"check_waitable", "join"} => rows = <<>>

LEMMA NextOneThread == TypeOK /\ OneThread /\ [Next]_vars => OneThread'
<1> SUFFICES ASSUME TypeOK, OneThread, [Next]_vars PROVE OneThread'
  OBVIOUS
<1> SUFFICES ASSUME ~csv.threading, ~csv'.threading
             PROVE  /\ wpc' \in {"off", "done"} \/ cpc' \in {"init_join", "after_run"}
                    /\ cpc' \in {"check_waitable", "join"} => rows' = <<>>
  <2>1. csv' = csv
    BY WorkerFrame, CallerFrame DEF Next, vars
  <2> QED BY <2>1 DEF OneThread
<1>0. /\ wpc \in {"off", "done"} \/ cpc \in {"init_join", "after_run"}
      /\ cpc \in {"check_waitable", "join"} => rows = <<>>
  BY DEF OneThread
<1>1. CASE Worker
  <2>1. cpc' = cpc
    BY <1>1, WorkerFrame
  <2>2. wpc \notin {"off", "done"}
    BY <1>1 DEF Worker, WorkerNotify, NextWindow, NextFails, PushRow, AppendChunk,
         FinishWindow, TrimHeader, WorkerKill, AdoptException
  <2> QED BY <1>0, <2>1, <2>2
<1>2. CASE Launch
  BY <1>0, <1>2 DEF Launch, InitialRead, InitialReadDone, AfterRun, AfterRunRethrow, Joinable,
     Rethrow, Return, StartWorker
<1>3. CASE Check
  <2>1. SeeRows => wpc' = wpc /\ rows' = rows /\ cpc' = "recheck" /\ cpc = "check"
    BY DEF SeeRows, AtReader, queue
  <2>2. SeeEmpty => wpc' = wpc /\ rows' = <<>> /\ cpc' = "check_waitable" /\ cpc = "check"
    BY DEF SeeEmpty, AtReader, queue, Q!Empty
  <2>3. SeeFinished => wpc' = wpc /\ rows' = rows /\ cpc' = "join" /\ cpc = "check_waitable"
    BY DEF SeeFinished, AtReader, queue
  <2>4. EndWait => wpc' = wpc /\ rows' = rows /\ cpc' = "recheck" /\ cpc = "wait"
    BY DEF EndWait, AtReader, queue
  <2>5. ~SeeWaitable
    BY DEF SeeWaitable
  <2> QED BY <1>0, <1>3, <2>1, <2>2, <2>3, <2>4, <2>5 DEF Check
<1>4. CASE Joined
  BY <1>0, <1>4 DEF Joined, JoinRethrow, JoinEof, JoinTooLarge, JoinRun, Joinable,
     Rethrow, Return, StartWorker
<1>5. CASE Take
  BY <1>0, <1>5 DEF Take, StillEmpty, FoundRows, TakeRow, TakeBatch, AtReader
<1>6. CASE Accept
  BY <1>0, <1>6 DEF Accept, AcceptRow, RejectRow, ThrowBadRow, ReturnRows, ReadMore, AtReader,
     Return
<1>7. CASE Caller
  BY <1>0, <1>7 DEF Caller, CallReadRow, CallReadChunk, Call, Move, Destroy, Return, Joinable
<1>8. CASE Gone \/ UNCHANGED vars
  BY <1>0, <1>8 DEF Gone, vars, queue
<1> QED BY <1>1, <1>2, <1>3, <1>4, <1>5, <1>6, <1>7, <1>8 DEF Next, Reader

(* The answers a step can make a difference to. *)
LEMMA AnswerOf ==
  /\ cpc # "idle" => StreamAnswer = "none"
  /\ cpc = "idle" /\ ret \in {None, "nothing_asked"} => StreamAnswer = "none"
  /\ cpc = "idle" /\ ret \in {"rows", "end"} => StreamAnswer = ret
  /\ cpc = "idle" /\ ret \in {"io_error", "row_too_large", "malformed_row"} => StreamAnswer = "error"
BY DEF StreamAnswer, None

LEMMA AnswerThen ==
  /\ cpc' # "idle" => StreamAnswer' = "none"
  /\ cpc' = "idle" /\ ret' \in {None, "nothing_asked"} => StreamAnswer' = "none"
  /\ cpc' = "idle" /\ ret' \in {"rows", "end"} => StreamAnswer' = ret'
  /\ cpc' = "idle" /\ ret' \in {"io_error", "row_too_large", "malformed_row"}
       => StreamAnswer' = "error"
BY DEF StreamAnswer, None

(* A step of the reader is one of RowStream, or none. *)
StreamStep == csv.policy = "THROW" \/ Stream!Next \/ EarlyEnd \/ UNCHANGED Stream!streamVars

(* The row accepted is the next of the data rows. *)
LEMMA AcceptIsDeliver ==
  ASSUME TypeOK, Phases, QueueInOrder, Delivery, DataRows' = DataRows,
         csv.policy # "THROW", AcceptRow
  PROVE  Stream!Deliver
<1>0. cpc = "accept" /\ drained # <<>> /\ cpc' = "accept"
  BY DEF AcceptRow
<1>1. /\ Done \in Nat /\ Len(drained) \in Nat /\ Len(drained) >= 1
      /\ Done + Len(drained) = Len(taken) /\ Len(taken) \in Nat
      /\ Len(taken) <= RowCount /\ RowCount \in Nat
      /\ Head(drained) = Done + 1
      /\ Acceptable(Done + 1) <=> Wanted(Done + 1)
  BY <1>0, NextInHand
<1>2. delivered' = Append(delivered, Done + 1) /\ Wanted(Done + 1)
  BY <1>1 DEF AcceptRow
<1>3. delivered = DataRowsUpTo[Done] /\ delivered \in Seq(1..RowCount) /\ Len(delivered) \in Nat
  BY DeliveredSoFar, LenProperties DEF TypeOK, CallTypes
<1>4. Done + 1 \in 1..RowCount /\ Done + 1 \in 0..RowCount /\ (Done + 1) - 1 = Done
  BY <1>1
<1>5. DataRowsUpTo[Done + 1] = Append(delivered, Done + 1)
  BY <1>2, <1>3, <1>4, DataRowsFacts DEF DataRowsRecur
<1>6. Len(DataRowsUpTo[Done + 1]) = Len(delivered) + 1
      /\ DataRowsUpTo[Done + 1][Len(delivered) + 1] = Done + 1
  BY <1>3, <1>4, <1>5, AppendProperties
<1>7. /\ Len(DataRowsUpTo[Done + 1]) <= Len(DataRows)
      /\ \A j \in 1..Len(DataRowsUpTo[Done + 1]) : DataRows[j] = DataRowsUpTo[Done + 1][j]
  BY <1>4, DataRowsPrefix
<1>8. DataRows \in Seq(1..RowCount) /\ Len(DataRows) \in Nat
  <2>1. RowCount \in 0..RowCount /\ DataRowsRecur
    BY <1>1, DataRowsFacts
  <2>2. DataRows \in Seq(1..RowCount)
    BY <2>1 DEF DataRowsRecur, DataRows
  <2> QED BY <2>2, LenProperties
<1>9. Len(delivered) < Len(DataRows) /\ DataRows[Len(delivered) + 1] = Done + 1
  BY <1>3, <1>6, <1>7, <1>8
<1>10. StreamAnswer = "none" /\ StreamAnswer' = "none"
  BY <1>0, AnswerOf, AnswerThen
<1> QED BY <1>2, <1>9, <1>10 DEF Stream!Deliver

(* Without threading a call answers "end" only when every data row has been *)
(* handed over.                                                             *)
LEMMA EndIsAnswerEnd ==
  ASSUME TypeOK, WithinLimit, Phases, QueueInOrder, Delivery, OneThread,
         csv.policy # "THROW", ~csv.threading, JoinEof
  PROVE  delivered = DataRows
<1>1. cpc = "join" /\ eof
  BY DEF JoinEof
<1>2. rows = <<>> /\ drained = <<>>
  BY <1>1 DEF OneThread, WithinLimit, Searching
<1>3. parsed = RowCount
  BY <1>1 DEF Phases
<1>4. /\ Len(taken) \in Nat /\ Len(rows) = 0 /\ Len(drained) = 0
      /\ Len(taken) + Len(rows) = parsed
  BY <1>2, TakenFacts, EmptySeq
<1>5. Done = RowCount
  BY <1>3, <1>4 DEF Done
<1> QED BY <1>5, DeliveredSoFar DEF DataRows

LEMMA NextStream ==
  ASSUME TypeOK, WithinLimit, Phases, QueueInOrder, Delivery, OneThread, TypeOK',
         DataRowsRecur, DataRowsRecur', [Next]_vars
  PROVE  StreamStep
<1> SUFFICES ASSUME csv.policy # "THROW"
             PROVE  Stream!Next \/ EarlyEnd \/ UNCHANGED Stream!streamVars
  BY DEF StreamStep
<1>0. DataRows' = DataRows
  <2>1. csv' = csv
    BY WorkerFrame, CallerFrame DEF Next, vars
  <2> QED BY <2>1, SameData
<1>quiet. ASSUME delivered' = delivered, StreamAnswer' = StreamAnswer
          PROVE  UNCHANGED Stream!streamVars
  BY <1>0, <1>quiet DEF Stream!streamVars
<1>between. ASSUME delivered' = delivered, cpc # "idle", cpc' # "idle"
            PROVE  UNCHANGED Stream!streamVars
  BY <1>between, <1>quiet, AnswerOf, AnswerThen
<1>answer. ASSUME delivered' = delivered, cpc # "idle", cpc' = "idle",
                  ret' \in {"rows", "io_error", "row_too_large", "malformed_row"}
           PROVE  Stream!Answer
  <2>1. StreamAnswer = "none" /\ StreamAnswer' \in {"rows", "error"}
    BY <1>answer, AnswerOf, AnswerThen
  <2> QED BY <1>0, <1>answer, <2>1 DEF Stream!Answer
<1>ask. ASSUME delivered' = delivered, StreamAnswer' = "none"
        PROVE  Stream!Ask
  BY <1>0, <1>ask DEF Stream!Ask
<1>error. ret' = exception /\ exception # None => ret' = "io_error"
  BY DEF TypeOK, ThreadTypes
<1>1. CASE Worker
  <2>1. delivered' = delivered /\ cpc' = cpc /\ ret' = ret
    BY <1>1, WorkerFrame DEF callSt
  <2>2. StreamAnswer' = StreamAnswer
    BY <2>1 DEF StreamAnswer
  <2> QED BY <1>quiet, <2>1, <2>2
<1>2. CASE InitialRead
  BY <1>2, <1>between DEF InitialRead, callSt
<1>3. CASE InitialReadDone
  <2>1. delivered' = delivered /\ StreamAnswer = "none"
    BY <1>3, AnswerOf DEF InitialReadDone
  <2>2. cpc' # "idle" \/ (cpc' = "idle" /\ ret' = None)
    BY <1>3 DEF InitialReadDone
  <2>3. StreamAnswer' = "none"
    BY <2>2, AnswerThen
  <2> QED BY <1>quiet, <2>1, <2>3
<1>4. CASE AfterRun
  BY <1>4, <1>between DEF AfterRun, callSt
<1>5. CASE AfterRunRethrow \/ JoinRethrow
  BY <1>5, <1>answer, <1>error DEF AfterRunRethrow, JoinRethrow, Rethrow, Return, Stream!Next
<1>6. CASE JoinTooLarge \/ ReturnRows
  BY <1>6, <1>answer DEF JoinTooLarge, ReturnRows, Return, Stream!Next
<1>7. CASE JoinRun
  BY <1>7, <1>between DEF JoinRun, callSt
<1>8. CASE JoinEof
  <2>1. delivered' = delivered /\ cpc = "join" /\ cpc' = "idle"
    BY <1>8 DEF JoinEof, Return
  <2>2. ret' = "rows" \/ ret' = "end"
    BY <1>8 DEF JoinEof, Return
  <2>3. CASE ret' = "rows"
    BY <1>answer, <2>1, <2>3 DEF Stream!Next
  <2>4. CASE ret' = "end"
    <3>1. StreamAnswer = "none" /\ StreamAnswer' = "end"
      BY <2>1, <2>4, AnswerOf, AnswerThen
    <3>2. CASE csv.threading
      BY <1>0, <2>1, <3>1, <3>2 DEF EarlyEnd
    <3>3. CASE ~csv.threading
      <4>1. delivered = DataRows
        BY <1>8, <3>3, EndIsAnswerEnd
      <4>2. Stream!AnswerEnd
        BY <1>0, <2>1, <3>1, <4>1 DEF Stream!AnswerEnd
      <4> QED BY <4>2 DEF Stream!Next
    <3> QED BY <3>2, <3>3
  <2> QED BY <2>2, <2>3, <2>4
<1>9. CASE Check
  BY <1>9, <1>between DEF Check, SeeRows, SeeEmpty, SeeWaitable, SeeFinished, EndWait, AtReader,
     callSt
<1>10. CASE Take
  BY <1>10, <1>between DEF Take, StillEmpty, FoundRows, TakeRow, TakeBatch, AtReader, callSt
<1>11. CASE AcceptRow
  BY <1>0, <1>11, AcceptIsDeliver DEF Stream!Next
<1>12. CASE RejectRow \/ ReadMore
  BY <1>12, <1>between DEF RejectRow, ReadMore, AtReader, callSt
<1>13. CASE CallReadRow \/ CallReadChunk
  <2>1. PICK max_rows, is_chunk : Call(is_chunk, max_rows)
    BY <1>13 DEF CallReadRow, CallReadChunk
  <2>2. delivered' = delivered
    BY <2>1 DEF Call
  <2>3. cpc' = "check" \/ (cpc' = "idle" /\ ret' = "nothing_asked")
    BY <2>1 DEF Call, Return
  <2>4. StreamAnswer' = "none"
    BY <2>3, AnswerThen
  <2> QED BY <1>ask, <2>2, <2>4 DEF Stream!Next
<1>14. CASE Move
  <2>1. delivered' = delivered /\ cpc' = cpc /\ ret' = ret
    BY <1>14 DEF Move, callSt
  <2> QED BY <1>quiet, <2>1 DEF StreamAnswer
<1>15. CASE Destroy
  BY <1>15, <1>ask, AnswerThen DEF Destroy, callSt, Stream!Next
<1>16. CASE Gone \/ UNCHANGED vars
  <2>1. delivered' = delivered /\ cpc' = cpc /\ ret' = ret
    BY <1>16 DEF Gone, vars, callSt
  <2> QED BY <1>quiet, <2>1 DEF StreamAnswer
<1>17. ~ThrowBadRow
  BY DEF ThrowBadRow
<1> QED BY <1>1, <1>2, <1>3, <1>4, <1>5, <1>6, <1>7, <1>8, <1>9, <1>10, <1>11, <1>12, <1>13,
           <1>14, <1>15, <1>16, <1>17 DEF Next, Reader, Launch, Joined, Accept, Caller

LEMMA DataRowsNext == TypeOK' => DataRowsRecur'
BY DataRowsFacts, PTL

(* The reader implements RowStream: behind windows, threads, batches and    *)
(* policies its caller sees one stream of data rows, and "end" when it is   *)
(* exhausted.  The exceptions are those of StreamSpec: with threading an    *)
(* early "end", and what a throw abandons.                                  *)
THEOREM ReaderImplementsStream ==
  ASSUME \A s \in Sources : HeaderInHead(s)
  PROVE  Spec => StreamSpec
<1>1. Init => Stream!Init /\ OneThread
  <2> SUFFICES ASSUME Init PROVE Stream!Init /\ OneThread
    OBVIOUS
  <2>1. delivered = <<>> /\ StreamAnswer = "none" /\ OneThread
    BY AnswerOf DEF Init, OneThread
  <2> QED BY <2>1 DEF Stream!Init
<1>2. Inv /\ OneThread /\ [Next]_vars => OneThread'
  BY NextOneThread DEF Inv
<1>3. Inv /\ Inv' /\ Delivery /\ OneThread /\ [Next]_vars => StreamStep
  <2> SUFFICES ASSUME Inv, Inv', Delivery, OneThread, [Next]_vars PROVE StreamStep
    OBVIOUS
  <2>1. TypeOK'
    BY DEF Inv
  <2>2. DataRowsRecur /\ DataRowsRecur'
    BY <2>1, DataRowsFacts, DataRowsNext DEF Inv
  <2> QED BY <2>1, <2>2, NextStream DEF Inv
<1>4. StreamStep => [csv.policy = "THROW" \/ Stream!Next \/ EarlyEnd]_(Stream!streamVars)
  BY DEF StreamStep
<1>5. Spec => []Delivery
  BY DeliveryInvariance
<1> QED BY <1>1, <1>2, <1>3, <1>4, <1>5, Invariance, PTL DEF Spec, StreamSpec
=============================================================================
