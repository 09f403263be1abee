----------------------------- MODULE CSVReader -----------------------------
(***************************************************************************)
(* csv::CSVReader: the caller's thread (read_row, read_chunk, move,        *)
(* destruction), the worker thread that ThreadedCSVReadScheduler starts    *)
(* for one read_csv() cycle, and what they share: the row queue, the       *)
(* source parser and the exception slot.                                   *)
(*                                                                         *)
(* A row is its number in the source.  Bytes matter only as offsets: a     *)
(* window of the source yields the rows that end inside it (which rows     *)
(* those are, byte by byte, is the subject of the parser modules).         *)
(* Every access of one thread to memory the other may write is a step of   *)
(* its own; a queue operation runs under the queue's mutex and is one step *)
(* (module ThreadSafeDeque refines that step).                             *)
(***************************************************************************)
EXTENDS Integers, Sequences

CONSTANTS
  Sources,     (* the inputs: contents, kind of source and CSVFormat       *)
  StreamWindowMax, (* CSV_STREAM_WINDOW_SIZE_MAX                           *)
  NotifySize,  (* records{new RowCollection(100)}                          *)
  ChunkLimits  (* the max_rows arguments given to read_chunk               *)

Policies == {"THROW", "IGNORE_ROW", "KEEP", "KEEP_NON_EMPTY"}

(***************************************************************************)
(* A source: where each row ends, how many columns it has (0 for a blank   *)
(* line), whether the last line is terminated, how it is read, and the     *)
(* part of its CSVFormat the reader consults.                              *)
(***************************************************************************)
IsSource(s) ==
  /\ s.rows \in Seq([end : Nat \ {0}, cols : Nat])
  /\ \A i, j \in DOMAIN s.rows : i < j => s.rows[i].end < s.rows[j].end
  /\ s.terminated \in BOOLEAN    (* the last row ends with a line break     *)
  /\ s.mmap \in BOOLEAN          (* MmapParser, else StreamParser           *)
  /\ s.may_fail \in BOOLEAN      (* mapping or reading the source may fail  *)
  /\ s.chunk \in Nat \ {0}       (* CSVFormat::chunk_size                   *)
  /\ s.head \in 1..s.chunk       (* bytes read to guess the format          *)
  /\ s.threading \in BOOLEAN
  /\ s.workers \in Nat \ {0}     (* parse workers of the orchestrator       *)
  /\ s.workers > 1 => s.threading
  /\ s.policy \in Policies       (* variable_column_policy                  *)
  /\ s.header \in Nat \cup {-1}  (* header row, -1 for none                 *)
  /\ s.named \in BOOLEAN         (* column names given in the format        *)
  /\ s.n_cols \in Nat            (* resolved.n_cols, or their number        *)

ASSUME SourcesAssumption ==
  /\ \A s \in Sources : IsSource(s)
  /\ StreamWindowMax \in Nat \ {0}
  /\ NotifySize \in Nat \ {0}
  /\ ChunkLimits \subseteq Nat

VARIABLES
  csv,            (* the source being read; never changes                  *)
  rows, is_waitable, taken,  (* the row queue, see RowQueue                *)
  parsed,         (* rows of the source pushed to the queue so far         *)
  window,         (* the window next() is parsing                          *)
  head_pending,   (* MmapParser::head_ not parsed yet                      *)
  leftover,       (* StreamParser::leftover_, in bytes                     *)
  broken,         (* the stream's bad bit                                  *)
  eof,            (* CSVParserDriverBase::eof_                             *)
  header_trimmed, col_names_set, n_cols, read_requested,
  exception,      (* ThreadedCSVReadScheduler::exception_                  *)
  wpc,            (* worker: "off" no thread, "done" ended but not joined  *)
  cpc,            (* caller's thread                                       *)
  limit, out,     (* the call in progress: max_rows and rows produced      *)
  chunked,        (* TRUE in read_chunk, FALSE in read_row                 *)
  drained,        (* rows taken off the queue and not examined yet         *)
  ret,            (* how the last call ended                               *)
  delivered,      (* history: rows handed to the caller                    *)
  swept           (* history: drained rows abandoned by a throw            *)

Q == INSTANCE RowQueue WITH Row <- Nat, MaxBatch <- 0

queue    == <<rows, is_waitable, taken>>
parserSt == <<parsed, window, head_pending, leftover, broken, eof>>
header   == <<header_trimmed, col_names_set, n_cols>>
callSt   == <<limit, out, chunked, drained, ret, delivered, swept>>
vars     == <<csv, queue, parserSt, header, read_requested, exception, wpc,
              cpc, callSt>>

WorkerStates == {"off", "notify", "next", "push", "trim", "kill",
                 "kill_fail", "adopt", "done"}
CallerStates == {"new", "init_join", "idle", "check", "check_waitable",
                 "wait", "join", "after_run", "recheck", "take", "accept",
                 "closed"}

None == "none"

-----------------------------------------------------------------------------
(* The source. *)

RowCount == Len(csv.rows)

ColsOf(i) == csv.rows[i].cols

EndOf(i) == IF i = 0 THEN 0 ELSE csv.rows[i].end

SourceSize == EndOf(RowCount)

(* mmap_pos, or stream_pos_: a window starts where the next row starts. *)
Position == EndOf(parsed)

Remaining == SourceSize - Position

(* CSVParseOrchestrator::read_window_size (its size_t clamp is not reached).*)
read_window_size == csv.chunk * csv.workers

(* A stream caps its window, but never below one chunk. *)
stream_window_cap == IF csv.chunk > StreamWindowMax THEN csv.chunk ELSE StreamWindowMax

stream_window_size ==
  IF read_window_size < stream_window_cap THEN read_window_size ELSE stream_window_cap

WindowLimit ==
  IF csv.mmap THEN IF head_pending THEN csv.head ELSE read_window_size
              ELSE IF leftover < stream_window_size THEN stream_window_size
                                                    ELSE leftover + csv.chunk

WindowLength == IF WindowLimit < Remaining THEN WindowLimit ELSE Remaining

(* mmap knows the size; a stream is at its end once a read comes up short. *)
SourceExhausted == IF csv.mmap THEN WindowLength = Remaining
                               ELSE WindowLimit > Remaining

(* Row i is complete in the window: its line break is there, or it is the   *)
(* last row and no more input can follow (end_feed).                        *)
CompleteInWindow(i) ==
  \/ SourceExhausted
  \/ /\ EndOf(i) <= Position + WindowLength
     /\ i < RowCount \/ csv.terminated

LastComplete(last) ==
  /\ last \in parsed..RowCount
  /\ \A i \in (parsed + 1)..last : CompleteInWindow(i)
  /\ last < RowCount => ~CompleteInWindow(last + 1)

(* The window is large enough for the parse to be split between workers. *)
Speculative(length) == csv.workers > 1 /\ length > csv.chunk

-----------------------------------------------------------------------------
(* What the steps of the two threads are made of. *)

Joinable == wpc \in {"off", "done"}

(* join, clear_exception, then start the thread. *)
StartWorker == wpc' = "notify" /\ exception' = None

Return(how) == ret' = how /\ cpc' = "idle"

(* rethrow_exception_if_any with an exception stored: it leaves the call. *)
Rethrow ==
  /\ exception # None
  /\ exception' = None
  /\ Return(exception)

(* A step of the caller that only looks. *)
AtReader(from, to) ==
  /\ cpc = from
  /\ cpc' = to
  /\ UNCHANGED <<csv, queue, parserSt, header, read_requested, exception, wpc, callSt>>

-----------------------------------------------------------------------------
(* Faulty variants of definitions below: each is a change of the code that  *)
(* one of the properties must notice.                                       *)

(* end_feed emits a row whatever the state of the parser. *)
PushRowUnguarded ==
  /\ wpc = "push"
  /\ parsed <= window.last
  /\ Q!PushBack(parsed + 1)
  /\ parsed' = parsed + 1
  /\ UNCHANGED <<csv, window, head_pending, leftover, broken, eof, header,
                 read_requested, exception, wpc, cpc, callSt>>

(* A read that fails counts as the end of the source. *)
NextFailsAsEof ==
  /\ wpc = "next"
  /\ csv.may_fail
  /\ csv.mmap => ~head_pending
  /\ broken' = ~csv.mmap
  /\ eof' = TRUE
  /\ wpc' = "kill"
  /\ UNCHANGED <<csv, queue, parsed, window, head_pending, leftover,
                 header, read_requested, exception, cpc, callSt>>

(* The header row itself stays on the queue. *)
TrimHeaderOffByOne ==
  /\ wpc = "trim"
  /\ wpc' = "kill"
  /\ IF header_trimmed
     THEN UNCHANGED queue
     ELSE Q!DrainFront(IF csv.header > 0 THEN csv.header ELSE 0)
  /\ header_trimmed' = TRUE
  /\ UNCHANGED <<csv, parserSt, col_names_set, n_cols, read_requested, exception, cpc, callSt>>

(* The constructor does not wait for the worker it started. *)
InitialReadNoJoin ==
  /\ cpc = "init_join"
  /\ cpc' = "idle"
  /\ UNCHANGED <<csv, queue, parserSt, header, read_requested, exception, wpc, callSt>>

(* The next worker is started over an exception nobody has seen. *)
JoinRunDropsError ==
  /\ cpc = "join" /\ Joinable
  /\ ~eof
  /\ ~(read_requested /\ Q!Empty)
  /\ IF csv.threading THEN Q!NotifyAll ELSE UNCHANGED queue
  /\ StartWorker
  /\ cpc' = "after_run"
  /\ UNCHANGED <<csv, parserSt, header, read_requested, callSt>>

(* The hook that announces the worker runs after the worker was started. *)
AfterRunAnnounces ==
  /\ cpc = "after_run"
  /\ csv.threading \/ Joinable
  /\ exception = None
  /\ Q!NotifyAll
  /\ read_requested' = TRUE
  /\ cpc' = "recheck"
  /\ UNCHANGED <<csv, parserSt, header, exception, wpc, callSt>>

(* The request is forgotten, as it was before issue #218. *)
AfterRunForgets ==
  /\ cpc = "after_run"
  /\ csv.threading \/ Joinable
  /\ exception = None
  /\ cpc' = "recheck"
  /\ UNCHANGED <<csv, queue, parserSt, header, read_requested, exception, wpc, callSt>>

(* Rows that are too long are let through. *)
FitsColumnsAtLeast(i) == ColsOf(i) >= n_cols

-----------------------------------------------------------------------------
(* The worker: CSVReader::read_csv under the scheduler's run_now. *)

WorkerNotify ==
  /\ wpc = "notify"
  /\ Q!NotifyAll
  /\ wpc' = "next"
  /\ UNCHANGED <<csv, parserSt, header, read_requested, exception, cpc, callSt>>

(* parser->next(): reuse the head, map the next window, or read the stream.*)
NextWindow ==
  /\ wpc = "next"
  /\ ~broken
  /\ \E last \in 0..RowCount :
       /\ LastComplete(last)
       /\ window' = [last |-> last, length |-> WindowLength,
                     end |-> Position + WindowLength, exhausted |-> SourceExhausted]
  /\ head_pending' = FALSE
  /\ wpc' = "push"
  /\ UNCHANGED <<csv, queue, parsed, leftover, broken, eof, header,
                 read_requested, exception, cpc, callSt>>

(* make_mmap_source reports an error, or the stream goes bad (for good). *)
NextFails ==
  /\ wpc = "next"
  /\ csv.may_fail
  /\ csv.mmap => ~head_pending
  /\ broken' = ~csv.mmap
  /\ wpc' = "kill_fail"
  /\ UNCHANGED <<csv, queue, parsed, window, head_pending, leftover, eof,
                 header, read_requested, exception, cpc, callSt>>

(* The serial parser emits each finished row; the speculative one appends   *)
(* the rows of a validated chunk at once.                                   *)
PushRow ==
  /\ wpc = "push"
  /\ parsed < window.last
  /\ ~Speculative(window.length)
  /\ Q!PushBack(parsed + 1)
  /\ parsed' = parsed + 1
  /\ UNCHANGED <<csv, window, head_pending, leftover, broken, eof, header,
                 read_requested, exception, wpc, cpc, callSt>>

AppendChunk ==
  /\ wpc = "push"
  /\ Speculative(window.length)
  /\ \E upto \in (parsed + 1)..window.last :
       /\ Q!AppendRows([k \in 1..(upto - parsed) |-> parsed + k])
       /\ parsed' = upto
  /\ UNCHANGED <<csv, window, head_pending, leftover, broken, eof, header,
                 read_requested, exception, wpc, cpc, callSt>>

(* The end of finalize_loaded_chunk and of StreamParser::next: remember the *)
(* end of the source, or keep the bytes of the incomplete row.              *)
FinishWindow ==
  /\ wpc = "push"
  /\ parsed = window.last
  /\ eof' = (eof \/ window.exhausted)
  /\ leftover' = IF csv.mmap \/ window.exhausted THEN 0 ELSE window.end - Position
  /\ wpc' = "trim"
  /\ UNCHANGED <<csv, queue, parsed, window, head_pending, broken, header,
                 read_requested, exception, cpc, callSt>>

(* trim_header: drop the rows up to the header row, taking the names from   *)
(* it unless the format gave them; at most once, however few rows there are.*)
TrimHeader ==
  /\ wpc = "trim"
  /\ wpc' = "kill"
  /\ IF header_trimmed
     THEN UNCHANGED <<queue, header>>
     ELSE /\ Q!DrainFront(csv.header + 1)
          /\ IF csv.header >= 0 /\ csv.header < Len(rows) /\ ~col_names_set
             THEN /\ col_names_set' = TRUE
                  /\ n_cols' = ColsOf(rows[csv.header + 1])
             ELSE UNCHANGED <<col_names_set, n_cols>>
          /\ header_trimmed' = TRUE
  /\ UNCHANGED <<csv, parserSt, read_requested, exception, cpc, callSt>>

WorkerKill ==
  /\ wpc \in {"kill", "kill_fail"}
  /\ Q!KillAll
  /\ wpc' = IF wpc = "kill" THEN "done" ELSE "adopt"
  /\ UNCHANGED <<csv, parserSt, header, read_requested, exception, cpc, callSt>>

(* run_now's catch; without threading, the exception simply propagates. *)
AdoptException ==
  /\ wpc = "adopt"
  /\ exception' = "io_error"
  /\ wpc' = "done"
  /\ UNCHANGED <<csv, queue, parserSt, header, read_requested, cpc, callSt>>

Worker == \/ WorkerNotify \/ NextWindow \/ NextFails \/ PushRow \/ AppendChunk
          \/ FinishWindow \/ TrimHeader \/ WorkerKill \/ AdoptException

-----------------------------------------------------------------------------
(* The scheduler.  Without threading run() executes the task on the         *)
(* caller's thread: the caller stays in after_run until the task is over.   *)

(* The constructor's initial_read: run without the before_async_run hook. *)
InitialRead ==
  /\ cpc = "new"
  /\ cpc' = "init_join"
  /\ StartWorker
  /\ UNCHANGED <<csv, queue, parserSt, header, read_requested, callSt>>

(* ... join and rethrow: a constructor that throws leaves no reader. *)
InitialReadDone ==
  /\ cpc = "init_join"
  /\ Joinable
  /\ wpc' = "off"
  /\ exception' = None
  /\ ret' = exception
  /\ cpc' = IF exception = None THEN "idle" ELSE "closed"
  /\ UNCHANGED <<csv, queue, parserSt, header, read_requested, limit, out,
                 chunked, drained, delivered, swept>>

-----------------------------------------------------------------------------
(* The caller. *)

Call(is_chunk, max_rows) ==
  /\ cpc = "idle"
  /\ limit' = max_rows
  /\ chunked' = is_chunk
  /\ out' = <<>>
  /\ drained' = <<>>
  /\ IF max_rows = 0 THEN Return("nothing_asked")
                     ELSE ret' = None /\ cpc' = "check"
  /\ UNCHANGED <<csv, queue, parserSt, header, read_requested, exception, wpc,
                 delivered, swept>>

(* read_row, and the iterator's begin() and increments. *)
CallReadRow == Call(FALSE, 1)

CallReadChunk == \E max_rows \in ChunkLimits : Call(TRUE, max_rows)

(* check_for_rows, first look: the queue's lock-free empty flag. *)
SeeRows  == ~Q!Empty /\ AtReader("check", "recheck")
SeeEmpty == Q!Empty /\ AtReader("check", "check_waitable")

(* Second look: the lock-free is_waitable flag. *)
SeeWaitable == csv.threading /\ is_waitable /\ AtReader("check_waitable", "wait")
SeeFinished == ~(csv.threading /\ is_waitable) /\ AtReader("check_waitable", "join")

EndWait == Q!WaitIsOver /\ AtReader("wait", "recheck")

(* The worker is joined from here on: what it did is all visible. *)
JoinRethrow ==
  /\ cpc = "join" /\ Joinable
  /\ wpc' = "off"
  /\ Rethrow
  /\ UNCHANGED <<csv, queue, parserSt, header, read_requested, limit, out,
                 chunked, drained, delivered, swept>>

(* read_row returns false; read_chunk true if it has rows. *)
JoinEof ==
  /\ cpc = "join" /\ Joinable
  /\ exception = None
  /\ eof
  /\ wpc' = "off"
  /\ Return(IF out = <<>> THEN "end" ELSE "rows")
  /\ UNCHANGED <<csv, queue, parserSt, header, read_requested, exception, limit,
                 out, chunked, drained, delivered, swept>>

JoinTooLarge ==
  /\ cpc = "join" /\ Joinable
  /\ exception = None
  /\ ~eof
  /\ read_requested /\ Q!Empty
  /\ wpc' = "off"
  /\ Return("row_too_large")
  /\ UNCHANGED <<csv, queue, parserSt, header, read_requested, exception, limit,
                 out, chunked, drained, delivered, swept>>

(* Only the threaded scheduler calls the before_async_run hook. *)
JoinRun ==
  /\ cpc = "join" /\ Joinable
  /\ exception = None
  /\ ~eof
  /\ ~(read_requested /\ Q!Empty)
  /\ IF csv.threading THEN Q!NotifyAll ELSE UNCHANGED queue
  /\ StartWorker
  /\ cpc' = "after_run"
  /\ UNCHANGED <<csv, parserSt, header, read_requested, callSt>>

(* The second rethrow: the worker may have failed already. *)
AfterRunRethrow ==
  /\ cpc = "after_run"
  /\ csv.threading \/ Joinable
  /\ Rethrow
  /\ UNCHANGED <<csv, queue, parserSt, header, read_requested, wpc, limit, out,
                 chunked, drained, delivered, swept>>

AfterRun ==
  /\ cpc = "after_run"
  /\ csv.threading \/ Joinable
  /\ exception = None
  /\ read_requested' = TRUE
  /\ cpc' = "recheck"
  /\ UNCHANGED <<csv, queue, parserSt, header, exception, wpc, callSt>>

(* read_row and read_chunk look at the queue again before they take. *)
StillEmpty == Q!Empty /\ AtReader("recheck", "check")
FoundRows  == ~Q!Empty /\ AtReader("recheck", "take")

TakeRow ==
  /\ cpc = "take"
  /\ ~chunked
  /\ Q!PopFront
  /\ drained' = <<Head(rows)>>
  /\ cpc' = "accept"
  /\ UNCHANGED <<csv, parserSt, header, read_requested, exception, wpc, limit,
                 out, chunked, ret, delivered, swept>>

TakeBatch ==
  /\ cpc = "take"
  /\ chunked
  /\ LET wanted == limit - Len(out)
     IN  /\ Q!DrainFront(wanted)
         /\ drained' = SubSeq(rows, 1, Q!DrainCount(wanted))
  /\ cpc' = "accept"
  /\ UNCHANGED <<csv, parserSt, header, read_requested, exception, wpc, limit,
                 out, chunked, ret, delivered, swept>>

(* accept_row *)
FitsColumns(i) == ColsOf(i) = n_cols

Acceptable(i) ==
  CASE csv.policy = "KEEP"           -> TRUE
    [] csv.policy = "KEEP_NON_EMPTY" -> ColsOf(i) # 0
    [] OTHER                         -> FitsColumns(i)

AcceptRow ==
  /\ cpc = "accept" /\ drained # <<>>
  /\ Acceptable(Head(drained))
  /\ out' = Append(out, Head(drained))
  /\ delivered' = Append(delivered, Head(drained))
  /\ drained' = Tail(drained)
  /\ read_requested' = FALSE
  /\ UNCHANGED <<csv, queue, parserSt, header, exception, wpc, cpc, limit,
                 chunked, ret, swept>>

RejectRow ==
  /\ cpc = "accept" /\ drained # <<>>
  /\ ~Acceptable(Head(drained))
  /\ csv.policy # "THROW"
  /\ drained' = Tail(drained)
  /\ UNCHANGED <<csv, queue, parserSt, header, read_requested, exception, wpc,
                 cpc, limit, out, chunked, ret, delivered, swept>>

(* The rest of the batch is destroyed as the exception leaves the loop. *)
ThrowBadRow ==
  /\ cpc = "accept" /\ drained # <<>>
  /\ ~Acceptable(Head(drained))
  /\ csv.policy = "THROW"
  /\ swept' = swept \cup {drained[k] : k \in 2..Len(drained)}
  /\ drained' = <<>>
  /\ Return("malformed_row")
  /\ UNCHANGED <<csv, queue, parserSt, header, read_requested, exception, wpc,
                 limit, out, chunked, delivered>>

(* The loop conditions of read_row and read_chunk. *)
ReturnRows ==
  /\ cpc = "accept" /\ drained = <<>>
  /\ Len(out) >= limit
  /\ Return("rows")
  /\ UNCHANGED <<csv, queue, parserSt, header, read_requested, exception, wpc,
                 limit, out, chunked, drained, delivered, swept>>

ReadMore ==
  /\ drained = <<>>
  /\ Len(out) < limit
  /\ AtReader("accept", "check")

(* Moving the reader joins its worker, then moves every field and the       *)
(* stored exception; only the joined thread is left behind.                 *)
Move ==
  /\ cpc = "idle" /\ wpc = "done"
  /\ wpc' = "off"
  /\ UNCHANGED <<csv, queue, parserSt, header, read_requested, exception, cpc, callSt>>

Destroy ==
  /\ cpc = "idle" /\ Joinable
  /\ cpc' = "closed"
  /\ wpc' = "off"
  /\ UNCHANGED <<csv, queue, parserSt, header, read_requested, exception, callSt>>

(* Not a step of the program: a destroyed reader does nothing. *)
Gone == cpc = "closed" /\ UNCHANGED vars

Check  == SeeRows \/ SeeEmpty \/ SeeWaitable \/ SeeFinished \/ EndWait
Joined == JoinRethrow \/ JoinEof \/ JoinTooLarge \/ JoinRun
Launch == InitialRead \/ InitialReadDone \/ AfterRun \/ AfterRunRethrow
Take   == StillEmpty \/ FoundRows \/ TakeRow \/ TakeBatch
Accept == AcceptRow \/ RejectRow \/ ThrowBadRow \/ ReturnRows \/ ReadMore

(* What the reader does on the caller's thread, and what the caller decides.*)
Reader == Launch \/ Check \/ Joined \/ Take \/ Accept
Caller == CallReadRow \/ CallReadChunk \/ Move \/ Destroy

-----------------------------------------------------------------------------

Init ==
  /\ csv \in Sources
  /\ Q!Init
  /\ parsed = 0
  /\ window = [last |-> 0, length |-> 0, end |-> 0, exhausted |-> FALSE]
  /\ head_pending = csv.mmap
  /\ leftover = IF csv.mmap THEN 0
                ELSE IF csv.head < SourceSize THEN csv.head ELSE SourceSize
  /\ broken = FALSE
  /\ eof = FALSE
  /\ header_trimmed = FALSE
  /\ col_names_set = csv.named
  /\ n_cols = csv.n_cols
  /\ read_requested = FALSE
  /\ exception = None
  /\ wpc = "off"
  /\ cpc = "new"
  /\ limit = 0 /\ out = <<>> /\ chunked = FALSE /\ drained = <<>>
  /\ ret = None /\ delivered = <<>> /\ swept = {}

Next == Worker \/ Reader \/ Caller \/ Gone

(* The operating system runs both threads; nothing obliges the caller to    *)
(* make another call.                                                       *)
Fairness == WF_vars(Worker) /\ WF_vars(Reader)

Spec == Init /\ [][Next]_vars

FairSpec == Spec /\ Fairness

-----------------------------------------------------------------------------
(* Properties. *)

QueueTypes ==
  /\ rows \in Seq(1..RowCount)
  /\ taken \in Seq(1..RowCount)
  /\ is_waitable \in BOOLEAN

ParserTypes ==
  /\ parsed \in 0..RowCount
  /\ window \in [last : 0..RowCount, length : Int, end : Int, exhausted : BOOLEAN]
  /\ head_pending \in BOOLEAN /\ broken \in BOOLEAN /\ eof \in BOOLEAN
  /\ leftover \in Int

HeaderTypes ==
  /\ header_trimmed \in BOOLEAN
  /\ col_names_set \in BOOLEAN
  /\ n_cols \in Nat

ThreadTypes ==
  /\ read_requested \in BOOLEAN
  /\ exception \in {None, "io_error"}
  /\ wpc \in WorkerStates
  /\ cpc \in CallerStates

CallTypes ==
  /\ limit \in Nat
  /\ chunked \in BOOLEAN
  /\ out \in Seq(1..RowCount) /\ drained \in Seq(1..RowCount)
  /\ delivered \in Seq(1..RowCount)
  /\ swept \subseteq 1..RowCount
  /\ ret \in {None, "rows", "end", "nothing_asked", "io_error",
              "row_too_large", "malformed_row"}

(* Every variable has its type; in particular a thread is always at one of  *)
(* its program points.                                                      *)
TypeOK ==
  /\ csv \in Sources
  /\ QueueTypes
  /\ ParserTypes
  /\ HeaderTypes
  /\ ThreadTypes
  /\ CallTypes

(* A call never holds more rows than it was asked for, and while it looks   *)
(* for more there is room: max_rows - out.size() does not wrap around.      *)
Searching == {"check", "check_waitable", "wait", "join", "after_run", "recheck", "take"}

WithinLimit ==
  /\ Len(out) + Len(drained) <= limit
  /\ cpc \in Searching => Len(out) < limit /\ drained = <<>>

(* The rows taken off the queue, followed by those still on it, are the     *)
(* rows pushed so far, each once and in source order: whatever the          *)
(* interleaving, nothing is lost, repeated or overtaken between the worker  *)
(* and the caller, and a new window resumes after the last row pushed.      *)
QueueInOrder == taken \o rows = [i \in 1..parsed |-> i]

(* The announcements of THREADSAFE_DEQUE_DESIGN.md: while the queue is      *)
(* waitable a worker runs that will still call kill_all, so that a caller   *)
(* that decides to wait is never left alone.                                *)
WaitableMeansWorking ==
  is_waitable => wpc \in {"notify", "next", "push", "trim", "kill", "kill_fail"}

(* pop_front on an empty queue is undefined behaviour: the caller pops only *)
(* what it saw, and nobody (trim_header, on the worker, pops too) can take  *)
(* the row away between the look and the pop.                               *)
TakeFindsRow == cpc = "take" => rows # <<>>

(* The data rows of the source that the policy lets through, provided the   *)
(* header row is where trim_header looks for it.                            *)
HasHeaderRow == csv.header >= 0 /\ csv.header < RowCount

FinalCols == IF HasHeaderRow /\ ~csv.named THEN ColsOf(csv.header + 1) ELSE csv.n_cols

Wanted(i) ==
  /\ i > csv.header + 1
  /\ CASE csv.policy = "KEEP"           -> TRUE
       [] csv.policy = "KEEP_NON_EMPTY" -> ColsOf(i) # 0
       [] OTHER                         -> ColsOf(i) = FinalCols

(* ... among the first n rows. *)
DataRowsUpTo[n \in 0..RowCount] ==
  IF n = 0 THEN <<>>
  ELSE IF Wanted(n) THEN Append(DataRowsUpTo[n - 1], n) ELSE DataRowsUpTo[n - 1]

DataRows == DataRowsUpTo[RowCount]

(* What the caller has received is at any moment the beginning of the data  *)
(* rows, whichever mixture of read_row and read_chunk it uses: none is      *)
(* skipped, repeated or out of order, except those abandoned by a throw.    *)
Owed(i) == csv.policy # "THROW" \/ i \notin swept

DeliveredIsPrefix ==
  /\ \A m, n \in DOMAIN delivered : m < n => delivered[m] < delivered[n]
  /\ \A n \in DOMAIN delivered : Wanted(delivered[n]) /\ Owed(delivered[n])
  /\ \A n \in DOMAIN delivered : \A i \in 1..delivered[n] :
        Wanted(i) /\ Owed(i) => \E m \in DOMAIN delivered : delivered[m] = i

(* A call answers "end" only after the worker parsed the whole source and   *)
(* no error of the worker is left unreported.                               *)
EndMeansParsed ==
  cpc = "idle" /\ ret = "end" => eof /\ parsed = RowCount /\ exception = None

(* The phases of a reader's life: construction ends with the header         *)
(* trimmed, so that from then on the worker only adds to the queue; a worker*)
(* that ended without trimming it left an exception; the source is at its   *)
(* end only when all its rows are parsed; and a call that answered "end"    *)
(* left no worker behind.                                                   *)
Phases ==
  /\ cpc \notin {"new", "init_join", "closed"} => header_trimmed
  /\ cpc = "new" => wpc = "off" /\ exception = None
  /\ wpc = "kill" => header_trimmed
  /\ cpc = "init_join" => wpc # "off"
  /\ wpc = "done" /\ exception = None => header_trimmed
  /\ window.exhausted => window.last = RowCount
  /\ eof => parsed = RowCount
  /\ cpc = "idle" /\ ret = "end" => wpc = "off" /\ eof

(* ... and, as read_row documents, when every row has been handed over.     *)
EndMeansDelivered == cpc = "idle" /\ ret = "end" => rows = <<>> /\ parsed = RowCount

(* An exception of the worker is never discarded (bug #282): the slot is    *)
(* emptied only by a call that throws it.                                   *)
ErrorReachesCaller ==
  [][exception # None /\ exception' = None => ret' = exception]_vars

(* Every call returns: no lost wakeup, no wait for a worker that is gone,   *)
(* no endless loop over windows without rows (issue #218).                  *)
EveryCallReturns == (cpc \notin {"idle", "closed"}) ~> (cpc \in {"idle", "closed"})

(* A caller that keeps reading receives every data row, unless a call       *)
(* throws or the reader is destroyed.                                       *)
EveryRowArrives ==
  WF_vars(CallReadRow) =>
    <>(\/ delivered = DataRows
       \/ cpc = "closed"
       \/ ret \in {"io_error", "row_too_large", "malformed_row"})

(* The reader keeps the promise of RowStream, with two exceptions: with     *)
(* threading a call may answer "end" early (EndMeansDelivered), and the     *)
(* THROW policy abandons the rest of a batch with a malformed row.          *)
StreamAnswer ==
  IF cpc # "idle" \/ ret \in {None, "nothing_asked"} THEN "none"
  ELSE IF ret \in {"rows", "end"} THEN ret ELSE "error"

Stream == INSTANCE RowStream WITH data <- DataRows, answer <- StreamAnswer

EarlyEnd ==
  /\ csv.threading
  /\ StreamAnswer = "none" /\ StreamAnswer' = "end"
  /\ UNCHANGED <<DataRows, delivered>>

StreamSpec ==
  Stream!Init /\ [][csv.policy = "THROW" \/ Stream!Next \/ EarlyEnd]_(Stream!streamVars)
=============================================================================
