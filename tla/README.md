# csv-parser in TLA+

A TLA+ model of [vincentlaucsb/csv-parser](https://github.com/vincentlaucsb/csv-parser):
what its components promise, how they do it, TLC runs on small instances, and TLAPS proofs
for all instances. Paths are relative to `src/include/internal/` unless they start with
`src/`.

## 1. Inventory of the system

| Component | State | Operations | Talks to | What is hard |
|---|---|---|---|---|
| **CSVReader** (`csv_reader.*`, `csv_reader_iterator.cpp`) | column names, `header_trimmed`, `read_requested_`, row count, queue, parser, scheduler | `read_row`, `read_chunk`, iteration, `read_csv` (worker), move, destroy | queue, scheduler, parser | two threads share queue, parser and exception slot; every look at the queue can be stale |
| **Read scheduler** (`parser/scheduler.hpp`) | thread, exception pointer | `run`, `join`, `wait_if_active`, `rethrow_exception_if_any` | CSVReader, OS threads | an exception crosses threads and must not be lost or thrown twice |
| **Row queue** (`thread_safe_deque.hpp`, `single_thread_deque.hpp`, `row_queue_batch.hpp`) | batches with a read index, `is_empty_`, `is_waitable_`, mutex, condition variable | push, append, pop, drain, `notify_all`, `kill_all`, `wait` | worker and caller | lost wakeups, lock-free flags beside locked data, batches consumed piecemeal |
| **Indexed task pool** (`parallel/indexed_task_pool.hpp`) | workers, generation, next index, active count, exception | `parallel_for`, destruction | speculative parser, DataFrame executor | late workers, exceptions beside `fetch_add`, reads after unlock |
| **Source parsers** (`parser/mmap.cpp`, `parser/stream.hpp`, `parser/driver.*`, `parser/orchestrator.hpp`) | position, leftover, head, `eof_` | `next`, `finalize_loaded_chunk` | parser core, queue | rows cut by a window, exact boundaries, failing reads |
| **Parser core** (`parser/core.hpp`) | DFA state, pending quote and line feed, current row | `parse`, `end_feed` | queue, arenas | CRLF and `""` cut by a chunk |
| **Speculative parsing** (`speculative/`) | chunk results, guessed start states | `speculate`, `parse_chunks`, `validate_and_release`, repair | task pool, parser core, queue | a wrong guess must be repaired, and equal a serial parse |
| **Format guessing** (`parser/guessing.cpp`) | none | `guess_format` | source parsers | ties, blank lines, a header wider than the rows |
| **CSVFormat** (`csv_format.*`) | delimiters, quote, trim, header, chunk size, policy, threading; which of them were set explicitly | setters, validation | everything | order of setters |
| **Row storage** (`memory/`, `raw_csv_data.hpp`) | directories of append-only blocks for fields, scalars and realized text | append, look up | parser thread and readers | one thread appends while others read without a lock |
| **CSVRow, CSVField, ColNames** (`csv_row.*`, `col_names.*`) | offset and length into shared data; a field's type and number once asked for | field access, conversions | row storage | a field that changes its mind about its type |
| **DataFrame** (`data_frame/`) | rows, sparse edits, hidden columns, keys and their index, JSON mapping, proxies | insert, edit, erase, look up, group, select, parallel apply | executor, rows, writer and parser (to insert a column) | lazily built caches against later edits; callbacks that edit one row at once |
| **DelimWriter** (`csv_writer.hpp`) | batch buffer, stream pointer, `auto_flush_` | write, flush, move, destroy | streams | rows in a buffer while writers are moved; what needs quotes; rounding |
| **Type inference, JSON, utilities** (`data_type.hpp`, `json_converter.hpp`, `csv_utility.*`) | none | conversions | CSVField, DataFrame | numeric limits |
| **Python bindings** (`src/python/`) | typed column buffers, plans, rows read ahead | `read_numpy`, batches, filters, row reader | CSVReader, DataFrame, executor | a column's type is found while it is filled; a filter that changes while rows are read |

Interaction, in one read cycle: the caller's `read_row` looks at the queue; if it is empty and
no producer is announced, the scheduler joins the last worker, rethrows its exception,
announces the next one on the queue and starts it. The worker runs `CSVReader::read_csv`:
one window of the source is parsed into the queue, the header is trimmed if this was the
first window, `kill_all` ends the announcement. The caller meanwhile waits for 100 rows or for
`kill_all`, takes what it finds, and filters it by the column policy.

**What makes each component correct**: *reader* - rows arrive once, in order, none missing;
"end" means the end; every call returns; exceptions arrive. *Queue* - FIFO; the size and
the empty flag are exact when read under the mutex; no lost wakeup. *Pool* - each task runs
once, inside its call; the call returns with one of its tasks' exceptions or after all tasks.
*Parser core, speculation* - windows, chunks and workers do not change the rows.
*Writer* - every row given reaches its stream once, in order, and the parser reads it back.
*Row storage* - a queued row reads the text that was parsed, whatever is appended meanwhile.
*Fields* - a conversion answers as the text promises, whatever was asked before.
*DataFrame* - every answer is that of the plain table it stands for.
*Format* - what was told is used, what was not told is found. *Python readers* - an array is
the cast of its column's cells, a batch the next rows that pass the filter.

## 2. Modules

| Module | Models | Abstraction |
|---|---|---|
| `RowQueue` | the contract of `RowDequeLike`, which `SingleThreadDeque` is almost literally | rows are opaque; a history variable `taken` records what was removed |
| `RowStream` | the promise of `read_row`/`read_chunk` as documented | no queue, no window, no worker |
| `CSVReader` | reader, scheduler and window cutting: caller thread and worker thread | a row is its number; bytes are offsets |
| `ThreadSafeDeque` | the batch-backed queue, one step per access of shared memory | implements `RowQueue` |
| `ParallelFor` | the contract of `parallel_for` | |
| `IndexedTaskPool` | its implementation with worker threads | implements `ParallelFor` |
| `ParserCore` | the byte loop of `parser/core.hpp`, as operators on a record of its members | a byte is its `ParseFlags` class; the three bytes of a byte order mark are one |
| `ChunkRows` | `speculative/chunks.hpp`, `validator.hpp`: fragments, validation, repair | owners and diagnostics left out |
| `ParseWindows` | source, windows, orchestrator, parallel parser: from bytes to rows | the scanner makes any guess; the reader keeps every row |
| `RenderedTables` | tables as other programs write them, read by `ParserCore` | an environment, not code of the library |
| `FormatGuess` | `parser/guessing.cpp`, the setters of `csv_format.*`, `resolve_format_from_head` | two possible delimiters |
| `DelimWriter` | rows and buffers of `csv_writer.hpp` | byte classes; streams that do not fail |
| `NumberText` | `to_string` of `csv_writer.hpp`, and what a text is read and classified as | thousandths; nine whole digits; exact long doubles |
| `FieldValue` | `CSVField`: lazy and eager classification, `get<T>`, `try_get`, `as`, `==`, `try_parse_decimal`, `try_parse_timestamp` | integers of `Int64`, kinds of text |
| `RowStorage` | block arena, field and scalar lists, the parser that fills them and rows that read them | a byte is a field and a position in it |
| `FrameTable` | the promise of `DataFrame`: a table with names and keys | no overlay, no cache |
| `DataFrame` | `data_frame/` | implements `FrameTable`; string keys and cells |
| `NumpyColumns`, `NumpyBatches` | `fastpycsv_numpy.cpp`: buffers, plans, batches, `read_numpy` | a cell is its kind, text and number |
| `RowPredicates` | `fastpycsv_predicate.cpp` | a clause is a set of accepted cells |
| `FilteredRows` | the promise of `reader.filter()` | |
| `LazyRowReader` | `LazyCSVRowReader` of `fastpycsv_reader.cpp` | implements `FilteredRows` |
| `CSVReaderProofs`, `ThreadSafeDequeProofs`, `IndexedTaskPoolProofs`, `RowStorageProofs`, `DataFrameProofs` | theorems on the module each is named for; `RowStorageProofs` also on `FieldValue` | |
| `ParsingProofs` | theorems on `DelimWriter`, `ParserCore`, `ChunkRows` and `ParseWindows` | |
| `PythonReadersProofs` | theorems on `LazyRowReader` and `NumpyBatches` | |
| `SequenceLemmas` | lemmas on sequences: recursion, flattening, cutting, inserting | |
| `MC...` | the small sources, tables, rows, frames and files for the runs | |

### CSVReader

`cpc` is the program point of the caller's thread and `wpc` that of the worker
(`"off"`: no thread; `"done"`: it ended and has not been joined). One action is one access to
memory the other thread may write:

| Action | Code |
|---|---|
| `InitialRead`, `InitialReadDone` | `initial_read` under `init_parser`: start, join, rethrow |
| `Call` | entry of `read_row` (limit 1) and `read_chunk` |
| `SeeRows`, `SeeEmpty` | `check_for_rows` line 12, the lock-free `empty()` |
| `SeeWaitable`, `SeeFinished`, `EndWait` | lines 14-19, `wait_if_active` |
| `JoinRethrow`, `JoinEof`, `JoinTooLarge`, `JoinRun` | lines 21-33 in their order: join, rethrow, `eof`, the too-large check, announce and start |
| `AfterRunRethrow`, `AfterRun` | lines 34-36 |
| `StillEmpty`, `FoundRows`, `TakeRow`, `TakeBatch` | loops of `read_row`, `read_chunk`, `drain_rows_into_chunk` |
| `AcceptRow`, `RejectRow`, `ThrowBadRow`, `ReturnRows`, `ReadMore` | `accept_row` and the loop conditions |
| `Move`, `Destroy` | both join first |
| `WorkerNotify` ... `AdoptException` | `read_csv`: `notify_all`, `parser->next()`, `trim_header`, `kill_all`, and the catch of `run_now` |

`NextWindow` chooses which rows end in the window (mmap: head, then `chunk * workers` bytes;
stream: leftover plus at least a chunk), `PushRow`/`AppendChunk` hand them over one by one or
in batches (speculative parser), `FinishWindow` is the bookkeeping behind them. A queue
operation is one step because it runs under the queue's mutex; `ThreadSafeDeque` shows
that this is right. Without threading `run` executes the task before it returns, so the
caller stays in `after_run` until the worker's steps are over.

### ThreadSafeDeque

One producer (the worker) and one consumer (the caller), the mutex as a variable, the
condition variable as the set of sleepers, spurious wakeups included. Batches are kept with
their read index as in `row_queue_batch.hpp`; the abstract queue is their concatenation.
`empty()` and `is_waitable()` are read outside the mutex.

### IndexedTaskPool

Workers loop as in `worker_loop` with their unlocked reads, the caller publishes, waits and
takes the exception; a call with few tasks runs serially on the caller's thread; the
destructor stops and joins. Any task may throw.

### ParserCore, ChunkRows, ParseWindows

`Parse` is `parse_chunk()`: `Begin` (byte order mark, pending LF, pending quote), then `Step`
until `Stopped`; each case of the switch is an operator. `EndFeed` is `end_feed()`. The loop
is a recursive function, so that these modules may be used by proofs.

`ParseWindows` is the part of the system that must not show: windows and chunks. Its state is
the position in the source (`pos`), what is kept from before (`head`: the pre-read head of a
mapped file, or the leftover of a stream), the serial parser's carried state, the workers that
have looked for a byte order mark, and the window under way.

| Action | Code |
|---|---|
| `SerialWindow` | `next()` through `parse_serial_window()` |
| `SpeculativeWindow` | `next()`, `make_speculative_parse_chunks()`; any guess for each chunk but the first |
| `ParseTask` | `parse_chunk_with()` on a worker, in any order |
| `Validate` | `validate_and_release()` in order, with repair |
| `FinishWindow` | `validator.finish()` and the end of `next()` |

`CSVReader` abstracts these modules to "a window yields the rows that end in it";
`IndexedTaskPool` shows what `ParseTask` assumes. The rows are compared with `ParseAll`, the
parser's own reading of the source as one chunk; `RenderedTables` shows that this reading is
the right one for tables written by RFC 4180 and its relatives.

### FormatGuess

A `CSVFormat` is the record of what its setters remember (`Format`, `Delimiter`, `ColumnNames`,
`HeaderRow`), `Resolve` is `resolve_format_from_head`, and `GuessFormat` returns every result the
unordered tally of row lengths allows. `RenderedTables` asks it about its texts.

### DelimWriter, NumberText, FieldValue

One action per public operation of the writer. A moved-from writer has no stream. The history
variable `given` holds the rows the callers wrote to each stream; `replaced` the streams whose
writer was assigned over while it held rows, which `NothingLost` and `ReadsBack` except
(section 5).

`NumberText` produces the digits `to_string` does, with its rounding and carry; `FieldValue`
takes such texts, and texts of other programs, and asks a lazily and an eagerly classified field
the same questions in any order. Each call returns an answer and the field as it is afterwards,
because `get_value()` and `try_parse_decimal()` change the field's type. Conversions to `float`,
`double` and by `as<T>()` go through `check_convert()` (`GetFloating`); `get` and `try_get` of a
`long double` are specialised, with a check of their own (`GetLongDouble`).

### RowStorage

The parser's steps are those of `CSVRowFieldPolicy::push_field` and `allocate_block`, cut where
another thread may look (`pc`); a reader's are the turns of `find_block`'s binary search. A row
is in `queue` once it was pushed; the queue's mutex publishes what was written before.
The `inserted` sources are rows that `DataFrame::insert_row` makes.

### DataFrame

| State | Code |
|---|---|
| `rows`, `edits` | the `CSVRow`s and their `RowOverlaySlot`s |
| `col_names`, `column_indices`, `width` | visible names, their physical columns, how many there are |
| `keys_`, `key_column`, `key_index` | keys, where they are stored, the lazily built map |
| `json`, `generation`, `view` | the JSON converter, the counter that ends proxies, a proxy kept by the caller |
| `call`, `tasks`, `lock` | the threads of `column_parallel_apply`, its columns, `edits_creation_lock_` |

The owner's calls are one step each, for the class is not meant to be shared; the callbacks
take the steps of `ensure_row_edits`, `RowOverlay` and `ensure_key_index`. `undefined` is set when
the C++ behaviour is no longer defined, after which nothing is promised.

### Python readers

`NumpyBatches` is `NumpyBatchReader` (constructor, `next()`) and `read_numpy`; the buffers and
plans are operators of `NumpyColumns`, one per member function. `LazyRowReader` has an action for
each way `read_next_row` may end, and `filter`. Both share `RowPredicates`, which deals rows to
workers in ranges.

## 3. Runs

| Run | Bounds | Shows |
|---|---|---|
| `reader` | up to 6 rows, chunk 2 bytes, head 1, both kinds of source, every policy, terminated or not, complete or failing, 1 or 3 parse workers, with and without threading, `NotifySize` 2, `read_chunk` 0 or 2 | `RowStream` is implemented; exceptions arrive and "end" is never reported early by the worker; every call returns; a caller that keeps calling gets every row |
| `early_end` | four rows, threads | a documented promise that one stale read breaks |
| `deque` | 1 producer, 1 consumer, 5 rows, batches of up to 3 | the queue implements its contract; no lost wakeup |
| `task_pool` | 2 workers, 2 calls of at most 3 tasks | the pool implements its contract; all waits end |
| `windows` | every text of up to 6 bytes over 5 classes, mapped or streamed, with a byte order mark too, parsed serially (head 3, chunk 4); RFC 4180 texts of up to 7 bytes over 4 classes, parsed by 2 workers (head and chunk 2) | windows, chunks and workers do not change the rows, and move on |
| `windows_crlf` | texts of up to 7 bytes | where windows do change the rows (section 5) |
| `tables` | texts of up to 8 bytes, records of 1 or 2 of 9 contents; formats after up to 4 setters | the parser reads what was meant; a format is the one told, or the table's |
| `writer` | 2 writers, 2 of 7 rows a stream, threshold 5 bytes | rows survive flushes, moves, destruction, and are read back |
| `frame` | frames of up to 2 rows by 2 columns, 3 names, 2 values, 2 changes, then 2 threads on at most 2 cells | `FrameTable` is implemented; caches are current |
| `frame_json` | the same | a cache that is dropped and not made again (section 5) |
| `storage` | chunks of 3 rows of 5 shapes of field, pages of 2 bytes, blocks of 2 fields, one reader; 20 texts and 11 numbers | readers read what was parsed, directories stay; fields answer as their text promises |
| `python` | columns of up to 4 cells of 6 kinds, two columns of up to 3; files of up to 5 rows, batches of 1, 2 and 5 | arrays are the cast of their cells, batches cover the rows, the filtered stream is `FilteredRows` |

**Why the bounds are enough.** *Reader*: a window boundary falls inside, before and after every
row of the sources; three or four windows occur, so a worker is started at the beginning, in the
middle and at the end; windows without rows and without acceptable rows occur. The wait of
`NotifySize` rows is met and not met. *Queue*: two batches with a partly consumed one in front
cover every case of `drain_front`. *Pool*: two calls let a worker be late for the first, and
three tasks on two workers let one worker run twice. *Windows*: with chunks of two bytes and
seven bytes of text a record spans three chunks and two windows, and every pair of neighbouring
bytes is cut by a chunk boundary in one text and by a window boundary in another; the state of
the parser across a boundary is three flags. A head smaller than a chunk is the usual case
(500000 bytes against 10 MB). *Frame*: two changes make every pair of an edit and a
restructuring, with any number of questions and a kept proxy before, between and after (a
column may be erased by the kept proxy or by another, of any column); two
columns are the least with a hidden one before a visible one. The callbacks work on two cells,
so that two threads may meet in one row. *Storage*: field texts fill a page, exceed it, and
exceed the four pages blocks grow to, in every order of four fields; readers write nothing, so
one sees all that several would. *Python*: four cells hold every order of a null, an integer, a
double, a truth value and a text that matters (the buffer has six states); five rows in batches
of two leave a short last batch. Every bound is a constant of a `.cfg` or a definition of an `MC`
module. Symmetry of the two threads of a frame, and a view without the last answer (which no
step reads), reduce the run `frame`; both keep what it checks, which is safety.

**Which sources.** The speculative texts of `windows` have quotes where RFC 4180 lets them be
(`Strict`), and the rows that have fields are compared; section 5 says why. The serial ones are
any texts and everything is compared; of texts with a byte order mark those whose first record
fits the head. `FormatResolved` is about tables with a clear shape (`Guessable`).

**Fairness.** `CSVReader` and `IndexedTaskPool` assume weak fairness of each thread: the
operating system runs a thread that can run. Nothing is assumed of the caller's decisions to
call; `EveryRowArrives` is about a caller that keeps calling `read_row`, which it says itself.
`ThreadSafeDeque` assumes strong fairness of the producer because it has to get a mutex which the
consumer takes and releases again and again; a mutex that starved one of two threads for ever
would break it. `ParseWindows` states progress without fairness: `MovesOn` says that no window is
parsed twice without effect, and with TLC's deadlock check (`Done` is the only way to stop) every
source is read or given up. The others are passive: their callers owe them nothing. Deadlock is
not checked where a model stops at its bound (`tables`, `writer`).

## 4. Proofs

Eight components are proved about, for every value of their constants; `PROJECT.json` lists the
theorems. What is assumed of the constants is the named assumption of each module
(`SourcesAssumption`, `DequeAssumption`, `StorageAssumption`, ...), which the runs evaluate.

| Theorem | Says |
|---|---|
| **CSVReader**: `TypeCorrect`, `LimitKept` | types; a call never holds more rows than asked, `max_rows - out.size()` never wraps |
| `RowsInOrder` | `taken \o rows` is `1, ..., parsed` at all times |
| `NobodyWaitsAlone` | a waitable queue has a worker on its way to `kill_all` |
| `NoEmptyPop` | the caller pops only what is there |
| `PhasesHold` | construction ends with the header trimmed; `eof` means all rows parsed |
| `EndIsTheEnd` | "end" is answered only after the whole source was parsed without error |
| `ErrorsAreReported` | an exception of the worker leaves its slot only through a throwing call |
| `RowsDeliveredInOrder` | what the caller received are the wanted data rows, from the first, without a gap (`DeliveredIsPrefix`) |
| `ReaderImplementsStream` | the reader implements `RowStream` (`StreamSpec`) |
| **ThreadSafeDeque**: `DequeTypes`, `FrontRowAlwaysExists`, `EmptyNeverLies` | the front batch has an unread row; the lock-free flag tells the truth between operations |
| `DequeImplementsRowQueue` | batches, read index and flags implement `RowQueue`'s one sequence |
| **IndexedTaskPool**: `PoolTypes`, `UnlockedReadsAreSafe`, `NoTaskTwice` | no task of a call is run twice, no unlocked read races |
| `PoolImplementsParallelFor` | the pool implements `ParallelFor` |
| **DelimWriter**: `WriterTypes`, `StreamsAreNotShared`, `NoRowIsLost` | one writer per stream; stream and buffer hold the rows given, in order (`NothingLost`) |
| **ParseWindows**: `WindowsMoveOn` | no window is parsed over and over, whatever was guessed (`MovesOn`) |
| `SerialRowsAreTheSources` | with one worker, windows do not change the rows (`SameRows`) |
| **DelimWriter** and **ParserCore**: `RowsAreReadBack` | the rows that were written are the rows the parser reads (`ReadsBack`) |
| **RowStorage**: `ReadersReadTheirText` | a reader finds its field's block and text whatever is appended meanwhile |
| `DirectoriesDoNotGrow` | what `reserve_for_source_size` sets aside is enough for any chunk of that size |
| **FieldValue** and **NumberText**: `FieldsKeepTheirPromise` | a field answers every conversion as its text promises; a number that was written is read as that number (`FieldKeepsPromise`) |
| **DataFrame**: `FrameKeepsItsShape`, `KeyIndexNeverStale`, `ProxyShowsItsColumn` | parallel vectors, distinct keys; an index that is built is current; a valid proxy stands at its column |
| `FrameImplementsTable` | the frame implements `FrameTable` |
| **LazyRowReader**: `ReaderImplementsFilter` | the reader that filters batches implements `FilteredRows` (`FilteredStream`) |
| **NumpyBatches**: `NumpyBatchesCoverRows` | batches hold the rows that pass, each once and in order, all after the last call (`BatchesCoverRows`) |
| `ReadNumpyCasts` | the typed buffers of `read_numpy` end as the cast of their cells, whatever the order (`ReadNumpyIsCast`) |
| `NumpyBatchesAreTyped` | every batch has the types its schema mode promises (`BatchTypes`) |

**Induction.** The prover cannot apply an induction theorem to an operator.
`SequenceLemmas` states what is needed with sets instead: a non-empty set of naturals has a
least element (`LeastNumber`), so a set that holds 0 and the successor of each of its elements
holds all naturals (`Induction`), and a function defined by recursion on a natural number
exists (`RecursionExists`). From these follow the values of `FlattenSeq`, of the recursive
functions of the models (`DataRowsUpTo`, `AppendKeyedRow` over a batch) and of sums.

**Reader.** `Inv` is the conjunction of the invariants of the run and two that serve them.
Types need `WithinLimit` (a batch size is a natural number because there is room in the
call). `QueueInOrder` needs only types: pushing appends the next number, taking moves the
boundary between `taken` and `rows`. `TakeFindsRow` is not inductive alone: `trim_header`
removes rows on the worker's thread. `Phases` supplies what excludes it: no call begins
before construction has joined a worker, and a worker that ended without an exception has
trimmed the header. `EndMeansParsed` needs that no worker is left behind by a call that
answered "end", and that the last window holds the rest of the rows (`LastWindow`).
`Delivery` says where each row is on its way: nothing is taken before the header is
trimmed (`FirstWindow`), what is neither delivered nor judged yet is in the caller's hand
(`InHand`), what was delivered are the wanted rows among those taken (`Received`), and the
number of columns rows are judged by does not change once the header is known. Its theorem
has one hypothesis, `HeaderInHead`: the rows up to the header end in the bytes that were read
to guess the format. Section 5 says what the code does otherwise; the sources of the run
`reader` satisfy it. The refinement adds `OneThread`: without threading the worker is at
work only inside the call that started it, so that no row comes between two looks.

**Queue.** The storage is in step with `size` (`Storage`), the mutex is held in the middle of an
operation and nowhere else (`Mutex`), and the rows moved out but not yet reported
(`Taking`) and the batch stored but not yet announced (`Publishing`) account for what the
abstract queue does not see at that moment.

**Pool.** `active_workers` is the number of workers that have not left the current generation, be
it that they have not joined it yet (`Generations`). A worker past its last task has seen
`next_task` at the limit (`Tasks`), and while no exception is recorded every index handed out has
been begun or is in a worker's hand (`Outcome`); so when the count is 0 nothing is missing.

**Writer.** The invariant says of each writer that its stream and its buffer are the rows given
(`Kept`), and of a stream without a writer that all of it was written. A move needs its own
lemma, because two writers change at once.

**Windows.** One turn of the byte loop is one of eight (`StepCases`), each of which moves `pos`
forward in the chunk and keeps complete rows before `rowStart` (`Good`), so that the loop is over
after as many turns as there are bytes and one more (`RunStops`). What a window reads are the bytes
of the source from `Restart` to `past` (`IsRead`), and what it leaves is a position in the source
whose leftover are the bytes before it (`Position`). In a speculative window (`WindowAt`) chunks
lie one after the other in it and no fragment starts before its own chunk, so that the validator,
once it has released a row, holds back nothing that starts where the window does (`Validated`).
A window that yields a row thus restarts behind its start, and one that does not is the last.

**Rows of windows.** With one worker, the source parsed in one piece is followed turn by turn.
`Reached` are the states that run goes through. A window's run has the bytes of a stretch of the
source: its states, moved by where the window starts (`Lift`), are states of the whole run as long
as the turn looks at no byte behind the window (`Track`, one lemma for each of the eight turns:
what `memchr` finds, a CR whose LF may follow, a quote that may be doubled). What the window ends
with is one of three things: it met the end of the source, and the rest of the rows are its own
(`WindowEnds`); it stopped within a record, whose bytes are read again, and so the whole run at
the start of that record is where the next window begins; or it stopped between a CR and its LF,
which the next window passes over because the state carried says so. `Resumes` states the last two
of a restart; `RowsInv` adds to the invariant of the windows that what was handed over are the
fields of the rows that lie before it (`OneWorker`). `ResumesFrom` then gives the
prefix. A byte order mark is stripped once, by the first window, so if this window yields no row
the mark is read as text (section 5): that is what `MarkFits` excludes.

**What is written is read.** `NothingLost` says what a stream holds: the rows given, rendered. Rendered
rows are then read with the `Reached` of the paragraph above. The text of a row is known by place
(`IsRowText`), that of a field in quotes with each of its quotes twice (`IsDoubled`). Outside
quotes a field that needs none is one run of content; between them the loop goes from
run to doubled quote to run, and each such place is a state it reaches (`Between`): a separator
there is content, and only the quote that no other follows closes the field. What was
pushed then is what was doubled, undone (`Undoubled`). So a record starts where the row before
ends, and the row that is pushed there is the one that was written (`RowRead`), for any number of
rows. An empty field at the end of a row is the exception: it is there because a delimiter or a pair
of quotes is, and without either there is no field, which is why a row of one empty field is
left out when quoting is minimal.

**Row storage.** `StorageInv`: the blocks lie one after the other in the arena and
none is written where it was (`BlocksInOrder`), each stored field points at its bytes
(`FieldsStored`), queued rows have all their fields stored (`QueueInv`), and a search never
loses the block that holds its text between `low` and `high` (`Searches`). `CapacityInv` is why
directories stay: every block but the last accounts for a page of text, the one being written
included, because a block is allocated only for a text that does not fit the one before, and
after a page-sized block that text is as large as what was left of it (`Pages`). The realized
text is never longer than the source (`Room`), so pages of the source and one more are enough.
Rows that `DataFrame::insert_row` makes reserve nothing; nobody can read them before they are
complete.

**Frame.** `Inv` adds to the properties of the run that a row has a field per column
(`Parallel`), where callbacks stand (`Callbacks`), that one thread at a time builds the index
unless the behaviour is undefined (`Index`), and that what was cached was made of the columns
there are (`FromColumns`). What `append_keyed_batch` makes of a batch is an induction over its
rows (`LoadedRows`), for the three duplicate policies. The refinement takes one lemma per
operation and per step of a callback.

**Row reader.** The rows read ahead are those that pass of a stretch that ends where the reader
stands and is no longer than a batch (`ReadAhead`); the stream has dealt with everything before
the first of them. That the workers' ranges cover a batch is arithmetic (`RangesCover`: the least
range that ends at or behind a row holds it), that the loop keeps what passes an
induction (`KeptAreSelected`), and so is that a call passes over any number of batches without a
row that passes (`NothingInBatches`). Files are sequences and batches have at least one row
(`ReaderAssumption`; the constructor takes 0 for 1).

**NumPy batches.** A buffer that finds its type has seen the kinds `K` of the cells so far. What
is known of a column is a function of that set and not of the order (`Known`): the kind of the
buffer and whether it is nullable; and its list fits the cells, or is to be read again
(`GrownTo`). One lemma per way to append a cell keeps this (`GrownStep`), an induction takes it
over the column (`FillGrows`), and `InferredColumn` follows. A plan knows the same of the rows
its schema was found from (`IsPlan`), and promoting it by a chunk adds the kinds of that chunk
(`PromotePlanIs`), so that `schema="global"` knows all rows (`InferGloballyIs`). A column filled
under a plan that knows all its kinds is their cast (`GivenColumn`); under any other it keeps the
plan's type and its length (`FixedColumn`), which is what `schema="sample"` promises. The
invariant (`NumpyInv`) adds the rows: chunks follow each other without a gap (`ChunkEnds`), the
sampled batch put back in front is the first chunk (`SampleIsFirst`), and what was handed out is
the stretch of rows that pass up to where the reader stands (`Covered`). Files and selections are
sequences, cells have a kind, batches at least one row (`JobsAssumption`).

**Fields.** A literal is read digit by digit (`Reading`), and after j digits of a number of n the
value read is that number divided by `10^(n - j)` (`DigitsReadBack`): an induction whose step is
division by a power of ten, of which there are ten (`DivByTen`). A fraction is rounded to units
of its last place before it is written, and a carry moves it into the whole part (`RoundedIs`), so
a text is its number from the start (`TextIs`). The invariant (`FieldInv`) says of the field
classified with its row what its type must be, given the text and the decimal symbol last tried
(`KnowsText`), and of the other that it is the same or not classified yet, when
`get_value()` would make it the same (`LazyInv`); of an integer too large to keep it says that
the value is 0, which is what the excepted conversions hand out; so one lemma per conversion shows what it
answers (`IntegralKeeps`, `DecimalKeeps`, ...). Texts are words or literals, a type is a range of
integers and whole numbers have at most nine digits (`FieldAssumption`).

TLC finds every one of these inductive invariants to hold on the instance of its run.

**Only model-checked**: liveness (`EveryCallReturns`, `EveryRowArrives`, `WaitEnds`,
`DestructorEnds`, all under fairness), which is outside this
prover's reach; that speculative windows do not change the rows that have fields
(`SameFilledRows`), where restarts lie (`RestartsAtRecord`) and when a reader gives up
(`TooLargeIsHonest`); rendered tables and guesses (`ReadsTable`, `FormatResolved`).

## 5. Findings

Three runs end in a counterexample to something the repository says of itself; `PROJECT.json`
quotes it.

- `early_end`: `check_for_rows` reads `empty()` before `is_waitable()` and acts on the older
  answer after joining the worker, so `read_row` may answer "end" with rows queued. The same
  read lets the next worker start while rows are queued. The proofs show what remains true:
  nothing is lost, and `EveryRowArrives` that a persistent caller receives everything.
- `windows_crlf`: a speculative window starts in the default state, so the LF of a CR LF cut
  by the end of the window before it is a blank row.
- `frame_json`: in the build with threads, `to_json()`, a change of the columns and `to_json()`
  again use a converter that was dropped and, its `once_flag` being spent, not made again.

Where a property excepts something, or an input is left out, the code behaves differently there:

| Exception | What the code does |
|---|---|
| `EveryRowArrives`: "row too large" | a window whose rows the policy drops leaves `read_requested_` set, and the next call throws the row-too-large error although no row is (`csv_reader.cpp:26`) |
| `DeliveredIsPrefix`: the header where `trim_header` looks | a header that does not end in the first window is delivered as data (`csv_reader.cpp:85`) |
| `windows`: marked texts whose first record fits the head | otherwise the window starts again at offset 0 and the mark, for which the scan is done once, stays in the first field (`parser/core.hpp:802`) |
| `TooLargeIsHonest`: `Crowded` | a window that starts with the LF of a CR LF cut in two has a byte less for the record behind it: a record of exactly the window size is given up as too large (`parser/core.hpp:724`) |
| `SameFilledRows`: rows that have fields | a blank line at the start of a chunk becomes an empty fragment, which yields no row (`speculative/chunks.hpp:158`) |
| `SameFilledRows`: `Strict` sources | whether a quote opens a field depends on `field_length_` (`parser/core.hpp:620`), which is not carried: a chunk that cuts an unquoted field before a quote reads on differently |
| `FormatResolved`: `Guessable` tables | the tally of row lengths is visited in the order of a hash map, so ties go either way; line endings and rival delimiters within quotes may beat the right one |
| `FormatResolved`: names, no header | with several delimiters the header is inferred even if `column_names()` was called; `column_names()` does not take back what `header_row()` set explicitly, nor the KEEP policy of a negative row (`csv_format.cpp:36-51`) |
| `NothingLost`, `ReadsBack`: `replaced` | move assignment overwrites the batch buffer without writing it (`csv_writer.hpp:296`) |
| `ReadsBack`: no row of one empty field | it is written as a blank line when quoting is minimal, and read as a row without fields |
| the end of a bulk call | flushes only at the threshold (`csv_writer.hpp:624`), in spite of the comment at line 385 |
| `NumberText`: integers with an opposite | the least value of a signed type is multiplied by -1 (`csv_writer.hpp:132`) |
| `FieldKeepsPromise`: `AsZero` | of an integer too large for `int64_t`, `try_parse_decimal` (`csv_row.cpp:157`), `get<long double>()` and `try_get()` of a `long double` (`csv_row.hpp:776-783`, `799-807`) succeed with 0, where `get<double>()` and `as<long double>()` report an overflow; `csv_row.hpp:456` calls `check_convert()` the kernel of `get()`, `try_get()` and `as()`, but these two are specialised without its check. The numeric filters of fastpycsv compare with that 0 (`fastpycsv_predicate.cpp:197`) |
| `FieldKeepsPromise`: the symbol last tried | a symbol that does not fit turns a double into a string for good (`csv_row.cpp:147`); `src/docs/source/scalar_conversions.md:105` says the classification is kept |
| `FrameSpec`: `undefined` | `ensure_key_index` has no lock: callbacks that look keys up at once on a frame whose index is not built race, although `data_frame.hpp:412-414` calls read-only access safe |
| `FrameTable.parsed` | `selected_rows` copies rows without their edits |
| `FrameTable.InsertColumn` | inserting a column into a frame without visible columns loses rows whose new cell is empty, because a blank line is no row |
| `BatchTypes`: `decided`, the first batch | with `schema="sample"` later cells that do not fit become 0 or NaN, and a column of nulls stays undecided |
| `IsCell`: a null of a text column | is empty or its blanks, depending on when the column turned out to hold text |
| `FilteredRows.SetFilter` | `filter()` between two rows drops the rows already read ahead, so `batch_size` shows (`src/python/fastpycsv_reader.cpp:389`) |

## 6. Plan

1. *(done)* reader, scheduler, queue, pool; proofs for the reader.
2. *(done)* parser core, speculation, windows; writer, with its first proofs.
3. *(done)* format, row storage, fields and numbers, `DataFrame`, Python readers.
4. *(done)* proofs: the queue, the pool, the writer's rows, the frame, row storage, and the
   reader's delivery; the refinements of `RowQueue`, `ParallelFor`, `FrameTable`, `RowStream`,
   `FilteredRows`; the batches and arrays of NumPy.
5. *(done)* proofs: the windows of any source move on; with one worker they do not change the
   rows; what a writer writes is read back; fields and number texts.
6. Proofs: the rows of speculative windows (`SameFilledRows`).

**Not modelled.** Vendored code (mio, the scalar classifier, string views), which is used as given;
programs, benchmarks and documentation; whitespace trimming and `quote(false)` of the parser,
the scanner's scoring (any guess is allowed instead) and the rejection of UTF-16; streams that
fail under a writer; the checks of `CSVFormat` that throw; hexadecimal and JSON escaping; the
conversion to Python objects, which is the interpreter's business.
