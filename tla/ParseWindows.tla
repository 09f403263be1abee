---------------------------- MODULE ParseWindows ----------------------------
(***************************************************************************)
(* From a source to its rows: MmapParser / StreamParser cut the source     *)
(* into windows, CSVParseOrchestrator parses a window serially or, when it *)
(* is larger than a chunk, speculatively, and the bytes of an incomplete   *)
(* last record are read again with the next window.                        *)
(*   src/include/internal/parser/{mmap.cpp,stream.hpp,orchestrator.hpp}    *)
(*   src/include/internal/speculative/parallel_parser.hpp                  *)
(*                                                                         *)
(* The reader that asks for the windows is CSVReader, on the worker thread *)
(* of module CSVReader: it keeps every row (VariableColumnPolicy::KEEP, no *)
(* header) and gives up on a source whose window yields no row.  The pool  *)
(* that runs the chunk tasks is module IndexedTaskPool; its contract, each *)
(* task once and all before the call returns, is what ParseTask and        *)
(* Validate assume.  The scanner's guess of a chunk's start state is any   *)
(* guess.                                                                  *)
(***************************************************************************)
EXTENDS ChunkRows, FiniteSets, SequencesExt

(* What a parser may be made for: the bytes, the driver ("mmap", "stream"),*)
(* the bytes read for format guessing (500000), CSVFormat::chunk_size and  *)
(* the parallel parser's workers (one: always serial).                     *)
CONSTANT Inputs

ASSUME WindowsAssumption ==
    \A in \in Inputs :
        /\ in.source \in Seq(Byte \cup {"bom"})
        /\ in.kind \in {"mmap", "stream"}
        /\ in.head \in Nat /\ in.chunk \in Nat
        /\ 0 < in.head /\ in.head <= in.chunk
        /\ IsFiniteSet(in.workers) /\ in.workers # {}

VARIABLES input,   \* one of Inputs
          whole,   \* history: what the parser makes of its bytes in one piece
          pos,     \* mmap_pos, or the bytes taken from the stream
          head,    \* mmap: head_; stream: leftover_
          short,   \* stream: a read hit the end (eofbit)
          serial,  \* serial_parser_: initial_state_, unicode_bom_scan_, utf8_bom_
          scanned, \* the worker parsers whose unicode_bom_scan_ is set
          window,  \* the speculative window under way, with its chunk tasks
          valid,   \* the validator of the window under way
          out,     \* the rows handed to the reader
          eof,     \* eof_
          reader   \* reads so far (0, 1, "more") and rows of the last one

vars == <<input, whole, pos, head, short, serial, scanned, window, valid, out, eof, reader>>

source == input.source
kind == input.kind
Workers == input.workers
ChunkSize == input.chunk
WindowSize == ChunkSize * Cardinality(Workers)
Bytes(from, n) == SubSeq(source, from + 1, Min({from + n, Len(source)}))

NoWindow == [bytes |-> <<>>, base |-> 0, exhausted |-> FALSE, tasks |-> <<>>]
Idle == window.tasks = <<>>

(* The mark of a source is stripped by the first window only; it is for a  *)
(* source whose first record ends within the head.                         *)
MarkFits(text, headSize) ==
    Flag(text, 0) = "bom" =>
        LET rows == ParseAll(text).rows IN rows # <<>> /\ rows[1].end < headSize

Init ==
    /\ input \in Inputs
    /\ whole = ParseAll(source)
    /\ head = Bytes(0, input.head)
    /\ pos = IF kind = "mmap" THEN 0 ELSE Len(head)
    /\ short = (kind = "stream" /\ Len(source) < input.head)
    /\ serial = [initial |-> Outside, bomScanned |-> FALSE, utf8Bom |-> FALSE]
    /\ scanned = {}
    /\ window = NoWindow
    /\ valid = NewValidator
    /\ out = <<>>
    /\ eof = FALSE
    /\ reader = [reads |-> 0, yield |-> 0]

-----------------------------------------------------------------------------
(* Mutant: a stream's window of one chunk. *)
StreamReadOneChunk ==
    LET asked == IF Len(head) < ChunkSize THEN ChunkSize - Len(head) ELSE 1
        got == IF short THEN <<>> ELSE Bytes(pos, asked)
        hitEnd == short \/ Len(got) < asked
    IN  [bytes |-> head \o got, base |-> pos - Len(head), past |-> pos + Len(got),
         exhausted |-> hitEnd \/ head \o got = <<>>, short |-> hitEnd]

(* The bytes next() gives the orchestrator, where they start in the        *)
(* source, and whether no byte follows them.                               *)
MmapRead ==
    LET n == IF head # <<>> THEN Len(head) ELSE Min({Len(source) - pos, WindowSize})
    IN  [bytes |-> Bytes(pos, n), base |-> pos, past |-> pos + n,
         exhausted |-> pos + n = Len(source), short |-> FALSE]

StreamRead ==
    LET asked == IF Len(head) < WindowSize THEN WindowSize - Len(head) ELSE ChunkSize
        got == IF short THEN <<>> ELSE Bytes(pos, asked)
        hitEnd == short \/ Len(got) < asked
    IN  [bytes |-> head \o got, base |-> pos - Len(head), past |-> pos + Len(got),
         exhausted |-> hitEnd \/ head \o got = <<>>, short |-> hitEnd]

Read == IF kind = "mmap" THEN MmapRead ELSE StreamRead

(* The reader asks for a window while the source has one; after the        *)
(* initial read, a window without rows is its last (row too large).        *)
TooLarge == reader.reads > 1 /\ reader.yield = 0
WantsWindow == Idle /\ ~eof /\ ~TooLarge

CountRead(rows) ==
    reader' = [reads |-> Min({reader.reads + 1, 2}), yield |-> Len(rows)]

(* Mutants: the incomplete record is not read again; the window is. *)
FinishForward(base, past, bytes, completePrefix, exhausted) ==
    /\ eof' = exhausted
    /\ pos' = past
    /\ head' = <<>>
FinishInPlace(base, past, bytes, completePrefix, exhausted) ==
    /\ eof' = exhausted
    /\ pos' = IF kind = "mmap" THEN base ELSE past
    /\ head' = IF kind = "mmap" \/ exhausted THEN <<>> ELSE bytes

(* What next() does once the orchestrator has parsed the window. *)
Finish(base, past, bytes, completePrefix, exhausted) ==
    /\ eof' = exhausted
    /\ IF kind = "mmap"
       THEN pos' = base + completePrefix /\ head' = <<>>
       ELSE /\ pos' = past
            /\ head' = IF exhausted THEN <<>>
                       ELSE SubSeq(bytes, completePrefix + 1, Len(bytes))

(* parse_window() goes parallel for a window of more than one chunk. *)
IsSpeculative(bytes) == Cardinality(Workers) > 1 /\ Len(bytes) > ChunkSize

SerialWindow ==
    /\ WantsWindow
    /\ ~IsSpeculative(Read.bytes)
    /\ LET in == Read.bytes
           empty == kind = "mmap" /\ in = <<>>
           parsed == Parse(in, serial.initial, ~serial.bomScanned)
           ended == IF Read.exhausted /\ ~empty THEN EndFeed(in, parsed) ELSE parsed
       IN  /\ serial' = IF empty THEN serial
                        ELSE [initial |-> Carried(parsed.dfa), bomScanned |-> TRUE,
                              utf8Bom |-> IF serial.bomScanned THEN serial.utf8Bom
                                          ELSE Flag(in, 0) = "bom"]
           /\ out' = out \o Fields(ended.rows)
           /\ CountRead(ended.rows)
           /\ short' = Read.short
           /\ Finish(Read.base, Read.past, in, parsed.rowStart, Read.exhausted)
    /\ UNCHANGED <<input, whole, scanned, window, valid>>

(* make_speculative_parse_chunks(): the window cut into chunks, each with  *)
(* the scanner's guess.  The first chunk starts at a record boundary.      *)
Chunk(bytes, base, i) ==
    LET offset == (i - 1) * ChunkSize
    IN  [offset |-> base + offset,
         bytes |-> SubSeq(bytes, offset + 1, Min({offset + ChunkSize, Len(bytes)})),
         atRecordStart |-> i = 1,
         scanBom |-> i = 1 /\ base = 0]

ChunkCount(bytes) == (Len(bytes) + ChunkSize - 1) \div ChunkSize

SpeculativeWindow ==
    /\ WantsWindow
    /\ IsSpeculative(Read.bytes)
    /\ \E guess \in [1..ChunkCount(Read.bytes) -> {Outside, Inside}] :
         /\ guess[1] = Outside
         /\ window' = [bytes |-> Read.bytes, base |-> Read.base,
                       exhausted |-> Read.exhausted, tasks |-> [i \in DOMAIN guess |->
                           [chunk |-> Chunk(Read.bytes, Read.base, i), guess |-> guess[i],
                            status |-> "waiting"]]]
    /\ valid' = NewValidator
    /\ pos' = Read.past
    /\ head' = <<>>
    /\ short' = Read.short
    /\ UNCHANGED <<input, whole, serial, scanned, out, eof, reader>>

(* A worker parses a chunk into the chunk's own slot. *)
ParseTask(w, i) ==
    /\ i \in DOMAIN window.tasks
    /\ LET task == window.tasks[i]
           scanBom == task.chunk.scanBom /\ w \notin scanned
       IN  /\ task.status = "waiting"
           /\ window' = [window EXCEPT !.tasks[i] =
                  [status |-> "parsed", parsed |-> ParseChunk(task.chunk, task.guess, scanBom)]]
           /\ scanned' = IF task.chunk.scanBom THEN scanned \cup {w} ELSE scanned
    /\ UNCHANGED <<input, whole, pos, head, short, serial, valid, out, eof, reader>>

(* All chunks parsed, the validator takes them in order. *)
Validate ==
    /\ ~Idle
    /\ \A i \in DOMAIN window.tasks : window.tasks[i].status # "waiting"
    /\ \E i \in DOMAIN window.tasks :
         /\ window.tasks[i].status = "parsed"
         /\ \A j \in 1..(i - 1) : window.tasks[j].status = "released"
         /\ valid' = ValidateAndRelease(valid, window.tasks[i].parsed)
         /\ window' = [window EXCEPT !.tasks[i] = [status |-> "released"]]
    /\ UNCHANGED <<input, whole, pos, head, short, serial, scanned, out, eof, reader>>

(* validator.finish() and the end of next(): at the end of the source the  *)
(* pending record is the last one, otherwise its bytes are read again.     *)
FinishWindow ==
    /\ ~Idle
    /\ \A i \in DOMAIN window.tasks : window.tasks[i].status = "released"
    /\ LET ended == IF window.exhausted THEN ReleasePending(valid) ELSE valid
           completePrefix == IF ended.pending.present THEN ended.pending.offset - window.base
                             ELSE Len(window.bytes)
       IN  /\ out' = out \o ended.released
           /\ CountRead(ended.released)
           /\ Finish(window.base, pos, window.bytes, completePrefix, window.exhausted)
    /\ window' = NoWindow
    /\ valid' = NewValidator
    /\ UNCHANGED <<input, whole, short, serial, scanned>>

(* The source is read, or given up. *)
Done == Idle /\ ~WantsWindow /\ UNCHANGED vars

Next ==
    \/ SerialWindow
    \/ SpeculativeWindow
    \/ \E w \in Workers, i \in DOMAIN window.tasks : ParseTask(w, i)
    \/ Validate
    \/ FinishWindow
    \/ Done

Spec == Init /\ [][Next]_vars

-----------------------------------------------------------------------------
RecordStarts ==
    LET rows == whole.rows
    IN  {rows[i].start : i \in DOMAIN rows} \cup {0, Len(source)}
NonBlank(rows) == SelectSeq(rows, LAMBDA row : row # <<>>)
BlankCount(rows) == Len(rows) - Len(NonBlank(rows))
Agrees(rows, expected) ==
    /\ IsPrefix(rows, expected)
    /\ eof => rows = expected

(* Where the next window starts. *)
Restart == IF kind = "mmap" THEN pos ELSE pos - Len(head)

(* Quotes stand where RFC 4180 lets them: around a field, or doubled. *)
Strict(in) ==
    LET mode[i \in 0..Len(in)] ==
            IF i = 0 THEN "start"
            ELSE LET m == mode[i - 1]
                     b == in[i]
                 IN  CASE m = "bad" -> "bad"
                       [] m = "quoted" /\ b # "quote" -> "quoted"
                       [] m = "quoted" /\ b = "quote" -> "closing"
                       [] m \in {"start", "closing"} /\ b = "quote" -> "quoted"
                       [] m # "quoted" /\ b \in Separators -> "start"
                       [] m \in {"start", "plain"} /\ b \notin Separators \cup {"quote"} -> "plain"
                       [] OTHER -> "bad"
    IN  mode[Len(in)] # "bad"

-----------------------------------------------------------------------------
(* Serial parsing: wherever the windows cut the source, also between CR    *)
(* and LF, inside quotes or inside a doubled quote, the rows are those of  *)
(* the source in one piece, in order, none lost, none added, for any       *)
(* bytes (mmap.cpp "CRITICAL SECTION: Chunk Transition Logic", #280).      *)
SameRows == Cardinality(Workers) = 1 => Agrees(out, Fields(whole.rows))

(* Speculative parsing, of sources with RFC 4180 quoting: whatever start   *)
(* states were guessed, and in whatever order the workers finished, the    *)
(* rows with fields are those of the source in one piece, in order, none   *)
(* lost, none added, no field changed.  (A window hands its rows over when  *)
(* it ends.)                                                               *)
SameFilledRows ==
    Idle /\ Cardinality(Workers) > 1 => Agrees(NonBlank(out), NonBlank(Fields(whole.rows)))

(* A window starts where a record of the source starts: the bytes of an    *)
(* incomplete record are read again, all of them and no others.  Only the  *)
(* LF of a CR LF may be left over.                                         *)
RestartsAtRecord ==
    Idle /\ ~eof =>
        \/ Restart \in RecordStarts
        \/ Restart > 0 /\ source[Restart] = "cr" /\ Flag(source, Restart) = "lf"

(* The reader gives a source up as "row too large" only for a record that  *)
(* does not fit into a window, with the LF before it if the window that    *)
(* ended the record before ended between its CR and LF: such a record may  *)
(* be a byte shorter than the window size and still be too large.          *)
Crowded == Restart > 1 /\ source[Restart - 1] = "cr" /\ source[Restart] = "lf"
TooLargeIsHonest ==
    TooLarge /\ ~eof =>
        \A i \in DOMAIN whole.rows :
            LET past == whole.rows[i].end + 1
            IN  past <= Restart \/ past > Restart + WindowSize - (IF Crowded THEN 1 ELSE 0)

(* Every window after the initial one moves the reader forward, reaches    *)
(* the end, or makes the reader give up: none is parsed over and over.     *)
(* With no other way to stop (TLC's deadlock check), every source is read  *)
(* to its end or given up.                                                 *)
WindowStart == IF Idle THEN Restart ELSE window.base
MovesOn == [][Idle' /\ reader.reads > 0 =>
                 Restart' > WindowStart \/ eof' \/ TooLarge']_vars

(* A source without blank lines yields no blank rows: CR LF is one ending, *)
(* also when a window ends between the two.                                *)
NoBlankRowAdded ==
    NonBlank(Fields(whole.rows)) = Fields(whole.rows) => BlankCount(out) = 0
=============================================================================
