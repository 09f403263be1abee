---------------------------- MODULE RowStorage -----------------------------
(***************************************************************************)
(* Where the fields of a chunk are kept (RawCSVData): the parser appends   *)
(* to a list of fields, a list of scalars and an arena of realized text    *)
(* while rows it has already queued are read on other threads, without a   *)
(* lock.                                                                   *)
(*   src/include/internal/memory/*.hpp, raw_csv_data.hpp, csv_row.*,       *)
(*   CSVRowFieldPolicy in parser/core.hpp                                  *)
(*                                                                         *)
(* A row reaches a reader through the row queue, whose lock orders what    *)
(* was written before; what the two may do at the same time is look up a   *)
(* block of the arena and add one, in the steps below.  Memory is          *)
(* sequentially consistent: the counters have one writer and only grow.    *)
(* Offsets count from 0.  A byte is <<field, k>>: the k-th of its text.    *)
(***************************************************************************)
EXTENDS Integers, Sequences, SequencesExt, FiniteSetsExt

CONSTANTS Sources,        \* chunks: rows of fields, or one inserted row
          Readers,
          PageBytes,      \* default_block_capacity_ of the arena
          FieldsPerBlock, \* block_capacity_ of the lists
          ChunkDefault    \* CSV_CHUNK_SIZE_DEFAULT

(* A field has raw bytes, of which pairs are the second of two quotes. *)
ASSUME StorageAssumption ==
    /\ {PageBytes, FieldsPerBlock} \subseteq Nat \ {0} /\ ChunkDefault \in Nat
    /\ \A s \in Sources :
          /\ s.inserted \in BOOLEAN /\ (s.inserted => Len(s.rows) = 1)
          /\ s.rows \in Seq(Seq([raw : Nat, pairs : Nat]))
          /\ \A i \in DOMAIN s.rows : \A c \in DOMAIN s.rows[i] :
                2 * s.rows[i][c].pairs <= s.rows[i][c].raw

VARIABLES source, eager,  \* the chunk; whether scalars are made (EagerClassify)
          pc,             \* what the parser does next
          field,          \* how many fields it has finished,
          row_start,      \* and when the row began
          arena,          \* quote_arena
          fields,         \* fields: the directory's size and the list
          scalars,        \* field_scalars
          queue,          \* the rows pushed so far
          reader          \* where each reader is

parserVars == <<pc, field, row_start, arena, fields, scalars, queue>>
vars == <<source, eager, parserVars, reader>>

-----------------------------------------------------------------------------
(* The chunk: each field's quotes, bytes and separator. *)

Parsed == FlattenSeq(source.rows)
Quoted(f) == ~source.inserted /\ Parsed[f].pairs > 0
Realized(f) == source.inserted \/ Parsed[f].pairs > 0
Unset == <<0, 0>>
Text(f) == [k \in 1..(Parsed[f].raw - Parsed[f].pairs) |-> <<f, k>>]

Bytes(f) ==
    LET raw == [k \in 1..Parsed[f].raw |-> <<f, k>>]
    IN  IF Quoted(f) THEN <<"quote">> \o raw \o <<"quote">> ELSE raw
Data == FlattenSeq([f \in DOMAIN Parsed |-> Append(Bytes(f), "separator")])
Start(f) ==
    Len(FlattenSeq([g \in 1..(f - 1) |-> Append(Bytes(g), "separator")]))
        + (IF Quoted(f) THEN 1 ELSE 0)
SourceSize == Len(Data) - 1

CeilDiv(n, d) == (n + d - 1) \div d
AtLeast(n, m) == IF n >= m THEN n ELSE m

-----------------------------------------------------------------------------
(* Directories of blocks. *)

(* Mutant: no room for the field after the last separator. *)
BlocksForSeparators(size) == CeilDiv(size, FieldsPerBlock)

BlocksFor(size) == CeilDiv(size + 1, FieldsPerBlock)

ListReserved(size) == [dir |-> AtLeast(BlocksFor(ChunkDefault), BlocksFor(size)), list |-> <<>>]

(* emplace_back(): the block is made when its first slot is used. *)
Emplace(store, value) ==
    LET page == Len(store.list) \div FieldsPerBlock
    IN  [dir |-> IF page >= store.dir THEN AtLeast(page + 1, 2 * store.dir) ELSE store.dir,
         list |-> Append(store.list, value)]

ArenaReserved(size) ==
    [dir |-> CeilDiv(size, PageBytes) + 1, blocks |-> <<>>, count |-> 0, size |-> 0, next |-> 0]

Init ==
    /\ source \in Sources /\ eager \in BOOLEAN
    /\ pc = "field" /\ field = 0 /\ row_start = 0
    /\ LET texts == FoldSeq(LAMBDA f, sum : f.raw + sum, 0, Parsed)
       IN  /\ arena = ArenaReserved(IF source.inserted THEN texts ELSE SourceSize)
           /\ fields = ListReserved(IF source.inserted THEN Len(Parsed) ELSE SourceSize)
           /\ scalars = ListReserved(IF source.inserted THEN 0 ELSE SourceSize)
    /\ queue = <<>>
    /\ reader = [r \in Readers |-> [at |-> "idle"]]

-----------------------------------------------------------------------------
(* The parser. *)

Current == field + 1
RowOf(f) == CHOOSE i \in DOMAIN source.rows :
    /\ f > Len(FlattenSeq(SubSeq(source.rows, 1, i - 1)))
    /\ f <= Len(FlattenSeq(SubSeq(source.rows, 1, i)))

(* A realized text needs room in the last block. *)
NeedsBlock(n) ==
    \/ arena.count = 0
    \/ arena.blocks[arena.count].used + n > arena.blocks[arena.count].cap

PushField ==
    /\ pc = "field" /\ field < Len(Parsed)
    /\ pc' = IF Realized(Current) /\ Parsed[Current].raw > 0
             THEN (IF NeedsBlock(Parsed[Current].raw) THEN "block" ELSE "allocate")
             ELSE "emplace"
    /\ UNCHANGED <<source, eager, field, row_start, arena, fields, scalars, queue, reader>>

(* allocate_block(), up to where the block is counted: the directory may   *)
(* grow, and the blocks grow to four pages unless a text was larger.       *)
AllocateBlock ==
    /\ pc = "block" /\ pc' = "count"
    /\ LET required == Parsed[Current].raw
           baseline == IF arena.next = 0 THEN PageBytes ELSE arena.next
       IN  arena' = [arena EXCEPT
               !.dir = IF arena.count >= @ THEN AtLeast(1, 2 * @) ELSE @,
               !.blocks = Append(@, [cap |-> AtLeast(baseline, required), used |-> 0,
                                     start |-> arena.size, bytes |-> <<>>]),
               !.next = IF required > baseline THEN PageBytes
                        ELSE IF baseline < 4 * PageBytes THEN 2 * baseline ELSE baseline]
    /\ UNCHANGED <<source, eager, field, row_start, fields, scalars, queue, reader>>

CountBlock ==
    /\ pc = "count" /\ pc' = "allocate"
    /\ arena' = [arena EXCEPT !.count = @ + 1]
    /\ UNCHANGED <<source, eager, field, row_start, fields, scalars, queue, reader>>

(* The raw length is taken, the realized text written: a pair of quotes    *)
(* leaves a byte unused.                                                   *)
Allocate ==
    /\ pc = "allocate" /\ pc' = "emplace"
    /\ LET n == Parsed[Current].raw
           text == Text(Current)
           bytes == text \o [k \in 1..(n - Len(text)) |-> Unset]
       IN  arena' = [arena EXCEPT !.blocks[arena.count].used = @ + n,
                                  !.blocks[arena.count].bytes = @ \o bytes,
                                  !.size = @ + n]
    /\ UNCHANGED <<source, eager, field, row_start, fields, scalars, queue, reader>>

EmplaceField ==
    /\ pc = "emplace"
    /\ LET row == RowOf(Current)
           first == Len(FlattenSeq(SubSeq(source.rows, 1, row - 1))) + 1
           data_start == Start(first) - (IF Quoted(first) THEN 1 ELSE 0)
           length == Len(Text(Current))
           stored == IF Realized(Current)
                     THEN [start |-> arena.size - Parsed[Current].raw, length |-> length,
                           realized |-> TRUE]
                     ELSE [start |-> Start(Current) - data_start, length |-> length,
                           realized |-> FALSE]
       IN  fields' = Emplace(fields, stored)
    /\ pc' = IF eager /\ ~source.inserted THEN "scalar" ELSE "end"
    /\ UNCHANGED <<source, eager, field, row_start, arena, scalars, queue, reader>>

(* classify_field_scalar() of the field's text, which it reads back. *)
AppendScalar ==
    /\ pc = "scalar" /\ pc' = "end"
    /\ scalars' = Emplace(scalars, Text(Current))
    /\ UNCHANGED <<source, eager, field, row_start, arena, fields, queue, reader>>

(* push_row() when the field was its row's last. *)
EndField ==
    /\ pc = "end" /\ pc' = "field" /\ field' = Current
    /\ LET row == RowOf(Current)
           last == Len(FlattenSeq(SubSeq(source.rows, 1, row))) = Current
           start == Start(row_start + 1) - (IF Quoted(row_start + 1) THEN 1 ELSE 0)
       IN  IF last
           THEN /\ queue' = Append(queue, [data_start |-> start, fields_start |-> row_start,
                                           row_length |-> Len(fields.list) - row_start])
                /\ row_start' = Len(fields.list)
           ELSE UNCHANGED <<queue, row_start>>
    /\ UNCHANGED <<source, eager, arena, fields, scalars, reader>>

Parser == PushField \/ AllocateBlock \/ CountBlock \/ Allocate \/ EmplaceField
          \/ AppendScalar \/ EndField

-----------------------------------------------------------------------------
(* A reader of a queued row: CSVRow::make_field(). *)

At(r, state) == reader' = [reader EXCEPT ![r] = state]

(* The scalar is attached if there is one by now. *)
Field(index, bytes) ==
    LET scalar == IF index < Len(scalars.list) THEN scalars.list[index + 1] ELSE <<>>
    IN  [at |-> "read", field |-> index + 1, bytes |-> bytes, scalar |-> scalar]

(* get_field_impl() *)
GetField(r, row, index) ==
    /\ reader[r].at \notin {"search", "lost"}
    /\ IF index >= row.row_length
       THEN At(r, [at |-> "thrown", index |-> index, row |-> row])
       ELSE LET n == row.fields_start + index
                stored == fields.list[n + 1]
                from == row.data_start + stored.start
            IN  IF ~stored.realized
                THEN At(r, Field(n, SubSeq(Data, from + 1, from + stored.length)))
                ELSE IF stored.length = 0 THEN At(r, Field(n, <<>>))
                ELSE At(r, [at |-> "search", field |-> n, low |-> 0, high |-> arena.count,
                            start |-> stored.start, length |-> stored.length])
    /\ UNCHANGED <<source, eager, parserVars>>

(* Mutant: the room a text did not fit in counts. *)
BlockCapacityEnd(block) == block.start + block.cap

BlockEnd(block) == block.start + block.used

(* What is in memory behind the bytes written is not known. *)
View(block, from, n) ==
    [k \in 1..n |-> IF from + k <= block.used THEN block.bytes[from + k] ELSE Unset]

(* One turn of find_block()'s binary search. *)
Search(r) ==
    LET s == reader[r]
        mid == s.low + (s.high - s.low) \div 2
        block == arena.blocks[mid + 1]
        within == s.start - block.start
    IN  /\ s.at = "search"
        /\ IF s.low >= s.high THEN At(r, [at |-> "lost"])
           ELSE IF s.start < block.start THEN At(r, [s EXCEPT !.high = mid])
           ELSE IF s.start >= BlockEnd(block) THEN At(r, [s EXCEPT !.low = mid + 1])
           ELSE At(r, Field(s.field, View(block, within, s.length)))
        /\ UNCHANGED <<source, eager, parserVars>>

Next ==
    \/ Parser
    \/ \E r \in Readers :
          \/ \E i \in DOMAIN queue : \E index \in 0..queue[i].row_length :
                GetField(r, queue[i], index)
          \/ Search(r)

Spec == Init /\ [][Next]_vars

-----------------------------------------------------------------------------
(* Properties. *)

(* Whoever reads a field of a queued row finds the block that holds it,    *)
(* gets its own text, and the scalar made of that text, whatever the       *)
(* parser appends meanwhile.                                               *)
ReadersReadWhatWasParsed ==
    \A r \in Readers :
        /\ reader[r].at # "lost"
        /\ reader[r].at = "read" =>
              /\ reader[r].bytes = Text(reader[r].field)
              /\ reader[r].scalar = IF eager /\ ~source.inserted
                                    THEN Text(reader[r].field) ELSE <<>>

(* Once a row can be read no directory of blocks grows: readers index it   *)
(* without a lock, so what reserve_for_source_size() set aside must do for *)
(* every chunk of that many bytes.                                         *)
DirectoriesStay ==
    [][queue # <<>> =>
          <<arena.dir, fields.dir, scalars.dir>>' = <<arena.dir, fields.dir, scalars.dir>>]_vars
=============================================================================
