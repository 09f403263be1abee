------------------------------ MODULE ChunkRows ------------------------------
(***************************************************************************)
(* The rows of one chunk of a speculative window, and the validator that   *)
(* joins the chunks of a window back together                              *)
(* (src/include/internal/speculative/chunks.hpp and validator.hpp).        *)
(*                                                                         *)
(* A chunk is parsed on its own, in an assumed start state.  Its first row *)
(* is the end of a record that began before it, unless the chunk starts at *)
(* a record boundary; its last bytes may begin a record that ends after    *)
(* it.  Both edges are kept as fragments, byte ranges without meaning of   *)
(* their own; the validator concatenates them across chunks and parses the *)
(* record they make once it is complete.                                   *)
(*                                                                         *)
(* A chunk is a record [offset, bytes, atRecordStart, scanBom].            *)
(***************************************************************************)
EXTENDS ParserCore

NoFragment == [bytes |-> <<>>, offset |-> 0, present |-> FALSE]
Fragment(bytes, offset) == [bytes |-> bytes, offset |-> offset, present |-> TRUE]

RawBytes(in, row) == SubSeq(in, row.start + 1, row.end)

Concatenate(left, right) ==
    IF ~left.present THEN right
    ELSE IF ~right.present THEN left
    ELSE Fragment(left.bytes \o right.bytes, left.offset)

(* The chunk, parsed from the state initial to the loop's last state s. *)
SplitRows(chunk, initial, s) ==
    LET atStart == chunk.atRecordStart \/ initial.pendingLinefeed
        inside == ~atStart /\ s.rows = <<>>
        prefix == IF atStart THEN NoFragment
                  ELSE IF inside THEN Fragment(chunk.bytes, chunk.offset)
                  ELSE Fragment(RawBytes(chunk.bytes, s.rows[1]), chunk.offset + s.rows[1].start)
        suffix == IF inside \/ s.rowStart >= Len(chunk.bytes) THEN NoFragment
                  ELSE Fragment(SubSeq(chunk.bytes, s.rowStart + 1, Len(chunk.bytes)),
                                chunk.offset + s.rowStart)
    IN  [chunk |-> [chunk EXCEPT !.atRecordStart = atStart],
         initial |-> initial,
         ending |-> s.dfa,
         completePrefix |-> s.rowStart,
         prefix |-> prefix,
         rows |-> Fields(IF atStart \/ inside THEN s.rows ELSE Tail(s.rows)),
         suffix |-> suffix]

ParseChunk(chunk, initial, scanBom) ==
    SplitRows(chunk, initial, Parse(chunk.bytes, initial, scanBom))

(* The rows of a fragment that holds a whole record (or none). *)
Materialize(fragment) ==
    IF ~fragment.present THEN <<>>
    ELSE Fields(EndFeed(fragment.bytes, Parse(fragment.bytes, Outside, FALSE)).rows)

-----------------------------------------------------------------------------
(* The validator: the state the next chunk must have been parsed in, the   *)
(* record still incomplete, the rows it has released.                      *)
NewValidator == [expected |-> Outside, pending |-> NoFragment, released |-> <<>>]

ReleasePending(v) ==
    [v EXCEPT !.released = @ \o Materialize(v.pending), !.pending = NoFragment]

Release(v, parsed) ==
    LET joined == [v EXCEPT !.pending = Concatenate(v.pending, parsed.prefix),
                            !.expected = parsed.ending]
        done == IF parsed.prefix.present THEN ReleasePending(joined) ELSE joined
    IN  IF parsed.prefix.present /\ parsed.completePrefix = 0 THEN joined
        ELSE [done EXCEPT !.released = @ \o parsed.rows, !.pending = parsed.suffix]

(* Mutant: a wrong guess is not repaired. *)
ReleaseUnchecked(v, parsed) == Release(v, parsed)

(* A chunk parsed in a state other than the one its predecessor ended in   *)
(* is parsed again, by the window's repair parser.                         *)
ValidateAndRelease(v, parsed) ==
    Release(v, IF parsed.initial = v.expected THEN parsed
               ELSE ParseChunk(parsed.chunk, v.expected, parsed.chunk.scanBom))
=============================================================================
