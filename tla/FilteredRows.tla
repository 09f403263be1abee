---------------------------- MODULE FilteredRows ----------------------------
(***************************************************************************)
(* What reader.filter() of fastpycsv promises: the rows of the file that   *)
(* pass the filter in force come one after the other, and a call answers   *)
(* that there are no more only when none is left.  A filter that is set    *)
(* while rows are being read applies from a row on that may lie up to a    *)
(* batch ahead of the last one delivered: batch_size is visible there.     *)
(***************************************************************************)
EXTENDS Naturals, Sequences

CONSTANT Passes(_, _)   (* whether a row passes a filter *)

VARIABLES
  rows, size,   (* the file and batch_size                        *)
  filter,       (* clauses, {} when none was set                  *)
  passed,       (* rows that have been delivered or passed over   *)
  delivered,    (* numbers of the rows delivered                  *)
  answer        (* "row" or "end", how the last call ended        *)

streamVars == <<rows, size, filter, passed, delivered, answer>>

NoneIn(from, to) == \A i \in from..to : ~Passes(filter, rows[i])

Init == filter = {} /\ passed = 0 /\ delivered = <<>> /\ answer = "none"

SetFilter ==
    /\ passed' \in passed..Len(rows) /\ passed' - passed <= size
    /\ answer' = "none"
    /\ UNCHANGED <<rows, size, delivered>>

(* The next row that passes; what follows may be passed over as well. *)
Deliver ==
    \E i \in passed + 1 .. Len(rows) :
        /\ Passes(filter, rows[i]) /\ NoneIn(passed + 1, i - 1)
        /\ delivered' = Append(delivered, i)
        /\ passed' \in i..Len(rows) /\ NoneIn(i + 1, passed')
        /\ answer' = "row"
        /\ UNCHANGED <<rows, size, filter>>

End ==
    /\ NoneIn(passed + 1, Len(rows))
    /\ passed' = Len(rows) /\ answer' = "end"
    /\ UNCHANGED <<rows, size, filter, delivered>>

Next == SetFilter \/ Deliver \/ End
Spec == Init /\ [][Next]_streamVars
=============================================================================
