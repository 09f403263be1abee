----------------------------- MODULE RowStream -----------------------------
(***************************************************************************)
(* What the documentation of CSVReader::read_row and read_chunk promises   *)
(* their caller, with no worker, queue or window in sight: the rows the    *)
(* caller is entitled to arrive one after the other in stream order, and a *)
(* call answers "end" only when there are none left.                       *)
(***************************************************************************)
EXTENDS Naturals, Sequences

VARIABLES
  data,       (* the data rows the column policy lets through, in order    *)
  delivered,  (* those the caller has received                             *)
  answer      (* how the last call ended, "none" while one is in progress  *)

streamVars == <<data, delivered, answer>>

Deliver ==
  /\ answer = "none"
  /\ Len(delivered) < Len(data)
  /\ delivered' = Append(delivered, data[Len(delivered) + 1])
  /\ UNCHANGED <<data, answer>>

Ask == answer' = "none" /\ UNCHANGED <<data, delivered>>

(* The call ends with rows, or throws. *)
Answer ==
  /\ answer = "none"
  /\ answer' \in {"rows", "error"}
  /\ UNCHANGED <<data, delivered>>

AnswerEnd ==
  /\ answer = "none"
  /\ delivered = data
  /\ answer' = "end"
  /\ UNCHANGED <<data, delivered>>

Init == delivered = <<>> /\ answer = "none"

Next == Deliver \/ Ask \/ Answer \/ AnswerEnd

Spec == Init /\ [][Next]_streamVars
=============================================================================
