--------------------------- MODULE MCParseWindows ---------------------------
(***************************************************************************)
(* Every source of a few bytes over an alphabet, for TLC: any bytes for a  *)
(* reader without threading, and RFC 4180 quoting for one with two parse   *)
(* workers.                                                                *)
(***************************************************************************)
EXTENDS ParseWindows

CONSTANTS SerialLen, SpeculativeLen, W1, W2

Texts(alphabet, maxLen) == UNION {[1..n -> alphabet] : n \in 0..maxLen}

Setup(sources, kinds, headSize, chunkSize, workers) ==
    [source : sources, kind : kinds, head : {headSize}, chunk : {chunkSize}, workers : {workers}]

(* Longer ones with CR LF where the head ends, and all with a byte order   *)
(* mark before them if their first record then ends within the head.       *)
SerialTexts ==
    LET alphabet == {"other", "quote", "delim", "cr", "lf"}
        texts == Texts(alphabet, SerialLen)
        split == {<<"other", "other", "cr", "lf">> \o text : text \in [1..4 -> alphabet]}
        marked == {<<"bom">> \o text : text \in texts}
    IN  texts \cup split \cup {text \in marked : MarkFits(text, 3)}

StrictTexts(alphabet) == {text \in Texts(alphabet, SpeculativeLen) : Strict(text)}

AnyInputs ==
    Setup(SerialTexts, {"mmap", "stream"}, 3, 4, {W1})
    \cup Setup(StrictTexts({"other", "quote", "cr", "lf"}), {"mmap", "stream"}, 2, 2, {W1, W2})

CrLfInputs == Setup(StrictTexts({"other", "cr", "lf"}), {"mmap"}, 2, 2, {W1, W2})
=============================================================================
