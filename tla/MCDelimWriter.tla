--------------------------- MODULE MCDelimWriter ---------------------------
(***************************************************************************)
(* Rows for TLC: without fields, plain, and with every content that needs  *)
(* quotes: a delimiter, each line ending, a quote alone and at the end.    *)
(***************************************************************************)
EXTENDS DelimWriter

Word == <<"other">>

ShortRows ==
    { <<>>, <<Word>>, <<<<>>, <<"quote">>>>, <<<<"cr", "lf">>, <<"other", "quote">>>>,
      <<<<"delim">>, <<>>>>, <<<<"cr">>>>, <<<<"lf">>, <<"quote", "quote">>>> }
=============================================================================
