-------------------------- MODULE MCRenderedTables --------------------------
(***************************************************************************)
(* Fields for TLC: nothing, a word, and every byte that must be quoted.    *)
(***************************************************************************)
EXTENDS RenderedTables

ShortContents ==
    { <<>>, <<"other">>, <<"quote">>, <<"delim">>, <<"lf">>, <<"cr", "lf">>,
      <<"quote", "quote">>, <<"other", "quote">>, <<"rival">> }
=============================================================================
