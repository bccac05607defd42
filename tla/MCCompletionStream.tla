-------------------------- MODULE MCCompletionStream --------------------------
(***************************************************************************)
(* Instances of CompletionStream for TLC.                                  *)
(***************************************************************************)
EXTENDS CompletionStreamProps

\* Tokens of one and two characters, whole characters of two bytes, and pieces of
\* characters of two, three and four.
MCVocab == { <<"a">>, <<"b">>, <<"a", "b">>, <<"b", "a">>, <<"L", "C">>,
             <<"L">>, <<"C">>, <<"T">>, <<"F">>, <<"C", "C">> }

\* None; one that overlaps itself; two of which one may end inside the other; one that
\* ends with a split character.
MCStopLists == { << >>, << <<"a", "b", "a">> >>, << <<"b", "b">>, <<"a", "b">> >>,
                 << <<"a", "b", "b">>, <<"b", "a">> >>, << <<"b", "L", "C">> >> }

\* Pieces only.
MCPieces == { <<"a">>, <<"T">>, <<"C", "C">> }
=============================================================================
