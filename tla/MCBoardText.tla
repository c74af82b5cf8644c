---------------------------- MODULE MCBoardText ----------------------------
(***************************************************************************)
(* A board of two rows for TLC, and texts that are typed and pasted into   *)
(* it.                                                                     *)
(***************************************************************************)
EXTENDS BoardText

EditTexts == {<<"a">>, <<"nl">>, <<"lead", "cont">>, <<"a", "a">>, <<"a", "nl">>, <<"a", "a", "nl">>,
              <<"nl", "a">>, <<"a", "nl", "a">>}
=============================================================================
