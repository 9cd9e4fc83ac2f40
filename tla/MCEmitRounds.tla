---------------------------- MODULE MCEmitRounds ----------------------------
(***************************************************************************)
(* Two types and eight texts: laid out differently, with comments of both  *)
(* kinds, with a comment on the last line, and with literals that normalize *)
(* takes for others.                                                       *)
(***************************************************************************)
EXTENDS EmitRounds

MCType == {1, 2}

OwnNames == <<1, 2>>

SharedName == <<1, 1>>

MCTexts == << <<"sp", "x", "cm", "y", "nl">>,
              <<"wide">>,
              <<"lit">>,
              <<"x">>,
              <<"x", "nl", "rem", "sp", "y">>,
              <<"x", "sp", "rem", "nl", "y">>,
              <<"x", "rem", "y">>,
              <<"x", "cm">> >>
=============================================================================
