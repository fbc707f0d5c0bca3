---------------------------- MODULE MC_M3iParser ----------------------------
(***************************************************************************)
(* Model of parse_m3i for TLC: lines of up to three fields covering every  *)
(* branch of the field loop (size class, L, V, C cacheable and not, the    *)
(* three burst modes, an unrecognised token) and a line with no fields,    *)
(* where every default applies.                                            *)
(***************************************************************************)
EXTENDS M3iParser

MCFieldLists ==
  { << >>,
    << SizeField("size64"), LField(2), VField(10) >>,
    << SizeField("word"), LField(3), BurstField("fixed") >>,
    << LField(2), BurstField("wrap"), VField(0) >>,
    << CField("0"), VField(5), OtherField >>,
    << CField("1"), BurstField("incr") >> }

MCAddrs == {4096}
=============================================================================
