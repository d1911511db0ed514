----------------------------- MODULE MCEnumItems -----------------------------
(* Small instance of EnumItems: INT64_MAX is 4, so that the counter can    *)
(* reach it, and the text may give the greatest value, the one below it,   *)
(* a small one, zero and a negative one.                                   *)
EXTENDS EnumItems

MCExplicit == {-2, 0, 1, 3, 4}
==============================================================================
