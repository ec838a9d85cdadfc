----------------------------- MODULE MCSaveFile -----------------------------
(* TLC instances of SaveFile. *)
EXTENDS SaveFile

Str(len) == [type |-> "str", len |-> len]
Line(key, value) == [key |-> key, value |-> value]

TwoNames == [main |-> 4, other |-> 5]

OneLine == <<Line(1, Str(10))>>

\* A short string, and a list that needs a second block.
TwoLines ==
    <<Line(1, Str(10)),
      Line(2, [type |-> "list", items |-> <<Str(60), [type |-> "int", len |-> 2]>>])>>
=============================================================================
