---- MODULE MCKeyRanges ----
EXTENDS KeyRanges

MCStrings == BoundedSeq({0, 2, 3}, 2)
MCDomain(type) ==
  CASE type = "signed" -> -8..7
    [] type = "unsigned" -> {0, 3, 15}
    [] type = "float" -> [neg : BOOLEAN, mag : 0..6]
    [] type = "decimal" -> [neg : BOOLEAN, coeff : 0..5, exp : -2..0]
    [] type = "binary" -> MCStrings
    [] type = "char" -> MCStrings
    [] type = "collated" -> BoundedSeq({1, 2, 3}, 2)
MCBounds(type) ==
  CASE type = "signed" -> {-8, 0, 7}
    [] type = "unsigned" -> {0, 15}
    [] type = "float" -> {[neg |-> TRUE, mag |-> 0], [neg |-> FALSE, mag |-> 3]}
    [] type = "decimal" -> {[neg |-> TRUE, coeff |-> 4, exp |-> -1], [neg |-> FALSE, coeff |-> 1, exp |-> 0]}
    [] type \in {"binary", "char"} -> {<<>>, <<3, 0>>, <<3, 3>>}
    [] type = "collated" -> {<<1>>, <<2, 3>>}
MCWeight == <<0, 0, 1>>
MCLayouts ==
  {[types |-> <<t>>, index |-> i, unique |-> u] :
     t \in {"signed", "float", "decimal", "binary", "char", "collated"},
     i \in {FALSE}, u \in {TRUE}} \cup
  {[types |-> <<"signed">>, index |-> TRUE, unique |-> u] : u \in BOOLEAN} \cup
  {[types |-> <<"binary", "unsigned">>, index |-> FALSE, unique |-> TRUE],
   [types |-> <<"binary", "unsigned">>, index |-> TRUE, unique |-> FALSE]}
====
