---------------------------- MODULE MCAssembler ----------------------------
(* Sources of up to MaxLines lines out of one line of each type and each   *)
(* way to refer: forwards and backwards, to every kind of symbol, to one   *)
(* that is missing or defined twice.  Strings have an odd length.          *)
EXTENDS Assembler

Def(type, name, num) == [type |-> type, name |-> name, num |-> num, ref |-> NoName]
Use(type, ref)       == [type |-> type, name |-> NoName, num |-> 0, ref |-> ref]
Plain(type, num)     == [type |-> type, name |-> NoName, num |-> num, ref |-> NoName]

MCLine ==
  {Def("label", "A", 0), Def("label", "B", 0), Def("const", "#N", 70000), Def("const", "#M", 8),
   Def("var", "%V", 1), Def("var", "%X", -4), [Def("var", "%W", 0) EXCEPT !.ref = "#M"], Def("str", "$S", 3),
   Use("org", "#M"), Use("org", "B"), Use("data", "A"), Use("data", "#M"), Use("imm", "%V"),
   Use("imm", "$S"), Use("imm", "#N"), Use("rel", "A"), Plain("op", 0),
   Plain("sdata", 3), Plain("header", 3), Plain("error", 0)}

MCOption == [n \in {"#M"} |-> 16]
============================================================================
