------------------------------ MODULE MCLexer ------------------------------
(***************************************************************************)
(* Source files for TLC: every instruction on a line of its own, operands  *)
(* within and out of their ranges as numbers and as constants, and files   *)
(* of a few lines out of one statement of each kind, well written or not,  *)
(* each with every way to end a line.                                      *)
(***************************************************************************)
EXTENDS Lexer, SequencesExt

Char(kind) == [kind |-> kind, word |-> "", num |-> 0, size |-> "none", decimal |-> FALSE]
Word(w)    == [Char("word") EXCEPT !.word = w]
Letter(w, code) == [Word(w) EXCEPT !.num = code]
Dec(n)     == [Char("num") EXCEPT !.num = n, !.size = "short", !.decimal = TRUE]
Hex4(n)    == [Char("num") EXCEPT !.num = n, !.size = "full"]
Space      == Char("space")
Newline    == Char("nl")

(* The decimal number n, which may be negative.                            *)
Decimal(n) == IF n < 0 THEN <<Char("-"), Dec(-n)>> ELSE <<Dec(n)>>
Register(r) == Word(ArgNames[r + 1])

(* A line: what it says, the token and for an instruction the meaning that *)
(* it stands for, and whether it ends so that the next line can be read.   *)
Meaning(type, name, num, ref, word) == [type |-> type, name |-> name, num |-> num, ref |-> ref, word |-> word]
Wrong   == Meaning("error", <<>>, 0, <<>>, 0)
Nothing == Meaning("none", <<>>, 0, <<>>, 0)
Statement(text, token) == [text |-> text, token |-> token, instr |-> <<>>, shows |-> <<>>, refused |-> FALSE]

(* What is written as Token.h:37-41 shows it, and refused.                 *)
Refused(text, token) == [Statement(text, token) EXCEPT !.refused = TRUE]
----------------------------------------------------------------------------
(* Every instruction, as text.                                             *)
Name(i) ==
  CASE i.group = GEN -> GenNames[i.op + 1]
    [] i.group = LDS -> LdsNames[i.op + 1][i.mode + 1]
    [] i.group = ALU -> AluNames[i.op + 1][i.mode + 1]
    [] i.group = JMP -> JmpNames[IF i.link THEN 2 ELSE 1][i.mode + 1]

IsConditional(i) == i.group = JMP /\ i.cond # -1
Negations == <<"NZ", "NC", "NM", "NP">>
Suffix(i) ==
  IF ~IsConditional(i) THEN <<>>
  ELSE <<Char("["), Word((IF i.negated THEN Negations ELSE ConditionNames)[i.cond + 1]), Char("]")>>

Arguments(i, operand) ==
  CASE i.group = GEN -> <<>>
    [] i.group = LDS -> <<Register(i.a), Char(",")>> \o IF i.mode = RegHere THEN operand ELSE <<Register(i.b)>>
    [] i.group = ALU /\ i.mode = RegReg -> <<Register(i.a), Char(","), Space, Register(i.arg)>>
    [] i.group = ALU /\ i.mode = RegU4  -> <<Register(i.a), Char(",")>> \o operand
    [] i.group = ALU /\ i.mode \in {U8, S8} -> operand
    [] i.group = JMP -> IF i.mode \in {AbsReg, IndReg} THEN <<Register(i.b)>> ELSE operand

Type(i) ==
  CASE i.group = LDS /\ i.mode = RegHere -> "imm"
    [] i.group = JMP /\ i.mode = AbsHere -> "imm"
    [] i.group = JMP /\ i.mode = RelHere -> "rel"
    [] OTHER -> "op"

(* What its listing should show: the registers are the words of the        *)
(* arguments.                                                              *)
Registers(i) ==
  LET words == SelectSeq(Arguments(i, <<>>), LAMBDA x : x.kind = "word") IN [n \in DOMAIN words |-> words[n].word]
Shows(i, operand) ==
  [condition |-> IF IsConditional(i) THEN <<i.negated, ConditionNames[i.cond + 1]>> ELSE <<>>,
   registers |-> Registers(i), operand |-> Arguments(i, operand) # Arguments(i, <<>>)]

Line(i, operand, token) ==
  [text |-> <<Word(Name(i))>> \o Suffix(i) \o <<Space>> \o Arguments(i, operand), token |-> token, instr |-> <<i>>,
   shows |-> <<Shows(i, operand)>>, refused |-> FALSE]

OperandRange(i) == CASE i.mode = RegU4 -> 0..15 [] i.mode = U8 -> 0..255 [] i.mode = S8 -> -128..127
HasOperand(i) == i.group = ALU /\ i.mode # RegReg
Lexeme(i) == <<Word(Name(i))>>

(* SRAI is the name of two instructions, of which the first is meant.      *)
Instructions ==
  GenLine \cup {i \in LdsLine : i.mode = RegHere => i.b = 0} \cup
  {i \in AluRegLine : ~(i.mode = RegU4 /\ i.op = 9)} \cup AluU8Line \cup AluS8Line \cup
  {i \in JmpLine : (i.cond = -1 => ~i.negated) /\ (i.mode \in {AbsHere, RelHere} => i.b = 0)}

OutOfRange ==
  [group : {ALU}, op : {1}, mode : {RegU4}, a : {3}, arg : {-1, 16}] \cup
  [group : {ALU}, op : {1}, mode : {U8}, a : {RA}, arg : {-1, 256}] \cup
  [group : {ALU}, op : {1}, mode : {S8}, a : {RA}, arg : {-129, 128}]

WithNumber(i) ==
  LET n == IF HasOperand(i) THEN i.arg ELSE IF Type(i) = "op" THEN 0 ELSE 1000
  IN  Line(i, Decimal(n), IF HasOperand(i) /\ i.arg \notin OperandRange(i) THEN Wrong
                          ELSE Meaning(Type(i), Lexeme(i), n, <<>>, Assemble(i)))

Constants == -129..256
WithConstant(i) ==
  Line(i, <<Char("#"), Word("NN")>>,
       Meaning("op", Lexeme(i), 0, <<Char("#"), Word("NN")>>, Assemble([i EXCEPT !.arg = 0])))
ConstantIs(n) ==
  Statement(<<Char("#"), Word("NN"), Char(":"), Space>> \o Decimal(n),
            Meaning("const", <<Char("#"), Word("NN")>>, n, <<>>, 0))
----------------------------------------------------------------------------
(* One statement of each kind, and some that are not well written.         *)
Ab == <<Word("Ab")>>
FooIsR1 == Statement(<<Char("."), Word("ALIAS"), Space, Word("R1"), Char(","), Word("FOO")>>,
                     Meaning("alias", <<Word("FOO")>>, 1, <<>>, 0))
MovFoo  == Statement(<<Word("MOV"), Space, Word("FOO"), Char(","), Word("R2")>>, Wrong)
MovR1   == Meaning("op", <<Word("MOV")>>, 0, <<>>, Assemble([group |-> ALU, op |-> 0, mode |-> RegReg, a |-> 1, arg |-> 2]))
LoadR1(n) == Meaning("imm", <<Word("LDI")>>, n, <<>>, Assemble([group |-> LDS, op |-> 0, mode |-> RegHere, a |-> 1, b |-> 0]))
Load5     == Statement(<<Word("LDI"), Space, Word("R1"), Char(","), Dec(5)>>, LoadR1(5))
LabelAb   == Statement(<<Word("Ab"), Char(":")>>, Meaning("label", Ab, 0, <<>>, 0))
NoRegister == Statement(<<Word("LDI"), Space, Word("RX"), Char(","), Dec(5)>>, Wrong)
NoQuote    == Statement(<<Char("."), Word("SDATA")>>, Wrong)
NoDigits   == Statement(<<Char("."), Word("DATA"), Space, Char("-")>>, Wrong)
Empty      == Statement(<<>>, Nothing)

Few == {FooIsR1, MovFoo, Load5, LabelAb, NoRegister, NoQuote, Empty}

Statements == Few \cup {
  NoDigits,
  ConstantIs(12),
  Statement(<<Char("#"), Word("HH"), Char(":"), Hex4(4660)>>, Meaning("const", <<Char("#"), Word("HH")>>, 4660, <<>>, 0)),
  Statement(<<Char("%"), Word("VV"), Char(":"), Space, Char("#"), Word("NN")>>,
            Meaning("var", <<Char("%"), Word("VV")>>, 0, <<Char("#"), Word("NN")>>, 0)),
  Statement(<<Char("$"), Word("SS"), Char(":"), Space, Char("\""), Letter("x", 120), Char(";"), Char("\"")>>,
            Meaning("str", <<Char("$"), Word("SS")>>, 2, <<>>, 0)),
  Statement(<<Char("."), Word("SDATA"), Space, Char("\""), Char("\\"), Char("\""), Letter("x", 120), Char("\"")>>,
            Meaning("sdata", <<>>, 2, <<>>, 0)),
  Statement(<<Char("."), Word("ORG"), Space, Dec(0)>>, Meaning("org", <<>>, 0, <<>>, 0)),
  Statement(<<Char("."), Word("DATA"), Space>> \o Ab, Meaning("data", <<>>, 0, Ab, 0)),
  Statement(<<Char("."), Word("DATA"), Space, Char("-"), Dec(5)>>, Meaning("data", <<>>, -5, <<>>, 0)),
  Statement(<<Word("JPI"), Char("["), Word("NZ"), Char("]"), Space>> \o Ab,
            Meaning("imm", <<Word("JPI")>>, 0, Ab,
                    Assemble([group |-> JMP, mode |-> AbsHere, link |-> FALSE, cond |-> 0, negated |-> TRUE, b |-> 0]))),
  Statement(<<Word("LDI"), Space, Word("R1"), Char(","), Char("'"), Letter("x", 120), Char("'")>>, LoadR1(120)),
  Statement(<<Word("LDI"), Space, Word("R1"), Char(","), Char("'"), Char("\\"), Letter("n", 110), Char("'")>>, LoadR1(10)),
  Statement(<<Char(";")>>, Nothing),
  Statement(<<Word("HALTX")>>, Wrong),
  Statement(<<Word("MOV"), Space, Word("R1"), Space, Word("R2")>>, Wrong),
  Refused(<<Char("."), Word("ORG"), Char(":"), Space, Dec(5)>>, Meaning("org", <<>>, 5, <<>>, 0)),
  Refused(<<Char("."), Word("SDATA"), Char(":"), Space, Char("\""), Letter("x", 120), Char("\"")>>,
          Meaning("sdata", <<>>, 1, <<>>, 0))}

(* Ends of lines.  The comment would be an instruction, and is one behind  *)
(* a short number, which takes the semicolon along.                        *)
Halt == <<Char(";"), Word("HALT")>>
Spaced == <<Space>> \o Halt \o <<Newline>>
Direct == Halt \o <<Newline>>
Hiding == <<Space>> \o Halt \o <<Char("\\"), Newline>>
Tabbed == <<Char("tab")>> \o Halt \o <<Newline>>
Endings == {<<Newline>>, Spaced, Direct, Hiding, Tabbed}

(* Whether statement s is read as a line of its own before ending e.       *)
EndsIn(s, kinds) == s.text # <<>> /\ s.text[Len(s.text)].kind \in kinds
EndsShort(s) == EndsIn(s, {"num"}) /\ s.text[Len(s.text)].size = "short"
HaltLine == LET halt == [group |-> GEN, op |-> 1] IN Line(halt, <<>>, Meaning("op", Lexeme(halt), 0, <<>>, Assemble(halt)))
Spilled(s, e) == IF e = Direct /\ EndsShort(s) /\ s.token.type # "error" /\ ~s.refused THEN <<HaltLine>> ELSE <<>>
Tidy(s, e) ==
  CASE e = <<Newline>> -> s \notin {NoRegister, NoQuote, NoDigits}
    [] e = Spaced -> TRUE
    [] e = Direct -> TRUE
    [] e = Hiding -> FALSE
    [] e = Tabbed -> s.token.type # "error" /\ ~s.refused /\ ~EndsIn(s, {"num"})
    [] e = <<>>   -> s.token.ref = <<>> /\ ~(EndsShort(s) /\ s.token.num <= 0)
----------------------------------------------------------------------------
Says(s, e) ==
  [text |-> s.text \o e, token |-> s.token, instr |-> s.instr, shows |-> s.shows, refused |-> s.refused,
   spilled |-> Spilled(s, e), tidy |-> Tidy(s, e), hides |-> e = Hiding]

(* An alias is known on the lines after its own.                           *)
Known(l, before) ==
  IF IsPrefix(MovFoo.text, l.text) /\ FooIsR1.token \in {b.token : b \in before} THEN [l EXCEPT !.token = MovR1] ELSE l

One(l)         == [text |-> l.text, says |-> <<l>>]
Two(l, m)      == [text |-> l.text \o m.text, says |-> <<l, Known(m, {l})>>]
Three(k, l, m) == [text |-> k.text \o l.text \o m.text, says |-> <<k, Known(l, {k}), Known(m, {k, l})>>]

LinesOf(S, E) == {Says(s, e) : s \in S, e \in E}
FewLines == LinesOf(Few, {<<Newline>>, Direct, Hiding})

MCSources == {
  {One(Says(WithNumber(i), <<Newline>>)) : i \in Instructions \cup OutOfRange},
  {Two(Says(ConstantIs(n), <<Newline>>), Says(WithConstant([i EXCEPT !.arg = n]), <<Newline>>)) :
     n \in Constants, i \in OutOfRange},
  {Two(l, m) : l \in LinesOf(Statements, Endings), m \in LinesOf(Statements, Endings \cup {<<>>})},
  {Three(k, l, m) : k \in FewLines, l \in FewLines, m \in FewLines}}
============================================================================
