------------------------------- MODULE Lexer -------------------------------
(***************************************************************************)
(* How the assembler reads source text (tools/Assembler.h, from getToken   *)
(* on, with AssemblyVocabulary and Opcodes): pass 1 takes one token after  *)
(* the other from the text and sets aliases, pass 3 puts constants into    *)
(* the instructions that name them.  A step reads one token.               *)
(*                                                                         *)
(* Text is a sequence of lexemes: words, numbers and single characters.    *)
(* What is kept of the characters is who consumes which of them, because   *)
(* a token that consumes the end of its line takes a part of the next.     *)
(* Columns are left out.                                                   *)
(***************************************************************************)
EXTENDS ISA, Sequences, FiniteSets, Bitwise
LOCAL INSTANCE SequencesExt

(* Families of source files: the text, and what the author meant by each   *)
(* line, which only properties look at.                                    *)
CONSTANT Sources

VARIABLES
  source,      \* the file
  phase,       \* "pass1", "pass3" or "done"
  idx, line,   \* the next lexeme to read, and the line it is taken to be on
  alias,       \* the alias of each register, <<>> for none
  tokens,      \* the tokens read so far
  failed       \* phase1Error, or phase3Error for a short operand

vars == <<source, phase, idx, line, alias, tokens, failed>>

(* A lexeme has a kind, its text if it is a word, its number or character  *)
(* code, and for a number, size: whether it has digits at all, fewer than  *)
(* its notation can have, as many, or more.                                *)
End == Len(source.text) + 1
At(p) == IF p < End THEN source.text[p].kind ELSE "eof"
Text(p, q) == SubSeq(source.text, p, q - 1)

Blank == {"space", "tab"}
Terminator == {"space", ";", "nl", "eof"}
NameChar == {"word", "num"}

Inc(p) == IF p < End THEN p + 1 ELSE p

(* skipSpaces and the like: the first place from p on that is not in K,    *)
(* and that is in K.                                                       *)
Past(p, K) ==
  IF p >= End THEN p ELSE CHOOSE q \in p..End : At(q) \notin K /\ \A r \in p..(q - 1) : At(r) \in K
Until(p, K) ==
  CHOOSE q \in p..End : At(q) \in K \cup {"eof"} /\ \A r \in p..(q - 1) : At(r) \notin K

(* A backslash hides what follows it, be it the end of the line.           *)
RECURSIVE MoveTo(_, _)
MoveTo(p, sep) ==
  CASE At(p) \in {sep, "nl", "eof"} -> p
    [] At(p) = "\\"                 -> MoveTo(Inc(Inc(p)), sep)
    [] OTHER                        -> MoveTo(p + 1, sep)

RECURSIVE Unescaped(_, _)
Unescaped(p, q) == IF p >= q THEN 0 ELSE 1 + Unescaped(IF At(p) = "\\" THEN p + 2 ELSE p + 1, q)
----------------------------------------------------------------------------
(* The parts of a line: where reading ends, whether it was in order, and   *)
(* what was read.  What fails is reported at the line where the token      *)
(* began, or, by a new error token, at the line that was reached.          *)
Failed(p) == [ok |-> FALSE, at |-> p, num |-> 0, ref |-> <<>>, late |-> TRUE]
Spoiled(p) == [Failed(p) EXCEPT !.late = FALSE]
Parsed(p, num, ref) == [ok |-> TRUE, at |-> p, num |-> num, ref |-> ref, late |-> FALSE]

(* parseHex, parseBin, parseDec: a short number takes the character behind *)
(* it along, whatever it is.                                               *)
Digits(q) ==
  LET n == source.text[q]
      behind == IF n.size \in {"none", "short"} THEN Inc(q + 1) ELSE q + 1
  IN  IF n.size \in {"short", "full"} /\ At(q + 1) \in Terminator
        THEN Parsed(behind, n.num, <<>>) ELSE Spoiled(behind)

(* The sign is applied at a terminator or after six digits.                *)
Negative(q) ==
  IF At(q) = "num" /\ source.text[q].size # "none" /\ source.text[q].decimal
    THEN LET d == Digits(q)
         IN  [d EXCEPT !.num = IF source.text[q].size = "short" /\ At(q + 1) = "eof" THEN @ ELSE -@]
    ELSE Spoiled(Inc(q))

Escape == [n |-> 10, b |-> 8, r |-> 13, t |-> 9]
Character(q) ==
  LET escaped == At(q + 1) = "\\"
      c == IF escaped THEN q + 2 ELSE q + 1
  IN  IF At(c + 1) = "'"
        THEN Parsed(c + 2, IF escaped /\ source.text[c].word \in DOMAIN Escape
                             THEN Escape[source.text[c].word] ELSE source.text[c].num, <<>>)
        ELSE Failed(Inc(IF c < End THEN c ELSE End))

(* parseNumber looks behind a 0 for the notation before it reads on.       *)
Number(p) ==
  LET q == Past(p, Blank)
  IN  CASE At(q) = "num" ->
             IF source.text[q].num = 0 /\ source.text[q].decimal /\ At(q + 1) = "eof" THEN Failed(End) ELSE Digits(q)
        [] At(q) = "-"   -> Negative(q + 1)
        [] At(q) = "'"   -> Character(q)
        [] OTHER         -> Failed(q)

(* getSymbolName; a name has to be followed by something.                  *)
SymbolName(p) ==
  LET q == Past(p + 1, NameChar)
  IN  IF At(q) \in (Terminator \cup Blank) \ {"eof"} THEN Parsed(q, 0, Text(p, q)) ELSE Spoiled(q)

Imm(p) ==
  LET q == Past(p, Blank)
  IN  IF At(q) \in {"#", "$", "%", "word"} THEN SymbolName(q) ELSE [Number(q) EXCEPT !.late = FALSE]

(* The Bug definitions are mutants of those after them.                    *)
BugQuoteStays(p) ==
  LET q == Past(p, {"space"})
      r == MoveTo(Inc(q), "\"")
  IN  IF At(q) = "\"" THEN Parsed(r, Unescaped(q + 1, r), <<>>) ELSE Failed(Inc(q))

(* parseString ends at the quote or at the end of the line.                *)
String(p) ==
  LET q == Past(p, {"space"})
      r == MoveTo(Inc(q), "\"")
  IN  IF At(q) = "\"" THEN Parsed(Inc(r), Unescaped(q + 1, r), <<>>) ELSE Failed(Inc(q))

Comma(p) ==
  LET q == Past(p, Blank)
  IN  IF At(q) = "," THEN Parsed(q + 1, 0, <<>>) ELSE Spoiled(q)

(* findArg: the registers' own names go before aliases, and of two         *)
(* registers with one alias the lower one is meant.                        *)
ArgNames == <<"R0", "R1", "R2", "R3", "R4", "R5", "R6", "R7", "RA", "RB", "RI", "FP", "WA", "SP", "RS", "RL">>
RegisterOf(name) ==
  LET named == {n \in DOMAIN ArgNames : Len(name) = 1 /\ name[1].word = ArgNames[n]}
      given == {r \in Reg : alias[r] = name}
  IN  CASE named # {} -> (CHOOSE n \in named : TRUE) - 1
        [] named = {} /\ given # {} -> CHOOSE r \in given : \A s \in given : r <= s
        [] OTHER -> -1

Arg(p) ==
  LET q == Past(p, Blank)
      r == Past(q, NameChar \cup {"*"})
  IN  IF r = q THEN Spoiled(q)
      ELSE IF RegisterOf(Text(q, r)) = -1 THEN Spoiled(r) ELSE Parsed(r, RegisterOf(Text(q, r)), <<>>)

Offset(p) ==
  LET q == Past(p, Blank)
  IN  IF At(q) \in {"+", "-"} THEN Imm(q + 1) ELSE Spoiled(q)

(* Several parts one after the other, all of which are looked for, even    *)
(* after one that was not in order.                                        *)
Part(kind, p) ==
  CASE kind = "register" -> Arg(p) [] kind = "," -> Comma(p)
    [] kind = "immediate" -> Imm(p) [] kind = "offset" -> Offset(p)
RECURSIVE Parts(_, _)
Parts(p, kinds) ==
  IF kinds = <<>> THEN <<>>
  ELSE LET part == Part(Head(kinds), p) IN <<part>> \o Parts(part.at, Tail(kinds))
InOrder(parts) == \A n \in DOMAIN parts : parts[n].ok

(* getCondition: 8, with 4 for the negation and the condition's number.    *)
Conditions8 == [Z |-> 8, C |-> 9, M |-> 10, P |-> 11, NZ |-> 12, NC |-> 13, NM |-> 14, NP |-> 15]
Condition(p) ==
  CASE At(p) # "[" -> Parsed(p, 0, <<>>)
    [] At(p) = "[" /\ At(p + 1) = "word" /\ At(p + 2) = "]" /\ source.text[p + 1].word \in DOMAIN Conditions8 ->
         Parsed(p + 3, Conditions8[source.text[p + 1].word], <<>>)
    [] OTHER -> Failed(p + 1)
----------------------------------------------------------------------------
(* The names of the instructions, in the order in which find looks.        *)
AluNames == <<
  <<"MOV", "MOVI", "MOVAI", "MOVAS">>, <<"ADD", "ADDI", "ADDAI", "ADDAS">>, <<"SUB", "SUBI", "SUBAI", "SUBAS">>,
  <<"MUL", "MULI", "MULAI", "MULAS">>, <<"OR", "ORI", "ORAI", "ORAS">>, <<"AND", "ANDI", "ANDAI", "ANDAS">>,
  <<"XOR", "XORI", "XORAI", "XORAS">>, <<"SL", "SLI", "SLAI", "SLAS">>, <<"SR", "SRI", "SRAI", "SRAS">>,
  <<"SRA", "SRAI", "SRAAI", "SRAAS">>, <<"ROT", "ROTI", "ROTAI", "ROTAS">>, <<"BIT", "BITI", "BITAI", "BITAS">>,
  <<"SET", "SETI", "SETAI", "SETAS">>, <<"CLR", "CLRI", "CLRAI", "CLRAS">>, <<"CMP", "CMPI", "CMPAI", "CMPAS">>,
  <<"SEX", "SEXI", "SEXAI", "SEXAS">> >>
LdsNames == << <<"LD", "LDI", "POP", "POPR">>, <<"LD_B", "LDI_B", "POP_B", "POPR_B">>,
  <<"ST", "STI", "PUSHR", "PUSH">>, <<"ST_B", "STI_B", "PUSHR_B", "PUSH_B">> >>
GenNames == <<"NOP", "HALT", "EI", "DI", "RETI">>
LdxNames == <<"LDX", "LDX_B", "STX", "STX_B">>
JmpNames == << <<"JP", "JPM", "JPI", "JRI">>, <<"JPL", "JPML", "JPIL", "JRIL">> >>

Entries(table) == {e \in (DOMAIN table) \X (1..4) : TRUE}
FirstNamed(table, name) ==
  LET named == {e \in Entries(table) : table[e[1]][e[2]] = name}
  IN  CHOOSE e \in named : \A f \in named : 4 * e[1] + e[2] <= 4 * f[1] + f[2]
NamesIn(table) == {table[e[1]][e[2]] : e \in Entries(table)}
Names(list) == {list[n] : n \in DOMAIN list}
Place(list, name) == (CHOOSE n \in DOMAIN list : list[n] = name) - 1

(* find, with the constructors of the groups' words.                       *)
Opcode ==
  [name \in NamesIn(AluNames) \cup Names(GenNames) \cup NamesIn(LdsNames) \cup Names(LdxNames) \cup NamesIn(JmpNames) |->
    CASE name \in NamesIn(AluNames) -> LET e == FirstNamed(AluNames, name) IN AluWord(e[1] - 1, e[2] - 1)
      [] name \in Names(GenNames)   -> Place(GenNames, name) * 2^8
      [] name \in NamesIn(LdsNames) -> LET e == FirstNamed(LdsNames, name) IN LdsWord(e[1] - 1, e[2] - 1)
      [] name \in Names(LdxNames)   -> LdsWord(4 + Place(LdxNames, name), 0) + 2^10
      [] name \in NamesIn(JmpNames) ->
           LET e == FirstNamed(JmpNames, name) IN JMP * 2^14 + (e[2] - 1) * 2^8 + (e[1] - 1) * 2^7]

IsImmediate(name) == name \in {LdsNames[n][2] : n \in 1..4} \cup {JmpNames[n][m] : n \in 1..2, m \in 3..4}
----------------------------------------------------------------------------
(* Tokens.                                                                 *)
Token(type, name, part) ==
  [type |-> IF part.ok THEN type ELSE "error", name |-> name, num |-> part.num, ref |-> part.ref, word |-> 0,
   at |-> part.at, late |-> part.late, lost |-> 0]

Operation(name, word, ok, num, ref, at) ==
  [Token(IF ~IsImmediate(name) THEN "op" ELSE IF Field(word, 8, 2) = RelHere /\ Field(word, 14, 2) = JMP THEN "rel" ELSE "imm",
         <<>>, [ok |-> ok, at |-> at, num |-> num, ref |-> ref, late |-> FALSE])
   EXCEPT !.word = word]

TwoRegisters(name, word, p) ==
  LET parts == Parts(p, <<"register", ",", "register">>)
  IN  Operation(name, ArgB(ArgA(word, parts[1].num), parts[3].num), InOrder(parts), 0, <<>>, parts[3].at)

RegisterAndU4(name, word, p) ==
  LET parts == Parts(p, <<"register", ",", "immediate">>)  n == parts[3]
  IN  Operation(name, ArgB(ArgA(word, parts[1].num), n.num), InOrder(parts) /\ n.num \in 0..15, n.num, n.ref, n.at)

RegisterAndImm(name, word, p) ==
  LET parts == Parts(p, <<"register", ",", "immediate">>)  n == parts[3]
  IN  Operation(name, ArgA(word, parts[1].num), InOrder(parts), n.num, n.ref, n.at)

(* The offset is read and does not get into the word.                      *)
Indexed(name, word, p) ==
  LET parts == Parts(p, <<"register", ",", "register", "offset">>)  n == parts[4]
  IN  Operation(name, ArgB(ArgA(word, parts[1].num), parts[3].num), InOrder(parts), n.num, n.ref, n.at)

EightBits(name, word, p, range) ==
  LET n == Imm(p)
  IN  Operation(name, ArgB(ArgA(word, n.num \div 16), n.num), n.ok /\ n.num \in range, n.num, n.ref, n.at)

(* The condition is put into the word of any instruction, and what the     *)
(* word then says decides what is read next.                               *)
Operands(name, word, p) ==
  LET group == Field(word, 14, 2)
      mode  == Field(word, 8, 2)
  IN  CASE group = GEN -> Operation(name, word, TRUE, 0, <<>>, p)
        [] group = ALU /\ mode = RegReg -> TwoRegisters(name, word, p)
        [] group = ALU /\ mode = RegU4  -> RegisterAndU4(name, word, p)
        [] group = ALU /\ mode = U8     -> EightBits(name, word, p, 0..255)
        [] group = ALU /\ mode = S8     -> EightBits(name, word, p, -128..127)
        [] group = LDS /\ Field(word, 10, 1) = 1 -> Indexed(name, word, p)
        [] group = LDS /\ Field(word, 10, 1) = 0 /\ mode = RegHere -> RegisterAndImm(name, word, p)
        [] group = LDS /\ Field(word, 10, 1) = 0 /\ mode # RegHere -> TwoRegisters(name, word, p)
        [] group = JMP /\ mode \in {AbsReg, IndReg} ->
             LET b == Arg(p) IN Operation(name, ArgB(word, b.num), b.ok, 0, <<>>, b.at)
        [] group = JMP /\ mode \in {AbsHere, RelHere} ->
             LET n == Imm(p) IN Operation(name, word, n.ok, n.num, n.ref, n.at)

Instruction(p) ==
  LET name == source.text[p].word
      c == Condition(p + 1)
      t == Operands(name, Opcode[name] | (c.num * 2^10), c.at)
  IN  IF At(p) # "word" \/ name \notin DOMAIN Opcode THEN Token("op", <<>>, Failed(p))
      ELSE IF ~c.ok THEN Token("op", <<>>, c)
      ELSE [t EXCEPT !.name = Text(p, p + 1)]
----------------------------------------------------------------------------
(* _getLabel: the name of a constant, variable or string ends at a colon   *)
(* or at the end of the line, which is skipped as a colon is.              *)
Defined(type, p, part) == Token(type, Text(p, MoveTo(p + 1, ":")), part)

Constant(p) == Defined("const", p, Number(Inc(MoveTo(p + 1, ":"))))
Str(p)      == Defined("str", p, String(Inc(MoveTo(p + 1, ":"))))
Variable(p) ==
  LET q == Past(Inc(MoveTo(p + 1, ":")), Blank)
  IN  Defined("var", p, IF At(q) = "#" THEN [SymbolName(q) EXCEPT !.late = TRUE] ELSE Number(q))

IsLabel(p) == Past(p, NameChar) > p /\ At(Past(p, NameChar)) = ":"
Label(p) == Token("label", Text(p, MoveTo(p, ":")), Parsed(Inc(MoveTo(p, ":")), 0, <<>>))

BugEmptyComment(p) ==
  LET q == MoveTo(p + 1, "nl")
  IN  Token(IF q = p + 1 THEN "eof" ELSE "comment", <<>>, Parsed(q, 0, <<>>))

(* A comment that the file ends with at once ends the reading.             *)
Comment(p) ==
  LET q == MoveTo(p + 1, "nl")
  IN  Token(IF q = p + 1 /\ At(q) = "eof" THEN "eof" ELSE "comment", <<>>, Parsed(q, 0, <<>>))

(* getAlias: the first character of the name is not looked at, and spaces  *)
(* are skipped behind it.  Words are longer than one character.            *)
AliasName(p) ==
  LET q == Past(IF At(p) = "word" THEN p + 1 ELSE Past(Inc(p), Blank), NameChar \cup {"*"})
  IN  IF At(q) \in Terminator \cup Blank /\ (At(p) = "word" \/ p + 1 # End) THEN Parsed(q, 0, <<>>) ELSE Spoiled(q)

Alias(p) ==
  LET parts == Parts(p, <<"register", ",">>)
      r == parts[1]  c == parts[2]  n == AliasName(c.at)
  IN  CASE ~r.ok -> Token("alias", <<>>, r)
        [] r.ok /\ ~c.ok -> Token("alias", <<>>, c)
        [] r.ok /\ c.ok -> [Token("alias", Text(c.at, n.at), [n EXCEPT !.num = r.num])
                             EXCEPT !.lost = IF At(c.at) = "nl" THEN 1 ELSE 0]

Directive(p) ==
  LET word == IF At(p + 1) = "word" THEN source.text[p + 1].word ELSE ""
  IN  CASE word = "ORG"   -> Token("org", <<>>, Imm(p + 2))
        [] word = "DATA"  -> Token("data", <<>>, Imm(p + 2))
        [] word = "ALIAS" -> Alias(p + 2)
        [] word = "SDATA" -> Token("sdata", <<>>, String(p + 2))
        [] word \in {"N", "R", "I", "X", "C"} -> Token("header", <<>>, String(p + 2))
        [] OTHER          -> Token("error", <<>>, Failed(p + 1))

TokenAt(p) ==
  CASE At(p) = "eof" -> Token("eof", <<>>, Parsed(p, 0, <<>>))
    [] At(p) = ";"   -> Comment(p)
    [] At(p) = "#"   -> Constant(p)
    [] At(p) = "%"   -> Variable(p)
    [] At(p) = "$"   -> Str(p)
    [] At(p) = "."   -> Directive(p)
    [] OTHER         -> IF IsLabel(p) THEN Label(p) ELSE Instruction(p)
----------------------------------------------------------------------------
(* printOpcode (tools/Dumper.h): the listing of an instruction, without    *)
(* punctuation.  An indexed one is listed without its offset.              *)
ConditionNames == <<"Z", "C", "M", "P">>

TwoListed(w) ==
  \/ Field(w, 14, 2) = ALU /\ Field(w, 8, 2) = RegReg
  \/ Field(w, 14, 2) = LDS /\ (IsLdx(w) \/ Field(w, 8, 2) # RegHere)
FirstListed(w) == TwoListed(w) \/ Field(w, 14, 2) = LDS \/ (Field(w, 14, 2) = ALU /\ Field(w, 8, 2) = RegU4)
LastListed(w)  == TwoListed(w) \/ (Field(w, 14, 2) = JMP /\ Field(w, 8, 2) \in {AbsReg, IndReg})

BugFirstForLast(w) ==
  (IF FirstListed(w) THEN <<ArgNames[Field(w, 4, 4) + 1]>> ELSE <<>>) \o
  (IF LastListed(w) THEN <<ArgNames[Field(w, 4, 4) + 1]>> ELSE <<>>)
RegistersListed(w) ==
  (IF FirstListed(w) THEN <<ArgNames[Field(w, 4, 4) + 1]>> ELSE <<>>) \o
  (IF LastListed(w) THEN <<ArgNames[Field(w, 0, 4) + 1]>> ELSE <<>>)

Listed(t) ==
  [condition |-> IF Field(t.word, 14, 2) = JMP /\ Field(t.word, 13, 1) = 1
                   THEN <<Field(t.word, 12, 1) = 1, ConditionNames[Field(t.word, 10, 2) + 1]>> ELSE <<>>,
   registers |-> RegistersListed(t.word),
   operand   |-> Field(t.word, 14, 2) # GEN /\ ~LastListed(t.word)]

Init ==
  /\ \E family \in Sources : source \in family
  /\ phase = "pass1" /\ idx = 1 /\ line = 1
  /\ alias = [r \in Reg |-> <<>>]
  /\ tokens = <<>>
  /\ failed = FALSE

BugCountsNext(p, q) == Cardinality({r \in p..q : At(r) = "nl"})
Newlines(p, q) == Cardinality({r \in p..(q - 1) : At(r) = "nl"})

(* getToken: after an error the rest of the line is skipped up to its end, *)
(* which skipLine counts and does not consume.                             *)
Resume(t) == IF t.type = "error" THEN Until(t.at, {"nl"}) ELSE t.at

Kept(t, number) ==
  [type |-> t.type, name |-> t.name, num |-> t.num, ref |-> t.ref, word |-> t.word, line |-> number]

BugLastOnly(t) == t.type = "error"
Fails(t) == failed \/ t.type = "error"

GetToken ==
  /\ phase = "pass1"
  /\ \E p \in {Past(idx, Blank \cup {"nl"})} : \E t \in {TokenAt(p)} :
       LET reached == line + Newlines(idx, t.at) - t.lost
       IN  /\ idx' = Resume(t)
           /\ line' = reached + (IF t.type = "error" /\ At(Until(t.at, {"nl"})) = "nl" THEN 1 ELSE 0)
           /\ IF t.type = "eof"
                THEN phase' = "pass3" /\ UNCHANGED <<alias, tokens, failed>>
                ELSE /\ tokens' = Append(tokens, Kept(t, IF t.late THEN reached ELSE line + Newlines(idx, p)))
                     /\ alias' = IF t.type = "alias" THEN [alias EXCEPT ![t.num] = t.name] ELSE alias
                     /\ failed' = Fails(t)
                     /\ UNCHANGED phase
  /\ UNCHANGED source

(* dereferenceSymbol, for the operands that are put into the word: what    *)
(* the word becomes with the constant v.  Signed bytes are not looked up,  *)
(* and long operands are in Assembler.                                     *)
BugBelow15(w, v) ==
  LET group == Field(w, 14, 2)
      mode  == Field(w, 8, 2)
  IN  CASE group = ALU /\ mode = RegU4 -> [ok |-> v \in 0..14, word |-> w - (w % 16) + v]
        [] group = ALU /\ mode = U8    -> [ok |-> v \in 0..127, word |-> w - (w % 256) + v]
        [] OTHER    -> [ok |-> TRUE, word |-> w]

Dereferenced(w, v) ==
  LET group == Field(w, 14, 2)
      mode  == Field(w, 8, 2)
  IN  CASE group = ALU /\ mode = RegU4 -> [ok |-> v \in 0..15, word |-> w - (w % 16) + v]
        [] group = ALU /\ mode = U8    -> [ok |-> v \in 0..127, word |-> w - (w % 256) + v]
        [] IsLdx(w) -> [ok |-> v \in 0..31, word |-> w - Field(w, 13, 1) * 2^13 + (v \div 16) * 2^13 - (w % 16) + (v % 16)]
        [] OTHER    -> [ok |-> TRUE, word |-> w]

Definitions(name) == {d \in DOMAIN tokens : tokens[d].type = "const" /\ tokens[d].name = name}
Symbolic(t) == t.type = "op" /\ t.ref # <<>>
IsSignedByte(w) == Field(w, 14, 2) = ALU /\ Field(w, 8, 2) = S8
LookedUp(t) == Symbolic(t) /\ ~IsSignedByte(t.word)
Value(t) == tokens[CHOOSE d \in Definitions(t.ref) : TRUE].num

Pass3 ==
  /\ phase = "pass3"
  /\ phase' = "done"
  /\ tokens' = [n \in DOMAIN tokens |->
       LET t == tokens[n]
       IN  IF LookedUp(t) /\ Definitions(t.ref) # {} THEN [t EXCEPT !.word = Dereferenced(@, Value(t)).word] ELSE t]
  /\ failed' = (failed \/ \E n \in DOMAIN tokens : LookedUp(tokens[n]) /\
                  (Definitions(tokens[n].ref) = {} \/ ~Dereferenced(tokens[n].word, Value(tokens[n])).ok))
  /\ UNCHANGED <<source, idx, line, alias>>

Next == GetToken \/ Pass3

Spec == Init /\ [][Next]_vars
----------------------------------------------------------------------------
(* What the author meant: source.says has for each line its token, the     *)
(* instruction if it is one, whether the line is refused as it is written, *)
(* what of its comment is read as one more line, whether it is tidy, so    *)
(* that the next line can be read whatever this one is, and whether its    *)
(* end hides the next line.                                                *)
Lines == DOMAIN source.says
AllTidy == \A n \in Lines : source.says[n].tidy
ReadOf(l) == (IF l.token.type = "none" THEN <<>> ELSE <<l>>) \o l.spilled
Meant == FlattenSeq([n \in Lines |-> ReadOf(source.says[n])])
Read  == SelectSeq(tokens, LAMBDA t : t.type # "comment")

Agrees(t, m) ==
  \/ t.type = "error" /\ m.type = "error"
  \/ t.type = m.type /\ t.name = m.name /\ t.num = m.num /\ t.ref = m.ref /\ t.word = m.word

(* A tidy file is read line by line: each statement becomes the token that *)
(* was meant, an alias is known from its line on, each line that is wrong  *)
(* is one error, and reading goes on behind it.  Against the comments of   *)
(* the source, a directive with a colon, as Token.h:37-41 show them, is an *)
(* error too, and a comment directly behind a number with fewer digits     *)
(* than it could have is read as a line of code, where Assembler.h:834     *)
(* says that the rest of the line is a comment.                            *)
ReadsAsWritten ==
  phase = "pass3" /\ AllTidy =>
    /\ Len(Read) = Len(Meant)
    /\ \A n \in DOMAIN Meant :
         IF Meant[n].refused THEN Read[n].type = "error" ELSE Agrees(Read[n], Meant[n].token)

(* What the CPU finds in the word of an accepted instruction is what the   *)
(* line said, with the operand as a number or as a constant of any value;  *)
(* signed bytes given as constants are the exception.                      *)
DecodesAsWritten ==
  phase = "done" /\ AllTidy /\ ~failed =>
    \A n \in DOMAIN Meant :
      Meant[n].instr # <<>> /\ ~(Symbolic(Read[n]) /\ IsSignedByte(Read[n].word)) =>
        Decode(Read[n].word) = Meant[n].instr[1]

(* The listing of a program shows what the lines said: the instruction,    *)
(* its condition and its registers, and an operand if there is one, whose  *)
(* value or name ReadsAsWritten is about.                                  *)
ListedAsWritten ==
  phase = "done" /\ AllTidy /\ ~failed =>
    \A n \in DOMAIN Meant : Meant[n].shows # <<>> => Listed(Read[n]) = Meant[n].shows[1]

Stops(l) == l.token.type = "error" \/ l.refused

(* What pass 3 takes for a constant in an instruction of one word.  Signed *)
(* bytes are not looked at.                                                *)
Allowed(i) == CASE i.mode = RegU4 -> 0..15 [] i.mode = U8 -> 0..127 [] i.mode = S8 -> {i.arg}

(* No wrong line gets through, however the lines around it end, unless the *)
(* line before it hides it.  And no file is refused for a right line, but  *)
(* for a constant byte from 128 to 255, which as a number is taken.        *)
NothingSlipsThrough ==
  phase = "done" =>
    /\ (\E n \in Lines : source.says[n].token.type = "error" /\ ~(n > 1 /\ source.says[n - 1].hides)) => failed
    /\ failed /\ AllTidy =>
         \/ \E n \in Lines : Stops(source.says[n])
         \/ \E n \in DOMAIN Meant :
              /\ Meant[n].token.ref # <<>> /\ Meant[n].instr # <<>>
              /\ Meant[n].instr[1].arg \notin Allowed(Meant[n].instr[1])

(* The first error is reported at the line that is wrong, or refused, if   *)
(* that line and those before it end by themselves.                        *)
FirstErrorLocated ==
  phase = "pass3" =>
    \A n \in Lines : \A e \in DOMAIN tokens :
      /\ Stops(source.says[n]) /\ tokens[e].type = "error"
      /\ \A m \in 1..n : source.says[m].tidy /\ (m < n => ~Stops(source.says[m]))
      /\ \A d \in 1..(e - 1) : tokens[d].type # "error"
      => tokens[e].line = n

(* Pass 1 ends at the end of the file and nowhere before; until then each  *)
(* token, well written or not, takes something of the text.                *)
ReadsToTheEnd == [][IF phase' = "pass1" THEN idx' > idx ELSE idx' = End]_vars
=============================================================================
