----------------------------- MODULE Assembler -----------------------------
(***************************************************************************)
(* The assembler's passes over a whole source file (tools/Assembler.h):    *)
(* pass 1 collects the symbols, pass 2 assigns addresses, pass 3 resolves  *)
(* references, and writeMemory stores the image if no pass failed.  A step *)
(* handles one token.  What tokens look like as text is left out, and what *)
(* an instruction's word holds is in ISA: a token is its type, its name,   *)
(* its number and the symbol it refers to.  A byte in memory is named by   *)
(* the token that wrote it and its place in that token.                    *)
(***************************************************************************)
EXTENDS Integers, Sequences, FiniteSets

CONSTANTS
  Line,       \* the tokens that a source may consist of
  MaxLines,   \* the length of the longest source
  Option      \* constants given by the caller: a function from names

AddressMod == 65536
Pad(n) == n + (n % 2)

(* Directives, instructions with and without a second word, definitions.   *)
(* "rel" is an instruction whose second word is a relative target.         *)
Named == {"label", "const", "var", "str"}
Types == Named \cup {"org", "data", "sdata", "header", "op", "imm", "rel", "comment", "error"}

NoName == "none"
MaxNumber == 999999            \* the parser reads six digits
Number == -MaxNumber..MaxNumber
WordValue == -32768..65535     \* a signed or an unsigned word

(* num is a constant's value, a variable's or a string's length, or an     *)
(* operand; ref, unless NoName, is a symbol that gives it instead.  A      *)
(* symbol in an instruction of one word is a constant, which Lexer models. *)
Referring == {"org", "data", "var", "imm", "rel"}

ASSUME AssemblerAssumption ==
  /\ MaxLines \in Nat
  /\ Line \subseteq [type : Types, name : STRING, num : Number, ref : STRING]
  /\ \A l \in Line :
       /\ l.type \in Named <=> l.name # NoName
       /\ l.ref # NoName => l.type \in Referring
       /\ l.type \in {"str", "header", "sdata"} => l.num >= 0
       /\ l.type = "label" => l.num = 0
  /\ \A n \in DOMAIN Option : Option[n] \in 0..(AddressMod - 1)

VARIABLES
  source,      \* the tokens, in the order of the file
  pass,        \* what the assembler is doing, or how it ended
  i,           \* the token it has come to
  symbol,      \* the defining token of each symbol, 0 while there is none
  value, address, label,   \* fields of the tokens; label is 0 for none
  addr,        \* pass 2's location counter
  labelVar, nextLabel,     \* pass 2's `label` and the assembler's currentLabel
  failed,      \* phase1Error, phase2Error or phase3Error
  memory       \* the bytes written: a partial function

vars == <<source, pass, i, symbol, value, address, label, addr, labelVar, nextLabel, failed, memory>>

Token == source[i]
Tokens == 1..Len(source)
Symbolic(t) == source[t].ref # NoName

(* The symbol that token t refers to: its token, 0 if it has none.         *)
SymbolOf(t) == symbol[source[t].ref]

(* Where the search for a label stops that starts at token t: at the first *)
(* one, or behind the source.                                              *)
LabelFrom(t) ==
  CHOOSE l \in t..(Len(source) + 1) :
    /\ l \in Tokens => source[l].type = "label"
    /\ \A k \in t..(l - 1) : source[k].type # "label"

Fetched(l) == IF l \in Tokens THEN l ELSE 0

Init ==
  /\ source \in UNION {[1..n -> Line] : n \in 0..MaxLines}
  /\ pass = "pass1" /\ i = 1
  /\ symbol = [n \in {l.name : l \in Line} \cup {l.ref : l \in Line} |-> 0]
  /\ value = [t \in Tokens |-> 0]
  /\ address = [t \in Tokens |-> 0]
  /\ label = [t \in Tokens |-> 0]
  /\ addr = 0 /\ labelVar = 0 /\ nextLabel = 0
  /\ failed = FALSE
  /\ memory = <<>>
----------------------------------------------------------------------------
(* pass1: read the token; a constant that is an option gets the option's   *)
(* value.  The first definition of a name counts, another is an error.     *)
BugRedefines == FALSE

Redefines == IF Token.type \in Named THEN symbol[Token.name] # 0 ELSE FALSE

Pass1 ==
  /\ pass = "pass1" /\ i \in Tokens
  /\ value' = [value EXCEPT ![i] =
       IF Token.type = "const" /\ Token.name \in DOMAIN Option THEN Option[Token.name] ELSE Token.num]
  /\ symbol' = IF Token.type \in Named /\ ~Redefines THEN [symbol EXCEPT ![Token.name] = i] ELSE symbol
  /\ failed' = (failed \/ Redefines \/ Token.type = "error")
  /\ i' = i + 1
  /\ UNCHANGED <<source, pass, address, label, addr, labelVar, nextLabel, memory>>

(* Pass 2 starts with the first label of the file, wherever it is.         *)
StartPass2 ==
  /\ pass = "pass1" /\ i \notin Tokens
  /\ pass' = "pass2" /\ i' = 1 /\ addr' = 0
  /\ labelVar' = Fetched(LabelFrom(1)) /\ nextLabel' = LabelFrom(1) + 1
  /\ UNCHANGED <<source, symbol, value, address, label, failed, memory>>

(* The room that pass 2 reserves for a token of value v.                   *)
BugHeaderWithoutLength(t, v) ==
  CASE source[t].type \in {"data", "op"}     -> 2
    [] source[t].type \in {"imm", "rel"}     -> 4
    [] source[t].type \in {"var", "header"}  -> v
    [] source[t].type = "str"                -> v + 2
    [] source[t].type = "sdata"              -> v
    [] OTHER                                 -> 0

Room(t, v) ==
  CASE source[t].type \in {"data", "op"}     -> 2
    [] source[t].type \in {"imm", "rel"}     -> 4
    [] source[t].type = "var"                -> v
    [] source[t].type \in {"str", "header"}  -> v + 2
    [] source[t].type = "sdata"              -> v
    [] OTHER                                 -> 0

(* Strings and headers are followed by a byte that makes the next address  *)
(* even; variables are not.                                                *)
Padded(t, a) == IF source[t].type \in {"str", "header", "sdata"} THEN Pad(a) ELSE a

Located == {"data", "sdata", "header", "var", "op", "imm", "rel", "str", "label"}

(* A label is attached to the token found at its address: data takes the   *)
(* next label of the file in its place, an instruction takes none.         *)
BugHeaderUnlabelled == Token.type \in {"data", "sdata", "op", "imm", "rel"}

Labelled == Token.type \in {"data", "sdata", "header", "op", "imm", "rel"}

BugAddressIgnored == Labelled /\ labelVar # 0

Attaches == Labelled /\ IF labelVar = 0 THEN FALSE ELSE address[labelVar] = addr

AttachLabel ==
  LET after == LabelFrom(nextLabel)
  IN  /\ label' = IF Attaches THEN [label EXCEPT ![i] = labelVar] ELSE label
      /\ IF Attaches /\ Token.type \in {"data", "sdata", "header"} /\ nextLabel <= Len(source)
           THEN labelVar' = Fetched(after) /\ nextLabel' = after + 1
           ELSE /\ labelVar' = CASE Token.type = "label" -> i
                                 [] Attaches             -> 0
                                 [] OTHER                -> labelVar
                /\ UNCHANGED nextLabel

(* pass2 reads a symbol's number before it knows that it has a token.      *)
BugOnlyLengths(t) == source[t].type = "var" /\ Symbolic(t)

Dereferences(t) == source[t].type \in {"org", "var"} /\ Symbolic(t)

Pass2 ==
  /\ pass = "pass2" /\ i \in Tokens
  /\ Dereferences(i) => SymbolOf(i) # 0
  /\ LET v == IF Dereferences(i) THEN value[SymbolOf(i)] ELSE value[i]
     IN  /\ value' = [value EXCEPT ![i] = v]
         /\ addr' = (IF Token.type = "org" THEN v ELSE Padded(i, addr + Room(i, v))) % AddressMod
  /\ address' = IF Token.type \in Located THEN [address EXCEPT ![i] = addr] ELSE address
  /\ AttachLabel
  /\ failed' = (failed \/ Token.type = "error")
  /\ i' = i + 1
  /\ UNCHANGED <<source, pass, symbol, memory>>

(* The null pointer of a symbol without a token ends the program.          *)
Crash ==
  /\ pass = "pass2" /\ i \in Tokens
  /\ Dereferences(i) /\ SymbolOf(i) = 0
  /\ pass' = "crashed"
  /\ UNCHANGED <<source, i, symbol, value, address, label, addr, labelVar, nextLabel, failed, memory>>

StartPass3 ==
  /\ pass = "pass2" /\ i \notin Tokens
  /\ pass' = "pass3" /\ i' = 1
  /\ UNCHANGED <<source, symbol, value, address, label, addr, labelVar, nextLabel, failed, memory>>
----------------------------------------------------------------------------
(* dereferenceSymbol: a constant stands for its value and everything else  *)
(* for its address; a relative target is the distance to it.               *)
BugFromNextWord(t) ==
  IF source[t].type = "rel" THEN address[SymbolOf(t)] - (address[t] + 2)
  ELSE IF source[SymbolOf(t)].type = "const" THEN value[SymbolOf(t)]
  ELSE address[SymbolOf(t)]

Resolved(t) ==
  IF source[t].type = "rel" THEN address[SymbolOf(t)] - address[t]
  ELSE IF source[SymbolOf(t)].type = "const" THEN value[SymbolOf(t)]
  ELSE address[SymbolOf(t)]

Exceeds(t) ==
  /\ source[t].type \in {"imm", "rel"} /\ source[SymbolOf(t)].type = "const"
  /\ value[SymbolOf(t)] \notin WordValue

Pass3 ==
  /\ pass = "pass3" /\ i \in Tokens
  /\ LET resolves == Token.type \in Referring /\ Symbolic(i)
         refused == resolves /\ IF SymbolOf(i) = 0 THEN TRUE ELSE Exceeds(i)
     IN  /\ value' = IF resolves /\ ~refused THEN [value EXCEPT ![i] = Resolved(i)] ELSE value
         /\ failed' = (failed \/ refused \/ Token.type = "error")
  /\ i' = i + 1
  /\ UNCHANGED <<source, pass, symbol, address, label, addr, labelVar, nextLabel, memory>>

(* The caller has the image written only if no pass found an error.        *)
EndPass3 ==
  /\ pass = "pass3" /\ i \notin Tokens
  /\ pass' = IF failed THEN "refused" ELSE "write"
  /\ i' = 1
  /\ UNCHANGED <<source, symbol, value, address, label, addr, labelVar, nextLabel, failed, memory>>

(* writeMemory stores a whole word for a variable of any length and no     *)
(* length before a string.                                                 *)
BugLengthWritten(t) ==
  CASE source[t].type \in {"data", "op", "var"} -> 2
    [] source[t].type \in {"imm", "rel"}        -> 4
    [] source[t].type \in {"str", "header"}     -> value[t] + 2
    [] source[t].type = "sdata"                 -> value[t]
    [] OTHER                                    -> 0

Written(t) ==
  CASE source[t].type \in {"data", "op", "var"} -> 2
    [] source[t].type \in {"imm", "rel"}        -> 4
    [] source[t].type = "header"                -> value[t] + 2
    [] source[t].type \in {"str", "sdata"}      -> value[t]
    [] OTHER                                    -> 0

Byte(t, k) == (address[t] + k) % AddressMod

WriteMemory ==
  /\ pass = "write" /\ i \in Tokens
  /\ LET bytes == {Byte(i, k) : k \in 0..(Written(i) - 1)}
     IN  memory' = [a \in DOMAIN memory \cup bytes |->
                     IF a \in bytes THEN <<i, (a - address[i]) % AddressMod>> ELSE memory[a]]
  /\ i' = i + 1
  /\ UNCHANGED <<source, pass, symbol, value, address, label, addr, labelVar, nextLabel, failed>>

Loaded ==
  /\ pass = "write" /\ i \notin Tokens
  /\ pass' = "loaded"
  /\ UNCHANGED <<source, i, symbol, value, address, label, addr, labelVar, nextLabel, failed, memory>>

Next ==
  \/ Pass1 \/ StartPass2 \/ Pass2 \/ Crash \/ StartPass3 \/ Pass3 \/ EndPass3
  \/ WriteMemory \/ Loaded

Spec == Init /\ [][Next]_vars
----------------------------------------------------------------------------
(* The number on the line of token t, or the caller's in its place.        *)
Given(t) ==
  IF source[t].type = "const" /\ source[t].name \in DOMAIN Option
    THEN Option[source[t].name] ELSE source[t].num

(* The number that pass 2 goes by: of the symbol's definition, if token t  *)
(* has its location or its length from a symbol.                           *)
Size(t) == IF Dereferences(t) THEN Given(SymbolOf(t)) ELSE Given(t)

(* Pass 2 does not settle the length of a variable with a variable's name. *)
Settled(t) == Dereferences(t) => SymbolOf(t) # 0 /\ ~Symbolic(SymbolOf(t))

(* The location counter behind token t.                                    *)
Behind(t) ==
  (IF source[t].type = "org" THEN Size(t) ELSE Padded(t, address[t] + Room(t, Size(t)))) % AddressMod

(* Token u is the first behind t that has an address of its own.           *)
NothingBetween(t, u) == \A k \in (t + 1)..(u - 1) : source[k].type \notin Located \cup {"org"}

(* What pass 2 reserves for token t, and at least the word of a variable.  *)
Reserve(t) ==
  IF source[t].type = "var" THEN (IF Size(t) < 2 THEN 2 ELSE Size(t))
  ELSE Padded(t, address[t] + Room(t, Size(t))) - address[t]

(* Source whose location counter never goes back: no more than memory      *)
(* holds, no variable of negative length, and no .ORG to addresses already *)
(* used, as one has that names a label, which pass 2 takes for 0.          *)
Ascending ==
  /\ \A t \in Tokens : source[t].type \in Located => Settled(t) /\ address[t] + Reserve(t) < AddressMod
  /\ \A t, u \in Tokens : t < u /\ {source[t].type, source[u].type} \subseteq Located =>
       /\ address[t] <= address[u]
       /\ (\E o \in t..u : source[o].type = "org") => address[t] + Reserve(t) <= address[u]

(* In the loaded image every byte of every token but variables is its own. *)
(* Strings and variables are not as Token.h:34 and 35 say: a string's two  *)
(* extra bytes are reserved behind it, where no length is stored, and hold *)
(* at most the rest of a variable that is shorter than its word; and a     *)
(* variable has as many bytes as its line says words.                      *)
ImageComplete ==
  pass = "loaded" /\ Ascending =>
    \A t \in Tokens :
      /\ source[t].type # "var" => \A k \in 0..(Written(t) - 1) : memory[Byte(t, k)] = <<t, k>>
      /\ source[t].type = "str" =>
           \A k \in {value[t], value[t] + 1} : Byte(t, k) \in DOMAIN memory =>
             source[memory[Byte(t, k)][1]].type = "var"
      /\ source[t].type = "var" =>
           \A k \in {0, 1} : k < Size(t) => memory[Byte(t, k)] = <<t, k>>

(* Token t is what follows label l in memory: the first behind it that    *)
(* has an address of its own.                                              *)
Follows(t, l) ==
  /\ t > l /\ source[t].type \in Located \ {"label"}
  /\ \A k \in (l + 1)..(t - 1) : source[k].type \in {"label", "comment", "const"}

(* Where the CPU gets with the word of token t (ForthVM.h:456).            *)
Reached(t) ==
  IF source[t].type = "rel" THEN (address[t] + 2 + (value[t] - 2)) % AddressMod ELSE value[t]

(* A reference that is used before or after its definition, absolute or    *)
(* relative, reaches the token behind the label, the string or variable of *)
(* that name, or gives the constant's number or the option's in its place. *)
ReferencesReach ==
  pass = "loaded" =>
    \A t, d \in Tokens :
      source[t].type \in {"data", "imm", "rel"} /\ Symbolic(t) /\ source[d].name = source[t].ref =>
        CASE source[d].type = "label" -> \A n \in Tokens : Follows(n, d) => Reached(t) = address[n]
          [] source[d].type \in {"str", "var"} -> Reached(t) = address[d]
          [] source[d].type = "const" -> source[t].type # "rel" =>
               value[t] = IF source[d].name \in DOMAIN Option THEN Option[source[d].name] ELSE source[d].num
          [] OTHER -> FALSE

(* The definitions of name n.                                              *)
Definitions(n) == {d \in Tokens : source[d].type \in Named /\ source[d].name = n}

(* An image is loaded of exactly the sources in which every name that is  *)
(* used or defined has one definition.  Assembler.h:269 and 325 say that a *)
(* location or a length must be a constant already defined, but that is    *)
(* not asked: any symbol goes by the number of its line, a later constant  *)
(* by its value, a string by its length and a label by 0, not its address. *)
LoadsWhatIsDefined ==
  LET accepted ==
        /\ \A t \in Tokens : source[t].type # "error"
        /\ \A t \in Tokens : Symbolic(t) => Definitions(source[t].ref) # {}
        /\ \A t, d \in Tokens :
             source[t].type \in {"imm", "rel"} /\ source[t].ref = source[d].name /\ source[d].type = "const"
               => value[d] \in WordValue
        /\ \A t \in Tokens : source[t].type \in Named => Definitions(source[t].name) = {t}
      start(t) == IF source[t].type = "org" THEN 0 ELSE address[t]
  IN  /\ pass = "loaded" => accepted
      /\ pass \in {"refused", "crashed"} => ~accepted
      /\ pass = "loaded" =>
           \A t, d, n \in Tokens :
             /\ source[t].type \in {"org", "var"} /\ Symbolic(t)
             /\ source[d].name = source[t].ref /\ ~Symbolic(d)
             /\ t < n /\ source[n].type \in Located /\ NothingBetween(t, n)
             => address[n] = (start(t) + (IF source[d].type = "label" THEN 0 ELSE Given(d))) % AddressMod

(* The listing and the debugger show the last label before an instruction  *)
(* or data that nothing but comments and constants separate from it, and   *)
(* no label of another address, except at address 0, where every label not *)
(* yet reached seems to be.                                                *)
LabelsListed ==
  pass = "pass3" =>
    \A t \in Tokens :
      /\ source[t].type \in {"data", "sdata", "header", "op", "imm", "rel"} =>
           \A l \in 1..(t - 1) :
             /\ source[l].type = "label"
             /\ \A k \in (l + 1)..(t - 1) : source[k].type \in {"comment", "const"}
             => label[t] = l
      /\ label[t] # 0 => address[t] = 0 \/ address[label[t]] = address[t]
============================================================================
