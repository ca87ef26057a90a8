-------------------------- MODULE AssemblerProofs ---------------------------
(* Theorems about Assembler, for sources of any length out of any lines:   *)
(* the image is complete, references reach what they name, an image is     *)
(* loaded exactly of a well-formed source, and labels are listed where     *)
(* they are.  And about Emulator, whose commands run the assembler: images *)
(* are named right and runs stop for a reason, for every program.          *)
EXTENDS Assembler, Emulator, LeastNumber, TLAPS

Names == {l.name : l \in Line} \cup {l.ref : l \in Line}

TypeOK ==
  /\ source \in Seq(Line)
  /\ pass \in {"pass1", "pass2", "pass3", "write", "loaded", "refused", "crashed"}
  /\ i \in 1..(Len(source) + 1)
  /\ symbol \in [Names -> 0..Len(source)]
  /\ value \in [Tokens -> Int]
  /\ address \in [Tokens -> 0..(AddressMod - 1)]
  /\ label \in [Tokens -> 0..Len(source)]
  /\ addr \in 0..(AddressMod - 1)
  /\ labelVar \in 0..Len(source)
  /\ failed \in BOOLEAN

(* How many tokens each pass has handled.                                  *)
Read1   == IF pass = "pass1" THEN i - 1 ELSE Len(source)
Placed == CASE pass = "pass1" -> 0
            [] pass \in {"pass2", "crashed"} -> i - 1
            [] OTHER -> Len(source)
Solved == CASE pass \in {"pass1", "pass2", "crashed"} -> 0
            [] pass = "pass3" -> i - 1
            [] OTHER -> Len(source)
Stored == CASE pass = "write" -> i - 1
            [] pass = "loaded" -> Len(source)
            [] OTHER -> 0

(* The symbols are those of the tokens read, each with its first one.      *)
SymbolsOK ==
  \A n \in Names :
    IF symbol[n] = 0
    THEN \A d \in 1..Read1 : source[d].type \in Named => source[d].name # n
    ELSE symbol[n] \in 1..Read1 /\ source[symbol[n]].type \in Named /\ source[symbol[n]].name = n

(* The first r tokens hold an error or define a name twice.                *)
Bad(r) ==
  \/ \E t \in 1..r : source[t].type = "error"
  \/ \E d, e \in 1..r :
       d < e /\ {source[d].type, source[e].type} \subseteq Named /\ source[d].name = source[e].name

Resolves(t) == source[t].type \in Referring /\ Symbolic(t)
Refuses(t) == Resolves(t) /\ IF SymbolOf(t) = 0 THEN TRUE ELSE Exceeds(t)

(* What failed is one of the errors of the source, and each of them counts.*)
FailedOK ==
  failed <=> Bad(Read1) \/ \E t \in 1..Solved : Refuses(t)

ValuesOK ==
  /\ \A t \in 1..Read1 : ~Resolves(t) => value[t] = Given(t)
  /\ \A t \in 1..Solved : Resolves(t) /\ ~Refuses(t) => value[t] = Resolved(t)

Quiet == {"label", "comment", "const"}

(* Tokens that pass 2's location counter goes to a known place behind.     *)
Sized(t) == source[t].type \in Located \cup {"org"} /\ Settled(t)

(* The addresses follow each other, and a label has that of what follows.  *)
QuietBetween(t, u)   == \A k \in (t + 1)..(u - 1) : source[k].type \in Quiet

AddressesOK ==
  /\ \A t \in Tokens : t > Placed => address[t] = 0
  /\ \A t \in 1..Placed : Sized(t) =>
       /\ \A u \in (t + 1)..Placed :
            source[u].type \in Located /\ NothingBetween(t, u) => address[u] = Behind(t)
       /\ pass = "pass2" /\ NothingBetween(t, i) => addr = Behind(t)
  /\ \A t \in 1..Placed : source[t].type = "label" =>
       /\ \A u \in (t + 1)..Placed :
            source[u].type \in Located /\ QuietBetween(t, u) => address[u] = address[t]
       /\ pass = "pass2" /\ QuietBetween(t, i) => addr = address[t]

(* Label l is the last before t, with nothing in memory in between.        *)
LastLabel(l, t) ==
  source[l].type = "label" /\ \A k \in (l + 1)..(t - 1) : source[k].type \in {"comment", "const"}

LabelsOK ==
  /\ \A l \in 1..Placed : pass = "pass2" /\ LastLabel(l, i) => labelVar = l
  /\ \A t \in 1..Placed : source[t].type \in {"data", "sdata", "header", "op", "imm", "rel"} =>
       \A l \in 1..(t - 1) : LastLabel(l, t) => label[t] = l
  /\ \A t \in Tokens : t > Placed => label[t] = 0
  /\ \A t \in 1..Placed :
       label[t] # 0 => address[t] = 0 \/ (label[t] < t /\ address[label[t]] = address[t])

(* A byte that no later token has overwritten is in memory, and nothing is *)
(* there but bytes of tokens.                                              *)
Overwritten(t, k) ==
  \E u \in (t + 1)..Stored : \E m \in 0..(Written(u) - 1) : Byte(u, m) = Byte(t, k)

MemoryOK ==
  /\ \A t \in 1..Stored : \A k \in 0..(Written(t) - 1) :
       ~Overwritten(t, k) =>
         Byte(t, k) \in DOMAIN memory /\ memory[Byte(t, k)] = <<t, k % AddressMod>>
  /\ \A a \in DOMAIN memory : \E t \in 1..Stored : \E k \in 0..(Written(t) - 1) :
       a = Byte(t, k) /\ memory[a] = <<t, k % AddressMod>>

EndingOK ==
  /\ pass \in {"write", "loaded"} => ~failed
  /\ pass = "refused" => failed
  /\ pass = "crashed" => i \in Tokens /\ Dereferences(i) /\ SymbolOf(i) = 0

AssemblerInv ==
  TypeOK /\ SymbolsOK /\ FailedOK /\ ValuesOK /\ AddressesOK /\ LabelsOK /\ MemoryOK /\ EndingOK
----------------------------------------------------------------------------
LEMMA AddressModFacts == AddressMod \in Nat /\ AddressMod > 4
BY SMT DEF AddressMod

(* Addresses are numbers modulo AddressMod.                                *)
LEMMA ModFacts ==
  ASSUME NEW a \in Int
  PROVE  /\ a % AddressMod \in 0..(AddressMod - 1)
         /\ a \in 0..(AddressMod - 1) => a % AddressMod = a
<1>1. a % AddressMod \in 0..(AddressMod - 1)
  BY AddressModFacts
<1>2. 0 <= a /\ a < AddressMod => a % AddressMod = a
  BY SMT DEF AddressMod
<1>3. QED BY <1>1, <1>2, AddressModFacts

(* What the lines are.                                                     *)
LEMMA LineFacts ==
  /\ MaxLines \in Nat
  /\ \A l \in Line :
       /\ l.type \in Types /\ l.num \in Int
       /\ l.type \in Named <=> l.name # NoName
       /\ l.ref # NoName => l.type \in Referring
       /\ l.type \in {"str", "header", "sdata"} => l.num >= 0
       /\ l.type = "label" => l.num = 0
  /\ \A n \in DOMAIN Option : Option[n] \in Int
<1>1. MaxNumber \in Int
  BY SMT DEF MaxNumber
<1>2. Number \subseteq Int
  BY <1>1 DEF Number
<1>3. \A l \in Line : l.type \in Types /\ l.num \in Number
  BY AssemblerAssumption DEF AssemblerAssumption
<1>4. \A n \in DOMAIN Option : Option[n] \in Int
  BY AddressModFacts, AssemblerAssumption DEF AssemblerAssumption
<1>5. QED BY <1>2, <1>3, <1>4, AssemblerAssumption DEF AssemblerAssumption

(* What a line of the source is, for tokens of it.                         *)
LEMMA TokenFacts ==
  ASSUME TypeOK, NEW t \in Tokens
  PROVE  /\ source[t].type \in Types
         /\ source[t].name \in Names /\ source[t].ref \in Names
         /\ source[t].num \in Int
         /\ source[t].type \in Named <=> source[t].name # NoName
         /\ Symbolic(t) => source[t].type \in Referring
         /\ source[t].type \in {"str", "header", "sdata"} => source[t].num >= 0
         /\ source[t].type = "label" => source[t].num = 0
<1>1. source[t] \in Line
  BY DEF TypeOK, Tokens
<1>2. /\ source[t].type \in Types /\ source[t].num \in Int
      /\ source[t].name \in Names /\ source[t].ref \in Names
  BY <1>1, LineFacts DEF Names
<1>3. QED BY <1>1, <1>2, LineFacts DEF Symbolic

LEMMA GivenFacts ==
  ASSUME TypeOK, NEW t \in Tokens
  PROVE  /\ Given(t) \in Int
         /\ source[t].type \in {"str", "header", "sdata"} => Given(t) = source[t].num
<1>1. source[t].type = "const" /\ source[t].name \in DOMAIN Option => Option[source[t].name] \in Int
  BY LineFacts
<1>2. QED BY <1>1, TokenFacts DEF Given

(* The symbol that a token refers to is a token that defines that name.    *)
LEMMA SymbolOfFacts ==
  ASSUME TypeOK, SymbolsOK, NEW t \in Tokens
  PROVE  /\ SymbolOf(t) \in 0..Len(source)
         /\ SymbolOf(t) # 0 => /\ SymbolOf(t) \in 1..Read1 /\ SymbolOf(t) \in Tokens
                               /\ source[SymbolOf(t)].type \in Named
                               /\ source[SymbolOf(t)].name = source[t].ref
<1>1. source[t].ref \in Names
  BY TokenFacts
<1>2. SymbolOf(t) \in 0..Len(source)
  BY <1>1 DEF SymbolOf, TypeOK
<1>3. QED BY <1>1, <1>2 DEF SymbolOf, SymbolsOK, Tokens, TypeOK

(* How far the passes are, by what the assembler is doing.                 *)
LEMMA CounterFacts ==
  ASSUME TypeOK
  PROVE  /\ Len(source) \in Nat /\ i \in Nat
         /\ Read1 \in 0..Len(source) /\ Placed \in 0..Len(source)
         /\ Solved \in 0..Len(source) /\ Stored \in 0..Len(source)
         /\ Stored > 0 => Solved = Len(source)
         /\ Solved > 0 => Placed = Len(source)
         /\ Placed > 0 => Read1 = Len(source)
<1>1. Len(source) \in Nat /\ i \in 1..(Len(source) + 1)
  BY DEF TypeOK
<1>2. CASE pass \in {"pass1", "pass2", "crashed"}
  BY <1>1, <1>2 DEF Read1, Placed, Solved, Stored
<1>3. CASE pass \in {"pass3", "write", "loaded", "refused"}
  BY <1>1, <1>3 DEF Read1, Placed, Solved, Stored
<1>4. QED BY <1>2, <1>3 DEF TypeOK
----------------------------------------------------------------------------
LEMMA InitInv == Init => AssemblerInv
<1> SUFFICES ASSUME Init PROVE AssemblerInv
  OBVIOUS
<1>1. PICK n \in 0..MaxLines : source \in [1..n -> Line]
  BY DEF Init
<1>2. source \in Seq(Line) /\ Len(source) = n /\ n \in Nat
  BY <1>1, LineFacts
<1>3. TypeOK
  <2>1. i \in 1..(Len(source) + 1) /\ 0 \in 0..Len(source) /\ 0 \in 0..(AddressMod - 1)
    BY <1>2, AddressModFacts DEF Init
  <2>2. symbol \in [Names -> 0..Len(source)]
    BY <2>1 DEF Init, Names
  <2>3. value \in [Tokens -> Int] /\ address \in [Tokens -> 0..(AddressMod - 1)] /\ label \in [Tokens -> 0..Len(source)]
    BY <2>1 DEF Init
  <2>4. QED BY <1>2, <2>1, <2>2, <2>3 DEF Init, TypeOK
<1>4. Read1 = 0 /\ Placed = 0 /\ Solved = 0 /\ Stored = 0
  BY DEF Init, Read1, Placed, Solved, Stored
<1>5. SymbolsOK
  BY <1>4 DEF Init, SymbolsOK, Names
<1>6. FailedOK
  BY <1>4 DEF Init, FailedOK, Bad
<1>7. ValuesOK
  BY <1>4 DEF ValuesOK
<1>8. AddressesOK /\ LabelsOK
  BY <1>4 DEF Init, AddressesOK, LabelsOK
<1>9. MemoryOK /\ EndingOK
  BY <1>4 DEF Init, MemoryOK, EndingOK
<1>10. QED BY <1>3, <1>5, <1>6, <1>7, <1>8, <1>9 DEF AssemblerInv

(* Going from one pass to the next, or crashing, keeps what is so.         *)
LEMMA ControlStep ==
  ASSUME AssemblerInv, StartPass2 \/ Crash \/ StartPass3 \/ EndPass3 \/ Loaded
  PROVE  AssemblerInv'
<1>1. UNCHANGED <<source, symbol, value, address, label, failed, memory>>
  BY DEF StartPass2, Crash, StartPass3, EndPass3, Loaded
<1>2. Len(source) \in Nat /\ i \in 1..(Len(source) + 1) /\ Tokens' = Tokens
  BY <1>1 DEF AssemblerInv, TypeOK, Tokens
<1>3. TypeOK'
  <2>1. labelVar' \in 0..Len(source) /\ addr' \in 0..(AddressMod - 1)
    BY <1>2, AddressModFacts
    DEF StartPass2, Crash, StartPass3, EndPass3, Loaded, Fetched, Tokens, AssemblerInv, TypeOK
  <2>2. i' \in 1..(Len(source) + 1)
    BY <1>2 DEF StartPass2, Crash, StartPass3, EndPass3, Loaded
  <2>3. pass' \in {"pass1", "pass2", "pass3", "write", "loaded", "refused", "crashed"}
    BY DEF StartPass2, Crash, StartPass3, EndPass3, Loaded
  <2>4. QED BY <1>1, <1>2, <2>1, <2>2, <2>3 DEF AssemblerInv, TypeOK
<1>4. Read1' = Read1 /\ Placed' = Placed /\ Solved' = Solved /\ Stored' = Stored
  BY <1>1, <1>2 DEF StartPass2, Crash, StartPass3, EndPass3, Loaded, Read1, Placed, Solved, Stored, Tokens
<1>5. SymbolsOK'
  BY <1>1, <1>4 DEF AssemblerInv, SymbolsOK
<1>6. \A t : SymbolOf(t)' = SymbolOf(t) /\ Resolved(t)' = Resolved(t) /\ Refuses(t)' = Refuses(t)
  BY <1>1 DEF SymbolOf, Resolved, Refuses, Resolves, Symbolic, Exceeds
<1>7. FailedOK'
  BY <1>1, <1>4, <1>6 DEF AssemblerInv, FailedOK, Bad
<1>8. ValuesOK'
  BY <1>1, <1>4, <1>6 DEF AssemblerInv, ValuesOK, Resolves, Symbolic, Given
<1>9. AddressesOK'
  <2>1. pass' = "pass2" => Placed = 0
    BY <1>4 DEF StartPass2, Crash, StartPass3, EndPass3, Loaded, Placed
  <2>2. \A t, u : NothingBetween(t, u)' = NothingBetween(t, u) /\ QuietBetween(t, u)' = QuietBetween(t, u)
    BY <1>1 DEF NothingBetween, QuietBetween
  <2>3. \A t : Behind(t)' = Behind(t) /\ Sized(t)' = Sized(t)
    BY <1>1 DEF Behind, Size, Sized, Settled, Dereferences, Symbolic, SymbolOf, Padded, Room, Given
  <2>4. QED BY <1>1, <1>2, <1>4, <2>1, <2>2, <2>3 DEF AssemblerInv, AddressesOK
<1>10. LabelsOK'
  <2>1. pass' = "pass2" => Placed = 0
    BY <1>4 DEF StartPass2, Crash, StartPass3, EndPass3, Loaded, Placed
  <2>2. \A l, t : LastLabel(l, t)' <=> LastLabel(l, t)
    BY <1>1 DEF LastLabel
  <2>3. QED BY <1>1, <1>2, <1>4, <2>1, <2>2 DEF AssemblerInv, LabelsOK
<1>11. MemoryOK'
  <2>1. \A t, k : Written(t)' = Written(t) /\ Byte(t, k)' = Byte(t, k)
    BY <1>1 DEF Written, Byte
  <2>2. QED BY <1>1, <1>4, <2>1 DEF AssemblerInv, MemoryOK, Overwritten
<1>12. EndingOK'
  BY <1>1, <1>2, <1>6 DEF StartPass2, Crash, StartPass3, EndPass3, Loaded, AssemblerInv, EndingOK, Dereferences, Symbolic
<1>13. QED BY <1>3, <1>5, <1>7, <1>8, <1>9, <1>10, <1>11, <1>12 DEF AssemblerInv
----------------------------------------------------------------------------
(* Before the image is written there is nothing in memory.                 *)
LEMMA NothingStored ==
  ASSUME AssemblerInv, pass \in {"pass1", "pass2", "pass3"}
  PROVE  DOMAIN memory = {}
<1>1. Stored = 0 /\ MemoryOK
  BY DEF AssemblerInv, Stored
<1>2. 1..Stored = {}
  BY <1>1
<1>3. \A a \in DOMAIN memory : \E t \in 1..Stored : TRUE
  BY <1>1 DEF MemoryOK
<1>4. QED BY <1>2, <1>3

(* Pass 1 defines the token's name unless it is defined, which it is if a  *)
(* token before it has that name.                                          *)
LEMMA RedefinesFacts ==
  ASSUME AssemblerInv, Pass1
  PROVE  Redefines <=>
           /\ Token.type \in Named
           /\ \E d \in 1..(i - 1) : source[d].type \in Named /\ source[d].name = Token.name
<1>1. i \in Tokens /\ Read1 = i - 1 /\ SymbolsOK /\ TypeOK
  BY DEF Pass1, Read1, AssemblerInv
<1>2. Token.name \in Names
  BY <1>1, TokenFacts DEF Token
<1>3. QED BY <1>1, <1>2 DEF Redefines, SymbolsOK

LEMMA Pass1Failed ==
  ASSUME AssemblerInv, Pass1
  PROVE  FailedOK'
<1>1. /\ TypeOK /\ FailedOK /\ i \in Tokens /\ i' = i + 1 /\ Tokens' = Tokens
      /\ UNCHANGED <<source, pass>>
      /\ failed' = (failed \/ Redefines \/ Token.type = "error")
  BY DEF Pass1, AssemblerInv, Tokens
<1>2. Len(source) \in Nat /\ i \in 1..Len(source)
  BY <1>1 DEF TypeOK, Tokens
<1>3. Read1 = i - 1 /\ Read1' = i /\ Solved = 0 /\ Solved' = 0
  BY <1>1, <1>2 DEF Pass1, Read1, Solved
<1>4. Bad(i) <=> Bad(i - 1) \/ Token.type = "error" \/ Redefines
  <2>1. (\E t \in 1..i : source[t].type = "error")
          <=> (\E t \in 1..(i - 1) : source[t].type = "error") \/ Token.type = "error"
    BY <1>2 DEF Token
  <2>2. (\E d, e \in 1..i :
           d < e /\ {source[d].type, source[e].type} \subseteq Named /\ source[d].name = source[e].name)
          <=> \/ \E d, e \in 1..(i - 1) :
                   d < e /\ {source[d].type, source[e].type} \subseteq Named /\ source[d].name = source[e].name
              \/ /\ Token.type \in Named
                 /\ \E d \in 1..(i - 1) : source[d].type \in Named /\ source[d].name = Token.name
    BY <1>2 DEF Token
  <2>3. QED BY <2>1, <2>2, RedefinesFacts DEF Bad
<1>5. Bad(Read1)' <=> Bad(i)
  BY <1>1, <1>3 DEF Bad
<1>6. failed <=> Bad(i - 1)
  BY <1>1, <1>3 DEF FailedOK
<1>7. ~(\E t \in 1..Solved : Refuses(t))'
  BY <1>3
<1>8. failed' <=> Bad(Read1)'
  BY <1>1, <1>4, <1>5, <1>6
<1>9. QED BY <1>7, <1>8 DEF FailedOK

LEMMA Pass1Symbols ==
  ASSUME AssemblerInv, Pass1
  PROVE  SymbolsOK' /\ symbol' \in [Names -> 0..Len(source)]
<1>1. /\ TypeOK /\ SymbolsOK /\ i \in Tokens /\ i' = i + 1
      /\ UNCHANGED <<source, pass>>
      /\ symbol' = IF Token.type \in Named /\ ~Redefines THEN [symbol EXCEPT ![Token.name] = i] ELSE symbol
  BY DEF Pass1, AssemblerInv
<1>2. Len(source) \in Nat /\ i \in 1..Len(source) /\ Token.name \in Names /\ symbol \in [Names -> 0..Len(source)]
  BY <1>1, TokenFacts DEF TypeOK, Tokens, Token
<1>3. Read1 = i - 1 /\ Read1' = i
  BY <1>1, <1>2 DEF Pass1, Read1
<1>4. CASE Token.type \in Named /\ ~Redefines
  <2>1. symbol' = [symbol EXCEPT ![Token.name] = i] /\ symbol[Token.name] = 0
    BY <1>1, <1>4 DEF Redefines
  <2>2. symbol' \in [Names -> 0..Len(source)] /\ symbol'[Token.name] = i
    BY <1>2, <2>1
  <2>3. ASSUME NEW n \in Names
        PROVE  (IF symbol[n] = 0
                THEN \A d \in 1..Read1 : source[d].type \in Named => source[d].name # n
                ELSE symbol[n] \in 1..Read1 /\ source[symbol[n]].type \in Named /\ source[symbol[n]].name = n)'
    <3>1. CASE n = Token.name
      BY <1>1, <1>2, <1>3, <1>4, <2>2, <3>1 DEF Token
    <3>2. CASE n # Token.name /\ symbol[n] = 0
      <4>1. symbol'[n] = 0 /\ \A d \in 1..(i - 1) : source[d].type \in Named => source[d].name # n
        BY <1>1, <1>2, <1>3, <2>1, <3>2 DEF SymbolsOK
      <4>2. QED BY <1>1, <1>2, <1>3, <3>2, <4>1 DEF Token
    <3>3. CASE n # Token.name /\ symbol[n] # 0
      <4>1. symbol'[n] = symbol[n]
        BY <1>2, <2>1, <3>3
      <4>2. QED BY <1>1, <1>2, <1>3, <3>3, <4>1 DEF SymbolsOK
    <3>4. QED BY <3>1, <3>2, <3>3
  <2>4. QED BY <2>2, <2>3 DEF SymbolsOK
<1>5. CASE ~(Token.type \in Named /\ ~Redefines)
  <2>1. symbol' = symbol /\ Token.type \in Named => symbol[Token.name] # 0
    BY <1>1, <1>5 DEF Redefines
  <2>2. symbol' = symbol
    BY <1>1, <1>5
  <2>3. ASSUME NEW n \in Names
        PROVE  (IF symbol[n] = 0
                THEN \A d \in 1..Read1 : source[d].type \in Named => source[d].name # n
                ELSE symbol[n] \in 1..Read1 /\ source[symbol[n]].type \in Named /\ source[symbol[n]].name = n)'
    <3>1. CASE symbol[n] = 0
      <4>1. \A d \in 1..(i - 1) : source[d].type \in Named => source[d].name # n
        BY <1>1, <1>3, <3>1 DEF SymbolsOK
      <4>2. Token.type \in Named => Token.name # n
        BY <2>1, <2>2, <3>1
      <4>3. QED BY <1>1, <1>2, <1>3, <2>2, <3>1, <4>1, <4>2 DEF Token
    <3>2. CASE symbol[n] # 0
      BY <1>1, <1>2, <1>3, <2>2, <3>2 DEF SymbolsOK
    <3>3. QED BY <3>1, <3>2
  <2>4. QED BY <1>2, <2>2, <2>3 DEF SymbolsOK
<1>6. QED BY <1>4, <1>5

LEMMA Pass1Step ==
  ASSUME AssemblerInv, Pass1
  PROVE  AssemblerInv'
<1>1. /\ pass = "pass1" /\ i \in Tokens /\ i' = i + 1
      /\ UNCHANGED <<source, pass, address, label, addr, labelVar, nextLabel, memory>>
      /\ value' = [value EXCEPT ![i] = Given(i)]
  BY DEF Pass1, Given, Token
<1>2. Len(source) \in Nat /\ i \in 1..Len(source) /\ Tokens' = Tokens
  BY <1>1 DEF AssemblerInv, TypeOK, Tokens
<1>3. Read1 = i - 1 /\ Read1' = i /\ Placed = 0 /\ Placed' = 0 /\ Solved' = 0 /\ Stored' = 0
  BY <1>1, <1>2 DEF Read1, Placed, Solved, Stored
<1>4. SymbolsOK' /\ symbol' \in [Names -> 0..Len(source)]
  BY Pass1Symbols
<1>5. TypeOK'
  <2>1. Given(i) \in Int
    BY <1>1, GivenFacts DEF AssemblerInv
  <2>2. value' \in [Tokens -> Int] /\ i' \in 1..(Len(source) + 1) /\ failed' \in BOOLEAN
    BY <1>1, <1>2, <2>1 DEF AssemblerInv, TypeOK, Pass1, Redefines
  <2>3. QED BY <1>1, <1>2, <1>4, <2>2 DEF AssemblerInv, TypeOK
<1>6. ValuesOK'
  <2>1. \A t \in Tokens : Given(t)' = Given(t)
    BY <1>1 DEF Given
  <2>2. \A t \in 1..i : ~Resolves(t) => value'[t] = Given(t)
    BY <1>1, <1>2, <1>3 DEF AssemblerInv, TypeOK, ValuesOK, Tokens
  <2>3. \A t : Resolves(t)' <=> Resolves(t)
    BY <1>1 DEF Resolves, Symbolic
  <2>4. QED BY <1>1, <1>2, <1>3, <2>1, <2>2, <2>3 DEF ValuesOK, Tokens
<1>7. AddressesOK' /\ LabelsOK'
  BY <1>1, <1>2, <1>3 DEF AssemblerInv, AddressesOK, LabelsOK
<1>8. MemoryOK' /\ EndingOK'
  BY <1>1, <1>3, NothingStored DEF MemoryOK, EndingOK
<1>9. QED BY <1>4, <1>5, <1>6, <1>7, <1>8, Pass1Failed DEF AssemblerInv
----------------------------------------------------------------------------
(* A step of pass 2: only the token it handles gets an address, from the   *)
(* location counter, which then goes on behind the token; comments and the *)
(* like leave it where it is.                                              *)
LEMMA Pass2Facts ==
  ASSUME AssemblerInv, Pass2
  PROVE  /\ pass = "pass2" /\ pass' = "pass2" /\ i \in 1..Len(source) /\ i' = i + 1
         /\ Len(source) \in Nat /\ i \in Tokens /\ Tokens' = Tokens
         /\ UNCHANGED <<source, symbol, memory>>
         /\ Read1 = Len(source) /\ Read1' = Len(source)
         /\ Placed = i - 1 /\ Placed' = i
         /\ Solved = 0 /\ Solved' = 0 /\ Stored = 0 /\ Stored' = 0
         /\ source[i].type \in Types
         /\ addr \in 0..(AddressMod - 1) /\ address \in [Tokens -> 0..(AddressMod - 1)]
<1>1. /\ pass = "pass2" /\ pass' = "pass2" /\ i \in Tokens /\ i' = i + 1
      /\ UNCHANGED <<source, symbol, memory>>
  BY DEF Pass2
<1>2. TypeOK /\ Len(source) \in Nat /\ i \in 1..Len(source) /\ Tokens' = Tokens
  BY <1>1 DEF AssemblerInv, TypeOK, Tokens
<1>3. /\ Read1 = Len(source) /\ Read1' = Len(source) /\ Placed = i - 1 /\ Placed' = i
      /\ Solved = 0 /\ Solved' = 0 /\ Stored = 0 /\ Stored' = 0
  BY <1>1, <1>2 DEF Read1, Placed, Solved, Stored
<1>4. QED BY <1>1, <1>2, <1>3, TokenFacts DEF TypeOK

LEMMA Pass2Value ==
  ASSUME AssemblerInv, Pass2
  PROVE  \E v \in Int :
           /\ value' = [value EXCEPT ![i] = v]
           /\ addr' = (IF Token.type = "org" THEN v ELSE Padded(i, addr + Room(i, v))) % AddressMod
           /\ ~Resolves(i) => v = Given(i)
           /\ Token.type \in {"str", "header", "sdata", "var", "org"} /\ Settled(i) => v = Size(i)
<1> DEFINE v == IF Dereferences(i) THEN value[SymbolOf(i)] ELSE value[i]
<1>1. /\ i \in Tokens /\ TypeOK /\ SymbolsOK /\ i \in 1..Read1
      /\ Dereferences(i) => SymbolOf(i) # 0
  BY Pass2Facts DEF Pass2, AssemblerInv
<1>2. Dereferences(i) => SymbolOf(i) \in Tokens /\ SymbolOf(i) \in 1..Read1
  BY <1>1, SymbolOfFacts
<1>3. v \in Int
  BY <1>1, <1>2 DEF TypeOK
<1>4. ~Resolves(i) => v = Given(i)
  BY <1>1 DEF AssemblerInv, ValuesOK, Dereferences, Resolves, Referring
<1>6. Token.type \in {"str", "header", "sdata", "var", "org"} /\ Settled(i) => v = Size(i)
  <2>1. ASSUME Dereferences(i), Settled(i) PROVE v = Size(i)
    <3>1. ~Resolves(SymbolOf(i))
      BY <2>1 DEF Settled, Resolves
    <3>2. value[SymbolOf(i)] = Given(SymbolOf(i))
      BY <1>2, <2>1, <3>1 DEF AssemblerInv, ValuesOK
    <3>3. QED BY <2>1, <3>2 DEF Size
  <2>2. ASSUME ~Dereferences(i), Token.type \in {"str", "header", "sdata", "var", "org"}
        PROVE  v = Size(i)
    <3>1. ~Resolves(i)
      BY <2>2 DEF Dereferences, Resolves, Referring, Token
    <3>2. QED BY <1>4, <2>2, <3>1 DEF Size
  <2>3. QED BY <2>1, <2>2
<1>5. /\ value' = [value EXCEPT ![i] = v]
      /\ addr' = (IF Token.type = "org" THEN v ELSE Padded(i, addr + Room(i, v))) % AddressMod
  BY DEF Pass2
<1>7. QED BY <1>3, <1>4, <1>5, <1>6

LEMMA Pass2Counter ==
  ASSUME AssemblerInv, Pass2
  PROVE  /\ addr' \in 0..(AddressMod - 1)
         /\ Token.type = "org" /\ Settled(i) => addr' = Size(i) % AddressMod
         /\ Token.type \in Located /\ Settled(i) =>
              addr' = Padded(i, addr + Room(i, Size(i))) % AddressMod
         /\ Token.type \notin Located \cup {"org"} => addr' = addr
         /\ Token.type = "label" => addr' = addr
<1>1. PICK v \in Int :
        /\ addr' = (IF Token.type = "org" THEN v ELSE Padded(i, addr + Room(i, v))) % AddressMod
        /\ Token.type \in {"str", "header", "sdata", "var", "org"} /\ Settled(i) => v = Size(i)
  BY Pass2Value
<1>2. /\ addr \in 0..(AddressMod - 1) /\ addr \in Int /\ Token.type \in Types /\ Token = source[i]
  BY Pass2Facts, AddressModFacts DEF Token
<1>3. Room(i, v) \in Int
  BY <1>2 DEF Room
<1>4. Padded(i, addr + Room(i, v)) \in Int
  BY <1>2, <1>3 DEF Padded, Pad
<1>5. addr' \in 0..(AddressMod - 1)
  BY <1>1, <1>4, ModFacts
<1>6. Token.type \in Located /\ Settled(i) => Room(i, v) = Room(i, Size(i)) /\ Token.type # "org"
  BY <1>1, <1>2 DEF Located, Room
<1>7. Token.type \notin Located \cup {"org"} \/ Token.type = "label"
        => Room(i, v) = 0 /\ Padded(i, addr + 0) = addr + 0 /\ Token.type # "org"
  BY <1>2 DEF Located, Types, Named, Room, Padded
<1>8. addr + 0 = addr /\ addr % AddressMod = addr
  BY <1>2, ModFacts
<1>9. QED BY <1>1, <1>5, <1>6, <1>7, <1>8

LEMMA Pass2Address ==
  ASSUME AssemblerInv, Pass2
  PROVE  /\ address' \in [Tokens -> 0..(AddressMod - 1)]
         /\ \A t \in Tokens : t # i => address'[t] = address[t]
         /\ Token.type \in Located => address'[i] = addr
         /\ Token.type \notin Located => address'[i] = 0
<1>1. /\ i \in Tokens /\ Placed = i - 1 /\ i \in 1..Len(source)
      /\ addr \in 0..(AddressMod - 1) /\ address \in [Tokens -> 0..(AddressMod - 1)]
      /\ AddressesOK
  BY Pass2Facts DEF AssemblerInv
<1>2. address' = IF Token.type \in Located THEN [address EXCEPT ![i] = addr] ELSE address
  BY DEF Pass2
<1>3. address[i] = 0
  BY <1>1 DEF AddressesOK
<1>4. QED BY <1>1, <1>2, <1>3

LEMMA Pass2Addresses ==
  ASSUME AssemblerInv, Pass2
  PROVE  AddressesOK'
<1>1. /\ pass = "pass2" /\ i \in 1..Len(source) /\ i' = i + 1 /\ i \in Tokens /\ Tokens' = Tokens
      /\ Len(source) \in Nat /\ source' = source /\ Placed = i - 1 /\ Placed' = i
      /\ Tokens = 1..Len(source) /\ AddressesOK
  BY Pass2Facts DEF AssemblerInv, Tokens
<1>2. \A t \in Tokens : t > Placed' => address'[t] = 0
  BY <1>1, Pass2Address DEF AddressesOK
<1>3. \A t, u : NothingBetween(t, u)' <=> NothingBetween(t, u)
  BY <1>1 DEF NothingBetween
<1>4. \A t, u : QuietBetween(t, u)' <=> QuietBetween(t, u)
  BY <1>1 DEF QuietBetween
<1>51. \A t : Sized(t)' = Sized(t) /\ Size(t)' = Size(t)
  <2>1. symbol' = symbol
    BY Pass2Facts
  <2>2. QED BY <1>1, <2>1 DEF Sized, Settled, Size, Dereferences, Symbolic, SymbolOf, Given
<1>5. \A t \in 1..(i - 1) : Behind(t)' = Behind(t) /\ address'[t] = address[t]
  <2>1. \A t \in 1..(i - 1) : address'[t] = address[t]
    BY <1>1, Pass2Address
  <2>2. ASSUME NEW t \in 1..(i - 1) PROVE Behind(t)' = Behind(t)
    <3>1. Behind(t)' = (IF source[t].type = "org" THEN Size(t)
                        ELSE Padded(t, address'[t] + Room(t, Size(t)))) % AddressMod
      BY <1>1, <1>51 DEF Behind, Padded, Room
    <3>2. QED BY <2>1, <3>1 DEF Behind
  <2>3. QED BY <2>1, <2>2
<1>6. \A t \in 1..(i - 1) : (NothingBetween(t, i + 1) => NothingBetween(t, i) /\ Token.type \notin Located \cup {"org"})
  BY <1>1 DEF NothingBetween, Token
<1>7. \A t \in 1..(i - 1) : (QuietBetween(t, i + 1) => QuietBetween(t, i) /\ Token.type \in Quiet)
  BY <1>1 DEF QuietBetween, Token
<1>8. ASSUME NEW t \in 1..i, Sized(t)
      PROVE  /\ \A u \in (t + 1)..i :
                  source[u].type \in Located /\ NothingBetween(t, u) => address'[u] = Behind(t)'
             /\ NothingBetween(t, i + 1) => addr' = Behind(t)'
  <2>1. CASE t = i
    <3>1. Behind(t)' = (IF source[t].type = "org" THEN Size(t)
                        ELSE Padded(t, address'[t] + Room(t, Size(t)))) % AddressMod
      BY <1>1, <1>51 DEF Behind, Padded, Room
    <3>2. Token.type \in Located \cup {"org"} /\ Settled(i) /\ "org" \notin Located
      BY <1>8, <2>1 DEF Token, Sized, Located
    <3>3. addr' = Behind(t)'
      <4>1. CASE Token.type = "org"
        BY <2>1, <3>1, <3>2, <4>1, Pass2Counter DEF Token
      <4>2. CASE Token.type # "org"
        BY <2>1, <3>1, <3>2, <4>2, Pass2Address, Pass2Counter DEF Token
      <4>3. QED BY <4>1, <4>2
    <3>4. QED BY <1>1, <2>1, <3>3
  <2>2. CASE t \in 1..(i - 1)
    <3>1. ASSUME NEW u \in (t + 1)..i, source[u].type \in Located, NothingBetween(t, u)
          PROVE  address'[u] = Behind(t)
      <4>1. CASE u = i
        <5>1. addr = Behind(t)
          BY <1>1, <1>8, <2>2, <3>1, <4>1 DEF AddressesOK
        <5>2. QED BY <3>1, <4>1, <5>1, Pass2Address DEF Token
      <4>2. CASE u \in (t + 1)..(i - 1)
        <5>1. address[u] = Behind(t)
          BY <1>1, <1>8, <2>2, <3>1, <4>2 DEF AddressesOK
        <5>2. QED BY <1>1, <1>5, <2>2, <4>2, <5>1
      <4>3. QED BY <1>1, <2>2, <4>1, <4>2
    <3>2. ASSUME NothingBetween(t, i + 1) PROVE addr' = Behind(t)
      <4>1. NothingBetween(t, i) /\ Token.type \notin Located \cup {"org"}
        BY <1>6, <2>2, <3>2
      <4>2. addr = Behind(t)
        BY <1>1, <1>8, <2>2, <4>1 DEF AddressesOK
      <4>3. QED BY <4>1, <4>2, Pass2Counter
    <3>3. QED BY <1>5, <2>2, <3>1, <3>2
  <2>3. QED BY <1>1, <2>1, <2>2
<1>9. ASSUME NEW t \in 1..i, source[t].type = "label"
      PROVE  /\ \A u \in (t + 1)..i :
                  source[u].type \in Located /\ QuietBetween(t, u) => address'[u] = address'[t]
             /\ QuietBetween(t, i + 1) => addr' = address'[t]
  <2>1. CASE t = i
    <3>1. addr' = address'[t]
      BY <1>9, <2>1, Pass2Address, Pass2Counter DEF Token, Located
    <3>2. QED BY <1>1, <2>1, <3>1
  <2>2. CASE t \in 1..(i - 1)
    <3>1. ASSUME NEW u \in (t + 1)..i, source[u].type \in Located, QuietBetween(t, u)
          PROVE  address'[u] = address[t]
      <4>1. CASE u = i
        <5>1. addr = address[t]
          BY <1>1, <1>9, <2>2, <3>1, <4>1 DEF AddressesOK
        <5>2. QED BY <3>1, <4>1, <5>1, Pass2Address DEF Token
      <4>2. CASE u \in (t + 1)..(i - 1)
        <5>1. address[u] = address[t]
          BY <1>1, <1>9, <2>2, <3>1, <4>2 DEF AddressesOK
        <5>2. QED BY <1>1, <1>5, <2>2, <4>2, <5>1
      <4>3. QED BY <1>1, <2>2, <4>1, <4>2
    <3>2. ASSUME QuietBetween(t, i + 1) PROVE addr' = address[t]
      <4>1. QuietBetween(t, i) /\ Token.type \in Quiet
        BY <1>7, <2>2, <3>2
      <4>2. addr = address[t]
        BY <1>1, <1>9, <2>2, <4>1 DEF AddressesOK
      <4>3. addr' = addr
        BY <4>1, Pass2Counter DEF Quiet, Located
      <4>4. QED BY <4>2, <4>3
    <3>3. QED BY <1>5, <2>2, <3>1, <3>2
  <2>3. QED BY <1>1, <2>1, <2>2
<1>10. QED
  BY <1>1, <1>2, <1>3, <1>4, <1>51, <1>8, <1>9 DEF AddressesOK

(* A label is attached to a token at the label's address; a label that is  *)
(* not yet placed is at 0.                                                 *)
LEMMA Pass2Labels ==
  ASSUME AssemblerInv, Pass2
  PROVE  /\ LabelsOK'
         /\ label' \in [Tokens -> 0..Len(source)]
         /\ labelVar' \in 0..Len(source)
<1>1. /\ i \in Tokens /\ Tokens = 1..Len(source) /\ Len(source) \in Nat
      /\ Tokens' = Tokens /\ source' = source /\ Placed = i - 1 /\ Placed' = i
  BY Pass2Facts DEF Tokens
<1>2. LabelsOK /\ AddressesOK /\ label \in [Tokens -> 0..Len(source)] /\ labelVar \in 0..Len(source)
  BY DEF AssemblerInv, TypeOK
<1>3. label' = IF Attaches THEN [label EXCEPT ![i] = labelVar] ELSE label
  BY DEF Pass2, AttachLabel
<1>4. label' \in [Tokens -> 0..Len(source)]
  BY <1>1, <1>2, <1>3
<1>5. labelVar' \in 0..Len(source)
  BY <1>1, <1>2 DEF Pass2, AttachLabel, Fetched
<1>6. \A t \in Tokens : t > i => label'[t] = 0
  BY <1>1, <1>2, <1>3 DEF LabelsOK
<1>7. ASSUME NEW t \in 1..i, label'[t] # 0
      PROVE  address'[t] = 0 \/ (label'[t] < t /\ address'[label'[t]] = address'[t])
  <2>1. CASE t = i
    <3>1. label[i] = 0
      BY <1>1, <1>2 DEF LabelsOK
    <3>2. Attaches /\ label'[i] = labelVar
      BY <1>1, <1>2, <1>3, <1>7, <2>1, <3>1
    <3>3. /\ Token.type \in {"data", "sdata", "header", "op", "imm", "rel"}
          /\ labelVar # 0 /\ address[labelVar] = addr
      BY <3>2 DEF Attaches, Labelled
    <3>4. address'[i] = addr
      BY <3>3, Pass2Address DEF Located
    <3>5. CASE labelVar < i
      <4>1. labelVar \in Tokens /\ labelVar # i
        BY <1>1, <1>2, <3>3, <3>5
      <4>2. address'[labelVar] = addr
        BY <3>3, <4>1, Pass2Address
      <4>3. QED BY <2>1, <3>2, <3>4, <3>5, <4>2
    <3>6. CASE labelVar >= i
      BY <1>1, <1>2, <2>1, <3>3, <3>4, <3>6 DEF AddressesOK
    <3>7. QED BY <1>1, <1>2, <3>5, <3>6
  <2>2. CASE t \in 1..(i - 1)
    <3>1. label'[t] = label[t]
      BY <1>1, <1>2, <1>3, <2>2
    <3>2. address[t] = 0 \/ (label[t] < t /\ address[label[t]] = address[t])
      BY <1>1, <1>2, <1>7, <2>2, <3>1 DEF LabelsOK
    <3>3. label[t] \in 0..Len(source) /\ address'[t] = address[t]
      <4>1. t \in Tokens /\ t # i
        BY <1>1, <2>2
      <4>2. QED BY <1>2, <4>1, Pass2Address
    <3>4. ASSUME label[t] < t, address[label[t]] = address[t]
          PROVE  address'[label[t]] = address[t]
      <4>1. label[t] \in Tokens /\ label[t] # i
        BY <1>1, <1>7, <2>2, <3>1, <3>3, <3>4
      <4>2. QED BY <3>4, <4>1, Pass2Address
    <3>5. QED BY <3>1, <3>2, <3>3, <3>4
  <2>3. QED BY <1>1, <2>1, <2>2
<1>8. ASSUME NEW t \in 1..i, source[t].type \in {"data", "sdata", "header", "op", "imm", "rel"},
             NEW l \in 1..(t - 1), LastLabel(l, t)
      PROVE  label'[t] = l
  <2>1. CASE t = i
    <3>1. labelVar = l /\ labelVar # 0
      BY <1>1, <1>2, <1>8, <2>1, Pass2Facts DEF LabelsOK
    <3>2. l \in 1..Placed /\ i \in (l + 1)..Len(source) /\ source[l].type = "label" /\ QuietBetween(l, i)
      BY <1>1, <1>8, <2>1 DEF LastLabel, QuietBetween, Quiet
    <3>3. addr = address[l]
      BY <1>2, <3>2, Pass2Facts DEF AddressesOK
    <3>4. Attaches
      BY <1>8, <2>1, <3>1, <3>3 DEF Attaches, Labelled, Token
    <3>5. QED BY <1>1, <1>2, <1>3, <2>1, <3>1, <3>4
  <2>2. CASE t \in 1..(i - 1)
    <3>1. label[t] = l
      BY <1>1, <1>2, <1>8, <2>2 DEF LabelsOK
    <3>2. QED BY <1>1, <1>2, <1>3, <2>2, <3>1
  <2>3. QED BY <1>1, <2>1, <2>2
<1>9. ASSUME NEW l \in 1..i, LastLabel(l, i + 1)
      PROVE  labelVar' = l
  <2>1. CASE l = i
    <3>1. Token.type = "label" /\ ~Attaches
      BY <1>9, <2>1 DEF LastLabel, Token, Attaches, Labelled
    <3>2. QED BY <2>1, <3>1 DEF Pass2, AttachLabel
  <2>2. CASE l \in 1..(i - 1)
    <3>1. Token.type \in {"comment", "const"} /\ LastLabel(l, i)
      BY <1>1, <1>9, <2>2 DEF LastLabel, Token
    <3>2. ~Attaches /\ Token.type # "label"
      BY <3>1 DEF Attaches, Labelled
    <3>3. labelVar = l
      BY <1>1, <1>2, <2>2, <3>1, Pass2Facts DEF LabelsOK
    <3>4. QED BY <3>2, <3>3 DEF Pass2, AttachLabel
  <2>3. QED BY <1>1, <2>1, <2>2
<1>10. LabelsOK'
  <2>1. \A l, t : LastLabel(l, t)' <=> LastLabel(l, t)
    BY <1>1 DEF LastLabel
  <2>2. i' = i + 1 /\ \A t \in Tokens : t \in 1..i \/ t > i
    BY <1>1, Pass2Facts
  <2>3. QED BY <1>1, <1>6, <1>7, <1>8, <1>9, <2>1, <2>2 DEF LabelsOK
<1>11. QED BY <1>4, <1>5, <1>10

LEMMA Pass2Step ==
  ASSUME AssemblerInv, Pass2
  PROVE  AssemblerInv'
<1>1. /\ pass = "pass2" /\ pass' = "pass2" /\ i \in Tokens /\ i \in 1..Len(source) /\ i' = i + 1
      /\ Len(source) \in Nat /\ Tokens' = Tokens /\ Tokens = 1..Len(source)
      /\ source' = source /\ symbol' = symbol
      /\ Read1 = Len(source) /\ Read1' = Len(source)
      /\ Solved = 0 /\ Solved' = 0 /\ Stored' = 0
  BY Pass2Facts DEF Tokens
<1>2. PICK v \in Int :
        value' = [value EXCEPT ![i] = v] /\ (~Resolves(i) => v = Given(i))
  BY Pass2Value
<1>3. TypeOK'
  <2>1. value' \in [Tokens -> Int] /\ i' \in 1..(Len(source) + 1) /\ failed' \in BOOLEAN
    BY <1>1, <1>2 DEF AssemblerInv, TypeOK, Pass2
  <2>2. QED BY <1>1, <2>1, Pass2Address, Pass2Counter, Pass2Labels DEF AssemblerInv, TypeOK
<1>4. SymbolsOK'
  BY <1>1 DEF AssemblerInv, SymbolsOK
<1>5. FailedOK'
  <2>1. failed' = (failed \/ Token.type = "error")
    BY DEF Pass2
  <2>2. failed <=> Bad(Len(source))
    BY <1>1 DEF AssemblerInv, FailedOK
  <2>3. Token.type = "error" => Bad(Len(source))
    BY <1>1 DEF Bad, Token
  <2>4. Bad(Read1)' <=> Bad(Len(source))
    BY <1>1 DEF Bad
  <2>5. ~(\E t \in 1..Solved : Refuses(t))'
    BY <1>1
  <2>6. failed' <=> Bad(Read1)'
    BY <2>1, <2>2, <2>3, <2>4
  <2>7. QED BY <2>5, <2>6 DEF FailedOK
<1>6. ValuesOK'
  <2>1. \A t \in Tokens : Given(t)' = Given(t)
    BY <1>1 DEF Given
  <2>2. \A t \in 1..Len(source) : ~Resolves(t) => value'[t] = Given(t)
    BY <1>1, <1>2 DEF AssemblerInv, TypeOK, ValuesOK
  <2>3. \A t : Resolves(t)' <=> Resolves(t)
    BY <1>1 DEF Resolves, Symbolic
  <2>4. QED BY <1>1, <2>1, <2>2, <2>3 DEF ValuesOK
<1>7. MemoryOK'
  BY <1>1, Pass2Facts, NothingStored DEF MemoryOK
<1>8. EndingOK'
  BY <1>1 DEF EndingOK
<1>9. QED BY <1>3, <1>4, <1>5, <1>6, <1>7, <1>8, Pass2Addresses, Pass2Labels DEF AssemblerInv
----------------------------------------------------------------------------
(* A step of pass 3: what a reference refers to is settled before, so that *)
(* what another token resolves to, and whether it is refused, stays.       *)
LEMMA Pass3Stable ==
  ASSUME AssemblerInv, Pass3, NEW t \in Tokens
  PROVE  /\ SymbolOf(t)' = SymbolOf(t)
         /\ Refuses(t)' <=> Refuses(t)
         /\ SymbolOf(t) # 0 => Resolved(t)' = Resolved(t)
<1>1. /\ i \in Tokens /\ UNCHANGED <<source, symbol, address>>
      /\ value' = IF Resolves(i) /\ ~Refuses(i) THEN [value EXCEPT ![i] = Resolved(i)] ELSE value
      /\ value \in [Tokens -> Int]
  BY DEF Pass3, AssemblerInv, TypeOK, Refuses, Resolves, Token
<1>2. SymbolOf(t)' = SymbolOf(t)
  BY <1>1 DEF SymbolOf
<1>3. ASSUME NEW d \in Tokens, source[d].type = "const"
      PROVE  value'[d] = value[d]
  <2>1. d # i \/ ~Resolves(i)
    BY <1>3 DEF Resolves, Referring
  <2>2. QED BY <1>1, <2>1
<1>4. SymbolOf(t) # 0 => SymbolOf(t) \in Tokens
  BY SymbolOfFacts DEF AssemblerInv
<1>5. SymbolOf(t) # 0 => Resolved(t)' = Resolved(t)
  BY <1>1, <1>2, <1>3, <1>4 DEF Resolved
<1>6. SymbolOf(t) # 0 => (Exceeds(t)' <=> Exceeds(t))
  BY <1>1, <1>2, <1>3, <1>4 DEF Exceeds
<1>7. Resolves(t)' <=> Resolves(t)
  BY <1>1 DEF Resolves, Symbolic
<1>8. Refuses(t)' <=> Refuses(t)
  BY <1>2, <1>6, <1>7 DEF Refuses
<1>9. QED BY <1>2, <1>5, <1>8

LEMMA ResolvedType ==
  ASSUME TypeOK, SymbolsOK, NEW t \in Tokens, SymbolOf(t) # 0
  PROVE  Resolved(t) \in Int
<1>1. SymbolOf(t) \in Tokens
  BY SymbolOfFacts
<1>2. address[SymbolOf(t)] \in Int /\ address[t] \in Int /\ value[SymbolOf(t)] \in Int
  BY <1>1, AddressModFacts DEF TypeOK
<1>3. QED BY <1>2 DEF Resolved

LEMMA Pass3Step ==
  ASSUME AssemblerInv, Pass3
  PROVE  AssemblerInv'
<1>1. /\ pass = "pass3" /\ i \in Tokens /\ i' = i + 1
      /\ UNCHANGED <<source, pass, symbol, address, label, addr, labelVar, nextLabel, memory>>
      /\ value' = IF Resolves(i) /\ ~Refuses(i) THEN [value EXCEPT ![i] = Resolved(i)] ELSE value
      /\ failed' = (failed \/ Refuses(i) \/ Token.type = "error")
  BY DEF Pass3, Refuses, Resolves, Token
<1>2. /\ Len(source) \in Nat /\ Tokens' = Tokens /\ Tokens = 1..Len(source) /\ i \in 1..Len(source)
      /\ value \in [Tokens -> Int] /\ TypeOK /\ SymbolsOK
  BY <1>1 DEF AssemblerInv, TypeOK, Tokens
<1>3. /\ Read1 = Len(source) /\ Read1' = Len(source) /\ Placed = Len(source) /\ Placed' = Len(source)
      /\ Solved = i - 1 /\ Solved' = i /\ Stored' = 0
  BY <1>1, <1>2 DEF Read1, Placed, Solved, Stored
<1>4. TypeOK'
  <2>1. Resolves(i) /\ ~Refuses(i) => Resolved(i) \in Int
    BY <1>1, <1>2, ResolvedType DEF Refuses
  <2>2. value' \in [Tokens -> Int] /\ i' \in 1..(Len(source) + 1)
    BY <1>1, <1>2, <2>1
  <2>3. failed' \in BOOLEAN
    BY <1>1, <1>2 DEF TypeOK, Refuses, Resolves
  <2>4. QED BY <1>1, <1>2, <2>2, <2>3 DEF TypeOK
<1>5. SymbolsOK'
  BY <1>1, <1>3 DEF AssemblerInv, SymbolsOK
<1>6. FailedOK'
  <2>1. failed <=> Bad(Len(source)) \/ \E t \in 1..(i - 1) : Refuses(t)
    BY <1>3 DEF AssemblerInv, FailedOK
  <2>2. Token.type = "error" => Bad(Len(source))
    BY <1>2 DEF Bad, Token
  <2>3. Bad(Read1)' <=> Bad(Len(source))
    BY <1>1, <1>3 DEF Bad
  <2>4. (\E t \in 1..Solved : Refuses(t))' <=> \E t \in 1..i : Refuses(t)
    <3>1. \A t \in 1..i : Refuses(t)' <=> Refuses(t)
      BY <1>2, Pass3Stable
    <3>2. (\E t \in 1..Solved : Refuses(t))' <=> \E t \in 1..i : Refuses(t)'
      BY <1>3
    <3>3. QED BY <3>1, <3>2
  <2>5. (\E t \in 1..i : Refuses(t)) <=> (\E t \in 1..(i - 1) : Refuses(t)) \/ Refuses(i)
    BY <1>2
  <2>6. QED BY <1>1, <2>1, <2>2, <2>3, <2>4, <2>5 DEF FailedOK
<1>7. ValuesOK'
  <2>1. \A t \in Tokens : Given(t)' = Given(t)
    BY <1>1 DEF Given
  <2>2. \A t \in Tokens : ~Resolves(t)' => value'[t] = Given(t)
    <3>1. \A t : Resolves(t)' <=> Resolves(t)
      BY <1>1 DEF Resolves, Symbolic
    <3>2. \A t \in Tokens : ~Resolves(t) => value'[t] = Given(t)
      BY <1>1, <1>2, <1>3 DEF AssemblerInv, ValuesOK
    <3>3. QED BY <3>1, <3>2
  <2>3. ASSUME NEW t \in 1..i, Resolves(t), ~Refuses(t)
        PROVE  value'[t] = Resolved(t)
    <3>1. CASE t = i
      BY <1>1, <1>2, <2>3, <3>1
    <3>2. CASE t \in 1..(i - 1)
      BY <1>1, <1>2, <1>3, <2>3, <3>2 DEF AssemblerInv, ValuesOK
    <3>3. QED BY <1>2, <3>1, <3>2
  <2>4. ASSUME NEW t \in 1..i, Resolves(t)', ~Refuses(t)'
        PROVE  value'[t] = Resolved(t)'
    <3>1. Resolves(t) /\ ~Refuses(t) /\ t \in Tokens
      BY <1>1, <1>2, <2>4, Pass3Stable DEF Resolves, Symbolic
    <3>2. SymbolOf(t) # 0
      BY <3>1 DEF Refuses
    <3>3. QED BY <2>3, <3>1, <3>2, Pass3Stable
  <2>5. QED BY <1>1, <1>2, <1>3, <2>1, <2>2, <2>4 DEF ValuesOK
<1>8. AddressesOK'
  <2>1. \A t, u : NothingBetween(t, u)' = NothingBetween(t, u) /\ QuietBetween(t, u)' = QuietBetween(t, u)
    BY <1>1 DEF NothingBetween, QuietBetween
  <2>2. \A t : Behind(t)' = Behind(t) /\ Sized(t)' = Sized(t)
    BY <1>1 DEF Behind, Size, Sized, Settled, Dereferences, Symbolic, SymbolOf, Padded, Room, Given
  <2>3. QED BY <1>1, <1>2, <1>3, <2>1, <2>2 DEF AssemblerInv, AddressesOK
<1>9. LabelsOK'
  BY <1>1, <1>2, <1>3 DEF AssemblerInv, LabelsOK, LastLabel
<1>10. MemoryOK' /\ EndingOK'
  BY <1>1, <1>3, NothingStored DEF MemoryOK, EndingOK
<1>11. QED BY <1>4, <1>5, <1>6, <1>7, <1>8, <1>9, <1>10 DEF AssemblerInv
----------------------------------------------------------------------------
(* The place of a byte in its token can be read off its address.           *)
LEMMA ByteFacts ==
  ASSUME NEW a \in Int, NEW k \in Int
  PROVE  (((a + k) % AddressMod) - a) % AddressMod = k % AddressMod
BY SMT DEF AddressMod

LEMMA WriteStep ==
  ASSUME AssemblerInv, WriteMemory
  PROVE  AssemblerInv'
<1> DEFINE bytes == {Byte(i, k) : k \in 0..(Written(i) - 1)}
<1>1. /\ pass = "write" /\ i \in Tokens /\ i' = i + 1
      /\ UNCHANGED <<source, pass, symbol, value, address, label, addr, labelVar, nextLabel, failed>>
      /\ memory' = [a \in DOMAIN memory \cup bytes |->
                      IF a \in bytes THEN <<i, (a - address[i]) % AddressMod>> ELSE memory[a]]
  BY DEF WriteMemory
<1>2. /\ Len(source) \in Nat /\ Tokens' = Tokens /\ Tokens = 1..Len(source) /\ i \in 1..Len(source)
      /\ TypeOK /\ address \in [Tokens -> 0..(AddressMod - 1)]
  BY <1>1 DEF AssemblerInv, TypeOK, Tokens
<1>3. /\ Read1 = Len(source) /\ Read1' = Len(source) /\ Placed = Len(source) /\ Placed' = Len(source)
      /\ Solved = Len(source) /\ Solved' = Len(source) /\ Stored = i - 1 /\ Stored' = i
  BY <1>1, <1>2 DEF Read1, Placed, Solved, Stored
<1>4. TypeOK'
  BY <1>1, <1>2 DEF TypeOK
<1>5. SymbolsOK'
  BY <1>1, <1>3 DEF AssemblerInv, SymbolsOK
<1>6. \A t : SymbolOf(t)' = SymbolOf(t) /\ Resolved(t)' = Resolved(t) /\ Refuses(t)' = Refuses(t)
  BY <1>1 DEF SymbolOf, Resolved, Refuses, Resolves, Symbolic, Exceeds
<1>7. FailedOK'
  BY <1>1, <1>3, <1>6 DEF AssemblerInv, FailedOK, Bad
<1>8. ValuesOK'
  BY <1>1, <1>3, <1>6 DEF AssemblerInv, ValuesOK, Resolves, Symbolic, Given
<1>9. AddressesOK'
  <2>1. \A t, u : NothingBetween(t, u)' = NothingBetween(t, u) /\ QuietBetween(t, u)' = QuietBetween(t, u)
    BY <1>1 DEF NothingBetween, QuietBetween
  <2>2. \A t : Behind(t)' = Behind(t) /\ Sized(t)' = Sized(t)
    BY <1>1 DEF Behind, Size, Sized, Settled, Dereferences, Symbolic, SymbolOf, Padded, Room, Given
  <2>3. QED BY <1>1, <1>2, <1>3, <2>1, <2>2 DEF AssemblerInv, AddressesOK
<1>10. LabelsOK'
  BY <1>1, <1>2, <1>3 DEF AssemblerInv, LabelsOK, LastLabel
<1>11. EndingOK'
  BY <1>1 DEF AssemblerInv, EndingOK
<1>12. MemoryOK'
  <2>1. \A t, k : Written(t)' = Written(t) /\ Byte(t, k)' = Byte(t, k)
    BY <1>1 DEF Written, Byte
  <2>2. ASSUME NEW t \in 1..i, NEW k \in 0..(Written(t) - 1), ~Overwritten(t, k)'
        PROVE  Byte(t, k) \in DOMAIN memory' /\ memory'[Byte(t, k)] = <<t, k % AddressMod>>
    <3>1. CASE t = i
      <4>1. Byte(t, k) \in bytes
        BY <2>2, <3>1
      <4>2. memory'[Byte(t, k)] = <<t, (Byte(t, k) - address[t]) % AddressMod>>
        BY <1>1, <3>1, <4>1
      <4>3. address[t] \in Int /\ k \in Int
        BY <1>2, <2>2, AddressModFacts
      <4>4. (Byte(t, k) - address[t]) % AddressMod = k % AddressMod
        BY <4>3, ByteFacts DEF Byte
      <4>5. QED BY <1>1, <4>1, <4>2, <4>4
    <3>2. CASE t \in 1..(i - 1)
      <4>1. ~Overwritten(t, k)
        BY <1>2, <1>3, <2>1, <2>2, <3>2 DEF Overwritten
      <4>2. Byte(t, k) \notin bytes
        BY <1>2, <1>3, <2>1, <2>2, <3>2 DEF Overwritten
      <4>3. Byte(t, k) \in DOMAIN memory /\ memory[Byte(t, k)] = <<t, k % AddressMod>>
        BY <1>3, <2>2, <3>2, <4>1 DEF AssemblerInv, MemoryOK
      <4>4. QED BY <1>1, <4>2, <4>3
    <3>3. QED BY <1>2, <3>1, <3>2
  <2>3. ASSUME NEW a \in DOMAIN memory'
        PROVE  \E t \in 1..i : \E k \in 0..(Written(t) - 1) :
                 a = Byte(t, k) /\ memory'[a] = <<t, k % AddressMod>>
    <3>1. CASE a \in bytes
      <4>1. PICK k \in 0..(Written(i) - 1) : a = Byte(i, k)
        BY <3>1
      <4>2. memory'[a] = <<i, (Byte(i, k) - address[i]) % AddressMod>>
        BY <1>1, <3>1, <4>1
      <4>3. address[i] \in Int /\ k \in Int
        BY <1>2, <4>1, AddressModFacts
      <4>4. (Byte(i, k) - address[i]) % AddressMod = k % AddressMod
        BY <4>3, ByteFacts DEF Byte
      <4>5. QED BY <1>2, <4>1, <4>2, <4>4
    <3>2. CASE a \notin bytes
      <4>1. a \in DOMAIN memory /\ memory'[a] = memory[a]
        BY <1>1, <2>3, <3>2
      <4>2. PICK t \in 1..(i - 1) : \E k \in 0..(Written(t) - 1) :
                   a = Byte(t, k) /\ memory[a] = <<t, k % AddressMod>>
        BY <1>3, <4>1 DEF AssemblerInv, MemoryOK
      <4>3. QED BY <1>2, <4>1, <4>2
    <3>3. QED BY <3>1, <3>2
  <2>4. QED BY <1>3, <2>1, <2>2, <2>3 DEF MemoryOK
<1>13. QED BY <1>4, <1>5, <1>7, <1>8, <1>9, <1>10, <1>11, <1>12 DEF AssemblerInv

LEMMA StutterStep ==
  ASSUME AssemblerInv, UNCHANGED vars
  PROVE  AssemblerInv'
<1>1. UNCHANGED <<source, pass, i, symbol, value, address, label, addr, labelVar, failed, memory>>
  BY DEF vars
<1>2. Read1' = Read1 /\ Placed' = Placed /\ Solved' = Solved /\ Stored' = Stored /\ Tokens' = Tokens
  BY <1>1 DEF Read1, Placed, Solved, Stored, Tokens
<1>3. TypeOK' /\ SymbolsOK'
  BY <1>1, <1>2 DEF AssemblerInv, TypeOK, SymbolsOK
<1>4. \A t : SymbolOf(t)' = SymbolOf(t) /\ Resolved(t)' = Resolved(t) /\ Refuses(t)' = Refuses(t)
  BY <1>1 DEF SymbolOf, Resolved, Refuses, Resolves, Symbolic, Exceeds
<1>5. FailedOK' /\ ValuesOK'
  BY <1>1, <1>2, <1>4 DEF AssemblerInv, FailedOK, Bad, ValuesOK, Resolves, Symbolic, Given
<1>6. \A t, u : NothingBetween(t, u)' = NothingBetween(t, u) /\ QuietBetween(t, u)' = QuietBetween(t, u)
  BY <1>1 DEF NothingBetween, QuietBetween
<1>7. \A t : Behind(t)' = Behind(t) /\ Sized(t)' = Sized(t)
  BY <1>1 DEF Behind, Size, Sized, Settled, Dereferences, Symbolic, SymbolOf, Padded, Room, Given
<1>8. AddressesOK'
  <2>1. \A t : NothingBetween(t, i)' = NothingBetween(t, i) /\ QuietBetween(t, i)' = QuietBetween(t, i)
    BY <1>1 DEF NothingBetween, QuietBetween
  <2>2. QED BY <1>1, <1>2, <1>6, <1>7, <2>1 DEF AssemblerInv, AddressesOK
<1>9. LabelsOK'
  BY <1>1, <1>2 DEF AssemblerInv, LabelsOK, LastLabel
<1>10. \A t, k : Written(t)' = Written(t) /\ Byte(t, k)' = Byte(t, k)
  BY <1>1 DEF Written, Byte
<1>11. MemoryOK'
  BY <1>1, <1>2, <1>10 DEF AssemblerInv, MemoryOK, Overwritten
<1>12. EndingOK'
  BY <1>1, <1>2 DEF AssemblerInv, EndingOK, Dereferences, Symbolic, SymbolOf
<1>13. QED BY <1>3, <1>5, <1>8, <1>9, <1>11, <1>12 DEF AssemblerInv

LEMMA InvCorrect == Spec => []AssemblerInv
<1>1. Init => AssemblerInv
  BY InitInv
<1>2. AssemblerInv /\ [Next]_vars => AssemblerInv'
  BY Pass1Step, Pass2Step, Pass3Step, WriteStep, ControlStep, StutterStep DEF Next
<1>3. QED BY <1>1, <1>2, PTL DEF Spec
----------------------------------------------------------------------------
(* The last label before a token that has one in the listing is shown for  *)
(* it, and no label of another address but 0, for every source.            *)
THEOREM AssemblerLabels == Spec => []LabelsListed
<1>1. AssemblerInv => LabelsListed
  <2> SUFFICES ASSUME AssemblerInv, pass = "pass3", NEW t \in Tokens
               PROVE  /\ source[t].type \in {"data", "sdata", "header", "op", "imm", "rel"} =>
                           \A l \in 1..(t - 1) :
                             /\ source[l].type = "label"
                             /\ \A k \in (l + 1)..(t - 1) : source[k].type \in {"comment", "const"}
                             => label[t] = l
                      /\ label[t] # 0 => address[t] = 0 \/ address[label[t]] = address[t]
    BY DEF LabelsListed
  <2>1. t \in 1..Placed
    BY DEF Placed, Tokens
  <2>2. QED BY <2>1 DEF AssemblerInv, LabelsOK, LastLabel
<1>2. QED BY <1>1, InvCorrect, PTL
----------------------------------------------------------------------------
(* In a source without errors of pass 1 a name has one definition, so that *)
(* what it refers to is what any definition of it says.                    *)
LEMMA OneDefinition ==
  ASSUME TypeOK, ~Bad(Len(source)), NEW d \in Tokens, NEW e \in Tokens,
         source[d].type \in Named, source[e].type \in Named, source[d].name = source[e].name
  PROVE  d = e
<1>1. d \in 1..Len(source) /\ e \in 1..Len(source) /\ Len(source) \in Nat
  BY DEF Tokens, TypeOK
<1>2. ~(d < e) /\ ~(e < d)
  BY <1>1 DEF Bad
<1>3. QED BY <1>1, <1>2

(* What an image that is loaded says of its source.                        *)
LEMMA LoadedFacts ==
  ASSUME AssemblerInv, pass = "loaded"
  PROVE  /\ ~Bad(Len(source)) /\ \A t \in Tokens : ~Refuses(t)
         /\ Read1 = Len(source) /\ Placed = Len(source) /\ Solved = Len(source) /\ Stored = Len(source)
         /\ Tokens = 1..Len(source) /\ Len(source) \in Nat
<1>1. /\ Read1 = Len(source) /\ Placed = Len(source) /\ Solved = Len(source) /\ Stored = Len(source)
      /\ Tokens = 1..Len(source) /\ Len(source) \in Nat
  BY DEF Read1, Placed, Solved, Stored, Tokens, AssemblerInv, TypeOK
<1>2. ~failed
  BY DEF AssemblerInv, EndingOK
<1>3. QED BY <1>1, <1>2 DEF AssemblerInv, FailedOK

(* The symbol of a token that resolves is the definition of its name.      *)
LEMMA LoadedReference ==
  ASSUME AssemblerInv, pass = "loaded", NEW t \in Tokens, Symbolic(t)
  PROVE  /\ Resolves(t) /\ SymbolOf(t) \in Tokens /\ SymbolOf(t) # 0 /\ value[t] = Resolved(t)
         /\ source[SymbolOf(t)].type \in Named /\ source[SymbolOf(t)].name = source[t].ref
         /\ \A d \in Tokens : source[d].name = source[t].ref => d = SymbolOf(t)
<1>1. TypeOK /\ SymbolsOK /\ ValuesOK
  BY DEF AssemblerInv
<1>2. Resolves(t)
  BY <1>1, TokenFacts DEF Resolves
<1>3. ~Refuses(t) /\ t \in 1..Solved /\ ~Bad(Len(source))
  BY LoadedFacts
<1>4. SymbolOf(t) # 0
  BY <1>2, <1>3 DEF Refuses
<1>5. /\ SymbolOf(t) \in Tokens /\ source[SymbolOf(t)].type \in Named
      /\ source[SymbolOf(t)].name = source[t].ref
  BY <1>1, <1>4, SymbolOfFacts
<1>6. value[t] = Resolved(t)
  BY <1>1, <1>2, <1>3 DEF ValuesOK
<1>7. ASSUME NEW d \in Tokens, source[d].name = source[t].ref
      PROVE  d = SymbolOf(t)
  <2>1. source[d].type \in Named
    BY <1>1, <1>7, TokenFacts DEF Symbolic
  <2>2. QED BY <1>1, <1>3, <1>5, <1>7, <2>1, OneDefinition
<1>8. QED BY <1>2, <1>4, <1>5, <1>6, <1>7

(* An image is loaded of exactly the sources that define what they name,   *)
(* whatever the lines, their number and the options.                       *)
LEMMA LoadedIsAccepted ==
  ASSUME AssemblerInv, pass = "loaded"
  PROVE  /\ \A t \in Tokens : source[t].type # "error"
         /\ \A t \in Tokens : Symbolic(t) => Definitions(source[t].ref) # {}
         /\ \A t, d \in Tokens :
              source[t].type \in {"imm", "rel"} /\ source[t].ref = source[d].name /\ source[d].type = "const"
                => value[d] \in WordValue
         /\ \A t \in Tokens : source[t].type \in Named => Definitions(source[t].name) = {t}
<1>1. /\ TypeOK /\ ~Bad(Len(source)) /\ Tokens = 1..Len(source)
      /\ \A t \in Tokens : ~Refuses(t)
  BY LoadedFacts DEF AssemblerInv
<1>2. \A t \in Tokens : source[t].type # "error"
  BY <1>1 DEF Bad
<1>3. \A t \in Tokens : Symbolic(t) => Definitions(source[t].ref) # {}
  BY LoadedReference DEF Definitions
<1>4. ASSUME NEW t \in Tokens, NEW d \in Tokens,
             source[t].type \in {"imm", "rel"}, source[t].ref = source[d].name, source[d].type = "const"
      PROVE  value[d] \in WordValue
  <2>1. Symbolic(t)
    <3>1. source[d].name # NoName
      BY <1>1, <1>4, TokenFacts DEF Named
    <3>2. QED BY <1>4, <3>1 DEF Symbolic
  <2>2. SymbolOf(t) = d /\ SymbolOf(t) # 0 /\ Resolves(t)
    BY <1>4, <2>1, LoadedReference
  <2>3. ~Exceeds(t)
    BY <1>1, <2>2 DEF Refuses
  <2>4. QED BY <1>4, <2>2, <2>3 DEF Exceeds
<1>5. ASSUME NEW t \in Tokens, source[t].type \in Named
      PROVE  Definitions(source[t].name) = {t}
  BY <1>1, <1>5, OneDefinition DEF Definitions
<1>6. QED BY <1>2, <1>3, <1>4, <1>5

LEMMA RefusedIsNotAccepted ==
  ASSUME AssemblerInv, pass \in {"refused", "crashed"}
  PROVE  ~(/\ \A t \in Tokens : source[t].type # "error"
           /\ \A t \in Tokens : Symbolic(t) => Definitions(source[t].ref) # {}
           /\ \A t, d \in Tokens :
                source[t].type \in {"imm", "rel"} /\ source[t].ref = source[d].name /\ source[d].type = "const"
                  => value[d] \in WordValue
           /\ \A t \in Tokens : source[t].type \in Named => Definitions(source[t].name) = {t})
<1>1. /\ TypeOK /\ SymbolsOK /\ FailedOK /\ EndingOK
      /\ Read1 = Len(source) /\ Tokens = 1..Len(source) /\ Len(source) \in Nat /\ Solved \in 0..Len(source)
  BY CounterFacts DEF AssemblerInv, Read1, Tokens
<1>2. ASSUME NEW t \in Tokens, Symbolic(t), SymbolOf(t) = 0
      PROVE  Definitions(source[t].ref) = {}
  <2>1. source[t].ref \in Names /\ symbol[source[t].ref] = 0
    BY <1>1, <1>2, TokenFacts DEF SymbolOf
  <2>2. QED BY <1>1, <2>1 DEF SymbolsOK, Definitions
<1>3. CASE pass = "crashed"
  BY <1>1, <1>2, <1>3 DEF EndingOK, Dereferences
<1>4. CASE Bad(Len(source))
  <2>1. CASE \E t \in Tokens : source[t].type = "error"
    BY <2>1
  <2>2. ASSUME NEW d \in Tokens, NEW e \in Tokens, d < e, source[d].type \in Named, source[e].type \in Named,
               source[d].name = source[e].name
        PROVE  Definitions(source[d].name) # {d}
    <3>1. e \in Definitions(source[d].name)
      BY <2>2 DEF Definitions
    <3>2. QED BY <1>1, <2>2, <3>1
  <2>3. QED BY <1>1, <1>4, <2>1, <2>2 DEF Bad
<1>5. ASSUME NEW t \in Tokens, Refuses(t)
      PROVE  \/ Symbolic(t) /\ Definitions(source[t].ref) = {}
             \/ \E d \in Tokens : /\ source[t].type \in {"imm", "rel"} /\ source[t].ref = source[d].name
                                  /\ source[d].type = "const" /\ value[d] \notin WordValue
  <2>1. CASE SymbolOf(t) = 0
    BY <1>2, <1>5, <2>1 DEF Refuses, Resolves
  <2>2. CASE SymbolOf(t) # 0
    <3>1. SymbolOf(t) \in Tokens /\ source[SymbolOf(t)].name = source[t].ref
      BY <1>1, <2>2, SymbolOfFacts
    <3>2. Exceeds(t)
      BY <1>5, <2>2 DEF Refuses
    <3>3. QED BY <3>1, <3>2 DEF Exceeds
  <2>3. QED BY <2>1, <2>2
<1>6. CASE pass = "refused"
  <2>1. Bad(Len(source)) \/ \E t \in Tokens : Refuses(t)
    BY <1>1, <1>6 DEF EndingOK, FailedOK
  <2>2. QED BY <1>4, <1>5, <2>1
<1>7. QED BY <1>3, <1>6

(* What comes behind a location or a variable is at the number of the line *)
(* that defines its symbol, or that many bytes further.                    *)
LEMMA LocationResolves ==
  ASSUME AssemblerInv, pass = "loaded", NEW t \in Tokens, NEW d \in Tokens, NEW n \in Tokens,
         source[t].type \in {"org", "var"}, Symbolic(t), source[d].name = source[t].ref, ~Symbolic(d),
         t < n, source[n].type \in Located, NothingBetween(t, n)
  PROVE  address[n] = ((IF source[t].type = "org" THEN 0 ELSE address[t])
                         + (IF source[d].type = "label" THEN 0 ELSE Given(d))) % AddressMod
<1>1. /\ TypeOK /\ AddressesOK /\ Placed = Len(source) /\ Tokens = 1..Len(source) /\ Len(source) \in Nat
  BY LoadedFacts DEF AssemblerInv
<1>2. SymbolOf(t) = d /\ SymbolOf(t) # 0 /\ Dereferences(t)
  BY LoadedReference DEF Dereferences
<1>3. Sized(t) /\ Size(t) = Given(d)
  BY <1>2 DEF Sized, Settled, Size, Located, Named
<1>4. address[n] = Behind(t)
  BY <1>1, <1>3 DEF AddressesOK
<1>5. Given(d) \in Int /\ address[t] \in Int
  <2>1. Given(d) \in Int
    BY <1>1, GivenFacts
  <2>2. address \in [Tokens -> 0..(AddressMod - 1)]
    BY <1>1 DEF TypeOK
  <2>3. QED BY <2>1, <2>2, AddressModFacts
<1>6. source[d].type = "label" => Given(d) = 0
  <2>1. source[d].type = "label" => source[d].num = 0
    BY <1>1, TokenFacts
  <2>2. QED BY <2>1 DEF Given
<1>7. Behind(t) = ((IF source[t].type = "org" THEN 0 ELSE address[t]) + Given(d)) % AddressMod
  BY <1>3, <1>5 DEF Behind, Padded, Room
<1>8. QED BY <1>4, <1>6, <1>7

THEOREM AssemblerLoads == Spec => []LoadsWhatIsDefined
<1>1. AssemblerInv => LoadsWhatIsDefined
  BY LoadedIsAccepted, RefusedIsNotAccepted, LocationResolves DEF LoadsWhatIsDefined
<1>2. QED BY <1>1, InvCorrect, PTL
----------------------------------------------------------------------------
(* Where the CPU gets with a reference, by what it refers to.              *)
LEMMA ReachedFacts ==
  ASSUME AssemblerInv, pass = "loaded", NEW t \in Tokens, NEW d \in Tokens,
         source[t].type \in {"data", "imm", "rel"}, Symbolic(t), source[d].name = source[t].ref
  PROVE  /\ source[d].type \in Named
         /\ source[d].type # "const" => Reached(t) = address[d]
         /\ source[d].type = "const" /\ source[t].type # "rel" => value[t] = Given(d)
<1>1. /\ SymbolOf(t) = d /\ source[d].type \in Named /\ value[t] = Resolved(t)
  BY LoadedReference
<1>2. TypeOK /\ ValuesOK /\ Read1 = Len(source) /\ Tokens = 1..Len(source)
  BY LoadedFacts DEF AssemblerInv
<1>3. address[t] \in Int /\ address[d] \in 0..(AddressMod - 1) /\ address[d] \in Int
  BY <1>2, AddressModFacts DEF TypeOK
<1>4. ASSUME source[t].type = "rel" PROVE Reached(t) = address[d]
  <2>1. value[t] = address[d] - address[t]
    BY <1>1, <1>4 DEF Resolved
  <2>2. Reached(t) = (address[t] + 2 + (value[t] - 2)) % AddressMod
    BY <1>4 DEF Reached
  <2>3. address[t] + 2 + (value[t] - 2) = address[d]
    BY <1>3, <2>1
  <2>4. QED BY <1>3, <2>2, <2>3, ModFacts
<1>5. ASSUME source[t].type # "rel", source[d].type # "const" PROVE Reached(t) = address[d]
  BY <1>1, <1>5 DEF Resolved, Reached
<1>6. ASSUME source[t].type # "rel", source[d].type = "const" PROVE value[t] = Given(d)
  <2>1. value[t] = value[d]
    BY <1>1, <1>6 DEF Resolved
  <2>2. value[d] = Given(d)
    BY <1>2, <1>6 DEF ValuesOK, Resolves, Referring
  <2>3. QED BY <2>1, <2>2
<1>7. QED BY <1>1, <1>4, <1>5, <1>6

(* References reach what their names are defined as, in every image.       *)
THEOREM AssemblerReferences == Spec => []ReferencesReach
<1>1. AssemblerInv => ReferencesReach
  <2> SUFFICES ASSUME AssemblerInv, pass = "loaded", NEW t \in Tokens, NEW d \in Tokens,
                      source[t].type \in {"data", "imm", "rel"}, Symbolic(t), source[d].name = source[t].ref
               PROVE  CASE source[d].type = "label" -> \A n \in Tokens : Follows(n, d) => Reached(t) = address[n]
                        [] source[d].type \in {"str", "var"} -> Reached(t) = address[d]
                        [] source[d].type = "const" -> source[t].type # "rel" =>
                             value[t] = IF source[d].name \in DOMAIN Option THEN Option[source[d].name] ELSE source[d].num
                        [] OTHER -> FALSE
    BY DEF ReferencesReach
  <2>1. ASSUME source[d].type = "label", NEW n \in Tokens, Follows(n, d)
        PROVE  Reached(t) = address[n]
    <3>1. /\ AddressesOK /\ d \in 1..Placed /\ n \in (d + 1)..Placed
          /\ source[n].type \in Located /\ QuietBetween(d, n)
      BY <2>1, LoadedFacts DEF AssemblerInv, Follows, QuietBetween, Quiet
    <3>2. address[n] = address[d]
      BY <2>1, <3>1 DEF AddressesOK
    <3>3. QED BY <2>1, <3>2, ReachedFacts
  <2>2. source[d].type = "const" =>
          Given(d) = IF source[d].name \in DOMAIN Option THEN Option[source[d].name] ELSE source[d].num
    BY DEF Given
  <2>3. CASE source[d].type = "label"
    BY <2>1, <2>3
  <2>4. CASE source[d].type \in {"str", "var"}
    BY <2>4, ReachedFacts
  <2>5. CASE source[d].type = "const"
    BY <2>2, <2>5, ReachedFacts
  <2>6. QED BY <2>3, <2>4, <2>5, ReachedFacts DEF Named
<1>2. QED BY <1>1, InvCorrect, PTL
----------------------------------------------------------------------------
(* How far the location counter goes for a token.                          *)
Span(t) == IF source[t].type = "var" THEN Size(t) ELSE Reserve(t)

(* What writeMemory writes of a token ends where its reserve does, or      *)
(* before.                                                                 *)
LEMMA WrittenFits ==
  ASSUME AssemblerInv, pass = "loaded", Ascending, NEW t \in Tokens, source[t].type \in Located
  PROVE  /\ address[t] \in Nat /\ address[t] + Reserve(t) < AddressMod
         /\ Written(t) \in Nat /\ Reserve(t) \in Nat /\ Span(t) \in Int
         /\ Written(t) <= Reserve(t) /\ Span(t) <= Reserve(t)
         /\ source[t].type # "var" => Written(t) <= Span(t) /\ Span(t) = Reserve(t)
         /\ source[t].type = "str" =>
              value[t] \in Nat /\ Written(t) = value[t] /\ value[t] + 2 <= Reserve(t)
         /\ Span(t) >= 0 => Behind(t) = address[t] + Span(t)
<1>1. TypeOK /\ SymbolsOK /\ ValuesOK /\ t \in 1..Read1 /\ Settled(t) /\ address[t] + Reserve(t) < AddressMod
  BY LoadedFacts DEF AssemblerInv, Ascending
<1>2. address[t] \in Nat /\ value[t] \in Int
  BY <1>1, AddressModFacts DEF TypeOK
<1>3. Size(t) \in Int
  <2>1. Dereferences(t) => SymbolOf(t) \in Tokens
    BY <1>1, SymbolOfFacts DEF Settled
  <2>2. QED BY <1>1, <2>1, GivenFacts DEF Size
<1>4. source[t].type \in {"str", "header", "sdata"} => value[t] = Size(t) /\ Size(t) \in Nat
  <2>1. ASSUME source[t].type \in {"str", "header", "sdata"} PROVE value[t] = Size(t) /\ Size(t) \in Nat
    <3>1. ~Resolves(t) /\ ~Dereferences(t)
      BY <2>1 DEF Resolves, Referring, Dereferences
    <3>2. value[t] = Given(t) /\ Given(t) = source[t].num /\ source[t].num >= 0 /\ source[t].num \in Int
      BY <1>1, <2>1, <3>1, TokenFacts, GivenFacts DEF ValuesOK
    <3>3. QED BY <3>1, <3>2 DEF Size
  <2>2. QED BY <2>1
<1>6. CASE source[t].type = "var"
  <2>1. /\ Reserve(t) \in Nat /\ Written(t) = 2 /\ 2 <= Reserve(t)
        /\ Span(t) = Size(t) /\ Size(t) <= Reserve(t)
    BY <1>3, <1>6 DEF Reserve, Written, Span
  <2>2. Behind(t) = (address[t] + Size(t)) % AddressMod
    BY <1>6 DEF Behind, Padded, Room
  <2>3. Size(t) >= 0 => address[t] + Size(t) \in 0..(AddressMod - 1)
    BY <1>1, <1>2, <1>3, <2>1, AddressModFacts
  <2>4. Size(t) >= 0 => Behind(t) = address[t] + Span(t)
    BY <2>1, <2>2, <2>3, ModFacts, AddressModFacts
  <2>5. QED BY <1>1, <1>2, <1>3, <1>6, <2>1, <2>4
<1>7. CASE source[t].type # "var"
  <2>1. Room(t, Size(t)) \in Nat /\ Written(t) \in Nat /\ Written(t) <= Room(t, Size(t))
    BY <1>3, <1>4, <1>7 DEF Room, Written, Located, Named
  <2>2. /\ Reserve(t) = Padded(t, address[t] + Room(t, Size(t))) - address[t]
        /\ Span(t) = Reserve(t)
    BY <1>7 DEF Reserve, Span
  <2>10. address[t] + Room(t, Size(t)) \in Nat
    BY <1>2, <2>1
  <2>11. /\ Padded(t, address[t] + Room(t, Size(t))) \in Nat
         /\ address[t] + Room(t, Size(t)) <= Padded(t, address[t] + Room(t, Size(t)))
    <3> DEFINE a == address[t] + Room(t, Size(t))
    <3>1. a \in Nat
      BY <2>10
    <3>2. Padded(t, a) \in Nat /\ a <= Padded(t, a)
      <4> HIDE DEF a
      <4>1. QED BY <3>1 DEF Padded, Pad
    <3>3. QED BY <3>2
  <2>3. Reserve(t) \in Nat /\ Room(t, Size(t)) <= Reserve(t)
    BY <1>2, <2>1, <2>2, <2>11
  <2>4. address[t] + Reserve(t) = Padded(t, address[t] + Room(t, Size(t)))
    BY <1>2, <2>2, <2>11
  <2>5. address[t] + Reserve(t) \in 0..(AddressMod - 1)
    BY <1>1, <1>2, <2>3, AddressModFacts
  <2>6. Behind(t) = (address[t] + Reserve(t)) % AddressMod
    BY <2>4 DEF Behind, Located, Named
  <2>7. Behind(t) = address[t] + Span(t)
    BY <2>2, <2>5, <2>6, ModFacts, AddressModFacts
  <2>8. ASSUME source[t].type = "str"
        PROVE  value[t] \in Nat /\ Written(t) = value[t] /\ value[t] + 2 <= Reserve(t)
    <3>1. Room(t, Size(t)) = value[t] + 2 /\ Written(t) = value[t] /\ value[t] \in Nat
      BY <1>4, <2>8 DEF Room, Written
    <3>2. QED BY <2>3, <3>1
  <2>9. QED BY <1>1, <1>2, <1>7, <2>1, <2>2, <2>3, <2>7, <2>8
<1>8. QED BY <1>6, <1>7

(* The tokens behind a token are behind all that the location counter went *)
(* on for it.                                                              *)
LEMMA BytesApart ==
  ASSUME AssemblerInv, pass = "loaded", Ascending, NEW t \in Tokens, NEW u \in Tokens, t < u,
         source[t].type \in Located, source[u].type \in Located, Span(t) >= 0
  PROVE  address[t] + Span(t) <= address[u]
<1>1. /\ AddressesOK /\ TypeOK /\ Tokens = 1..Len(source) /\ Len(source) \in Nat /\ Placed = Len(source)
  BY LoadedFacts DEF AssemblerInv
<1>2. /\ address[t] \in Nat /\ Reserve(t) \in Nat /\ Span(t) \in Int /\ Span(t) <= Reserve(t)
      /\ Behind(t) = address[t] + Span(t) /\ address[u] \in Nat
  BY WrittenFits
<1>3. CASE \E o \in t..u : source[o].type = "org"
  <2>1. address[t] + Reserve(t) <= address[u]
    BY <1>3 DEF Ascending
  <2>2. QED BY <1>2, <2>1
<1>4. CASE ~\E o \in t..u : source[o].type = "org"
  <2> DEFINE next == {n \in (t + 1)..u : source[n].type \in Located}
  <2>1. next \in SUBSET Nat /\ u \in next
    BY <1>1
  <2>2. PICK n \in next : \A m \in next : n <= m
    BY <2>1, LeastExists
  <2>3. n \in (t + 1)..u /\ source[n].type \in Located /\ n \in Tokens
    BY <1>1, <2>2
  <2>4. NothingBetween(t, n)
    <3>1. ASSUME NEW k \in (t + 1)..(n - 1) PROVE source[k].type \notin Located
      <4>1. k \in (t + 1)..u /\ ~(n <= k)
        BY <1>1, <2>3
      <4>2. QED BY <2>2, <4>1
    <3>2. QED BY <1>1, <1>4, <2>3, <3>1 DEF NothingBetween
  <2>5. Sized(t)
    BY DEF Ascending, Sized
  <2>6. address[n] = Behind(t)
    BY <1>1, <2>3, <2>4, <2>5 DEF AddressesOK
  <2>7. address[n] <= address[u]
    <3>1. CASE n = u
      BY <1>2, <3>1
    <3>2. CASE n < u
      BY <2>3, <3>2 DEF Ascending
    <3>3. QED BY <1>1, <2>3, <3>1, <3>2
  <2>8. QED BY <1>2, <2>6, <2>7
<1>5. QED BY <1>3, <1>4

(* No byte that is reserved for a token is past the end of memory.         *)
LEMMA ByteInMemory ==
  ASSUME AssemblerInv, pass = "loaded", Ascending, NEW t \in Tokens, source[t].type \in Located,
         NEW k \in 0..(Reserve(t) - 1)
  PROVE  k \in Nat /\ k % AddressMod = k /\ Byte(t, k) = address[t] + k
<1>1. address[t] \in Nat /\ Reserve(t) \in Nat /\ address[t] + Reserve(t) < AddressMod
  BY WrittenFits
<1>2. k \in 0..(AddressMod - 1) /\ address[t] + k \in 0..(AddressMod - 1) /\ k \in Int
  BY <1>1, AddressModFacts
<1>3. QED BY <1>1, <1>2, ModFacts DEF Byte

LEMMA WrittenIsLocated ==
  ASSUME AssemblerInv, NEW t \in Tokens, NEW k \in 0..(Written(t) - 1)
  PROVE  source[t].type \in Located
<1>1. source[t].type \notin Located => Written(t) = 0
  BY TokenFacts DEF AssemblerInv, Located, Types, Named, Written
<1>2. QED BY <1>1

(* A byte that is written of a token and that the location counter went on *)
(* for is that token's in the image.                                       *)
LEMMA ByteIsOwn ==
  ASSUME AssemblerInv, pass = "loaded", Ascending, NEW t \in Tokens, source[t].type \in Located,
         NEW k \in 0..(Written(t) - 1), k < Span(t)
  PROVE  memory[Byte(t, k)] = <<t, k>>
<1>1. MemoryOK /\ Stored = Len(source) /\ Tokens = 1..Len(source) /\ Len(source) \in Nat
  BY LoadedFacts DEF AssemblerInv
<1>2. /\ address[t] \in Nat /\ Written(t) \in Nat /\ Reserve(t) \in Nat /\ Span(t) \in Int
      /\ Written(t) <= Reserve(t)
  BY WrittenFits
<1>3. k \in 0..(Reserve(t) - 1)
  BY <1>2
<1>4. k \in Nat /\ k % AddressMod = k /\ Byte(t, k) = address[t] + k
  BY <1>3, ByteInMemory
<1>5. ASSUME NEW u \in (t + 1)..Len(source), NEW m \in 0..(Written(u) - 1)
      PROVE  Byte(u, m) # Byte(t, k)
  <2>1. u \in Tokens /\ t < u
    BY <1>1
  <2>2. source[u].type \in Located
    BY <2>1, WrittenIsLocated
  <2>3. Written(u) \in Nat /\ Written(u) <= Reserve(u) /\ Reserve(u) \in Nat /\ address[u] \in Nat
    BY <2>1, <2>2, WrittenFits
  <2>4. m \in 0..(Reserve(u) - 1)
    BY <2>3
  <2>5. m \in Nat /\ Byte(u, m) = address[u] + m
    BY <2>1, <2>2, <2>4, ByteInMemory
  <2>6. Span(t) >= 0
    BY <1>2, <1>4
  <2>7. address[t] + Span(t) <= address[u]
    BY <2>1, <2>2, <2>6, BytesApart
  <2>8. address[u] + m # address[t] + k
    <3> DEFINE a == address[t]
               b == address[u]
               s == Span(t)
    <3>1. a \in Nat /\ b \in Nat /\ s \in Int /\ m \in Nat /\ k \in Nat /\ k < s /\ a + s <= b
      BY <1>2, <1>4, <2>3, <2>5, <2>7
    <3> HIDE DEF a, b, s
    <3>2. b + m # a + k
      BY <3>1
    <3>3. QED BY <3>2 DEF a, b
  <2>9. QED BY <1>4, <2>5, <2>8
<1>6. ~Overwritten(t, k)
  BY <1>1, <1>5 DEF Overwritten
<1>7. memory[Byte(t, k)] = <<t, k % AddressMod>>
  BY <1>1, <1>6 DEF MemoryOK
<1>8. QED BY <1>4, <1>7

(* What is in the reserve of a token that is not written of it is the rest *)
(* of a variable.                                                          *)
LEMMA RestOfVariable ==
  ASSUME AssemblerInv, pass = "loaded", Ascending, NEW t \in Tokens, source[t].type \in Located \ {"var"},
         NEW k \in Written(t)..(Reserve(t) - 1), Byte(t, k) \in DOMAIN memory
  PROVE  source[memory[Byte(t, k)][1]].type = "var"
<1>1. MemoryOK /\ Stored = Len(source) /\ Tokens = 1..Len(source) /\ Len(source) \in Nat
  BY LoadedFacts DEF AssemblerInv
<1>2. PICK u \in Tokens : \E m \in 0..(Written(u) - 1) :
             Byte(t, k) = Byte(u, m) /\ memory[Byte(t, k)] = <<u, m % AddressMod>>
  BY <1>1 DEF MemoryOK
<1>3. PICK m \in 0..(Written(u) - 1) :
             Byte(t, k) = Byte(u, m) /\ memory[Byte(t, k)] = <<u, m % AddressMod>>
  BY <1>2
<1>4. source[u].type \in Located
  BY <1>3, WrittenIsLocated
<1>5. /\ address[t] \in Nat /\ Written(t) \in Nat /\ Reserve(t) \in Nat /\ Span(t) = Reserve(t)
      /\ address[u] \in Nat /\ Written(u) \in Nat /\ Reserve(u) \in Nat /\ Written(u) <= Reserve(u)
      /\ source[u].type # "var" => Written(u) <= Span(u) /\ Span(u) = Reserve(u)
  BY <1>4, WrittenFits
<1>6. Byte(t, k) = address[t] + k /\ Byte(u, m) = address[u] + m
  <2>1. k \in 0..(Reserve(t) - 1) /\ m \in 0..(Reserve(u) - 1)
    BY <1>5
  <2>2. QED BY <1>4, <2>1, ByteInMemory
<1>7. /\ address[t] + k = address[u] + m /\ m < Written(u) /\ k >= Written(t) /\ k < Reserve(t)
      /\ m \in Nat /\ k \in Nat
  <2>1. Byte(t, k) = Byte(u, m) /\ m \in 0..(Written(u) - 1)
    BY <1>3
  <2>2. m < Written(u) /\ m \in Nat
    BY <1>5, <2>1
  <2>3. k >= Written(t) /\ k < Reserve(t) /\ k \in Nat
    BY <1>5
  <2>4. QED BY <1>6, <2>1, <2>2, <2>3
<1>8. u # t
  BY <1>5, <1>7
<1>9. ~(t < u)
  <2>1. ASSUME t < u PROVE FALSE
    <3>1. address[t] + Span(t) <= address[u]
      BY <1>4, <1>5, <2>1, BytesApart
    <3>2. QED BY <1>5, <1>7, <3>1
  <2>2. QED BY <2>1
<1>10. source[u].type = "var"
  <2>1. ASSUME source[u].type # "var" PROVE FALSE
    <3>1. u < t /\ Span(u) >= 0
      BY <1>1, <1>5, <1>8, <1>9, <2>1
    <3>2. address[u] + Span(u) <= address[t]
      BY <1>4, <3>1, BytesApart
    <3>3. QED BY <1>5, <1>7, <2>1, <3>2
  <2>2. QED BY <2>1
<1>11. QED BY <1>3, <1>10

(* Every byte of every token is in the image as far as the location        *)
(* counter went on for it, and nothing but the rest of a variable behind   *)
(* a string, for every source whose location counter never goes back.      *)
THEOREM AssemblerImage == Spec => []ImageComplete
<1>1. AssemblerInv => ImageComplete
  <2> SUFFICES ASSUME AssemblerInv, pass = "loaded", Ascending, NEW t \in Tokens
               PROVE  /\ source[t].type # "var" =>
                           \A k \in 0..(Written(t) - 1) : memory[Byte(t, k)] = <<t, k>>
                      /\ source[t].type = "str" =>
                           \A k \in {value[t], value[t] + 1} : Byte(t, k) \in DOMAIN memory =>
                             source[memory[Byte(t, k)][1]].type = "var"
                      /\ source[t].type = "var" =>
                           \A k \in {0, 1} : k < Size(t) => memory[Byte(t, k)] = <<t, k>>
    BY DEF ImageComplete
  <2>1. ASSUME source[t].type # "var", NEW k \in 0..(Written(t) - 1)
        PROVE  memory[Byte(t, k)] = <<t, k>>
    <3>1. source[t].type \in Located
      BY <2>1, WrittenIsLocated
    <3>2. k < Span(t)
      <4>1. Written(t) \in Nat /\ Span(t) \in Int /\ Written(t) <= Span(t)
        BY <2>1, <3>1, WrittenFits
      <4>2. QED BY <2>1, <4>1
    <3>3. QED BY <2>1, <3>1, <3>2, ByteIsOwn
  <2>2. ASSUME source[t].type = "str", NEW k \in {value[t], value[t] + 1}, Byte(t, k) \in DOMAIN memory
        PROVE  source[memory[Byte(t, k)][1]].type = "var"
    <3>1. source[t].type \in Located \ {"var"}
      BY <2>2 DEF Located, Named
    <3>2. value[t] \in Nat /\ Written(t) = value[t] /\ value[t] + 2 <= Reserve(t) /\ Reserve(t) \in Nat
      BY <2>2, <3>1, WrittenFits
    <3>3. k \in Written(t)..(Reserve(t) - 1)
      BY <2>2, <3>2
    <3>4. QED BY <2>2, <3>1, <3>3, RestOfVariable
  <2>3. ASSUME source[t].type = "var", NEW k \in {0, 1}, k < Size(t)
        PROVE  memory[Byte(t, k)] = <<t, k>>
    <3>1. source[t].type \in Located /\ Written(t) = 2 /\ Span(t) = Size(t)
      BY <2>3 DEF Located, Named, Written, Span
    <3>2. k \in 0..(Written(t) - 1) /\ k < Span(t)
      BY <2>3, <3>1
    <3>3. QED BY <3>1, <3>2, ByteIsOwn
  <2>4. QED BY <2>1, <2>2, <2>3
<1>2. QED BY <1>1, InvCorrect, PTL
----------------------------------------------------------------------------
(* The debugger is broken, in a run, only by a breakpoint that the         *)
(* instruction executed last had.                                          *)
BrokenForAReason ==
  at = "continuing" /\ dbg.broken =>
    dbg.verbose /\ \E executed \in last : AtBreakpoint(executed.pc, executed.i)

EmulatorInv == EmulatorTypeOK /\ LoadedIsAssembled /\ ImageOfItsBoard /\ BrokenForAReason

(* A step of the machine keeps the types of what it changes, and which     *)
(* file is in memory.                                                      *)
MachineStepTypes ==
  /\ vm' \in [pc : Addr, i : Addr, halted : BOOLEAN] /\ mem' \in Image
  /\ mem'.board = mem.board /\ mem'.source = mem.source

LEMMA MachineStepOK ==
  ASSUME EmulatorTypeOK, MachineStep
  PROVE  MachineStepTypes
<1>1. mem \in Image /\ vm \in [pc : Addr, i : Addr, halted : BOOLEAN] /\ mem.source \in Source
  BY DEF EmulatorTypeOK, Image
<1>2. CASE vm.halted
  BY <1>1, <1>2 DEF MachineStep, MachineStepTypes
<1>3. CASE ~vm.halted
  <2>1. PICK e \in Flow[mem.source][vm.pc] :
          /\ vm' = [pc |-> e.pc, i |-> e.i, halted |-> e.halted]
          /\ mem' = IF e.expand THEN [mem EXCEPT !.words.dp = "expanded", !.words.head = "expanded"]
                                ELSE mem
    BY <1>3 DEF MachineStep, Execute
  <2>2. e \in Effect
    BY <1>1, EmulatorAssumption DEF EmulatorAssumption
  <2>3. vm' \in [pc : Addr, i : Addr, halted : BOOLEAN]
    BY <2>1, <2>2 DEF Effect
  <2>4. mem' \in Image /\ mem'.board = mem.board /\ mem'.source = mem.source
    BY <1>1, <2>1 DEF Image, Words
  <2>5. QED BY <2>3, <2>4 DEF MachineStepTypes
<1>4. QED BY <1>2, <1>3

LEMMA EmulatorInvInit ==
  ASSUME EmulatorInit
  PROVE  EmulatorInv
BY EmulatorAssumption DEF EmulatorAssumption, EmulatorInit, Fresh, EmulatorInv, EmulatorTypeOK,
   LoadedIsAssembled, ImageOfItsBoard, BrokenForAReason, Image, Words, Board, Source, ImageFile

LEMMA EmulatorInvStep ==
  ASSUME EmulatorInv, [EmulatorNext]_evars
  PROVE  EmulatorInv'
<1> USE DEF EmulatorInv
<1>0. 0 \in Addr /\ \A named \in Source : LabelAt[named] \subseteq Addr
  BY EmulatorAssumption DEF EmulatorAssumption
<1>1. CASE \E board \in Board : SetMode(board)
  BY <1>1 DEF SetMode, EmulatorTypeOK, LoadedIsAssembled, ImageOfItsBoard, BrokenForAReason
<1>2. CASE \E named \in {"core", "test"} : LoadFasmFile(named)
  <2>1. PICK named \in {"core", "test"} : LoadFasmFile(named)
    BY <1>2
  <2>2. mode \in Board /\ named \in Source /\ Fresh \in Words
    BY DEF EmulatorTypeOK, Source, Fresh, Words
  <2>3. EmulatorTypeOK'
    <3>1. mem' \in Image
      <4>1. [source |-> named, board |-> mode, words |-> Fresh] \in Image
        BY <2>2 DEF Image
      <4> QED BY <2>1, <4>1 DEF LoadFasmFile, EmulatorTypeOK
    <3>2. fasm' \in [source : Source, board : Board] /\ loaded' \in BOOLEAN
      BY <2>1, <2>2 DEF LoadFasmFile
    <3>3. at' \in {"prompt", "crashed"} /\ file' = {} /\ UNCHANGED <<mode, vm, dbg, last>>
      BY <2>1 DEF LoadFasmFile
    <3> QED BY <3>1, <3>2, <3>3 DEF EmulatorTypeOK
  <2>4. LoadedIsAssembled' /\ ImageOfItsBoard' /\ BrokenForAReason'
    BY <2>1, <2>2 DEF LoadFasmFile, LoadedIsAssembled, ImageOfItsBoard, BrokenForAReason
  <2> QED BY <2>3, <2>4
<1>3. CASE GenerateCPP
  <2>1. /\ Patched("vector", "ramstart") \in Image /\ Patched("vector", "end") \in Image
        /\ \A v : /\ Patched("vector", v).board = mem.board
                 /\ Patched("vector", v).source = mem.source
    BY DEF EmulatorTypeOK, Patched, Image, Words
  <2>2. file' \subseteq ImageFile
    BY <1>3, <2>1 DEF GenerateCPP, Write, ImageFile, EmulatorTypeOK, Image, Words
  <2>3. EmulatorTypeOK'
    BY <1>3, <2>1, <2>2 DEF GenerateCPP, EmulatorTypeOK
  <2>4. LoadedIsAssembled' /\ ImageOfItsBoard' /\ BrokenForAReason'
    BY <1>3, <2>1 DEF GenerateCPP, Write, LoadedIsAssembled, ImageOfItsBoard, BrokenForAReason
  <2> QED BY <2>3, <2>4
<1>4. CASE GenerateMemFile
  <2>1. /\ Patched("dp", "ramstart") \in Image /\ Patched("dp", "end") \in Image
        /\ \A v : /\ Patched("dp", v).board = mem.board
                 /\ Patched("dp", v).source = mem.source
    BY DEF EmulatorTypeOK, Patched, Image, Words
  <2>2. file' \subseteq ImageFile
    BY <1>4, <2>1 DEF GenerateMemFile, Write, ImageFile, EmulatorTypeOK
  <2>3. EmulatorTypeOK'
    BY <1>4, <2>1, <2>2 DEF GenerateMemFile, EmulatorTypeOK
  <2>4. LoadedIsAssembled' /\ ImageOfItsBoard' /\ BrokenForAReason'
    BY <1>4, <2>1 DEF GenerateMemFile, Write, LoadedIsAssembled, ImageOfItsBoard, BrokenForAReason, Board
  <2> QED BY <2>3, <2>4
<1>5. CASE Exit \/ Start \/ Debug \/ Leave
  <2>1. /\ vm' \in [pc : Addr, i : Addr, halted : BOOLEAN]
        /\ at' \in {"exited", "running", "debugger", "prompt"} /\ file' \subseteq file
        /\ UNCHANGED <<mode, loaded, fasm, mem, dbg, last>>
    BY <1>0, <1>5 DEF Exit, Start, Debug, Leave, EmulatorTypeOK
  <2> QED BY <2>1 DEF EmulatorTypeOK, LoadedIsAssembled, ImageOfItsBoard, BrokenForAReason
<1>6. CASE Run
  <2>1. CASE vm.halted
    BY <1>6, <2>1 DEF Run, EmulatorTypeOK, LoadedIsAssembled, ImageOfItsBoard, BrokenForAReason
  <2>2. CASE ~vm.halted
    <3>1. MachineStepTypes
      BY <1>6, <2>2, MachineStepOK DEF Run
    <3> QED BY <1>6, <2>2, <3>1 DEF Run, MachineStepTypes, EmulatorTypeOK, LoadedIsAssembled,
              ImageOfItsBoard, BrokenForAReason
  <2> QED BY <2>1, <2>2
<1>7. CASE Settings
  <2>1. LabelAt[fasm.source] \subseteq Addr
    BY <1>0 DEF EmulatorTypeOK
  <2>2. /\ dbg' \in [pc : Addr \cup {NoAddr}, i : Addr \cup {NoAddr}, verbose : BOOLEAN,
                    broken : BOOLEAN]
        /\ at = "debugger" /\ UNCHANGED <<mode, loaded, fasm, mem, file, vm, at, last>>
    BY <1>7, <2>1 DEF Settings, Command, EmulatorTypeOK
  <2> QED BY <2>2 DEF EmulatorTypeOK, LoadedIsAssembled, ImageOfItsBoard, BrokenForAReason
<1>8. CASE \E restart \in BOOLEAN : Continue(restart) \/ StepCommand(restart)
  <2>1. /\ vm' \in [pc : Addr, i : Addr, halted : BOOLEAN]
        /\ dbg' = [dbg EXCEPT !.broken = FALSE] /\ at' \in {"continuing", "stepping"}
        /\ UNCHANGED <<mode, loaded, fasm, mem, file, last>>
    BY <1>0, <1>8 DEF Continue, StepCommand, EmulatorTypeOK
  <2>2. dbg' \in [pc : Addr \cup {NoAddr}, i : Addr \cup {NoAddr}, verbose : BOOLEAN,
                 broken : BOOLEAN] /\ ~dbg'.broken
    BY <2>1 DEF EmulatorTypeOK
  <2> QED BY <2>1, <2>2 DEF EmulatorTypeOK, LoadedIsAssembled, ImageOfItsBoard, BrokenForAReason
<1>9. CASE DebugRun
  <2>1. CASE vm.halted \/ dbg.broken
    BY <1>9, <2>1 DEF DebugRun, EmulatorTypeOK, LoadedIsAssembled, ImageOfItsBoard, BrokenForAReason
  <2>2. CASE ~(vm.halted \/ dbg.broken)
    <3>1. MachineStepTypes
      BY <1>9, <2>2, MachineStepOK DEF DebugRun, DebuggedStep
    <3>2. EmulatorTypeOK' /\ LoadedIsAssembled' /\ ImageOfItsBoard'
      BY <1>9, <2>2, <3>1 DEF DebugRun, DebuggedStep, Broken, MachineStepTypes, EmulatorTypeOK,
         LoadedIsAssembled, ImageOfItsBoard
    <3>3. BrokenForAReason'
      <4>1. /\ dbg' = [dbg EXCEPT !.broken = Broken]
            /\ last' = {[pc |-> vm.pc, i |-> vm.i]} /\ ~dbg.broken
        BY <1>9, <2>2 DEF DebugRun, DebuggedStep
      <4>2. /\ dbg'.verbose = dbg.verbose /\ dbg'.pc = dbg.pc /\ dbg'.i = dbg.i
            /\ dbg'.broken = Broken
        BY <4>1 DEF EmulatorTypeOK
      <4>3. [pc |-> vm.pc, i |-> vm.i] \in last'
        BY <4>1
      <4>4. dbg'.broken => dbg'.verbose /\ (vm.i = dbg'.i \/ vm.pc = dbg'.pc)
        BY <4>1, <4>2 DEF Broken, AtBreakpoint
      <4> QED BY <4>3, <4>4 DEF BrokenForAReason, AtBreakpoint
    <3> QED BY <3>2, <3>3
  <2> QED BY <2>1, <2>2
<1>10. CASE SingleStep
  <2>1. MachineStepTypes
    BY <1>10, MachineStepOK DEF SingleStep, DebuggedStep
  <2> QED BY <1>10, <2>1 DEF SingleStep, DebuggedStep, Broken, MachineStepTypes, EmulatorTypeOK,
            LoadedIsAssembled, ImageOfItsBoard, BrokenForAReason
<1>11. CASE UNCHANGED evars
  BY <1>11 DEF evars, EmulatorTypeOK, LoadedIsAssembled, ImageOfItsBoard, BrokenForAReason,
     AtBreakpoint
<1> QED BY <1>1, <1>2, <1>3, <1>4, <1>5, <1>6, <1>7, <1>8, <1>9, <1>10, <1>11 DEF EmulatorNext

LEMMA EmulatorInvariant == EmulatorSpec => []EmulatorInv
BY EmulatorInvInit, EmulatorInvStep, PTL DEF EmulatorSpec

(* What counts as loaded is in memory, assembled for the board that was    *)
(* chosen, and the assembler's symbols are those of it.                    *)
THEOREM LoadedMatchesMemory == EmulatorSpec => []LoadedIsAssembled
BY EmulatorInvariant, PTL DEF EmulatorInv

(* An image file is named for the board its image was assembled for.       *)
THEOREM ImagesAreNamedRight == EmulatorSpec => []ImageOfItsBoard
BY EmulatorInvariant, PTL DEF EmulatorInv

LEMMA StopStep ==
  ASSUME EmulatorInv, [EmulatorNext]_evars, at = "continuing", at' = "debugger"
  PROVE  vm.halted \/ (dbg.verbose /\ \E executed \in last : AtBreakpoint(executed.pc, executed.i))
<1>1. DebugRun
  BY DEF EmulatorNext, evars, SetMode, LoadFasmFile, GenerateCPP, GenerateMemFile, Exit, Start, Run, Debug,
     Leave, Settings, Command, Continue, StepCommand, SingleStep
<1> QED BY <1>1 DEF DebugRun, EmulatorInv, BrokenForAReason

(* A run under the debugger ends at a HALT or at a breakpoint, whatever    *)
(* the program and however the breakpoints were set and cleared before.    *)
THEOREM RunsStopForAReason == EmulatorSpec => StopsForAReason
<1>1. EmulatorInv /\ [EmulatorNext]_evars =>
        [at = "continuing" /\ at' = "debugger" =>
           vm.halted \/ (dbg.verbose /\ \E executed \in last :
                           AtBreakpoint(executed.pc, executed.i))]_evars
  BY StopStep
<1> QED BY <1>1, EmulatorInvariant, PTL DEF EmulatorSpec, StopsForAReason
============================================================================
