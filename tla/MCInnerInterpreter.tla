------------------------ MODULE MCInnerInterpreter ------------------------
(***************************************************************************)
(* Programs for the kernel: words whose bodies are control structures, one *)
(* in another, and words made by defining words.  Each comes with what it  *)
(* prints according to a reference that knows nothing of threads.          *)
(***************************************************************************)
EXTENDS InnerInterpreter, SequencesExt

VARIABLES program, arg   \* what is interpreted, and the number it is given

mcVars == <<ivars, program, arg>>

MaxArg == 2   \* every clause of IF and CASE is reached, and the one of neither

N(n) == Number(n)
Item(op, n, body, alt) == [op |-> op, n |-> n, body |-> body, alt |-> alt]
Shown  == <<Item("print", 0, <<>>, <<>>)>>
Lit(n) == <<Item("lit", n, <<>>, <<>>)>>
Index  == <<Item("index", 0, <<>>, <<>>)>>
----------------------------------------------------------------------------
(* The text of an item.  It leaves the stack as it found it, and uses the  *)
(* number on top of it.                                                    *)
RECURSIVE Text(_)
TextOf(item) ==
  LET body == Text(item.body)  alt == Text(item.alt)
  IN  CASE item.op = "print" -> <<W("DUP"), W(".")>>
        [] item.op = "lit"   -> <<N(item.n), W(".")>>
        [] item.op = "index" -> <<W("I"), W(".")>>
        [] item.op = "if"    -> <<W("DUP"), W("IF")>> \o body \o <<W("THEN")>>
        [] item.op = "ifelse" ->
             <<W("DUP"), W("IF")>> \o body \o <<W("ELSE")>> \o alt \o <<W("THEN")>>
        [] item.op = "until" ->
             <<N(item.n), W("BEGIN")>> \o body
             \o <<W("1-"), W("DUP"), W("0="), W("UNTIL"), W("DROP")>>
        [] item.op = "do"  -> <<N(item.n), N(0), W("DO")>> \o body \o <<W("LOOP")>>
        [] item.op = "?do" -> <<W("DUP"), N(0), W("?DO")>> \o body \o <<W("LOOP")>>
        [] item.op = "do+" -> <<N(item.n), N(0), W("DO")>> \o body \o <<N(2), W("+LOOP")>>
        [] item.op = "do-" -> <<N(0), N(item.n), W("DO")>> \o body \o <<N(1), W("-LOOP")>>
        [] item.op = "done" -> <<N(item.n), N(0), W("DO")>> \o body \o <<W("DONE"), W("LOOP")>>
        [] item.op = "case" ->
             <<W("DUP"), W("CASE"), N(0), W("OF")>> \o body \o <<W("ENDOF"), N(1), W("OF")>>
             \o alt \o <<W("ENDOF"), W("DROP"), W("ESAC")>>

Text(items) == IF items = <<>> THEN <<>> ELSE TextOf(Head(items)) \o Text(Tail(items))

(* What items print with top on the stack, in a loop that is at index: a   *)
(* loop runs from its first index upwards and stops before its limit, -LOOP *)
(* runs down to its limit, and only ?DO looks at the limit first.          *)
RECURSIVE Prints(_, _, _)
PrintsOf(item, top, index) ==
  LET loop(indexes) == FlattenSeq([i \in DOMAIN indexes |-> Prints(item.body, top, indexes[i])])
      upTo(n) == [i \in 1..n |-> i - 1]
  IN  CASE item.op = "print" -> <<top>>
        [] item.op = "lit"   -> <<item.n>>
        [] item.op = "index" -> <<index>>
        [] item.op = "if" /\ top = 0 -> <<>>
        [] item.op \in {"if", "ifelse"} /\ top # 0 -> Prints(item.body, top, index)
        [] item.op = "ifelse" /\ top = 0 -> Prints(item.alt, top, index)
        [] item.op = "until" ->
             FlattenSeq([i \in 1..item.n |-> Prints(item.body, item.n + 1 - i, index)])
        [] item.op = "do"  -> loop(upTo(IF item.n = 0 THEN 1 ELSE item.n))
        [] item.op = "?do" -> loop(upTo(top))
        [] item.op = "done" -> loop(<<0>>)
        [] item.op = "do+" -> loop([i \in 1..((item.n + 1) \div 2) |-> 2 * (i - 1)])
        [] item.op = "do-" -> loop(Reverse(upTo(item.n + 1)))
        [] item.op = "case" /\ top = 0 -> Prints(item.body, top, index)
        [] item.op = "case" /\ top = 1 -> Prints(item.alt, top, index)
        [] item.op = "case" /\ top > 1 -> <<>>

Prints(items, top, index) ==
  IF items = <<>> THEN <<>>
  ELSE PrintsOf(Head(items), top, index) \o Prints(Tail(items), top, index)
----------------------------------------------------------------------------
Loops(body) ==
  {<<Item("do", 3, body, <<>>)>>, <<Item("do", 0, body, <<>>)>>, <<Item("?do", 0, body, <<>>)>>,
   <<Item("do+", 5, body, <<>>)>>, <<Item("do-", 3, body, <<>>)>>}

Structures(body, alt) ==
  {<<Item("if", 0, body, <<>>)>>, <<Item("ifelse", 0, body, alt)>>,
   <<Item("until", 2, body, <<>>)>>, <<Item("case", 0, body, alt)>>}

Simple == Structures(Shown, Lit(7)) \cup Loops(Shown \o Index) \cup Loops(<<>>)
Nested == UNION {Structures(s, Lit(7)) \cup Structures(Lit(7), s) \cup Loops(s \o Index) : s \in Simple}

(* DONE ends the loop it is in if the index of the loop around is 0 or 1.   *)
EndedLoop == <<Item("do", 2, <<Item("done", 5, Shown \o Index, <<>>)>>, <<>>)>>

(* f has the structure, g calls it twice; numbers are printed between.     *)
Calls(items) ==
  [text |-> <<W(":"), W("f")>> \o Text(items) \o <<W(";")>>
            \o <<W(":"), W("g"), W("f")>> \o Text(Lit(6)) \o <<W("f"), W(";")>>
            \o <<W("g"), W(".")>>,
   items |-> items, prints |-> <<>>]

(* CONSTANT and DOES>, from the terminal and in a word of the program's.   *)
Defining ==
  {[text |-> <<N(5), W("CONSTANT"), W("five"), W(":"), W("g"), W("five"), W("."), W(";"),
               W("g"), W("five"), W("."), W("."), W(":"), W("make"), W("CONSTANT"), W(";"),
               N(3), W("make"), W("three"), W("three"), W(".")>>,
    items |-> <<>>, prints |-> <<5, 5, arg, 3>>],
   [text |-> <<W(":"), W("box"), W("<BUILDS"), W(","), W("DOES>"), W("@"), W(";"),
               N(7), W("box"), W("x"), N(4), W("box"), W("y"),
               W(":"), W("g"), W("x"), W("."), W("y"), W("."), W(";"),
               W("g"), W("x"), W("."), W(".")>>,
    items |-> <<>>, prints |-> <<7, 4, 7, arg>>]}

Expected ==
  IF program.items = <<>> THEN program.prints
  ELSE LET f == Prints(program.items, arg, 0) IN f \o <<6>> \o f \o <<arg>>

MCInit ==
  /\ Init
  /\ arg \in 0..MaxArg
  /\ program \in {Calls(s) : s \in Simple \cup Nested \cup {EndedLoop}} \cup Defining
  /\ source = <<N(arg)>> \o program.text

MCNext == Next /\ UNCHANGED <<program, arg>>
MCSpec == MCInit /\ [][MCNext]_mcVars /\ WF_mcVars(MCNext)
----------------------------------------------------------------------------
(* A program prints what its text says, whatever structures are nested in  *)
(* whatever others and however often words call words, and leaves nothing  *)
(* on the stacks: the compiling words resolve their own jumps and no one   *)
(* else's (core.fasm:3112-3557), a loop's limit and index are not mistaken *)
(* for a frame, and a word made by DOES> finds its own cell.               *)
RunsAsWritten == Halted => out = Expected /\ ds = <<>>

(* The CPU does not stay in the program: the inner interpreter always has  *)
(* a next word, and every loop ends.                                       *)
Finishes == <>Halted
============================================================================
