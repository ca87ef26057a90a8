-------------------------- MODULE InnerInterpreter -------------------------
(***************************************************************************)
(* The kernel's threaded code (fasm/core.fasm): the words that compile     *)
(* control structures, the words they compile, and the inner interpreter   *)
(* COLON, *;, NEXT and RUN with its frames on the return stack.  Kernel    *)
(* words that are themselves threaded are the kernel's own thread.         *)
(*                                                                         *)
(* A cell is a pair: <<"", n>> is a number or the address of a cell of the *)
(* dictionary; <<"IF", 0>> is the code field of a kernel word and          *)
(* <<"LOOP", 5>> the fifth cell of its thread.  Addresses count cells, so  *)
(* the code's 2 is 1 here.  A definition starts at its code field.         *)
(***************************************************************************)
EXTENDS ALU, Sequences

VARIABLES
  mode, heap, entry, names,  \* %MODE, the dictionary, its last word, where names are
  ds, rs, fp, ri, wa,        \* both stacks, FP, RI, and WA between NEXT and RUN
  source, out                \* tokens not yet interpreted, numbers printed

compiling == <<mode, heap, entry, names>>
frames == <<rs, fp>>
ivars == <<compiling, ds, frames, ri, wa, source, out>>

Number(n) == <<"", n>>
W(name)   == <<name, 0>>
NoWord    == Number(0)
Hole      == <<"hole", 0>>   \* a cell that was reserved and not yet written
Outer     == <<"OUTER", 1>>  \* RI in the outer interpreter
Beyond(address, k) == <<address[1], address[2] + k>>

Here   == Number(Len(heap) + 1)
Top(k) == ds[Len(ds) - k]
Drop(n) == SubSeq(ds, 1, Len(ds) - n)
----------------------------------------------------------------------------
(* The kernel's threads.  LOOP, +LOOP and -LOOP differ in the word they    *)
(* compile; the flag that DO or ?DO left says whether there is a jump to   *)
(* resolve.                                                                *)
LoopThread(name, star) ==
  <<W("*#"), W(star), W(","), W("*IF"), <<name, 12>>,
    W("DUP"), W("DP@"), W("2+"), W("SWAP"), W("!"), W("2+"), W(","), W("*;")>>

ThreadedWords ==
  {":", ";", "UNTIL", "CASE", "DO", "?DO", "LOOP", "+LOOP", "-LOOP",
   "CA!", "SCODE", "CONSTANT", "<BUILDS", "DOES>"}

Thread(name) ==
  CASE name = ":"  -> <<W("CREATE"), W("*#"), W("COLON"), W("CA!"),
                        W("*#"), Number(1), W("MODE"), W("!"), W("*;")>>
    [] name = ";"  -> <<W("*#"), W("*;"), W(","), W("*#"), Number(0), W("MODE"), W("!"), W("*;")>>
    [] name = "UNTIL" -> <<W("*#"), W("*UNTIL"), W(","), W(","), W("*;")>>
    [] name = "CASE"  -> <<W("*#"), Number(0), W("*;")>>
    [] name = "DO"    -> <<W("*#"), W("*DO"), W(","), W("DP@"), W("0"), W("*;")>>
    [] name = "?DO"   -> <<W("*#"), W("*QDO"), W(","), W("DP@"), W("1"), W("0"), W(","), W("*;")>>
    [] name = "LOOP"  -> LoopThread("LOOP", "*LOOP")
    [] name = "+LOOP" -> LoopThread("+LOOP", "*+LOOP")
    [] name = "-LOOP" -> LoopThread("-LOOP", "*-LOOP")
    [] name = "CA!"   -> <<W("ENTRY"), W("!"), W("*;")>>
    [] name = "SCODE" -> <<W("POP"), W("CA!"), W("*;")>>
    [] name = "CONSTANT" -> <<W("CREATE"), W(","), W("SCODE"), W("(constant)")>>
    [] name = "<BUILDS"  -> <<W("*#"), Number(0), W("CONSTANT"), W("*;")>>
    [] name = "DOES>" -> <<W("POP"), W("ENTRY"), W("1+"), W("!"), W("SCODE"), W("(does)")>>

Immediate ==
  {";", "BEGIN", "UNTIL", "CASE", "OF", "ENDOF", "ESAC", "IF", "ELSE", "THEN",
   "DO", "?DO", "LOOP", "+LOOP", "-LOOP"}

(* The cell at an address.  The code field of a word written in machine    *)
(* code points to that code, which goes by the word's name.                *)
At(address) ==
  LET name == address[1]  k == address[2]
  IN  CASE name = "" -> heap[k]
        [] name # "" /\ k > 0 -> Thread(name)[k]
        [] k = 0 /\ name \in ThreadedWords -> W("COLON")
        [] k = 0 /\ name \notin ThreadedWords \cup {""} -> W(name)

(* The machine code that RUN jumps to: by a code field that names it, or   *)
(* by one that points into a thread, where CA! found it behind SCODE.      *)
Routine == LET code == At(wa) IN IF code[2] = 0 THEN code[1] ELSE At(code)[1]
----------------------------------------------------------------------------
(* Words that change the data stack only.                                  *)
Flag(condition) == Number(IF condition THEN 1 ELSE 0)

StackWords == {"DUP", "DROP", "SWAP", "0", "1", "2+", "1+", "1-", "0=", "DP@", "BEGIN",
               "ENTRY", "MODE", "@", "I", "(constant)"}

Left(word) ==
  CASE word = "DUP"  -> Append(ds, Top(0))
    [] word = "DROP" -> Drop(1)
    [] word = "SWAP" -> Drop(2) \o <<Top(0), Top(1)>>
    [] word \in {"0", "1"}   -> Append(ds, Flag(word = "1"))
    [] word \in {"1+", "2+"} -> Append(Drop(1), Beyond(Top(0), 1))
    [] word = "1-" -> Append(Drop(1), Number(Sub(Top(0)[2], 1).value))
    [] word = "0=" -> Append(Drop(1), Flag(Top(0) = Number(0)))
    [] word \in {"DP@", "BEGIN"} -> Append(ds, Here)
    [] word = "ENTRY" -> Append(ds, entry)
    [] word = "MODE"  -> Append(ds, W("%MODE"))
    [] word = "@" -> Append(Drop(1), At(Top(0)))
    [] word = "I" -> Append(ds, rs[Len(rs)])
    [] word = "(constant)" -> Append(ds, At(Beyond(wa, 1)))

StackWord ==
  /\ Routine \in StackWords
  /\ ds' = Left(Routine)
  /\ wa' = NoWord
  /\ UNCHANGED <<compiling, frames, ri, source, out>>

Dot ==
  /\ Routine = "."
  /\ out' = Append(out, Top(0)[2]) /\ ds' = Drop(1)
  /\ wa' = NoWord
  /\ UNCHANGED <<compiling, frames, ri, source>>
----------------------------------------------------------------------------
(* Words that write to the dictionary.  The address of a cell to be        *)
(* resolved later waits on the data stack.  (Bug definitions are mutants   *)
(* of the next one.)                                                       *)
Compile(word, store, left) == [heap |-> store \o word, ds |-> left]

CompileIf == Compile(<<W("*IF"), Hole>>, heap, Append(ds, Beyond(Here, 1)))

BugElseSkipsNothing ==
  Compile(<<W("*ELSE"), Hole>>, [heap EXCEPT ![Top(0)[2]] = Here],
          Append(Drop(1), Beyond(Here, 1)))

CompileElse ==
  Compile(<<W("*ELSE"), Hole>>, [heap EXCEPT ![Top(0)[2]] = Beyond(Here, 2)],
          Append(Drop(1), Beyond(Here, 1)))

CompileThen == Compile(<<>>, [heap EXCEPT ![Top(0)[2]] = Here], Drop(1))

CompileOf ==
  Compile(<<W("*OF"), Hole>>, heap, Drop(1) \o <<Beyond(Here, 1), Beyond(Top(0), 1)>>)

CompileEndof ==
  Compile(<<W("*OF_ENDOF"), Hole>>, [heap EXCEPT ![Top(1)[2]] = Beyond(Here, 2)],
          Drop(2) \o <<Beyond(Here, 1), Top(0)>>)

(* ESAC resolves as many jumps as there were clauses.                      *)
CompileEsac ==
  LET jumps == {ds[Len(ds) - k][2] : k \in 1..Top(0)[2]}
  IN  Compile(<<W("*ESAC")>>, [i \in DOMAIN heap |-> IF i \in jumps THEN Here ELSE heap[i]],
              Drop(1 + Top(0)[2]))

CompileWords == {"IF", "ELSE", "THEN", "OF", "ENDOF", "ESAC", ","}

CompileWord ==
  /\ Routine \in CompileWords
  /\ LET result == CASE Routine = "IF" -> CompileIf [] Routine = "ELSE" -> CompileElse
                     [] Routine = "THEN" -> CompileThen [] Routine = "OF" -> CompileOf
                     [] Routine = "ENDOF" -> CompileEndof [] Routine = "ESAC" -> CompileEsac
                     [] Routine = "," -> Compile(<<Top(0)>>, heap, Drop(1))
     IN  heap' = result.heap /\ ds' = result.ds
  /\ wa' = NoWord
  /\ UNCHANGED <<mode, entry, names, frames, ri, source, out>>

Store ==
  /\ Routine = "!"
  /\ IF Top(0) = W("%MODE")
       THEN mode' = Top(1)[2] /\ UNCHANGED heap
       ELSE heap' = [heap EXCEPT ![Top(0)[2]] = Top(1)] /\ UNCHANGED mode
  /\ ds' = Drop(2)
  /\ wa' = NoWord
  /\ UNCHANGED <<entry, names, frames, ri, source, out>>

(* CREATE takes the next token as a name.  Header and link are left out.   *)
Create ==
  /\ Routine = "CREATE"
  /\ names' = [n \in DOMAIN names \cup {Head(source)[1]} |->
                 IF n = Head(source)[1] THEN Here ELSE names[n]]
  /\ entry' = Here
  /\ heap' = Append(heap, Beyond(Here, 1))
  /\ source' = Tail(source)
  /\ wa' = NoWord
  /\ UNCHANGED <<mode, ds, frames, ri, out>>
----------------------------------------------------------------------------
(* Words that move RI: past the cell behind them, or to where it says.     *)
Pass == Beyond(ri, 1)
Go   == At(ri)

Literal   == Routine = "*#" /\ ri' = Pass /\ ds' = Append(ds, At(ri))
StarUntil == Routine = "*UNTIL" /\ ri' = (IF Top(0) # Number(0) THEN Pass ELSE Go) /\ ds' = Drop(1)
StarIf    == Routine = "*IF" /\ ri' = (IF Top(0) # Number(0) THEN Pass ELSE Go) /\ ds' = Drop(1)
StarElse  == Routine = "*ELSE" /\ ri' = Go /\ UNCHANGED ds

StarOf ==
  \/ Routine = "*OF" /\ Top(0) = Top(1) /\ ri' = Pass /\ ds' = Drop(2)
  \/ Routine = "*OF" /\ Top(0) # Top(1) /\ ri' = Go /\ ds' = Drop(1)
StarEndof == Routine = "*OF_ENDOF" /\ ri' = Go /\ UNCHANGED ds
StarEsac  == Routine = "*ESAC" /\ UNCHANGED <<ri, ds>>

Jump ==
  /\ Literal \/ StarUntil \/ StarIf \/ StarElse \/ StarOf \/ StarEndof \/ StarEsac
  /\ wa' = NoWord
  /\ UNCHANGED <<compiling, frames, source, out>>

(* Loops keep limit and index on the return stack.                         *)
StarDo ==
  /\ Routine \in {"*DO", "*QDO"}
  /\ LET start == Top(0)  limit == Top(1)
         skip == Routine = "*QDO" /\ (limit = start \/ Cmp(limit[2], start[2]).flags.c)
     IN  /\ rs' = IF skip THEN rs ELSE rs \o <<limit, start>>
         /\ ri' = CASE Routine = "*DO" -> ri [] skip -> At(ri)
                    [] Routine = "*QDO" /\ ~skip -> Beyond(ri, 1)
  /\ ds' = Drop(2)
  /\ wa' = NoWord
  /\ UNCHANGED <<compiling, fp, source, out>>

LoopWords == {"*LOOP", "*+LOOP", "*-LOOP"}

(* *-LOOP goes on at the limit and compares signed.                        *)
BugUnsigned(index, limit) == ~Cmp(index, limit).flags.c

GoesOnDown(index, limit) ==
  \/ index = limit
  \/ HasBit(index, Width - 1) # HasBit(limit, Width - 1) /\ ~HasBit(index, Width - 1)
  \/ HasBit(index, Width - 1) = HasBit(limit, Width - 1) /\ ~Cmp(index, limit).flags.c

StarLoop ==
  /\ Routine \in LoopWords
  /\ LET limit == rs[Len(rs) - 1][2]
         was   == rs[Len(rs)][2]
         index == CASE Routine = "*LOOP"  -> Add(was, 1).value
                    [] Routine = "*+LOOP" -> Add(was, Top(0)[2]).value
                    [] Routine = "*-LOOP" -> Sub(was, Top(0)[2]).value
         more  == IF Routine = "*-LOOP" THEN GoesOnDown(index, limit) ELSE Cmp(index, limit).flags.c
         outside == SubSeq(rs, 1, Len(rs) - 2)
     IN  IF more THEN rs' = outside \o <<Number(limit), Number(index)>> /\ ri' = At(ri)
                 ELSE rs' = outside /\ ri' = Beyond(ri, 1)
  /\ ds' = IF Routine = "*LOOP" THEN ds ELSE Drop(1)
  /\ wa' = NoWord
  /\ UNCHANGED <<compiling, fp, source, out>>

(* DONE takes the limit to be a word further down than it is.              *)
Done ==
  /\ Routine = "DONE"
  /\ rs' = [rs EXCEPT ![Len(rs) - 1] = rs[Len(rs) - 2]]
  /\ wa' = NoWord
  /\ UNCHANGED <<compiling, ds, fp, ri, source, out>>
----------------------------------------------------------------------------
(* Frames.  COLON saves FP and RI and points FP behind them; *; and POP    *)
(* throw away whatever lies above FP, loops included, and restore them.    *)
Colon ==
  /\ Routine \in {"COLON", "(does)"}
  /\ rs' = rs \o <<Number(fp), ri>>
  /\ fp' = Len(rs) + 2
  /\ IF Routine = "COLON"
       THEN ri' = Beyond(wa, 1) /\ UNCHANGED ds
       ELSE ri' = At(Beyond(wa, 1)) /\ ds' = Append(ds, Beyond(wa, 2))
  /\ wa' = NoWord
  /\ UNCHANGED <<compiling, source, out>>

BugFramePointerKept ==
  /\ Routine = "*;"
  /\ ri' = rs[fp]
  /\ rs' = SubSeq(rs, 1, fp - 2)
  /\ wa' = NoWord
  /\ UNCHANGED <<compiling, ds, fp, source, out>>

Semi ==
  /\ Routine = "*;"
  /\ ri' = rs[fp] /\ fp' = rs[fp - 1][2]
  /\ rs' = SubSeq(rs, 1, fp - 2)
  /\ wa' = NoWord
  /\ UNCHANGED <<compiling, ds, source, out>>

(* POP leaves the frame but stays in the thread; the return address goes   *)
(* to the data stack.                                                      *)
PopFrame ==
  /\ Routine = "POP"
  /\ ds' = Append(ds, rs[fp]) /\ fp' = rs[fp - 1][2]
  /\ rs' = SubSeq(rs, 1, fp - 2)
  /\ wa' = NoWord
  /\ UNCHANGED <<compiling, ri, source, out>>

NextWord ==
  /\ wa = NoWord /\ ri # Outer
  /\ wa' = At(ri) /\ ri' = Beyond(ri, 1)
  /\ UNCHANGED <<compiling, ds, frames, source, out>>

(* The outer interpreter, for words and numbers it knows: numbers go to    *)
(* the stack or into the definition, words are executed or compiled.       *)
Address(name) == IF name \in DOMAIN names THEN names[name] ELSE W(name)

Interpret ==
  /\ wa = NoWord /\ ri = Outer /\ source # <<>>
  /\ source' = Tail(source)
  /\ LET token == Head(source)
         number == token[1] = ""
     IN  \/ number /\ mode = 0 /\ ds' = Append(ds, token) /\ UNCHANGED <<heap, wa>>
         \/ number /\ mode = 1 /\ heap' = heap \o <<W("*#"), token>> /\ UNCHANGED <<ds, wa>>
         \/ /\ ~number /\ mode = 1 /\ token[1] \notin Immediate
            /\ heap' = Append(heap, Address(token[1])) /\ UNCHANGED <<ds, wa>>
         \/ /\ ~number /\ (mode = 1 <=> token[1] \in Immediate)
            /\ wa' = Address(token[1]) /\ UNCHANGED <<heap, ds>>
  /\ UNCHANGED <<mode, entry, names, frames, ri, out>>

Run ==
  /\ wa # NoWord
  /\ StackWord \/ Dot \/ CompileWord \/ Store \/ Create \/ Jump \/ StarDo \/ StarLoop
     \/ Done \/ Colon \/ Semi \/ PopFrame

Next == Interpret \/ NextWord \/ Run

Init ==
  /\ mode = 0 /\ heap = <<>> /\ entry = NoWord /\ names = [n \in {} |-> NoWord]
  /\ ds = <<>> /\ rs = <<>> /\ fp = 0 /\ ri = Outer /\ wa = NoWord
  /\ out = <<>>

Idle == wa = NoWord /\ ri = Outer
Halted == Idle /\ source = <<>>
----------------------------------------------------------------------------
(* FP starts a chain of frames that ends at the bottom of the return       *)
(* stack; each saved RI follows the word whose frame it is, and outside    *)
(* every word the return stack is empty.                                   *)
Entered(address) ==
  \/ address = Outer
  \/ LET word == At(Beyond(address, -1))
         code == At(word)
     IN  code = W("COLON") \/ (code[2] # 0 /\ At(code) = W("(does)"))

FramesNested ==
  LET chained[k \in 0..Len(rs)] ==
        \/ k = 0
        \/ k >= 2 /\ rs[k - 1][2] < k /\ Entered(rs[k]) /\ chained[rs[k - 1][2]]
  IN  fp <= Len(rs) /\ chained[fp] /\ (ri = Outer => rs = <<>>)

(* After DONE the loop's index is its limit, so that LOOP leaves it: "Make  *)
(* the loop index equal to the end value on the return stack"              *)
(* (core.fasm:3564).                                                       *)
DoneEndsLoop ==
  [][wa # NoWord /\ Routine = "DONE" =>
        rs'[Len(rs)] = rs'[Len(rs) - 1]]_ivars
============================================================================
