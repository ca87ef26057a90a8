-------------------------- MODULE OuterInterpreter --------------------------
(***************************************************************************)
(* The text interpreter of the kernel (fasm/core.fasm): PROCESS-TOKENS     *)
(* looks each token up, ?EXECUTE executes, compiles or refuses it, and the *)
(* words that build the dictionary move its pointers.  One vocabulary,     *)
(* CURRENT and CONTEXT at once.                                            *)
(*                                                                         *)
(* The dictionary's memory is a row of cells: headers, and the code        *)
(* between them.  Address 1 holds the kernel's newest word, FENCE; 0       *)
(* stands for all the others.  Free cells hold whatever TOKEN left there.  *)
(***************************************************************************)
EXTENDS Naturals, Sequences, FiniteSets

CONSTANTS
  Name,        \* names that words are given
  MaxCells     \* where memory ends

ASSUME OuterAssumption == MaxCells \in Nat /\ MaxCells >= 2

VARIABLES
  mem, dp, fence, mode,
  head,    \* CURRENT @ @, what ENTRY gives
  saved,   \* what EXPAND saved, and whether nothing of it was freed since
  astray   \* a cold start found words saved that had been freed

ovars == <<mem, dp, head, fence, mode, saved, astray>>

Kernel == 0
NotFound == MaxCells + 1

Header(name, flags, link) == [kind |-> "header", name |-> name, flags |-> flags, ref |-> link]
Code(name, address) == [kind |-> "code", name |-> name, flags |-> {}, ref |-> address]
Other == Code("", Kernel)   \* a kernel word, a number, or text that TOKEN left at DP
IsHeader(cell) == cell.kind = "header"

KernelWords ==
  {":", ";", "[", "]", "[']", "FORGET", "FENCE", "IMMEDIATE", "RUNTIME", "EXPAND"}
KernelFlags(word) == IF word \in {";", "[", "[']"} THEN {"immediate"} ELSE {}
----------------------------------------------------------------------------
(* SEARCH follows the links from head, to a header of that name or to the  *)
(* end, behind which come the kernel's words.                              *)
Headers == {a \in 1..MaxCells : IsHeader(mem[a])}
IsWord(a) == a # Kernel /\ IsHeader(mem[a])

Search(token) ==
  LET from[a \in 0..MaxCells] ==
        IF ~IsWord(a) \/ mem[a].name = token \/ mem[a].ref >= a THEN a ELSE from[mem[a].ref]
      stop == from[head]
  IN  CASE stop \in Headers /\ mem[stop].name = token -> stop
        [] stop = Kernel /\ token \in KernelWords \ {"FENCE"} -> Kernel
        [] OTHER -> NotFound

(* ?EXECUTE: the flags of the word at an address and the mode decide.      *)
FlagsOf(token, at) == IF at = Kernel THEN KernelFlags(token) ELSE mem[at].flags

Refused(token, at) ==
  \/ mode = 0 /\ FlagsOf(token, at) = {"immediate"}
  \/ mode = 1 /\ FlagsOf(token, at) = {"runtime"}
Compiled(token, at) == mode = 1 /\ FlagsOf(token, at) = {}

(* Every step reads a token, which TOKEN puts at DP, over what is free.    *)
Room(n) == dp + n <= MaxCells
Allot(cells) ==
  /\ mem' = [a \in 1..MaxCells |->
               IF a < dp THEN mem[a] ELSE IF a < dp + Len(cells) THEN cells[a - dp + 1] ELSE Other]
  /\ dp' = dp + Len(cells)

FreeFrom(address) ==
  /\ dp' = address
  /\ saved' = [saved EXCEPT !.kept = @ /\ saved.dp <= address]
  /\ mem' = [a \in 1..MaxCells |-> IF a < address THEN mem[a] ELSE Other]

Restart == mode' = 0

(* PATCH undoes the newest word if the interpreter is compiling, and       *)
(* starts over.  (Its jump over the clean-up has the target twice; the     *)
(* second one is run as a word and happens to do no more than *STACK.)     *)
Patch ==
  /\ IF mode = 1
       THEN head # Kernel /\ FreeFrom(head) /\ head' = mem[head].ref
       ELSE Allot(<<>>) /\ UNCHANGED <<head, saved>>
  /\ Restart
  /\ UNCHANGED fence

Reference(token, at) == IF at = Kernel THEN Other ELSE Code(token, at)

(* Bug definitions are mutants of the next one.                            *)
BugCompilesNewest(token, at) ==
  /\ Room(1)
  /\ Allot(<<IF token \in Name THEN Code(token, head) ELSE Other>>)
  /\ UNCHANGED <<head, fence, mode, saved>>

CompileToken(token, at) ==
  /\ Room(1)
  /\ Allot(<<Reference(token, at)>>)
  /\ UNCHANGED <<head, fence, mode, saved>>

(* A number is left on the stack, or compiled behind *#.                   *)
Number ==
  /\ mode = 1 /\ Room(2)
  /\ Allot(<<Other, Other>>)
  /\ UNCHANGED <<head, fence, mode, saved>>

(* What is neither a word nor a number ends the line, and no more.         *)
UnknownToken ==
  /\ Room(0)
  /\ Allot(<<>>)
  /\ UNCHANGED <<head, fence, mode, saved>>
----------------------------------------------------------------------------
(* CREATE links the new word to the newest one.                            *)
Colon(name) ==
  /\ Room(1)
  /\ Allot(<<Header(name, {}, head)>>)
  /\ head' = dp /\ mode' = 1
  /\ UNCHANGED <<fence, saved>>

SemiColon ==
  /\ Room(1)
  /\ Allot(<<Code("*;", Kernel)>>)
  /\ mode' = 0
  /\ UNCHANGED <<head, fence, saved>>

Bracket(token) ==
  /\ Room(0)
  /\ mode' = (IF token = "]" THEN 1 ELSE 0)
  /\ Allot(<<>>)
  /\ UNCHANGED <<head, fence, saved>>

(* IMMEDIATE and RUNTIME set bits in the newest header.                    *)
Flag(token) ==
  LET flag == CASE token = "IMMEDIATE" -> "immediate" [] token = "RUNTIME" -> "runtime"
  IN  /\ Room(0) /\ head # Kernel
      /\ mem' = [mem EXCEPT ![head].flags = @ \cup {flag}]
      /\ UNCHANGED <<dp, head, fence, mode, saved>>

FenceWord ==
  /\ Room(0)
  /\ fence' = head
  /\ Allot(<<>>)
  /\ UNCHANGED <<head, mode, saved>>

(* FORGET frees the word and what is above it, and unlinks it: all newer   *)
(* words of the vocabulary lie above.                                      *)
BugForgetsFence(name) ==
  /\ Room(0)
  /\ \E at \in {Search(name)} \ {NotFound} :
       IF at >= fence /\ at # Kernel
         THEN FreeFrom(at) /\ head' = mem[at].ref
         ELSE Allot(<<>>) /\ UNCHANGED <<head, saved>>
  /\ UNCHANGED <<fence, mode>>

Forget(name) ==
  /\ Room(0)
  /\ \E at \in {Search(name)} \ {NotFound} :
       IF at > fence
         THEN FreeFrom(at) /\ head' = mem[at].ref
         ELSE Allot(<<>>) /\ UNCHANGED <<head, saved>>
  /\ UNCHANGED <<fence, mode>>

(* A name that FORGET or ['] does not find restarts the interpreter; ['] *)
(* has compiled *# before it looks.                                        *)
ForgetMissing(name) ==
  /\ Room(0) /\ Search(name) = NotFound
  /\ Restart
  /\ Allot(<<>>)
  /\ UNCHANGED <<head, fence, saved>>

BracketTick(name) ==
  /\ Room(2)
  /\ \E at \in {Search(name)} :
       IF at # NotFound THEN Allot(<<Other, Reference(name, at)>>) /\ UNCHANGED mode
                        ELSE Allot(<<Other>>) /\ Restart
  /\ UNCHANGED <<head, fence, saved>>

(* A word of the program's does nothing to the dictionary here; it may     *)
(* empty the return stack, upon which *STACK restarts.                     *)
ExecuteWord ==
  /\ Room(0)
  /\ Allot(<<>>)
  /\ UNCHANGED mode \/ Restart
  /\ UNCHANGED <<head, fence, saved>>

(* EXPAND saves the newest word and DP in words that COLD starts from, and *)
(* makes the newest word the fence of the next start.                      *)
Expand ==
  /\ Room(0)
  /\ saved' = [head |-> head, dp |-> dp, kept |-> TRUE]
  /\ Allot(<<>>)
  /\ UNCHANGED <<head, fence, mode>>

(* COLD, after HALT and a start, goes back to what EXPAND saved, whatever  *)
(* was freed since: FORGET goes by %FENCE, which EXPAND does not move.  If *)
(* saved words were freed then DP may go up and head may lead into text,   *)
(* which SEARCH takes for words: the model goes no further.                *)
BugColdKeepsDP ==
  /\ head' = saved.head /\ fence' = saved.head
  /\ Restart
  /\ astray' = ~saved.kept
  /\ UNCHANGED <<mem, dp, saved>>

ColdStart ==
  /\ FreeFrom(saved.dp) /\ head' = saved.head /\ fence' = saved.head
  /\ Restart
  /\ astray' = ~saved.kept

Execute(token) ==
  \/ token \in Name /\ ExecuteWord
  \/ token \in {"[", "]"} /\ Bracket(token)
  \/ token \in {"IMMEDIATE", "RUNTIME"} /\ Flag(token)
  \/ token = ";" /\ SemiColon
  \/ token = "FENCE" /\ FenceWord
  \/ token = "EXPAND" /\ Expand
  \/ \E name \in Name :
       \/ token = ":" /\ Colon(name)
       \/ token = "FORGET" /\ (Forget(name) \/ ForgetMissing(name))
       \/ token = "[']" /\ BracketTick(name)

Process(token, at) ==
  \/ at = NotFound /\ UnknownToken
  \/ /\ at # NotFound
     /\ IF Refused(token, at) THEN Room(0) /\ Patch
        ELSE IF Compiled(token, at) THEN CompileToken(token, at) ELSE Execute(token)

ReadToken ==
  \/ \E token \in KernelWords \cup Name : \E at \in {Search(token)} : Process(token, at)
  \/ Number

Next == ~astray /\ ((ReadToken /\ UNCHANGED astray) \/ ColdStart)

Init ==
  /\ mem = [a \in 1..MaxCells |-> IF a = 1 THEN Header("FENCE", {}, Kernel) ELSE Other]
  /\ dp = 2 /\ head = 1 /\ fence = 1 /\ mode = 0
  /\ saved = [head |-> 1, dp |-> 2, kept |-> TRUE]
  /\ astray = FALSE

OuterSpec == Init /\ [][Next]_ovars
----------------------------------------------------------------------------
NewestBelow(a, top) ==
  /\ a = Kernel \/ a \in Headers
  /\ a < top /\ \A b \in Headers : b < top => b <= a

Linked ==
  /\ dp <= MaxCells /\ NewestBelow(head, dp)
  /\ \A a \in Headers : a < dp /\ NewestBelow(mem[a].ref, a)

LeadHome ==
  \A a \in 1..(dp - 1) :
    ~IsHeader(mem[a]) /\ mem[a].ref # Kernel =>
      mem[a].ref < a /\ mem[a].ref \in Headers /\ mem[mem[a].ref].name = mem[a].name

(* Until a cold start goes back to words of which FORGET or a clean-up has *)
(* freed one, which nothing prevents (core.fasm 634, 4299), the words in   *)
(* memory are a stack: every header lies below the dictionary pointer, the *)
(* newest one is head, and each links to the next older one, the last to   *)
(* the kernel.  So SEARCH ends, misses no word, and nothing that is        *)
(* written overwrites a word in use, after clean-ups and after other cold  *)
(* starts too (core.fasm 2749, 3672, 4198).  A word belongs to the stack   *)
(* whether its definition came to its end or not.  PATCH is said to remove *)
(* half-compiled words (core.fasm 3671) but leaves one in which [ has set  *)
(* the mode to 0, and one that ['] breaks off by an unknown name, which    *)
(* restarts without PATCH.                                                 *)
LinkedIsAllotted == astray \/ Linked

(* Until then every reference compiled into memory in use leads to the     *)
(* word that the token named when it was compiled, whatever was forgotten, *)
(* patched or redefined since: CompileToken stores an address and nothing  *)
(* relocates.                                                              *)
ReferencesStay == astray \/ LeadHome

(* The dictionary behaves as a stack of words, and a cold start comes back *)
(* to the words that were saved exactly if none of them was removed.       *)
Words ==
  LET from[a \in 0..MaxCells] ==
        IF ~IsWord(a) \/ mem[a].ref >= a THEN <<>>
        ELSE Append(from[mem[a].ref], [name |-> mem[a].name, flags |-> mem[a].flags])
  IN  from[head]

UpTo(a) == Cardinality({b \in Headers : b <= a})

Dict == INSTANCE Dictionary WITH
  Entry <- [name : Name \cup {"FENCE"}, flags : SUBSET {"immediate", "runtime"}],
  words <- Words,
  fenced <- UpTo(fence),
  saved <- IF saved.kept THEN {UpTo(saved.head)} ELSE {},
  lost <- astray

ImplementsDictionary == Dict!Spec
============================================================================
