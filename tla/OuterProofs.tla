---------------------------- MODULE OuterProofs ----------------------------
(***************************************************************************)
(* Proofs about the text interpreter, for every set of names and every     *)
(* size of memory: what holds of memory in every state, and that the       *)
(* interpreter treats its dictionary as a stack of words.  How SEARCH      *)
(* finds a word plays no part: whatever it comes back with is a header of  *)
(* that name, a word of the kernel or nothing.                             *)
(***************************************************************************)
EXTENDS OuterInterpreter, SequenceTheorems, LeastNumber

Flags == SUBSET {"immediate", "runtime"}
HeaderCell ==
  [kind : {"header"}, name : Name \cup {"FENCE"}, flags : Flags, ref : 0..MaxCells]
CodeCell ==
  [kind : {"code"}, name : Name \cup KernelWords \cup {"", "*;"}, flags : Flags, ref : 0..MaxCells]
Cell == HeaderCell \cup CodeCell

OuterTypeOK ==
  /\ mem \in [1..MaxCells -> Cell] /\ dp \in 1..MaxCells
  /\ head \in 0..MaxCells
  /\ saved \in [head : 0..MaxCells, dp : 0..MaxCells, kept : BOOLEAN]

(* What a cold start goes back to is a state that this one has grown from. *)
SavedOK ==
  saved.kept => saved.dp \in 1..dp /\ NewestBelow(saved.head, saved.dp)

OuterInv == OuterTypeOK /\ Linked /\ LeadHome /\ SavedOK
----------------------------------------------------------------------------
(* The three ways in which a step changes memory: code is appended, a      *)
(* header is appended, or memory is cut off at an address.                 *)
Noted ==   \* FENCE and EXPAND note what the newest word is
  \/ fence' \in {fence, head} /\ saved' = saved
  \/ fence' = fence /\ saved' = [head |-> head, dp |-> dp, kept |-> TRUE]

CodeAppended ==
  /\ mem' \in [1..MaxCells -> Cell] /\ dp' \in 1..MaxCells /\ dp <= dp'
  /\ \A a \in 1..MaxCells : a < dp => mem'[a] = mem[a]
  /\ \A a \in 1..MaxCells : a >= dp => ~IsHeader(mem'[a])
  /\ \A a \in 1..MaxCells : dp <= a /\ a < dp' /\ mem'[a].ref # Kernel =>
       mem'[a].ref \in Headers /\ mem[mem'[a].ref].name = mem'[a].name
  /\ head' = head /\ Noted

HeaderAppended ==
  /\ mem' \in [1..MaxCells -> Cell] /\ dp' = dp + 1 /\ dp' \in 1..MaxCells
  /\ \A a \in 1..MaxCells : a < dp => mem'[a] = mem[a]
  /\ \A a \in 1..MaxCells : a > dp => ~IsHeader(mem'[a])
  /\ IsHeader(mem'[dp]) /\ mem'[dp].ref = head
  /\ head' = dp /\ fence' = fence /\ saved' = saved

CutOff ==
  /\ dp' \in 1..dp /\ NewestBelow(head', dp')
  /\ mem' = [a \in 1..MaxCells |-> IF a < dp' THEN mem[a] ELSE Other]
  /\ saved' = [saved EXCEPT !.kept = @ /\ saved.dp <= dp']

(* Memory is cut off at a word by PATCH and FORGET.  Else a step sets a    *)
(* flag of the newest word or is a cold start.                             *)
WordCut == CutOff /\ dp' \in Headers /\ fence' = fence /\ (dp' = head \/ fence < dp')

Flagged == \E token \in {"IMMEDIATE", "RUNTIME"} : Flag(token)

KeptStart == ColdStart /\ saved.kept
LostStart == ColdStart /\ ~saved.kept

StepKind == CodeAppended \/ HeaderAppended \/ WordCut \/ Flagged \/ KeptStart

(* The numbers of a state that satisfies the invariant.                    *)
Sizes == dp \in 1..MaxCells /\ head \in 0..MaxCells /\ MaxCells \in Nat

LEMMA Below ==
  ASSUME NEW m \in Nat, NEW d \in 1..m
  PROVE  \A a \in 1..(d - 1) : a \in 1..m /\ a < d
OBVIOUS

LEMMA Addresses ==
  ASSUME NEW m \in Nat
  PROVE  0 \in 0..m /\ 1..m \subseteq 0..m
OBVIOUS

LEMMA SizesOK ==
  ASSUME OuterInv
  PROVE  Sizes
BY OuterAssumption DEF OuterAssumption, OuterInv, OuterTypeOK, Sizes

(* Where the headers are, without the cells.                               *)
HeadersAllotted == Headers \subseteq 1..MaxCells /\ \A a \in Headers : a < dp

LEMMA HeadersAllottedOK ==
  ASSUME OuterInv
  PROVE  HeadersAllotted
BY DEF OuterInv, Linked, HeadersAllotted, Headers

(* What each kind of step leaves of the headers.                           *)
LEMMA CodeHeaders ==
  ASSUME OuterInv, CodeAppended
  PROVE  Headers' = Headers /\ \A a \in Headers : mem'[a] = mem[a]
<1>1. Sizes /\ HeadersAllotted
  BY SizesOK, HeadersAllottedOK
<1>2. \A a \in Headers : mem'[a] = mem[a]
  BY <1>1 DEF CodeAppended, HeadersAllotted
<1>3. Headers' = Headers
  <2>1. ASSUME NEW a \in 1..MaxCells
        PROVE  IsHeader(mem'[a]) <=> IsHeader(mem[a])
    <3>1. CASE a < dp
      BY <3>1 DEF CodeAppended
    <3>2. CASE ~(a < dp)
      <4>1. a >= dp
        BY <1>1, <3>2 DEF Sizes
      <4>2. ~IsHeader(mem'[a])
        BY <4>1 DEF CodeAppended
      <4>3. a \notin Headers
        BY <1>1, <3>2 DEF HeadersAllotted
      <4> QED BY <4>2, <4>3 DEF Headers
    <3> QED BY <3>1, <3>2
  <2> QED BY <2>1 DEF Headers
<1> QED BY <1>2, <1>3

LEMMA NewHeader ==
  ASSUME OuterInv, HeaderAppended
  PROVE  Headers' = Headers \cup {dp} /\ \A a \in Headers : mem'[a] = mem[a]
<1>1. Sizes /\ HeadersAllotted
  BY SizesOK, HeadersAllottedOK
<1>2. dp \in 1..MaxCells /\ \A a \in Headers : mem'[a] = mem[a]
  BY <1>1 DEF HeaderAppended, HeadersAllotted, Sizes
<1>3. Headers' = Headers \cup {dp}
  <2>1. ASSUME NEW a \in 1..MaxCells
        PROVE  IsHeader(mem'[a]) <=> (IsHeader(mem[a]) \/ a = dp)
    <3>1. CASE a < dp
      <4>1. mem'[a] = mem[a] /\ a # dp
        BY <1>1, <3>1 DEF HeaderAppended, Sizes
      <4> QED BY <4>1
    <3>2. CASE a = dp
      BY <3>2 DEF HeaderAppended
    <3>3. CASE a > dp
      <4>1. ~IsHeader(mem'[a])
        BY <3>3 DEF HeaderAppended
      <4>2. a \notin Headers /\ a # dp
        BY <1>1, <3>3 DEF HeadersAllotted, Sizes
      <4> QED BY <4>1, <4>2 DEF Headers
    <3> QED BY <1>1, <3>1, <3>2, <3>3 DEF Sizes
  <2> QED BY <1>1, <2>1 DEF Headers, Sizes
<1> QED BY <1>2, <1>3

LEMMA HeadersLeft ==
  ASSUME OuterInv, CutOff
  PROVE  Headers' = {a \in Headers : a < dp'} /\ \A a \in Headers' : mem'[a] = mem[a]
<1>1. \A a \in 1..MaxCells : mem'[a] = IF a < dp' THEN mem[a] ELSE Other
  BY DEF CutOff
<1>2. Headers' = {a \in Headers : a < dp'}
  <2>1. ~IsHeader(Other)
    BY DEF IsHeader, Other, Code
  <2>2. \A a \in 1..MaxCells : IsHeader(mem'[a]) <=> (IsHeader(mem[a]) /\ a < dp')
    BY <1>1, <2>1
  <2> QED BY <2>2 DEF Headers
<1> QED BY <1>1, <1>2 DEF Headers

(* IMMEDIATE and RUNTIME change no more than flags of the newest word.     *)
LEMMA FlagHeaders ==
  ASSUME OuterInv, Flagged
  PROVE  /\ head \in Headers /\ Headers' = Headers /\ mem' \in [1..MaxCells -> Cell]
         /\ UNCHANGED <<dp, head, fence, saved>>
         /\ \A a \in 1..MaxCells : mem'[a].kind = mem[a].kind /\ mem'[a].ref = mem[a].ref
                                   /\ mem'[a].name = mem[a].name
         /\ \A a \in Headers \ {head} : mem'[a] = mem[a]
<1>0. PICK token \in {"IMMEDIATE", "RUNTIME"} : Flag(token)
  BY DEF Flagged
<1> DEFINE flag == CASE token = "IMMEDIATE" -> "immediate" [] token = "RUNTIME" -> "runtime"
<1>1. head \in Headers /\ head \in 1..MaxCells
  BY <1>0, HeadersAllottedOK DEF Flag, OuterInv, Linked, NewestBelow, HeadersAllotted
<1>2. mem' = [mem EXCEPT ![head].flags = @ \cup {flag}] /\ UNCHANGED <<dp, head, fence, saved>>
  BY <1>0 DEF Flag
<1>3. flag \in {"immediate", "runtime"}
  OBVIOUS
<1>4. mem \in [1..MaxCells -> Cell]
  BY DEF OuterInv, OuterTypeOK
<1> HIDE DEF flag
<1>5. [mem[head] EXCEPT !.flags = @ \cup {flag}] \in Cell
  BY <1>1, <1>3, <1>4 DEF Cell, HeaderCell, CodeCell, Flags
<1>6. \A a \in 1..MaxCells :
        /\ mem'[a] \in Cell /\ mem'[a].kind = mem[a].kind
        /\ mem'[a].name = mem[a].name /\ mem'[a].ref = mem[a].ref
  <2> SUFFICES ASSUME NEW a \in 1..MaxCells
               PROVE  /\ mem'[a] \in Cell /\ mem'[a].kind = mem[a].kind
                      /\ mem'[a].name = mem[a].name /\ mem'[a].ref = mem[a].ref
    OBVIOUS
  <2>1. CASE a = head
    <3>1. mem'[a] = [mem[head] EXCEPT !.flags = @ \cup {flag}] /\ mem[a] \in Cell
      BY <1>1, <1>2, <1>4, <2>1
    <3> QED BY <1>5, <2>1, <3>1 DEF Cell, HeaderCell, CodeCell, Flags
  <2>2. CASE a # head
    BY <1>1, <1>2, <1>4, <2>2
  <2> QED BY <2>1, <2>2
<1>7. Headers' = Headers
  BY <1>6 DEF Headers, IsHeader
<1>8. mem' \in [1..MaxCells -> Cell]
  BY <1>2, <1>4, <1>6
<1>9. \A a \in Headers \ {head} : mem'[a] = mem[a]
  BY <1>1, <1>2, <1>4, HeadersAllottedOK DEF HeadersAllotted
<1> QED BY <1>1, <1>2, <1>6, <1>7, <1>8, <1>9

(* Each kind of step preserves the invariant.                              *)
LEMMA CodeAppendedOK ==
  ASSUME OuterInv, CodeAppended
  PROVE  OuterInv'
<1>1. Sizes /\ HeadersAllotted
  BY SizesOK, HeadersAllottedOK
<1>2. dp' \in 1..MaxCells /\ dp <= dp' /\ head' = head
  BY DEF CodeAppended
<1>20. \A a \in 1..(dp' - 1) : a \in 1..MaxCells /\ a < dp'
  BY <1>1, <1>2, Below DEF Sizes
<1>3. \A a \in Headers : mem'[a] = mem[a]
  BY CodeHeaders
<1>4. Headers' = Headers
  BY CodeHeaders
<1>5. saved' \in {saved, [head |-> head, dp |-> dp, kept |-> TRUE]}
  BY DEF CodeAppended, Noted
<1>6. OuterTypeOK'
  <2>1. saved' \in [head : 0..MaxCells, dp : 0..MaxCells, kept : BOOLEAN]
    <3>1. saved \in [head : 0..MaxCells, dp : 0..MaxCells, kept : BOOLEAN]
      BY DEF OuterInv, OuterTypeOK
    <3>2. dp \in 0..MaxCells
      BY <1>1 DEF Sizes
    <3>3. [head |-> head, dp |-> dp, kept |-> TRUE]
            \in [head : 0..MaxCells, dp : 0..MaxCells, kept : BOOLEAN]
      BY <1>1, <3>2 DEF Sizes
    <3> QED BY <1>5, <3>1, <3>3
  <2>2. mem' \in [1..MaxCells -> Cell]
    BY DEF CodeAppended
  <2>3. head' \in 0..MaxCells
    BY <1>1, <1>2 DEF Sizes
  <2> QED BY <1>2, <2>1, <2>2, <2>3 DEF OuterTypeOK
<1>7. NewestBelow(head, dp) /\ \A a \in Headers : NewestBelow(mem[a].ref, a)
  BY DEF OuterInv, Linked
<1>8. Linked'
  <2>1. NewestBelow(head, dp)'
    BY <1>1, <1>2, <1>4, <1>7 DEF NewestBelow, HeadersAllotted, Sizes, Kernel
  <2>2. \A a \in Headers : a < dp'
    BY <1>1, <1>2 DEF HeadersAllotted, Sizes
  <2>3. ASSUME NEW a \in Headers
        PROVE  NewestBelow(mem[a].ref, a)'
    <3>1. mem'[a] = mem[a] /\ NewestBelow(mem[a].ref, a)
      BY <1>3, <1>7
    <3> QED BY <1>4, <3>1 DEF NewestBelow
  <2> QED BY <1>1, <1>2, <1>4, <2>1, <2>2, <2>3 DEF Linked, Sizes
<1>9. LeadHome'
  <2> SUFFICES ASSUME NEW a \in 1..(dp' - 1), ~IsHeader(mem'[a]), mem'[a].ref # Kernel
               PROVE  /\ mem'[a].ref < a /\ mem'[a].ref \in Headers
                      /\ mem'[mem'[a].ref].name = mem'[a].name
    BY <1>4 DEF LeadHome
  <2>1. a \in 1..MaxCells /\ a < dp'
    BY <1>20
  <2>2. CASE a < dp
    <3>1. a \in 1..(dp - 1)
      BY <1>1, <2>1, <2>2 DEF Sizes
    <3>2. mem'[a] = mem[a]
      BY <2>1, <2>2 DEF CodeAppended
    <3>3. mem[a].ref < a /\ mem[a].ref \in Headers /\ mem[mem[a].ref].name = mem[a].name
      BY <3>1, <3>2 DEF OuterInv, LeadHome
    <3> QED BY <1>3, <3>2, <3>3
  <2>3. CASE ~(a < dp)
    <3>1. dp <= a
      BY <1>1, <2>1, <2>3 DEF Sizes
    <3>2. mem'[a].ref \in Headers /\ mem[mem'[a].ref].name = mem'[a].name
      BY <2>1, <3>1 DEF CodeAppended
    <3>3. mem'[a].ref < a
      <4> DEFINE r == mem'[a].ref
      <4>1. r \in 1..MaxCells /\ r < dp
        BY <1>1, <3>2 DEF HeadersAllotted
      <4> HIDE DEF r
      <4>2. r < a
        BY <1>1, <2>1, <3>1, <4>1 DEF Sizes
      <4> QED BY <4>2 DEF r
    <3> QED BY <1>3, <3>2, <3>3
  <2> QED BY <2>2, <2>3
<1>10. SavedOK'
  <2>1. CASE saved' = saved
    <3>1. saved.kept => saved.dp \in 1..dp /\ NewestBelow(saved.head, saved.dp)
      BY DEF OuterInv, SavedOK
    <3>2. saved.dp \in 1..dp => saved.dp \in 1..dp'
      BY <1>1, <1>2 DEF Sizes
    <3>3. NewestBelow(saved.head, saved.dp) => NewestBelow(saved.head, saved.dp)'
      BY <1>4, <2>1 DEF NewestBelow
    <3> QED BY <2>1, <3>1, <3>2, <3>3 DEF SavedOK
  <2>2. CASE saved' = [head |-> head, dp |-> dp, kept |-> TRUE]
    <3>1. saved'.head = head /\ saved'.dp = dp
      BY <2>2
    <3>2. dp \in 1..dp'
      BY <1>1, <1>2 DEF Sizes
    <3>3. NewestBelow(saved.head, saved.dp)'
      BY <1>4, <1>7, <3>1 DEF NewestBelow
    <3> QED BY <3>1, <3>2, <3>3 DEF SavedOK
  <2> QED BY <1>5, <2>1, <2>2
<1> QED BY <1>6, <1>8, <1>9, <1>10 DEF OuterInv

LEMMA HeaderAppendedOK ==
  ASSUME OuterInv, HeaderAppended
  PROVE  OuterInv'
<1>1. Sizes /\ HeadersAllotted
  BY SizesOK, HeadersAllottedOK
<1>2. dp' = dp + 1 /\ dp' \in 1..MaxCells /\ head' = dp /\ saved' = saved
  BY DEF HeaderAppended
<1>3. \A a \in Headers : mem'[a] = mem[a] /\ a < dp
  BY <1>1, NewHeader DEF HeadersAllotted
<1>4. Headers' = Headers \cup {dp}
  BY NewHeader
<1>5. OuterTypeOK'
  <2>1. mem' \in [1..MaxCells -> Cell]
    BY DEF HeaderAppended
  <2>2. saved' \in [head : 0..MaxCells, dp : 0..MaxCells, kept : BOOLEAN]
    BY <1>2 DEF OuterInv, OuterTypeOK
  <2>3. head' \in 0..MaxCells
    BY <1>1, <1>2 DEF Sizes
  <2> QED BY <1>2, <2>1, <2>2, <2>3 DEF OuterTypeOK
<1>6. NewestBelow(head, dp) /\ \A a \in Headers : NewestBelow(mem[a].ref, a)
  BY DEF OuterInv, Linked
<1>7. Linked'
  <2>1. NewestBelow(head, dp)'
    BY <1>1, <1>2, <1>3, <1>4 DEF NewestBelow, Sizes, HeadersAllotted
  <2>2. ASSUME NEW a \in Headers'
        PROVE  a < dp' /\ NewestBelow(mem[a].ref, a)'
    <3>1. CASE a \in Headers
      <4>1. mem'[a] = mem[a] /\ a < dp /\ NewestBelow(mem[a].ref, a) /\ a \in 1..MaxCells
        BY <1>1, <1>3, <1>6, <3>1 DEF HeadersAllotted
      <4>2. ~(dp < a) /\ a < dp'
        BY <1>1, <1>2, <4>1 DEF Sizes
      <4> QED BY <1>4, <4>1, <4>2 DEF NewestBelow
    <3>2. CASE a = dp
      <4>1. mem'[a].ref = head /\ a < dp' /\ ~(a < a)
        BY <1>1, <1>2, <3>2 DEF HeaderAppended, Sizes
      <4> QED BY <1>4, <1>6, <3>2, <4>1 DEF NewestBelow
    <3> QED BY <1>4, <3>1, <3>2
  <2> QED BY <1>1, <1>2, <2>1, <2>2 DEF Linked, Sizes
<1>8. LeadHome'
  <2> SUFFICES ASSUME NEW a \in 1..(dp' - 1), ~IsHeader(mem'[a]), mem'[a].ref # Kernel
               PROVE  /\ mem'[a].ref < a /\ mem'[a].ref \in Headers'
                      /\ mem'[mem'[a].ref].name = mem'[a].name
    BY DEF LeadHome
  <2>1. a \in 1..MaxCells /\ a < dp'
    BY <1>1, <1>2, Below DEF Sizes
  <2>2. a # dp
    BY DEF HeaderAppended
  <2>3. a < dp /\ a \in 1..(dp - 1)
    BY <1>1, <1>2, <2>1, <2>2 DEF Sizes
  <2>4. mem'[a] = mem[a]
    BY <2>1, <2>3 DEF HeaderAppended
  <2>5. mem[a].ref < a /\ mem[a].ref \in Headers /\ mem[mem[a].ref].name = mem[a].name
    BY <2>3, <2>4 DEF OuterInv, LeadHome
  <2> QED BY <1>3, <1>4, <2>4, <2>5
<1>9. SavedOK'
  <2>1. saved.kept => saved.dp \in 1..dp /\ NewestBelow(saved.head, saved.dp)
    BY DEF OuterInv, SavedOK
  <2>2. saved.dp \in 1..dp => saved.dp \in 1..dp' /\ ~(dp < saved.dp)
    BY <1>1, <1>2 DEF Sizes
  <2>3. saved.dp \in 1..dp /\ NewestBelow(saved.head, saved.dp) => NewestBelow(saved.head, saved.dp)'
    BY <1>2, <1>4, <2>2 DEF NewestBelow
  <2> QED BY <1>2, <2>1, <2>2, <2>3 DEF SavedOK
<1> QED BY <1>5, <1>7, <1>8, <1>9 DEF OuterInv

(* A cut keeps what was saved, or notes that some of it is freed.          *)
LEMMA CutSaved ==
  ASSUME OuterInv, CutOff
  PROVE  /\ saved' \in [head : 0..MaxCells, dp : 0..MaxCells, kept : BOOLEAN]
         /\ saved'.kept <=> saved.kept /\ saved.dp <= dp'
         /\ saved'.kept => saved' = saved
<1> DEFINE still == saved.dp <= dp'
<1>1. saved \in [head : 0..MaxCells, dp : 0..MaxCells, kept : BOOLEAN]
  BY DEF OuterInv, OuterTypeOK
<1>2. saved' = [saved EXCEPT !.kept = saved.kept /\ still] /\ still \in BOOLEAN
  BY DEF CutOff
<1> HIDE DEF still
<1>3. saved'.head = saved.head /\ saved'.dp = saved.dp /\ saved'.kept = (saved.kept /\ still)
  BY <1>1, <1>2
<1>4. saved' \in [head : 0..MaxCells, dp : 0..MaxCells, kept : BOOLEAN]
  BY <1>1, <1>2
<1>5. ASSUME saved'.kept
      PROVE  saved' = saved
  BY <1>1, <1>3, <1>4, <1>5
<1> QED BY <1>3, <1>4, <1>5 DEF still

LEMMA CutOffOK ==
  ASSUME OuterInv, CutOff
  PROVE  OuterInv'
<1>1. Sizes /\ HeadersAllotted
  BY SizesOK, HeadersAllottedOK
<1>2. dp' \in 1..dp /\ NewestBelow(head', dp') /\ dp' \in 1..MaxCells
  BY <1>1 DEF CutOff, Sizes
<1>3. \A a \in 1..MaxCells : mem'[a] = IF a < dp' THEN mem[a] ELSE Other
  BY DEF CutOff
<1>4. Headers' = {a \in Headers : a < dp'}
  BY HeadersLeft
<1>5. \A a \in Headers' : a \in Headers /\ a \in 1..MaxCells /\ a < dp' /\ mem'[a] = mem[a]
  BY <1>1, <1>3, <1>4 DEF HeadersAllotted
<1>6. \A a \in Headers : a < dp' => a \in Headers'
  BY <1>4
<1>7. OuterTypeOK'
  <2>1. 0 \in 0..MaxCells
    BY <1>1 DEF Sizes
  <2>2. Other \in Cell
    BY <2>1 DEF Other, Code, Cell, HeaderCell, CodeCell, Flags, Kernel
  <2>3. head' \in 0..MaxCells
    <3>1. head' = 0 \/ head' \in 1..MaxCells
      BY <1>1, <1>2 DEF NewestBelow, HeadersAllotted, Kernel
    <3> QED BY <1>1, <2>1, <3>1 DEF Sizes
  <2>4. mem' \in [1..MaxCells -> Cell]
    <3>1. mem \in [1..MaxCells -> Cell]
      BY DEF OuterInv, OuterTypeOK
    <3>2. mem' = [a \in 1..MaxCells |-> IF a < dp' THEN mem[a] ELSE Other]
      BY DEF CutOff
    <3> QED BY <2>2, <3>1, <3>2
  <2>5. saved' \in [head : 0..MaxCells, dp : 0..MaxCells, kept : BOOLEAN]
    BY CutSaved DEF OuterInv, OuterTypeOK
  <2> QED BY <1>2, <2>3, <2>4, <2>5 DEF OuterTypeOK
<1>8. Linked'
  <2>1. NewestBelow(head, dp)'
    BY <1>2, <1>5, <1>6 DEF NewestBelow
  <2>2. ASSUME NEW a \in Headers'
        PROVE  a < dp' /\ NewestBelow(mem[a].ref, a)'
    <3>1. a \in Headers /\ a \in 1..MaxCells /\ a < dp' /\ mem'[a] = mem[a]
      BY <1>5
    <3>2. NewestBelow(mem[a].ref, a)
      BY <3>1 DEF OuterInv, Linked
    <3>3. \A b \in Headers : b < a => b < dp'
      BY <1>1, <1>2, <3>1 DEF HeadersAllotted, Sizes
    <3>4. mem[a].ref < a
      BY <3>2 DEF NewestBelow
    <3> QED BY <1>5, <1>6, <3>1, <3>2, <3>3, <3>4 DEF NewestBelow
  <2> QED BY <1>1, <1>2, <2>1, <2>2 DEF Linked, Sizes
<1>9. LeadHome'
  <2> SUFFICES ASSUME NEW a \in 1..(dp' - 1), ~IsHeader(mem'[a]), mem'[a].ref # Kernel
               PROVE  /\ mem'[a].ref < a /\ mem'[a].ref \in Headers'
                      /\ mem'[mem'[a].ref].name = mem'[a].name
    BY DEF LeadHome
  <2>1. a \in 1..MaxCells /\ a < dp'
    BY <1>1, <1>2, Below DEF Sizes
  <2>2. a \in 1..(dp - 1)
    BY <1>1, <1>2, <2>1 DEF Sizes
  <2>3. mem'[a] = mem[a]
    BY <1>3, <2>1
  <2>4. mem[a].ref < a /\ mem[a].ref \in Headers /\ mem[mem[a].ref].name = mem[a].name
    BY <2>2, <2>3 DEF OuterInv, LeadHome
  <2>5. \A b \in Headers : b < a => b < dp'
    BY <1>1, <1>2, <2>1 DEF HeadersAllotted, Sizes
  <2> QED BY <1>5, <1>6, <2>3, <2>4, <2>5
<1>10. SavedOK'
  <2> SUFFICES ASSUME saved'.kept
               PROVE  saved'.dp \in 1..dp' /\ NewestBelow(saved.head, saved.dp)'
    BY DEF SavedOK
  <2>1. saved' = saved /\ saved.dp <= dp'
    BY CutSaved
  <2>2. saved.dp \in 1..dp /\ NewestBelow(saved.head, saved.dp)
    BY <2>1 DEF OuterInv, SavedOK
  <2>3. saved.dp \in 1..dp'
    BY <1>1, <1>2, <2>1, <2>2 DEF Sizes
  <2>4. \A b \in Headers : b < saved.dp => b < dp'
    BY <1>1, <1>2, <2>1, <2>3 DEF HeadersAllotted, Sizes
  <2>5. saved.head < saved.dp
    BY <2>2 DEF NewestBelow
  <2> QED BY <1>5, <1>6, <2>1, <2>2, <2>3, <2>4, <2>5 DEF NewestBelow
<1> QED BY <1>7, <1>8, <1>9, <1>10 DEF OuterInv

LEMMA FlagOK ==
  ASSUME OuterInv, Flagged
  PROVE  OuterInv'
<1>1. UNCHANGED <<dp, head, saved>> /\ Headers' = Headers /\ mem' \in [1..MaxCells -> Cell]
  BY FlagHeaders
<1>2. \A a \in 1..MaxCells : mem'[a].kind = mem[a].kind /\ mem'[a].ref = mem[a].ref
                              /\ mem'[a].name = mem[a].name
  BY FlagHeaders
<1>3. OuterTypeOK'
  BY <1>1 DEF OuterInv, OuterTypeOK
<1>4. \A a \in Headers : mem'[a].ref = mem[a].ref /\ mem'[a].name = mem[a].name
  BY <1>2, HeadersAllottedOK DEF HeadersAllotted
<1>5. Linked' /\ SavedOK'
  BY <1>1, <1>4 DEF OuterInv, Linked, SavedOK, NewestBelow
<1>6. LeadHome'
  <2>1. \A a \in 1..(dp - 1) : a \in 1..MaxCells
    BY SizesOK, Below DEF Sizes
  <2> QED BY <1>1, <1>2, <1>4, <2>1 DEF OuterInv, LeadHome, IsHeader
<1> QED BY <1>3, <1>5, <1>6 DEF OuterInv

(* What the steps of Next are.                                             *)
LEMMA SearchOK ==
  \A token : Search(token) # NotFound /\ Search(token) # Kernel =>
    Search(token) \in Headers /\ mem[Search(token)].name = token
BY DEF Search

LEMMA ReferenceOK ==
  ASSUME OuterInv, NEW token \in Name \cup KernelWords
  PROVE  Search(token) # NotFound =>
           /\ Reference(token, Search(token)) \in Cell
           /\ ~IsHeader(Reference(token, Search(token)))
           /\ Reference(token, Search(token)).ref # Kernel =>
                /\ Reference(token, Search(token)).ref \in Headers
                /\ mem[Reference(token, Search(token)).ref].name = Reference(token, Search(token)).name
<1> DEFINE at == Search(token)
<1>1. at # NotFound /\ at # Kernel => at \in Headers /\ mem[at].name = token
  BY SearchOK
<1>2. Sizes /\ HeadersAllotted
  BY SizesOK, HeadersAllottedOK
<1> HIDE DEF at
<1>3. CASE at = Kernel
  BY <1>2, <1>3
     DEF Reference, Other, Code, Cell, HeaderCell,
         CodeCell, Flags, IsHeader, Kernel, Sizes, at
<1>4. CASE at # Kernel /\ at # NotFound
  <2>1. Reference(token, at) = [kind |-> "code", name |-> token, flags |-> {}, ref |-> at]
    BY <1>4 DEF Reference, Code
  <2>2. at \in 1..MaxCells
    BY <1>1, <1>2, <1>4 DEF HeadersAllotted
  <2>3. at \in 0..MaxCells
    BY <1>2, <2>2, Addresses DEF Sizes
  <2>4. Reference(token, at) \in Cell /\ ~IsHeader(Reference(token, at))
    <3>1. token \in Name \cup KernelWords \cup {"", "*;"} /\ {} \in SUBSET {"immediate", "runtime"}
      OBVIOUS
    <3>2. [kind |-> "code", name |-> token, flags |-> {}, ref |-> at] \in Cell
      BY <2>3, <3>1 DEF Cell, HeaderCell, CodeCell, Flags
    <3>3. Reference(token, at).kind # "header"
      BY <2>1
    <3> QED BY <2>1, <3>2, <3>3 DEF IsHeader
  <2>5. Reference(token, at).ref = at /\ Reference(token, at).name = token
    BY <2>1
  <2> QED BY <1>1, <1>4, <2>4, <2>5 DEF at
<1> QED BY <1>3, <1>4 DEF at

(* Allotting code: one cell or two that are no headers, and lead to the    *)
(* words they name.                                                        *)
GoodCode(cell) ==
  /\ cell \in Cell /\ ~IsHeader(cell)
  /\ cell.ref # Kernel => cell.ref \in Headers /\ mem[cell.ref].name = cell.name

LEMMA AllotOK ==
  ASSUME OuterInv, NEW cells \in Seq(Cell), Allot(cells), dp + Len(cells) <= MaxCells,
         \A i \in 1..Len(cells) : GoodCode(cells[i]),
         head' = head, Noted
  PROVE  CodeAppended
<1>1. Sizes
  BY SizesOK
<1>2. Len(cells) \in Nat /\ \A i \in 1..Len(cells) : cells[i] \in Cell
  OBVIOUS
<1>3. dp' \in 1..MaxCells /\ dp <= dp' /\ dp' = dp + Len(cells)
  BY <1>1, <1>2 DEF Allot, Sizes
<1>4. mem \in [1..MaxCells -> Cell] /\ Other \in Cell /\ ~IsHeader(Other) /\ Other.ref = Kernel
  BY <1>1, Addresses
     DEF OuterInv, OuterTypeOK, Other, Code, Cell, HeaderCell,
         CodeCell, Flags, IsHeader, Kernel, Sizes
<1>5. \A a \in 1..MaxCells : /\ a < dp => mem'[a] = mem[a]
                             /\ ~(a < dp) /\ a < dp' => mem'[a] = cells[a - dp + 1]
                             /\ ~(a < dp') => mem'[a] = Other
  BY <1>1, <1>3 DEF Allot, Sizes
<1>6. \A a \in 1..MaxCells : ~(a < dp) /\ a < dp' => a - dp + 1 \in 1..Len(cells)
  BY <1>1, <1>2, <1>3 DEF Sizes
<1>7. \A a \in 1..MaxCells : ~(a < dp) /\ a < dp' => GoodCode(mem'[a])
  BY <1>5, <1>6
<1>8. mem' \in [1..MaxCells -> Cell]
  <2>1. \A a \in 1..MaxCells : mem'[a] \in Cell
    BY <1>4, <1>5, <1>7 DEF GoodCode
  <2>2. mem' = [a \in 1..MaxCells |-> mem'[a]]
    BY DEF Allot
  <2> QED BY <2>1, <2>2
<1>9. \A a \in 1..MaxCells : a >= dp => ~IsHeader(mem'[a])
  <2>1. \A a \in 1..MaxCells : a >= dp => ~(a < dp)
    BY <1>1 DEF Sizes
  <2> QED BY <1>4, <1>5, <1>7, <2>1 DEF GoodCode
<1>10. \A a \in 1..MaxCells : dp <= a /\ a < dp' /\ mem'[a].ref # Kernel =>
         mem'[a].ref \in Headers /\ mem[mem'[a].ref].name = mem'[a].name
  <2>1. \A a \in 1..MaxCells : dp <= a => ~(a < dp)
    BY <1>1 DEF Sizes
  <2> QED BY <1>7, <2>1 DEF GoodCode
<1> QED BY <1>3, <1>5, <1>8, <1>9, <1>10 DEF CodeAppended

LEMMA AllotNothing ==
  ASSUME OuterInv, Room(0), Allot(<<>>),
         head' = head, Noted
  PROVE  CodeAppended
<1>1. dp + Len(<<>>) <= MaxCells /\ <<>> \in Seq(Cell) /\ \A i \in 1..Len(<<>>) : GoodCode(<<>>[i])
  BY SizesOK DEF Room, Sizes
<1> QED BY <1>1, AllotOK

LEMMA AllotOne ==
  ASSUME OuterInv, Room(1), NEW c, GoodCode(c), Allot(<<c>>), head' = head, Noted
  PROVE  CodeAppended
<1>1. dp + Len(<<c>>) <= MaxCells /\ <<c>> \in Seq(Cell)
  BY SizesOK DEF Room, Sizes, GoodCode
<1>2. \A i \in 1..Len(<<c>>) : GoodCode(<<c>>[i])
  OBVIOUS
<1> QED BY <1>1, <1>2, AllotOK

LEMMA AllotTwo ==
  ASSUME OuterInv, Room(2), NEW c, NEW d, GoodCode(c), GoodCode(d), Allot(<<c, d>>),
         head' = head, Noted
  PROVE  CodeAppended
<1>1. dp + Len(<<c, d>>) <= MaxCells /\ <<c, d>> \in Seq(Cell)
  BY SizesOK DEF Room, Sizes, GoodCode
<1>2. \A i \in 1..Len(<<c, d>>) : GoodCode(<<c, d>>[i])
  OBVIOUS
<1> QED BY <1>1, <1>2, AllotOK

LEMMA GoodOther ==
  ASSUME OuterInv
  PROVE  GoodCode(Other) /\ GoodCode(Code("*;", Kernel))
BY SizesOK, Addresses
   DEF Sizes, GoodCode, Other, Code, Cell, HeaderCell,
       CodeCell, Flags, IsHeader, Kernel

LEMMA SmallerRoom ==
  ASSUME OuterInv
  PROVE  (Room(2) => Room(1)) /\ (Room(1) => Room(0))
BY SizesOK DEF Sizes, Room

(* Which kind of step each action is.                                      *)
LEMMA PatchOK ==
  ASSUME OuterInv, Room(0), Patch
  PROVE  CodeAppended \/ WordCut
<1>1. CASE mode = 1
  <2>1. head # Kernel /\ dp' = head /\ head' = mem[head].ref /\ fence' = fence
    BY <1>1 DEF Patch, FreeFrom
  <2>2. head \in Headers /\ head \in 1..dp /\ NewestBelow(mem[head].ref, head)
    BY <2>1, SizesOK, HeadersAllottedOK
       DEF OuterInv, Linked, NewestBelow, Sizes, HeadersAllotted
  <2>3. CutOff
    BY <1>1, <2>1, <2>2 DEF Patch, FreeFrom, CutOff, NewestBelow
  <2> QED BY <2>1, <2>2, <2>3 DEF WordCut
<1>2. CASE mode # 1
  BY <1>2, AllotNothing DEF Patch, Noted
<1> QED BY <1>1, <1>2

LEMMA ForgetOK ==
  ASSUME OuterInv, fence \in 0..MaxCells, NEW name, Forget(name)
  PROVE  CodeAppended \/ WordCut
<1>1. PICK at \in {Search(name)} \ {NotFound} :
        IF at > fence THEN FreeFrom(at) /\ head' = mem[at].ref
                      ELSE Allot(<<>>) /\ UNCHANGED <<head, saved>>
  BY DEF Forget
<1>2. CASE at > fence
  <2>1. at # Kernel
    BY <1>2, SizesOK DEF Kernel, Sizes
  <2>2. at \in Headers
    BY <1>1, <2>1, SearchOK
  <2>3. at \in 1..dp /\ fence < at
    BY <1>2, <2>2, SizesOK, HeadersAllottedOK DEF HeadersAllotted, Sizes
  <2>4. NewestBelow(mem[at].ref, at)
    BY <2>2 DEF OuterInv, Linked
  <2>5. CutOff
    BY <1>1, <1>2, <2>3, <2>4 DEF FreeFrom, CutOff, NewestBelow
  <2>6. fence' = fence /\ dp' = at
    BY <1>1, <1>2 DEF Forget, FreeFrom
  <2> QED BY <2>2, <2>3, <2>5, <2>6 DEF WordCut
<1>3. CASE ~(at > fence)
  BY <1>1, <1>3, AllotNothing DEF Forget, Noted
<1> QED BY <1>2, <1>3

LEMMA ColdCutsOff ==
  ASSUME OuterInv, KeptStart
  PROVE  CutOff /\ saved' = saved
<1>1. saved.dp \in 1..dp /\ NewestBelow(saved.head, saved.dp)
  BY DEF OuterInv, SavedOK, KeptStart
<1>2. CutOff
  BY <1>1 DEF KeptStart, ColdStart, FreeFrom, CutOff, NewestBelow
<1>3. saved.dp <= saved.dp /\ dp' = saved.dp
  BY <1>1, SizesOK DEF Sizes, KeptStart, ColdStart, FreeFrom
<1> QED BY <1>2, <1>3, CutSaved DEF KeptStart

LEMMA ColonOK ==
  ASSUME OuterInv, NEW name \in Name, Colon(name)
  PROVE  HeaderAppended
<1> DEFINE cell == Header(name, {}, head)
<1>1. Sizes
  BY SizesOK
<1>2. cell \in HeaderCell /\ cell \in Cell /\ IsHeader(cell) /\ cell.ref = head
  BY <1>1 DEF Sizes, Cell, HeaderCell, Flags, Header, IsHeader
<1> HIDE DEF cell
<1>3. dp' = dp + 1 /\ dp' \in 1..MaxCells /\ dp \in 1..MaxCells /\ dp < dp'
  BY <1>1 DEF Colon, Allot, Room, Sizes
<1>4. \A a \in 1..MaxCells : mem'[a] = IF a < dp THEN mem[a]
                                       ELSE IF a < dp' THEN <<cell>>[a - dp + 1] ELSE Other
  BY DEF Colon, Allot, cell
<1>5. \A a \in 1..MaxCells : /\ a < dp => mem'[a] = mem[a]
                             /\ a > dp => mem'[a] = Other
                             /\ a = dp => mem'[a] = cell
  <2>1. \A a \in 1..MaxCells : a > dp => ~(a < dp) /\ ~(a < dp')
    BY <1>1, <1>3 DEF Sizes
  <2>2. ~(dp < dp) /\ dp - dp + 1 = 1 /\ <<cell>>[1] = cell
    BY <1>1 DEF Sizes
  <2> QED BY <1>3, <1>4, <2>1, <2>2
<1>6. mem \in [1..MaxCells -> Cell] /\ Other \in Cell /\ ~IsHeader(Other)
  BY GoodOther DEF OuterInv, OuterTypeOK, GoodCode
<1>7. mem' \in [1..MaxCells -> Cell]
  <2>1. \A a \in 1..MaxCells : a < dp \/ a > dp \/ a = dp
    BY <1>1 DEF Sizes
  <2>2. \A a \in 1..MaxCells : mem'[a] \in Cell
    BY <1>2, <1>5, <1>6, <2>1
  <2>3. mem' = [a \in 1..MaxCells |-> mem'[a]]
    BY DEF Colon, Allot
  <2> QED BY <2>2, <2>3
<1> QED BY <1>2, <1>3, <1>5, <1>6, <1>7 DEF HeaderAppended, Colon

LEMMA BracketTickOK ==
  ASSUME OuterInv, NEW name \in Name, BracketTick(name)
  PROVE  CodeAppended
<1>1. CASE Search(name) # NotFound
  <2>1. GoodCode(Reference(name, Search(name)))
    BY <1>1, ReferenceOK DEF GoodCode
  <2> QED BY <1>1, <2>1, GoodOther, AllotTwo DEF BracketTick, Noted
<1>2. CASE Search(name) = NotFound
  BY <1>2, SmallerRoom, GoodOther, AllotOne DEF BracketTick, Noted
<1> QED BY <1>1, <1>2

LEMMA ExecuteOK ==
  ASSUME OuterInv, fence \in 0..MaxCells, NEW token, Execute(token)
  PROVE  StepKind
<1>1. CASE ExecuteWord
  BY <1>1, AllotNothing DEF ExecuteWord, Noted, StepKind
<1>2. CASE Bracket(token)
  BY <1>2, AllotNothing DEF Bracket, Noted, StepKind
<1>3. CASE token \in {"IMMEDIATE", "RUNTIME"} /\ Flag(token)
  BY <1>3 DEF Flagged, StepKind
<1>4. CASE SemiColon
  <2>1. Noted
    BY <1>4 DEF SemiColon, Noted
  <2> QED BY <1>4, <2>1, AllotOne, GoodOther, SmallerRoom, Zenon DEF SemiColon, StepKind
<1>5. CASE FenceWord
  BY <1>5, AllotNothing DEF FenceWord, Noted, StepKind
<1>6. CASE Expand
  BY <1>6, AllotNothing DEF Expand, Noted, StepKind
<1>7. ASSUME NEW name \in Name, Colon(name) \/ Forget(name) \/ BracketTick(name)
      PROVE  StepKind
  BY <1>7, ColonOK, ForgetOK, BracketTickOK DEF StepKind
<1>8. ASSUME NEW name \in Name, ForgetMissing(name)
      PROVE  StepKind
  BY <1>8, AllotNothing DEF ForgetMissing, Noted, StepKind
<1> QED BY <1>1, <1>2, <1>3, <1>4, <1>5, <1>6, <1>7, <1>8 DEF Execute

LEMMA StepKinds ==
  ASSUME OuterInv, fence \in 0..MaxCells, Next
  PROVE  (StepKind /\ ~astray') \/ LostStart
<1>1. ASSUME NEW token \in KernelWords \cup Name, Process(token, Search(token))
      PROVE  StepKind
  <2>1. CASE UnknownToken
    BY <2>1, AllotNothing DEF UnknownToken, Noted, StepKind
  <2>2. CASE Room(0) /\ Patch
    BY <2>2, PatchOK DEF StepKind
  <2>3. CASE Search(token) # NotFound /\ CompileToken(token, Search(token))
    <3>1. GoodCode(Reference(token, Search(token)))
      BY <2>3, ReferenceOK DEF GoodCode
    <3> QED BY <2>3, <3>1, AllotOne DEF CompileToken, Noted, StepKind
  <2>4. CASE Execute(token)
    BY <2>4, ExecuteOK
  <2> QED BY <1>1, <2>1, <2>2, <2>3, <2>4 DEF Process
<1>2. ASSUME Number
      PROVE  StepKind
  BY <1>2, AllotTwo, GoodOther DEF Number, Noted, StepKind
<1>3. CASE ReadToken /\ UNCHANGED astray
  BY <1>1, <1>2, <1>3 DEF Next, ReadToken
<1>4. CASE KeptStart
  BY <1>4 DEF StepKind, KeptStart, ColdStart
<1> QED BY <1>3, <1>4 DEF Next, KeptStart, LostStart

LEMMA EveryStep ==
  ASSUME OuterInv, fence \in 0..MaxCells, StepKind
  PROVE  OuterInv'
<1>1. CASE Flagged
  BY <1>1, FlagOK
<1>2. CASE WordCut
  BY <1>2, CutOffOK DEF WordCut
<1>3. CASE KeptStart
  BY <1>3, ColdCutsOff, CutOffOK
<1> QED BY <1>1, <1>2, <1>3, CodeAppendedOK, HeaderAppendedOK DEF StepKind

(* The fence is where a header was, or the start of the dictionary.        *)
LEMMA FenceOK ==
  ASSUME OuterInv, fence \in 0..MaxCells, Next
  PROVE  fence' \in 0..MaxCells
<1>1. fence' \in {fence, head, saved.head}
  BY DEF Next, ReadToken, Process, Execute, ExecuteWord, Bracket, Flag, SemiColon, FenceWord, Expand,
         Colon, Forget, ForgetMissing, BracketTick, CompileToken, UnknownToken, Patch,
         Number, ColdStart
<1> QED BY <1>1 DEF OuterInv, OuterTypeOK

LEMMA FirstState ==
  ASSUME Init
  PROVE  OuterInv /\ fence \in 0..MaxCells
<1>1. /\ MaxCells \in Nat /\ MaxCells >= 2
      /\ 0 \in 0..MaxCells /\ 1 \in 0..MaxCells /\ 2 \in 0..MaxCells /\ 1 \in 1..MaxCells
      /\ 2 \in 1..MaxCells
  BY OuterAssumption DEF OuterAssumption
<1>2. \A a \in 1..MaxCells : mem[a] = IF a = 1 THEN Header("FENCE", {}, Kernel) ELSE Other
  BY DEF Init
<1>3. Headers = {1}
  <2>1. IsHeader(Header("FENCE", {}, Kernel)) /\ ~IsHeader(Other)
    BY DEF IsHeader, Header, Other, Code
  <2>2. \A a \in 1..MaxCells : IsHeader(mem[a]) <=> a = 1
    BY <1>2, <2>1
  <2> QED BY <1>1, <2>2 DEF Headers
<1>4. dp = 2 /\ head = 1 /\ fence = 1 /\ saved = [head |-> 1, dp |-> 2, kept |-> TRUE]
  BY DEF Init
<1>5. Header("FENCE", {}, Kernel) \in Cell /\ Other \in Cell
  BY <1>1 DEF Header, Other, Code, Cell, HeaderCell, CodeCell, Flags, KernelWords, Kernel
<1>6. mem \in [1..MaxCells -> Cell]
  BY <1>5 DEF Init
<1>7. NewestBelow(head, dp) /\ NewestBelow(Kernel, 1)
  BY <1>3, <1>4 DEF NewestBelow, Kernel
<1>8. mem[1].ref = Kernel
  BY <1>1, <1>2 DEF Header
<1>9. Linked
  BY <1>1, <1>3, <1>4, <1>7, <1>8 DEF Linked
<1>10. LeadHome
  BY <1>1, <1>2, <1>4 DEF LeadHome, Header, IsHeader
<1>11. SavedOK
  BY <1>4, <1>7 DEF SavedOK
<1>12. OuterTypeOK
  BY <1>1, <1>4, <1>6 DEF OuterTypeOK
<1> QED BY <1>1, <1>4, <1>9, <1>10, <1>11, <1>12 DEF OuterInv
----------------------------------------------------------------------------
(* The invariant, up to a cold start that goes astray.                     *)
Sound == OuterInv /\ fence \in 0..MaxCells
SoundUntil == astray \in BOOLEAN /\ (astray \/ Sound)

LEMMA OuterInvariant == OuterSpec => []SoundUntil
<1>1. Init => SoundUntil
  BY FirstState DEF Sound, SoundUntil, Init
<1>2. SoundUntil /\ [Next]_ovars => SoundUntil'
  <2>1. ASSUME SoundUntil, UNCHANGED ovars
        PROVE  SoundUntil'
    BY <2>1 DEF SoundUntil, Sound, ovars, OuterInv, OuterTypeOK, Linked, LeadHome, SavedOK,
                NewestBelow, Headers
  <2>2. ASSUME SoundUntil, Next
        PROVE  SoundUntil'
    <3>1. Sound /\ astray' \in BOOLEAN
      BY <2>2 DEF Next, SoundUntil, ColdStart
    <3>2. CASE StepKind
      BY <2>2, <3>1, <3>2, EveryStep, FenceOK DEF Sound, SoundUntil
    <3>3. CASE LostStart
      BY <3>1, <3>3 DEF LostStart, ColdStart, SoundUntil
    <3> QED BY <2>2, <3>1, <3>2, <3>3, StepKinds DEF Sound
  <2> QED BY <2>1, <2>2
<1> QED BY <1>1, <1>2, PTL DEF OuterSpec

(* In every state, unless a cold start went back to words of which one     *)
(* had been freed, the words in memory are a stack under the dictionary    *)
(* pointer, linked from the newest to the oldest: no clean-up, FORGET or   *)
(* other cold start leaves a link into text or a word above the free       *)
(* memory.                                                                 *)
THEOREM DictionaryIsLinked == OuterSpec => []LinkedIsAllotted
<1>1. SoundUntil => LinkedIsAllotted
  BY DEF SoundUntil, Sound, OuterInv, LinkedIsAllotted
<1> QED BY <1>1, OuterInvariant, PTL

(* Until then every compiled reference keeps leading to the word it was    *)
(* compiled for.                                                           *)
THEOREM ReferencesLeadHome == OuterSpec => []ReferencesStay
<1>1. SoundUntil => ReferencesStay
  BY DEF SoundUntil, Sound, OuterInv, ReferencesStay
<1> QED BY <1>1, OuterInvariant, PTL
----------------------------------------------------------------------------
(* How many headers of a set there are up to an address.                   *)
Count(headers, a) == Cardinality({b \in headers : b <= a})

LEMMA CountNat ==
  ASSUME NEW headers \in SUBSET (1..MaxCells), NEW a
  PROVE  IsFiniteSet({b \in headers : b <= a}) /\ Count(headers, a) \in Nat
<1>1. IsFiniteSet(1..MaxCells)
  BY OuterAssumption, FS_Interval DEF OuterAssumption
<1>2. {b \in headers : b <= a} \subseteq 1..MaxCells
  OBVIOUS
<1>3. IsFiniteSet({b \in headers : b <= a})
  BY <1>1, <1>2, FS_Subset
<1> QED BY <1>3, FS_CardinalityType DEF Count

LEMMA CountMonotone ==
  ASSUME NEW headers \in SUBSET (1..MaxCells), NEW a, NEW b,
         \A c \in headers : c <= a => c <= b
  PROVE  Count(headers, a) <= Count(headers, b)
<1>1. {c \in headers : c <= a} \subseteq {c \in headers : c <= b}
  OBVIOUS
<1> QED BY <1>1, CountNat, FS_Subset DEF Count

LEMMA CountSame ==
  ASSUME NEW headers, NEW others, NEW a, NEW b,
         \A c : (c \in headers /\ c <= a) <=> (c \in others /\ c <= b)
  PROVE  Count(headers, a) = Count(others, b)
<1>1. {c \in headers : c <= a} = {c \in others : c <= b}
  OBVIOUS
<1> QED BY <1>1 DEF Count

LEMMA CountOneMore ==
  ASSUME NEW headers \in SUBSET (1..MaxCells), NEW others \in SUBSET (1..MaxCells), NEW a, NEW b,
         b \in others, ~(b \in headers /\ b <= a),
         \A c : (c \in others /\ c <= b) <=> (c \in headers /\ c <= a) \/ c = b
  PROVE  Count(others, b) = Count(headers, a) + 1
<1>1. {c \in others : c <= b} = {c \in headers : c <= a} \cup {b}
  OBVIOUS
<1>2. b \notin {c \in headers : c <= a}
  OBVIOUS
<1>3. IsFiniteSet({c \in headers : c <= a})
  BY CountNat
<1>4. Cardinality({c \in headers : c <= a} \cup {b}) = Cardinality({c \in headers : c <= a}) + 1
  BY <1>2, <1>3, FS_AddElement
<1> QED BY <1>1, <1>4 DEF Count

LEMMA UpToCounts == Headers \in SUBSET (1..MaxCells) /\ \A a : UpTo(a) = Count(Headers, a)
BY DEF Headers, UpTo, Count

LEMMA UpToNat == \A a : UpTo(a) \in Nat
BY UpToCounts, CountNat

LEMMA UpToMonotone ==
  ASSUME NEW a, NEW b, \A c \in Headers : c <= a => c <= b
  PROVE  UpTo(a) <= UpTo(b)
BY UpToCounts, CountMonotone

(* Up to a word there is one more than up to the word it links to.         *)
LEMMA UpToNext ==
  ASSUME NEW a \in Headers, NEW r, NewestBelow(r, a)
  PROVE  UpTo(a) = UpTo(r) + 1
<1>1. a \in Nat /\ Headers \subseteq Nat /\ r \in Nat
  BY DEF Headers, NewestBelow, Kernel
<1>2. r < a /\ \A b \in Headers : b < a => b <= r
  BY DEF NewestBelow
<1>3. \A b : (b \in Headers /\ b <= a) <=> (b \in Headers /\ b <= r) \/ b = a
  <2>1. \A b \in Headers : b <= a <=> b <= r \/ b = a
    BY <1>1, <1>2
  <2> QED BY <2>1
<1>4. ~(a \in Headers /\ a <= r)
  BY <1>1, <1>2
<1> QED BY <1>3, <1>4, UpToCounts, CountOneMore

LEMMA UpToKernel == UpTo(Kernel) = 0
<1>1. {b \in Headers : b <= Kernel} = {}
  BY DEF Headers, Kernel
<1> QED BY <1>1, FS_EmptySet DEF UpTo

(* Links of a state that satisfies the invariant.                          *)
LEMMA Links ==
  ASSUME OuterInv, NEW a \in Headers
  PROVE  /\ a \in 1..MaxCells /\ mem[a].ref \in 0..MaxCells /\ mem[a].ref < a
         /\ mem[a].ref = Kernel \/ mem[a].ref \in Headers
         /\ UpTo(a) = UpTo(mem[a].ref) + 1
<1>1. NewestBelow(mem[a].ref, a)
  BY DEF OuterInv, Linked
<1>2. a \in 1..MaxCells
  BY DEF Headers
<1>3. mem[a].ref = Kernel \/ mem[a].ref \in 1..MaxCells
  BY <1>1 DEF NewestBelow, Headers
<1>4. mem[a].ref \in 0..MaxCells
  BY <1>3, Addresses, OuterAssumption DEF OuterAssumption, Kernel
<1> QED BY <1>1, <1>2, <1>4, UpToNext DEF NewestBelow

(* Different words have different numbers, and every number is a word's.   *)
LEMMA UpToIncreases ==
  ASSUME OuterInv, NEW a \in Headers, NEW b \in Headers, a < b
  PROVE  UpTo(a) < UpTo(b)
<1>1. NewestBelow(mem[b].ref, b)
  BY DEF OuterInv, Linked
<1>2. a <= mem[b].ref
  BY <1>1 DEF NewestBelow
<1>3. \A c \in Headers : c <= a => c <= mem[b].ref
  BY <1>2, Links
<1>4. UpTo(a) <= UpTo(mem[b].ref)
  BY <1>3, UpToMonotone
<1>5. UpTo(b) = UpTo(mem[b].ref) + 1
  BY Links
<1>6. UpTo(a) \in Nat /\ UpTo(mem[b].ref) \in Nat
  BY UpToNat
<1> QED BY <1>4, <1>5, <1>6

LEMMA UpToReaches ==
  ASSUME OuterInv, NEW top \in Headers, NEW i \in 1..UpTo(top)
  PROVE  \E a \in Headers : UpTo(a) = i
<1> DEFINE missed == {n \in Headers : i <= UpTo(n) /\ ~\E a \in Headers : UpTo(a) = i}
<1> SUFFICES ASSUME missed # {}
             PROVE  FALSE
  <2>1. UpTo(top) \in Nat /\ i <= UpTo(top)
    <3>1. UpTo(top) \in Nat
      BY UpToNat
    <3> QED BY <3>1
  <2> QED BY <2>1
<1>1. missed \in SUBSET Nat
  BY DEF Headers
<1> HIDE DEF missed
<1>2. PICK n \in missed : \A m \in missed : n <= m
  BY <1>1, LeastExists
<1>3. n \in Headers /\ i <= UpTo(n) /\ ~\E a \in Headers : UpTo(a) = i
  BY DEF missed
<1>4. UpTo(n) = UpTo(mem[n].ref) + 1 /\ UpTo(n) # i /\ i \in Nat /\ i # 0
  BY <1>3, Links, UpToNat
<1>5. i <= UpTo(mem[n].ref)
  <2>1. UpTo(n) \in Nat /\ UpTo(mem[n].ref) \in Nat
    BY UpToNat
  <2> QED BY <1>3, <1>4, <2>1
<1>6. mem[n].ref # Kernel
  BY <1>4, <1>5, UpToKernel
<1>7. mem[n].ref \in missed
  BY <1>3, <1>5, <1>6, Links DEF missed
<1> QED BY <1>2, <1>3, <1>7, Links
----------------------------------------------------------------------------
(* Words by position, in place of along the links.                         *)
EntryOf(a) == [name |-> mem[a].name, flags |-> mem[a].flags]
Entries == [name : Name \cup {"FENCE"}, flags : SUBSET {"immediate", "runtime"}]

WordAt(i) == CHOOSE a \in Headers : UpTo(a) = i
Listed(a) == IF IsWord(a) THEN [i \in 1..UpTo(a) |-> EntryOf(WordAt(i))] ELSE <<>>

Along(g, a) ==
  IF ~IsWord(a) \/ mem[a].ref >= a THEN <<>> ELSE Append(g[mem[a].ref], EntryOf(a))

LEMMA EntryOK ==
  ASSUME OuterInv, NEW a \in Headers
  PROVE  EntryOf(a) \in Entries
BY DEF OuterInv, OuterTypeOK, Headers, IsHeader, Cell, HeaderCell, CodeCell, Flags, EntryOf, Entries

LEMMA WordAtOK ==
  ASSUME OuterInv, NEW a \in Headers
  PROVE  WordAt(UpTo(a)) = a
<1>1. WordAt(UpTo(a)) \in Headers /\ UpTo(WordAt(UpTo(a))) = UpTo(a)
  BY DEF WordAt
<1>2. a \in Int /\ WordAt(UpTo(a)) \in Int
  BY <1>1 DEF Headers
<1>3. UpTo(a) \in Nat
  BY UpToNat
<1>4. ~(UpTo(a) < UpTo(a))
  BY <1>3
<1>5. ~(a < WordAt(UpTo(a))) /\ ~(WordAt(UpTo(a)) < a)
  BY <1>1, <1>4, UpToIncreases
<1> QED BY <1>2, <1>5

LEMMA ListedOK ==
  ASSUME OuterInv, NEW a \in Headers
  PROVE  /\ Listed(a) \in Seq(Entries) /\ Len(Listed(a)) = UpTo(a)
         /\ \A i \in 1..UpTo(a) : Listed(a)[i] = EntryOf(WordAt(i))
<1>1. IsWord(a)
  BY DEF IsWord, Headers, Kernel
<1>0. UpTo(a) \in Nat
  BY UpToNat
<1>2. \A i \in 1..UpTo(a) : WordAt(i) \in Headers
  BY UpToReaches DEF WordAt
<1>3. \A i \in 1..UpTo(a) : EntryOf(WordAt(i)) \in Entries
  BY <1>2, EntryOK
<1>4. Listed(a) = [i \in 1..UpTo(a) |-> EntryOf(WordAt(i))]
  BY <1>1 DEF Listed
<1>5. Listed(a) \in [1..UpTo(a) -> Entries]
  BY <1>3, <1>4
<1> QED BY <1>0, <1>4, <1>5

LEMMA ListedAlong ==
  ASSUME OuterInv, NEW g, NEW a \in 0..MaxCells,
         mem[a].ref < a => g[mem[a].ref] = Listed(mem[a].ref)
  PROVE  Along(g, a) = Listed(a)
<1>1. CASE ~IsWord(a)
  BY <1>1 DEF Along, Listed
<1>2. CASE IsWord(a)
  <2> DEFINE r == mem[a].ref
  <2>1. a \in Headers
    BY <1>2 DEF IsWord, Headers, Kernel
  <2>2. r < a /\ ~(r >= a) /\ (r = Kernel \/ r \in Headers) /\ UpTo(a) = UpTo(r) + 1
    BY <2>1, Links
  <2>3. Listed(r) \in Seq(Entries) /\ Len(Listed(r)) = UpTo(r)
        /\ \A i \in 1..UpTo(r) : Listed(r)[i] = EntryOf(WordAt(i))
    <3>1. CASE r = Kernel
      <4>1. Listed(r) = <<>> /\ UpTo(r) = 0
        BY <3>1, UpToKernel DEF Listed, IsWord
      <4> QED BY <4>1
    <3>2. CASE r \in Headers
      BY <3>2, ListedOK
    <3> QED BY <2>2, <3>1, <3>2
  <2>4. Listed(a) \in Seq(Entries) /\ Len(Listed(a)) = UpTo(a)
        /\ \A i \in 1..UpTo(a) : Listed(a)[i] = EntryOf(WordAt(i))
    BY <2>1, ListedOK
  <2>5. EntryOf(a) \in Entries /\ WordAt(UpTo(a)) = a
    BY <2>1, EntryOK, WordAtOK
  <2>6. Along(g, a) = Append(Listed(r), EntryOf(a))
    BY <1>2, <2>2 DEF Along
  <2> HIDE DEF r
  <2>7. UpTo(r) \in Nat
    BY UpToNat
  <2> DEFINE s == Append(Listed(r), EntryOf(a))
  <2>8. s \in Seq(Entries) /\ Len(s) = UpTo(a)
    BY <2>2, <2>3, <2>5, AppendProperties
  <2>9. \A i \in 1..UpTo(r) : s[i] = EntryOf(WordAt(i))
    BY <2>3, <2>5, AppendProperties
  <2>10. s[UpTo(a)] = EntryOf(WordAt(UpTo(a)))
    BY <2>2, <2>3, <2>5, AppendProperties
  <2> HIDE DEF s
  <2>11. \A i \in 1..UpTo(a) : i \in 1..UpTo(r) \/ i = UpTo(a)
    BY <2>2, <2>7
  <2>12. \A i \in 1..Len(s) : s[i] = Listed(a)[i]
    BY <2>4, <2>8, <2>9, <2>10, <2>11
  <2>13. s = Listed(a)
    BY <2>4, <2>8, <2>12, SeqEqual
  <2> QED BY <2>6, <2>13 DEF s
<1> QED BY <1>1, <1>2

LEMMA WordsListed == OuterInv => Words = Listed(head)
<1> SUFFICES ASSUME OuterInv
             PROVE  Words = Listed(head)
  OBVIOUS
<1> DEFINE f == [a \in 0..MaxCells |-> Listed(a)]
           from == CHOOSE g : g = [a \in 0..MaxCells |->
                     IF ~IsWord(a) \/ mem[a].ref >= a THEN <<>>
                     ELSE Append(g[mem[a].ref], [name |-> mem[a].name, flags |-> mem[a].flags])]
<1>1. Words = from[head]
  BY DEF Words
<1>2. \A a \in 0..MaxCells : mem[a].ref < a /\ IsWord(a) => mem[a].ref \in 0..MaxCells
  BY Links DEF IsWord, Headers, Kernel
<1>3. f = [a \in 0..MaxCells |-> Along(f, a)]
  <2>1. ASSUME NEW a \in 0..MaxCells
        PROVE  Along(f, a) = Listed(a)
    <3>1. CASE IsWord(a)
      BY <1>2, <3>1, ListedAlong
    <3>2. CASE ~IsWord(a)
      BY <3>2 DEF Along, Listed
    <3> QED BY <3>1, <3>2
  <2> QED BY <2>1
<1> HIDE DEF f
<1>4. from = [a \in 0..MaxCells |-> Along(from, a)]
  BY <1>3 DEF Along, EntryOf
<1> HIDE DEF from
<1>5. \A a \in 0..MaxCells : from[a] = Listed(a)
  <2> DEFINE wrong == {a \in 0..MaxCells : from[a] # Listed(a)}
  <2> SUFFICES ASSUME wrong # {}
               PROVE  FALSE
    OBVIOUS
  <2>1. wrong \in SUBSET Nat
    BY OuterAssumption DEF OuterAssumption
  <2> HIDE DEF wrong
  <2>2. PICK n \in wrong : \A m \in wrong : n <= m
    BY <2>1, LeastExists
  <2>3. n \in 0..MaxCells /\ from[n] # Listed(n) /\ from[n] = Along(from, n)
    BY <1>4 DEF wrong
  <2>4. CASE IsWord(n)
    <3>1. n \in Headers
      BY <2>3, <2>4 DEF IsWord, Headers, Kernel
    <3>2. mem[n].ref \in 0..MaxCells /\ mem[n].ref < n
      BY <3>1, Links
    <3>3. ~(n <= mem[n].ref)
      BY <2>3, <3>2
    <3>4. from[mem[n].ref] = Listed(mem[n].ref)
      BY <2>2, <3>2, <3>3 DEF wrong
    <3> QED BY <2>3, <3>4, ListedAlong
  <2>5. CASE ~IsWord(n)
    BY <2>3, <2>5 DEF Along, Listed
  <2> QED BY <2>4, <2>5
<1> QED BY <1>1, <1>5 DEF OuterInv, OuterTypeOK

(* The words are those of a set of headers, in order: the one at an        *)
(* address is as far up as there are headers up to it.                     *)
Stacked(list, headers, top, cells) ==
  /\ headers \subseteq 1..MaxCells
  /\ list \in Seq(Entries) /\ Len(list) = Count(headers, top)
  /\ \A a \in headers :
       /\ Count(headers, a) \in 1..Count(headers, top)
       /\ list[Count(headers, a)] = [name |-> cells[a].name, flags |-> cells[a].flags]
  /\ \A i \in 1..Count(headers, top) : \E a \in headers : Count(headers, a) = i

LEMMA WordsStacked == OuterInv => Stacked(Words, Headers, head, mem)
<1> SUFFICES ASSUME OuterInv
             PROVE  Stacked(Words, Headers, head, mem)
  OBVIOUS
<1>1. Headers \subseteq 1..MaxCells /\ \A a : Count(Headers, a) = UpTo(a)
  BY DEF Headers, Count, UpTo
<1>2. Words = Listed(head)
  BY WordsListed
<1>3. CASE head \in Headers
  <2>1. \A a \in Headers : a <= head
    BY HeadersAllottedOK DEF OuterInv, Linked, NewestBelow, HeadersAllotted
  <2>2. ASSUME NEW a \in Headers
        PROVE  UpTo(a) \in 1..UpTo(head)
    <3>1. UpTo(a) = UpTo(mem[a].ref) + 1
      BY Links
    <3>2. UpTo(a) <= UpTo(head)
      BY <2>1, UpToMonotone, <1>1
    <3>3. UpTo(mem[a].ref) \in Nat /\ UpTo(head) \in Nat
      BY UpToNat
    <3> QED BY <3>1, <3>2, <3>3
  <2>3. \A a \in Headers : Listed(head)[UpTo(a)] = EntryOf(a)
    BY <1>3, <2>2, ListedOK, WordAtOK
  <2>4. Listed(head) \in Seq(Entries) /\ Len(Listed(head)) = UpTo(head)
    BY <1>3, ListedOK
  <2>5. \A i \in 1..UpTo(head) : \E a \in Headers : UpTo(a) = i
    BY <1>3, UpToReaches
  <2> QED BY <1>1, <1>2, <2>2, <2>3, <2>4, <2>5 DEF Stacked, EntryOf
<1>4. CASE head = Kernel
  <2>1. Headers = {}
    BY <1>4, HeadersAllottedOK DEF OuterInv, Linked, NewestBelow, HeadersAllotted, Kernel
  <2>2. Listed(head) = <<>> /\ UpTo(head) = 0
    BY <1>4, UpToKernel DEF Listed, IsWord
  <2> QED BY <1>1, <1>2, <2>1, <2>2 DEF Stacked
<1> QED BY <1>3, <1>4 DEF OuterInv, Linked, NewestBelow

LEMMA NextWordsStacked == OuterInv' => Stacked(Words', Headers', head', mem')
<1> DEFINE ok == Stacked(Words, Headers, head, mem)
<1>1. OuterInv => ok
  BY WordsStacked
<1> HIDE DEF ok
<1>2. OuterInv' => ok'
  BY <1>1, PTL
<1> QED BY <1>2 DEF ok

----------------------------------------------------------------------------
(* Each kind of step is one of the dictionary's, or none.                  *)
SavedWords == IF saved.kept THEN {UpTo(saved.head)} ELSE {}

DictionaryStep == Dict!Edit \/ Dict!Return \/ UNCHANGED <<Words, UpTo(fence), SavedWords>>

LEMMA PrimedCounts ==
  /\ UpTo(fence)' = Count(Headers', fence') /\ UpTo(fence) = Count(Headers, fence)
  /\ UpTo(saved.head)' = Count(Headers', saved'.head)
  /\ UpTo(saved.head) = Count(Headers, saved.head)
  /\ SavedWords' = IF saved'.kept THEN {Count(Headers', saved'.head)} ELSE {}
  /\ SavedWords = IF saved.kept THEN {Count(Headers, saved.head)} ELSE {}
BY DEF UpTo, Count, SavedWords

LEMMA SameStack ==
  ASSUME NEW list, NEW other, NEW headers, NEW top, NEW cells, NEW others,
         Stacked(list, headers, top, cells), Stacked(other, headers, top, others),
         \A a \in headers : others[a] = cells[a]
  PROVE  other = list
<1>1. list \in Seq(Entries) /\ other \in Seq(Entries) /\ Len(other) = Len(list)
  BY DEF Stacked
<1>2. ASSUME NEW i \in 1..Len(other)
      PROVE  other[i] = list[i]
  <2>1. PICK a \in headers : Count(headers, a) = i
    BY DEF Stacked
  <2>2. list[i] = [name |-> cells[a].name, flags |-> cells[a].flags]
    BY <2>1 DEF Stacked
  <2>3. other[i] = [name |-> others[a].name, flags |-> others[a].flags]
    BY <2>1 DEF Stacked
  <2> QED BY <2>2, <2>3
<1> QED BY <1>1, <1>2, SeqEqual

LEMMA CodeStep ==
  ASSUME OuterInv, OuterInv', CodeAppended
  PROVE  DictionaryStep
<1>1. Headers' = Headers /\ (\A a \in Headers : mem'[a] = mem[a]) /\ head' = head
  BY CodeHeaders DEF CodeAppended
<1>2. Stacked(Words, Headers, head, mem) /\ Stacked(Words', Headers, head, mem')
  BY <1>1, WordsStacked, NextWordsStacked
<1>3. Words' = Words
  BY <1>1, <1>2, SameStack
<1>4. Len(Words) = Count(Headers, head)
  BY <1>2 DEF Stacked
<1>5. CASE fence' = fence /\ saved' = saved
  BY <1>1, <1>3, <1>5, PrimedCounts DEF DictionaryStep
<1>6. CASE fence' = head /\ saved' = saved
  <2>1. UpTo(fence)' = Len(Words) /\ SavedWords' = SavedWords
    BY <1>1, <1>4, <1>6, PrimedCounts
  <2> QED BY <1>3, <2>1 DEF DictionaryStep, Dict!Edit, Dict!Fence, SavedWords
<1>7. CASE fence' = fence /\ saved' = [head |-> head, dp |-> dp, kept |-> TRUE]
  <2>1. UpTo(fence)' = UpTo(fence) /\ SavedWords' = {Len(Words)}
    BY <1>1, <1>4, <1>7, PrimedCounts
  <2> QED BY <1>3, <2>1 DEF DictionaryStep, Dict!Edit, Dict!Save, SavedWords
<1> QED BY <1>5, <1>6, <1>7 DEF CodeAppended, Noted

LEMMA NewestNat ==
  ASSUME NEW a, NEW top, NewestBelow(a, top)
  PROVE  a \in Nat
BY DEF NewestBelow, Headers, Kernel

(* What a cut leaves of the words is a lower part of them.                 *)
LEMMA CutLeaves ==
  ASSUME OuterInv, OuterInv', CutOff
  PROVE  /\ Words \in Seq(Entries) /\ Len(Words) = UpTo(head)
         /\ Len(Words') = Count(Headers, head') /\ Len(Words') <= Len(Words)
         /\ Words' = SubSeq(Words, 1, Len(Words'))
<1>1. /\ Headers' = {a \in Headers : a < dp'} /\ \A a \in Headers' : mem'[a] = mem[a]
      /\ NewestBelow(head', dp')
  BY HeadersLeft DEF CutOff
<1>2. Stacked(Words, Headers, head, mem) /\ Stacked(Words', Headers', head', mem')
  BY WordsStacked, NextWordsStacked
<1>3. dp' \in 1..dp /\ head' < dp' /\ Headers \in SUBSET (1..MaxCells) /\ Sizes /\ head' \in Nat
  <2>1. Headers \in SUBSET (1..MaxCells) /\ Sizes
    BY SizesOK, UpToCounts
  <2>2. head' \in Nat
    BY <1>1, NewestNat
  <2> QED BY <1>1, <2>1, <2>2 DEF CutOff, NewestBelow
<1>4. ASSUME NEW a \in Nat, a < dp'
      PROVE  Count(Headers', a) = Count(Headers, a)
  <2>1. \A c \in Headers : c <= a => c < dp'
    BY <1>3, <1>4 DEF Sizes
  <2>2. \A c : (c \in Headers' /\ c <= a) <=> (c \in Headers /\ c <= a)
    BY <1>1, <2>1
  <2> QED BY <2>2, CountSame
<1>5. Len(Words') = Count(Headers, head') /\ Count(Headers', head') = Count(Headers, head')
  BY <1>2, <1>3, <1>4 DEF Stacked
<1>6. \A c \in Headers : c <= head
  BY HeadersAllottedOK DEF OuterInv, Linked, NewestBelow, HeadersAllotted
<1>7. Count(Headers, head') <= Count(Headers, head)
  BY <1>3, <1>6, CountMonotone
<1>8. Len(Words) = Count(Headers, head) /\ Words \in Seq(Entries) /\ Words' \in Seq(Entries)
  BY <1>2 DEF Stacked
<1> DEFINE n == Len(Words')
<1>9. n \in Nat /\ n <= Len(Words) /\ Len(Words) \in Nat
  BY <1>5, <1>7, <1>8
<1>10. SubSeq(Words, 1, n) \in Seq(Entries) /\ Len(SubSeq(Words, 1, n)) = n
       /\ \A i \in 1..n : SubSeq(Words, 1, n)[i] = Words[i]
  <2> HIDE DEF n
  <2>1. \A i \in 1..n : Words[i] \in Entries
    BY <1>8, <1>9
  <2> QED BY <1>9, <2>1, SubSeqProperties
<1>11. ASSUME NEW i \in 1..n
       PROVE  Words'[i] = Words[i]
  <2>1. i \in 1..Count(Headers', head')
    BY <1>5
  <2>2. PICK a \in Headers' : Count(Headers', a) = i
    BY <1>2, <2>1 DEF Stacked
  <2>3. Words'[i] = [name |-> mem'[a].name, flags |-> mem'[a].flags]
    BY <1>2, <2>2 DEF Stacked
  <2>4. a \in Headers /\ a < dp' /\ a \in Nat /\ mem'[a] = mem[a]
    BY <1>1, <1>3
  <2>5. Count(Headers, a) = i
    BY <1>4, <2>2, <2>4
  <2>6. Words[i] = [name |-> mem[a].name, flags |-> mem[a].flags]
    BY <1>2, <2>4, <2>5 DEF Stacked
  <2> QED BY <2>3, <2>4, <2>6
<1>12. Words' = SubSeq(Words, 1, n)
  <2> HIDE DEF n
  <2>1. Len(Words') = n
    BY DEF n
  <2> QED BY <1>8, <1>10, <1>11, <2>1, SeqEqual
<1> QED BY <1>5, <1>8, <1>9, <1>12, PrimedCounts, UpToCounts

(* The number of words below an address, before and after a cut at cut.    *)
LEMMA CutCounts ==
  ASSUME NEW headers \in SUBSET (1..MaxCells), NEW cut \in Nat, NEW newest,
         newest < cut, \A c \in headers : c < cut => c <= newest,
         NEW a \in Nat, newest \in Nat
  PROVE  LET left == {c \in headers : c < cut}
         IN  /\ a < cut => /\ Count(left, a) = Count(headers, a)
                           /\ Count(headers, a) <= Count(headers, newest)
             /\ ~(a < cut) => /\ Count(left, a) = Count(headers, newest)
                              /\ Count(headers, newest) <= Count(headers, a)
<1> DEFINE left == {c \in headers : c < cut}
<1>1. \A c \in headers : c \in Nat
  OBVIOUS
<1>2. CASE a < cut
  <2>0. \A c \in headers : c <= a => c < cut
    BY <1>1, <1>2
  <2>1. \A c : (c \in left /\ c <= a) <=> (c \in headers /\ c <= a)
    BY <2>0
  <2>2. \A c \in headers : c <= a => c <= newest
    BY <1>1, <1>2
  <2> QED BY <1>2, <2>1, <2>2, CountSame, CountMonotone
<1>3. CASE ~(a < cut)
  <2>1. \A c \in headers : (c < cut /\ c <= a) <=> c <= newest
    BY <1>1, <1>3
  <2>2. \A c : (c \in left /\ c <= a) <=> (c \in headers /\ c <= newest)
    BY <2>1
  <2>3. \A c \in headers : c <= newest => c <= a
    BY <1>1, <1>3
  <2> QED BY <1>3, <2>2, <2>3, CountSame, CountMonotone
<1> QED BY <1>2, <1>3

(* The same in a step that cuts memory off.                                *)
LEMMA CutOffCounts ==
  ASSUME OuterInv, CutOff, NEW a \in Nat
  PROVE  /\ a < dp' => /\ Count(Headers', a) = Count(Headers, a)
                       /\ Count(Headers, a) <= Count(Headers, head')
         /\ ~(a < dp') => /\ Count(Headers', a) = Count(Headers, head')
                          /\ Count(Headers, head') <= Count(Headers, a)
<1>1. Headers' = {c \in Headers : c < dp'} /\ NewestBelow(head', dp')
  BY HeadersLeft DEF CutOff
<1>2. Headers \in SUBSET (1..MaxCells) /\ Sizes
  BY SizesOK, UpToCounts
<1>3. head' \in Nat
  BY <1>1, NewestNat
<1>4. dp' \in Nat
  BY <1>2 DEF CutOff, Sizes
<1> QED BY <1>1, <1>2, <1>3, <1>4, CutCounts DEF NewestBelow

LEMMA WordCutStep ==
  ASSUME OuterInv, OuterInv', fence \in 0..MaxCells, WordCut
  PROVE  DictionaryStep
<1> DEFINE n == Count(Headers, head')
<1>1. /\ Len(Words') = n /\ n <= Len(Words) /\ Words' = SubSeq(Words, 1, n)
      /\ Words \in Seq(Entries) /\ Len(Words) = Count(Headers, head)
  BY CutLeaves, PrimedCounts, UpToCounts DEF WordCut
<1>2. Headers \in SUBSET (1..MaxCells) /\ Sizes /\ fence \in Nat /\ fence' = fence
  BY SizesOK, UpToCounts DEF WordCut, Sizes
<1>3. dp' \in Headers /\ NewestBelow(head', dp') /\ dp' \in Nat /\ dp' <= dp
  BY <1>2 DEF WordCut, CutOff, Sizes
<1>4. n \in Nat /\ Count(Headers, dp') = n + 1
  <2>1. UpTo(dp') = UpTo(head') + 1
    BY <1>3, UpToNext
  <2> QED BY <1>2, <2>1, UpToCounts, CountNat
<1>5. UpTo(fence)' = Count(Headers', fence) /\ UpTo(fence) = Count(Headers, fence)
      /\ UpTo(fence) \in Nat
  BY <1>2, PrimedCounts, UpToNat
<1>6. /\ fence < dp' => UpTo(fence)' = UpTo(fence) /\ UpTo(fence) <= n
      /\ ~(fence < dp') => UpTo(fence)' = n /\ n <= UpTo(fence)
  BY <1>2, <1>5, CutOffCounts DEF WordCut
<1>7. SavedWords' = {k \in SavedWords : k <= n}
  <2>1. CASE ~saved.kept
    <3>1. ~saved'.kept
      BY <2>1, CutSaved DEF WordCut
    <3> QED BY <2>1, <3>1, PrimedCounts
  <2>2. CASE saved.kept
    <3> DEFINE k == Count(Headers, saved.head)
    <3>1. /\ saved.dp \in 1..dp /\ NewestBelow(saved.head, saved.dp) /\ saved.head \in 0..MaxCells
      BY <2>2 DEF OuterInv, SavedOK, OuterTypeOK
    <3>2. saved.dp \in Nat /\ saved.head \in Nat /\ saved.head < saved.dp /\ k \in Nat
      <4>1. k \in Nat
        BY <1>2, CountNat
      <4> HIDE DEF k
      <4> QED BY <1>2, <3>1, <4>1, NewestNat DEF NewestBelow
    <3>3. CASE saved.dp <= dp'
      <4>1. saved' = saved /\ saved.head < dp'
        BY <1>3, <2>2, <3>2, <3>3, CutSaved DEF WordCut
      <4>2. Count(Headers', saved.head) = k /\ k <= n
        BY <3>2, <4>1, CutOffCounts DEF WordCut
      <4> QED BY <2>2, <4>1, <4>2, PrimedCounts
    <3>4. CASE ~(saved.dp <= dp')
      <4>1. ~saved'.kept
        BY <3>4, CutSaved DEF WordCut
      <4>2. dp' < saved.dp
        BY <1>3, <3>2, <3>4
      <4>3. dp' <= saved.head
        BY <1>3, <3>1, <4>2 DEF NewestBelow
      <4>4. \A c \in Headers : c <= dp' => c <= saved.head
        BY <1>2, <1>3, <3>2, <4>3
      <4>5. n + 1 <= k
        BY <1>2, <1>4, <4>4, CountMonotone
      <4>6. ~(k <= n)
        BY <1>4, <3>2, <4>5
      <4>7. SavedWords = {k}
        BY <2>2, PrimedCounts
      <4>8. SavedWords' = {}
        BY <4>1, PrimedCounts
      <4> HIDE DEF k, n
      <4> QED BY <4>6, <4>7, <4>8
    <3> QED BY <3>3, <3>4
  <2> QED BY <2>1, <2>2
<1>8. Len(Words) \in Nat /\ n + 1 <= Len(Words)
  <2>1. \A c \in Headers : c <= dp' => c <= head
    BY <1>3, HeadersAllottedOK DEF OuterInv, Linked, NewestBelow, HeadersAllotted
  <2>2. Count(Headers, dp') <= Count(Headers, head)
    BY <1>2, <2>1, CountMonotone
  <2> QED BY <1>1, <1>2, <1>4, <2>2, CountNat
<1> HIDE DEF n
<1>9. CASE dp' = head
  <2>1. n = Len(Words) - 1 /\ Words # <<>>
    BY <1>1, <1>4, <1>8, <1>9
  <2>2. UpTo(fence)' = IF UpTo(fence) > Len(Words') THEN Len(Words') ELSE UpTo(fence)
    BY <1>1, <1>4, <1>5, <1>6
  <2>3. Words' = SubSeq(Words, 1, Len(Words) - 1) /\ SavedWords' = {k \in SavedWords : k <= Len(Words')}
    BY <1>1, <1>7, <2>1
  <2> QED BY <2>1, <2>2, <2>3 DEF DictionaryStep, Dict!Edit, Dict!CleanUp, Dict!StillSaved, SavedWords
<1>10. CASE fence < dp'
  <2>1. UpTo(fence)' = UpTo(fence) /\ UpTo(fence) <= Len(Words') /\ Len(Words') < Len(Words)
    BY <1>1, <1>4, <1>6, <1>8, <1>10
  <2>2. Words' = SubSeq(Words, 1, Len(Words')) /\ SavedWords' = {k \in SavedWords : k <= Len(Words')}
    BY <1>1, <1>7
  <2> QED BY <2>1, <2>2 DEF DictionaryStep, Dict!Edit, Dict!Forget, Dict!StillSaved, SavedWords
<1> QED BY <1>9, <1>10 DEF WordCut

LEMMA ColdStep ==
  ASSUME OuterInv, OuterInv', KeptStart
  PROVE  DictionaryStep
<1> DEFINE n == Count(Headers, head')
<1>1. CutOff /\ saved' = saved /\ saved.kept /\ head' = saved.head /\ fence' = saved.head
  BY ColdCutsOff DEF KeptStart, ColdStart
<1>2. Len(Words') = n /\ Words' = SubSeq(Words, 1, n)
  BY <1>1, CutLeaves
<1>3. dp' = saved.dp /\ saved.head < saved.dp /\ saved.head \in 0..MaxCells
  BY <1>1 DEF KeptStart, ColdStart, FreeFrom, OuterInv, SavedOK, OuterTypeOK, NewestBelow
<1>4. saved.head \in Nat
  BY <1>3
<1>5. Count(Headers', saved.head) = n
  BY <1>1, <1>3, <1>4, CutOffCounts
<1>6. UpTo(fence)' = n /\ SavedWords = {n} /\ SavedWords' = {n}
  BY <1>1, <1>5, PrimedCounts
<1> HIDE DEF n
<1> QED BY <1>2, <1>6 DEF DictionaryStep, Dict!Return, SavedWords

LEMMA HeaderStep ==
  ASSUME OuterInv, OuterInv', fence \in 0..MaxCells, HeaderAppended
  PROVE  DictionaryStep
<1>1. Headers' = Headers \cup {dp} /\ (\A a \in Headers : mem'[a] = mem[a]) /\ head' = dp
      /\ fence' = fence /\ saved' = saved
  BY NewHeader DEF HeaderAppended
<1>2. Headers \in SUBSET (1..MaxCells) /\ Sizes /\ HeadersAllotted /\ fence \in Nat
  BY SizesOK, HeadersAllottedOK, UpToCounts DEF Sizes
<1>3. Stacked(Words, Headers, head, mem) /\ Stacked(Words', Headers', dp, mem')
  BY <1>1, WordsStacked, NextWordsStacked
<1>4. Headers' \in SUBSET (1..MaxCells) /\ dp \notin Headers /\ \A c \in Headers : c < dp /\ c \in Nat
  BY <1>2, <1>3 DEF HeadersAllotted, Sizes, Stacked
<1> DEFINE n == Count(Headers, head)
<1>5. \A c \in Headers : c <= head
  BY <1>4 DEF OuterInv, Linked, NewestBelow
<1>6. ASSUME NEW a \in Nat, a < dp
      PROVE  Count(Headers', a) = Count(Headers, a)
  <2>1. ~(dp <= a)
    BY <1>2, <1>6 DEF Sizes
  <2>2. \A c : (c \in Headers' /\ c <= a) <=> (c \in Headers /\ c <= a)
    BY <1>1, <2>1
  <2> QED BY <2>2, CountSame
<1>7. ASSUME NEW a \in Nat, ~(a < dp)
      PROVE  Count(Headers', a) = n + 1 /\ Count(Headers, a) = n
  <2>1. dp <= a /\ \A c \in Headers : c <= a
    BY <1>2, <1>4, <1>7 DEF Sizes
  <2>2. \A c \in Headers' : c <= a /\ c <= dp
    BY <1>1, <1>2, <1>4, <2>1 DEF Sizes
  <2>3. \A c : (c \in Headers /\ c <= a) <=> (c \in Headers /\ c <= head)
    BY <1>5, <2>1
  <2>4. \A c : (c \in Headers' /\ c <= dp) <=> (c \in Headers /\ c <= head) \/ c = dp
    BY <1>1, <1>5, <2>2
  <2>5. Count(Headers', dp) = n + 1
    BY <1>1, <1>2, <1>4, <2>4, CountOneMore
  <2> QED BY <2>2, <2>3, <2>5, CountSame
<1>8. dp \in Nat /\ ~(dp < dp) /\ n \in Nat
  <2>1. dp \in Nat /\ ~(dp < dp)
    BY <1>2 DEF Sizes
  <2>2. n \in Nat
    BY <1>2, CountNat
  <2> QED BY <2>1, <2>2
<1>9. /\ Words \in Seq(Entries) /\ Words' \in Seq(Entries)
      /\ Len(Words) = n /\ Len(Words') = n + 1
  BY <1>3, <1>7, <1>8 DEF Stacked
<1>10. ASSUME NEW i \in 1..n
       PROVE  Words'[i] = Words[i]
  <2>1. PICK a \in Headers : Count(Headers, a) = i
    BY <1>3 DEF Stacked
  <2>2. Count(Headers', a) = i /\ a \in Headers' /\ mem'[a] = mem[a]
    BY <1>1, <1>4, <1>6, <2>1
  <2>3. Words[i] = [name |-> mem[a].name, flags |-> mem[a].flags]
    BY <1>3, <2>1 DEF Stacked
  <2>4. Words'[i] = [name |-> mem'[a].name, flags |-> mem'[a].flags]
    BY <1>3, <2>2 DEF Stacked
  <2> QED BY <2>2, <2>3, <2>4
<1> HIDE DEF n
<1>11. SubSeq(Words', 1, Len(Words)) = Words
  <2> DEFINE s == SubSeq(Words', 1, n)
  <2>1. \A i \in 1..n : Words'[i] \in Entries
    BY <1>8, <1>9
  <2>2. s \in Seq(Entries) /\ Len(s) = n /\ \A i \in 1..n : s[i] = Words'[i]
    BY <1>8, <2>1, SubSeqProperties
  <2> HIDE DEF s
  <2>3. s = Words
    BY <1>9, <1>10, <2>2, SeqEqual
  <2> QED BY <1>9, <2>3 DEF s
<1>12. Words'[Len(Words')] \in Entries
  BY <1>8, <1>9
<1>13. UpTo(fence)' \in IF UpTo(fence) = Len(Words) THEN {UpTo(fence), UpTo(fence) + 1}
                        ELSE {UpTo(fence)}
  BY <1>1, <1>2, <1>6, <1>7, <1>9, PrimedCounts
<1>14. SavedWords' = SavedWords
  <2>1. CASE saved.kept
    <3>1. saved.dp \in 1..dp /\ NewestBelow(saved.head, saved.dp)
      BY <2>1 DEF OuterInv, SavedOK
    <3>2. saved.head \in Nat /\ saved.head < dp
      BY <1>2, <3>1, NewestNat DEF NewestBelow, Sizes
    <3> QED BY <1>1, <1>6, <3>2, PrimedCounts
  <2>2. CASE ~saved.kept
    BY <1>1, <2>2, PrimedCounts
  <2> QED BY <2>1, <2>2
<1> QED BY <1>9, <1>11, <1>12, <1>13, <1>14
    DEF DictionaryStep, Dict!Edit, Dict!Define, SavedWords, Entries

LEMMA FlagStep ==
  ASSUME OuterInv, OuterInv', Flagged
  PROVE  DictionaryStep
<1>1. /\ Headers' = Headers /\ head \in Headers /\ UNCHANGED <<head, fence, saved>>
      /\ \A a \in Headers \ {head} : mem'[a] = mem[a]
      /\ mem'[head].name = mem[head].name
  <2>1. \A a \in Headers : mem'[a].name = mem[a].name
    BY FlagHeaders, HeadersAllottedOK DEF HeadersAllotted
  <2> QED BY <2>1, FlagHeaders
<1>2. Stacked(Words, Headers, head, mem) /\ Stacked(Words', Headers, head, mem')
  BY <1>1, WordsStacked, NextWordsStacked
<1> DEFINE n == Count(Headers, head)
<1>3. /\ Words \in Seq(Entries) /\ Words' \in Seq(Entries) /\ Len(Words) = n /\ Len(Words') = n
      /\ n \in 1..n
  BY <1>1, <1>2 DEF Stacked
<1>4. Words'[n].name = Words[n].name
  <2>1. Words[n] = [name |-> mem[head].name, flags |-> mem[head].flags]
    BY <1>1, <1>2 DEF Stacked
  <2>2. Words'[n] = [name |-> mem'[head].name, flags |-> mem'[head].flags]
    BY <1>1, <1>2 DEF Stacked
  <2> QED BY <1>1, <2>1, <2>2
<1>5. ASSUME NEW i \in 1..n, i # n
      PROVE  Words'[i] = Words[i]
  <2>1. PICK a \in Headers : Count(Headers, a) = i
    BY <1>2 DEF Stacked
  <2>2. mem'[a] = mem[a]
    BY <1>1, <1>5, <2>1
  <2>3. Words[i] = [name |-> mem[a].name, flags |-> mem[a].flags]
    BY <1>2, <2>1 DEF Stacked
  <2>4. Words'[i] = [name |-> mem'[a].name, flags |-> mem'[a].flags]
    BY <1>2, <2>1 DEF Stacked
  <2> QED BY <2>2, <2>3, <2>4
<1>6. UpTo(fence)' = UpTo(fence) /\ SavedWords' = SavedWords
  BY <1>1, PrimedCounts
<1> HIDE DEF n
<1>7. Words'[n] \in Entries /\ Words # <<>>
  BY <1>3
<1>8. Words' = [Words EXCEPT ![n] = Words'[n]]
  <2> DEFINE s == [Words EXCEPT ![n] = Words'[n]]
  <2>1. /\ s \in Seq(Entries) /\ Len(s) = Len(Words)
        /\ \A i \in 1..Len(Words) : s[i] = IF i = n THEN Words'[n] ELSE Words[i]
    BY <1>3, <1>7, ExceptSeq
  <2> HIDE DEF s
  <2>2. \A i \in 1..Len(Words') : Words'[i] = s[i]
    BY <1>3, <1>5, <2>1
  <2>3. Words' = s
    BY <1>3, <2>1, <2>2, SeqEqual
  <2> QED BY <2>3 DEF s
<1> QED BY <1>3, <1>4, <1>6, <1>7, <1>8
    DEF DictionaryStep, Dict!Edit, Dict!Mark, SavedWords, Entries
----------------------------------------------------------------------------
(* The text interpreter treats its dictionary as a stack of words: every   *)
(* step of it defines the newest word or marks it, forgets words down to   *)
(* one above the fence, takes back the newest one after an error, notes    *)
(* where the newest one is, or goes back to what was saved; unless one of  *)
(* the words that were saved was removed, upon which a cold start goes     *)
(* astray.                                                                 *)
THEOREM OuterImplementsDictionary == OuterSpec => ImplementsDictionary
<1>1. ASSUME ~astray, Sound, StepKind, ~astray'
      PROVE  DictionaryStep
  <2>1. OuterInv'
    BY <1>1, EveryStep DEF Sound
  <2> QED BY <1>1, <2>1, CodeStep, HeaderStep, WordCutStep, FlagStep, ColdStep DEF StepKind, Sound
<1>2. ASSUME Sound, LostStart
      PROVE  SavedWords = {} /\ SavedWords' = {} /\ astray' = TRUE
  <2> DEFINE still == saved.dp <= saved.dp
  <2>1. saved \in [head : 0..MaxCells, dp : 0..MaxCells, kept : BOOLEAN] /\ still \in BOOLEAN
    BY <1>2 DEF Sound, OuterInv, OuterTypeOK
  <2>2. saved' = [saved EXCEPT !.kept = saved.kept /\ still]
    BY <1>2 DEF LostStart, ColdStart, FreeFrom
  <2> HIDE DEF still
  <2>3. ~saved.kept /\ astray' = (~saved.kept)
    BY <1>2 DEF LostStart, ColdStart
  <2>4. ~saved'.kept
    BY <2>1, <2>2, <2>3
  <2> QED BY <2>3, <2>4 DEF SavedWords
<1>3. ASSUME SoundUntil, [Next]_ovars
      PROVE  [Dict!Next]_<<Words, UpTo(fence), SavedWords, astray>>
  <2>1. CASE Next
    <3>1. Sound /\ astray = FALSE /\ astray' \in BOOLEAN
      BY <1>3, <2>1 DEF Next, SoundUntil, ColdStart
    <3>2. CASE StepKind /\ ~astray'
      <4>1. DictionaryStep /\ ~astray /\ astray' = astray
        BY <1>1, <3>1, <3>2
      <4> QED BY <4>1, Zenon DEF DictionaryStep, Dict!Next
    <3>3. CASE LostStart
      BY <1>2, <3>1, <3>3 DEF Dict!Next, Dict!GoAstray, SavedWords
    <3> QED BY <2>1, <3>1, <3>2, <3>3, StepKinds DEF Sound
  <2>2. CASE UNCHANGED ovars
    BY <2>2 DEF ovars, SavedWords, Words, UpTo, Headers, IsWord
  <2> QED BY <1>3, <2>1, <2>2
<1>4. Init => ~astray
  BY DEF Init
<1>5. SoundUntil /\ [Next]_ovars =>
        [Dict!Next]_<<Words, UpTo(fence), IF saved.kept THEN {UpTo(saved.head)} ELSE {}, astray>>
  BY <1>3 DEF SavedWords
<1> QED BY <1>4, <1>5, OuterInvariant, PTL DEF OuterSpec, ImplementsDictionary, Dict!Spec
============================================================================
