----------------------------- MODULE Dictionary -----------------------------
(***************************************************************************)
(* What the text interpreter promises of its dictionary: words form a      *)
(* stack.  A definition goes on top, FORGET removes a word and all newer   *)
(* ones unless it is fenced, the clean-up after an error removes the       *)
(* newest word, and a cold start goes back to the words that were saved,   *)
(* or astray if one of them was removed.                                   *)
(***************************************************************************)
EXTENDS Naturals, Sequences

CONSTANT Entry   \* a name with its flags

VARIABLES
  words,    \* oldest first
  fenced,   \* how many of them FORGET leaves alone
  saved,    \* how many of them a cold start leaves, unless one was removed
  lost      \* a cold start went to words that were removed

(* A word counts from the start of its definition, finished or not.        *)
(* After a clean-up of fenced words a new one may come to lie under the    *)
(* fence, which stays where it was.                                        *)
Define ==
  /\ Len(words') = Len(words) + 1
  /\ SubSeq(words', 1, Len(words)) = words /\ words'[Len(words')] \in Entry
  /\ fenced' \in IF fenced = Len(words) THEN {fenced, fenced + 1} ELSE {fenced}
  /\ UNCHANGED saved

Mark ==
  /\ words # <<>> /\ Len(words') = Len(words)
  /\ LET marked == words'[Len(words)]
     IN  /\ marked \in Entry /\ marked.name = words[Len(words)].name
         /\ words' = [words EXCEPT ![Len(words)] = marked]
  /\ UNCHANGED <<fenced, saved>>

StillSaved == saved' = {n \in saved : n <= Len(words')}

Forget ==
  /\ fenced <= Len(words') /\ Len(words') < Len(words)
  /\ words' = SubSeq(words, 1, Len(words'))
  /\ StillSaved /\ UNCHANGED fenced

CleanUp ==
  /\ words # <<>>
  /\ words' = SubSeq(words, 1, Len(words) - 1)
  /\ fenced' = IF fenced > Len(words') THEN Len(words') ELSE fenced
  /\ StillSaved

Fence ==
  /\ fenced' = Len(words)
  /\ UNCHANGED <<words, saved>>

Save ==
  /\ saved' = {Len(words)}
  /\ UNCHANGED <<words, fenced>>

Return ==
  /\ \E n \in saved : words' = SubSeq(words, 1, n) /\ fenced' = n
  /\ UNCHANGED saved

Edit == Define \/ Mark \/ Forget \/ CleanUp \/ Fence \/ Save

(* Nothing is promised of the words that a cold start finds if one of      *)
(* those that were saved was removed.                                      *)
GoAstray == saved = {} /\ lost' = TRUE /\ UNCHANGED saved

Next ==
  /\ ~lost
  /\ ((Edit \/ Return) /\ UNCHANGED lost) \/ GoAstray

Spec == ~lost /\ [][Next]_<<words, fenced, saved, lost>>
============================================================================
