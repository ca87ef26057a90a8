------------------------- MODULE MCOuterInterpreter -------------------------
(***************************************************************************)
(* The text interpreter with interchangeable names.  Where COLD would go   *)
(* if it went to freed words tells no two states apart: no property says   *)
(* anything of the state it leads to.                                      *)
(***************************************************************************)
EXTENDS OuterInterpreter, TLC

NameSymmetry == Permutations(Name)

StateView ==
  IF astray THEN <<astray>>
  ELSE <<astray, mem, dp, head, fence, mode, IF saved.kept THEN <<saved>> ELSE <<>>>>
============================================================================
