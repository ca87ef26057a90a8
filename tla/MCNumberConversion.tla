------------------------ MODULE MCNumberConversion -------------------------
(* Words all over the range and at its ends; every token of up to three of *)
(* the characters at which the code makes a difference, of up to four of   *)
(* those in numbers and literals, some that do not fit in a word, and the  *)
(* escapes; and what longer tokens leave behind shorter ones.              *)
EXTENDS NumberConversion, SequencesExt

MCValues == {1999 * k : k \in 0..32} \cup {1, 9, 10, 99, 100, 255, 256, 4096, 32767, 32768, 32769, 65535}
Some == {39, 45, 48, 49, 57, 70, 92, 98, 102, 120}
All == Some \cup {47, 50, 58, 64, 65, 71, 96, 97, 103, 110}
MCTokens ==
  SeqOf(All, 3) \cup SeqOf(Some, 4) \cup
  { <<54, 53, 53, 51, 53>>, <<54, 53, 53, 51, 54>>, <<55, 48, 48, 48, 48>>, <<45, 51, 50, 55, 54, 57>>,
    <<48, 120, 102, 70, 102, 70>>, <<48, 120, 49, 50, 51, 52, 53>>,
    <<39, 92, 110, 39>>, <<39, 92, 114, 39>>, <<39, 92, 116, 39>> }
MCBeyond == {<<>>, <<49, 39>>, <<39, 39, 49>>}
============================================================================
