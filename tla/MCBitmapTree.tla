----------------------------- MODULE MCBitmapTree ----------------------------
(* Small instances of BitmapTree: an int of half a word, as in the build.     *)
(*                                                                            *)
(* Words of six bits and two layers: set() hits its bit for the last two of a *)
(* word, so that places are given back and taken again, also the last ones of *)
(* an exhausted tree, whose words on both layers had become 0.                *)
(* _deep: three layers of words of four bits, right for the last one of each. *)
EXTENDS BitmapTree
==============================================================================
