---------------------------- MODULE Characters -----------------------------
(***************************************************************************)
(* What all that reads characters shares.                                  *)
(***************************************************************************)
EXTENDS Integers, Sequences

CONSTANT c_base_char_cnt   (* characters are 0 .. c_base_char_cnt - 1      *)

ASSUME CharCountAssumption == c_base_char_cnt \in 1 .. 256

Chars == 0 .. (c_base_char_cnt - 1)

NotExist == -1       (* c_idx_not_exist *)
=============================================================================
