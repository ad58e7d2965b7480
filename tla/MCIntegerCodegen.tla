------------------------- MODULE MCIntegerCodegen --------------------------
(***************************************************************************)
(* Words of six bits, types of three and of six bits.  Powers below 4^4 are *)
(* the ones for which checked_exp_unsigned has a shortcut, so that the loop *)
(* is also used for powers that fit.  Every word, clean or dirty, is used   *)
(* as second operand.                                                       *)
(***************************************************************************)
EXTENDS IntegerCodegen

MCSmallPowers == {<<4, 4>>}
MCLiteralBases == {-32, -8, -6, -3, -2, -1, 0, 1, 2, 3, 4, 7, 8, 63}
MCOperands == Words

\* Nothing is promised behind a conversion that leaves cut off bytes in the word.
Promised == ~cut
=============================================================================
