----------------------------- MODULE MCAotLowerer -----------------------------
(***************************************************************************)
(* Both compilers, with one opcode per shape of code, words {0, 1} and     *)
(* up to 4 locals (3 in registers) and 2 parameters.  Two values suffice   *)
(* for data flow: an instruction that takes a word from the wrong place is *)
(* seen from a state in which the two places differ.                       *)
(***************************************************************************)
EXTENDS AotLowerer, TLC

MCVal == {0, 1}
MCCaller == "RBX" :> 0 @@ "R12" :> 1 @@ "R13" :> 0

\* Sensitive to each argument and to their order.
MCAlu(op, a, b) ==
  IF a = Junk \/ b = Junk THEN Junk
  ELSE IF op \in {"neg", "popcount", "z"} THEN (IF a = 0 THEN 1 ELSE 0)
  ELSE IF a = 1 /\ b = 0 THEN 1 ELSE 0

\* A word that no immediate of one bit holds.
MCWide == 0..2
MCImm(c) == c % 2
===============================================================================
