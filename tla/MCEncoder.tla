------------------------------ MODULE MCEncoder -------------------------------
(***************************************************************************)
(* The two halves of AnaEncoder.  The buffer: pages of 8 bytes, so that a  *)
(* few emissions cross a page and a second growth happens; two labels and  *)
(* two relocations, so that both tables overflow; branches reach 12 bytes, *)
(* so that one may be too far.  The instructions: the registers that ModRM *)
(* treats specially and their neighbours, on both sides of 8, and values   *)
(* on both sides of the limits of a signed byte and at the ends of 32 bits.*)
(* The bytes of an instruction do not depend on the buffer: they are tried *)
(* on an empty one.                                                        *)
(***************************************************************************)
EXTENDS Encoder

VARIABLES code, asked

MCGpr    == {0, 1, 4, 5, 8, 12, 13, 15}
MCXmm    == {0, 1, 5, 8, 15}
MCEnds   == {-2147483647, -129, -128, 0, 127, 128, 2147483647}
MCImm64s == {<<0, 0, 0, 0, 0, 0, 0, 0>>, <<1, 2, 3, 4, 5, 6, 7, 8>>,
             <<0, 0, 0, 128, 255, 255, 255, 127>>}

Forms == INSTANCE X86Encodings
           WITH Gpr <- MCGpr, Xmm <- MCXmm, Disps <- MCEnds, Imms <- MCEnds, Imm64s <- MCImm64s

BothInit == Init /\ Forms!Init
Idle     == enc = Constructed(TRUE) /\ place = <<>> /\ image = NotYet /\ ~ denied
BothNext ==
  \/ asked = Forms!Nothing /\ Next /\ UNCHANGED <<code, asked>>
  \/ Idle /\ Forms!Next /\ UNCHANGED vars
BothSpec == BothInit /\ [][BothNext]_<<vars, code, asked>>

\* The bytes of every emitter decode to the instruction it is named for
\* (X86Encodings).
DecodesAsAsked == Forms!DecodesAsAsked
===============================================================================
