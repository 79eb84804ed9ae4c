-------------------------------- MODULE Words ---------------------------------
(***************************************************************************)
(* 32-bit instruction words as sets of bit positions, and 64-bit constants *)
(* as four 16-bit chunks (least significant first), so that nothing the    *)
(* encoders compute leaves the integers TLC has.                           *)
(***************************************************************************)
EXTENDS Integers, Sequences, FiniteSetsExt

\* The low bits of v, in two's complement, put at bit lo.
Field(v, lo, width) == {lo + i : i \in {j \in 0..(width - 1) : (v \div 2^j) % 2 = 1}}
\* 0xHHHHLLLL
Hex(high, low) == Field(high, 16, 16) \cup Field(low, 0, 16)

\* The number in the bits lo .. lo + width - 1, unsigned and signed.
Num(w, lo, width) == MapThenSumSet(LAMBDA i : 2^(i - lo), w \cap (lo..(lo + width - 1)))
Signed(n, width)  == IF n < 2^(width - 1) THEN n ELSE n - 2^width
SNum(w, lo, width) == Signed(Num(w, lo, width), width)
\* The bits of w that mask selects are exactly those of pattern.
Matches(w, mask, pattern) == w \cap mask = pattern
-------------------------------------------------------------------------------
\* A 64-bit constant and the one an int32_t becomes.
Const(c0, c1, c2, c3) == <<"const", c0, c1, c2, c3>>
Small(n) == LET s == IF n < 0 THEN 65535 ELSE 0
            IN  Const(n % 65536, (n \div 65536) % 65536, s, s)
Zero == Small(0)
\* static_cast<uint32_t>
Low32(c) == Const(c[2], c[3], 0, 0)
\* The constant plus a small number, modulo 2^64.
Plus(c, n) == LET s0 == c[2] + n
                  s1 == c[3] + s0 \div 65536
                  s2 == c[4] + s1 \div 65536
                  s3 == c[5] + s2 \div 65536
              IN  Const(s0 % 65536, s1 % 65536, s2 % 65536, s3 % 65536)
===============================================================================
