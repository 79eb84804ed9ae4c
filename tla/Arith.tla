-------------------------------- MODULE Arith ---------------------------------
(***************************************************************************)
(* The words that integer instructions compute: once by the parser, which  *)
(* folds an instruction with two constant operands                         *)
(* (Parser::optimize_instruction, ana_parser.cpp), and once by the machine *)
(* code that the lowerer emits for it (ana_lowerer.cpp).  A word is its    *)
(* bit pattern, 0..2^WordBits - 1; the /32 family works on its low half.   *)
(* One behaviour is one instruction: parsed, optimised, lowered and run.   *)
(***************************************************************************)
EXTENDS Integers, Bitwise

CONSTANTS
  WordBits,   \* 64
  HalfBits,   \* 32, the width of the /32 family and of an immediate
  Operands    \* the words tried as operands

ASSUME ArithConstants ==
  /\ WordBits \in Nat /\ HalfBits \in Nat /\ WordBits = 2 * HalfBits
  /\ Operands \subseteq 0..(2^WordBits - 1)

VARIABLES
  insn,    \* the instruction: op, wide, src1, src2, c1, c2 (is src constant?)
  source,  \* history: the instruction as it was written
  phase,   \* "parsed", "optimised" or "run"
  result   \* the destination after the run, or Trap

vars == <<insn, source, phase, result>>

Word == 0..(2^WordBits - 1)
Trap == -1    \* #DE: the process is killed

Wrap(x) == x % 2^WordBits
Low(x)  == x % 2^HalfBits

SignedWord(x) == IF x < 2^(WordBits - 1) THEN x ELSE x - 2^WordBits
SignedLow(x)  == IF Low(x) < 2^(HalfBits - 1) THEN Low(x) ELSE Low(x) - 2^HalfBits

\* movsxd, and the cast of an int32_t to a word.
Sext(x) == Wrap(SignedLow(x))

\* Division of C and of IDIV: towards zero.
Quotient(a, b) ==
  LET abs(x) == IF x < 0 THEN -x ELSE x
      q == abs(a) \div abs(b)
  IN IF (a < 0) = (b < 0) THEN q ELSE -q

BinaryOps == {"add", "sub", "mul", "div", "and", "or", "xor", "shl", "shr", "ushr"}
-------------------------------------------------------------------------------
(* Parser::optimize_instruction. *)

\* Seeded fault: the narrowed result is not sign-extended.
NarrowedUnsigned(v) == Low(v)

\* static_cast<int32_t>, then the store to the 64-bit result.
Narrowed(v) == Sext(v)

\* The /32 family: narrowed operands, count masked to the half, result
\* sign-extended.
Folded32(op, a, b) ==
  LET n == b % HalfBits
  IN CASE op = "add"  -> Narrowed(Low(a) + Low(b))
       [] op = "sub"  -> Narrowed(Low(a) - Low(b))
       [] op = "mul"  -> Narrowed(Low(a) * Low(b))
       [] op = "div"  -> IF SignedLow(b) = -1 THEN Narrowed(-Low(a))
                         ELSE Wrap(Quotient(SignedLow(a), SignedLow(b)))
       [] op = "and"  -> Narrowed(Low(a) & Low(b))
       [] op = "or"   -> Narrowed(Low(a) | Low(b))
       [] op = "xor"  -> Narrowed(Low(a) ^^ Low(b))
       [] op = "shl"  -> Narrowed(Low(a) * 2^n)
       [] op = "shr"  -> Wrap(SignedLow(a) \div 2^n)
       [] op = "ushr" -> Narrowed(Low(a) \div 2^n)

Folded64(op, a, b) ==
  LET n == b % WordBits
  IN CASE op = "add"  -> Wrap(a + b)
       [] op = "sub"  -> Wrap(a - b)
       [] op = "mul"  -> Wrap(a * b)
       [] op = "div"  -> IF SignedWord(b) = -1 THEN Wrap(-a)
                         ELSE Wrap(Quotient(SignedWord(a), SignedWord(b)))
       [] op = "and"  -> a & b
       [] op = "or"   -> a | b
       [] op = "xor"  -> a ^^ b
       [] op = "shl"  -> Wrap(a * 2^n)
       [] op = "shr"  -> Wrap(SignedWord(a) \div 2^n)
       [] op = "ushr" -> a \div 2^n

\* A division by zero is left for the runtime guard.
Foldable(i) ==
  /\ i.c1 /\ i.c2 /\ i.op \in BinaryOps
  /\ i.op = "div" => (IF i.wide THEN i.src2 ELSE Low(i.src2)) # 0

Optimised(i) ==
  IF ~Foldable(i) THEN i
  ELSE [i EXCEPT !.op = "move-const", !.src2 = 0,
                 !.src1 = IF i.wide THEN Folded64(i.op, i.src1, i.src2)
                          ELSE Folded32(i.op, i.src1, i.src2)]
-------------------------------------------------------------------------------
(* The machine code of compile_function. *)

\* Seeded fault: one shift is left out of is_i32_op.
RenormalisedPartly == {"add", "sub", "mul", "shl", "shr"}

\* is_i32_op: after these the low half is sign-extended into the register.
\* DIV_I32 extends its own result.
Renormalised == {"add", "sub", "mul", "shl", "shr", "ushr"}

\* A constant second operand of these is a 32-bit immediate, sign-extended by
\* the processor; every other constant is loaded whole.
TakesImm == {"add", "sub", "and", "or", "xor"}

Rhs(i) == IF i.c2 /\ i.op \in TakesImm THEN Sext(i.src2) ELSE i.src2

\* Seeded fault: the guard for a divisor of -1 is missing.
DivideUnguarded(wide, a, b) ==
  IF b = 0 THEN 0
  ELSE LET n == IF wide THEN SignedWord(a) ELSE SignedLow(a)
           d == IF wide THEN SignedWord(b) ELSE SignedLow(b)
           least == IF wide THEN -2^(WordBits - 1) ELSE -2^(HalfBits - 1)
       IN IF d = 0 \/ (n = least /\ d = -1) THEN Trap ELSE Wrap(Quotient(n, d))

\* Seeded fault: a zero divisor skips the division and leaves the dividend.
DivideZeroKeeps(wide, a, b) ==
  IF b = 0 THEN a
  ELSE IF SignedWord(b) = -1 THEN (IF wide THEN Wrap(-a) ELSE Sext(-a))
  ELSE Wrap(Quotient(IF wide THEN SignedWord(a) ELSE SignedLow(a),
                     IF wide THEN SignedWord(b) ELSE SignedLow(b)))

\* Both guards test the whole word of the divisor; IDIV then divides words or
\* halves, and traps on a zero divisor or an unrepresentable quotient.
Divide(wide, a, b) ==
  IF b = 0 THEN 0
  ELSE IF SignedWord(b) = -1 THEN (IF wide THEN Wrap(-a) ELSE Sext(-a))
  ELSE LET n == IF wide THEN SignedWord(a) ELSE SignedLow(a)
           d == IF wide THEN SignedWord(b) ELSE SignedLow(b)
           least == IF wide THEN -2^(WordBits - 1) ELSE -2^(HalfBits - 1)
       IN IF d = 0 \/ (n = least /\ d = -1) THEN Trap ELSE Wrap(Quotient(n, d))

\* The 64-bit instruction; shift counts are masked by the processor.
Raw(i) ==
  LET a == i.src1
      b == Rhs(i)
      n == i.src2 % WordBits
  IN CASE i.op = "add"  -> Wrap(a + b)
       [] i.op = "sub"  -> Wrap(a - b)
       [] i.op = "mul"  -> Wrap(a * b)
       [] i.op = "and"  -> a & b
       [] i.op = "or"   -> a | b
       [] i.op = "xor"  -> a ^^ b
       [] i.op = "shl"  -> Wrap(a * 2^n)
       [] i.op = "shr"  -> Wrap(SignedWord(a) \div 2^n)
       [] i.op = "ushr" -> (IF i.wide THEN a ELSE Low(a)) \div 2^n
       [] i.op = "neg"  -> Wrap(-a)
       [] i.op = "move-const" -> a

Computed(i) ==
  IF i.op = "div" THEN Divide(i.wide, i.src1, i.src2)
  ELSE IF ~i.wide /\ i.op \in Renormalised THEN Sext(Raw(i))
  ELSE Raw(i)
-------------------------------------------------------------------------------
AllForms ==
  [op : BinaryOps \cup {"neg"}, wide : BOOLEAN, src1 : Operands, src2 : Operands,
   c1 : BOOLEAN, c2 : BOOLEAN]

\* The parser gives NEG one operand.
Instructions == {i \in AllForms : i.op = "neg" => ~i.c2 /\ i.src2 = 0}

\* Operands as 32-bit code leaves them: sign-extended.
Normal(x) == x = Sext(x)

\* Instructions of programs that keep to one width: the halves of the /32
\* family are sign-extended and their shift counts below the half, an
\* immediate fits its field, and the /32 negation is not used.
Disciplined(i) ==
  /\ ~i.wide => Normal(i.src1) /\ Normal(i.src2) /\ i.op # "neg"
  /\ ~i.wide /\ i.op \in {"shl", "shr", "ushr"} => i.src2 < HalfBits
  /\ i.c2 /\ i.op \in TakesImm => Normal(i.src2)

Start(S) == insn \in S /\ source = insn /\ phase = "parsed" /\ result = 0

Init == Start({i \in Instructions : Disciplined(i)})

optimize_instruction ==
  /\ phase = "parsed" /\ phase' = "optimised"
  /\ insn' = Optimised(insn)
  /\ UNCHANGED <<source, result>>

Run ==
  /\ phase = "optimised" /\ phase' = "run"
  /\ result' = Computed(insn)
  /\ UNCHANGED <<insn, source>>

Next == optimize_instruction \/ Run

Spec == Init /\ [][Next]_vars

\* Any instruction the parser accepts.
AnySpec == Start(Instructions) /\ [][Next]_vars
-------------------------------------------------------------------------------

\* "Folding now mirrors the backend exactly" (ana_parser.cpp:650-652): the
\* destination holds the same word whether or not the parser folded.
FoldMirrorsBackend == phase = "run" => result = Computed(source)

\* "The /32 opcode family must wrap at 32 bits ... Results are re-normalised by
\* sign-extending" (ana_lowerer.cpp:31-34): from operands that are sign-extended
\* halves a /32 instruction makes a sign-extended half.
HalvesStayNormal ==
  (phase = "run" /\ ~source.wide /\ Normal(source.src1) /\ Normal(source.src2))
    => result = Trap \/ Normal(result)

\* "IDIV raises #DE ... Divide by zero yields 0; INT_MIN / -1 yields INT_MIN"
\* (ana_lowerer.cpp:252-254): no division kills the process.
DivisionTotal == phase = "run" => result # Trap

Bits(x) == {k \in 0..(WordBits - 1) : (x \div 2^k) % 2 = 1}
Sign(v) == IF v < 0 THEN -1 ELSE IF v = 0 THEN 0 ELSE 1

\* q is v divided by d: what is left over has the sign of v and is smaller
\* than d.
IsQuotient(q, v, d) ==
  LET rest == v - q * d
  IN rest * rest < d * d /\ Sign(rest) \in {0, Sign(v)}

\* What the instruction is documented to compute, in terms of the operands'
\* signed values or sets of bits, reduced to the family's width.
Means(i, r) ==
  LET value(x) == IF i.wide THEN SignedWord(x) ELSE SignedLow(x)
      fit(v) == IF i.wide THEN Wrap(v) ELSE Sext(v)
      a == value(i.src1)
      b == value(i.src2)
  IN CASE i.op = "add"  -> r = fit(a + b)
       [] i.op = "sub"  -> r = fit(a - b)
       [] i.op = "mul"  -> r = fit(a * b)
       [] i.op = "neg"  -> r = fit(-a)
       [] i.op = "div"  -> IF b = 0 THEN r = 0
                           ELSE IF b = -1 THEN r = fit(-a)
                           ELSE IsQuotient(value(r), a, b)
       [] i.op = "and"  -> Bits(r) = Bits(i.src1) \cap Bits(i.src2)
       [] i.op = "or"   -> Bits(r) = Bits(i.src1) \cup Bits(i.src2)
       [] i.op = "xor"  -> Bits(r) = (Bits(i.src1) \cup Bits(i.src2))
                                      \ (Bits(i.src1) \cap Bits(i.src2))
       [] i.op = "shl"  -> r = fit(a * 2^(i.src2 % WordBits))
       [] i.op = "shr"  -> r = fit(a \div 2^(i.src2 % WordBits))
       [] i.op = "ushr" -> r = fit((IF i.wide THEN i.src1 ELSE Low(i.src1))
                                     \div 2^(i.src2 % WordBits))

\* The run leaves the word the documented arithmetic defines, folded or not: sums
\* and products modulo the width, `Signed 64-bit integer division' with its two
\* guarded cases (src/README.md:158-167, ana_lowerer.cpp:252), `Arithmetic shift
\* right' for shr and `Logical shift right' for ushr
\* (llm_instructions_learn_anastasia_for_ai.md:125).
RunMeans == phase = "run" => Means(source, result)

\* "Bitwise logical right shift operation" (src/README.md:168, of shr-int/64):
\* zeros come in from the left.
ShrIsLogical ==
  phase = "run" /\ source.op = "shr" /\ source.wide
    => result = source.src1 \div 2^(source.src2 % WordBits)
===============================================================================
