----------------------------- MODULE VirtualCode ------------------------------
(***************************************************************************)
(* What an Anastasia function means: virtual registers with values, and    *)
(* the effects an instruction has outside of them.  Memory belongs to      *)
(* everybody (other threads, the runtime), so a read returns any value and *)
(* an access is an effect; arithmetic is a parameter.                      *)
(***************************************************************************)
CONSTANTS
  Val,            \* machine words
  Alu(_, _, _)    \* Alu(op, a, b): the result of an arithmetic opcode

VARIABLES
  vreg,   \* the value of each register of the running function
  meant   \* the effect of the last instruction

vvars == <<vreg, meant>>

RegOp(r)   == [kind |-> "REGISTER", reg |-> r]
ConstOp(c) == [kind |-> "CONST_INT", const_val |-> c]

Value(o) == IF o.kind = "CONST_INT" THEN o.const_val ELSE vreg[o.reg]

NoEffect == [what |-> "none"]
Branch(b)      == [what |-> "branch", taken |-> b]
Store(a, v)    == [what |-> "store", addr |-> a, val |-> v]
Load(a)        == [what |-> "load", addr |-> a]
Cas(a, e, n)   == [what |-> "cas", addr |-> a, expected |-> e, desired |-> n]
Rmw(op, a, v)  == [what |-> op, addr |-> a, val |-> v]
Simd(a, b, d)  == [what |-> "simd", in1 |-> a, in2 |-> b, out |-> d]
Call(t, al)    == [what |-> "call", this |-> t, aligned |-> al]
Request(al)    == [what |-> "new", aligned |-> al]
Sunk(al)       == [what |-> "sink", aligned |-> al]
Returned(v)    == [what |-> "return", val |-> v]
-------------------------------------------------------------------------------
\* Register d becomes v; the effect is e.
Sets(d, v, e) == vreg' = [vreg EXCEPT ![d] = v] /\ meant' = e
\* No register changes.
Does(e) == UNCHANGED vreg /\ meant' = e

\* dest, src1, src2: dest becomes the result, whatever the three share.
VBinary(op, d, a, b) == Sets(d, Alu(op, Value(a), Value(b)), NoEffect)
VUnary(op, d, a)     == Sets(d, Alu(op, Value(a), Value(a)), NoEffect)
VMove(d, a)          == Sets(d, Value(a), NoEffect)
VLoad(d, base, v)    == Sets(d, v, Load(vreg[base]))
VStore(base, a)      == Does(Store(vreg[base], Value(a)))
\* dest supplies the expected value and receives the value found.
VCas(d, base, n, v)  == Sets(d, v, Cas(vreg[base], vreg[d], vreg[n]))
\* The register and the word in memory are exchanged.
VXchg(base, r, v)    == Sets(r, v, Rmw("xchg", vreg[base], vreg[r]))
VRmw(op, base, a)    == Does(Rmw(op, vreg[base], Value(a)))
VSimd(d, a, b)       == Does(Simd(vreg[a], vreg[b], vreg[d]))
\* Calls find the stack aligned to 16 bytes.
VCall(this)          == Does(Call(vreg[this], TRUE))
VCallTo(d, this, v)  == Sets(d, v, Call(vreg[this], TRUE))
VNew(d, v)           == Sets(d, v, Request(TRUE))
VSink                == Does(Sunk(TRUE))
VIf(op, a, b)        == Does(Branch(Alu(op, Value(a), Value(b))))
VBind(d, c)          == Does(Store(vreg[d], c))
\* The function's registers are gone after it returned.
VReturn(a)           == vreg' = << >> /\ meant' = Returned(Value(a))
VReturnVoid          == vreg' = << >> /\ meant' = NoEffect
===============================================================================
