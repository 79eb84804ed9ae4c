------------------------------- MODULE MCTargets ------------------------------
(***************************************************************************)
(* Targets with functions of three kinds: one instruction in every operand *)
(* form, one on two registers that share a slot, and three blocks that     *)
(* branch to one another around instructions whose code has different      *)
(* lengths.                                                                *)
(***************************************************************************)
EXTENDS Targets

Reg(r)   == [kind |-> "REGISTER", reg |-> r]
Imm(c)   == [kind |-> "CONST_INT", const_val |-> c]
Label(n) == <<FALSE, n, FALSE>>
\* As written where it is defined, and where it is used.
Defined(n) == <<TRUE, n, TRUE>>

\* The registers of the functions: slots at the ends of the area of each kind
\* (v15 of RV64 has the slot of v7).
Locals == [a64 |-> {<<"v", 0>>, <<"v", 31>>}, arm |-> {<<"v", 0>>, <<"v", 31>>},
           rv64 |-> {<<"v", 15>>, <<"v", 23>>}]
Params == [a64 |-> {<<"p", 7>>}, arm |-> {<<"p", 3>>}, rv64 |-> {<<"p", 7>>}]
Consts == [a64 |-> {Zero, Const(0, 0, 4660, 32768)}, arm |-> {Small(65535), Small(-65536)},
           rv64 |-> {Small(-1), Small(4096)}]
\* Offsets of memory accesses that take different encodings.
Offsets == [a64 |-> {0, 12, 32760, 32764}, arm |-> {8, 4095, 70000}, rv64 |-> {8, 2047}]
\* The opcodes whose code means what the opcode does.
Binary == [a64 |-> {"ADD", "SUB", "MUL", "DIV", "AND", "OR", "XOR", "SHL", "USHR", "BTS"},
           arm |-> {"ADD", "SUB", "MUL", "DIV", "AND", "OR", "XOR"},
           rv64 |-> {"ADD", "SUB", "MUL", "DIV", "AND", "OR", "XOR", "SHL", "USHR"}]
Isas == {"a64", "arm", "rv64"}

AllocAt  == Const(\h1230, \h0040, 0, 0)
PopcntAt == Const(\h5000, \h0040, 0, 0)
Classes  == {[size |-> 0, vtable |-> Zero], [size |-> 24, vtable |-> Small(\h7000)]}

Insns(isa) ==
  LET regs == Locals[isa] \cup Params[isa]
      srcs == {Reg(r) : r \in regs} \cup {Imm(c) : c \in Consts[isa]}
      dest == regs
      some == CHOOSE r \in Locals[isa] : TRUE
  IN  {[op |-> o, dest |-> d, src1 |-> a, src2 |-> b] :
         o \in Binary[isa], d \in dest, a \in srcs, b \in srcs}
      \cup {[op |-> o, dest |-> d, src1 |-> a] :
              o \in {"MOVE", "NEG", "POPCOUNT"}, d \in dest, a \in srcs}
      \cup {[op |-> "LOAD_MEM", dest |-> d, base |-> b, offset |-> n] :
              d \in dest, b \in regs, n \in Offsets[isa]}
      \cup {[op |-> o, src1 |-> a, base |-> b, offset |-> n] :
              o \in {"STORE_MEM"} \cup (IF isa = "a64" THEN {"ATOMIC_ADD"} ELSE {}),
              a \in srcs, b \in regs, n \in Offsets[isa]}
      \cup {[op |-> "CALL_VIRT", dest |-> d, src1 |-> a, vtable_slot |-> n, keeps |-> k] :
              d \in dest, a \in srcs, n \in {0, 2}, k \in BOOLEAN}
      \cup {[op |-> "NEW_INSTANCE", dest |-> d, class |-> c] : d \in dest, c \in Classes}
      \cup {[op |-> "STR_LEN", dest |-> some, string_len |-> 70000],
            [op |-> "CONST_STRING", dest |-> some, string_val |-> "long"],
            [op |-> "NOP"]}
Help(i) == CASE i.op = "POPCOUNT" -> [op |-> i.op, dest |-> i.dest, src1 |-> i.src1, helper |-> PopcntAt]
             [] i.op = "NEW_INSTANCE" -> [op |-> i.op, dest |-> i.dest, class |-> i.class, helper |-> AllocAt]
             [] OTHER -> i
Void == [op |-> "RETURN_VOID"]
Result(r) == [op |-> "RETURN_VAL", src1 |-> Reg(r)]
Straight(isa) ==
  {[isa |-> isa, blocks |-> <<[label |-> Defined("L0"),
                               insns |-> <<Help(i), IF "dest" \in DOMAIN i THEN Result(i.dest) ELSE Void>>]>>] :
     i \in Insns(isa)}

\* Registers whose slot is another's.
Twins == [a64 |-> {<<"v", 0, 32>>, <<"p", 7, 15>>}, arm |-> {<<"v", 0, 32>>, <<"p", 3, 7>>},
          rv64 |-> {<<"v", 7, 15>>, <<"p", 7, 15>>}]
Aliased(isa) ==
  {[isa |-> isa, blocks |->
      <<[label |-> Defined("L0"),
         insns |-> <<[op |-> o, dest |-> <<t[1], t[2]>>, src1 |-> Reg(<<t[1], t[3]>>), src2 |-> Imm(Small(1))],
                     Result(<<t[1], t[3]>>)>>]>>] : o \in Binary[isa], t \in Twins[isa]}

\* Loops and skips over code of various lengths, with both strings interned.
Short(isa) == [op |-> "MOVE", dest |-> CHOOSE r \in Locals[isa] : TRUE, src1 |-> Imm(Small(4096))]
String(isa, s) == [op |-> "CONST_STRING", dest |-> CHOOSE r \in Locals[isa] : TRUE, string_val |-> s]
Branching(isa) ==
  LET p == Reg(CHOOSE r \in Params[isa] : TRUE)
      c == Imm(CHOOSE k \in Consts[isa] : TRUE)
      fill == {Short(isa), String(isa, "long"), String(isa, "twin")}
  IN  {[isa |-> isa, blocks |->
          <<[label |-> Defined("L0"), insns |-> <<x, [op |-> o, src1 |-> p, src2 |-> c, target |-> Label(t)]>>],
            [label |-> Defined("L1"), insns |-> <<y, [op |-> "GOTO", target |-> Label(u)]>>],
            [label |-> Defined("L2"), insns |-> <<x, Result(CHOOSE r \in Locals[isa] : TRUE)>>]>>] :
         x \in fill, y \in fill, o \in IfOps, t \in {"L0", "L1", "L2"}, u \in {"L0", "L2"}}

MCFunctions == UNION {Straight(isa) \cup Aliased(isa) \cup Branching(isa) : isa \in Isas}
Strings == {"long", "twin"}
MCStringLen  == [s \in Strings |-> 4031]
MCStringHash == [s \in Strings |-> 7]
\* Where the kernel maps chunks, and the literal "".
MCChunkAt == <<Const(0, \h2000, 0, 0), Const(0, \h3000, 0, 0)>>
MCEmptyAt == Const(\h4321, \h0041, 0, 0)
Granted == {[chunk |-> TRUE, table |-> TRUE]}
Refusing == [chunk : {TRUE}, table : BOOLEAN]
MCOutcomes == {<<a, b>> : a, b \in BOOLEAN}
===============================================================================
