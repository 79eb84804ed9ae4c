------------------------------ MODULE ObjectFile ------------------------------
(***************************************************************************)
(* What the engine leaves behind: object files (the compile_to_elf of each *)
(* backend, with ElfEmitter), PE executables, ESP32 images, the in-memory  *)
(* objects handed to a debugger (gdb_jit.cpp), and buffered output.  One   *)
(* run of the engine does one of these jobs.  The kernel may refuse        *)
(* memory, refuse to open the file, take only part of a write, or refuse   *)
(* it.                                                                     *)
(***************************************************************************)
EXTENDS ElfEmitter, GdbJit

CONSTANTS
  Jobs,       \* of "x86_64", "aarch64", "armv7", "rv64", "xtensa", "pe", "esp32", "debug", "print"
  Functions,  \* names of the functions of the program, in order
  Externs,    \* names of external functions
  Strings,    \* string constants
  CodeSizes,  \* bytes of generated code between the instructions of interest
  Spills,     \* bytes of the store of a result: 0 for one in a register
  MaxAsks,    \* bound: strings and symbols used by the program
  ImageSizes, \* sizes of the code and the constants of an executable or image
  MaxPrint    \* bound: bytes printed on each descriptor

VARIABLES
  job,      \* what this run does
  stage,    \* "program", "body" of a function, "written", "refused"
  el,       \* the ElfEmitter
  text_buf, \* the code of the functions so far
  fn,       \* the function being compiled: its place in the program, func_offset, code_size
  decl,     \* the parts the headers of the file declare
  asks,     \* history: the places in the text that the linker must fill, and with what
  lost      \* history: a mapping was refused

X == INSTANCE X86Forms

vars == <<job, stage, el, text_buf, fn, decl, dbg, asks, live, lost, iovars>>

NoFn   == [i |-> 0, off |-> 0, size |-> 0]
NoDecl == [parts |-> {}, shstr |-> "shstrtab"]
Machine == {"x86_64", "aarch64", "armv7", "rv64", "xtensa"}

Init ==
  /\ job \in Jobs /\ stage = "program"
  /\ \E mapped \in BOOLEAN :
       /\ el = set_machine_arch(NewEmitter(mapped), IF job \in Machine THEN job ELSE "x86_64")
       /\ text_buf = NewBuffer(mapped) /\ lost = ~ mapped
  /\ fn = NoFn /\ decl = NoDecl /\ asks = << >>
  /\ dbg = NoEntries /\ live = << >>
  /\ ring = [fd |-> 1, bytes |-> << >>] /\ todo = << >> /\ exited = FALSE /\ failed = FALSE
  /\ file = [fd \in Fds |-> << >>] /\ printed = [fd \in {1, 2} |-> 0]

Kept == UNCHANGED <<job, decl, dbg, live, iovars>>

\* The compiler returns false.
Refused ==
  /\ stage' = "refused"
  /\ UNCHANGED <<el, text_buf, fn, asks, lost>> /\ Kept
-------------------------------------------------------------------------------
(* compile_to_elf.                                                         *)

\* The next function, up to its first instruction of interest.
Begin(n) ==
  /\ stage = "program" /\ fn.i < Len(Functions)
  /\ stage' = "body" /\ fn' = [i |-> fn.i + 1, off |-> Size(text_buf.bytes), size |-> n]
  /\ UNCHANGED <<el, text_buf, asks, lost>> /\ Kept

\* Its code joins that of the others, its name the symbols.
End(f, mapped) ==
  /\ stage' = "program" /\ fn' = f
  /\ text_buf' = write(text_buf, Piece(Functions[f.i], 0, f.size), mapped)
  /\ el' = add_symbol(el, Functions[f.i], 1, f.off, f.size, mapped).el
  /\ lost' = (lost \/ ~ mapped)
  /\ UNCHANGED asks /\ Kept

\* A function none of whose instructions concern the linker.
Whole(n, mapped) ==
  /\ stage = "program" /\ fn.i < Len(Functions)
  /\ End([i |-> fn.i + 1, off |-> Size(text_buf.bytes), size |-> n], mapped)

armv7_function(n, mapped)  == job = "armv7" /\ Whole(n, mapped)
rv64_function(n, mapped)   == job = "rv64" /\ Whole(n, mapped)
xtensa_function(n, mapped) == job = "xtensa" /\ Whole(n, mapped)

aarch64_begin(n)    == job = "aarch64" /\ Begin(n)
aarch64_end(mapped) == job = "aarch64" /\ stage = "body" /\ End(fn, mapped)

x86_64_begin(n)     == job = "x86_64" /\ Begin(n)
\* A branch without a target makes resolve_labels fail and the compiler give up.
x86_64_end(resolved, mapped) ==
  /\ job = "x86_64" /\ stage = "body"
  /\ IF resolved THEN End(fn, mapped) ELSE Refused

Body(machine) == job = machine /\ stage = "body" /\ Len(asks) < MaxAsks

\* After an instruction of n bytes: the emitter, the code, and the places the
\* linker is to fill.
Emitted(e, n, more, mapped) ==
  /\ el' = e /\ fn' = [fn EXCEPT !.size = @ + n] /\ asks' = asks \o more
  /\ lost' = (lost \/ ~ mapped)
  /\ UNCHANGED <<stage, text_buf>> /\ Kept

\* The last four bytes of an instruction that ends at `end' lead, from its end,
\* to `of'.
RelativeTo(end, of) == <<[place |-> fn.off + end - 4, bias |-> 4, of |-> of]>>

LeaSize  == Len(X!lea_reg_rip_disp32(1, 0))
CallSize == Len(X!call_rel32_disp(0))

const_string(s, k, mapped) ==
  LET ro == append_rodata(el, s, mapped)
      e  == add_relocation(ro.el, fn.off + fn.size + 3, 2, "PC32", ro.off - 4, mapped)
  IN Body("x86_64") /\ Emitted(e, LeaSize + k, RelativeTo(fn.size + LeaSize, s), mapped)

call_extern(f, k, mapped) ==
  LET s == add_symbol(el, f, 0, 0, 0, mapped)
      e == add_relocation(s.el, fn.off + fn.size + 1, s.idx, "PLT32", -4, mapped)
  IN Body("x86_64") /\ Emitted(e, CallSize + k, RelativeTo(fn.size + CallSize, f), mapped)

load_fn_ptr(f, k, mapped) ==
  LET s == add_symbol(el, f, 0, 0, 0, mapped)
      e == add_relocation(s.el, fn.off + fn.size + 3, s.idx, "PC32", -4, mapped)
  IN Body("x86_64") /\ Emitted(e, LeaSize + k, RelativeTo(fn.size + LeaSize, f), mapped)

new_instance(k, mapped) ==
  LET s    == add_symbol(el, "tlab_allocate", 0, 0, 0, mapped)
      args == Len(X!mov_reg_imm32(7, 16) \o X!mov_reg_imm64(6, [i \in 1..8 |-> 0]) \o X!mov_reg_imm32(2, 1))
      e    == add_relocation(s.el, fn.off + fn.size + args + 1, s.idx, "PLT32", -4, mapped)
  IN /\ Body("x86_64")
     /\ Emitted(e, args + CallSize + k, RelativeTo(fn.size + args + CallSize, "tlab_allocate"), mapped)

\* ADRP and ADD, each with a relocation of its own.
const_string_a64(s, mapped) ==
  LET ro == append_rodata(el, s, mapped)
      at == fn.off + fn.size
      e1 == add_relocation(ro.el, at, 2, "ADR_PREL_PG_HI21", ro.off, mapped)
      e2 == add_relocation(e1, at + 4, 2, "ADD_ABS_LO12_NC", ro.off, mapped)
      to(place) == [place |-> place, bias |-> 0, of |-> s]
  IN Body("aarch64") /\ Emitted(e2, 8, <<to(at), to(at + 4)>>, mapped)

\* The headers are computed and the file opened, then the writes follow.
Opened(e, d, calls) ==
  /\ stage' = "written" /\ el' = e /\ decl' = [parts |-> d.parts, shstr |-> d.shstr] /\ todo' = calls
  /\ UNCHANGED <<job, text_buf, fn, dbg, asks, live, ring, file, exited, failed, printed>>

write_elf_object(opened, mapped) ==
  /\ job \in Machine /\ stage = "program"
  /\ \/ opened /\ LET e == Prepared(el, Size(text_buf.bytes), mapped)
                  IN Opened(e, Object(e), Object(e).calls) /\ lost' = (lost \/ ~ mapped)
     \/ ~ opened /\ Refused
-------------------------------------------------------------------------------
(* The other formats, each from text_size bytes of code.                   *)

\* Zeros up to a size; a byte that is refused is asked for again.
Padded(b, size) == write(b, Piece("zero", 0, size - Size(b.bytes)), TRUE)

\* The image is put together in a buffer and written at once; sections start at
\* multiples of 512.  A part for which the buffer cannot grow is dropped, and the
\* padding behind it fills its place.
write_pe_executable(n, r, refused, opened) ==
  /\ job = "pe" /\ stage = "program" /\ n > 0
  /\ LET put(b, what, k) == write(b, Piece(what, 0, k), what # refused)
         more  == IF r > 0 THEN 40 ELSE 0
         raw   == RoundUp(n, 512)
         hdrs  == put(put(put(put(NewBuffer(refused # "buffer"), "dos", 64), "nt", 264), "text_sh", 40), "rdata_sh", more)
         text  == Padded(put(Padded(hdrs, 512), "text", n), 512 + raw)
         rdata == put(text, "rdata", r)
         image == Padded(rdata, RoundUp(Size(rdata.bytes), 512))
         part(what, off, k) == [what |-> what, off |-> off, n |-> k]
         parts == {part("nt", 64, 264), part("text_sh", 328, 40), part("text", 512, n),
                   part("rdata_sh", 368, more), part("rdata", 512 + raw, r)}
     IN \/ opened /\ lost' = (lost \/ refused # "none")
           /\ Opened(el, [parts |-> {p \in parts : p.n > 0}, shstr |-> "shstrtab"], <<Call(3, image.bytes)>>)
        \/ ~ opened /\ Refused

\* Header, segment header, code filled up to words, and a checksum that ends
\* a file of whole 16-byte lines.
compile_to_esp32_bin(n, opened) ==
  /\ job = "esp32" /\ stage = "program"
  /\ LET words == RoundUp(n, 4)
         len   == 24 + 8 + words
         pad   == (15 - (len % 16)) % 16
         calls == <<Call(3, <<Piece("header", 0, 24)>>), Call(3, <<Piece("seg", 0, 8)>>), Call(3, <<Piece("text", 0, n)>>)>>
                  \o [i \in 1..(words - n + pad) |-> Call(3, <<Piece("pad", i - 1, 1)>>)]
                  \o <<Call(3, <<Piece("checksum", 0, 1)>>)>>
     IN \/ opened /\ n > 0 /\ UNCHANGED lost
           /\ Opened(el, [parts |-> {[what |-> "header", off |-> 0, n |-> 24], [what |-> "text", off |-> 32, n |-> n],
                                     [what |-> "checksum", off |-> RoundUp(len + 1, 16) - 1, n |-> 1]},
                          shstr |-> "shstrtab"], calls)
        \/ (~ opened \/ n = 0) /\ Refused
-------------------------------------------------------------------------------
(* register_jit_code and unregister_jit_code.                              *)

\* The entry is linked whether or not there was memory for its object.
register_jit_code(e, n, ok, mapped) ==
  /\ job = "debug" /\ Link(e)
  /\ LET image == finalize(append_text(add_symbol(NewEmitter(mapped), "jit_fn", 1, 0, n, mapped).el, n, mapped), mapped)
     IN /\ decl' = IF ok THEN [parts |-> image.parts, shstr |-> image.shstr] ELSE NoDecl
        /\ file' = [file EXCEPT ![3] = IF ok THEN image.bytes ELSE << >>]
  /\ stage' = "written"
  /\ UNCHANGED <<job, el, text_buf, fn, asks, lost, ring, todo, exited, failed, printed>>

unregister_jit_code(e) ==
  /\ job = "debug" /\ Unlink(e)
  /\ UNCHANGED <<job, stage, el, text_buf, fn, decl, asks, lost, iovars>>
-------------------------------------------------------------------------------
print(fd, n) ==
  /\ job = "print" /\ printed[fd] + n <= MaxPrint
  /\ raw_write_buffered(fd, n)
  /\ UNCHANGED <<job, stage, el, text_buf, fn, decl, dbg, asks, live, lost>>

exit ==
  /\ job = "print" /\ raw_exit
  /\ UNCHANGED <<job, stage, el, text_buf, fn, decl, dbg, asks, live, lost>>

kernel ==
  /\ raw_write \/ raw_write_fails
  /\ UNCHANGED <<job, stage, el, text_buf, fn, decl, dbg, asks, live, lost>>

\* Whether the mappings an operation asks for are granted.  Bound: one refusal.
Grants == IF lost THEN {TRUE} ELSE BOOLEAN
\* What the buffer of an executable is refused memory for.
Refusals == {"none"} \cup (IF lost THEN {} ELSE {"buffer", "dos", "nt", "text_sh", "rdata_sh", "text", "rdata"})

Compile ==
  \E mapped \in Grants :
    \/ \E n \in CodeSizes : armv7_function(n, mapped) \/ rv64_function(n, mapped) \/ xtensa_function(n, mapped)
    \/ \E n \in CodeSizes : aarch64_begin(n) \/ x86_64_begin(n)
    \/ \E s \in Strings : const_string_a64(s, mapped) \/ \E k \in Spills : const_string(s, k, mapped)
    \/ \E f \in Externs, k \in Spills : call_extern(f, k, mapped) \/ load_fn_ptr(f, k, mapped)
    \/ \E k \in Spills : new_instance(k, mapped)
    \/ aarch64_end(mapped)
    \/ \E resolved \in BOOLEAN : x86_64_end(resolved, mapped)
    \/ \E opened \in BOOLEAN : write_elf_object(opened, mapped)

Next ==
  \/ Compile
  \/ \E n \in ImageSizes, opened \in BOOLEAN :
       \/ compile_to_esp32_bin(n, opened)
       \/ \E r \in ImageSizes, refused \in Refusals : write_pe_executable(n, r, refused, opened)
  \/ \E e \in 1..MaxEntries, n \in CodeSizes, ok \in BOOLEAN, mapped \in Grants : register_jit_code(e, n, ok, mapped)
  \/ \E e \in 1..MaxEntries : unregister_jit_code(e)
  \/ \E fd \in {1, 2}, n \in 1..(RingSize + 1) : print(fd, n)
  \/ exit
  \/ kernel

Spec == Init /\ [][Next]_vars
-------------------------------------------------------------------------------
\* The file is where and what its headers say: a reader who follows the ELF
\* header to the section headers, and these to the sections, finds each whole
\* section, the section names among them; likewise the headers and sections of
\* an executable, and the code and the checksum of an ESP32 image.  Whatever part
\* of a write the kernel takes at a time, unless it refused a write itself
\* (ElfEmitter is "capable of emitting `.rodata` sections", README.md:21).
WrittenAsDeclared ==
  stage = "written" /\ todo = << >> /\ ~ failed =>
    /\ decl.shstr = "shstrtab"
    /\ \A p \in decl.parts : Lies(file[3], p.what, p.off, p.n)

\* The same, of object files and debugger images whatever memory was refused on
\* the way, and of executables if none was (pe_emitter.cpp:97-100 fills the place
\* of a dropped section); but not of a 64-bit object with string constants, whose
\* .rodata is not written and whose later sections move up.
PlacedWithoutRodata ==
  /\ ~ (job \in Machine /\ ~ Narrow(job) /\ Has(el, "rodata"))
  /\ ~ (job = "pe" /\ lost)
  => WrittenAsDeclared

\* What the linker reads (System V ABI): the record that starts at an offset, if
\* one does; symbol i of the table.
At(bytes, off, none) ==
  LET here == {i \in DOMAIN bytes : Size(SubSeq(bytes, 1, i - 1)) = off}
  IN IF here = {} THEN none ELSE bytes[CHOOSE i \in here : TRUE].what
SymAt(i) == At(el.symtab.bytes, i * SymSize(el.m), Symbol(0, 0, 0, 0))

\* What a relocation makes the instruction refer to.
Target(r, bias) ==
  LET s == SymAt(r.r_sym)
      a == r.r_addend + bias
  IN IF s.st_shndx = 2 THEN At(el.rodata.bytes, a, "nothing")
     ELSE IF a = 0 THEN At(el.strtab.bytes, s.st_name, "nothing") ELSE "nothing"

\* The linker makes of a 64-bit object the program that was compiled: every
\* string, external function and allocation call in the code is reached from
\* the place that refers to it, through symbol and string tables that grow
\* meanwhile, and every function is found under its name, where it is and as
\* long as it is; provided that no memory was refused.
LinkerFindsTargets ==
  job \in Machine /\ ~ Narrow(job) /\ ~ lost =>
    /\ Len(el.rela.bytes) = Len(asks)
    /\ \A i \in DOMAIN asks :
         LET r == el.rela.bytes[i].what
         IN r.r_offset = asks[i].place /\ Target(r, asks[i].bias) = asks[i].of
    /\ \A i \in DOMAIN text_buf.bytes :
         \E j \in 3..(Len(el.symtab.bytes) - 1) :
           LET s == SymAt(j)
           IN /\ s.st_shndx = 1 /\ s.st_value = Size(SubSeq(text_buf.bytes, 1, i - 1))
              /\ s.st_size = text_buf.bytes[i].n
              /\ At(el.strtab.bytes, s.st_name, "nothing") = text_buf.bytes[i].what
===============================================================================
