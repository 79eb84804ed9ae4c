------------------------------ MODULE ElfEmitter ------------------------------
(***************************************************************************)
(* ElfEmitter (src/src/backend/elf_emitter.cpp): the sections of an object *)
(* file and their writing, as operators on the emitter.  Headers keep what *)
(* a reader of the file navigates by: offsets, sizes and indices.          *)
(***************************************************************************)
EXTENDS RawIo

RoundUp(n, a) == ((n + a - 1) \div a) * a

\* op(...op(op(base, s[1]), s[2])..., s[Len(s)]).
Fold(op(_, _), base, s) ==
  LET upto[i \in 0..Len(s)] == IF i = 0 THEN base ELSE op(upto[i - 1], s[i])
  IN upto[Len(s)]

Concat(a, b) == Fold(Join, a, b)

\* Sizes of the structures of elf_emitter.h.
Narrow(m) == m \in {"xtensa", "armv7"}
EhdrSize(m) == IF Narrow(m) THEN 52 ELSE 64
ShdrSize(m) == IF Narrow(m) THEN 40 ELSE 64
SymSize(m)  == IF Narrow(m) THEN 16 ELSE 24
RelaSize(m) == IF Narrow(m) THEN 12 ELSE 24

Symbol(name, shndx, value, size) ==
  [st_name |-> name, st_shndx |-> shndx, st_value |-> value, st_size |-> size]

\* The name goes to .strtab, the record to .symtab; the result is the index.
\* An Xtensa value is an address.
add_symbol(el, name, shndx, value, size, mapped) ==
  LET base == IF el.m = "xtensa" THEN 1077346304 ELSE 0
      sym  == Symbol(Size(el.strtab.bytes), shndx, base + value, size)
  IN [el  |-> [el EXCEPT !.strtab = write_string(@, name, Len(name), mapped),
                         !.symtab = write(@, Piece(sym, 0, SymSize(el.m)), mapped)],
      idx |-> Size(el.symtab.bytes) \div SymSize(el.m)]

add_relocation(el, offset, sym, type, addend, mapped) ==
  LET r == [r_offset |-> offset, r_sym |-> sym, r_type |-> type, r_addend |-> addend]
  IN [el EXCEPT !.rela = write(@, Piece(r, 0, RelaSize(el.m)), mapped)]

append_rodata(el, string, mapped) ==
  [el |-> [el EXCEPT !.rodata = write(@, Piece(string, 0, Len(string) + 1), mapped)],
   off |-> Size(el.rodata.bytes)]

append_text(el, n, mapped) == [el EXCEPT !.text = write(@, Piece("code", 0, n), mapped)]

\* The constructor: NUL in the string tables, the null symbol and two section
\* symbols, all before set_machine_arch, so in the form of x86-64.
NewEmitter(mapped) ==
  LET empty == NewBuffer(mapped)
      el0   == [m |-> "x86_64", text |-> empty, rodata |-> empty, rela |-> empty,
                strtab   |-> write(empty, Piece("NUL", 0, 1), mapped),
                shstrtab |-> write(empty, Piece("NUL", 0, 1), mapped),
                symtab   |-> write(empty, Piece(Symbol(0, 0, 0, 0), 0, 24), mapped)]
  IN add_symbol(add_symbol(el0, ".text", 1, 0, 0, mapped).el, ".rodata", 2, 0, 0, mapped).el
set_machine_arch(el, m) == [el EXCEPT !.m = m]
-------------------------------------------------------------------------------
Has(el, sec) == el[sec].bytes # << >>

Sections(el) ==
  <<"text">> \o (IF Has(el, "rodata") THEN <<"rodata">> ELSE << >>)
             \o <<"shstrtab", "strtab", "symtab">>
             \o (IF Has(el, "rela") THEN <<"rela">> ELSE << >>)

SizeOf(el, secs) == Fold(LAMBDA s, k : s + Size(el[k].bytes), 0, secs)

\* Where the headers of a file put its parts: sections one after another from
\* the end of the file header, section headers at shoff.
Headers(el, secs, shnum, hdr, shoff) ==
  {[what |-> "ehdr", off |-> 0, n |-> EhdrSize(el.m)],
   [what |-> "shdrs", off |-> shoff, n |-> ShdrSize(el.m) * shnum]} \cup
  {[what |-> secs[i], off |-> hdr + SizeOf(el, SubSeq(secs, 1, i - 1)), n |-> Size(el[secs[i]].bytes)]
     : i \in {j \in DOMAIN secs : Has(el, secs[j])}}

\* Seeded fault: the padding loop runs once too often.
WrittenPadOver(el, first, secs, pad, shnum) ==
  LET held == SelectSeq(secs, LAMBDA k : Has(el, k))
  IN first \o [i \in DOMAIN held |-> Call(3, <<Piece(held[i], 0, Size(el[held[i]].bytes))>>)]
           \o [i \in 1..(pad + 1) |-> Call(3, <<Piece("pad", i - 1, 1)>>)]
           \o <<Call(3, <<Piece("shdrs", 0, ShdrSize(el.m) * shnum)>>)>>

\* The calls of raw_write for the sections that hold something, then for the
\* padding, byte by byte, then for the section headers.
Written(el, first, secs, pad, shnum) ==
  LET held == SelectSeq(secs, LAMBDA k : Has(el, k))
  IN first \o [i \in DOMAIN held |-> Call(3, <<Piece(held[i], 0, Size(el[held[i]].bytes))>>)]
           \o [i \in 1..pad |-> Call(3, <<Piece("pad", i - 1, 1)>>)]
           \o <<Call(3, <<Piece("shdrs", 0, ShdrSize(el.m) * shnum)>>)>>

\* write_elf_object, before the two paths: the text, the section names.
Prepared(el, n, mapped) ==
  LET e1    == append_text(el, n, mapped)
      names == <<".text">> \o (IF Has(el, "rodata") THEN <<".rodata">> ELSE << >>)
               \o <<".shstrtab", ".strtab", ".symtab">>
               \o (IF Has(el, "rela") THEN <<".rela.text">> ELSE << >>)
  IN Fold(LAMBDA e, s : [e EXCEPT !.shstrtab = write_string(@, s, Len(s), mapped)], e1, names)

ShNum(el)    == 5 + (IF Has(el, "rodata") THEN 1 ELSE 0) + (IF Has(el, "rela") THEN 1 ELSE 0)
ShStrNdx(el) == IF Has(el, "rodata") THEN 3 ELSE 2

Ehdr(el) == Call(3, <<Piece("ehdr", 0, EhdrSize(el.m))>>)

\* The 32-bit path: Xtensa files have a program header.
Object32(el) ==
  LET secs  == Sections(el)
      phdr  == IF el.m = "xtensa" THEN <<Call(3, <<Piece("phdr", 0, 32)>>)>> ELSE << >>
      hdr   == 52 + 32 * Len(phdr)
      end   == hdr + SizeOf(el, secs)
      shoff == RoundUp(end, 4)
  IN [parts |-> Headers(el, secs, ShNum(el), hdr, shoff),
      shstr |-> (<<"null">> \o secs)[ShStrNdx(el) + 1],
      calls |-> Written(el, <<Ehdr(el)>> \o phdr, secs, shoff - end, ShNum(el))]

\* The 64-bit path.  The offsets count .rodata; the writes, and the length the
\* padding starts from, do not.
Object64(el) ==
  LET secs  == Sections(el)
      wr    == SelectSeq(secs, LAMBDA k : k # "rodata")
      shoff == RoundUp(64 + SizeOf(el, secs), 8)
  IN [parts |-> Headers(el, secs, ShNum(el), 64, shoff),
      shstr |-> (<<"null">> \o secs)[ShStrNdx(el) + 1],
      calls |-> Written(el, <<Ehdr(el)>>, wr, shoff - (64 + SizeOf(el, wr)), ShNum(el))]

Object(el) == IF Narrow(el.m) THEN Object32(el) ELSE Object64(el)

\* finalize: the same file in memory, with every section name but with headers
\* for four sections; .rodata and .rela.text get room but no bytes.
finalize(el, mapped) ==
  LET names == <<".text", ".rodata", ".shstrtab", ".strtab", ".symtab">>
               \o (IF Has(el, "rela") THEN <<".rela.text">> ELSE << >>)
      e     == Fold(LAMBDA x, s : [x EXCEPT !.shstrtab = write_string(@, s, Len(s), mapped)], el, names)
      secs  == Sections(e)
      held  == SelectSeq(<<"text", "shstrtab", "strtab", "symtab">>, LAMBDA k : Has(e, k))
      shoff == RoundUp(64 + SizeOf(e, secs), 8)
  IN [parts |-> {p \in Headers(e, secs, ShNum(e), 64, shoff) : p.what \notin {"rodata", "rela"}},
      shstr |-> "shstrtab",   \* header 2, which is .shstrtab's here
      bytes |-> Concat(<<Piece("ehdr", 0, 64)>>,
                       [i \in DOMAIN held |-> Piece(held[i], 0, Size(e[held[i]].bytes))]
                       \o <<Piece("zero", 0, shoff - (64 + SizeOf(e, held))),
                            Piece("shdrs", 0, 64 * ShNum(e))>>)]
===============================================================================
