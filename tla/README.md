# A TLA+ model of Anastasia

Anastasia compiles a small register language to machine code, in memory (JIT) or
to an object file, without a C library. This directory holds TLA+ modules for
its parts, TLC configurations that check them on small instances, and theorems
that TLAPS proves for every value of the constants. Unless a module says
otherwise it describes the x86-64 Linux build. Paths below are relative to
`src/src/`; `PROJECT.json` maps each definition to the lines it models.

## 1. Inventory

| Part (source) | State | Operations | What makes it hard | Correct means |
|---|---|---|---|---|
| Object heap (`sys/object_heap`) | list of chunks, cursors | allocate, grow, reset, destroy | chunk nearly full, refused mmap, dirty memory after a reset | objects apart, mapped, aligned, zeroed; nothing leaked |
| Static guards (`sys/sys_entry`) | two guard bytes | acquire, release | threads racing, store buffers, waiting | built once, seen complete, nobody waits for ever |
| Parser (`frontend/ana_parser`, `ana_ast.h`) | tokens ahead, error latch, blocks | functions, blocks, one case per opcode, folding, dead code | errors are latched and parsing goes on | what is accepted is what was written |
| Class layout (`frontend/ana_parser`) | classes, error latch | parse_class, resolve_class_layouts | offsets computed twice | fields apart, inside, and stable |
| Arena (`frontend/arena_allocator.h`) | list of chunks | alloc, grow, reset | alignment by address at the end of a chunk | blocks aligned and private |
| SSA passes and block reordering (`optimizer/ana_ssa`, `pgo_profiler`) | the blocks of a function | five passes, reorder | passes rewrite one list in place; fall-through | meaning preserved |
| Constant folding and integer arithmetic (`frontend/ana_parser`, `backend/ana_lowerer`) | a short program | fold, run | width boundaries, shift counts, division edges | folded and run results agree and are the documented ones |
| Register allocator (`backend/ana_regalloc`) | counts, homes, frame size | allocate_registers, look-ups | register/spill boundary, table limits, declared counts that are too small | a private home for each register, inside the frame |
| JIT and ahead-of-time lowering (`backend/ana_lowerer`) | machine registers, frame | one case per opcode, prologue, epilogue | operands that share a register, shared scratch registers, two copies of the switch | machine state follows the virtual registers |
| Encoder (`backend/ana_encoder`) | buffer, labels, relocations, failure latch | emit, label, branch, resolve | refusal in mid-instruction, full tables, special bases of ModRM | code handed out is the code asked for |
| AArch64, ARMv7, RV64 (`backend/*_backend`) | words, labels, slots | two passes over a function | distances and offsets cut to their fields, passes that disagree | the words execute the function |
| String pool (`backend/jit_string_pool`) | chunks, table | intern, grow | one of two growths refused, equal hashes | one address for one string, for good |
| Executable memory and inline caches (`backend/inline_cache`, end of `compile_function`) | page protections, region registry | map, protect, register, look up, patch | lock-free registry, protection windows | never writable and executable; only JIT pages touched |
| ELF, PE and ESP32 files (`backend/elf_emitter`, `pe_emitter`) | buffers, tables | add, finalize, write | buffers that do not grow, offsets summed beforehand, short writes | a reader finds what the headers say |
| GDB interface (`backend/gdb_jit`) | doubly linked list | register, unregister | any order of removals | the debugger walks all entries |
| Buffered output (`sys/sys_raw`) | one ring per thread | print, flush, exit | two descriptors, partial writes | everything once and in order |
| Debugger (`debugger/ana_debugger`) | interpreter state | step, continue, breakpoints | a second meaning of the language | shows what the code computes |
| Lexer, DWARF, Xtensa, PIC, OSR, unwinder, host interop, GC, TLAB, trap handler, I/O ring, CPU features, command line | | | | not modelled, section 7 |

Interactions: the parser takes its nodes from the arena, folds and lays out
classes; the optimiser and the debugger work on what it returns;
`compile_function` runs the register allocator, lowers each instruction through
the encoder, resolves labels, maps the result, makes it executable and registers
the region; the other targets intern strings while they emit; object files are
collected in byte buffers and written; compiled code calls the object heap and
the inline-cache handler; components kept in a function-local static are reached
through a static guard.

## 2. Modules

| Module | Models | State and actions |
|---|---|---|
| `ObjectStore` | what the heap promises | the live objects and those that still read as zero; new, write, release all (a refusal stutters) |
| `ObjectHeap` | `object_heap.cpp` | `head`, `current`, `chunk` are the fields of the code; `mapped` is the kernel's view; `objs`, `stale` and `touched` record who owns bytes and which may be dirty. `AllocateHere`, `AllocateGrow` and `AllocateFail` are the three ways through `allocate_object`; `Reset`, `Destroy`; `Mutate` is a store by the program |
| `CxaGuard` | `__cxa_guard_acquire/release` | guard bytes, the object, a store buffer and a place in the code per thread; a step per access to shared memory |
| `Ast` | the records of `ana_ast.h` and what a function means | operators; values are terms, so equal meanings are equal for all arguments |
| `Parser` | tokens to instructions | a parse is a record (tokens ahead, error latch, instruction); one operator per piece of an operand list |
| `Optimiser` | `ana_ssa.cpp`, `reorder_basic_blocks` | each pass is an operator on the blocks |
| `Debugger` | the interpreter of `ana_debugger.cpp` | a debugger is a record; step, continue, breakpoints |
| `Frontend` | the three together on one source | the actions are the loops of `parse_program`, `parse_function` and `parse_basic_block`, the passes, and the debugger's commands; the source is intact or has one token lost or unreadable |
| `ClassLayout` | `parse_class`, `resolve_class_layouts` | the classes so far, the error latch, the answer |
| `Arena` | `arena_allocator.h` | the chunks from `head_`, the blocks handed out; the kernel chooses the page |
| `Arith` | folding and the words computed by emitted code | a program: parsed, optimised, run; width is a constant |
| `FrameLayout` | where registers live, as functions of two counts | pure operators shared by the next four |
| `RegAlloc` | `allocate_registers` | operands are parsed one at a time, then the function is allocated |
| `VirtualCode` | the meaning of the virtual instructions | virtual registers and the last effect (load, store, branch, call, ...) |
| `Lowerer` | `compile_function` | each `enc->` call is a transformer of the machine `m`; an action composes those of one `case` and runs the instruction of `VirtualCode` beside it |
| `AotLowerer` | `compile_to_elf` | the same for the second switch, beside the first |
| `Encoder` | the code buffer, `resolve_labels`, the final copy | `enc` is the object; `text`, `place` and `denied` record what was asked for and what was refused |
| `X86Forms`, `X86Encodings` | the bytes of each emitter; a decoder for them | one instruction emitted and decoded |
| `Words`, `AArch64`, `Armv7`, `Rv64` | the encoders and the lowering of the three targets | words as sets of bits; one operator per emitter and per opcode |
| `Machines` | the processors (external) | decodes and executes words on symbolic values |
| `JitStringPool` | `jit_string_pool.cpp` | a pool is a record: chunks, table, contents |
| `Targets` | `compile_function` of the targets with the pool | measure, emit, run beside the virtual function |
| `JitRegions` | mapping, registry, `handle_mic_miss` | protection per page, registry entries, a `pc` per thread; a step per access. A patch site is a page and whether its eight bytes run into the next one |
| `RawIo` | byte buffers, `raw_write`, the output ring | a run of bytes is a sequence of pieces with real sizes |
| `ElfEmitter` | sections, symbols, relocations, `finalize` | operators on the emitter |
| `GdbJit` | the list of `__jit_debug_descriptor` | the links of the entries, and the history of what is registered |
| `ObjectFile` | ELF, PE and ESP32 output, the objects in the GDB list, buffered output | one job of the engine, with refused memory, failed opens, short and failed writes |

`ObjectHeap` refines `ObjectStore` (`ImplementsStore`). `Lowerer` and
`AotLowerer` compose `FrameLayout` and `VirtualCode`; `Targets` composes the
encoders, the pool and the machines; `Frontend` composes parser, passes and
debugger; `ObjectFile` composes `RawIo`, `ElfEmitter` and `GdbJit`. The `MC*` modules give constants their values; `MCRuntime` (heap,
guard, regions), `MCEncoder`, `MCAotLowerer` and `MCFrontend` also put parts side
by side that do not share state. Operators commented as seeded faults are wrong variants of the definition
that follows them; substituting one must break a property, which keeps every
property answerable to the code.

## 3. Runs

Eight runs pass:

| Run | Bounds | Shows |
|---|---|---|
| `runtime` | heap: 3 chunks of 24 bytes, sizes that fit, that need a chunk of their own, and that exceed the cap; guard: 3 threads, so that one builds while two wait; regions: 2 threads, 5 pages, 2 of them the callers', regions of 1 or 2 pages, 2 registry entries (179,288 states) | objects disjoint, mapped and zeroed, no chunk leaked, refinement of `ObjectStore`; built once, seen complete, every call returns; no page writable and executable, compiled code stays executable, foreign pages untouched, no fault but that of a patch of code that straddles two pages |
| `regalloc` | 4 locals, 3 registers, 2 parameters, indices to 5, the greatest standing for 2^32 - 1, at most 3 operands (167,400 states) | private homes, also at and beyond the limits of the tables; a home for every REGISTER operand inside them |
| `lowerer` | both compilers; 4 locals (one spilled), 2 parameters, words 0 and 1, one opcode of each family (19,151 states) | homes follow the virtual registers, same effects, the JIT preserves the caller's registers |
| `encoder` | pages of 8 bytes, 2 labels, 2 relocations, 11 bytes of code, the least that overflows the relocation table; registers on both sides of 8, displacements and immediates at the limits (1,509,276 states) | no overrun, branches on their targets, refusal only for cause, every emitter but those named below decodes as asked |
| `arith` | 8-bit words with 4-bit halves, operands at every width boundary (97,284 states) | folding equals running, results documented, no division traps |
| `frontend` | entry blocks of up to 3 instructions before a second block, cold, empty or plain, and an exit that shows the registers; one-instruction functions with every token lost or unreadable once; 2 classes of up to 4 fields; 2 arena chunks on any of 7 pages (438,653 states) | parsing and passes keep the meaning, a damaged text is refused or read as it stands, the debugger agrees, fields and arena blocks are apart |
| `targets` | per target one instruction in every operand form at the first and last slots, two registers that share a slot, and three blocks that branch to each other around code of different lengths with two strings of one hash (22,375 states) | slots, branches, calls, strings and the caller's registers as the function says |
| `object` | 2 functions, up to 2 uses of strings and externs, buffers of 64 bytes, 3 debugger entries, a ring of 3 bytes (1,000,353 states) | files as declared, targets found, the list whole, output in order |

What the passing runs leave out, because the property fails or is not promised
there:

- `runtime` takes `QuietSpec` of the regions: no registration during a look-up,
  one thread per page in the patch window, patch sites only in registered code.
  The code does not enforce this; `FreeSpec` is what the code allows. The first
  `mprotect` of the miss handler may fail, the second may not. A patch whose
  eight bytes run into the next page of code faults there, and
  `OnlyStraddlesFault` says that nothing else does.
- `regalloc`: `RegisterOperandsHaveHomes` is about registers that are operands
  themselves. The base of a memory operand is not scanned (section 4), and
  naming v4294967295 wraps the count of locals to 0.
- `arith` checks `Spec`, instructions that keep to one width, with constants that
  fit an immediate and /32 counts below 32; `AnySpec` is every instruction the parser accepts.
- `lowerer` leaves four forms to specifications of their own (section 5),
  BTS/BTR whose destination register also holds the bit number, and ahead of
  time ADD/SUB whose destination is the second operand.
- `encoder` leaves out `mulsd`, `divsd` (`ScalarSpec`) and 512-bit accesses with a
  displacement (`ZmmSpec`).
- `frontend` holds the passes to functions of `InScope`: registers assigned once,
  new objects stored or unused, no 128-bit vectors, no fall-through into or out
  of a cold block. Lengths are compared for registers that hold a string.
  `DebuggerAgrees` is about functions without branches, without constants as
  second operands and with the opcodes the interpreter knows.
- `targets` keeps to the opcodes whose code means what the opcode does and to
  granted memory. `SlotsAgree` and `SameTrace` are about functions whose registers
  have slots of their own (`SlotsApart`): 32 locals on AArch64 and ARMv7; on RV64
  v0..v7 and v16..v23, as v8..v15 are kept in the slots of v0..v7; parameters p0..p7,
  and p0..p3 on ARMv7. `SameTrace` also leaves out ATOMIC_ADD, and `CallerRestored`
  excepts R8 and R9 of ARMv7.
- `object` is about runs in which no write fails: failed writes are ignored by
  the code. `PlacedWithoutRodata` excepts 64-bit objects with strings, and
  executables for which memory was refused: the padding behind a dropped section
  fills its place. `LinkerFindsTargets` is about 64-bit objects for which no memory
  was refused. A write may end short at the offsets `Cuts` of what is written.
  Calls of `raw_write` on descriptors 1 and 2 beside the ring are left out.
- The guard part of `runtime` takes x86-64 store order; on a weaker machine the plain store that
  releases the guard would not be enough.

Deadlock is checked except in `arith`, `frontend` and `object`, whose jobs end.

Fairness is assumed only in the guard part of `runtime`: each thread inside the accessor keeps
running and each store buffer drains (`WF` of `Step` and `Drain`). A preemptive
kernel and the processor give exactly that; nothing forces a thread to call the
accessor in the first place.

## 4. Disagreements between code and documentation

Four runs end in a counterexample, each quoted in `PROJECT.json`:

- `regalloc_base`: a parameter that is named only as the base of a memory operand
  and not counted in the header gets no home and falls on the slot of a preserved
  register (`ana_regalloc.cpp:81`), which `src/README.md:208` describes as fixed.
- `arith_shr`: `src/README.md:168` calls `shr-int/64` a logical shift; folding and the
  emitted code copy the sign, as the other document says
  (`llm_instructions_learn_anastasia_for_ai.md:125`).
- `lowerer_aot`: the prologue of `compile_to_elf` saves no preserved register; its
  epilogue loads as many of RBX, R12 and R13 as hold locals from slots nothing has
  written, so the caller gets garbage.
- `object_rodata`: a 64-bit object with a string constant declares a `.rodata`
  section that is never written, and later sections lie before their offsets.

## 5. Further disagreements

The definitions are in the modules; each line names a configuration to start
from and what to change in it.

| Change | Shows |
|---|---|
| `RegAlloc.cfg`: invariant `ScratchSlotIsReserved` | the fallback slot of an out-of-range local is a live home (`ana_regalloc.cpp:147`) |
| `RegAlloc.cfg`: `CountWraps` dropped from `RegisterOperandsHaveHomes` | a function that names v4294967295 has no local with a home: the count wraps to 0 (`ana_regalloc.cpp:54`) |
| `MCAotLowerer.cfg`: `XchgSpec`, `Agree` | an exchange whose operand lives in the frame loses the word read from memory |
| the same: `CasSpec`, `ComparandLoaded` | compare-and-swap without a destination compares with a leftover RAX (`ana_lowerer.cpp:690`) |
| the same: `BindSpec`, `SameEffect` | bind-vtable takes its operands from the wrong fields (`ana_lowerer.cpp:593`) |
| the same: `ImmSpec`, `Val <- MCWide`, `Agree` | a constant beyond 32 bits is cut (`ana_lowerer.cpp:173`) |
| module `JitRegions`, constants as in `MCRuntime.cfg`: `QuietSpec`, invariant `NoFault` | the store of a patch that straddles two pages of code faults: eight bytes are stored and one page is opened (`inline_cache.cpp:61`, `:73`, `:75`) |
| the same: `FreeSpec`, only `OnlyJitReprotected`, `CHECK_DEADLOCK FALSE` | a look-up between the claim and the fill of a registry entry takes a foreign page for code (`inline_cache.cpp:18`) |
| the same: `FreeSpec`, one thread, only `DirectSiteIsData`, `CHECK_DEADLOCK FALSE` | once the registry is full, code is patched as if it were data (`inline_cache.cpp:63`) |
| `Arith.cfg`: `AnySpec`, `FoldMirrorsBackend` | folding differs for wide constants and /32 shift counts of 32 and more |
| `Arith.cfg`: `AnySpec`, `HalvesStayNormal` | neg-int/32 of the least half is not normalised (`ana_lowerer.cpp:35`) |
| `Arith.cfg`: `AnySpec`, `DivisionTotal` | div-int/32 traps when only the low half of the divisor is zero (`ana_lowerer.cpp:259`) |
| `MCFrontend.cfg`: invariant `HeaderClear` | the first field lies in the 16-byte object header (`ana_parser.cpp:731`) |
| `MCTargets.cfg`: `Memory <- Refusing`, `SameTrace` | a string whose table entry is refused between the passes is interned twice ("Interning still succeeded; only deduplication is degraded.", `jit_string_pool.cpp:121`) |
| `MCTargets.cfg`: `SlotsApart` dropped from `SameTrace` and `SlotsAgree` | two registers share a slot (`index & 23`, `rv64_backend.cpp:293`, `:306`; ARMv7 `index & 3` for parameters), against "Unbounded SSA virtual registers" (`src/README.md:152`) |
| `MCTargets.cfg`: the ATOMIC_ADD conjunct dropped from `SameTrace` | AArch64 adds with a load, an addition and a store (`aarch64_backend.cpp:465`), against "Hardware atomic operations" (`src/doc/doc.md:130`) |
| `MCObjectFile.cfg`: the `job = "pe"` conjunct dropped from `PlacedWithoutRodata` | an executable whose code did not fit the buffer is written with zeros in its place (`pe_emitter.cpp:97`) |

Read in the code while modelling it, and kept out of the checked forms:

- Parser: `p0:` in a parameter list is one label token and the parameter is not
  counted; a lost branch target takes the next label, a lost call slot is slot
  0; `store-mem 5, [v0]` is accepted as a store without operands; a `.fn` without
  a name is passed over; only arithmetic opcodes reject missing operands.
- Passes: escape analysis looks at the dest of `RETURN_VAL`, which the parser
  leaves empty, and at no use as base, comparand or source of a move; value
  numbering and length folding do not see reassignments; the autovectorizer
  turns 4 lanes into 8; reordering does not look at fall-through.
- Debugger: constants are read from `src1` whichever operand they are; branches
  have no effect; continuing at a breakpoint stays there; an empty block stops
  it; /32 results are not wrapped; the least word by -1 traps.
- Encoder: `mulsd` emits DIVSD and `divsd` MAXSD; 512-bit displacements are not
  scaled.
- Targets: SHR is logical; /32 results are not normalised; ARM shifts name R0 and
  R8/R9 are clobbered; A64 BTR toggles its bit;
  RV64 constants keep 32 bits; labels beyond 128 are word 0.
- Files: 32-bit objects have a misaligned first symbol; results of `raw_write` are
  ignored; a buffer that cannot grow drops the bytes; PE files are opened without
  truncation and their padding loops do not end if memory is refused; the
  output ring is per thread and only the exiting thread's is flushed.

## 6. Proofs

All theorems hold for every value of the constants that satisfies the named
assumptions. The prover slows down with what a module contains, so the lowerer's
proof is in two modules, in the order of the argument, small components share
one, and lemmas about plain sequences stand before the component is
instantiated. `USE SMTT(30), ZenonT(30)` at the head of each module gives every
leaf that names no prover room on a slower machine. Every property of the runs `regalloc` and `lowerer` is
proved; of the others every one that the list of what is only model-checked
does not name.

- `Runtime_proofs`, `ObjectHeap`: `HeapSafety`, `HeapMapped`, `HeapFresh`, `HeapAligned`,
  `HeapNoLeak`. The properties are not inductive: one must know that the chunks
  form a simple chain from `head` to `current` (`HasChain`) and that cursors are
  aligned and within capacity (`CursorsOK`). `HeapInv` adds both.
  `HeapRefinesStore` is the refinement of `ObjectStore`: the initial state maps to
  the initial state; an allocation, in the current chunk or in a new one, to a new
  object that reads as zero; a store to a write; reset and destruction to the
  release of all objects; a refusal, and a store to an object without fields,
  to a stutter. It needs `HeapInv`: clearing or writing one object leaves the
  fields of all others alone only because they are apart. Assumptions: `HeapConstants`, and `WordIsWide`, which
  says that rounding the sizes and chunks in question does not wrap the word.
- `Runtime_proofs`, `CxaGuard`: `GuardBuildsOnce` and `GuardSafety`. `GuardInv` adds that at
  most one thread owns the construction until its stores have drained, and that
  the guard byte never overtakes the object. No assumption on the set of
  threads.
- `FrameLayout_proofs`: lemmas on the layout: homes are inside the frame, differ
  from each other and from the slots of preserved registers.
- `Layout_proofs`, `RegAlloc`: `RegAllocSafety` and `RegAllocHomes`, from those
  lemmas and the fact that the scanning loops end above every index seen, up to
  the one whose successor wraps. Assumption: `FrameConstants`.
- `Layout_proofs`, `ClassLayout`: `ClassFieldsApart` and the action property
  `ClassOffsetsKept`, with no assumption, for any number of classes and fields. That the
  second pass moves nothing depends on how the first one got there: `ClassInv`
  says that every field lies where the one before it ends, rounded up to its
  size, the first behind the vtable pointer, and behind all earlier ones; and that
  until `parse_program` answers a class ends with its last field. The second
  pass then computes the same ends one field after the other (`ResolvedEnds`, by
  the least field at which they would differ).
- `Layout_proofs`, `Arena`: `ArenaBlocksPrivate`. Private blocks are not inductive:
  `ArenaInv` adds that mappings are apart, that a chunk's header and used bytes
  are inside it, and that every block ends within the used part of its chunk,
  so that what is carved next lies behind all blocks of the newest chunk and
  outside the other chunks, for every power of two as alignment. Assumption:
  `ArenaConstants`.
- `ObjectFile_proofs`, `GdbJit`: `DebuggerListWalks`, of every behaviour of `ObjectFile`. An
  unlink reads the neighbours from the entry itself, so it must be known that
  no entry is listed twice and that both directions agree for all of them
  (`ListInv`). `PushList` and `UnlinkList` say of any such list what the two
  calls make of it. Assumption: `EntriesCounted`.
- `ObjectFile_proofs`, `RawIo`: `PrintedInOrder`, of every behaviour of
  `ObjectFile`. The property looks only at moments when no write is under way.
  `RingInv` speaks of the others too: on each descriptor the bytes the kernel
  took, those of the calls still to come, in their order, and those in the ring
  are one run from the first byte printed to the last. A change of descriptor, a
  full ring and the exit move the end of the ring's part into a call (`FlushLined`);
  the copy loop keeps the run byte by byte (`BufferedLined`, by the least index at
  which it would break); a write, whole or short, moves the front of the first
  call into the file (`WriteLined`). Assumption: `Descriptors`. Of the kernel the
  proof uses only that it takes at least one byte and no more than asked for.
- `JitRegions_proofs`: `RegionWriteXorExecute`, `RegionSafety`,
  `RegionExecutable` and the action property `RegionOwnership`, for `QuietSpec`
  and any number of threads, pages and registry entries. That a page is
  executable when nobody patches it depends on everything before the patch:
  `RInv` adds that the pages of a function on its way belong to it alone, that a
  registry entry has one owner and matches nothing until it describes returned
  code, that a look-up still has every matching entry ahead of it and meets no
  registration, and that a page has one patch at a time. That a store of one page
  does not fault needs all of it; of a straddling one the invariant keeps only
  that its first page is open. Data is patched within the callers' pages whole
  (`Whole`). Frame lemmas say what a
  step leaves alone when its thread stays outside compiling, registering or
  serving. Assumption: `RegionConstants`. Without the discipline
  `RegionOwnership` fails (section 5).
- `LowererMachine_proofs` (homes, loads, stores, arithmetic) and `Lowerer_proofs`
  (memory, calls, branches, prologue, epilogue, the theorems): `LowererSafety`,
  `LowererEffects` and `LowererPreserves`, for `BothSpec`: the compiler in memory
  and the one ahead of time, every arithmetic closed over the words and every
  sequence of instructions. `LInv` adds that preserved registers and slots hold
  words and, in code compiled in memory, that the slots hold the caller's
  registers; each action is shown to change scratch registers and one home only.
  One lemma serves both compilers wherever they emit the same calls; prologue,
  calls of externs, new instances and the zero test of the second compiler have
  lemmas of their own. Assumptions: `FrameConstants`, `LowererConstants`,
  `AotConstants`.
- `Encoder_proofs`: `EncoderNoOverrun`, `EncoderLinks`, `EncoderImage`,
  `EncoderRefusal`. What is handed out at the end depends on all that was
  written before, so `EInv` says of the buffer at every moment that, unless it has
  failed, it is the program asked for (`Mirrors`): equal in length, equal byte for
  byte outside the branch fields, each byte of a field covered by a relocation
  with its label and offset, each relocation at a whole field, no two at one
  place; and that whatever failed was denied. Emission is analysed once for
  bytes (`PutFacts`: written whole, or failed and short) and once for branches
  (`JumpFacts`: the opcode, the relocation and the field are each refused on
  their own). From `Mirrors` the relocation that patches a byte is unique, so
  what `resolve_labels` writes there is the distance asked for. Assumption:
  `EncoderConstants`; there is no bound on code, labels or relocations beyond
  the constants.

Type correctness of these components is part of the inductive invariants; no run
repeats it.

Only model-checked:

- `EveryCallReturns`: liveness is beyond the prover.
- `DecodesAsAsked`: it compares byte sequences, emitter by emitter, over all
  registers; there is nothing to generalise but displacements and immediates.
- `arith` and `targets`: bitwise and recursive operators, which the prover
  cannot reach. `KeepsMeaning`, `AcceptedAsWritten` and `DebuggerAgrees`: `Ast`,
  `Parser` and `Debugger` are recursive.
- `PlacedWithoutRodata`, `LinkerFindsTargets`: files are put together by folds
  over lists of pieces, sections and symbols, whose results need induction over
  the list.

## 7. Not modelled

- Lexer: character classes and keyword hashes; its tokens are the input of
  `Parser`. DWARF emission: fixed bytes that nothing reads back. CPU features and
  the command line: input and output without state worth checking.
- Xtensa lowering: its registers are windowed by a processor the repository does
  not describe (its object files are in `ObjectFile`). The x86-64 target backend is
  a wrapper over the encoder that nothing else uses.
- PIC, OSR, unwinder, GC: tables that are filled and never acted on; no lowering
  registers an unwind table and `collect_nursery` moves nothing. Host interop maps
  pages once and never changes them.
- TLAB, trap handler and I/O ring: the other side is the kernel (signal contexts,
  the shared ring), and nothing in the engine submits to the ring.
- Syscall coalescer: its pass changes nothing. `run_stream_analysis`, `run_licm` and
  the profile counters only count.
- The start-up stub of `compile_to_elf`, the vector instructions of RV64, the
  debugger's command loop and printing.
- Allocation from several threads: neither heap nor arena has a lock and no
  document promises one.
