------------------------------ MODULE JitRegions ------------------------------
(***************************************************************************)
(* Executable memory: how compile_function (ana_lowerer.cpp) maps a        *)
(* function and makes it executable, the registry of such regions, and the *)
(* inline-cache miss handler that makes one page writable again to patch a *)
(* call site (src/src/backend/inline_cache.cpp).  Addresses are page       *)
(* numbers, since protections and lookups tell no more apart; of the eight *)
(* bytes that a patch stores a model site says whether they reach into the *)
(* next page.  Threads share the registry without a lock; every load and   *)
(* store of it is a step of its own.  A store to a page that is not        *)
(* writable, or a call into one that is not executable, kills the process. *)
(* The miss statistic and the early returns of the handler for null        *)
(* pointers and bad slots, which change nothing else, are left out.        *)
(***************************************************************************)
EXTENDS Naturals, FiniteSets

CONSTANTS
  Threads,
  NumPages,        \* bound: pages are 1..NumPages
  Foreign,         \* pages of the callers' own data and stacks
  MaxPages,        \* bound: a function takes at most this many pages
  kMaxJitRegions   \* 512

ASSUME RegionConstants ==
  /\ NumPages \in Nat /\ Foreign \subseteq 1..NumPages
  /\ MaxPages \in Nat \ {0} /\ kMaxJitRegions \in Nat \ {0}

Pages == 1..NumPages
RW == {"read", "write"}
RX == {"read", "exec"}
Unmapped == {}

VARIABLES
  prot,      \* page -> what the kernel allows
  jit,       \* history: pages mapped by compile_function
  compiled,  \* pages of functions that compile_function has returned
  count,     \* g_jit_region_count
  regions,   \* g_jit_regions
  pc, loc,   \* thread -> where it is, and its local variables
  fault      \* the pages that refused the access that killed the process

regionvars == <<prot, jit, compiled, count, regions, pc, loc, fault>>

Pc == {"idle", "protect", "claim", "saturate", "start", "end",
       "load", "scan", "test", "direct", "unprotect", "store", "restore"}

\* base, size: the region being compiled; idx: the claimed entry; addr: the
\* page of patch_addr; wide: its eight bytes end in the page behind; n, i: the scan.
Local ==
  [base : Nat, size : Nat, idx : Nat, addr : Nat, wide : BOOLEAN, n : Nat, i : Nat]
NoLocal ==
  [base |-> 0, size |-> 0, idx |-> 0, addr |-> 0, wide |-> FALSE, n |-> 0, i |-> 0]

Extent(l) == l.base..(l.base + l.size - 1)

\* The pages that the eight bytes of a site lie in.
Bytes(addr, wide) == IF wide THEN {addr, addr + 1} ELSE {addr}

RegionInit ==
  /\ prot = [p \in Pages |-> IF p \in Foreign THEN RW ELSE Unmapped]
  /\ jit = {} /\ compiled = {} /\ count = 0
  /\ regions = [k \in 0..(kMaxJitRegions - 1) |-> [start |-> 0, end |-> 0]]
  /\ pc = [t \in Threads |-> "idle"]
  /\ loc = [t \in Threads |-> NoLocal]
  /\ fault = {}

Goto(t, l) == pc' = [pc EXCEPT ![t] = l]
At(t, l) == fault = {} /\ pc[t] = l
Done(t) == Goto(t, "idle") /\ loc' = [loc EXCEPT ![t] = NoLocal]
Protect(ps, how) == prot' = [p \in Pages |-> IF p \in ps THEN how ELSE prot[p]]
-------------------------------------------------------------------------------
(* The end of compile_function. *)

\* Seeded fault: the region is mapped writable and executable at once.
MapExecutable(t) ==
  /\ At(t, "idle")
  /\ \E b \in Pages, s \in 1..MaxPages :
       /\ b + s - 1 <= NumPages
       /\ \A p \in b..(b + s - 1) : prot[p] = Unmapped
       /\ Protect(b..(b + s - 1), RW \cup RX)
       /\ jit' = jit \cup (b..(b + s - 1))
       /\ loc' = [loc EXCEPT ![t] = [NoLocal EXCEPT !.base = b, !.size = s]]
  /\ Goto(t, "protect")
  /\ UNCHANGED <<compiled, count, regions, fault>>

\* mmap read-write and copy the code; a refused mapping changes nothing.
Map(t) ==
  /\ At(t, "idle")
  /\ \E b \in Pages, s \in 1..MaxPages :
       /\ b + s - 1 <= NumPages
       /\ \A p \in b..(b + s - 1) : prot[p] = Unmapped
       /\ Protect(b..(b + s - 1), RW)
       /\ jit' = jit \cup (b..(b + s - 1))
       /\ loc' = [loc EXCEPT ![t] = [NoLocal EXCEPT !.base = b, !.size = s]]
  /\ Goto(t, "protect")
  /\ UNCHANGED <<compiled, count, regions, fault>>

MakeExecutable(t) ==
  /\ At(t, "protect")
  /\ Protect(Extent(loc[t]), RX)
  /\ Goto(t, "claim")
  /\ UNCHANGED <<jit, compiled, count, regions, loc, fault>>

\* mprotect refused: the mapping is given back.
MakeExecutableFails(t) ==
  /\ At(t, "protect")
  /\ Protect(Extent(loc[t]), Unmapped)
  /\ jit' = jit \ Extent(loc[t])
  /\ Done(t)
  /\ UNCHANGED <<compiled, count, regions, fault>>

\* register_jit_code_region: the entry is claimed, and the new count visible,
\* before the entry is filled.
Claim(t) ==
  /\ At(t, "claim")
  /\ count' = count + 1
  /\ loc' = [loc EXCEPT ![t].idx = IF count < kMaxJitRegions THEN count ELSE kMaxJitRegions]
  /\ Goto(t, IF count >= kMaxJitRegions THEN "saturate" ELSE "start")
  /\ UNCHANGED <<prot, jit, compiled, regions, fault>>

Return(t) == compiled' = compiled \cup Extent(loc[t]) /\ Done(t)

\* The table is full: the count goes back to its size, the region stays out.
Saturate(t) ==
  /\ At(t, "saturate")
  /\ count' = kMaxJitRegions
  /\ Return(t)
  /\ UNCHANGED <<prot, jit, regions, fault>>

\* Seeded fault: the region starts a page too low.
WriteStartLow(t) ==
  /\ At(t, "start")
  /\ regions' = [regions EXCEPT ![loc[t].idx].start = loc[t].base - 1]
  /\ Goto(t, "end")
  /\ UNCHANGED <<prot, jit, compiled, count, loc, fault>>

WriteStart(t) ==
  /\ At(t, "start")
  /\ regions' = [regions EXCEPT ![loc[t].idx].start = loc[t].base]
  /\ Goto(t, "end")
  /\ UNCHANGED <<prot, jit, compiled, count, loc, fault>>

WriteEnd(t) ==
  /\ At(t, "end")
  /\ regions' = [regions EXCEPT ![loc[t].idx].end = loc[t].base + loc[t].size]
  /\ Return(t)
  /\ UNCHANGED <<prot, jit, count, fault>>
-------------------------------------------------------------------------------
(* handle_mic_miss for the call site at addr, is_jit_code_address included. *)

Miss(t, addr, wide) ==
  /\ At(t, "idle")
  /\ loc' = [loc EXCEPT ![t] = [NoLocal EXCEPT !.addr = addr, !.wide = wide]]
  /\ Goto(t, "load")
  /\ UNCHANGED <<prot, jit, compiled, count, regions, fault>>

LoadCount(t) ==
  /\ At(t, "load")
  /\ loc' = [loc EXCEPT ![t].n = IF count > kMaxJitRegions THEN kMaxJitRegions ELSE count]
  /\ Goto(t, IF count = 0 THEN "direct" ELSE "scan")
  /\ UNCHANGED <<prot, jit, compiled, count, regions, fault>>

\* Entry i does not match: the next one, or no match at all.
NextEntry(t) ==
  /\ loc' = [loc EXCEPT ![t].i = @ + 1]
  /\ Goto(t, IF loc[t].i + 1 < loc[t].n THEN "scan" ELSE "direct")

ScanStart(t) ==
  /\ At(t, "scan")
  /\ IF loc[t].addr >= regions[loc[t].i].start
     THEN Goto(t, "test") /\ UNCHANGED loc
     ELSE NextEntry(t)
  /\ UNCHANGED <<prot, jit, compiled, count, regions, fault>>

ScanEnd(t) ==
  /\ At(t, "test")
  /\ IF loc[t].addr < regions[loc[t].i].end
     THEN Goto(t, "unprotect") /\ UNCHANGED loc
     ELSE NextEntry(t)
  /\ UNCHANGED <<prot, jit, compiled, count, regions, fault>>

\* The store of the vtable pointer, eight bytes in pages that allow it or not.
Patch(t, next) ==
  /\ fault' = {p \in Bytes(loc[t].addr, loc[t].wide) : "write" \notin prot[p]}
  /\ IF fault' = {} THEN next ELSE UNCHANGED <<pc, loc>>
  /\ UNCHANGED <<prot, jit, compiled, count, regions>>

\* A site outside every region is patched where it lies.
PatchDirect(t) == At(t, "direct") /\ Patch(t, Done(t))

\* Seeded fault: the page is not opened.
UnprotectNothing(t) ==
  /\ At(t, "unprotect")
  /\ prot[loc[t].addr] # Unmapped
  /\ Goto(t, "store")
  /\ UNCHANGED <<prot, jit, compiled, count, regions, loc, fault>>

\* Only the page of the site's first byte is opened, not its region.
Unprotect(t) ==
  /\ At(t, "unprotect")
  /\ prot[loc[t].addr] # Unmapped
  /\ Protect({loc[t].addr}, RW)
  /\ Goto(t, "store")
  /\ UNCHANGED <<jit, compiled, count, regions, loc, fault>>

\* mprotect refused: the site keeps its old value.
UnprotectFails(t) ==
  /\ At(t, "unprotect")
  /\ Done(t)
  /\ UNCHANGED <<prot, jit, compiled, count, regions, fault>>

PatchCode(t) == At(t, "store") /\ Patch(t, Goto(t, "restore") /\ UNCHANGED loc)

\* Seeded fault: the page is left open.
RestoreNothing(t) ==
  /\ At(t, "restore")
  /\ Done(t)
  /\ UNCHANGED <<prot, jit, compiled, count, regions, fault>>

\* Back to read and execute.  The call undoes the split that Unprotect made,
\* so it needs nothing the kernel could refuse.
Restore(t) ==
  /\ At(t, "restore")
  /\ Protect({loc[t].addr}, RX)
  /\ Done(t)
  /\ UNCHANGED <<jit, compiled, count, regions, fault>>

\* A thread calls compiled code in page p.
Call(t, p) ==
  /\ At(t, "idle") /\ p \in compiled
  /\ fault' = {q \in {p} : "exec" \notin prot[q]}
  /\ UNCHANGED <<prot, jit, compiled, count, regions, pc, loc>>
-------------------------------------------------------------------------------
Compile(t) ==
  \/ Map(t) \/ MakeExecutable(t) \/ MakeExecutableFails(t) \/ Saturate(t)
  \/ WriteStart(t) \/ WriteEnd(t)

Handle(t) ==
  \/ LoadCount(t) \/ ScanStart(t) \/ ScanEnd(t) \/ PatchDirect(t)
  \/ Unprotect(t) \/ UnprotectFails(t) \/ PatchCode(t) \/ Restore(t)

\* Call sites whose bytes lie in the pages ps, and the pages of entry k.
Sites(ps) == {s \in Pages \X BOOLEAN : Bytes(s[1], s[2]) \subseteq ps}
Region(k) == regions[k].start..(regions[k].end - 1)

\* Nothing runs in a process that has been killed.
Killed == fault # {} /\ UNCHANGED regionvars

\* What the code itself allows: sites in compiled code or in the callers' data.
FreeNext ==
  \/ \E t \in Threads :
       \/ Compile(t) \/ Claim(t) \/ Handle(t)
       \/ \E s \in Sites(compiled) \cup Sites(Foreign) : Miss(t, s[1], s[2])
       \/ \E p \in compiled : Call(t, p)
  \/ Killed

FreeSpec == RegionInit /\ [][FreeNext]_regionvars

Registering(t) == pc[t] \in {"start", "end", "saturate"}
Looking(t) == pc[t] \in {"load", "scan", "test"}
Handling(t, p) == pc[t] \notin {"idle", "protect", "claim"} /\ loc[t].addr = p

\* The discipline callers need, which no code enforces: no registration during a
\* lookup, one thread at a time on a page, and no site of a function the full
\* table left out.  A program that compiles and runs on one thread keeps it by
\* itself while the table has room.
QuietNext ==
  \/ \E t \in Threads :
       \/ Compile(t) \/ Handle(t)
       \/ (\A u \in Threads : ~Looking(u)) /\ Claim(t)
       \/ \E s \in Sites(Foreign) \cup (UNION {Sites(Region(k)) : k \in DOMAIN regions}) :
            (\A u \in Threads : ~Registering(u) /\ ~Handling(u, s[1])) /\ Miss(t, s[1], s[2])
       \/ \E p \in compiled : (\A u \in Threads : ~Handling(u, p)) /\ Call(t, p)
  \/ Killed

QuietSpec == RegionInit /\ [][QuietNext]_regionvars
-------------------------------------------------------------------------------

\* No page is ever writable and executable at the same time, through
\* compilation, its failures and any interleaving of patches ("Strict W^X").
WriteXorExecute == \A p \in Pages : ~({"write", "exec"} \subseteq prot[p])

\* Under the discipline the only access that can kill the process is the tail of
\* a patch of code that straddles two pages, of which handle_mic_miss opens the
\* first (inline_cache.cpp:61, :73, :75).  Every other store of a vtable pointer,
\* to code or to the callers' data, finds its pages writable, and every call
\* into compiled code finds its page executable.
OnlyStraddlesFault ==
  \A p \in fault :
    \E t \in Threads : pc[t] = "store" /\ loc[t].wide /\ p = loc[t].addr + 1

\* No access kills the process at all: does not hold, as a straddling patch does.
NoFault == fault = {}

\* Between patches all compiled code is executable: a page is opened only by a
\* thread that is about to close it again (handle_mic_miss restores R+X).
CodeExecutable ==
  \A p \in compiled :
    (\A t \in Threads : ~Handling(t, p)) => prot[p] = RX

\* "The inline-cache backpatcher must only change page protections on memory
\* the JIT itself mapped" (inline_cache.h): a page the JIT did not map keeps
\* its protection.  A look-up that meets an entry claimed and not yet filled
\* (inline_cache.cpp:18-25) is excluded by the discipline.
OnlyJitReprotected == [][\A p \in Pages \ (jit \cup jit') : prot'[p] = prot[p]]_regionvars

\* "The patch site is not JIT-owned code -- it is an ordinary writable data or
\* stack slot" (inline_cache.cpp, the direct store of handle_mic_miss): the
\* handler takes that path only for sites the JIT does not own.
DirectSiteIsData == \A t \in Threads : pc[t] = "direct" => loc[t].addr \notin jit
===============================================================================
