-------------------------- MODULE JitRegions_proofs ---------------------------
(***************************************************************************)
(* Proofs about JitRegions under the callers' discipline (QuietSpec), for  *)
(* any set of threads, any number of pages and any size of the registry.   *)
(***************************************************************************)
EXTENDS JitRegions, TLAPS

\* The time each prover has for a leaf.
USE SMTT(30), ZenonT(30)

\* Where a thread is compiling; has made its function executable but not yet
\* returned it; owns an entry it is filling; serves a miss.
Compiling == {"protect", "claim", "saturate", "start", "end"}
Unreturned == {"claim", "saturate", "start", "end"}
Owning == {"start", "end"}
Serving == {"load", "scan", "test", "direct", "unprotect", "store", "restore"}

Slots == 0..(kMaxJitRegions - 1)
InRegion(a, k) == regions[k].start <= a /\ a < regions[k].end

TypeOK ==
  /\ prot \in [Pages -> {RW, RX, Unmapped}]
  /\ jit \subseteq Pages /\ compiled \subseteq Pages
  /\ count \in Nat
  /\ regions \in [Slots -> [start : Nat, end : Nat]]
  /\ pc \in [Threads -> Pc]
  /\ loc \in [Threads -> Local]

\* The callers' pages stay as they were; compiled code is on mapped pages.
Ownership ==
  /\ \A p \in jit : prot[p] # Unmapped
  /\ \A p \in Foreign : p \notin jit /\ prot[p] = RW
  /\ compiled \subseteq jit

\* Functions on their way: their pages are theirs alone, and executable once
\* MakeExecutable is done.
OwnPages ==
  \A t \in Threads : pc[t] \in Compiling =>
    \A p \in Extent(loc[t]) : p \in jit /\ p \notin compiled
OwnExecutable ==
  \A t \in Threads : pc[t] \in Unreturned =>
    \A p \in Extent(loc[t]) : prot[p] = RX
PagesApart ==
  \A t, u \in Threads : t # u /\ pc[t] \in Compiling /\ pc[u] \in Compiling =>
    \A p \in Extent(loc[t]) : p \notin Extent(loc[u])

\* The registry: an entry is empty until its owner has filled it, and then
\* describes compiled code.
Unclaimed ==
  \A k \in Slots : k >= count => regions[k].end = 0
Filled ==
  \A k \in Slots : \A p \in Nat : InRegion(p, k) => p \in compiled
Owned ==
  \A t \in Threads : pc[t] \in Owning =>
    loc[t].idx \in Slots /\ loc[t].idx < count /\ regions[loc[t].idx].end = 0
Started ==
  \A t \in Threads : pc[t] = "end" => regions[loc[t].idx].start = loc[t].base
Saturated ==
  \A t \in Threads : pc[t] = "saturate" => count >= kMaxJitRegions
EntriesApart ==
  \A t, u \in Threads : t # u /\ pc[t] \in Owning /\ pc[u] \in Owning =>
    loc[t].idx # loc[u].idx
EntriesInv ==
  Unclaimed /\ Filled /\ Owned /\ Started /\ Saturated /\ EntriesApart

\* Lookups: no registration disturbs them, what they look for is data or in an
\* entry still ahead, and so they end on the right path; data is patched in the
\* callers' pages alone; a page has at most one.
Undisturbed == \A t, u \in Threads : Looking(t) => ~Registering(u)
Sited ==
  \A t \in Threads : Looking(t) =>
    loc[t].addr \in Foreign \/ \E k \in Slots : InRegion(loc[t].addr, k)
Rewound ==
  \A t \in Threads : pc[t] = "load" => loc[t].i = 0
Scanned ==
  \A t \in Threads : pc[t] \in {"scan", "test"} =>
    /\ loc[t].i < loc[t].n /\ loc[t].n <= kMaxJitRegions
    /\ \A k \in Slots : InRegion(loc[t].addr, k) => loc[t].i <= k /\ k < loc[t].n
Tested ==
  \A t \in Threads : pc[t] = "test" => regions[loc[t].i].start <= loc[t].addr
Routed ==
  /\ \A t \in Threads : pc[t] = "direct" => loc[t].addr \in Foreign
  /\ \A t \in Threads : pc[t] \in {"unprotect", "store", "restore"} => loc[t].addr \in compiled
Whole ==
  \A t \in Threads : pc[t] \in Serving /\ loc[t].addr \in Foreign =>
    Bytes(loc[t].addr, loc[t].wide) \subseteq Foreign
OnePatch ==
  \A t, u \in Threads : t # u /\ pc[t] \in Serving /\ pc[u] \in Serving =>
    loc[t].addr # loc[u].addr
LookupsInv ==
  Undisturbed /\ Sited /\ Rewound /\ Scanned /\ Tested /\ Routed /\ Whole /\ OnePatch

\* Patches: a page of code is open only during one.
Open ==
  \A t \in Threads : pc[t] \in {"store", "restore"} => prot[loc[t].addr] = RW
Closed ==
  \A p \in compiled :
    (\A t \in Threads : pc[t] \in {"store", "restore"} => loc[t].addr # p) => prot[p] = RX

\* The inductive invariant.
RInv ==
  /\ TypeOK /\ Ownership /\ OwnPages /\ OwnExecutable /\ PagesApart
  /\ EntriesInv /\ LookupsInv /\ Open /\ Closed /\ OnlyStraddlesFault
-------------------------------------------------------------------------------
\* The three protections in use are distinct, and what each allows.
LEMMA Protections ==
  /\ RW # RX /\ RW # Unmapped /\ RX # Unmapped
  /\ "write" \in RW /\ "exec" \notin RW
  /\ "exec" \in RX /\ "write" \notin RX
BY DEF RW, RX, Unmapped

\* What the constants are to the proofs below.
LEMMA Constants ==
  /\ Foreign \subseteq Pages
  /\ kMaxJitRegions \in Nat \ {0}
  /\ \A k \in Slots : k \in Nat /\ k < kMaxJitRegions
BY RegionConstants DEF Pages, Slots

\* Nothing is compiled, and the callers' own pages are writable.
LEMMA RInvInit == RegionInit => RInv
<1> SUFFICES ASSUME RegionInit PROVE RInv
  OBVIOUS
<1>1. TypeOK
  BY RegionConstants DEF RegionInit, TypeOK, Pc, Local, NoLocal, Slots
<1>2. Ownership
  BY Constants DEF RegionInit, Ownership
<1>3. OwnPages /\ OwnExecutable /\ PagesApart /\ Open /\ Closed
  BY DEF RegionInit, OwnPages, OwnExecutable, PagesApart, Open, Closed, Compiling, Unreturned
<1>4. EntriesInv
  BY DEF RegionInit, EntriesInv, Unclaimed, Filled, Owned, Started, Saturated, EntriesApart,
     InRegion, Slots, Owning
<1>5. LookupsInv
  BY DEF RegionInit, LookupsInv, Undisturbed, Sited, Rewound, Scanned, Tested, Routed, Whole, OnePatch,
     Looking, Serving
<1>6. OnlyStraddlesFault
  BY DEF RegionInit, OnlyStraddlesFault
<1> QED BY <1>1, <1>2, <1>3, <1>4, <1>5, <1>6 DEF RInv
-------------------------------------------------------------------------------
(* Frames: what a step of t leaves alone when t stays outside a phase. *)

\* Only t moves.
Others(t) == \A u \in Threads \ {t} : pc'[u] = pc[u] /\ loc'[u] = loc[u]

\* A step of a thread that is not registering, before or after, keeps what is
\* known of the registry.
LEMMA EntriesFrame ==
  ASSUME EntriesInv, NEW t \in Threads, Others(t),
         ~Registering(t), ~Registering(t)', UNCHANGED <<count, regions, compiled>>
  PROVE  EntriesInv'
<1> USE DEF EntriesInv, Others, Registering, Owning
<1>1. Unclaimed' /\ Filled'
  BY DEF Unclaimed, Filled, InRegion
<1>2. Owned'
  BY DEF Owned
<1>3. Started' /\ Saturated'
  BY DEF Started, Saturated
<1>4. EntriesApart'
  BY DEF EntriesApart
<1> QED BY <1>1, <1>2, <1>3, <1>4

\* A step of a thread that is not compiling, before or after, keeps what is
\* known of the pages being compiled.
LEMMA PagesFrame ==
  ASSUME OwnPages, PagesApart, NEW t \in Threads, Others(t),
         pc[t] \notin Compiling, pc'[t] \notin Compiling, UNCHANGED <<jit, compiled>>
  PROVE  OwnPages' /\ PagesApart'
<1>1. OwnPages'
  BY DEF OwnPages, Others
<1>2. PagesApart'
  BY DEF PagesApart, Others
<1> QED BY <1>1, <1>2

\* If it changes no protection either, it keeps all that is known of pages.
LEMMA ProtFrame ==
  ASSUME Ownership, OwnExecutable, NEW t \in Threads, Others(t),
         pc[t] \notin Compiling, pc'[t] \notin Compiling, UNCHANGED <<jit, compiled, prot>>
  PROVE  Ownership' /\ OwnExecutable'
<1>1. Ownership'
  BY DEF Ownership
<1>2. OwnExecutable'
  BY DEF OwnExecutable, Others, Compiling, Unreturned
<1> QED BY <1>1, <1>2

\* A step of a thread that serves no miss, before or after, keeps what is known
\* of lookups, if it leaves the registry alone or nobody is looking.
LEMMA LookupsFrame ==
  ASSUME LookupsInv, NEW t \in Threads, Others(t),
         pc[t] \notin Serving, pc'[t] \notin Serving, compiled \subseteq compiled',
         \/ UNCHANGED regions /\ ~Registering(t)'
         \/ \A u \in Threads : ~Looking(u)
  PROVE  LookupsInv'
<1> USE DEF LookupsInv, Others, Looking, Serving
<1>1. Undisturbed' /\ Rewound'
  BY DEF Undisturbed, Rewound, Registering
<1>2. Sited'
  BY DEF Sited, InRegion
<1>3. Scanned'
  BY DEF Scanned, InRegion
<1>4. Tested'
  BY DEF Tested
<1>5. Routed'
  BY DEF Routed
<1>6. Whole'
  BY DEF Whole
<1>7. OnePatch'
  BY DEF OnePatch
<1> QED BY <1>1, <1>2, <1>3, <1>4, <1>5, <1>6, <1>7
-------------------------------------------------------------------------------
(* The steps of compile_function. *)

\* A new function lies on pages that were unmapped, so they are nobody else's.
LEMMA MapStep == ASSUME RInv, NEW t \in Threads, Map(t) PROVE RInv'
<1> USE DEF RInv
<1>1. PICK b \in Pages, s \in 1..MaxPages :
        /\ b + s - 1 <= NumPages
        /\ \A p \in b..(b + s - 1) : prot[p] = Unmapped
        /\ Protect(b..(b + s - 1), RW)
        /\ jit' = jit \cup (b..(b + s - 1))
        /\ loc' = [loc EXCEPT ![t] = [NoLocal EXCEPT !.base = b, !.size = s]]
  BY Zenon DEF Map
<1>2. /\ pc[t] = "idle" /\ pc'[t] = "protect"
      /\ fault = {} /\ UNCHANGED <<compiled, count, regions, fault>>
  BY DEF Map, At, Goto, TypeOK
<1>3. b \in Nat /\ s \in Nat /\ b..(b + s - 1) \subseteq Pages
  BY <1>1, RegionConstants DEF Pages
<1>4. Others(t) /\ Extent(loc'[t]) = b..(b + s - 1)
  <2>1. loc'[t].base = b /\ loc'[t].size = s /\ Others(t)
    BY <1>1, Zenon DEF Map, Goto, Others, TypeOK, NoLocal
  <2> QED BY <2>1 DEF Extent
<1>5. \A p \in Pages : prot'[p] = IF p \in b..(b + s - 1) THEN RW ELSE prot[p]
  BY <1>1 DEF Protect
<1>6. TypeOK'
  BY <1>1, <1>2, <1>3, Zenon DEF TypeOK, Map, Goto, Protect, Pc, Local, NoLocal
<1>7. Ownership'
  <2>1. \A p \in Foreign : p \notin b..(b + s - 1)
    BY <1>1, Protections DEF Ownership
  <2>2. \A p \in jit' : p \in Pages /\ prot'[p] # Unmapped
    BY <1>1, <1>3, <1>5, Protections DEF Ownership, TypeOK
  <2> QED BY <1>1, <1>2, <1>5, <2>1, <2>2, Constants DEF Ownership
<1>8. \A p \in jit : p \notin b..(b + s - 1)
  BY <1>1 DEF Ownership
<1>9. OwnPages'
  BY <1>1, <1>2, <1>4, <1>8, Zenon DEF OwnPages, Others, Ownership
<1>10. OwnExecutable'
  BY <1>2, <1>4, <1>5, <1>8 DEF OwnExecutable, OwnPages, Others, Unreturned, Compiling, TypeOK
<1>11. PagesApart'
  BY <1>2, <1>4, <1>8, Zenon DEF PagesApart, OwnPages, Others
<1>12. EntriesInv'
  BY <1>2, <1>4, EntriesFrame DEF Registering
<1>13. LookupsInv'
  BY <1>2, <1>4, LookupsFrame DEF Serving, Registering
<1>14. Open'
  BY <1>2, <1>4, <1>5, <1>8 DEF Open, Others, LookupsInv, Routed, Ownership, TypeOK
<1>15. Closed'
  <2> SUFFICES ASSUME NEW p \in compiled,
                      \A u \in Threads : pc'[u] \in {"store", "restore"} => loc'[u].addr # p
               PROVE  prot'[p] = RX
    BY <1>2 DEF Closed
  <2>1. p \in Pages /\ p \notin b..(b + s - 1)
    BY <1>8 DEF Ownership, TypeOK
  <2>2. \A u \in Threads : pc[u] \in {"store", "restore"} => loc[u].addr # p
    BY <1>2, <1>4 DEF Others
  <2>3. prot[p] = RX
    BY <2>2 DEF Closed
  <2> QED BY <1>5, <2>1, <2>3
<1>16. OnlyStraddlesFault'
  BY <1>2 DEF OnlyStraddlesFault
<1> QED BY <1>6, <1>7, <1>9, <1>10, <1>11, <1>12, <1>13, <1>14, <1>15, <1>16

\* Only the pages of the function itself become executable.
LEMMA MakeExecutableStep == ASSUME RInv, NEW t \in Threads, MakeExecutable(t) PROVE RInv'
<1> USE DEF RInv
<1>1. /\ pc[t] = "protect" /\ pc'[t] = "claim"
      /\ fault = {} /\ UNCHANGED <<jit, compiled, count, regions, loc, fault>>
  BY DEF MakeExecutable, At, Goto, TypeOK
<1>2. Others(t)
  BY <1>1 DEF MakeExecutable, Goto, Others, TypeOK
<1>3. \A p \in Pages : prot'[p] = IF p \in Extent(loc[t]) THEN RX ELSE prot[p]
  BY DEF MakeExecutable, Protect
<1>4. \A p \in Extent(loc[t]) : p \in jit /\ p \notin compiled
  BY <1>1 DEF OwnPages, Compiling
<1>5. TypeOK'
  BY <1>1 DEF TypeOK, MakeExecutable, Goto, Protect, Pc
<1>6. Ownership'
  BY <1>1, <1>3, <1>4, Constants, Protections DEF Ownership, TypeOK
<1>7. OwnPages' /\ PagesApart'
  BY <1>1, <1>2 DEF OwnPages, PagesApart, Others, Compiling
<1>8. OwnExecutable'
  BY <1>1, <1>2, <1>3, <1>4 DEF OwnExecutable, OwnPages, Others, Unreturned, Compiling, TypeOK
<1>9. EntriesInv'
  BY <1>1, <1>2, EntriesFrame DEF Registering
<1>10. LookupsInv'
  BY <1>1, <1>2, LookupsFrame DEF Serving, Registering
<1>11. Open'
  BY <1>1, <1>2, <1>3, <1>4 DEF Open, Others, LookupsInv, Routed, TypeOK
<1>12. Closed'
  BY <1>1, <1>2, <1>3, <1>4 DEF Closed, Others, TypeOK
<1>13. OnlyStraddlesFault'
  BY <1>1 DEF OnlyStraddlesFault
<1> QED BY <1>5, <1>6, <1>7, <1>8, <1>9, <1>10, <1>11, <1>12, <1>13

\* The pages given back are in no region and in no other function.
LEMMA MakeExecutableFailsStep ==
  ASSUME RInv, NEW t \in Threads, MakeExecutableFails(t) PROVE RInv'
<1> USE DEF RInv
<1>1. /\ pc[t] = "protect" /\ pc'[t] = "idle" /\ jit' = jit \ Extent(loc[t])
      /\ fault = {} /\ UNCHANGED <<compiled, count, regions, fault>>
  BY DEF MakeExecutableFails, At, Done, Goto, TypeOK
<1>2. Others(t)
  BY DEF MakeExecutableFails, Done, Goto, Others, TypeOK
<1>3. \A p \in Pages : prot'[p] = IF p \in Extent(loc[t]) THEN Unmapped ELSE prot[p]
  BY DEF MakeExecutableFails, Protect
<1>4. \A p \in Extent(loc[t]) : p \in jit /\ p \notin compiled
  BY <1>1 DEF OwnPages, Compiling
<1>5. TypeOK'
  BY <1>1 DEF TypeOK, MakeExecutableFails, Done, Goto, Protect, Pc, Local, NoLocal
<1>6. Ownership'
  BY <1>1, <1>3, <1>4, Constants DEF Ownership, TypeOK
<1>7. \A u \in Threads \ {t} : pc[u] \in Compiling =>
        \A p \in Extent(loc[u]) : p \notin Extent(loc[t])
  BY <1>1 DEF PagesApart, Compiling
<1>8. OwnPages'
  BY <1>1, <1>2, <1>7 DEF OwnPages, Others, Compiling
<1>9. OwnExecutable'
  BY <1>1, <1>2, <1>3, <1>7 DEF OwnExecutable, OwnPages, Others, Unreturned, Compiling, TypeOK
<1>10. PagesApart'
  BY <1>1, <1>2 DEF PagesApart, Others, Compiling
<1>11. EntriesInv'
  BY <1>1, <1>2, EntriesFrame DEF Registering
<1>12. LookupsInv'
  BY <1>1, <1>2, LookupsFrame DEF Serving, Registering
<1>13. Open'
  BY <1>1, <1>2, <1>3, <1>4 DEF Open, Others, LookupsInv, Routed, TypeOK
<1>14. Closed'
  BY <1>1, <1>2, <1>3, <1>4 DEF Closed, Others, TypeOK
<1>15. OnlyStraddlesFault'
  BY <1>1 DEF OnlyStraddlesFault
<1> QED BY <1>5, <1>6, <1>8, <1>9, <1>10, <1>11, <1>12, <1>13, <1>14, <1>15

\* The claimed entry is beyond all entries claimed before, and still empty.
LEMMA ClaimStep ==
  ASSUME RInv, NEW t \in Threads, \A u \in Threads : ~Looking(u), Claim(t) PROVE RInv'
<1> USE DEF RInv
<1>1. /\ pc[t] = "claim" /\ count' = count + 1
      /\ pc'[t] = IF count >= kMaxJitRegions THEN "saturate" ELSE "start"
      /\ fault = {} /\ UNCHANGED <<prot, jit, compiled, regions, fault>>
  BY DEF Claim, At, Goto, TypeOK
<1>2. /\ Others(t) /\ loc'[t].base = loc[t].base /\ loc'[t].size = loc[t].size
      /\ loc'[t].idx = IF count < kMaxJitRegions THEN count ELSE kMaxJitRegions
  BY DEF Claim, Goto, Others, TypeOK, Local
<1>3. Extent(loc'[t]) = Extent(loc[t])
  BY <1>2 DEF Extent
<1>4. TypeOK'
  <2>1. loc' \in [Threads -> Local]
    BY Constants DEF TypeOK, Claim, Local
  <2>2. pc' \in [Threads -> Pc]
    BY DEF TypeOK, Claim, Goto, Pc
  <2> QED BY <1>1, <2>1, <2>2 DEF TypeOK
<1>5. Ownership'
  BY <1>1 DEF Ownership
<1>6. OwnPages' /\ PagesApart'
  BY <1>1, <1>2, <1>3 DEF OwnPages, PagesApart, Others, Compiling
<1>7. OwnExecutable'
  BY <1>1, <1>2, <1>3 DEF OwnExecutable, Others, Unreturned
<1>8. EntriesInv'
  <2> USE DEF EntriesInv
  <2>1. count \in Nat
    BY DEF TypeOK
  <2>2. Unclaimed' /\ Filled'
    BY <1>1, <2>1, Constants DEF Unclaimed, Filled, InRegion
  <2>3. pc'[t] \in Owning =>
          loc'[t].idx \in Slots /\ loc'[t].idx = count /\ regions[count].end = 0
    BY <1>1, <1>2, <2>1, Constants DEF Unclaimed, Slots, Owning
  <2>4. \A u \in Threads \ {t} : pc[u] \in Owning =>
          /\ loc[u].idx \in Slots /\ regions[loc[u].idx].end = 0
          /\ loc[u].idx < count /\ loc[u].idx < count + 1
    BY <2>1, Constants DEF Owned
  <2>5. Owned'
    BY <1>1, <1>2, <2>1, <2>3, <2>4 DEF Owned, Others
  <2>6. Started'
    BY <1>1, <1>2 DEF Started, Others
  <2>7. Saturated'
    BY <1>1, <1>2, <2>1, Constants DEF Saturated, Others
  <2>8. EntriesApart'
    BY <1>1, <1>2, <2>1, <2>3, <2>4, Constants DEF EntriesApart, Others
  <2> QED BY <2>2, <2>5, <2>6, <2>7, <2>8
<1>9. LookupsInv'
  BY <1>1, <1>2, LookupsFrame DEF Serving
<1>10. Open' /\ Closed'
  BY <1>1, <1>2 DEF Open, Closed, Others
<1>11. OnlyStraddlesFault'
  BY <1>1 DEF OnlyStraddlesFault
<1> QED BY <1>4, <1>5, <1>6, <1>7, <1>8, <1>9, <1>10, <1>11

\* What Saturate and WriteEnd share: the function is returned.
LEMMA ReturnStep ==
  ASSUME RInv, NEW t \in Threads, Registering(t), Return(t), UNCHANGED <<prot, jit>>
  PROVE  /\ Others(t) /\ pc'[t] = "idle" /\ compiled' = compiled \cup Extent(loc[t])
         /\ pc' \in [Threads -> Pc] /\ loc' \in [Threads -> Local] /\ compiled' \subseteq Pages
         /\ Ownership' /\ OwnPages' /\ OwnExecutable' /\ PagesApart'
         /\ LookupsInv' /\ Open' /\ Closed'
<1> USE DEF RInv
<1>1. /\ pc[t] \in Unreturned /\ pc[t] \in Compiling /\ pc[t] \notin Serving
      /\ pc'[t] = "idle" /\ compiled' = compiled \cup Extent(loc[t])
  BY DEF Return, Done, Goto, TypeOK, Registering, Unreturned, Compiling, Serving
<1>2. Others(t)
  BY DEF Return, Done, Goto, Others, TypeOK
<1>3. \A p \in Extent(loc[t]) : p \in jit /\ prot[p] = RX
  BY <1>1 DEF OwnPages, OwnExecutable
<1>4. pc' \in [Threads -> Pc] /\ loc' \in [Threads -> Local]
  BY DEF Return, Done, Goto, TypeOK, Pc, Local, NoLocal
<1>5. compiled' \subseteq Pages /\ Ownership'
  BY <1>1, <1>3 DEF TypeOK, Ownership
<1>6. OwnPages'
  BY <1>1, <1>2 DEF OwnPages, PagesApart, Others, Compiling
<1>7. OwnExecutable'
  BY <1>1, <1>2 DEF OwnExecutable, Others, Unreturned
<1>8. PagesApart'
  BY <1>1, <1>2 DEF PagesApart, Others, Compiling
<1>9. \A u \in Threads : ~Looking(u)
  BY DEF LookupsInv, Undisturbed
<1>10. LookupsInv'
  BY <1>1, <1>2, <1>9, LookupsFrame DEF Serving
<1>11. Open'
  BY <1>1, <1>2 DEF Open, Others
<1>12. Closed'
  BY <1>1, <1>2, <1>3 DEF Closed, Others, Serving
<1> QED BY <1>1, <1>2, <1>4, <1>5, <1>6, <1>7, <1>8, <1>10, <1>11, <1>12

\* The full table stays full.
LEMMA SaturateStep == ASSUME RInv, NEW t \in Threads, Saturate(t) PROVE RInv'
<1> USE DEF RInv
<1>1. /\ pc[t] = "saturate" /\ Registering(t) /\ Return(t) /\ count' = kMaxJitRegions
      /\ fault = {} /\ UNCHANGED <<prot, jit, regions, fault>>
  BY DEF Saturate, At, Registering
<1>2. /\ Others(t) /\ pc'[t] = "idle" /\ compiled' = compiled \cup Extent(loc[t])
      /\ pc' \in [Threads -> Pc] /\ loc' \in [Threads -> Local] /\ compiled' \subseteq Pages
      /\ Ownership' /\ OwnPages' /\ OwnExecutable' /\ PagesApart'
      /\ LookupsInv' /\ Open' /\ Closed'
  BY <1>1, ReturnStep
<1>3. TypeOK'
  BY <1>1, <1>2, Constants DEF TypeOK
<1>4. EntriesInv'
  <2> USE DEF EntriesInv
  <2>1. Unclaimed' /\ Filled'
    BY <1>1, <1>2, Constants DEF Unclaimed, Filled, InRegion
  <2>2. Owned'
    BY <1>1, <1>2, Constants DEF Owned, Others, Owning
  <2>3. Started' /\ Saturated'
    BY <1>1, <1>2, Constants DEF Started, Saturated, Others
  <2>4. EntriesApart'
    BY <1>1, <1>2 DEF EntriesApart, Others, Owning
  <2> QED BY <2>1, <2>2, <2>3, <2>4
<1>5. OnlyStraddlesFault'
  BY <1>1 DEF OnlyStraddlesFault
<1> QED BY <1>2, <1>3, <1>4, <1>5

\* An entry whose end is still 0 matches nothing, whatever its start.
LEMMA WriteStartStep == ASSUME RInv, NEW t \in Threads, WriteStart(t) PROVE RInv'
<1> USE DEF RInv
<1>1. /\ pc[t] = "start" /\ pc'[t] = "end"
      /\ fault = {} /\ UNCHANGED <<prot, jit, compiled, count, loc, fault>>
  BY DEF WriteStart, At, Goto, TypeOK
<1>2. Others(t)
  BY <1>1 DEF WriteStart, Goto, Others, TypeOK
<1>3. loc[t].idx \in Slots /\ regions[loc[t].idx].end = 0 /\ loc[t].base \in Nat
  BY <1>1 DEF EntriesInv, Owned, Owning, TypeOK, Local
<1>4. \A k \in Slots :
        /\ regions'[k].end = regions[k].end
        /\ regions'[k].start = IF k = loc[t].idx THEN loc[t].base ELSE regions[k].start
  BY <1>3 DEF WriteStart, TypeOK
<1>5. TypeOK'
  BY <1>1, <1>3 DEF TypeOK, WriteStart, Goto, Pc
<1>6. Ownership' /\ OwnPages' /\ OwnExecutable' /\ PagesApart'
  BY <1>1, <1>2 DEF Ownership, OwnPages, OwnExecutable, PagesApart, Others, Compiling, Unreturned
<1>7. EntriesInv'
  <2> USE DEF EntriesInv
  <2>1. Unclaimed'
    BY <1>1, <1>4 DEF Unclaimed
  <2>2. Filled'
    BY <1>1, <1>3, <1>4 DEF Filled, InRegion
  <2>3. Owned'
    BY <1>1, <1>2, <1>3, <1>4 DEF Owned, Others, Owning
  <2>4. Started'
    BY <1>1, <1>2, <1>3, <1>4 DEF Started, Owned, EntriesApart, Others, Owning
  <2>5. Saturated' /\ EntriesApart'
    BY <1>1, <1>2 DEF Saturated, EntriesApart, Others, Owning
  <2> QED BY <2>1, <2>2, <2>3, <2>4, <2>5
<1>8. \A u \in Threads : ~Looking(u)
  BY <1>1 DEF LookupsInv, Undisturbed, Registering
<1>9. LookupsInv'
  BY <1>1, <1>2, <1>8, LookupsFrame DEF Serving
<1>10. Open' /\ Closed'
  BY <1>1, <1>2 DEF Open, Closed, Others
<1>11. OnlyStraddlesFault'
  BY <1>1 DEF OnlyStraddlesFault
<1> QED BY <1>5, <1>6, <1>7, <1>9, <1>10, <1>11

\* The filled entry describes the function that is returned in the same step.
LEMMA WriteEndStep == ASSUME RInv, NEW t \in Threads, WriteEnd(t) PROVE RInv'
<1> USE DEF RInv
<1>1. /\ pc[t] = "end" /\ Registering(t) /\ Return(t)
      /\ fault = {} /\ UNCHANGED <<prot, jit, count, fault>>
  BY DEF WriteEnd, At, Registering
<1>2. /\ Others(t) /\ pc'[t] = "idle" /\ compiled' = compiled \cup Extent(loc[t])
      /\ pc' \in [Threads -> Pc] /\ loc' \in [Threads -> Local] /\ compiled' \subseteq Pages
      /\ Ownership' /\ OwnPages' /\ OwnExecutable' /\ PagesApart'
      /\ LookupsInv' /\ Open' /\ Closed'
  BY <1>1, ReturnStep
<1>3. /\ loc[t].idx \in Slots /\ loc[t].idx < count /\ count \in Nat
      /\ regions[loc[t].idx].start = loc[t].base
      /\ loc[t].base \in Nat /\ loc[t].size \in Nat
  BY <1>1 DEF EntriesInv, Owned, Started, Owning, TypeOK, Local
<1>4. \A k \in Slots :
        /\ regions'[k].start = regions[k].start
        /\ regions'[k].end = IF k = loc[t].idx THEN loc[t].base + loc[t].size ELSE regions[k].end
  BY <1>3 DEF WriteEnd, TypeOK
<1>5. TypeOK'
  <2>1. regions' \in [Slots -> [start : Nat, end : Nat]]
    BY <1>3 DEF WriteEnd, TypeOK
  <2> QED BY <1>1, <1>2, <2>1 DEF TypeOK
<1>6. EntriesInv'
  <2> USE DEF EntriesInv
  <2>1. ASSUME NEW k \in Slots, k >= count PROVE k # loc[t].idx
    BY <1>3, <2>1, Constants
  <2>2. Unclaimed'
    BY <1>1, <1>4, <2>1 DEF Unclaimed
  <2>3. \A p \in Nat : loc[t].base <= p /\ p < loc[t].base + loc[t].size => p \in Extent(loc[t])
    BY <1>3 DEF Extent
  <2>4. Filled'
    BY <1>2, <1>3, <1>4, <2>3 DEF Filled, InRegion
  <2>5. ASSUME NEW u \in Threads, pc'[u] \in Owning
        PROVE  pc[u] = pc'[u] /\ loc'[u] = loc[u] /\ loc[u].idx # loc[t].idx
    <3>1. u # t
      BY <1>2, <2>5 DEF Owning
    <3> QED BY <1>1, <1>2, <2>5, <3>1 DEF Others, EntriesApart, Owning
  <2>0. Owned /\ Started /\ count' = count
    BY <1>1, Zenon
  <2>6. Owned'
    <3>1. ASSUME NEW u \in Threads, pc'[u] \in Owning
          PROVE  loc'[u].idx \in Slots /\ loc'[u].idx < count' /\ regions'[loc'[u].idx].end = 0
      <4>1. /\ loc'[u] = loc[u] /\ loc[u].idx # loc[t].idx
            /\ loc[u].idx \in Slots /\ loc[u].idx < count /\ regions[loc[u].idx].end = 0
        BY <2>0, <2>5, <3>1, Zenon DEF Owned
      <4> QED BY <4>1, <2>0, <1>4
    <3> QED BY <3>1, Zenon DEF Owned
  <2>7. Started'
    <3>1. ASSUME NEW u \in Threads, pc'[u] = "end"
          PROVE  regions'[loc'[u].idx].start = loc'[u].base
      <4>1. pc'[u] \in Owning
        BY <3>1 DEF Owning
      <4>2. loc'[u] = loc[u] /\ loc[u].idx \in Slots /\ regions[loc[u].idx].start = loc[u].base
        BY <2>0, <2>5, <3>1, <4>1, Zenon DEF Owned, Started
      <4> QED BY <4>2, <1>4
    <3> QED BY <3>1, Zenon DEF Started
  <2>8. Saturated'
    BY <1>1, <1>2 DEF Saturated, Others
  <2>9. EntriesApart'
    BY <2>5 DEF EntriesApart
  <2> QED BY <2>2, <2>4, <2>6, <2>7, <2>8, <2>9
<1>7. OnlyStraddlesFault'
  BY <1>1 DEF OnlyStraddlesFault
<1> QED BY <1>2, <1>5, <1>6, <1>7
-------------------------------------------------------------------------------
(* The steps of handle_mic_miss, and calls. *)

\* What the steps that change no protection share: pages and entries are as
\* they were.
LEMMA ServeStep ==
  ASSUME RInv, NEW t \in Threads, Others(t),
         pc[t] \notin Compiling, pc'[t] \notin Compiling,
         UNCHANGED <<prot, jit, compiled, count, regions>>
  PROVE  Ownership' /\ OwnPages' /\ OwnExecutable' /\ PagesApart' /\ EntriesInv'
<1>1. ~Registering(t) /\ ~Registering(t)'
  BY DEF Registering, Compiling
<1> QED BY <1>1, EntriesFrame, PagesFrame, ProtFrame DEF RInv

\* A miss begins, at a site nobody else is patching, while nobody registers.
LEMMA MissStep ==
  ASSUME RInv, NEW t \in Threads,
         NEW s \in Sites(Foreign) \cup (UNION {Sites(Region(k)) : k \in DOMAIN regions}),
         \A u \in Threads : ~Registering(u) /\ ~Handling(u, s[1]), Miss(t, s[1], s[2])
  PROVE  RInv'
<1> DEFINE a == s[1]
           w == s[2]
<1>0. /\ TypeOK /\ Ownership /\ OwnPages /\ OwnExecutable /\ PagesApart
      /\ EntriesInv /\ LookupsInv /\ Open /\ Closed /\ OnlyStraddlesFault
  BY DEF RInv
<1>a. /\ s \in Pages \X BOOLEAN
      /\ \/ Bytes(a, w) \subseteq Foreign
         \/ \E k \in DOMAIN regions : Bytes(a, w) \subseteq Region(k)
  BY Zenon DEF Sites
<1>b. a \in Nat /\ w \in BOOLEAN /\ a \in Bytes(a, w)
  BY <1>a DEF Bytes, Pages
<1>1. \/ a \in Foreign /\ Bytes(a, w) \subseteq Foreign
      \/ a \notin Foreign /\ \E k \in Slots : InRegion(a, k)
  <2>1. CASE Bytes(a, w) \subseteq Foreign
    BY <1>b, <2>1
  <2>2. ASSUME NEW k \in DOMAIN regions, Bytes(a, w) \subseteq Region(k)
        PROVE  a \notin Foreign /\ k \in Slots /\ InRegion(a, k)
    <3>1. k \in Slots /\ regions[k].start \in Nat /\ regions[k].end \in Nat
      BY <1>0 DEF TypeOK
    <3>2. InRegion(a, k)
      BY <1>b, <2>2, <3>1 DEF Region, InRegion
    <3>3. a \in compiled
      BY <1>0, <1>b, <3>1, <3>2 DEF EntriesInv, Filled
    <3> QED BY <1>0, <3>1, <3>2, <3>3 DEF Ownership
  <2> QED BY <1>a, <2>1, <2>2
<1>2. /\ pc[t] = "idle" /\ pc'[t] = "load"
      /\ fault = {} /\ UNCHANGED <<prot, jit, compiled, count, regions, fault>>
  BY <1>0 DEF Miss, At, Goto, TypeOK
<1>3. Others(t) /\ loc'[t].addr = a /\ loc'[t].wide = w /\ loc'[t].i = 0
  BY <1>0, <1>b DEF Miss, Goto, Others, TypeOK, NoLocal
<1>4. TypeOK'
  BY <1>0, <1>b, <1>2 DEF TypeOK, Miss, Goto, Pc, Local, NoLocal
<1>5. Ownership' /\ OwnPages' /\ OwnExecutable' /\ PagesApart' /\ EntriesInv'
  BY <1>2, <1>3, ServeStep DEF Compiling
<1>6. LookupsInv'
  <2> USE DEF LookupsInv, Others
  <2>1. Undisturbed' /\ Rewound'
    BY <1>0, <1>2, <1>3 DEF Undisturbed, Rewound, Looking, Registering
  <2>2. Sited'
    BY <1>0, <1>1, <1>2, <1>3 DEF Sited, InRegion, Looking
  <2>3. Scanned' /\ Tested' /\ Routed'
    BY <1>0, <1>2, <1>3 DEF Scanned, Tested, Routed, InRegion
  <2>4. OnePatch'
    <3>1. \A u \in Threads \ {t} : pc[u] \in Serving => loc[u].addr # a
      BY DEF Handling, Serving
    <3>2. \A u \in Threads \ {t} : pc'[u] = pc[u] /\ loc'[u] = loc[u]
      BY <1>3
    <3>3. \A u, v \in Threads \ {t} : u # v /\ pc[u] \in Serving /\ pc[v] \in Serving =>
            loc[u].addr # loc[v].addr
      BY <1>0 DEF OnePatch
    <3> QED BY <1>3, <3>1, <3>2, <3>3 DEF OnePatch
  <2>5. Whole'
    BY <1>0, <1>1, <1>3 DEF Whole
  <2> QED BY <2>1, <2>2, <2>3, <2>4, <2>5
<1>7. Open'
  BY <1>0, <1>2, <1>3 DEF Open, Others
<1>8. Closed'
  BY <1>0, <1>2, <1>3 DEF Closed, Others
<1>9. OnlyStraddlesFault'
  BY <1>0, <1>2 DEF OnlyStraddlesFault
<1> QED BY <1>4, <1>5, <1>6, <1>7, <1>8, <1>9 DEF RInv

\* What is known of t's scan, in numbers.
LEMMA ScanTypes ==
  ASSUME TypeOK, NEW t \in Threads
  PROVE  /\ loc[t].addr \in Nat /\ loc[t].i \in Nat /\ loc[t].n \in Nat /\ count \in Nat
         /\ \A k \in Slots : regions[k].start \in Nat /\ regions[k].end \in Nat
BY DEF TypeOK, Local

\* t looks on, at entries that include all that hold its site, or takes a path
\* that suits the site.
Path(t) ==
  \/ /\ pc'[t] \in {"scan", "test"}
     /\ loc'[t].i < loc'[t].n /\ loc'[t].n <= kMaxJitRegions
     /\ \A k \in Slots : InRegion(loc[t].addr, k) => loc'[t].i <= k /\ k < loc'[t].n
     /\ pc'[t] = "test" => regions[loc'[t].i].start <= loc[t].addr
  \/ pc'[t] = "direct" /\ loc[t].addr \in Foreign
  \/ pc'[t] = "unprotect" /\ loc[t].addr \in compiled

\* The steps of the scan, in which t keeps its site.
LEMMA LookStep ==
  ASSUME RInv, NEW t \in Threads, Looking(t), Others(t), TypeOK',
         fault = {}, UNCHANGED <<prot, jit, compiled, count, regions, fault>>,
         loc'[t].addr = loc[t].addr, loc'[t].wide = loc[t].wide,
         Path(t)
  PROVE  RInv'
<1>0. /\ TypeOK /\ Ownership /\ OwnPages /\ OwnExecutable /\ PagesApart
      /\ EntriesInv /\ LookupsInv /\ Open /\ Closed /\ OnlyStraddlesFault
  BY DEF RInv
<1>1. pc[t] \notin Compiling /\ pc'[t] \notin Compiling
  BY <1>0 DEF Path, Looking, Compiling
<1>2. Ownership' /\ OwnPages' /\ OwnExecutable' /\ PagesApart' /\ EntriesInv'
  BY <1>1, ServeStep
<1>3. LookupsInv'
  <2> USE DEF LookupsInv, Others, Path
  <2>1. Undisturbed'
    BY <1>0 DEF Undisturbed, Looking, Registering
  <2>2. Rewound'
    BY <1>0 DEF Rewound
  <2>3. Sited'
    BY <1>0 DEF Sited, InRegion, Looking
  <2>4. Scanned'
    BY <1>0 DEF Scanned, InRegion
  <2>5. Tested'
    BY <1>0 DEF Tested
  <2>6. Routed'
    BY <1>0 DEF Routed
  <2>7. OnePatch'
    <3>1. pc[t] \in Serving
      BY DEF Looking, Serving
    <3>2. \A u \in Threads : loc'[u].addr = loc[u].addr /\ (pc'[u] \in Serving => pc[u] \in Serving)
      BY <3>1
    <3>3. ASSUME NEW u \in Threads, NEW v \in Threads, u # v,
                 pc'[u] \in Serving, pc'[v] \in Serving
          PROVE  loc'[u].addr # loc'[v].addr
      <4>1. pc[u] \in Serving /\ pc[v] \in Serving
        BY <3>2, <3>3
      <4>2. loc[u].addr # loc[v].addr
        BY <1>0, <3>3, <4>1 DEF OnePatch
      <4> QED BY <3>2, <4>2
    <3> QED BY <3>3 DEF OnePatch
  <2>8. Whole'
    BY <1>0 DEF Whole, Looking, Serving
  <2> QED BY <2>1, <2>2, <2>3, <2>4, <2>5, <2>6, <2>7, <2>8
<1>4. Open'
  BY <1>0 DEF Open, Others, Path
<1>5. Closed'
  BY <1>0 DEF Closed, Others, Path, Looking
<1>6. OnlyStraddlesFault'
  BY <1>0 DEF OnlyStraddlesFault
<1> QED BY <1>2, <1>3, <1>4, <1>5, <1>6 DEF RInv

\* The scan starts at entry 0 and goes as far as anything is registered.
LEMMA LoadCountStep == ASSUME RInv, NEW t \in Threads, LoadCount(t) PROVE RInv'
<1>0. /\ TypeOK /\ Ownership /\ OwnPages /\ OwnExecutable /\ PagesApart
      /\ EntriesInv /\ LookupsInv /\ Open /\ Closed /\ OnlyStraddlesFault
  BY DEF RInv
<1>1. /\ pc[t] = "load" /\ pc'[t] = IF count = 0 THEN "direct" ELSE "scan"
      /\ fault = {} /\ UNCHANGED <<prot, jit, compiled, count, regions, fault>>
  BY <1>0 DEF LoadCount, At, Goto, TypeOK
<1>2. /\ Others(t) /\ loc'[t].addr = loc[t].addr /\ loc'[t].wide = loc[t].wide
      /\ loc'[t].i = loc[t].i
      /\ loc'[t].n = IF count > kMaxJitRegions THEN kMaxJitRegions ELSE count
  BY <1>0 DEF LoadCount, Goto, Others, TypeOK, Local
<1>3. TypeOK'
  <2>1. loc' \in [Threads -> Local]
    BY <1>0, Constants DEF LoadCount, TypeOK, Local
  <2>2. pc' \in [Threads -> Pc]
    BY <1>0 DEF LoadCount, Goto, TypeOK, Pc
  <2> QED BY <1>0, <1>1, <2>1, <2>2 DEF TypeOK
<1>4. Looking(t) /\ loc[t].i = 0
  BY <1>0, <1>1 DEF LookupsInv, Rewound, Looking
<1>5. \A k \in Slots : InRegion(loc[t].addr, k) => k < count
  BY <1>0, ScanTypes, Constants DEF EntriesInv, Unclaimed, InRegion
<1>6. CASE count = 0
  <2>1. loc[t].addr \in Foreign
    BY <1>0, <1>4, <1>5, <1>6, Constants DEF LookupsInv, Sited
  <2>2. Path(t)
    BY <1>1, <1>6, <2>1, Zenon DEF Path
  <2> QED BY <1>1, <1>2, <1>3, <1>4, <2>2, LookStep
<1>7. CASE count # 0
  <2>1. loc'[t].i < loc'[t].n /\ loc'[t].n <= kMaxJitRegions
    <3>1. count \in Nat /\ kMaxJitRegions \in Nat /\ 0 < kMaxJitRegions
      BY <1>0, Constants DEF TypeOK
    <3> QED BY <1>2, <1>4, <1>7, <3>1
  <2>2. ASSUME NEW k \in Slots, InRegion(loc[t].addr, k)
        PROVE  loc'[t].i <= k /\ k < loc'[t].n
    <3>1. k \in Nat /\ k < kMaxJitRegions /\ k < count
      BY <1>5, <2>2, Constants
    <3> QED BY <1>2, <1>4, <3>1
  <2>3. Path(t)
    BY <1>1, <1>7, <2>1, <2>2 DEF Path
  <2> QED BY <1>1, <1>2, <1>3, <1>4, <2>3, LookStep
<1> QED BY <1>6, <1>7

\* The scan passes over an entry that does not hold the site.
LEMMA NextEntryStep ==
  ASSUME RInv, NEW t \in Threads, pc[t] \in {"scan", "test"}, NextEntry(t),
         ~InRegion(loc[t].addr, loc[t].i),
         fault = {}, UNCHANGED <<prot, jit, compiled, count, regions, fault>>
  PROVE  RInv'
<1>0. /\ TypeOK /\ Ownership /\ OwnPages /\ OwnExecutable /\ PagesApart
      /\ EntriesInv /\ LookupsInv /\ Open /\ Closed /\ OnlyStraddlesFault
  BY DEF RInv
<1>1. pc'[t] = IF loc[t].i + 1 < loc[t].n THEN "scan" ELSE "direct"
  BY <1>0 DEF NextEntry, Goto, TypeOK
<1>2. /\ Others(t) /\ loc'[t].addr = loc[t].addr /\ loc'[t].wide = loc[t].wide
      /\ loc'[t].i = loc[t].i + 1 /\ loc'[t].n = loc[t].n
  BY <1>0 DEF NextEntry, Goto, Others, TypeOK, Local
<1>3. TypeOK'
  BY <1>0 DEF NextEntry, Goto, TypeOK, Pc, Local
<1>4. Looking(t) /\ loc[t].n <= kMaxJitRegions
  BY <1>0 DEF LookupsInv, Scanned, Looking
<1>5. \A k \in Slots : InRegion(loc[t].addr, k) => loc[t].i + 1 <= k /\ k < loc[t].n
  <2> SUFFICES ASSUME NEW k \in Slots, InRegion(loc[t].addr, k)
               PROVE  loc[t].i + 1 <= k /\ k < loc[t].n
    OBVIOUS
  <2>1. k # loc[t].i /\ loc[t].i <= k /\ k < loc[t].n
    BY <1>0 DEF LookupsInv, Scanned
  <2> QED BY <1>0, <2>1, ScanTypes, Constants
<1>6. CASE loc[t].i + 1 < loc[t].n
  <2>1. Path(t)
    BY <1>1, <1>2, <1>4, <1>5, <1>6 DEF Path
  <2> QED BY <1>2, <1>3, <1>4, <2>1, LookStep
<1>7. CASE ~(loc[t].i + 1 < loc[t].n)
  <2>1. \A k \in Slots : ~InRegion(loc[t].addr, k)
    <3> SUFFICES ASSUME NEW k \in Slots, InRegion(loc[t].addr, k) PROVE FALSE
      OBVIOUS
    <3>1. loc[t].i + 1 <= k /\ k < loc[t].n
      BY <1>5
    <3>2. k \in Nat
      BY Constants
    <3>3. loc[t].i \in Nat /\ loc[t].n \in Nat
      BY <1>0, ScanTypes
    <3> QED BY <1>7, <3>1, <3>2, <3>3
  <2>2. loc[t].addr \in Foreign
    <3>1. Sited
      BY <1>0, Zenon DEF LookupsInv
    <3> QED BY <1>4, <2>1, <3>1, Zenon DEF Sited
  <2>3. Path(t)
    BY <1>1, <1>7, <2>2 DEF Path
  <2> QED BY <1>2, <1>3, <1>4, <2>3, LookStep
<1> QED BY <1>6, <1>7

\* The two reads of an entry.
LEMMA ScanStep == ASSUME RInv, NEW t \in Threads, ScanStart(t) \/ ScanEnd(t) PROVE RInv'
<1>0. /\ TypeOK /\ Ownership /\ OwnPages /\ OwnExecutable /\ PagesApart
      /\ EntriesInv /\ LookupsInv /\ Open /\ Closed /\ OnlyStraddlesFault
  BY DEF RInv
<1>1. /\ pc[t] \in {"scan", "test"} /\ Looking(t)
      /\ fault = {} /\ UNCHANGED <<prot, jit, compiled, count, regions, fault>>
  BY <1>0 DEF ScanStart, ScanEnd, At, Looking
<1>2. /\ loc[t].i < loc[t].n /\ loc[t].n <= kMaxJitRegions
      /\ \A k \in Slots : InRegion(loc[t].addr, k) => loc[t].i <= k /\ k < loc[t].n
  BY <1>0, <1>1 DEF LookupsInv, Scanned
<1>3. loc[t].i \in Slots
  <2>1. loc[t].i \in Nat /\ loc[t].n \in Nat /\ kMaxJitRegions \in Nat
    BY <1>0, ScanTypes, Constants
  <2> QED BY <1>2, <2>1 DEF Slots
<1>4. ASSUME NEW l \in {"test", "unprotect"}, Goto(t, l), UNCHANGED loc
      PROVE  pc'[t] = l /\ Others(t) /\ TypeOK'
  BY <1>0, <1>1, <1>4 DEF Goto, Others, TypeOK, Pc
<1>5. CASE ScanStart(t)
  <2>1. CASE loc[t].addr >= regions[loc[t].i].start
    <3>1. Goto(t, "test") /\ UNCHANGED loc
      BY <1>0, <1>5, <2>1 DEF ScanStart
    <3>2. regions[loc[t].i].start <= loc[t].addr
      BY <1>0, <1>3, <2>1, ScanTypes
    <3>3. pc'[t] = "test" /\ Others(t) /\ TypeOK'
      BY <1>4, <3>1
    <3>4. Path(t)
      BY <1>1, <1>2, <3>1, <3>2, <3>3 DEF Path, InRegion
    <3> QED BY <1>1, <3>1, <3>3, <3>4, LookStep
  <2>2. CASE ~(loc[t].addr >= regions[loc[t].i].start)
    <3>1. NextEntry(t)
      BY <1>0, <1>5, <2>2 DEF ScanStart
    <3>2. ~InRegion(loc[t].addr, loc[t].i)
      BY <1>0, <1>3, <2>2, ScanTypes DEF InRegion
    <3> QED BY <1>1, <3>1, <3>2, NextEntryStep
  <2> QED BY <2>1, <2>2
<1>6. CASE ScanEnd(t)
  <2>1. CASE loc[t].addr < regions[loc[t].i].end
    <3>1. pc[t] = "test" /\ Goto(t, "unprotect") /\ UNCHANGED loc
      BY <1>0, <1>6, <2>1 DEF ScanEnd, At
    <3>2. loc[t].addr \in compiled
      BY <1>0, <1>3, <2>1, <3>1, ScanTypes DEF LookupsInv, Tested, EntriesInv, Filled, InRegion
    <3>3. pc'[t] = "unprotect" /\ Others(t) /\ TypeOK'
      BY <1>4, <3>1
    <3>4. Path(t)
      BY <3>2, <3>3 DEF Path
    <3> QED BY <1>1, <3>1, <3>3, <3>4, LookStep
  <2>2. CASE ~(loc[t].addr < regions[loc[t].i].end)
    <3>1. NextEntry(t)
      BY <1>0, <1>6, <2>2 DEF ScanEnd
    <3>2. ~InRegion(loc[t].addr, loc[t].i)
      BY <1>0, <2>2 DEF InRegion
    <3> QED BY <1>1, <3>1, <3>2, NextEntryStep
  <2> QED BY <2>1, <2>2
<1> QED BY <1>5, <1>6

\* The steps after the scan keep what is known of lookups and patches.
LEMMA AfterLookup ==
  ASSUME LookupsInv, NEW t \in Threads, Others(t), UNCHANGED <<compiled, regions>>,
         pc[t] \in {"direct", "unprotect", "store", "restore"},
         \/ pc'[t] = "idle"
         \/ /\ pc[t] \in {"unprotect", "store"} /\ pc'[t] \in {"store", "restore"}
            /\ loc'[t].addr = loc[t].addr /\ loc'[t].wide = loc[t].wide
  PROVE  LookupsInv'
<1> USE DEF LookupsInv, Others
<1>1. Undisturbed' /\ Rewound'
  BY DEF Undisturbed, Rewound, Looking, Registering
<1>2. Sited'
  BY DEF Sited, InRegion, Looking
<1>3. Scanned' /\ Tested'
  BY DEF Scanned, Tested, InRegion
<1>4. Routed'
  BY DEF Routed
<1>5. Whole'
  BY DEF Whole, Serving
<1>6. OnePatch'
  BY DEF OnePatch, Serving
<1> QED BY <1>1, <1>2, <1>3, <1>4, <1>5, <1>6

\* A step that changes nothing but fault, which may only be a straddle.
LEMMA FaultStep ==
  ASSUME RInv, UNCHANGED <<prot, jit, compiled, count, regions, pc, loc>>, OnlyStraddlesFault'
  PROVE  RInv'
<1> USE DEF RInv
<1>1. TypeOK'
  BY DEF TypeOK
<1>2. Ownership' /\ OwnPages' /\ OwnExecutable' /\ PagesApart'
  BY DEF Ownership, OwnPages, OwnExecutable, PagesApart
<1>3. EntriesInv'
  <2>1. Unclaimed' /\ Filled' /\ Owned'
    BY DEF EntriesInv, Unclaimed, Filled, Owned, InRegion
  <2>2. Started' /\ Saturated' /\ EntriesApart'
    BY DEF EntriesInv, Started, Saturated, EntriesApart
  <2> QED BY <2>1, <2>2 DEF EntriesInv
<1>4. LookupsInv'
  BY DEF LookupsInv, Undisturbed, Sited, Rewound, Scanned, Tested, Routed, Whole, OnePatch,
     InRegion, Looking, Registering
<1>5. Open' /\ Closed'
  BY DEF Open, Closed
<1> QED BY <1>1, <1>2, <1>3, <1>4, <1>5

\* The store that kills the process has its first page writable: data always is,
\* and code has been opened.  It straddles two pages of code, since all of a data
\* slot is data.
LEMMA PatchFaults ==
  ASSUME RInv, NEW t \in Threads, PatchDirect(t) \/ PatchCode(t), fault' # {} PROVE RInv'
<1>0. /\ TypeOK /\ Ownership /\ OwnPages /\ OwnExecutable /\ PagesApart
      /\ EntriesInv /\ LookupsInv /\ Open /\ Closed /\ OnlyStraddlesFault
  BY DEF RInv
<1>1. /\ pc[t] \in {"direct", "store"}
      /\ fault' = {p \in Bytes(loc[t].addr, loc[t].wide) : "write" \notin prot[p]}
      /\ UNCHANGED <<prot, jit, compiled, count, regions>>
  BY <1>0 DEF PatchDirect, PatchCode, Patch, At
<1>2. prot[loc[t].addr] = RW
  BY <1>0, <1>1 DEF LookupsInv, Routed, Ownership, Open
<1>3. UNCHANGED <<pc, loc>>
  BY Zenon DEF PatchDirect, PatchCode, Patch
<1>4. \A p \in fault' : p # loc[t].addr
  BY <1>1, <1>2, Protections
<1>5. \A p \in fault' : loc[t].wide /\ p = loc[t].addr + 1
  BY <1>1, <1>4 DEF Bytes
<1>6. pc[t] # "direct"
  <2> SUFFICES ASSUME pc[t] = "direct" PROVE FALSE
    OBVIOUS
  <2>1. Bytes(loc[t].addr, loc[t].wide) \subseteq Foreign
    BY <1>0 DEF LookupsInv, Routed, Whole, Serving
  <2>2. \A p \in Foreign : prot[p] = RW
    BY <1>0 DEF Ownership
  <2> QED BY <1>1, <2>1, <2>2, Protections
<1>7. OnlyStraddlesFault'
  BY <1>1, <1>3, <1>5, <1>6 DEF OnlyStraddlesFault
<1> QED BY <1>1, <1>3, <1>7, FaultStep

\* A store that finds its pages writable leads on.
LEMMA PatchStores ==
  ASSUME RInv, NEW t \in Threads, PatchDirect(t) \/ PatchCode(t), fault' = {} PROVE RInv'
<1>0. /\ TypeOK /\ Ownership /\ OwnPages /\ OwnExecutable /\ PagesApart
      /\ EntriesInv /\ LookupsInv /\ Open /\ Closed /\ OnlyStraddlesFault
  BY DEF RInv
<1>1. /\ pc[t] \in {"direct", "store"}
      /\ UNCHANGED <<prot, jit, compiled, count, regions>>
  BY <1>0 DEF PatchDirect, PatchCode, Patch, At
<1>3. OnlyStraddlesFault'
  BY DEF OnlyStraddlesFault
<1>4. \/ pc[t] = "direct" /\ Done(t)
      \/ pc[t] = "store" /\ Goto(t, "restore") /\ UNCHANGED loc
  BY Zenon DEF PatchDirect, PatchCode, Patch, At
<1>5. /\ Others(t)
      /\ \/ pc[t] = "direct" /\ pc'[t] = "idle"
         \/ pc[t] = "store" /\ pc'[t] = "restore" /\ loc'[t] = loc[t]
  BY <1>0, <1>4 DEF Done, Goto, Others, TypeOK
<1>6. TypeOK'
  <2>1. ASSUME Done(t) PROVE TypeOK'
    BY <1>0, <1>1, <2>1 DEF TypeOK, Done, Goto, Pc, Local, NoLocal
  <2>2. ASSUME Goto(t, "restore"), UNCHANGED loc PROVE TypeOK'
    BY <1>0, <1>1, <2>2 DEF TypeOK, Goto, Pc
  <2> QED BY <1>4, <2>1, <2>2
<1>7. Ownership' /\ OwnPages' /\ OwnExecutable' /\ PagesApart' /\ EntriesInv'
  BY <1>1, <1>5, ServeStep DEF Compiling
<1>8. LookupsInv'
  BY <1>0, <1>1, <1>5, AfterLookup
<1>9. Open'
  BY <1>0, <1>1, <1>5 DEF Open, Others
<1>10. Closed'
  <2> SUFFICES ASSUME NEW p \in compiled,
                      \A u \in Threads : pc'[u] \in {"store", "restore"} => loc'[u].addr # p
               PROVE  prot[p] = RX
    BY <1>1 DEF Closed
  <2>1. \A u \in Threads : pc[u] \in {"store", "restore"} => loc[u].addr # p
    BY <1>5 DEF Others
  <2> QED BY <1>0, <2>1 DEF Closed
<1> QED BY <1>3, <1>6, <1>7, <1>8, <1>9, <1>10 DEF RInv

\* A refused mprotect leaves the page closed.
LEMMA UnprotectFailsStep == ASSUME RInv, NEW t \in Threads, UnprotectFails(t) PROVE RInv'
<1>0. /\ TypeOK /\ Ownership /\ OwnPages /\ OwnExecutable /\ PagesApart
      /\ EntriesInv /\ LookupsInv /\ Open /\ Closed /\ OnlyStraddlesFault
  BY DEF RInv
<1>1. /\ pc[t] = "unprotect" /\ pc'[t] = "idle"
      /\ fault = {} /\ UNCHANGED <<prot, jit, compiled, count, regions, fault>>
  BY <1>0 DEF UnprotectFails, At, Done, Goto, TypeOK
<1>2. Others(t)
  BY <1>0 DEF UnprotectFails, Done, Goto, Others, TypeOK
<1>3. TypeOK'
  BY <1>0, <1>1 DEF TypeOK, UnprotectFails, Done, Goto, Pc, Local, NoLocal
<1>4. Ownership' /\ OwnPages' /\ OwnExecutable' /\ PagesApart' /\ EntriesInv'
  BY <1>1, <1>2, ServeStep DEF Compiling
<1>5. LookupsInv'
  BY <1>0, <1>1, <1>2, AfterLookup
<1>6. Open' /\ Closed'
  BY <1>0, <1>1, <1>2 DEF Open, Closed, Others
<1>7. OnlyStraddlesFault'
  BY <1>0, <1>1 DEF OnlyStraddlesFault
<1> QED BY <1>3, <1>4, <1>5, <1>6, <1>7 DEF RInv

\* Opening and closing the page of the site: it is compiled code, so neither a
\* caller's page nor one of a function on its way, and nobody else has it open.
LEMMA ReprotectPage ==
  ASSUME RInv, NEW t \in Threads, Unprotect(t) \/ Restore(t) PROVE RInv'
<1>0. /\ TypeOK /\ Ownership /\ OwnPages /\ OwnExecutable /\ PagesApart
      /\ EntriesInv /\ LookupsInv /\ Open /\ Closed /\ OnlyStraddlesFault
  BY DEF RInv
<1>1. /\ fault = {} /\ UNCHANGED <<jit, compiled, count, regions, fault>>
      /\ \/ pc[t] = "unprotect" /\ pc'[t] = "store" /\ UNCHANGED loc
         \/ pc[t] = "restore" /\ pc'[t] = "idle"
  BY <1>0 DEF Unprotect, Restore, At, Done, Goto, TypeOK
<1>2. Others(t)
  BY <1>0 DEF Unprotect, Restore, Done, Goto, Others, TypeOK
<1>3. loc[t].addr \in compiled /\ loc[t].addr \in jit /\ loc[t].addr \in Pages
  BY <1>0, <1>1 DEF LookupsInv, Routed, Ownership, TypeOK
<1>4. /\ \A p \in Pages : p # loc[t].addr => prot'[p] = prot[p]
      /\ prot'[loc[t].addr] = IF pc[t] = "unprotect" THEN RW ELSE RX
  BY <1>0, <1>1, <1>3 DEF Unprotect, Restore, At, Protect
<1>5. TypeOK'
  <2>1. CASE Unprotect(t)
    BY <1>0, <2>1 DEF TypeOK, Unprotect, Protect, Goto, Pc
  <2>2. CASE Restore(t)
    BY <1>0, <2>2 DEF TypeOK, Restore, Protect, Done, Goto, Pc, Local, NoLocal
  <2> QED BY <2>1, <2>2
<1>6. Ownership'
  BY <1>0, <1>1, <1>3, <1>4, Constants, Protections DEF Ownership, TypeOK
<1>7. OwnPages' /\ PagesApart'
  BY <1>0, <1>1, <1>2, PagesFrame DEF Compiling
<1>8. OwnExecutable'
  <2> SUFFICES ASSUME NEW u \in Threads, pc'[u] \in Unreturned, NEW p \in Extent(loc'[u])
               PROVE  prot'[p] = RX
    BY DEF OwnExecutable
  <2>1. u # t
    BY <1>1 DEF Unreturned
  <2>2. pc[u] \in Unreturned /\ pc[u] \in Compiling /\ p \in Extent(loc[u])
    BY <1>2, <2>1 DEF Others, Unreturned, Compiling
  <2>3. p \in jit /\ p \notin compiled /\ prot[p] = RX
    BY <1>0, <2>2 DEF OwnPages, OwnExecutable
  <2>4. p \in Pages /\ p # loc[t].addr
    BY <1>0, <1>3, <2>3 DEF TypeOK
  <2> QED BY <1>4, <2>3, <2>4
<1>9. EntriesInv'
  BY <1>0, <1>1, <1>2, EntriesFrame DEF Registering
<1>10. LookupsInv'
  BY <1>0, <1>1, <1>2, AfterLookup
<1>11. \A u \in Threads \ {t} : pc[u] \in {"store", "restore"} =>
         loc[u].addr # loc[t].addr /\ loc[u].addr \in Pages
  BY <1>0, <1>1 DEF LookupsInv, OnePatch, Routed, Serving, TypeOK
<1>12. Open'
  <2> SUFFICES ASSUME NEW u \in Threads, pc'[u] \in {"store", "restore"}
               PROVE  prot'[loc'[u].addr] = RW
    BY DEF Open
  <2>1. CASE u = t
    BY <1>1, <1>4, <2>1
  <2>2. CASE u # t
    <3>1. pc[u] \in {"store", "restore"} /\ loc'[u] = loc[u]
      BY <1>2, <2>2 DEF Others
    <3>2. prot[loc[u].addr] = RW
      BY <1>0, <3>1 DEF Open
    <3> QED BY <1>4, <1>11, <2>2, <3>1, <3>2
  <2> QED BY <2>1, <2>2
<1>13. Closed'
  <2> SUFFICES ASSUME NEW p \in compiled,
                      \A u \in Threads : pc'[u] \in {"store", "restore"} => loc'[u].addr # p
               PROVE  prot'[p] = RX
    BY <1>1 DEF Closed
  <2>1. CASE p = loc[t].addr
    BY <1>1, <1>4, <2>1
  <2>2. CASE p # loc[t].addr
    <3>1. \A u \in Threads : pc[u] \in {"store", "restore"} => loc[u].addr # p
      BY <1>2, <2>2 DEF Others
    <3>2. prot[p] = RX
      BY <1>0, <3>1 DEF Closed
    <3>3. p \in Pages
      BY <1>0 DEF TypeOK
    <3> QED BY <1>4, <2>2, <3>2, <3>3
  <2> QED BY <2>1, <2>2
<1>14. OnlyStraddlesFault'
  BY <1>0, <1>1 DEF OnlyStraddlesFault
<1> QED BY <1>5, <1>6, <1>7, <1>8, <1>9, <1>10, <1>12, <1>13, <1>14 DEF RInv

\* Between patches all compiled code is executable.
LEMMA RInvExecutable == RInv => CodeExecutable
BY DEF RInv, Closed, CodeExecutable, Handling

\* A call into compiled code that nobody patches finds it executable.
LEMMA CallStep ==
  ASSUME RInv, NEW t \in Threads, NEW p \in compiled,
         \A u \in Threads : ~Handling(u, p), Call(t, p)
  PROVE  RInv'
<1>1. prot[p] = RX
  BY RInvExecutable DEF CodeExecutable
<1>2. OnlyStraddlesFault'
  BY <1>1, Protections, Zenon DEF Call, OnlyStraddlesFault
<1> QED BY <1>2, FaultStep DEF Call

\* Every step under the discipline keeps the invariant.
LEMMA RInvNext == RInv /\ [QuietNext]_regionvars => RInv'
<1> SUFFICES ASSUME RInv, [QuietNext]_regionvars PROVE RInv'
  OBVIOUS
<1>1. CASE UNCHANGED regionvars
  <2>1. OnlyStraddlesFault'
    BY <1>1 DEF regionvars, RInv, OnlyStraddlesFault
  <2> QED BY <1>1, <2>1, FaultStep DEF regionvars
<1>2. ASSUME NEW t \in Threads, Compile(t) PROVE RInv'
  BY <1>2, MapStep, MakeExecutableStep, MakeExecutableFailsStep, SaturateStep,
     WriteStartStep, WriteEndStep DEF Compile
<1>3. ASSUME NEW t \in Threads, Handle(t) PROVE RInv'
  BY <1>3, LoadCountStep, ScanStep, PatchFaults, PatchStores, UnprotectFailsStep, ReprotectPage DEF Handle
<1>4. CASE Killed
  BY <1>1, <1>4 DEF Killed
<1> QED BY <1>1, <1>2, <1>3, <1>4, ClaimStep, MissStep, CallStep DEF QuietNext

\* Only pages mapped by compile_function change their protection.
LEMMA ReprotectStep ==
  RInv /\ [QuietNext]_regionvars => [\A p \in Pages \ (jit \cup jit') : prot'[p] = prot[p]]_regionvars
<1> SUFFICES ASSUME RInv, QuietNext, NEW p \in Pages \ (jit \cup jit') PROVE prot'[p] = prot[p]
  BY DEF regionvars
<1>0. CASE Killed
  BY <1>0 DEF Killed, regionvars
<1> SUFFICES ASSUME ~ Killed PROVE prot'[p] = prot[p]
  BY <1>0
<1>1. PICK t \in Threads :
        \/ Compile(t) \/ Handle(t) \/ Claim(t)
        \/ \E a, w : Miss(t, a, w)
        \/ \E q \in compiled : Call(t, q)
  BY DEF QuietNext
<1>2. CASE MakeExecutable(t) \/ MakeExecutableFails(t)
  BY <1>2 DEF MakeExecutable, MakeExecutableFails, At, Protect, RInv, OwnPages, Compiling
<1>3. CASE Unprotect(t) \/ Restore(t)
  BY <1>3, Zenon DEF Unprotect, Restore, At, Protect, RInv, LookupsInv, Routed, Ownership
<1>4. CASE Map(t)
  BY <1>4 DEF Map, Protect
<1>5. Saturate(t) \/ WriteStart(t) \/ WriteEnd(t) \/ Claim(t) => UNCHANGED prot
  BY DEF Saturate, WriteStart, WriteEnd, Claim
<1>6. LoadCount(t) \/ ScanStart(t) \/ ScanEnd(t) \/ UnprotectFails(t) => UNCHANGED prot
  BY DEF LoadCount, ScanStart, ScanEnd, UnprotectFails
<1>7. PatchDirect(t) \/ PatchCode(t) => UNCHANGED prot
  BY DEF PatchDirect, PatchCode, Patch
<1>8. (\A a, w : Miss(t, a, w) => UNCHANGED prot) /\ (\A q : Call(t, q) => UNCHANGED prot)
  BY DEF Miss, Call
<1>9. CASE UNCHANGED prot
  BY <1>9
<1> QED BY <1>1, <1>2, <1>3, <1>4, <1>5, <1>6, <1>7, <1>8, <1>9 DEF Compile, Handle
-------------------------------------------------------------------------------
\* The invariant of the regions holds in every reachable state, under the
\* callers' discipline and for any number of threads, pages and registry entries.
THEOREM RegionInvariant == QuietSpec => []RInv
BY RInvInit, RInvNext, PTL DEF QuietSpec

\* No page is ever writable and executable at once.
THEOREM RegionWriteXorExecute == QuietSpec => []WriteXorExecute
<1>1. RInv => WriteXorExecute
  BY Protections DEF RInv, TypeOK, WriteXorExecute, Unmapped
<1> QED BY <1>1, RegionInvariant, PTL

\* Only the tail of a patch of code that straddles two pages can fault: no other
\* store of the miss handler and no call of compiled code does.
THEOREM RegionSafety == QuietSpec => []OnlyStraddlesFault
<1>1. RInv => OnlyStraddlesFault
  BY DEF RInv
<1> QED BY <1>1, RegionInvariant, PTL

\* Code nobody is patching is executable.
THEOREM RegionExecutable == QuietSpec => []CodeExecutable
BY RInvExecutable, RegionInvariant, PTL

\* Under the same discipline no page that compile_function did not map ever
\* changes its protection.
THEOREM RegionOwnership == QuietSpec => OnlyJitReprotected
BY RegionInvariant, ReprotectStep, PTL DEF QuietSpec, OnlyJitReprotected
===============================================================================
