-------------------------------- MODULE GdbJit --------------------------------
(***************************************************************************)
(* The list of __jit_debug_descriptor (src/src/backend/gdb_jit.cpp) that a *)
(* debugger walks whenever a function is registered or removed.  Entries   *)
(* are numbered, and 0 is nullptr.  The objects the entries point to are   *)
(* in ObjectFile.  relevant_entry, action_flag and the call that tells the *)
(* debugger are left out: no property is about them.                       *)
(***************************************************************************)
EXTENDS Integers, Sequences

CONSTANT MaxEntries   \* bound: functions registered with the debugger

ASSUME EntriesCounted == MaxEntries \in Nat

VARIABLES
  dbg,      \* __jit_debug_descriptor's list: first, next, prev
  live      \* history: the entries registered with the debugger, newest first

NoEntries ==
  [first |-> 0, next |-> [e \in 1..MaxEntries |-> 0], prev |-> [e \in 1..MaxEntries |-> 0]]

\* The new entry goes to the front of the list.
Link(e) ==
  /\ \A i \in DOMAIN live : live[i] # e
  /\ dbg' = [first |-> e,
             next  |-> [dbg.next EXCEPT ![e] = dbg.first],
             prev  |-> [x \in 1..MaxEntries |-> IF x = e THEN 0 ELSE IF x = dbg.first THEN e ELSE dbg.prev[x]]]
  /\ live' = <<e>> \o live

Removed(e) ==
  \E i \in DOMAIN live :
    live[i] = e /\ live' = SubSeq(live, 1, i - 1) \o SubSeq(live, i + 1, Len(live))

\* Seeded fault: the entry behind keeps its way back.
UnlinkHalf(e) ==
  /\ dbg' = [first |-> IF dbg.prev[e] # 0 THEN dbg.first ELSE dbg.next[e],
             next  |-> [x \in 1..MaxEntries |-> IF x = dbg.prev[e] THEN dbg.next[e] ELSE dbg.next[x]],
             prev  |-> dbg.prev]
  /\ Removed(e)

\* The neighbours of the entry are linked to each other.
Unlink(e) ==
  /\ dbg' = [first |-> IF dbg.prev[e] # 0 THEN dbg.first ELSE dbg.next[e],
             next  |-> [x \in 1..MaxEntries |-> IF x = dbg.prev[e] THEN dbg.next[e] ELSE dbg.next[x]],
             prev  |-> [x \in 1..MaxEntries |-> IF x = dbg.next[e] THEN dbg.prev[e] ELSE dbg.prev[x]]]
  /\ Removed(e)
-------------------------------------------------------------------------------
\* The debugger walks the list of the registered functions, newest first, and
\* back, after any order of registrations and removals.
DebuggerWalks ==
  LET n == Len(live)
  IN /\ dbg.first = (IF n = 0 THEN 0 ELSE live[1])
     /\ \A i \in 1..n : /\ dbg.next[live[i]] = (IF i = n THEN 0 ELSE live[i + 1])
                        /\ dbg.prev[live[i]] = (IF i = 1 THEN 0 ELSE live[i - 1])
===============================================================================
