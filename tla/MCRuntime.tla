------------------------------- MODULE MCRuntime ------------------------------
(***************************************************************************)
(* What compiled code relies on while it runs, one part at a time:         *)
(* - ObjectHeap at 1/16 scale: cache line 4, page 8, default chunk 24      *)
(*   bytes (20 usable), at most 3 mappings at a time.  The sizes give an   *)
(*   object with padding of which two fit in a default chunk, one that     *)
(*   needs a larger chunk and one that is refused;                         *)
(* - CxaGuard with three threads, so that one builds while two wait;       *)
(* - JitRegions with two threads, two pages of the callers' own below      *)
(*   three for code, functions of one or two pages, and a registry of two  *)
(*   entries, so that a third function finds it full.                      *)
(* They share no state; `part' says which one moves.                       *)
(***************************************************************************)
EXTENDS ObjectHeap, CxaGuard, JitRegions

VARIABLE part

allvars == <<part, vars, guardvars, regionvars>>

PartInit ==
  /\ part \in {"heap", "guard", "regions"}
  /\ Init /\ GuardInit /\ RegionInit

PartNext ==
  \/ part = "heap" /\ Next /\ UNCHANGED <<part, guardvars, regionvars>>
  \/ part = "guard" /\ GuardNext /\ UNCHANGED <<part, vars, regionvars>>
  \/ part = "regions" /\ QuietNext /\ UNCHANGED <<part, vars, guardvars>>

PartSpec == PartInit /\ [][PartNext]_allvars /\ Fairness
===============================================================================
