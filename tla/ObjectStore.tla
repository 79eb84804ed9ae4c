------------------------------ MODULE ObjectStore -----------------------------
(***************************************************************************)
(* What new-instance promises compiled code, without chunks or addresses:  *)
(* a new object is none of the live ones and reads as zero; writing to an  *)
(* object changes that object only; objects die all together.              *)
(***************************************************************************)
VARIABLES
  live,  \* the objects compiled code may hold
  zero   \* those whose fields read as zero

Init == live = {} /\ zero = {}

New ==
  \E o \in live' \ live :
    /\ live' = live \cup {o}
    /\ zero' = zero \cup {o}

Write ==
  \E o \in live :
    /\ zero' = zero \ {o}
    /\ UNCHANGED live

ReleaseAll == live' = {} /\ zero' = {}

Next == New \/ Write \/ ReleaseAll

Spec == Init /\ [][Next]_<<live, zero>>
===============================================================================
