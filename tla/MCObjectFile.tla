----------------------------- MODULE MCObjectFile -----------------------------
(***************************************************************************)
(* ObjectFile with two functions and up to two uses of strings and        *)
(* external names.  Buffers start at 64 bytes, so that the symbol table    *)
(* grows twice; sizes leave every remainder that is padded.  The ring      *)
(* holds 3 bytes, so that one print may fill it and go on, and a write of  *)
(* output may end short after any of its bytes.                            *)
(***************************************************************************)
EXTENDS ObjectFile

MCFunctions == <<"main", "helper_fn">>
MCExterns   == {"puts", "main"}
MCStrings   == {"ok", "a longer string constant"}
===============================================================================
