----------------------------- MODULE ClassLayout ------------------------------
(***************************************************************************)
(* Classes in src/src/frontend/ana_parser.cpp: parse_class gives every     *)
(* .field an offset as it is read, a malformed class latches had_error_,   *)
(* and parse_program computes all layouts a second time                    *)
(* (resolve_class_layouts) before it returns the program.  Of a field only *)
(* its size matters: i64 and ptr take 8 bytes, every other type 4.  Names, *)
(* the vtable array (16 null slots) and functions are left out.            *)
(***************************************************************************)
EXTENDS Naturals, Sequences

CONSTANTS
  MaxClasses,   \* bound: classes in a program
  MaxFields     \* bound: fields in a class

VARIABLES
  classes,     \* the program so far: sequence of [fields, size]
  open,        \* a class is being parsed, the last of `classes'
  had_error,   \* had_error_
  answer       \* what parse_program returned: "none", "program" or "nullptr"

classvars == <<classes, open, had_error, answer>>

FieldSize == {4, 8}
VTablePtr == 8       \* bytes at offset 0
HeaderBytes == 16    \* sizeof(ObjectHeader), object_heap.h

Align(n, sz) == ((n + sz - 1) \div sz) * sz

Empty == [fields |-> <<>>, size |-> VTablePtr]

\* Seeded fault: the offset is rounded down.
WithFieldLow(c, sz) ==
  LET at == (c.size \div sz) * sz
  IN [fields |-> Append(c.fields, [size |-> sz, offset |-> at]), size |-> at + sz]

\* One .field line.
WithField(c, sz) ==
  LET at == Align(c.size, sz)
  IN [fields |-> Append(c.fields, [size |-> sz, offset |-> at]), size |-> at + sz]

\* Seeded fault: the second pass makes room for all of the object header.
AfterHeader == HeaderBytes

\* Where the second pass starts.
FirstOffset == 8

\* Where the second pass has got to after the first k fields of a class.
ResolvedEnd(fs) ==
  LET end[k \in 0..Len(fs)] ==
        IF k = 0 THEN FirstOffset ELSE Align(end[k - 1], fs[k].size) + fs[k].size
  IN end

\* resolve_class_layouts for one class: the offsets again, the size rounded up.
Resolved(c) ==
  LET end == ResolvedEnd(c.fields)
      size == Align(end[Len(c.fields)], 8)
  IN [fields |-> [k \in 1..Len(c.fields) |->
                    [c.fields[k] EXCEPT !.offset = Align(end[k - 1], c.fields[k].size)]],
      size |-> IF size < 8 THEN 8 ELSE size]
-------------------------------------------------------------------------------
ClassInit == classes = <<>> /\ open = FALSE /\ had_error = FALSE /\ answer = "none"

Parsing == answer = "none"

BeginClass ==
  /\ Parsing /\ ~open /\ Len(classes) < MaxClasses
  /\ classes' = Append(classes, Empty)
  /\ open' = TRUE
  /\ UNCHANGED <<had_error, answer>>

\* .class without a name.
BeginFails ==
  /\ Parsing /\ ~open
  /\ had_error' = TRUE
  /\ UNCHANGED <<classes, open, answer>>

Field(sz) ==
  /\ Parsing /\ open /\ Len(classes[Len(classes)].fields) < MaxFields
  /\ classes' = [classes EXCEPT ![Len(classes)] = WithField(@, sz)]
  /\ UNCHANGED <<open, had_error, answer>>

\* A field without its colon is an error, but the field is added.
FieldNoColon(sz) ==
  /\ Parsing /\ open /\ Len(classes[Len(classes)].fields) < MaxFields
  /\ classes' = [classes EXCEPT ![Len(classes)] = WithField(@, sz)]
  /\ had_error' = TRUE
  /\ UNCHANGED <<open, answer>>

\* A field without a name or a type: the class is dropped.
FieldFails ==
  /\ Parsing /\ open
  /\ had_error' = TRUE /\ open' = FALSE
  /\ classes' = SubSeq(classes, 1, Len(classes) - 1)
  /\ UNCHANGED answer

EndClass ==
  /\ Parsing /\ open
  /\ open' = FALSE
  /\ UNCHANGED <<classes, had_error, answer>>

\* The end of parse_program.  Input that ends inside a class is an error, but
\* the class stays in the list.
Finish ==
  /\ Parsing
  /\ classes' = [k \in 1..Len(classes) |-> Resolved(classes[k])]
  /\ had_error' = (had_error \/ open)
  /\ answer' = IF had_error' THEN "nullptr" ELSE "program"
  /\ open' = FALSE

ClassNext ==
  \/ BeginClass \/ BeginFails \/ FieldFails \/ EndClass \/ Finish
  \/ \E sz \in FieldSize : Field(sz) \/ FieldNoColon(sz)

ClassSpec == ClassInit /\ [][ClassNext]_classvars
-------------------------------------------------------------------------------
Bytes(f) == f.offset..(f.offset + f.size - 1)

\* No two fields of a class share a byte, each is aligned to its size, clear of
\* the vtable pointer at offset 0 and inside the size new-instance asks the heap
\* for, whatever mix of sizes came before and on both passes: a store to one field
\* changes neither another field nor another object.
FieldsApart ==
  \A k \in 1..Len(classes) : \A i \in 1..Len(classes[k].fields) :
    LET fs == classes[k].fields IN
    /\ fs[i].offset % fs[i].size = 0
    /\ Bytes(fs[i]) \subseteq VTablePtr..(classes[k].size - 1)
    /\ \A j \in 1..(i - 1) : Bytes(fs[i]) \cap Bytes(fs[j]) = {}

Kept ==
  \A k \in 1..Len(classes) : k <= Len(classes') =>
    /\ classes'[k].size >= classes[k].size
    /\ \A i \in 1..Len(classes[k].fields) : classes'[k].fields[i] = classes[k].fields[i]

\* "This mirrors the layout parse_class() assigns inline"
\* (resolve_class_layouts): the second pass moves no field and never shrinks a
\* class, so an offset read before it is still right after.
OffsetsKept == [][Kept]_classvars

\* "Every object allocated via `new-instance` has a 16-byte object header"
\* (llm_instructions_learn_anastasia_for_ai.md:167; ObjectHeader,
\* object_heap.h:9-13): no field lies in the header that allocate_object fills.
HeaderClear ==
  \A k \in 1..Len(classes) : \A i \in 1..Len(classes[k].fields) :
    classes[k].fields[i].offset >= HeaderBytes
===============================================================================
