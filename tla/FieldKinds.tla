----------------------------- MODULE FieldKinds -----------------------------
(***************************************************************************)
(* The vocabulary of the getters of wlr.c and xcb.c.  A getter is a        *)
(* function from the keywords it knows to the kind of member it reads; the *)
(* kind says how the C value becomes a Janet value.  A keyword outside the *)
(* domain makes the getter return 0, which the program sees as nil.        *)
(***************************************************************************)

\* A table of one row, and a table with another behind it: a keyword is
\* looked up in the first one first.  They have the names and the meaning of
\* TLC's operators, in definitions that proofs can expand.
Behind(f, g) ==
  [x \in (DOMAIN f) \cup (DOMAIN g) |-> IF x \in DOMAIN f THEN f[x] ELSE g[x]]

k :> v == [x \in {k} |-> v]
f @@ g == Behind(f, g)

\* Every keyword of ks is read in the way kind says.
Each(ks, kind) == [k \in ks |-> kind]

\* A wl_signal or wl_list embedded in the object: its address, never NULL,
\* found in the table of offsets of the type.
Signal == [is |-> "inside", at |-> "wl-signal"]
List   == [is |-> "inside", at |-> "wl-list"]

\* jl_pointer_to_abs_obj(&obj->member, at): another embedded object.
Inside(at) == [is |-> "inside", at |-> at]

\* jl_pointer_to_abs_obj(obj->member, at) behind a test for NULL that gives
\* nil, and the same without the test.
Ref(at)       == [is |-> "ref", at |-> at, tested |-> TRUE]
Unchecked(at) == [is |-> "ref", at |-> at, tested |-> FALSE]

\* jl_pointer_to_abs_obj_by_name: the type is looked up, under the prefix of
\* a module, among the types registered so far.
Named(prefix, at, tested) ==
  [is |-> "named", prefix |-> prefix, at |-> at, tested |-> tested]

\* A C string: nil for NULL, or handed to janet_cstringv as it is.
String    == [is |-> "string", tested |-> TRUE]
RawString == [is |-> "string", tested |-> FALSE]

\* Numbers, by the C type and the conversion, and the quantity they carry.
\* "int": int, int32_t; "serial": uint32_t cast to int32_t; "u64": uint32_t
\* widened to a 64-bit abstract value; "int16", "word16": 16 bits.
Number(conv, q) == [is |-> "number", conv |-> conv, q |-> q]

\* Values without a reference or an integer in them: booleans, doubles,
\* keywords out of a table indexed by a C enumeration, arrays of flags,
\* copied buffers, and integers no operation takes back.
Plain == [is |-> "plain"]

\* The program's pointer: nil for NULL, else a raw pointer.
Data == [is |-> "data"]
=============================================================================
