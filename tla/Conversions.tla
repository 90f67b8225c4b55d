---------------------------- MODULE Conversions -----------------------------
(***************************************************************************)
(* Integers between C and Janet.  Janet has signed 32-bit integers and     *)
(* boxed 64-bit ones; wlroots has unsigned 32-bit serials, times and key   *)
(* codes, and X11 has 16-bit positions and sizes.  Half32 and Half16 are   *)
(* half the number of values of each width: 2^31 and 2^15 in the code.     *)
(***************************************************************************)
EXTENDS Integers

CONSTANTS Half32, Half16

ASSUME HalvesAssumption ==
  /\ Half16 \in Nat \ {0}
  /\ Half32 \in Nat
  /\ Half16 =< Half32

Int32  == -Half32 .. Half32 - 1
Word32 == 0 .. 2 * Half32 - 1
Int16  == -Half16 .. Half16 - 1
Word16 == 0 .. 2 * Half16 - 1

\* Casts of C: the value modulo the number of values of the type.
AsWord32(i) == i % (2 * Half32)
AsWord16(i) == i % (2 * Half16)
AsInt32(i)  == ((i + Half32) % (2 * Half32)) - Half32
AsInt16(i)  == ((i + Half16) % (2 * Half16)) - Half16

\* The C values of each conversion of FieldKinds!Number.
Values ==
  [int    |-> Int32, serial |-> Word32, u64 |-> Word32,
   int16  |-> Int16, word16 |-> Word16]

\* From C to Janet: janet_wrap_integer of an int, of an unsigned (the cast
\* is implicit), of 16 bits, and janet_wrap_u64, which widens.
ToJanet(conv, c) == IF conv = "serial" THEN AsInt32(c) ELSE c

ToC_SerialsClamped(conv, v) ==
  IF conv = "serial" /\ v < 0 THEN 0 ELSE v

\* From Janet to C: janet_getinteger, cast or not, and janet_getuinteger64
\* cast to 32 bits.
ToC(conv, v) ==
  CASE conv = "int"    -> v
    [] conv = "serial" -> AsWord32(v)
    [] conv = "u64"    -> AsWord32(v)
    [] conv = "int16"  -> AsInt16(v)
    [] conv = "word16" -> AsWord16(v)
=============================================================================
