-------------------------- MODULE MCStorageLayout --------------------------
(***************************************************************************)
(* Slots of five bytes: a byte array moves to its data area at five bytes, *)
(* values of two bytes leave one byte of a slot unused, values of three    *)
(* have slots of their own.  Arrays are refused from seven values on.      *)
(***************************************************************************)
EXTENDS StorageLayout

Uint(n) == [sort |-> "uint", bytes |-> n]
Sint(n) == [sort |-> "int", bytes |-> n]
FixedBytes(n) == [sort |-> "fixedBytes", bytes |-> n]
Mappings(n) == [sort |-> "mapping", bytes |-> 5, slots |-> n]

Bytes == [kind |-> "bytes"]
Array(b) == [kind |-> "array", base |-> b]
Fixed(b, n) == [kind |-> "fixed", base |-> b, length |-> n]
Struct(m) == [kind |-> "struct", members |-> m]

Pair(t, s) == [target |-> t, source |-> s]
Twice(t) == Pair(t, t)

MCShapes ==
    {Twice(Bytes), Twice(Array(Sint(2))),
     Pair(Array(Sint(2)), Array(Sint(1))), Pair(Array(FixedBytes(3)), Array(FixedBytes(2))),
     Twice(Fixed(Uint(2), 5)), Pair(Fixed(Uint(2), 5), Fixed(Uint(1), 4)),
     Twice(Struct(<<Uint(2), Sint(2), FixedBytes(2), Mappings(1), Uint(1), Mappings(2), Sint(3)>>))}

\* What the program does next depends on the storage only.
View == <<shape, image>>
=============================================================================
