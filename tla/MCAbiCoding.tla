------------------------------ MODULE MCAbiCoding ------------------------------
(* Tuples with every kind of type, in every position that matters: dynamic   *)
(* and static elements before and behind each other, nested arrays, structs  *)
(* whose members share a storage slot, byte arrays around the length of a    *)
(* word, and values with dirty bits.                                        *)
EXTENDS AbiCoding

U1 == [kind |-> "uint", n |-> 1]
U2 == [kind |-> "uint", n |-> 2]
U4 == [kind |-> "uint", n |-> 4]
I1 == [kind |-> "int", n |-> 1]
B2 == [kind |-> "bytesN", n |-> 2]
Bool == [kind |-> "bool"]
Enum == [kind |-> "enum", n |-> 3]
Fun == [kind |-> "function"]
Bytes == [kind |-> "bytes"]
Arr(b) == [kind |-> "array", base |-> b, len |-> -1]
Fix(b, n) == [kind |-> "array", base |-> b, len |-> n]
Struct(ms) == [kind |-> "struct", members |-> ms]

Elem(t, v) == [type |-> t, value |-> v, literal |-> FALSE]
Literal(t, v) == [type |-> t, value |-> v, literal |-> TRUE]

Hi == <<3, 5>>
Long == <<3, 5, 7, 9, 11>>

MCTuples == {
  <<Elem(U1, 4098), Elem(Bool, 512), Elem(B2, 4660), Elem(Fun, <<65299, 37>>)>>,
  <<Elem(Bytes, Hi), Elem(Enum, 2), Elem(Bytes, Long)>>,
  <<Elem(Bytes, <<>>), Elem(Fix(U4, 2), <<7, 60000>>), Elem(U2, 5)>>,
  <<Elem(I1, 8), Elem(Arr(I1), <<1, 65535, 65528, 7>>)>>,
  <<Elem(Arr(U1), <<1, 2, 3, 4, 5>>), Elem(Fix(B2, 3), <<4608, 4864, 5120>>)>>,
  <<Elem(Arr(Bytes), <<Hi, <<>>, <<1, 2, 3, 4>>>>)>>,
  <<Elem(Fix(Arr(U2), 2), <<<<1, 2, 3>>, <<>>>>), Literal(Bytes, Hi)>>,
  <<Elem(Struct(<<U1, Bytes, U2, Fun>>), <<9, Hi, 44, 4672>>), Literal(B2, <<1, 2>>)>>,
  <<Elem(Struct(<<U2, U1, Bool, Fix(U4, 1)>>), <<200, 3, 1, <<11>>>>), Elem(Arr(U4), <<8, 9>>)>>,
  <<Elem(Arr(Struct(<<U1, Arr(U4)>>)), <<<<1, <<2>>>>, <<3, <<>>>>>>)>>,
  <<Elem(Arr(Fix(U1, 2)), <<<<1, 2>>, <<3, 4>>>>)>>,
  <<Elem(Bytes, Hi), Elem(Fix(U4, 2), <<7, 6>>)>> }

\* zero, lengths and offsets around the true ones, the limit, and words that
\* wrap around when they are added or multiplied
MCDamageWords == {0, 1, 3, 4, 5, 8, 12, 1023, 1024, 16384, 32768, 65528, 65532, 65535}
=============================================================================
