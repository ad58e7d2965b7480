--------------------------- MODULE MCCallCodegen ---------------------------
(***************************************************************************)
(* Calls for CallCodegen: all kinds of call, with up to three arguments of *)
(* every shape, and with so many that SWAP and DUP just reach and just do  *)
(* not reach.                                                              *)
(***************************************************************************)
EXTENDS CallCodegen

Word == [slots |-> 1, dynamic |-> FALSE, bytes |-> 32]
Pointer == [slots |-> 2, dynamic |-> FALSE, bytes |-> 32]   \* external function
Bytes == [slots |-> 1, dynamic |-> TRUE, bytes |-> 5]       \* bytes memory
CallData == [slots |-> 2, dynamic |-> TRUE, bytes |-> 64]   \* bytes calldata
Shapes == {Word, Pointer, Bytes, CallData}

\* 13 to 16 slots with a dynamic value first, last or nowhere.
LargeLists ==
    {Times(n, Word) : n \in 13..16} \cup {Append(Times(n, Word), Bytes) : n \in 12..15}
    \cup {<<Bytes>> \o Times(n, Word) : n \in 11..15} \cup {<<CallData, Bytes>> \o Times(10, Word)}
SmallLists == UNION {[1..n -> Shapes] : n \in 0..3}
BytesLists == {<<Bytes>>, <<CallData>>}

Call(kind, args, options, self, returns, coder, sync, try) ==
    [kind |-> kind, args |-> args, options |-> options, self |-> self, returns |-> returns,
     coder |-> coder, sync |-> sync, try |-> try]

MCCalls ==
    {Call("external", a, <<>>, 0, 1, coder, TRUE, FALSE) : a \in SmallLists \cup LargeLists, coder \in {"v1", "v2"}}
    \cup {Call("external", a, o, 0, r, "v1", s, t) :
             a \in {<<>>, <<Bytes, Word>>}, o \in Options, r \in {0, 2}, s \in BOOLEAN, t \in BOOLEAN}
    \cup {Call("external", Times(n, Word), <<"value", "token">>, 0, 0, "v2", TRUE, FALSE) : n \in 11..14}
    \cup {Call("delegate", a, <<>>, self, r, coder, FALSE, t) :
             a \in {<<>>, <<Word, Bytes>>, Times(13, Word)}, self \in 0..1, r \in {0, 2},
             coder \in {"v1", "v2"}, t \in BOOLEAN}
    \cup {Call("creation", a, o, 0, 0, coder, FALSE, t) :
             a \in {<<>>, <<Bytes, Word>>}, o \in Options, coder \in {"v1", "v2"}, t \in BOOLEAN}
    \cup {Call("bareCall", a, o, 0, 0, coder, s, FALSE) :
             a \in BytesLists, o \in Options, coder \in {"v1", "v2"}, s \in BOOLEAN}
    \cup {Call("bareStatic", a, <<>>, 0, 0, "v1", s, FALSE) : a \in BytesLists, s \in BOOLEAN}
    \cup {Call("bareDelegate", a, <<>>, 0, 0, "v1", FALSE, FALSE) : a \in BytesLists}
    \cup {Call(k, a, <<>>, 0, 1, coder, FALSE, FALSE) :
             k \in {"sha256", "ripemd160"}, a \in BytesLists, coder \in {"v1", "v2"}}
    \cup {Call("ecrecover", Times(4, Word), <<>>, 0, 1, coder, FALSE, FALSE) : coder \in {"v1", "v2"}}
    \cup {Call("send", <<Word>>, <<>>, 0, 0, "v1", FALSE, FALSE),
          Call("transfer", <<Word, Word>>, <<>>, 0, 0, "v1", FALSE, FALSE)}
=============================================================================
