------------------------- MODULE MCContractCodegen -------------------------
(***************************************************************************)
(* Small contracts for ContractCodegen: three functions, one modifier,     *)
(* three synchronous call nodes and two low-level functions.               *)
(***************************************************************************)
EXTENDS ContractCodegen

MCFunctions == {"f", "g", "h"}
MCModifiers == {"m"}
MCSites     == {"r", "s", "t"}
MCLowLevel  == {"k", "l"}

call(x)  == [kind |-> "call", of |-> x]
value(x) == [kind |-> "value", of |-> x]
await(x) == [kind |-> "await", of |-> x]
low(x)   == [kind |-> "low", of |-> x]

\* One field of a small contract per argument; what is not given is empty.
Make(lib, iface, special, f, g, init, ctor, late, mods, m) ==
    [ isLibrary |-> lib,
      interface |-> iface,
      special   |-> special,
      body      |-> [u \in Units |->
                        CASE u = "f" -> f
                          [] u = "g" -> g
                          [] u = "h" -> <<await("t")>>
                          [] u = Initializers -> init
                          [] u = Constructor -> ctor
                          [] u \in special -> late
                          [] OTHER -> <<>>],
      modifiers |-> [u \in Units |-> IF u \in mods THEN <<"m">> ELSE <<>>],
      modBody   |-> [x \in Modifiers |-> m],
      generator |-> [n \in LowLevel |-> IF n = "k" THEN {"k", "l"} ELSE {}] ]

FBodies == {<<>>, <<call("f"), call("g")>>, <<value("h"), low("k")>>}
GBodies == {<<>>, <<call("h"), call("f")>>, <<low("l"), low("l")>>}
InitBodies == {<<>>, <<value("g")>>, <<call("g"), low("k")>>}
CtorBodies == {<<call("h")>>, <<value("f"), call("f")>>}
LateBodies == {<<>>, <<call("g"), low("l")>>}
ModBodies == {<<await("s"), Placeholder>>, <<Placeholder, low("l")>>,
              <<Placeholder, Placeholder>>}
Interfaces == {<<>>, <<"f">>, <<"f", "g">>, <<"h", "f">>}
Specials == {{}, {Constructor}, {Receive}, {Constructor, Receive, Fallback}}

MCContracts ==
    { Make(FALSE, i, sp, f, g, n, c, l, ms, m) :
        i \in Interfaces, sp \in Specials, f \in FBodies, g \in GBodies,
        n \in InitBodies, c \in CtorBodies, l \in LateBodies,
        ms \in {{}, {"g"}, {"f", "g"}}, m \in {<<await("s"), Placeholder>>} }
    \cup { Make(TRUE, i, {}, f, g, <<>>, <<>>, <<>>, ms, m) :
        i \in Interfaces, f \in FBodies, g \in GBodies, ms \in {{}, {"f", "g"}},
        m \in ModBodies }

\* Contracts whose fallback awaits a call, for the claims of the comments.
LateAwaitContracts ==
    { Make(FALSE, <<"f">>, {Fallback}, <<>>, <<>>, <<>>, <<>>, l, ms, m) :
        l \in {<<await("r")>>, <<call("g")>>, <<>>}, ms \in {{}, {"f", "g"}},
        m \in ModBodies }
    \cup { Make(FALSE, <<"f", "g">>, {}, f, <<>>, <<>>, <<>>, <<>>, ms, m) :
        f \in FBodies, ms \in {{}, {"f"}, {"f", "g"}}, m \in ModBodies }

SmallContracts == MCContracts \cup LateAwaitContracts
=============================================================================
