------------------------- MODULE MCStandardCompiler -------------------------
(***************************************************************************)
(* Two sources, the second of which may import the first; requests that    *)
(* differ from a plain one in one group of fields at a time.               *)
(***************************************************************************)
EXTENDS StandardCompiler, TLC

MCNames == {"a", "b"}

Make(imports, unparsable, missing, ofB, deployable, rejected) ==
    [ order      |-> <<"a", "b">>,
      imports    |-> [n \in MCNames |-> IF n = "b" THEN imports ELSE {}],
      unparsable |-> unparsable,
      missing    |-> missing,
      analysis   |-> [n \in MCNames |-> IF n = "a" THEN "ok" ELSE ofB],
      deployable |-> deployable,
      rejected   |-> rejected ]

Good == Make({"a"}, {}, {}, "ok", MCNames, {})
MCPrograms ==
    {Good}
    \cup { Make(i, {}, {}, "ok", MCNames, x) : i \in {{}, {"a"}}, x \in SUBSET MCNames }
    \cup { Make({"a"}, u, {}, "ok", MCNames, {}) : u \in {{"a"}, {"b"}} }
    \cup { Make({"a"}, {}, {"b"}, "ok", MCNames, {}), Make({}, {}, {}, "ok", {"b"}, {}) }
    \cup { Make({}, {}, {}, o, MCNames, {}) : o \in {"early", "late"} }

Text == [kind |-> "content", hash |-> FALSE, matches |-> TRUE, urls |-> 0]
Entries ==
    { [Text EXCEPT !.hash = TRUE, !.matches = m] : m \in BOOLEAN }
    \cup { [Text EXCEPT !.kind = "urls", !.urls = u, !.hash = h] : u \in 0..2, h \in BOOLEAN }
    \cup { [Text EXCEPT !.kind = "invalid"] }

Everything == {<<"*", "*", All>>, <<"*", "", Ast>>}

\* Selections of one artifact, by name, by a name above it and by wildcards.
Selections ==
    { {<<f, c, a>>} :
        f \in {"*", "b"}, c \in {"*", "b"},
        a \in {All, Abi, Ir, Wast, Wasm, Ewasm, <<"evm">>, <<"evm", "assembly">>,
               <<"evm", "bytecode">>, <<"evm", "deployedBytecode", "object">>, MethodIdentifiers} }
    \cup { {}, {<<"*", "", Ast>>}, {<<"b", "", Ast>>, <<"a", "a", Abi>>}, Everything,
           {<<"a", "*", Ir>>, <<"b", "b", <<"evm", "bytecode", "object">>>>} }

Plain(p) ==
    [ program |-> p, validRoot |-> TRUE, validSettings |-> TRUE, language |-> "Solidity",
      given |-> <<"a", "b">>, entry |-> [n \in MCNames |-> Text], callback |-> TRUE,
      stopAfter |-> CompilationSuccessful, parserErrorRecovery |-> FALSE, viaIR |-> FALSE,
      readable |-> MCNames, selection |-> Everything ]

MCInputs ==
    { [Plain(p) EXCEPT !.selection = s, !.viaIR = v, !.parserErrorRecovery = r] :
        p \in MCPrograms, s \in Selections, v \in BOOLEAN, r \in BOOLEAN }
    \cup { [Plain(p) EXCEPT !.given = <<"b">>, !.callback = c, !.readable = d, !.parserErrorRecovery = r] :
             p \in MCPrograms, c \in BOOLEAN, d \in SUBSET MCNames, r \in BOOLEAN }
    \cup { [Plain(Good) EXCEPT !.entry[n] = e, !.callback = c, !.language = l, !.selection = s] :
             n \in MCNames, e \in Entries, c \in BOOLEAN, l \in {"Solidity", "Yul"},
             s \in {Everything, {<<"*", "*", <<"evm">>>>}} }
    \cup { [Plain(p) EXCEPT !.given = <<"b">>, !.language = "Yul", !.selection = s] :
             p \in MCPrograms, s \in {Everything, {<<"b", "*", Ir>>}} }
    \cup { [Plain(p) EXCEPT !.stopAfter = Parsed, !.selection = s, !.parserErrorRecovery = r] :
             p \in MCPrograms, s \in {{}, {<<"*", "", Ast>>}, Everything}, r \in BOOLEAN }
    \cup { [Plain(Good) EXCEPT !.validRoot = r, !.validSettings = s, !.language = l] :
             r, s \in BOOLEAN, l \in {"Solidity", "other"} }

\* Requests with settings other than the defaults are given through Inputs.
MCOpenChoices == {DefaultOpen}

Symmetry == Permutations(Pointers)
=============================================================================
