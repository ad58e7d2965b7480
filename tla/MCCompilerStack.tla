-------------------------- MODULE MCCompilerStack --------------------------
(***************************************************************************)
(* Two sources, the second of which may import and create the first.       *)
(***************************************************************************)
EXTENDS CompilerStack

MCNames == {"a", "b"}

Make(imports, unparsable, missing, ofA, ofB, deployable, rejected) ==
    [ order      |-> <<"a", "b">>,
      imports    |-> [n \in MCNames |-> IF n = "b" THEN imports ELSE {}],
      unparsable |-> unparsable,
      missing    |-> missing,
      analysis   |-> [n \in MCNames |-> IF n = "a" THEN ofA ELSE ofB],
      deployable |-> deployable,
      rejected   |-> rejected ]

\* Programs that fail in one phase at most, and none in two.
MCPrograms ==
    { Make(i, {}, {}, "ok", "ok", d, x \cap d) :
        i \in {{}, {"a"}}, d \in {{"b"}, {"a", "b"}}, x \in SUBSET MCNames }
    \cup { Make(i, u, {}, "ok", "ok", MCNames, {}) : i \in {{}, {"a"}}, u \in {{"a"}, {"b"}} }
    \cup { Make({"a"}, {}, m, "ok", "ok", MCNames, {}) : m \in {{"a"}, {"b"}} }
    \cup { Make({}, {}, {}, x, y, MCNames, {}) : x \in {"ok", "early"}, y \in {"early", "late"} }

\* Every group of settings is tried against the defaults of the others.
Open(requested, evm, ir, ewasm, recovery) ==
    [ requestedContractNames |-> requested, generateEvmBytecode |-> evm, generateIR |-> ir,
      generateEwasm |-> ewasm, parserErrorRecovery |-> recovery ]
MCOpenChoices ==
    { Open(r, TRUE, FALSE, FALSE, rec) : r \in {{}, {<<"a", "">>}}, rec \in BOOLEAN }
    \cup { Open(r, TRUE, FALSE, FALSE, FALSE) : r \in {{<<"b", "b">>}, {<<"", "a">>}} }
    \cup { Open(r, evm, TRUE, FALSE, FALSE) : r \in {{}, {<<"a", "">>}}, evm \in BOOLEAN }
    \cup { Open({<<"", "b">>}, evm, FALSE, evm, TRUE) : evm \in BOOLEAN }
=============================================================================
