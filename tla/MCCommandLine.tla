--------------------------- MODULE MCCommandLine ---------------------------
(***************************************************************************)
(* Two sources, the second of which may import the first, three libraries  *)
(* and command lines that differ from a plain one in a few options.        *)
(***************************************************************************)
EXTENDS CommandLine

MCNames == {"a", "b"}
MCLibraries == {"a:L", "a:M", "a:my_lib"}
MCSimpleName == [l \in MCLibraries |-> IF l = "a:L" THEN "L" ELSE IF l = "a:M" THEN "M" ELSE "my_lib"]
MCUnderscored == {"a:my_lib"}
MCLibraryUses == [n \in MCNames |-> IF n = "a" THEN {"a:L", "a:my_lib"} ELSE {"a:L", "a:M"}]

Make(imports, unparsable, missing, ofB, rejected) ==
    [ order      |-> <<"a", "b">>,
      imports    |-> [n \in MCNames |-> IF n = "b" THEN imports ELSE {}],
      unparsable |-> unparsable,
      missing    |-> missing,
      analysis   |-> [n \in MCNames |-> IF n = "a" THEN "ok" ELSE ofB],
      deployable |-> MCNames,
      rejected   |-> rejected ]

Good == Make({"a"}, {}, {}, "ok", {})
Independent == Make({}, {}, {}, "ok", {})
Interface == [Independent EXCEPT !.deployable = {"a"}]
OfFiles == {Independent, Interface}     \* those that are compiled to files
MCPrograms ==
    { Good, Independent, Interface, Make({"a"}, {"a"}, {}, "ok", {}), Make({"a"}, {}, {"b"}, "ok", {}),
      Make({}, {}, {}, "early", {}), Make({}, {}, {}, "late", {}), Make({}, {}, {}, "ok", {"b"}) }

Plain(p) ==
    [ program |-> p, valid |-> TRUE, validValues |-> TRUE, modes |-> {}, files |-> MCNames,
      absent |-> {}, ignoreMissing |-> FALSE, readable |-> MCNames, basePath |-> FALSE,
      stopAfter |-> CompilationSuccessful, errorRecovery |-> FALSE, viaIR |-> FALSE,
      outputs |-> {}, ast |-> {}, combined |-> {}, libraries |-> {},
      outputDir |-> FALSE, overwrite |-> FALSE ]

MCInvocations ==
    \* outputs, stages and recovery
    { [Plain(p) EXCEPT !.outputs = o, !.stopAfter = s, !.errorRecovery = r, !.combined = c, !.ast = t] :
        p \in MCPrograms \ OfFiles, o \in {{}, {"abi"}, {"bin-runtime"}, {"asm", "ir", "ewasm", "abi"}},
        s \in {Parsed, CompilationSuccessful}, r \in BOOLEAN,
        c \in {{}, {"bin"}, {"abi", "ast"}},
        t \in {{}, {"ast-compact-json"}, {"ast-json"}} }
    \* imports that are read, with and without a base path
    \cup { [Plain(p) EXCEPT !.files = {"b"}, !.readable = d, !.basePath = b, !.ast = t, !.outputs = {"abi"}] :
             p \in MCPrograms \ OfFiles, d \in SUBSET MCNames, b \in BOOLEAN, t \in {{}, {"ast-compact-json"}} }
    \* object files and linking, for a program of its own
    \cup { [Plain(Independent) EXCEPT !.files = f, !.outputs = {"bin"}, !.libraries = l,
                                      !.outputDir = TRUE, !.overwrite = w] :
             f \in {{"a"}, MCNames}, l \in {{}, {"a:L"}, {"L"}, {"a:my_lib"}}, w \in BOOLEAN }
    \cup { [Plain(Independent) EXCEPT !.files = f, !.modes = {"link"}, !.libraries = l] :
             f \in {{"b"}, MCNames}, l \in {{"a:L"}, {"M"}, {"a:M"}, {"a:L", "a:my_lib"}} }
    \* other files
    \cup { [Plain(Interface) EXCEPT !.outputs = {"abi"}, !.outputDir = TRUE, !.overwrite = w,
                               !.combined = {"abi"}, !.ast = {"ast-compact-json"}] : w \in BOOLEAN }
    \* the other modes and arguments that are refused
    \cup { [Plain(p) EXCEPT !.modes = m, !.files = f, !.absent = x, !.ignoreMissing = i, !.outputs = {"abi"}] :
             p \in {Good, Make({"a"}, {"a"}, {}, "ok", {})},
             m \in {{"standard-json"}, {"assemble"}, {"import-ast"}, {"assemble", "link"}},
             f \in {{"b"}, MCNames}, x \in {{}, {"a"}}, i \in BOOLEAN }
    \cup { [Plain(Good) EXCEPT !.valid = v, !.validValues = ~v] : v \in BOOLEAN }

\* The settings of the stack come with the command lines.
MCOpenChoices == {DefaultOpen}
=============================================================================
