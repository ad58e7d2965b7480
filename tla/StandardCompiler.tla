-------------------------- MODULE StandardCompiler --------------------------
(***************************************************************************)
(* The Standard JSON interface, libsolidity/interface/StandardCompiler, on *)
(* top of the compiler stack, and the C library libsolc/libsolc.cpp that   *)
(* hands its answers to a host program.                                    *)
(*                                                                         *)
(* A call reads the sources of the request one by one, asking the host     *)
(* through a callback where only URLs are given, checks the settings,      *)
(* drives a fresh CompilerStack and collects what was selected.  The host  *)
(* owns memory that lives in a list of the library and may call the        *)
(* library from within the callback.                                       *)
(***************************************************************************)
EXTENDS CompilerStack

CONSTANTS
    Inputs,      \* the requests a host may make
    Pointers,    \* the addresses solidity_alloc may return
    None         \* the null pointer, and the answer before the first call

(***************************************************************************)
(* The name of an artifact is the sequence of its parts, so that           *)
(* "evm.bytecode" is <<"evm", "bytecode">>, and "*" is All.  An output     *)
(* selection is a set of triples of a source, a contract and an artifact.  *)
(***************************************************************************)
All == <<"*">>
Abi == <<"abi">>
Ast == <<"ast">>
Ir == <<"ir">>
IrOptimized == <<"irOptimized">>
Ewasm == <<"ewasm">>
Wast == <<"ewasm", "wast">>
Wasm == <<"ewasm", "wasm">>
MethodIdentifiers == <<"evm", "methodIdentifiers">>

\* The artifacts that need the assembly items of the legacy code generator.
AssemblyArtifacts ==
    {<<"evm", "assembly">>, <<"evm", "legacyAssembly">>, <<"evm", "gasEstimates">>}

ObjectKinds == {"bytecode", "deployedBytecode"}

EvmObjectComponents(kind) ==
    {<<"evm", kind>>}
    \cup {<<"evm", kind, part>> :
            part \in {"object", "opcodes", "sourceMap", "generatedSources", "linkReferences"}
                     \cup (IF kind = "deployedBytecode" THEN {"immutableReferences"} ELSE {})}

OutputsThatRequireEvmBinaries ==
    {All} \cup AssemblyArtifacts \cup UNION {EvmObjectComponents(k) : k \in ObjectKinds}

OutputsThatRequireBinaries ==
    OutputsThatRequireEvmBinaries
    \cup {Ir, IrOptimized, <<"wast">>, <<"wasm">>, Wast, Wasm}

Experimental == {Ir, IrOptimized, <<"wast">>, Ewasm, Wast}

\* isArtifactRequested for one name of the list
Selects(selected, artifact, wildcardMatchesExperimental) ==
    \/ IsPrefix(selected, artifact)
    \/ selected = All /\ (artifact \notin Experimental \/ wildcardMatchesExperimental)

\* isArtifactRequested; the empty contract stands for the source itself and is
\* not matched by a wildcard.
IsArtifactRequested(selection, file, contract, artifact, wildcardMatchesExperimental) ==
    \E t \in selection :
        /\ t[1] \in {file, "*"}
        /\ t[2] \in IF contract = "" THEN {""} ELSE {contract, "*"}
        /\ Selects(t[3], artifact, wildcardMatchesExperimental)

IsBinaryRequested(selection) ==
    \E t \in selection, o \in OutputsThatRequireBinaries : Selects(t[3], o, FALSE)

IsEvmBytecodeRequested(selection) ==
    \E t \in selection, o \in OutputsThatRequireEvmBinaries : Selects(t[3], o, FALSE)

\* The names are compared, so that "*" does not request Ewasm code or IR.
IsEwasmRequested(selection) == \E t \in selection : t[3] \in {Ewasm, Wast}

IsIRRequested(selection) ==
    IsEwasmRequested(selection) \/ \E t \in selection : t[3] \in {Ir, IrOptimized}

\* Mutant: the wildcard of the contract is taken for a name.
RequestedWithoutWildcard(selection) ==
    {<<IF t[1] = "*" THEN "" ELSE t[1], t[2]>> : t \in selection}

RequestedContractNames(selection) ==
    LET Key(name) == IF name = "*" THEN "" ELSE name
    IN {<<Key(t[1]), Key(t[2])>> : t \in selection}
-----------------------------------------------------------------------------
(***************************************************************************)
(* A request.  A source comes with its text or with a number of URLs, and  *)
(* perhaps with a hash, which the text may fail; "invalid" stands for an   *)
(* entry with neither.  The checks of the root object come before the      *)
(* sources are read and those of the settings after; both end the call.    *)
(***************************************************************************)
SourceEntry == [kind : {"content", "urls", "invalid"}, hash : BOOLEAN, matches : BOOLEAN, urls : 0..2]

Input == [ program             : Programs,
           validRoot           : BOOLEAN,
           validSettings       : BOOLEAN,
           language            : {"Solidity", "Yul", "other"},
           given               : Seq(Names),               \* in the order of their names
           entry               : [Names -> SourceEntry],
           callback            : BOOLEAN,                  \* there is a read callback
           stopAfter           : {Parsed, CompilationSuccessful},
           parserErrorRecovery : BOOLEAN,
           viaIR               : BOOLEAN,
           readable            : SUBSET Names,             \* imports the callback delivers
           selection           : SUBSET ((Names \cup {"*"}) \X (Names \cup {"*", ""})
                                         \X (Seq(STRING) \ {<<>>})) ]

\* A contract has a name, and no allocation is at the null pointer.
ASSUME InputsAssumption ==
    /\ Inputs \subseteq Input
    /\ "" \notin Names
    /\ None \notin Pointers

VARIABLES
    call,          \* the call being made, or the last one
    answer,        \* what it returned
    allocations,   \* solidityAllocations, by address
    owned          \* the addresses the host may use

clientVars == <<call, answer, allocations, owned>>
svars == <<program, stack, result, call, answer, allocations, owned>>

\* The part of the call that is still to be done, and ret of parseInput.
StartCall(i) ==
    [ input |-> i, phase |-> "reading", todo |-> i.given, urls |-> 0,
      failures |-> FALSE, sources |-> {}, errors |-> {} ]

NoSources == [fatal |-> "none", errors |-> {}, sources |-> {}, asts |-> {}, members |-> {}, content |-> {}]
FatalError(type) == [NoSources EXCEPT !.fatal = type, !.errors = {type}]

\* A host makes one request, perhaps several times: nothing but the list of
\* allocations outlives a call.
SInit ==
    /\ \E i \in Inputs : call = [StartCall(i) EXCEPT !.phase = "idle"]
    /\ program = call.input.program
    /\ stack = Fresh /\ result = "none"
    /\ answer = None
    /\ allocations = {} /\ owned = {}

-----------------------------------------------------------------------------
(***************************************************************************)
(* The C library.                                                          *)
(***************************************************************************)
\* The host runs between calls and in the callback.
HostRuns == call.phase \in {"idle", "callback"}

\* takeOverAllocation
TakeOver(p) == IF p = None THEN {} ELSE {p}
Unknown(ps) == ps \ (allocations \cup {None}) # {}

\* The bound of the instance: the last pointer is left for the answer.
SolidityAlloc ==
    /\ HostRuns
    /\ Cardinality(Pointers \ allocations) > 1
    /\ \E p \in Pointers \ allocations :
          allocations' = allocations \cup {p} /\ owned' = owned \cup {p}
    /\ UNCHANGED <<program, stack, result, call, answer>>

SolidityFree ==
    /\ HostRuns
    /\ \E p \in owned :
          /\ owned' = owned \ {p}
          /\ IF Unknown({p}) THEN call' = [call EXCEPT !.phase = "aborted"] /\ UNCHANGED allocations
             ELSE allocations' = allocations \ {p} /\ UNCHANGED call
    /\ UNCHANGED <<program, stack, result, answer>>

\* solidity_reset, "called right before each compilation"; a callback may free all
\* it allocated with it.
SolidityReset ==
    /\ HostRuns
    /\ allocations' = {} /\ owned' = {}
    /\ UNCHANGED <<program, stack, result, call, answer>>

\* solidity_compile and the start of parseInput
SolidityCompile ==
    /\ call.phase = "idle"
    /\ allocations # Pointers
    /\ call' = StartCall(call.input)
    /\ answer' = None
    /\ stack' = Fresh /\ result' = "none"
    /\ UNCHANGED <<program, allocations, owned>>

\* compile ends: the answer becomes an allocation of the host.
Answers(a) ==
    \E p \in Pointers \ allocations :
        /\ answer' = a
        /\ call' = [call EXCEPT !.phase = "idle"]
        /\ allocations' = allocations \cup {p}
        /\ owned' = owned \cup {p}

Fails(type) == Answers(FatalError(type)) /\ UNCHANGED <<program, stack, result>>
-----------------------------------------------------------------------------
(***************************************************************************)
(* parseInput.                                                             *)
(***************************************************************************)
Entry == call.input.entry[Head(call.todo)]

CheckRoot ==
    /\ call.phase = "reading"
    /\ ~call.input.validRoot
    /\ Fails("JSONError")

Reads == call.phase = "reading" /\ call.input.validRoot /\ call.todo # <<>>

\* A source with its text; a hash that does not match is an error and the
\* source is left out, but the call goes on.
ReadContent ==
    /\ Reads
    /\ Entry.kind = "content"
    /\ call' = IF Entry.hash /\ ~Entry.matches
                 THEN [call EXCEPT !.todo = Tail(@), !.errors = @ \cup {"io"}]
                 ELSE [call EXCEPT !.todo = Tail(@), !.sources = @ \cup {Head(call.todo)}]
    /\ UNCHANGED <<program, stack, result, answer, allocations, owned>>

ReadUrls ==
    /\ Reads
    /\ Entry.kind = "urls"
    /\ IF ~call.input.callback THEN Fails("JSONError")
       ELSE /\ call' = IF Entry.urls = 0
                         THEN [call EXCEPT !.todo = Tail(@)]
                         ELSE [call EXCEPT !.phase = "callback", !.urls = Entry.urls, !.failures = FALSE]
            /\ UNCHANGED <<program, stack, result, answer, allocations, owned>>

ReadInvalid ==
    /\ Reads
    /\ Entry.kind = "invalid"
    /\ Fails("JSONError")

\* The next source, once a URL was read or all were tried: what failed before
\* is a warning in the first case and an error in the other.
AfterUrls(found, errors, failures) ==
    [call EXCEPT !.phase = "reading", !.todo = Tail(@),
                 !.sources = IF found THEN @ \cup {Head(call.todo)} ELSE @,
                 !.errors = errors \cup (IF ~failures THEN {} ELSE IF found THEN {"warning"} ELSE {"io"})]

\* Mutant: the error message is only looked at when there are no contents.
ReturnOnePointer(contents, error, matches) ==
    LET taken == IF contents # None THEN TakeOver(contents) ELSE TakeOver(error)
        success == contents # None
        found == success /\ (Entry.hash => matches)
        errors == call.errors \cup (IF success /\ ~found THEN {"io"} ELSE {})
        failures == call.failures \/ ~success
    IN /\ allocations' = allocations \ taken
       /\ owned' = owned \ {contents, error}
       /\ call' = IF found \/ call.urls = 1 THEN AfterUrls(found, errors, failures)
                  ELSE [call EXCEPT !.urls = @ - 1, !.errors = errors, !.failures = failures]

\* The callback returns pointers to contents and error message, each of which
\* may be null: wrapReadCallback takes both over, an error counts more than
\* contents, and neither means that the callback is not supported.
CallbackReturns(contents, error, matches) ==
    LET taken == TakeOver(contents) \cup TakeOver(error)
        success == contents # None /\ error = None
        found == success /\ (Entry.hash => matches)
        errors == call.errors \cup (IF success /\ ~found THEN {"io"} ELSE {})
        failures == call.failures \/ ~success
    IN /\ allocations' = allocations \ taken
       /\ owned' = owned \ {contents, error}
       /\ call' = IF Unknown(taken) THEN [call EXCEPT !.phase = "aborted"]
                  ELSE IF found \/ call.urls = 1 THEN AfterUrls(found, errors, failures)
                  ELSE [call EXCEPT !.urls = @ - 1, !.errors = errors, !.failures = failures]

ReadUrl ==
    /\ call.phase = "callback"
    /\ \E contents, error \in owned \cup {None}, matches \in BOOLEAN :
          /\ contents = error => contents = None
          /\ CallbackReturns(contents, error, matches)
    /\ UNCHANGED <<program, stack, result, answer>>

\* checkKeys and its callers, checkOutputSelection, parseOptimizerSettings: a
\* setting of the wrong shape.
RefusesSettings(i) == ~i.validSettings

\* The settings, and the choice of the language in compile.
CheckSettings ==
    LET i == call.input IN
    /\ call.phase = "reading" /\ i.validRoot /\ call.todo = <<>>
    /\ IF \/ RefusesSettings(i)
          \/ i.stopAfter # CompilationSuccessful /\ IsBinaryRequested(i.selection)
          \/ i.language = "other"
         THEN Fails("JSONError")
         ELSE /\ call' = [call EXCEPT !.phase = IF i.language = "Yul" THEN "yul" ELSE "solidity"]
              /\ UNCHANGED <<program, stack, result, answer, allocations, owned>>
-----------------------------------------------------------------------------
(***************************************************************************)
(* compileSolidity.                                                        *)
(***************************************************************************)
NewStack(i, sources) ==
    [Fresh EXCEPT
       !.stackState = SourcesSet,
       !.sources = sources,
       !.readable = IF i.callback THEN i.readable ELSE {},
       !.guarded.viaIR = i.viaIR,
       !.open = [ requestedContractNames |-> RequestedContractNames(i.selection),
                  generateEvmBytecode    |-> IsEvmBytecodeRequested(i.selection),
                  generateIR             |-> IsIRRequested(i.selection),
                  generateEwasm          |-> IsEwasmRequested(i.selection),
                  parserErrorRecovery    |-> i.parserErrorRecovery ]]

\* Whatever is thrown becomes an error of the answer; the errors of the stack
\* are then not looked at.
CompileSolidity ==
    LET i == call.input
        s == NewStack(i, call.sources)
        o == IF IsBinaryRequested(i.selection) THEN Compile(s, CompilationSuccessful)
                                               ELSE ParseAndAnalyze(s, i.stopAfter)
        errors == IF o.r = "throw" THEN {"exception"} ELSE IF o.s.errors THEN {"stack"} ELSE {}
    IN /\ call.phase = "solidity"
       /\ stack' = o.s /\ result' = o.r
       /\ call' = [call EXCEPT !.phase = "collect", !.errors = @ \cup errors]
       /\ UNCHANGED <<program, answer, allocations, owned>>

AnalysisArtifacts ==
    {Abi, MethodIdentifiers}
    \cup {<<a>> : a \in {"storageLayout", "metadata", "userdoc", "devdoc"}}

\* The parts of an EVM object that are not empty in code from the given generator.
ObjectArtifacts(k, legacy) ==
    {<<"evm", k, part>> : part \in {"object", "opcodes"} \cup (IF legacy THEN {"sourceMap"} ELSE {})}

\* What the getters of the stack have to say about contract n: the artifacts
\* that are not empty.
Available(s, n) ==
    AnalysisArtifacts
    \cup (IF n \in s.yulIR THEN {Ir, IrOptimized} ELSE {})
    \cup (IF n \in s.ewasm THEN {Wast, Wasm} ELSE {})
    \cup (IF n \in s.object THEN UNION {ObjectArtifacts(k, ~s.guarded.viaIR) : k \in ObjectKinds} ELSE {})
    \cup (IF n \in s.object /\ ~s.guarded.viaIR THEN AssemblyArtifacts ELSE {})

CodeArtifacts ==
    {Ir, IrOptimized, Wast, Wasm} \cup AssemblyArtifacts
    \cup UNION {EvmObjectComponents(k) \ {<<"evm", k>>} : k \in ObjectKinds}

\* Mutant: the artifacts that need code are asked for whatever was compiled.
MembersWithoutCheck(selection, n, compilationSuccess) ==
    {a \in AnalysisArtifacts \cup CodeArtifacts : IsArtifactRequested(selection, n, n, a, FALSE)}

\* The members of the answer for contract n.
Members(selection, n, compilationSuccess) ==
    {a \in AnalysisArtifacts \cup (IF compilationSuccess THEN CodeArtifacts ELSE {}) :
        IsArtifactRequested(selection, n, n, a, FALSE)}

AstRequested(i) == {n \in Names : IsArtifactRequested(i.selection, n, "", Ast, FALSE)}

\* The second half of compileSolidity.  An AST that is not there is dereferenced
\* when the parser recovers from errors; the getters of a contract fail when its
\* source was not analysed, and then only the exception is reported.
Collect ==
    LET i == call.input
        compilationSuccess == stack.stackState = CompilationSuccessful
        analysisPerformed == /\ stack.stackState >= AnalysisPerformed
                             /\ stack.hasError => i.parserErrorRecovery
        inconsistent == /\ (IsBinaryRequested(i.selection) /\ ~compilationSuccess) \/ ~analysisPerformed
                        /\ call.errors = {}
                        /\ i.stopAfter >= AnalysisPerformed
        sources == IF stack.stackState >= Parsed /\ (stack.hasError => i.parserErrorRecovery)
                     THEN stack.sources ELSE {}
        contracts == IF analysisPerformed THEN stack.contracts ELSE {}
        members == {m \in contracts \X (AnalysisArtifacts \cup CodeArtifacts) :
                       m[2] \in Members(i.selection, m[1], compilationSuccess)}
    IN /\ call.phase = "collect"
       /\ IF inconsistent THEN Answers(FatalError("InternalCompilerError"))
          ELSE IF sources \cap AstRequested(i) \cap stack.withoutAst # {}
            THEN /\ call' = [call EXCEPT !.phase = "crashed"]
                 /\ UNCHANGED <<answer, allocations, owned>>
          ELSE IF \/ \E m \in members : m[1] \notin stack.sourceOrder
                  \/ ~compilationSuccess /\ \E m \in members : m[2] \in CodeArtifacts
            THEN Answers(FatalError("InternalCompilerError"))
          ELSE Answers([ fatal |-> "none", errors |-> call.errors, sources |-> sources,
                         asts |-> sources \cap AstRequested(i), members |-> members,
                         content |-> {m \in members : m[2] \in Available(stack, m[1])} ])
       /\ UNCHANGED <<program, stack, result>>

\* compileYul: one source, whose runtime object is there if the program says it
\* can be deployed.  The errors of parseInput are not part of the answer.  The
\* settings it refuses have the effect of invalid settings and are left to them.
YulArtifacts(n) ==
    {Ir, IrOptimized, <<"evm", "assembly">>} \cup ObjectArtifacts("bytecode", TRUE)
    \cup (IF n \in program.deployable THEN ObjectArtifacts("deployedBytecode", TRUE) ELSE {})

CompileYul ==
    /\ call.phase = "yul"
    /\ IF \A n \in Names : call.sources # {n} THEN Answers(FatalError("JSONError"))
       ELSE LET n == CHOOSE m \in Names : call.sources = {m}
                members == {n} \X {a \in YulArtifacts(n) :
                                     IsArtifactRequested(call.input.selection, n, n, a, TRUE)}
            IN IF n \in program.unparsable
                 THEN Answers([NoSources EXCEPT !.errors = {"stack"}])
                 ELSE Answers([NoSources EXCEPT !.errors = {"warning"}, !.members = members, !.content = members])
    /\ UNCHANGED <<program, stack, result>>

SNext ==
    \/ SolidityAlloc \/ SolidityFree \/ SolidityReset \/ SolidityCompile
    \/ CheckRoot \/ ReadContent \/ ReadUrls \/ ReadInvalid \/ ReadUrl \/ CheckSettings
    \/ CompileSolidity \/ Collect \/ CompileYul

SSpec == SInit /\ [][SNext]_svars
-----------------------------------------------------------------------------
\* The answers to complete requests in Solidity, and the errors in them.
Answered == answer # None /\ call.input.language = "Solidity"
AnswersWithout(errors) == answer.fatal = "none" /\ answer.errors \cap errors = {}

\* What a user may leave out of consideration: Ewasm binaries alone do not turn
\* Ewasm on in isEwasmRequested, and code from the IR has no assembly items
\* ("TODO: refactor assemblyItems ... to work with this code path").
NotGenerated(i, a) ==
    \/ a = Wasm /\ ~IsEwasmRequested(i.selection)
    \/ i.viaIR /\ (a \in AssemblyArtifacts \/ Last(a) = "sourceMap")

\* The switches of the compiler stack and the list of requested contracts are
\* derived from the output selection separately from the test that puts an
\* artifact in the answer.  Still an answer without an error holds every source
\* that was given (a source with an empty list of URLs is dropped silently) and
\* every selected artifact of every contract that can be deployed, not empty.
CompleteWithoutError ==
    Answered /\ call.input.stopAfter = CompilationSuccessful
             /\ AnswersWithout({"io", "stack", "exception"}) =>
        LET i == call.input IN
        /\ {n \in ToSet(i.given) : i.entry[n].kind = "urls" => i.entry[n].urls > 0} \subseteq answer.sources
        /\ answer.sources \cap AstRequested(i) \subseteq answer.asts
        /\ \A n \in answer.sources \cap program.deployable, t \in i.selection :
              t[1] \in {"*", n} /\ t[2] \in {"*", n} =>
                 \A a \in AnalysisArtifacts \cup {Ir, IrOptimized, Wast, Wasm} \cup AssemblyArtifacts
                           \cup UNION {ObjectArtifacts(k, TRUE) : k \in ObjectKinds} :
                    Selects(t[3], a, FALSE) /\ ~NotGenerated(i, a) => <<n, a>> \in answer.content

\* "Inconsistent state - stop here to receive error reports from users": it is
\* never reached, and no exception leaves compileSolidity.  What the parser, the
\* analysis or code generation found is in the answer.  Only when the parser is
\* asked to recover from errors, an import that is missing replaces the errors
\* by an exception, and a selected AST that is missing brings the process down.
FailuresReported ==
    /\ call.phase = "crashed" =>
          /\ call.input.parserErrorRecovery
          /\ AstRequested(call.input) \cap program.unparsable # {}
    /\ Answered =>
          /\ answer.fatal # "InternalCompilerError"
          /\ answer.fatal = "none" /\ stack.errors => "stack" \in answer.errors \/ "exception" \in answer.errors
          /\ "exception" \in answer.errors =>
                call.input.parserErrorRecovery /\ WithMissingImports(stack.sources) # {}

\* The list of allocations holds exactly what the host may use: what the
\* callback returns is released whichever way the call ends, and a host that
\* only frees what it owns never makes the library abort.
OwnershipExact == call.phase # "aborted" /\ allocations = owned
=============================================================================
