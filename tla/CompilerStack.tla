--------------------------- MODULE CompilerStack ---------------------------
(***************************************************************************)
(* The driver of a compilation, libsolidity/interface/CompilerStack: a     *)
(* state machine with five stages behind an API whose calls may come in    *)
(* any order, be repeated, fail half way or throw.                         *)
(*                                                                         *)
(* What the phases find in the source text is fixed by the program.  Every *)
(* source holds one contract and both have the same name, so that one set  *)
(* of names stands for the sources and for the contracts.                  *)
(***************************************************************************)
EXTENDS Naturals, Sequences, SequencesExt

CONSTANTS
    Names,         \* names of sources and contracts
    Programs,      \* the programs that may be given to the compiler
    OpenChoices    \* the settings that the setters without a guard are called with

Outcomes == {"ok", "early", "late"}

(***************************************************************************)
(* A program: its sources in import order (what is imported comes first),  *)
(* what each imports (the contracts it creates are among these), the       *)
(* sources that cannot be parsed, those with an import that is not found,  *)
(* the outcome of the analysis of each source ("early": a phase that makes *)
(* analyze return at once, "late": any other error, FatalError included),  *)
(* the contracts that can be deployed and those code generation rejects.   *)
(***************************************************************************)
Program == [ order      : Seq(Names),
             imports    : [Names -> SUBSET Names],
             unparsable : SUBSET Names,
             missing    : SUBSET Names,
             analysis   : [Names -> Outcomes],
             deployable : SUBSET Names,
             rejected   : SUBSET Names ]

Precedes(p, a, b) == \E i, j \in DOMAIN p.order : i < j /\ p.order[i] = a /\ p.order[j] = b

ASSUME ProgramsAssumption ==
    /\ Programs \subseteq Program
    /\ \A p \in Programs :
          /\ \A i, j \in DOMAIN p.order : p.order[i] = p.order[j] => i = j
          /\ p.rejected \subseteq p.deployable
          /\ \A a \in Names : \A b \in p.imports[a] : Precedes(p, b, a)

\* enum State
Empty == 0
SourcesSet == 1
Parsed == 2
ParsedAndImported == 3
AnalysisPerformed == 4
CompilationSuccessful == 5
States == 0..5

VARIABLES
    program,   \* the text behind the sources
    stack,     \* the fields of the CompilerStack
    result     \* how the last call ended

vars == <<program, stack, result>>

(***************************************************************************)
(* The settings fall in two groups: most setters refuse to run once the    *)
(* sources are parsed (viaIR and libraries stand for them), the others do  *)
(* not.  A request is a pair of a source and a contract, either of which   *)
(* may be empty to match all.                                              *)
(***************************************************************************)
Requests == (Names \cup {""}) \X (Names \cup {""})

GuardedSettings == [viaIR : BOOLEAN, libraries : BOOLEAN]
OpenSettings == [requestedContractNames : SUBSET Requests,   \* {} requests everything
                 generateEvmBytecode    : BOOLEAN,
                 generateIR             : BOOLEAN,
                 generateEwasm          : BOOLEAN,
                 parserErrorRecovery    : BOOLEAN]

ASSUME OpenChoicesAssumption == OpenChoices \subseteq OpenSettings

DefaultGuarded == [viaIR |-> FALSE, libraries |-> FALSE]
DefaultOpen == [requestedContractNames |-> {}, generateEvmBytecode |-> TRUE,
                generateIR |-> FALSE, generateEwasm |-> FALSE,
                parserErrorRecovery |-> FALSE]

Fields == [ stackState      : States,
            stopAfter       : States,
            hasError        : BOOLEAN,
            errors          : BOOLEAN,          \* the error list holds an error
            guarded         : GuardedSettings,
            open            : OpenSettings,
            importedSources : BOOLEAN,
            readable        : SUBSET Names,     \* what the read callback delivers
            sources         : SUBSET Names,
            withoutAst      : SUBSET Names,
            contracts       : SUBSET Names,     \* m_contracts
            sourceOrder     : SUBSET Names,     \* m_sourceOrder
            analysedFor     : SUBSET Requests,  \* history: what was requested when it was made
            yulIR           : SUBSET Names,     \* contracts that have IR, ...
            object          : SUBSET Names,     \* ... bytecode, ...
            ewasm           : SUBSET Names ]    \* ... Ewasm code

Results == {"none", "true", "false", "throw"}

Fresh == [ stackState |-> Empty, stopAfter |-> CompilationSuccessful,
           hasError |-> FALSE, errors |-> FALSE,
           guarded |-> DefaultGuarded, open |-> DefaultOpen,
           importedSources |-> FALSE, readable |-> Names, sources |-> {},
           withoutAst |-> {}, contracts |-> {}, sourceOrder |-> {},
           analysedFor |-> {}, yulIR |-> {}, object |-> {}, ewasm |-> {} ]

Init == program \in Programs /\ stack = Fresh /\ result = "none"

-----------------------------------------------------------------------------
(***************************************************************************)
(* The phases, as functions from the fields to a pair of fields and result.*)
(***************************************************************************)
Throw(s) == [s |-> s, r |-> "throw"]
Return(s, b) == [s |-> s, r |-> IF b THEN "true" ELSE "false"]

\* The sources that are parsed: the given ones and, unless compilation is to
\* stop before imports are followed, what loadMissingSources can read of their
\* imports.
Loaded(s) ==
    IF s.stopAfter < ParsedAndImported THEN s.sources
    ELSE {n \in Names :
            \A T \in SUBSET Names :
                /\ s.sources \subseteq T
                /\ \A m \in T \ program.unparsable : program.imports[m] \cap s.readable \subseteq T
                => n \in T}

\* The sources among T with an import that is not there.
WithMissingImports(T) ==
    {n \in T \ program.unparsable : n \in program.missing \/ ~ program.imports[n] \subseteq T}

\* parse
Parse(s) ==
    IF s.stackState # SourcesSet THEN Throw(s) ELSE
    LET loaded == Loaded(s)
        parsed == loaded \ program.unparsable
        err == \/ parsed # loaded
               \/ s.stopAfter >= ParsedAndImported /\ WithMissingImports(loaded) # {}
    IN Return([s EXCEPT
                 !.errors = err,
                 !.hasError = @ \/ err,
                 !.stackState = IF s.stopAfter <= Parsed THEN Parsed ELSE ParsedAndImported,
                 !.sources = loaded,
                 !.withoutAst = loaded \ parsed,
                 !.contracts = @ \cup parsed],
              ~(s.hasError \/ err))

IsRequestedSource(s, n) ==
    \/ s.open.requestedContractNames = {}
    \/ \E r \in s.open.requestedContractNames : r[1] \in {"", n}

IsRequestedContract(s, n) ==
    \/ s.open.requestedContractNames = {}
    \/ \E r \in s.open.requestedContractNames : r[1] \in {"", n} /\ r[2] \in {"", n}

\* resolveImports: the requested sources and, through the imports of those
\* that have an AST, everything they need.
ImportClosed(s, T) == \A n \in T \ s.withoutAst : program.imports[n] \subseteq T

\* Mutant: the imports of the requested sources are not followed.
RequestedOnly(s) == {n \in s.sources : IsRequestedSource(s, n)}

SourceOrder(s) ==
    {n \in s.sources :
        \A T \in SUBSET s.sources :
            {m \in s.sources : IsRequestedSource(s, m)} \subseteq T /\ ImportClosed(s, T) => n \in T}

\* analyze: an import that was not found fails the assertion of resolveImports.
Analyze(s) ==
    LET order == SourceOrder(s)
        asts  == order \ s.withoutAst
        found == {program.analysis[n] : n \in asts}
        t     == [s EXCEPT !.sourceOrder = order, !.analysedFor = s.open.requestedContractNames,
                           !.errors = @ \/ found \notin SUBSET {"ok"}]
    IN IF s.stackState # ParsedAndImported \/ order \cap WithMissingImports(s.sources) # {}
         THEN Throw(s)
       ELSE IF "early" \in found
         THEN Return(t, FALSE)
         ELSE LET err == t.hasError \/ "late" \in found
              IN Return([t EXCEPT !.stackState = AnalysisPerformed, !.hasError = err], ~err)

ParseAndAnalyze(s, stop) ==
    LET p == Parse([s EXCEPT !.stopAfter = stop])
    IN IF \/ p.r = "throw"
          \/ p.s.stackState >= stop
          \/ p.r = "false" /\ ~s.open.parserErrorRecovery
         THEN p
         ELSE Analyze(p.s)

\* A contract and the contracts its code holds, directly or through others.
Needs(n) == {m \in Names : \A T \in SUBSET Names :
                n \in T /\ (\A k \in T : program.imports[k] \subseteq T) => m \in T}

\* The loop of compile over the requested contracts, in the order of the
\* sources: compileContract first compiles what a contract needs.  A rejected
\* contract ends the loop, with what was generated so far left in place.
Index(n) == CHOOSE i \in DOMAIN program.order : program.order[i] = n
Targets(s) == {n \in s.sourceOrder : IsRequestedContract(s, n)}
Failing(s) == {n \in Targets(s) : Needs(n) \cap program.rejected # {}}
Reached(s, T) == {n \in T : \A f \in Failing(s) : Index(n) <= Index(f)}

\* What is generated for target n when nothing rejected comes first.
GeneratedFor(n) == {m \in Needs(n) : \A b \in Needs(n) \cap program.rejected : Index(m) < Index(b)}

\* Every kind of IR output needs the IR.
NeedsIR(s) == s.guarded.viaIR \/ s.open.generateIR \/ s.open.generateEwasm

\* Mutant: the contracts another one depends on are not compiled.
GenerateTargetsOnly(s) ==
    LET good == {n \in Reached(s, Targets(s)) : Needs(n) \cap program.rejected = {}}
                   \cap program.deployable
    IN [s EXCEPT
          !.yulIR = IF NeedsIR(s) THEN @ \cup good ELSE @,
          !.object = IF s.open.generateEvmBytecode THEN @ \cup good ELSE @,
          !.ewasm = IF s.open.generateEwasm THEN @ \cup good ELSE @]

\* What generateIR, compileContract, generateEVMFromIR and generateEwasm
\* generate.  The first two follow the contracts a target needs, the others
\* serve the target only; when the IR of a target is rejected, nothing else is
\* tried for it.
Generate(s) ==
    LET reached == Reached(s, Targets(s))
        passed  == {n \in reached : Needs(n) \cap program.rejected = {}}
        all     == (UNION {GeneratedFor(n) : n \in reached}) \cap program.deployable
        whole   == (UNION {Needs(n) : n \in passed}) \cap program.deployable
    IN [s EXCEPT
          !.yulIR = IF NeedsIR(s) THEN @ \cup all ELSE @,
          !.object = IF ~s.open.generateEvmBytecode THEN @
                     ELSE IF s.guarded.viaIR THEN @ \cup (passed \cap program.deployable)
                     ELSE IF NeedsIR(s) THEN @ \cup whole
                     ELSE @ \cup all,
          !.ewasm = IF s.open.generateEwasm THEN @ \cup (passed \cap program.deployable) ELSE @]

\* Mutant: a rejected contract does not end the loop.
CompileIgnoresRejection(s, stop) ==
    LET s0 == [s EXCEPT !.stopAfter = stop]
        a  == IF s.stackState < AnalysisPerformed THEN ParseAndAnalyze(s0, stop)
                                                  ELSE Return(s0, TRUE)
    IN IF a.r # "true" THEN a
       ELSE IF a.s.stackState >= stop THEN Return(a.s, TRUE)
       ELSE IF a.s.hasError THEN Throw(a.s)
       ELSE Return([Generate(a.s) EXCEPT !.stackState = CompilationSuccessful], TRUE)

\* compile
Compile(s, stop) ==
    LET s0 == [s EXCEPT !.stopAfter = stop]
        a  == IF s.stackState < AnalysisPerformed THEN ParseAndAnalyze(s0, stop)
                                                  ELSE Return(s0, TRUE)
        generates == NeedsIR(a.s) \/ a.s.open.generateEvmBytecode
    IN IF a.r # "true" THEN a
       ELSE IF a.s.stackState >= stop THEN Return(a.s, TRUE)
       ELSE IF a.s.hasError THEN Throw(a.s)
       ELSE IF generates /\ Failing(a.s) # {}
         THEN Return([Generate(a.s) EXCEPT !.errors = TRUE], FALSE)
         ELSE Return([Generate(a.s) EXCEPT !.stackState = CompilationSuccessful], TRUE)

-----------------------------------------------------------------------------
(***************************************************************************)
(* The API.                                                                *)
(***************************************************************************)
Ends(outcome) ==
    /\ stack' = outcome.s
    /\ result' = outcome.r
    /\ UNCHANGED program

\* setSources, with all sources or with the last one, whose imports the read
\* callback has to deliver.
SetSources ==
    \E p \in Programs, all \in BOOLEAN :
       IF stack.stackState # Empty THEN Ends(Throw(stack))
       ELSE /\ program' = p
            /\ stack' = [stack EXCEPT !.sources = {n \in ToSet(p.order) : all \/ n = Last(p.order)},
                                      !.stackState = SourcesSet]
            /\ result' = "none"

\* importASTs: the imported sources have an AST, so nothing is unparsable.
ImportASTs ==
    \E p \in {q \in Programs : q.unparsable = {} /\ q.missing = {}} :
       IF stack.stackState # Empty THEN Ends(Throw(stack))
       ELSE /\ program' = p
            /\ stack' = [stack EXCEPT !.sources = ToSet(p.order), !.contracts = ToSet(p.order),
                                      !.stackState = ParsedAndImported, !.importedSources = TRUE]
            /\ result' = "none"

CallParse == Ends(Parse(stack))
CallAnalyze == Ends(Analyze(stack))
CallParseAndAnalyze == \E stop \in {Parsed, CompilationSuccessful} : Ends(ParseAndAnalyze(stack, stop))
CallCompile == \E stop \in {Parsed, AnalysisPerformed, CompilationSuccessful} : Ends(Compile(stack, stop))

\* The setters that must be called before parsing.
SetGuarded ==
    \E g \in GuardedSettings :
       IF stack.stackState >= ParsedAndImported THEN Ends(Throw(stack))
       ELSE Ends([s |-> [stack EXCEPT !.guarded = g], r |-> "none"])

\* setRequestedContractNames, setParserErrorRecovery, enableEvmBytecodeGeneration,
\* enableIRGeneration, enableEwasmGeneration
SetOpen ==
    \E o \in OpenChoices : Ends([s |-> [stack EXCEPT !.open = o], r |-> "none"])

\* reset: of the settings, those of the last group stay but for two.
ResetFields(s, keepSettings) ==
    [Fresh EXCEPT !.open = IF keepSettings THEN s.open
                           ELSE [s.open EXCEPT !.generateIR = FALSE, !.generateEwasm = FALSE],
                  !.importedSources = s.importedSources,
                  !.guarded = IF keepSettings THEN s.guarded ELSE @,
                  !.stopAfter = IF keepSettings THEN s.stopAfter ELSE @]
Reset(keep) == Ends([s |-> ResetFields(stack, keep), r |-> "none"])

Next == \/ SetSources \/ ImportASTs \/ CallParse \/ CallAnalyze \/ CallParseAndAnalyze
        \/ CallCompile \/ SetGuarded \/ SetOpen
        \/ \E keep \in BOOLEAN : Reset(keep)

Spec == Init /\ [][Next]_vars
-----------------------------------------------------------------------------
\* Type invariant of the compiler stack.
TypeOK == program \in Programs /\ stack \in Fields /\ result \in Results

\* Bytecode of a contract holds the bytecode of the contracts it creates: a
\* failed or repeated compile never leaves one without the others, as long as
\* the legacy pipeline is used.
ObjectsComplete ==
    ~stack.guarded.viaIR =>
        \A n \in stack.object : Needs(n) \cap program.deployable \subseteq stack.object

\* Code generation follows the contracts a requested one creates into sources
\* that were not requested, and a stack may be used again after reset: still
\* code is only ever kept for contracts of sources that were parsed and
\* analysed without an error, since m_sourceOrder follows the imports.
ObjectsAnalysed ==
    LET generated == stack.object \cup stack.yulIR \cup stack.ewasm
    IN generated # {} =>
         /\ stack.stackState >= AnalysisPerformed
         /\ ~stack.hasError
         /\ generated \subseteq stack.sourceOrder \ stack.withoutAst

\* Reaching CompilationSuccessful means that every contract found in the sources
\* that is requested by then has each kind of code that was asked for, if it can
\* be deployed.  The loop of compile looks for them in m_sourceOrder, which
\* analyze made of the requests of that time: when these were changed in
\* between, only the contracts of the analysed sources are sure to be there.
Requested(s) == {n \in s.contracts : IsRequestedContract(s, n)} \cap program.deployable
SuccessIsComplete ==
    [][stack.stackState # CompilationSuccessful /\ stack'.stackState = CompilationSuccessful =>
          LET targets == IF stack'.analysedFor = stack'.open.requestedContractNames
                           THEN Requested(stack') ELSE Requested(stack') \cap stack'.sourceOrder
          IN /\ stack'.open.generateEvmBytecode => targets \subseteq stack'.object
             /\ stack'.open.generateEwasm => targets \subseteq stack'.ewasm
             /\ NeedsIR(stack') => targets \subseteq stack'.yulIR]_vars

\* setRequestedContractNames promises that without names "every contract found in
\* the supplied sources is compiled".  It may be called at any time: the code
\* violates this if the names are cleared after analyze.
EveryContractCompiled ==
    [][/\ stack.stackState # CompilationSuccessful /\ stack'.stackState = CompilationSuccessful
       /\ stack'.open.requestedContractNames = {} /\ stack'.open.generateEvmBytecode
       => stack'.contracts \cap program.deployable \subseteq stack'.object]_vars
=============================================================================
