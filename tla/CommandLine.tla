---------------------------- MODULE CommandLine ----------------------------
(***************************************************************************)
(* The command line compiler, solppc/CommandLineInterface and main: a      *)
(* process that reads its arguments and input files, compiles with a       *)
(* CompilerStack, assembles or links, writes what was asked for and leaves *)
(* an exit code.  Runs follow each other on the same disk, so that object  *)
(* files written by one run are linked by a later one.                     *)
(***************************************************************************)
EXTENDS CompilerStack

CONSTANTS
    Invocations,    \* the command lines that may be given
    Libraries,      \* libraries contracts may refer to, by their qualified names
    SimpleName,     \* the name of each without the source it is in
    Underscored,    \* those with a `_' in their qualified name
    LibraryUses,    \* the libraries each contract refers to
    MaxRuns         \* bound: the number of processes on one disk

LibraryNames == Libraries \cup {SimpleName[l] : l \in Libraries}

ASSUME LibrariesAssumption ==
    /\ Underscored \subseteq Libraries
    /\ LibraryUses \in [Names -> SUBSET Libraries]
    /\ MaxRuns \in Nat

\* The exclusive modes; none of them is plain compilation.
Modes == {"standard-json", "link", "assemble", "import-ast"}

\* What may be asked for of every contract, in the order of output: "asm"
\* stands for the options that need code, "bin" for the object files, and
\* "abi" for the options that need the analysis only.
OutputOrder == <<"asm", "bin", "bin-runtime", "ir", "ewasm", "abi">>
Outputs == ToSet(OutputOrder)
NeedsCode == {"asm", "bin", "bin-runtime", "ir", "ewasm"}
ConflictingWithStopAfter == {"asm", "bin", "ir", "ewasm"}

Invocation == [ program       : Programs,
                valid         : BOOLEAN,           \* boost accepts the options
                validValues   : BOOLEAN,           \* so do the tests in processInput
                modes         : SUBSET Modes,
                files         : SUBSET Names,
                absent        : SUBSET Names,      \* files that do not exist
                ignoreMissing : BOOLEAN,
                readable      : SUBSET Names,      \* imports within the allowed directories
                basePath      : BOOLEAN,
                stopAfter     : {Parsed, CompilationSuccessful},
                errorRecovery : BOOLEAN,
                viaIR         : BOOLEAN,
                outputs       : SUBSET Outputs,
                ast           : SUBSET {"ast-json", "ast-compact-json"},
                combined      : SUBSET {"abi", "bin", "ast"},
                libraries     : SUBSET LibraryNames,
                outputDir     : BOOLEAN,
                overwrite     : BOOLEAN ]

ASSUME InvocationsAssumption == Invocations \subseteq Invocation

VARIABLES
    args,        \* m_args
    process,     \* the state of the process
    disk,        \* the output directory
    runs         \* how many processes there were

cvars == <<program, stack, result, args, process, disk, runs>>

(***************************************************************************)
(* What matters of an object file: the libraries its code holds a          *)
(* placeholder of, those named behind the code by the lines that say what  *)
(* the placeholders stand for, and those whose address lacks its last byte.*)
(***************************************************************************)
Contents == [refs : SUBSET Libraries, hints : SUBSET Libraries, cut : SUBSET Libraries]
Nothing == [refs |-> {}, hints |-> {}, cut |-> {}]

(***************************************************************************)
(* The fields of the process: its phase, the sources it has under a name   *)
(* the stack knows and the names it made up for imports (m_sourceCodes),   *)
(* the object files linked in memory, what is still to be written, the     *)
(* outputs made and the members of the combined one, the files whose end   *)
(* was lost when they were closed (nobody looks), m_error, the exit code.  *)
(***************************************************************************)
Process == [phase |-> "arguments", sourceCodes |-> {}, foreign |-> {}, todo |-> {},
            linked |-> [n \in Names |-> Nothing], delivered |-> {}, members |-> {}, lost |-> {},
            unwritten |-> FALSE, error |-> FALSE, exit |-> 0]

(***************************************************************************)
(* A file is a pair of a name and a kind.  Of damaged ones only a part is  *)
(* there, maybe none, and the model knows nothing of what they hold.  The  *)
(* last two fields are in no file: they remember the names given when an   *)
(* object file was compiled and in the runs that linked it.                *)
(***************************************************************************)
EmptyDisk == [files |-> {}, damaged |-> {}, object |-> [n \in Names |-> Nothing],
              compiledWith |-> [n \in Names |-> {}], linkedWith |-> [n \in Names |-> {}]]

\* Before the first process there is none; its exit code does not matter.
CInit ==
    /\ args \in Invocations
    /\ program = args.program
    /\ stack = Fresh /\ result = "none"
    /\ process = [Process EXCEPT !.phase = "exited"]
    /\ disk = EmptyDisk
    /\ runs = 0

In(phase) == process.phase = phase
Exit(code) == process' = [process EXCEPT !.phase = "exited", !.exit = code]

\* A command line is given: the sources are those of the first one.
Run ==
    /\ In("exited") /\ runs < MaxRuns
    /\ args' \in {a \in Invocations : a.program = program}
    /\ process' = Process
    /\ stack' = Fresh /\ result' = "none"
    /\ runs' = runs + 1
    /\ UNCHANGED <<program, disk>>
-----------------------------------------------------------------------------
\* parseArguments; help and version also return false.
ParseArguments ==
    /\ In("arguments")
    /\ IF \/ ~args.valid
          \/ args.stopAfter = Parsed /\ args.outputs \cap ConflictingWithStopAfter # {}
         THEN Exit(1)
         ELSE process' = [process EXCEPT !.phase = "process"]
    /\ UNCHANGED <<program, stack, result, args, disk, runs>>

\* The files named on the command line; in link mode these are object files.
Exists(n) == n \notin args.absent /\ ("link" \in args.modes => <<n, "bin">> \in disk.files)

\* parseLibraryOption, and the other options whose values are tested after the
\* files were read.
RefusesValues == ~args.validValues

\* The first part of processInput: the modes, Standard JSON (whose errors are
\* in the answer and not in the exit code), the input files, the libraries.
ReadInputFiles ==
    LET found == {n \in args.files : Exists(n)} IN
    /\ In("process")
    /\ IF Cardinality(args.modes) > 1 THEN Exit(1)
       ELSE IF "standard-json" \in args.modes
         THEN Exit(IF Cardinality(args.files) > 1 \/ found # args.files THEN 1 ELSE 0)
       ELSE IF \/ found # args.files /\ ~args.ignoreMissing
               \/ found = {}
               \/ RefusesValues
         THEN Exit(1)
       ELSE process' = [process EXCEPT
               !.sourceCodes = found,
               !.phase = IF "link" \in args.modes THEN "link"
                         ELSE IF "assemble" \in args.modes THEN "assemble" ELSE "compile"]
    /\ UNCHANGED <<program, stack, result, args, disk, runs>>

\* Options that are not for assembly mode.
RefusedInAssembly == args.outputDir \/ args.combined # {}

\* assemble: all files are parsed before the first is printed.
Assemble ==
    /\ In("assemble")
    /\ Exit(IF RefusedInAssembly \/ process.sourceCodes \cap program.unparsable # {} THEN 1 ELSE 0)
    /\ UNCHANGED <<program, stack, result, args, disk, runs>>

\* Mutant: the lines of all libraries given are removed, but placeholders are
\* only replaced in the first file.
LinkFirstOnly ==
    LET first == CHOOSE n \in process.sourceCodes : TRUE IN
    /\ In("link")
    /\ process' = [process EXCEPT
          !.phase = "write", !.todo = process.sourceCodes,
          !.linked = [n \in Names |-> [disk.object[n] EXCEPT
                         !.refs = IF n = first THEN @ \ args.libraries ELSE @,
                         !.hints = @ \ args.libraries]]]
    /\ UNCHANGED <<program, stack, result, args, disk, runs>>

\* The placeholders of the names that were given are replaced, and their lines
\* removed.
Linked(contents) == [refs  |-> contents.refs \ args.libraries,
                     hints |-> contents.hints \ args.libraries,
                     cut   |-> contents.cut]

\* link: every `_' of a file has to start a placeholder, also those in the lines
\* behind the code, and what is left of a damaged file may end within one.
\* Placeholders are compared with those of the names as they were given; the
\* others stay.
Link ==
    /\ In("link")
    /\ \/ /\ \E n \in process.sourceCodes :
                \/ disk.object[n].hints \cap Underscored # {}
                \/ <<n, "bin">> \in disk.damaged
          /\ Exit(1)
       \/ /\ \A n \in process.sourceCodes : disk.object[n].hints \cap Underscored = {}
          /\ process' = [process EXCEPT
                !.phase = "write", !.todo = process.sourceCodes,
                !.linked = [n \in Names |-> Linked(disk.object[n])]]
    /\ UNCHANGED <<program, stack, result, args, disk, runs>>

\* The disk with an output file of which only a part was written: the stream
\* empties the file when it opens it.
Truncated(file) ==
    [disk EXCEPT !.files = @ \cup {file}, !.damaged = @ \cup {file},
                 !.object = IF file[2] = "bin" THEN [@ EXCEPT ![file[1]] = Nothing] ELSE @]

\* writeLinkedFiles, in any order; a file that cannot be opened or written ends
\* the loop, and the exit code is still that of success.  The stream is closed
\* behind the test.
WriteLinkedFile ==
    /\ In("write")
    /\ IF process.todo = {}
         THEN Exit(0) /\ UNCHANGED disk
         ELSE \E n \in process.todo :
              \/ /\ disk' = [disk EXCEPT !.object[n] = process.linked[n],
                                         !.linkedWith[n] = @ \cup args.libraries]
                 /\ process' = [process EXCEPT !.todo = @ \ {n}]
              \/ /\ disk' = Truncated(<<n, "bin">>)
                 /\ process' = [process EXCEPT !.todo = @ \ {n}, !.lost = @ \cup {<<n, "bin">>}]
              \/ /\ disk' \in {disk, Truncated(<<n, "bin">>)}
                 /\ process' = [process EXCEPT !.phase = "exited", !.unwritten = TRUE]
    /\ UNCHANGED <<program, stack, result, args, runs>>
-----------------------------------------------------------------------------
(***************************************************************************)
(* Compilation.                                                            *)
(***************************************************************************)
NewStack ==
    [Fresh EXCEPT
       !.readable = args.readable,
       !.guarded = [viaIR |-> args.viaIR, libraries |-> args.libraries # {}],
       !.open = [DefaultOpen EXCEPT !.generateIR = "ir" \in args.outputs,
                                    !.generateEwasm = "ewasm" \in args.outputs,
                                    !.parserErrorRecovery = args.errorRecovery /\ "import-ast" \notin args.modes]]

\* parseAstFromInput, importASTs and analyze; errors of any of them end the run.
Imported ==
    LET s == [NewStack EXCEPT !.sources = process.sourceCodes, !.contracts = process.sourceCodes,
                              !.stackState = ParsedAndImported, !.importedSources = TRUE]
    IN IF (program.unparsable \cup WithMissingImports(process.sourceCodes)) \cap process.sourceCodes # {}
         THEN Throw(s) ELSE Analyze(s)

\* The read callback files what it delivers under the path it read, which is the
\* name the stack uses unless there is a base path.
FileReader(p, read) ==
    IF args.basePath THEN [p EXCEPT !.foreign = read] ELSE [p EXCEPT !.sourceCodes = @ \cup read]

\* The rest of processInput.
CompileInput ==
    LET i == Imported
        o == IF "import-ast" \in args.modes
               THEN IF i.r = "true" THEN Compile(i.s, args.stopAfter) ELSE Throw(i.s)
               ELSE Compile([NewStack EXCEPT !.sources = process.sourceCodes,
                                             !.stackState = SourcesSet], args.stopAfter)
        read == o.s.sources \ process.sourceCodes
    IN /\ In("compile")
       /\ stack' = o.s /\ result' = o.r
       /\ IF o.r = "true" \/ (o.r = "false" /\ args.errorRecovery)
            THEN process' = FileReader([process EXCEPT !.phase = "combined"], read)
            ELSE Exit(1)
       /\ UNCHANGED <<program, args, disk, runs>>

\* Mutant: a file that is refused or cannot be written is reported only.
CreateFileQuietly(file, next) ==
    /\ \/ process' = next /\ UNCHANGED disk
       \/ /\ process' = [next EXCEPT !.delivered = @ \cup {file}]
          /\ disk' = [disk EXCEPT !.files = @ \cup {file}]

\* LinkerObject::link: a library is found under its qualified or its simple name,
\* and 20 bytes of its address are copied.
FoundByStack(given) == {l \in Libraries : l \in given \/ SimpleName[l] \in given}
ObjectOf(n) ==
    LET found == FoundByStack(args.libraries)
        open == LibraryUses[n] \ found
    IN [refs |-> open, hints |-> open, cut |-> LibraryUses[n] \cap found]

\* The disk with a complete output file.
Stored(file) ==
    LET n == file[1]
        stored == [disk EXCEPT !.files = @ \cup {file}, !.damaged = @ \ {file}]
    IN IF file[2] # "bin" THEN stored
       ELSE [stored EXCEPT !.object[n] = ObjectOf(n), !.compiledWith[n] = args.libraries,
                           !.linkedWith[n] = {}]

\* createFile, or the standard output if there is no output directory.  A file
\* that is there already is refused or emptied; it may not open, an error may be
\* seen while it is written, or only come up when the stream is closed.
CreateFile(file, next) ==
    LET made == [next EXCEPT !.delivered = @ \cup {file}]
        opens == file \in disk.files => args.overwrite
    IN \/ ~args.outputDir /\ process' = made /\ UNCHANGED disk
       \/ args.outputDir /\ process' = [next EXCEPT !.error = TRUE] /\ UNCHANGED disk
       \/ /\ args.outputDir /\ opens
          /\ \/ process' = [next EXCEPT !.error = TRUE] /\ disk' = Truncated(file)
             \/ process' = [made EXCEPT !.lost = @ \cup {file}] /\ disk' = Truncated(file)
             \/ process' = made /\ disk' = Stored(file)

\* An exception in actOnInput is caught in main; a missing AST is dereferenced.
AstFails == process.foreign # {}
AstCrashes == process.sourceCodes \cap stack.withoutAst # {}
AnName == CHOOSE n \in Names : TRUE

\* handleCombinedJSON: the bytecode is left out unless compilation succeeded,
\* the interface is asked for whatever the stage.
HandleCombinedJSON ==
    LET successful == stack.stackState = CompilationSuccessful
        next == [process EXCEPT !.phase = "ast",
                                !.members = args.combined \ (IF successful THEN {} ELSE {"bin"})]
    IN
    /\ In("combined")
    /\ IF args.combined = {} THEN process' = [process EXCEPT !.phase = "ast"] /\ UNCHANGED disk
       ELSE IF \/ "abi" \in args.combined /\ stack.contracts # {} /\ stack.stackState < AnalysisPerformed
               \/ "ast" \in args.combined /\ AstFails
         THEN Exit(1) /\ UNCHANGED disk
       ELSE IF "ast" \in args.combined /\ AstCrashes
         THEN process' = [process EXCEPT !.phase = "crashed"] /\ UNCHANGED disk
       ELSE CreateFile(<<AnName, "combined">>, next)
    /\ UNCHANGED <<program, stack, result, args, runs>>

\* The loop over the contracts in outputCompilationResults, and what it does for
\* each of them: file f comes before file g.
Rank(output) == CHOOSE i \in DOMAIN OutputOrder : OutputOrder[i] = output
ComesBefore(f, g) == \/ Index(f[1]) < Index(g[1])
                     \/ f[1] = g[1] /\ Rank(f[2]) < Rank(g[2])

\* handleAst, and the end of the output for a compilation with errors.  Nothing
\* else looks at the options for ASTs, so that "ast-json" has no effect.  One
\* file stands for those of all sources.
HandleAst ==
    LET halted == /\ stack.stackState # CompilationSuccessful
                  /\ args.stopAfter = CompilationSuccessful
        next == [process EXCEPT !.phase = "output",
                                 !.todo = IF halted THEN {} ELSE stack.contracts \X args.outputs]
    IN /\ In("ast")
       /\ IF "ast-compact-json" \notin args.ast THEN process' = next /\ UNCHANGED disk
          ELSE IF AstFails THEN Exit(1) /\ UNCHANGED disk
          ELSE IF AstCrashes THEN process' = [process EXCEPT !.phase = "crashed"] /\ UNCHANGED disk
          ELSE CreateFile(<<AnName, "ast-compact-json">>, next)
       /\ UNCHANGED <<program, stack, result, args, runs>>

\* One of handleBytecode, handleIR, ... for one contract; the getters refuse to
\* run before the stage they need.
HandleOutput ==
    /\ In("output")
    /\ \E file \in process.todo :
       /\ \A f \in process.todo : ~ComesBefore(f, file)
       /\ IF stack.stackState < (IF file[2] \in NeedsCode THEN CompilationSuccessful ELSE AnalysisPerformed)
            THEN Exit(1) /\ UNCHANGED disk
            ELSE CreateFile(file, [process EXCEPT !.todo = @ \ {file}])
    /\ UNCHANGED <<program, stack, result, args, runs>>

\* The end of actOnInput and main.
Finish ==
    /\ In("output")
    /\ process.todo = {}
    /\ Exit(IF process.error THEN 1 ELSE 0)
    /\ UNCHANGED <<program, stack, result, args, disk, runs>>

CNext == \/ Run \/ ParseArguments \/ ReadInputFiles \/ Assemble \/ Link \/ WriteLinkedFile
         \/ CompileInput \/ HandleCombinedJSON \/ HandleAst \/ HandleOutput \/ Finish

CSpec == CInit /\ [][CNext]_cvars
-----------------------------------------------------------------------------
Exited == In("exited") /\ runs > 0
Compiled == Exited /\ args.valid /\ result # "none"

\* The exit code is computed from four places: false from the two halves of the
\* run, an exception and m_error.  Zero means that the program was compiled
\* without errors and that every output of every contract was written or
\* printed, unless the user asked to go on after errors.  Excepted are the option
\* for ASTs that no code looks at, bytecode in the combined output of a run that
\* is to stop before there is any, and what is lost when a file is closed.
\* When the program was compiled, another exit code means that a file was refused
\* or not written or that an output was asked for that cannot be had: one that
\* needs more stages than the user allowed, or ASTs when imports were read below
\* a base path.
ExitCodeTruthful ==
    Compiled =>
       /\ process.exit = 0 /\ ~args.errorRecovery =>
             /\ result = "true"
             /\ stack.contracts \X args.outputs \subseteq process.delivered
             /\ "ast-compact-json" \in args.ast => <<AnName, "ast-compact-json">> \in process.delivered
             /\ args.combined # {} =>
                   /\ <<AnName, "combined">> \in process.delivered
                   /\ args.combined \ {"bin"} \subseteq process.members
                   /\ process.members = args.combined \/ args.stopAfter = Parsed
             /\ args.outputDir => /\ process.delivered \subseteq disk.files
                                  /\ process.delivered \cap disk.damaged \subseteq process.lost
       /\ process.exit = 1 /\ result = "true" =>
             \/ process.error
             \/ args.stopAfter = Parsed /\ (args.outputs \cup args.combined) # {}
             \/ /\ args.basePath /\ process.foreign # {}
                /\ "ast-compact-json" \in args.ast \/ "ast" \in args.combined

\* Libraries may be given when a contract is compiled or to later runs that link
\* the object file, one at a time, with runs that fail or damage files in between.
\* An object file that was written completely refers to exactly the libraries
\* that neither the compiler found, under their qualified or simple names, nor a
\* later run was given under their qualified names, and its last lines name
\* exactly these; it has the whole addresses of those that were linked later, and
\* all but the last byte of the others.  A run that links files of this compiler
\* fails only if one of them names a library with a `_' or is damaged.
LinkedAsCompiled ==
    /\ \A n \in Names : <<n, "bin">> \in disk.files \ disk.damaged =>
          LET compiled == LibraryUses[n] \cap FoundByStack(disk.compiledWith[n])
              open == (LibraryUses[n] \ compiled) \ disk.linkedWith[n]
          IN disk.object[n] = [refs |-> open, hints |-> open, cut |-> compiled]
    /\ Exited /\ args.modes = {"link"} /\ process.sourceCodes # {} =>
          IF process.exit = 1
            THEN \E n \in process.sourceCodes :
                    disk.object[n].hints \cap Underscored # {} \/ <<n, "bin">> \in disk.damaged
            ELSE \/ process.unwritten
                 \/ \A n \in process.sourceCodes : disk.object[n].refs \cap args.libraries = {}

CompiledWithSuccess == Compiled /\ process.exit = 0 /\ ~args.errorRecovery

\* What follows is said by the help and by a comment, and violated by the code.
\* The help says of --ast-json: "AST of all source files in JSON format."  No code
\* looks at the option.
AstJsonDelivered ==
    CompiledWithSuccess => \A option \in args.ast : <<AnName, option>> \in process.delivered

\* The help says of --combined-json: "Output a single json document containing
\* the specified information."  Bytecode is left out when there is none yet.
CombinedJsonComplete ==
    CompiledWithSuccess /\ args.combined # {} => process.members = args.combined

\* The help says of -o: "creates one file per component and contract/file at the
\* specified directory".  What fails when a file is closed is not noticed.
FilesComplete ==
    CompiledWithSuccess /\ args.outputDir => process.delivered \cap disk.damaged = {}

\* LinkerObject::matchLibrary says: "If the user did not supply a fully qualified
\* library name, try to match only the simple library name".  link does not.
SimpleNamesLinked ==
    Exited /\ args.modes = {"link"} /\ process.exit = 0 /\ ~process.unwritten =>
        \A n \in process.sourceCodes :
            disk.object[n].refs \cap FoundByStack(args.libraries) = {}
=============================================================================
