------------------------- MODULE CommandLineProofs -------------------------
(***************************************************************************)
(* For every set of command lines: what the exit code says of what was     *)
(* compiled and written, and what complete object files hold that were     *)
(* compiled and linked by processes after one another.                     *)
(***************************************************************************)
EXTENDS CommandLine, CompilerStackProofs

-----------------------------------------------------------------------------
(***************************************************************************)
(* The inductive invariant: the types, ...                                 *)
(***************************************************************************)
Phases == {"exited", "arguments", "process", "assemble", "link", "write", "compile",
           "combined", "ast", "output", "crashed"}
Files == (Names \cup {AnName}) \X (Outputs \cup {"ast-compact-json", "combined"})
Objects == [Names -> Contents]
Given == [Names -> SUBSET LibraryNames]

Processes == [ phase : Phases, sourceCodes : SUBSET Names, foreign : SUBSET Names,
               todo : SUBSET (Names \cup Files), linked : Objects,
               delivered : SUBSET Files, members : SUBSET {"abi", "bin", "ast"}, lost : SUBSET Files,
               unwritten : BOOLEAN, error : BOOLEAN, exit : {0, 1} ]
Disks == [ files : SUBSET Files, damaged : SUBSET Files, object : Objects,
           compiledWith : Given, linkedWith : Given ]

CTypeOK ==
    /\ program \in Programs /\ args \in Invocations
    /\ stack \in Fields
    /\ process \in Processes /\ disk \in Disks

\* ... the object files on the disk that are complete, ...
Expected(n, compiledWith, linkedWith) ==
    LET compiled == LibraryUses[n] \cap FoundByStack(compiledWith)
        open == (LibraryUses[n] \ compiled) \ linkedWith
    IN [refs |-> open, hints |-> open, cut |-> compiled]

FilesSound ==
    \A n \in Names : <<n, "bin">> \in disk.files \ disk.damaged =>
        disk.object[n] = Expected(n, disk.compiledWith[n], disk.linkedWith[n])

\* ... those being linked, of which the written ones need no library that was
\* given, ...
Refused == \E n \in process.sourceCodes :
              disk.object[n].hints \cap Underscored # {} \/ <<n, "bin">> \in disk.damaged
NoneLeft(files) == \A n \in files : disk.object[n].refs \cap args.libraries = {}

LinkSound ==
    /\ In("arguments") \/ In("process") => process.sourceCodes = {} /\ process.exit = 0
    /\ In("link") \/ In("write") => process.exit = 0
    /\ In("write") =>
          /\ process.todo \subseteq Names
          /\ \A n \in process.todo : process.linked[n] = Linked(disk.object[n])
          /\ NoneLeft(process.sourceCodes \ process.todo)
    /\ In("assemble") \/ In("compile") \/ In("combined") \/ In("ast") \/ In("output")
          => "link" \notin args.modes
    /\ In("exited") /\ args.modes = {"link"} /\ process.sourceCodes # {} =>
          IF process.exit = 1 THEN Refused
                              ELSE process.unwritten \/ NoneLeft(process.sourceCodes)

\* ... the result of the compilation, ...
ResultSound ==
    /\ In("combined") \/ In("ast") \/ In("output") =>
          result = "true" \/ (result = "false" /\ args.errorRecovery)
    /\ In("arguments") \/ In("process") \/ In("assemble") \/ In("link") \/ In("write") \/ In("compile")
          => result = "none" /\ process.delivered = {}
    /\ result = "true" /\ args.stopAfter = CompilationSuccessful =>
          stack.stackState = CompilationSuccessful
    /\ process.foreign # {} => args.basePath

\* ... and the outputs that were made or refused so far, which are on the disk
\* unless their end was lost.
Stands(p, d) ==
    args.outputDir => \/ p.error
                      \/ /\ p.delivered \subseteq d.files
                         /\ p.delivered \cap d.damaged \subseteq p.lost
CombinedMade ==
    process.error \/ args.combined = {} \/ <<AnName, "combined">> \in process.delivered
AstMade ==
    process.error \/ "ast-compact-json" \notin args.ast \/ <<AnName, "ast-compact-json">> \in process.delivered
MembersMade ==
    result = "true" /\ args.combined # {} =>
        /\ args.combined \ {"bin"} \subseteq process.members
        /\ process.members = args.combined \/ args.stopAfter = Parsed

DeliveredSound ==
    /\ In("combined") \/ In("ast") \/ In("output") => Stands(process, disk)
    /\ In("ast") \/ In("output") => CombinedMade /\ MembersMade
    /\ In("output") =>
          /\ AstMade
          /\ process.todo \subseteq stack.contracts \X args.outputs
          /\ result = "true" =>
                process.error \/ stack.contracts \X args.outputs \subseteq process.delivered \cup process.todo

CInv == CTypeOK /\ FilesSound /\ LinkSound /\ ResultSound /\ DeliveredSound /\ ExitCodeTruthful
-----------------------------------------------------------------------------
(***************************************************************************)
(* The stack that the process drives.                                      *)
(***************************************************************************)
\* The arguments have the fields of an invocation.
LEMMA ArgsType ==
  ASSUME NEW a \in Invocations
  PROVE  /\ a.program \in Programs
         /\ a.modes \in SUBSET Modes
         /\ a.files \in SUBSET Names
         /\ a.readable \in SUBSET Names
         /\ a.stopAfter \in {Parsed, CompilationSuccessful}
         /\ a.errorRecovery \in BOOLEAN /\ a.viaIR \in BOOLEAN
         /\ a.outputs \in SUBSET Outputs
         /\ a.combined \in SUBSET {"abi", "bin", "ast"}
         /\ a.libraries \in SUBSET LibraryNames
         /\ a.basePath \in BOOLEAN
         /\ a.outputDir \in BOOLEAN /\ a.overwrite \in BOOLEAN
BY InvocationsAssumption DEF Invocation

\* compile says "true" only when it got as far as it was asked to.
LEMMA CompileReaches ==
  ASSUME program \in Programs, NEW s \in Fields, Sound(s),
         Compile(s, CompilationSuccessful).r = "true"
  PROVE  Compile(s, CompilationSuccessful).s.stackState = CompilationSuccessful
<1> DEFINE stop == CompilationSuccessful
           s0 == [s EXCEPT !.stopAfter = stop]
           a  == IF s.stackState < AnalysisPerformed THEN ParseAndAnalyze(s0, stop)
                                                     ELSE Return(s0, TRUE)
           e == [Generate(a.s) EXCEPT !.errors = TRUE]
           c == [Generate(a.s) EXCEPT !.stackState = CompilationSuccessful]
           o == Compile(s, stop)
<1>1. stop \in States
  BY Stops
<1>2. s0 \in Fields /\ Sound(s0)
  BY <1>1, StopAfterSound
<1>3. \/ o = a /\ a.r # "true"
      \/ o = Return(a.s, TRUE) /\ a.s.stackState >= stop
      \/ o = Throw(a.s)
      \/ o = Return(e, FALSE)
      \/ o = Return(c, TRUE) /\ ~a.s.hasError
  BY DEF Compile
<1> HIDE DEF s0
<1>4. a.s \in Fields
  BY <1>1, <1>2, ParseAndAnalyzeSound DEF SoundOutcome, Return
<1>5. o.r = "true"
  OBVIOUS
<1> SUFFICES o.s.stackState = CompilationSuccessful
  OBVIOUS
<1> HIDE DEF a, o
<1>6. CASE o = Return(a.s, TRUE) /\ a.s.stackState >= stop
  <2>1. a.s.stackState \in 0..5
    BY <1>4 DEF Fields, States
  <2>2. o.s = a.s
    BY <1>6 DEF Return
  <2>3. a.s.stackState >= 5
    BY <1>6 DEF CompilationSuccessful
  <2>4. a.s.stackState = 5
    BY <2>1, <2>3
  <2> QED BY <2>2, <2>4 DEF CompilationSuccessful
<1>7. CASE o = Return(c, TRUE)
  <2> DEFINE g == Generate(a.s)
  <2>1. g.stackState = a.s.stackState /\ [g EXCEPT !.stackState = CompilationSuccessful].stackState = CompilationSuccessful
    BY <1>4 DEF Generate, Fields
  <2>2. c.stackState = CompilationSuccessful
    BY <2>1
  <2> HIDE DEF c
  <2> QED BY <1>7, <2>2 DEF Return
<1>8. CASE o = Throw(a.s) \/ o = Return(e, FALSE)
  <2> HIDE DEF e
  <2> QED BY <1>5, <1>8 DEF Throw, Return
<1> HIDE DEF c, e
<1> QED BY <1>3, <1>5, <1>6, <1>7, <1>8

\* The stack with the options of the command line.
LEMMA NewStackFields ==
  ASSUME args \in Invocations
  PROVE  /\ NewStack \in Fields
         /\ NewStack.stackState = Empty /\ NewStack.hasError = FALSE /\ NewStack.withoutAst = {}
         /\ NewStack.contracts = {}
         /\ NoCode(NewStack)
<1> DEFINE libraries == args.libraries # {}
           ir == "ir" \in args.outputs
           ewasm == "ewasm" \in args.outputs
           recovery == args.errorRecovery /\ "import-ast" \notin args.modes
           guarded == [viaIR |-> args.viaIR, libraries |-> libraries]
           open == [DefaultOpen EXCEPT !.generateIR = ir, !.generateEwasm = ewasm,
                                       !.parserErrorRecovery = recovery]
           s == [Fresh EXCEPT !.readable = args.readable, !.guarded = guarded, !.open = open]
<1>1. NewStack = s
  BY DEF NewStack
<1>2. libraries \in BOOLEAN /\ ir \in BOOLEAN /\ ewasm \in BOOLEAN /\ recovery \in BOOLEAN
  OBVIOUS
<1> HIDE DEF libraries, ir, ewasm, recovery
<1>3. guarded \in GuardedSettings
  BY <1>2, ArgsType DEF GuardedSettings
<1>4. open \in OpenSettings
  BY <1>2 DEF OpenSettings, DefaultOpen
<1> HIDE DEF guarded, open
<1>5. s \in Fields
  BY <1>3, <1>4, FreshSound, ArgsType DEF Fields
<1>6. s.stackState = Empty /\ s.hasError = FALSE /\ s.withoutAst = {} /\ s.contracts = {} /\ NoCode(s)
  BY DEF Fresh, NoCode
<1> QED BY <1>1, <1>5, <1>6

\* setSources, and importASTs when all that is imported is there.
LEMMA GivenSources ==
  ASSUME args \in Invocations, NEW sources \in SUBSET Names
  PROVE  LET s == [NewStack EXCEPT !.sources = sources, !.stackState = SourcesSet]
             t == [NewStack EXCEPT !.sources = sources, !.contracts = sources,
                                   !.stackState = ParsedAndImported, !.importedSources = TRUE]
         IN /\ s \in Fields /\ Sound(s)
            /\ t \in Fields /\ (program.unparsable \cap sources = {} => Sound(t))
<1> DEFINE n == NewStack
           s == [n EXCEPT !.sources = sources, !.stackState = SourcesSet]
           t == [n EXCEPT !.sources = sources, !.contracts = sources,
                          !.stackState = ParsedAndImported, !.importedSources = TRUE]
<1>1. n \in Fields /\ n.stackState = Empty /\ n.hasError = FALSE /\ n.withoutAst = {}
      /\ n.contracts = {} /\ NoCode(n)
  BY NewStackFields
<1> HIDE DEF n
<1>2. SourcesSet \in States /\ ParsedAndImported \in States
  BY DEF SourcesSet, ParsedAndImported, States
<1>3. s \in Fields /\ t \in Fields
  BY <1>1, <1>2 DEF Fields
<1>4. /\ s.stackState = SourcesSet /\ s.hasError = FALSE /\ s.withoutAst = {} /\ NoCode(s) /\ s.sources = sources
      /\ s.contracts = {} /\ t.contracts = sources
      /\ t.stackState = ParsedAndImported /\ t.hasError = FALSE /\ t.withoutAst = {} /\ NoCode(t)
      /\ t.sources = sources
  BY <1>1 DEF Fields, NoCode
<1> HIDE DEF s, t
<1>5. Sound(s) /\ (program.unparsable \cap sources = {} => Sound(t))
  BY <1>4
     DEF Sound, AstSound, OrderSound, CodeSound, NoCode, Empty, SourcesSet, ParsedAndImported, AnalysisPerformed
<1> QED BY <1>3, <1>5 DEF s, t, n

\* Whatever the mode, what comes out of the compiler stack has its type, and if
\* it says "true" it got as far as it was asked to.
LEMMA CompileInputOutcome ==
  ASSUME CTypeOK, CompileInput
  PROVE  /\ stack' \in Fields /\ result' \in Results
         /\ result' = "true" /\ args.stopAfter = CompilationSuccessful =>
               stack'.stackState = CompilationSuccessful
<1> DEFINE i == Imported
           s == [NewStack EXCEPT !.sources = process.sourceCodes, !.stackState = SourcesSet]
           t == [NewStack EXCEPT !.sources = process.sourceCodes, !.contracts = process.sourceCodes,
                                 !.stackState = ParsedAndImported, !.importedSources = TRUE]
<1>1. args \in Invocations /\ process.sourceCodes \in SUBSET Names /\ program \in Programs
  BY DEF CTypeOK, Processes
<1>2. \/ stack' = Compile(i.s, args.stopAfter).s /\ result' = Compile(i.s, args.stopAfter).r /\ i.r = "true"
      \/ stack' = Throw(i.s).s /\ result' = Throw(i.s).r
      \/ stack' = Compile(s, args.stopAfter).s /\ result' = Compile(s, args.stopAfter).r
  BY DEF CompileInput
<1>3. /\ s \in Fields /\ Sound(s)
      /\ t \in Fields /\ (program.unparsable \cap process.sourceCodes = {} => Sound(t))
  BY <1>1, GivenSources
<1>4. i = Throw(t) \/ (i = Analyze(t) /\ program.unparsable \cap process.sourceCodes = {})
  BY DEF Imported
<1> HIDE DEF i, s, t
<1>5. i.s \in Fields /\ (i.r = "true" => Sound(i.s))
  BY <1>1, <1>3, <1>4, AnalyzeSound DEF SoundOutcome, Throw
<1>6. args.stopAfter \in {Parsed, CompilationSuccessful} /\ args.stopAfter \in States
  BY <1>1, ArgsType, Stops
<1>7. ASSUME NEW c \in Fields, Sound(c),
             stack' = Compile(c, args.stopAfter).s, result' = Compile(c, args.stopAfter).r
      PROVE  /\ stack' \in Fields /\ result' \in Results
             /\ result' = "true" /\ args.stopAfter = CompilationSuccessful =>
                   stack'.stackState = CompilationSuccessful
  BY <1>1, <1>6, <1>7, CompileSound, CompileReaches DEF SoundOutcome
<1>8. ASSUME stack' = Throw(i.s).s, result' = Throw(i.s).r
      PROVE  stack' \in Fields /\ result' \in Results /\ result' # "true"
  BY <1>5, <1>8 DEF Throw, Results
<1> QED BY <1>2, <1>3, <1>5, <1>7, <1>8
-----------------------------------------------------------------------------
(***************************************************************************)
(* The steps of a process.                                                 *)
(***************************************************************************)
\* The end of a process, and a change of its phase.
LEMMA ExitEffect ==
  ASSUME process \in Processes, NEW code \in {0, 1}, Exit(code)
  PROVE  /\ process' \in Processes /\ process'.phase = "exited" /\ process'.exit = code
         /\ process'.sourceCodes = process.sourceCodes /\ process'.foreign = process.foreign
         /\ process'.delivered = process.delivered /\ process'.error = process.error
         /\ process'.unwritten = process.unwritten /\ process'.members = process.members
         /\ process'.lost = process.lost
BY DEF Exit, Processes, Phases

LEMMA PhaseEffect ==
  ASSUME process \in Processes, NEW x \in Phases
  PROVE  LET p == [process EXCEPT !.phase = x] IN
         /\ p \in Processes /\ p.phase = x /\ p.exit = process.exit
         /\ p.sourceCodes = process.sourceCodes /\ p.foreign = process.foreign
         /\ p.delivered = process.delivered /\ p.error = process.error
         /\ p.unwritten = process.unwritten /\ p.todo = process.todo
         /\ p.linked = process.linked /\ p.members = process.members /\ p.lost = process.lost
BY DEF Processes

\* The disk behind a write that was cut short or was complete.
LEMMA TruncatedEffect ==
  ASSUME disk \in Disks, FilesSound, NEW file \in Files
  PROVE  LET d == Truncated(file) IN
         /\ d \in Disks
         /\ d.files = disk.files \cup {file} /\ d.damaged = disk.damaged \cup {file}
         /\ d.compiledWith = disk.compiledWith /\ d.linkedWith = disk.linkedWith
         /\ \A n \in Names : d.object[n] = IF file = <<n, "bin">> THEN Nothing ELSE disk.object[n]
         /\ \A n \in Names : <<n, "bin">> \in d.files \ d.damaged =>
                d.object[n] = Expected(n, d.compiledWith[n], d.linkedWith[n])
<1> DEFINE m == file[1]
           object == IF file[2] = "bin" THEN [disk.object EXCEPT ![m] = Nothing] ELSE disk.object
           files == disk.files \cup {file}
           damaged == disk.damaged \cup {file}
           d == [disk EXCEPT !.files = files, !.damaged = damaged, !.object = object]
<1>1. Truncated(file) = d
  BY DEF Truncated, Disks
<1>2. disk.object \in Objects /\ disk.files \in SUBSET Files /\ disk.damaged \in SUBSET Files
  BY DEF Disks
<1>3. object \in Objects /\ files \in SUBSET Files /\ damaged \in SUBSET Files
  BY <1>2 DEF Objects, Contents, Nothing
<1>4. file = <<file[1], file[2]>>
  BY DEF Files
<1>5. ASSUME NEW n \in Names
      PROVE  object[n] = IF file = <<n, "bin">> THEN Nothing ELSE disk.object[n]
  BY <1>2, <1>4 DEF Objects
<1> HIDE DEF object, files, damaged
<1>6. /\ d \in Disks /\ d.files = files /\ d.damaged = damaged /\ d.object = object
      /\ d.compiledWith = disk.compiledWith /\ d.linkedWith = disk.linkedWith
  BY <1>3 DEF Disks
<1> HIDE DEF d
<1>7. ASSUME NEW n \in Names, <<n, "bin">> \in d.files \ d.damaged
      PROVE  d.object[n] = Expected(n, d.compiledWith[n], d.linkedWith[n])
  <2>1. file # <<n, "bin">> /\ <<n, "bin">> \in disk.files \ disk.damaged
    BY <1>6, <1>7 DEF files, damaged
  <2> QED BY <1>5, <1>6, <2>1 DEF FilesSound
<1> QED BY <1>1, <1>5, <1>6, <1>7 DEF files, damaged

LEMMA StoredEffect ==
  ASSUME disk \in Disks, FilesSound, args \in Invocations, NEW file \in Files
  PROVE  LET d == Stored(file) IN
         /\ d \in Disks
         /\ d.files = disk.files \cup {file} /\ d.damaged = disk.damaged \ {file}
         /\ \A n \in Names : <<n, "bin">> \in d.files \ d.damaged =>
                d.object[n] = Expected(n, d.compiledWith[n], d.linkedWith[n])
<1> DEFINE m == file[1]
           libraries == args.libraries
           made == ObjectOf(m)
           files == disk.files \cup {file}
           damaged == disk.damaged \ {file}
           object == [disk.object EXCEPT ![m] = made]
           compiledWith == [disk.compiledWith EXCEPT ![m] = libraries]
           linkedWith == [disk.linkedWith EXCEPT ![m] = {}]
           d == [disk EXCEPT !.files = files, !.damaged = damaged]
           e == [disk EXCEPT !.files = files, !.damaged = damaged, !.object = object,
                             !.compiledWith = compiledWith, !.linkedWith = linkedWith]
<1>1. Stored(file) = IF file[2] # "bin" THEN d ELSE e
  BY DEF Stored, Disks
<1>2. /\ disk.object \in Objects /\ disk.compiledWith \in Given /\ disk.linkedWith \in Given
      /\ files \in SUBSET Files /\ damaged \in SUBSET Files
  BY DEF Disks
<1>3. file = <<file[1], file[2]>>
  BY DEF Files
<1>4. CASE file[2] # "bin"
  <2> HIDE DEF files, damaged
  <2>1. /\ d \in Disks /\ d.files = files /\ d.damaged = damaged /\ d.object = disk.object
        /\ d.compiledWith = disk.compiledWith /\ d.linkedWith = disk.linkedWith
    BY <1>2 DEF Disks
  <2> HIDE DEF d
  <2>2. ASSUME NEW n \in Names, <<n, "bin">> \in d.files \ d.damaged
        PROVE  d.object[n] = Expected(n, d.compiledWith[n], d.linkedWith[n])
    <3>1. <<n, "bin">> \in disk.files \ disk.damaged
      BY <1>4, <2>1, <2>2 DEF files, damaged
    <3> QED BY <2>1, <3>1 DEF FilesSound
  <2> QED BY <1>1, <1>4, <2>1, <2>2 DEF files, damaged
<1>5. CASE file[2] = "bin"
  <2>1. libraries \in SUBSET LibraryNames
    BY ArgsType
  <2>2. m \in Names => made \in Contents /\ made = Expected(m, libraries, {})
    BY LibrariesAssumption DEF ObjectOf, Expected, Contents, FoundByStack
  <2> HIDE DEF made, libraries
  <2>3. object \in Objects /\ compiledWith \in Given /\ linkedWith \in Given
    BY <1>2, <2>1, <2>2 DEF Objects, Given
  <2>4. ASSUME NEW n \in Names
        PROVE  /\ object[n] = IF n = m THEN made ELSE disk.object[n]
               /\ compiledWith[n] = IF n = m THEN libraries ELSE disk.compiledWith[n]
               /\ linkedWith[n] = IF n = m THEN {} ELSE disk.linkedWith[n]
    BY <1>2 DEF Objects, Given
  <2> HIDE DEF object, compiledWith, linkedWith, files, damaged
  <2>5. /\ e \in Disks /\ e.files = files /\ e.damaged = damaged /\ e.object = object
        /\ e.compiledWith = compiledWith /\ e.linkedWith = linkedWith
    BY <1>2, <2>3 DEF Disks
  <2> HIDE DEF e
  <2>6. ASSUME NEW n \in Names, <<n, "bin">> \in e.files \ e.damaged
        PROVE  e.object[n] = Expected(n, e.compiledWith[n], e.linkedWith[n])
    <3>1. CASE n = m
      BY <2>2, <2>4, <2>5, <3>1
    <3>2. CASE n # m
      <4>1. <<n, "bin">> \in disk.files \ disk.damaged
        BY <1>3, <2>5, <2>6, <3>2 DEF files, damaged
      <4>2. disk.object[n] = Expected(n, disk.compiledWith[n], disk.linkedWith[n])
        BY <4>1 DEF FilesSound
      <4> QED BY <2>4, <2>5, <3>2, <4>2
    <3> QED BY <3>1, <3>2
  <2> QED BY <1>1, <1>5, <2>5, <2>6 DEF files, damaged
<1> QED BY <1>4, <1>5

\* createFile delivers the file or sets the error flag, and what it delivers is
\* complete, as far as it can see.
LEMMA CreateFileEffect ==
  ASSUME disk \in Disks, FilesSound, args \in Invocations,
         NEW file \in Files, NEW next \in Processes, CreateFile(file, next)
  PROVE  /\ process' \in Processes /\ process'.phase = next.phase
         /\ process'.sourceCodes = next.sourceCodes /\ process'.foreign = next.foreign
         /\ process'.todo = next.todo /\ process'.exit = next.exit /\ process'.members = next.members
         /\ next.error => process'.error
         /\ next.delivered \subseteq process'.delivered
         /\ process'.error \/ file \in process'.delivered
         /\ disk' \in Disks /\ FilesSound'
         /\ Stands(next, disk) => Stands(process', disk')
<1> DEFINE refused == [next EXCEPT !.error = TRUE]
           made == [next EXCEPT !.delivered = @ \cup {file}]
           losing == [made EXCEPT !.lost = @ \cup {file}]
<1>1. \/ ~args.outputDir /\ process' = made /\ disk' = disk
      \/ process' = refused /\ disk' = disk
      \/ process' = refused /\ disk' = Truncated(file)
      \/ args.outputDir /\ process' = losing /\ disk' = Truncated(file)
      \/ args.outputDir /\ process' = made /\ disk' = Stored(file)
  BY DEF CreateFile
<1>2. /\ refused \in Processes /\ refused.phase = next.phase /\ refused.sourceCodes = next.sourceCodes
      /\ refused.foreign = next.foreign /\ refused.todo = next.todo /\ refused.exit = next.exit
      /\ refused.members = next.members /\ refused.error = TRUE /\ refused.delivered = next.delivered
  BY DEF Processes
<1>3. /\ made \in Processes /\ made.phase = next.phase /\ made.sourceCodes = next.sourceCodes
      /\ made.foreign = next.foreign /\ made.todo = next.todo /\ made.exit = next.exit
      /\ made.members = next.members /\ made.error = next.error
      /\ made.delivered = next.delivered \cup {file} /\ made.lost = next.lost
  <2> DEFINE all == next.delivered \cup {file}
  <2>1. all \in SUBSET Files
    BY DEF Processes
  <2>2. made = [next EXCEPT !.delivered = all]
    OBVIOUS
  <2> HIDE DEF all, made
  <2>3. /\ made \in Processes /\ made.phase = next.phase /\ made.sourceCodes = next.sourceCodes
        /\ made.foreign = next.foreign /\ made.todo = next.todo /\ made.exit = next.exit
        /\ made.members = next.members /\ made.error = next.error /\ made.delivered = all
        /\ made.lost = next.lost
    BY <2>1, <2>2 DEF Processes
  <2> QED BY <2>3 DEF all
<1> HIDE DEF refused, made
<1>4. /\ losing \in Processes /\ losing.phase = next.phase /\ losing.sourceCodes = next.sourceCodes
      /\ losing.foreign = next.foreign /\ losing.todo = next.todo /\ losing.exit = next.exit
      /\ losing.members = next.members /\ losing.error = next.error
      /\ losing.delivered = next.delivered \cup {file} /\ losing.lost = next.lost \cup {file}
  <2> DEFINE all == made.lost \cup {file}
  <2>1. all \in SUBSET Files
    BY <1>3 DEF Processes
  <2>2. losing = [made EXCEPT !.lost = all]
    OBVIOUS
  <2> HIDE DEF all, losing
  <2>3. /\ losing \in Processes /\ losing.phase = made.phase /\ losing.sourceCodes = made.sourceCodes
        /\ losing.foreign = made.foreign /\ losing.todo = made.todo /\ losing.exit = made.exit
        /\ losing.members = made.members /\ losing.error = made.error /\ losing.delivered = made.delivered
        /\ losing.lost = all
    BY <1>3, <2>1, <2>2 DEF Processes
  <2> QED BY <1>3, <2>3 DEF all
<1> HIDE DEF losing
<1>5. CASE disk' = disk /\ (process' = refused \/ (~args.outputDir /\ process' = made))
  <2>1. FilesSound'
    BY <1>5 DEF FilesSound
  <2> QED BY <1>2, <1>3, <1>5, <2>1 DEF Stands
<1>6. CASE disk' = Truncated(file) /\ process' \in {refused, losing}
  <2>1. /\ disk' \in Disks /\ FilesSound'
        /\ disk'.files = disk.files \cup {file} /\ disk'.damaged = disk.damaged \cup {file}
    BY <1>6, TruncatedEffect DEF FilesSound
  <2>2. CASE process' = refused
    BY <1>2, <2>1, <2>2 DEF Stands
  <2>3. CASE process' = losing
    BY <1>4, <2>1, <2>3 DEF Stands
  <2> QED BY <1>6, <2>2, <2>3
<1>7. CASE disk' = Stored(file) /\ process' = made
  <2>1. /\ disk' \in Disks /\ FilesSound'
        /\ disk'.files = disk.files \cup {file} /\ disk'.damaged = disk.damaged \ {file}
    BY <1>7, StoredEffect DEF FilesSound
  <2> QED BY <1>3, <1>7, <2>1 DEF Stands
<1> QED BY <1>1, <1>5, <1>6, <1>7

\* A process ends before it compiled anything, without a word on object files.
LEMMA EndsEarly ==
  ASSUME CInv, result = "none", NEW code \in {0, 1}, Exit(code),
         UNCHANGED <<program, stack, result, args, disk, runs>>,
         args.modes # {"link"} \/ process.sourceCodes = {}
            \/ (IF code = 1 THEN Refused ELSE NoneLeft(process.sourceCodes))
  PROVE  CInv'
<1>1. /\ process' \in Processes /\ process'.phase = "exited" /\ process'.exit = code
      /\ process'.sourceCodes = process.sourceCodes /\ process'.foreign = process.foreign
  BY ExitEffect DEF CInv, CTypeOK
<1>2. CTypeOK'
  BY <1>1 DEF CInv, CTypeOK
<1>3. FilesSound'
  BY DEF CInv, FilesSound
<1>4. LinkSound'
  BY <1>1 DEF LinkSound, Refused, NoneLeft, In
<1>5. ResultSound' /\ DeliveredSound' /\ ExitCodeTruthful'
  BY <1>1 DEF CInv, ResultSound, DeliveredSound, ExitCodeTruthful, Compiled, In
<1> QED BY <1>2, <1>3, <1>4, <1>5 DEF CInv

\* A process goes on to a phase in which nothing was compiled yet.
LEMMA GoesOn ==
  ASSUME CInv, result = "none", process' \in Processes,
         process'.phase \in {"process", "assemble", "link", "compile"},
         process'.foreign = process.foreign, process'.exit = 0, process'.delivered = {},
         process'.phase = "process" => process'.sourceCodes = {},
         process'.phase \in {"assemble", "compile"} => "link" \notin args.modes,
         UNCHANGED <<program, stack, result, args, disk, runs>>
  PROVE  CInv'
<1>1. CTypeOK'
  BY DEF CInv, CTypeOK
<1>2. FilesSound'
  BY DEF CInv, FilesSound
<1>3. LinkSound'
  BY DEF CInv, LinkSound, In
<1>4. ResultSound' /\ DeliveredSound' /\ ExitCodeTruthful'
  BY DEF CInv, ResultSound, DeliveredSound, ExitCodeTruthful, Compiled, Exited, In
<1> QED BY <1>1, <1>2, <1>3, <1>4 DEF CInv

LEMMA RunNext ==
  ASSUME CInv, Run
  PROVE  CInv'
<1>1. /\ args' \in Invocations /\ process' = Process /\ stack' = Fresh /\ result' = "none"
      /\ UNCHANGED <<program, disk>>
  BY DEF Run
<1>2. /\ Process \in Processes /\ Process.phase = "arguments" /\ Process.sourceCodes = {}
      /\ Process.foreign = {} /\ Process.exit = 0 /\ Process.delivered = {}
  <2> DEFINE none == [n \in Names |-> Nothing]
  <2>1. none \in Objects
    BY DEF Objects, Contents, Nothing
  <2> HIDE DEF none
  <2>2. Process = [phase |-> "arguments", sourceCodes |-> {}, foreign |-> {}, todo |-> {},
                   linked |-> none, delivered |-> {}, members |-> {}, lost |-> {},
                   unwritten |-> FALSE, error |-> FALSE, exit |-> 0]
    BY DEF Process, none
  <2> QED BY <2>1, <2>2 DEF Processes, Phases
<1>3. CTypeOK'
  BY <1>1, <1>2, FreshSound DEF CInv, CTypeOK
<1>4. FilesSound'
  BY <1>1 DEF CInv, FilesSound
<1>5. LinkSound'
  BY <1>1, <1>2 DEF LinkSound, In
<1>6. ResultSound' /\ DeliveredSound' /\ ExitCodeTruthful'
  BY <1>1, <1>2 DEF ResultSound, DeliveredSound, ExitCodeTruthful, Compiled, Exited, In
<1> QED BY <1>3, <1>4, <1>5, <1>6 DEF CInv

LEMMA BeforeCompilation ==
  ASSUME CInv, ParseArguments \/ ReadInputFiles \/ Assemble
  PROVE  CInv'
<1>1. process \in Processes /\ args \in Invocations
  BY DEF CInv, CTypeOK
<1>2. CASE ParseArguments
  <2>1. In("arguments") /\ UNCHANGED <<program, stack, result, args, disk, runs>>
    BY <1>2 DEF ParseArguments
  <2>2. result = "none" /\ process.sourceCodes = {} /\ process.exit = 0 /\ process.delivered = {}
    BY <2>1 DEF CInv, ResultSound, LinkSound
  <2>3. CASE Exit(1)
    BY <2>1, <2>2, <2>3, EndsEarly
  <2>4. CASE process' = [process EXCEPT !.phase = "process"]
    <3>1. /\ process' \in Processes /\ process'.phase = "process" /\ process'.foreign = process.foreign
          /\ process'.exit = 0 /\ process'.sourceCodes = {} /\ process'.delivered = {}
      BY <1>1, <2>2, <2>4, PhaseEffect DEF Phases
    <3> QED BY <2>1, <2>2, <3>1, GoesOn
  <2> QED BY <1>2, <2>3, <2>4 DEF ParseArguments
<1>3. CASE ReadInputFiles
  <2> DEFINE found == {n \in args.files : Exists(n)}
             phase == IF "link" \in args.modes THEN "link"
                      ELSE IF "assemble" \in args.modes THEN "assemble" ELSE "compile"
             next == [process EXCEPT !.sourceCodes = found, !.phase = phase]
  <2>1. In("process") /\ UNCHANGED <<program, stack, result, args, disk, runs>>
    BY <1>3 DEF ReadInputFiles
  <2>2. result = "none" /\ process.sourceCodes = {} /\ process.exit = 0 /\ process.delivered = {}
    BY <2>1 DEF CInv, ResultSound, LinkSound
  <2>3. Exit(0) \/ Exit(1) \/ process' = next
    BY <1>3 DEF ReadInputFiles
  <2>4. found \in SUBSET Names
    BY <1>1, ArgsType
  <2>5. phase \in {"link", "assemble", "compile"} /\ phase \in Phases
        /\ (phase \in {"assemble", "compile"} => "link" \notin args.modes)
    BY DEF Phases
  <2> HIDE DEF found, phase
  <2>6. CASE process' = next
    <3>1. /\ next \in Processes /\ next.phase = phase /\ next.foreign = process.foreign
          /\ next.exit = process.exit /\ next.delivered = process.delivered
      BY <1>1, <2>4, <2>5 DEF Processes
    <3> HIDE DEF next
    <3> QED BY <2>1, <2>2, <2>5, <2>6, <3>1, GoesOn
  <2>7. CASE Exit(0) \/ Exit(1)
    BY <2>1, <2>2, <2>7, EndsEarly
  <2> QED BY <2>3, <2>6, <2>7
<1>4. CASE Assemble
  <2>1. In("assemble") /\ (Exit(0) \/ Exit(1)) /\ UNCHANGED <<program, stack, result, args, disk, runs>>
    BY <1>4 DEF Assemble
  <2>2. result = "none" /\ args.modes # {"link"}
    BY <2>1 DEF CInv, ResultSound, LinkSound
  <2> QED BY <2>1, <2>2, EndsEarly
<1> QED BY <1>2, <1>3, <1>4

\* What linking does to contents.
LEMMA LinkedContents ==
  ASSUME NEW c \in Contents, NEW n \in Names, NEW compiledWith, NEW linkedWith
  PROVE  /\ Linked(c) \in Contents
         /\ Linked(c).refs = c.refs \ args.libraries
         /\ c = Expected(n, compiledWith, linkedWith) =>
               Linked(c) = Expected(n, compiledWith, linkedWith \cup args.libraries)
<1>1. Linked(c) = [refs |-> c.refs \ args.libraries, hints |-> c.hints \ args.libraries, cut |-> c.cut]
  BY DEF Linked
<1>2. Linked(c) \in Contents /\ Linked(c).refs = c.refs \ args.libraries
  BY <1>1 DEF Contents
<1>3. ASSUME c = Expected(n, compiledWith, linkedWith)
      PROVE  Linked(c) = Expected(n, compiledWith, linkedWith \cup args.libraries)
  <2> DEFINE compiled == LibraryUses[n] \cap FoundByStack(compiledWith)
             rest == LibraryUses[n] \ compiled
  <2>1. /\ c.refs = rest \ linkedWith /\ c.hints = rest \ linkedWith /\ c.cut = compiled
    BY <1>3 DEF Expected
  <2>2. Expected(n, compiledWith, linkedWith \cup args.libraries) =
           [refs |-> rest \ (linkedWith \cup args.libraries),
            hints |-> rest \ (linkedWith \cup args.libraries), cut |-> compiled]
    BY DEF Expected
  <2> HIDE DEF compiled, rest
  <2>3. (rest \ linkedWith) \ args.libraries = rest \ (linkedWith \cup args.libraries)
    OBVIOUS
  <2> QED BY <1>1, <2>1, <2>2, <2>3
<1> QED BY <1>2, <1>3

LEMMA LinkNext ==
  ASSUME CInv, Link
  PROVE  CInv'
<1>1. process \in Processes /\ disk \in Disks
  BY DEF CInv, CTypeOK
<1>2. In("link") /\ UNCHANGED <<program, stack, result, args, disk, runs>>
  BY DEF Link
<1>3. result = "none" /\ process.exit = 0 /\ process.delivered = {}
  BY <1>2 DEF CInv, ResultSound, LinkSound
<1> DEFINE linked == [n \in Names |-> Linked(disk.object[n])]
           next == [process EXCEPT !.phase = "write", !.todo = process.sourceCodes, !.linked = linked]
<1>4. (Refused /\ Exit(1)) \/ process' = next
  BY DEF Link, Refused
<1>5. CASE Refused /\ Exit(1)
  BY <1>2, <1>3, <1>5, EndsEarly
<1>6. CASE process' = next
  <2>1. linked \in Objects
    <3>1. \A n \in Names : disk.object[n] \in Contents
      BY <1>1 DEF Disks, Objects
    <3> QED BY <3>1, LinkedContents DEF Objects
  <2>2. process.sourceCodes \subseteq Names
    BY <1>1 DEF Processes
  <2>3. \A n \in process.sourceCodes : linked[n] = Linked(disk.object[n])
    BY <2>2
  <2> HIDE DEF linked
  <2>4. /\ next \in Processes /\ next.phase = "write" /\ next.todo = process.sourceCodes
        /\ next.sourceCodes = process.sourceCodes /\ next.linked = linked
        /\ next.exit = process.exit /\ next.foreign = process.foreign
        /\ next.delivered = process.delivered
    BY <1>1, <2>1 DEF Processes, Phases
  <2> HIDE DEF next
  <2>5. CTypeOK'
    BY <1>2, <1>6, <2>4 DEF CInv, CTypeOK
  <2>6. FilesSound'
    BY <1>2 DEF CInv, FilesSound
  <2>7. LinkSound'
    BY <1>2, <1>3, <1>6, <2>2, <2>3, <2>4 DEF LinkSound, NoneLeft, Linked, In
  <2>8. ResultSound' /\ DeliveredSound' /\ ExitCodeTruthful'
    BY <1>2, <1>3, <1>6, <2>4 DEF CInv, ResultSound, DeliveredSound, ExitCodeTruthful, Compiled, Exited, In
  <2> QED BY <2>5, <2>6, <2>7, <2>8 DEF CInv
<1> QED BY <1>4, <1>5, <1>6

\* Writing linked files, one after the other: those in memory are those on the
\* disk without the libraries given, until they are written or damaged.
LEMMA WriteLinkedNext ==
  ASSUME CInv, WriteLinkedFile
  PROVE  CInv'
<1>1. process \in Processes /\ args \in Invocations /\ disk \in Disks /\ FilesSound
  BY DEF CInv, CTypeOK
<1>2. args.libraries \in SUBSET LibraryNames
  BY <1>1, ArgsType
<1>3. In("write") /\ UNCHANGED <<program, stack, result, args, runs>>
  BY DEF WriteLinkedFile
<1>4. /\ result = "none" /\ process.delivered = {} /\ process.exit = 0 /\ process.todo \subseteq Names
      /\ \A n \in process.todo : process.linked[n] = Linked(disk.object[n])
      /\ NoneLeft(process.sourceCodes \ process.todo)
  BY <1>3 DEF CInv, ResultSound, LinkSound
<1>5. process.sourceCodes \subseteq Names
  BY <1>1 DEF Processes
<1>6. CASE process.todo = {} /\ Exit(0) /\ UNCHANGED disk
  BY <1>3, <1>4, <1>6, EndsEarly
<1>7. ASSUME NEW m \in process.todo PROVE m \in Names /\ <<m, "bin">> \in Files
  BY <1>4 DEF Files, Outputs, OutputOrder, ToSet
<1>8. ASSUME disk' \in Disks, FilesSound', process' = [process EXCEPT !.phase = "exited", !.unwritten = TRUE]
      PROVE  CInv'
  <2>1. /\ process' \in Processes /\ process'.phase = "exited" /\ process'.unwritten = TRUE
        /\ process'.exit = process.exit /\ process'.sourceCodes = process.sourceCodes
        /\ process'.foreign = process.foreign
    BY <1>1, <1>8 DEF Processes, Phases
  <2>2. CTypeOK'
    BY <1>3, <1>8, <2>1 DEF CInv, CTypeOK
  <2>3. LinkSound'
    BY <1>3, <1>4, <2>1 DEF LinkSound, In
  <2>4. ResultSound' /\ DeliveredSound' /\ ExitCodeTruthful'
    BY <1>3, <1>4, <2>1 DEF CInv, ResultSound, DeliveredSound, ExitCodeTruthful, Compiled, In
  <2> QED BY <1>8, <2>2, <2>3, <2>4 DEF CInv
<1>9. ASSUME NEW m \in process.todo, disk' \in Disks, FilesSound',
             \A n \in Names \ {m} : disk'.object[n] = disk.object[n],
             disk'.object[m].refs \cap args.libraries = {},
             process' \in Processes, process'.phase = "write", process'.todo = process.todo \ {m},
             process'.sourceCodes = process.sourceCodes, process'.linked = process.linked,
             process'.exit = process.exit, process'.foreign = process.foreign,
             process'.delivered = process.delivered
      PROVE  CInv'
  <2>1. CTypeOK'
    BY <1>3, <1>9 DEF CInv, CTypeOK
  <2>2. \A n \in process'.todo : process'.linked[n] = Linked(disk.object[n]) /\ disk'.object[n] = disk.object[n]
    BY <1>4, <1>9
  <2>3. \A n \in process'.sourceCodes \ process'.todo : disk'.object[n].refs \cap args.libraries = {}
    BY <1>4, <1>5, <1>9 DEF NoneLeft
  <2>4. LinkSound'
    BY <1>3, <1>4, <1>9, <2>2, <2>3 DEF LinkSound, NoneLeft, Linked, In
  <2>5. ResultSound' /\ DeliveredSound' /\ ExitCodeTruthful'
    BY <1>3, <1>4, <1>9 DEF CInv, ResultSound, DeliveredSound, ExitCodeTruthful, Compiled, Exited, In
  <2> QED BY <1>9, <2>1, <2>4, <2>5 DEF CInv
<1>10. ASSUME NEW m \in process.todo,
              disk' = [disk EXCEPT !.object[m] = process.linked[m],
                                   !.linkedWith[m] = @ \cup args.libraries],
              process' = [process EXCEPT !.todo = @ \ {m}]
       PROVE  CInv'
  <2>1. /\ process' \in Processes /\ process'.phase = "write" /\ process'.todo = process.todo \ {m}
        /\ process'.sourceCodes = process.sourceCodes /\ process'.linked = process.linked
        /\ process'.exit = process.exit /\ process'.foreign = process.foreign
        /\ process'.delivered = process.delivered
    BY <1>1, <1>3, <1>10 DEF Processes, In
  <2> DEFINE object == [disk.object EXCEPT ![m] = process.linked[m]]
             linkedWith == [disk.linkedWith EXCEPT ![m] = disk.linkedWith[m] \cup args.libraries]
  <2>2. disk' = [disk EXCEPT !.object = object, !.linkedWith = linkedWith]
    BY <1>1, <1>10 DEF Disks
  <2>3. /\ disk.object \in Objects /\ disk.linkedWith \in Given
        /\ disk.object[m] \in Contents /\ process.linked[m] = Linked(disk.object[m])
    BY <1>1, <1>4, <1>7 DEF Disks, Objects
  <2>4. /\ process.linked[m] \in Contents /\ process.linked[m].refs = disk.object[m].refs \ args.libraries
    BY <1>7, <2>3, LinkedContents
  <2>5. object \in Objects /\ linkedWith \in Given
    BY <1>2, <1>7, <2>3, <2>4 DEF Objects, Given
  <2>6. ASSUME NEW n \in Names
        PROVE  /\ object[n] = IF n = m THEN process.linked[m] ELSE disk.object[n]
               /\ linkedWith[n] = IF n = m THEN disk.linkedWith[m] \cup args.libraries ELSE disk.linkedWith[n]
    BY <2>3 DEF Objects, Given
  <2> HIDE DEF object, linkedWith
  <2>7. /\ disk' \in Disks /\ disk'.files = disk.files /\ disk'.damaged = disk.damaged
        /\ disk'.object = object /\ disk'.compiledWith = disk.compiledWith /\ disk'.linkedWith = linkedWith
    BY <1>1, <2>2, <2>5 DEF Disks
  <2>8. ASSUME NEW n \in Names, <<n, "bin">> \in disk'.files \ disk'.damaged
        PROVE  disk'.object[n] = Expected(n, disk'.compiledWith[n], disk'.linkedWith[n])
    <3>1. disk.object[n] = Expected(n, disk.compiledWith[n], disk.linkedWith[n])
      BY <1>1, <2>7, <2>8 DEF FilesSound
    <3>2. CASE n = m
      <4>1. Linked(disk.object[m]) = Expected(m, disk.compiledWith[m], disk.linkedWith[m] \cup args.libraries)
        BY <1>7, <2>3, <3>1, <3>2, LinkedContents
      <4> QED BY <2>3, <2>6, <2>7, <3>2, <4>1
    <3>3. CASE n # m
      BY <2>6, <2>7, <3>1, <3>3
    <3> QED BY <3>2, <3>3
  <2>9. FilesSound'
    BY <1>3, <2>8 DEF FilesSound, Expected, FoundByStack
  <2>10. /\ \A n \in Names \ {m} : disk'.object[n] = disk.object[n]
         /\ disk'.object[m].refs \cap args.libraries = {}
    BY <1>7, <2>4, <2>6, <2>7
  <2> QED BY <1>9, <2>1, <2>7, <2>9, <2>10
<1>11. ASSUME NEW m \in process.todo, disk' = Truncated(<<m, "bin">>),
              process' = [process EXCEPT !.todo = @ \ {m}, !.lost = @ \cup {<<m, "bin">>}]
       PROVE  CInv'
  <2> DEFINE todo == process.todo \ {m}
             lost == process.lost \cup {<<m, "bin">>}
  <2>1. todo \in SUBSET (Names \cup Files) /\ lost \in SUBSET Files
    BY <1>1, <1>7 DEF Processes
  <2>2. process' = [process EXCEPT !.todo = todo, !.lost = lost]
    BY <1>11
  <2> HIDE DEF lost, todo
  <2>3. /\ process' \in Processes /\ process'.phase = "write" /\ process'.todo = todo
        /\ process'.sourceCodes = process.sourceCodes /\ process'.linked = process.linked
        /\ process'.exit = process.exit /\ process'.foreign = process.foreign
        /\ process'.delivered = process.delivered
    BY <1>1, <1>3, <2>1, <2>2 DEF Processes, In
  <2>4. /\ disk' \in Disks /\ FilesSound'
        /\ \A n \in Names : disk'.object[n] = IF <<m, "bin">> = <<n, "bin">> THEN Nothing ELSE disk.object[n]
    BY <1>1, <1>3, <1>7, <1>11, TruncatedEffect DEF FilesSound
  <2>5. /\ \A n \in Names \ {m} : disk'.object[n] = disk.object[n]
        /\ disk'.object[m].refs \cap args.libraries = {}
    <3>1. \A n \in Names \ {m} : <<m, "bin">> # <<n, "bin">>
      OBVIOUS
    <3>2. disk'.object[m] = Nothing
      BY <1>7, <2>4
    <3>3. Nothing.refs = {}
      BY DEF Nothing
    <3> QED BY <2>4, <3>1, <3>2, <3>3
  <2> QED BY <1>9, <2>3, <2>4, <2>5 DEF todo
<1>12. ASSUME NEW m \in process.todo, disk' \in {disk, Truncated(<<m, "bin">>)},
              process' = [process EXCEPT !.phase = "exited", !.unwritten = TRUE]
       PROVE  CInv'
  <2>1. disk' \in Disks /\ FilesSound'
    BY <1>1, <1>3, <1>7, <1>12, TruncatedEffect DEF FilesSound
  <2> QED BY <1>8, <1>12, <2>1
<1> QED BY <1>6, <1>10, <1>11, <1>12 DEF WriteLinkedFile

\* A process ends behind the compilation: what its exit code says is true.
LEMMA EndsCompiled ==
  ASSUME CInv, In("combined") \/ In("ast") \/ In("output"),
         NEW code \in {0, 1}, Exit(code),
         UNCHANGED <<program, stack, result, args, disk, runs>>,
         code = 0 =>
            /\ In("output") /\ process.todo = {} /\ ~process.error,
         code = 1 /\ result = "true" =>
            \/ process.error
            \/ args.stopAfter = Parsed /\ (args.outputs \cup args.combined) # {}
            \/ process.foreign # {} /\ ("ast-compact-json" \in args.ast \/ "ast" \in args.combined)
  PROVE  CInv'
<1>1. /\ process' \in Processes /\ process'.phase = "exited" /\ process'.exit = code
      /\ process'.sourceCodes = process.sourceCodes /\ process'.foreign = process.foreign
      /\ process'.delivered = process.delivered /\ process'.error = process.error
      /\ process'.members = process.members /\ process'.lost = process.lost
  BY ExitEffect DEF CInv, CTypeOK
<1>2. CTypeOK'
  BY <1>1 DEF CInv, CTypeOK
<1>3. FilesSound'
  BY DEF CInv, FilesSound
<1>4. "link" \notin args.modes
  BY DEF CInv, LinkSound
<1>5. LinkSound'
  BY <1>1, <1>4 DEF LinkSound, In
<1>6. ResultSound' /\ DeliveredSound'
  BY <1>1 DEF CInv, ResultSound, DeliveredSound, In
<1>7. ASSUME code = 0, ~args.errorRecovery
      PROVE  /\ result = "true"
             /\ stack.contracts \X args.outputs \subseteq process.delivered
             /\ "ast-compact-json" \in args.ast => <<AnName, "ast-compact-json">> \in process.delivered
             /\ args.combined # {} =>
                   /\ <<AnName, "combined">> \in process.delivered
                   /\ args.combined \ {"bin"} \subseteq process.members
                   /\ process.members = args.combined \/ args.stopAfter = Parsed
             /\ args.outputDir => /\ process.delivered \subseteq disk.files
                                  /\ process.delivered \cap disk.damaged \subseteq process.lost
  <2>1. result = "true"
    BY <1>7 DEF CInv, ResultSound
  <2>2. DeliveredSound
    BY DEF CInv
  <2>3. Stands(process, disk) /\ CombinedMade /\ MembersMade /\ AstMade
    BY <1>7, <2>2 DEF DeliveredSound
  <2>4. stack.contracts \X args.outputs \subseteq process.delivered
    BY <1>7, <2>1, <2>2 DEF DeliveredSound
  <2> QED BY <1>7, <2>1, <2>3, <2>4 DEF Stands, CombinedMade, MembersMade, AstMade
<1>8. process.foreign # {} => args.basePath
  BY DEF CInv, ResultSound
<1>9. ExitCodeTruthful'
  BY <1>1, <1>7, <1>8 DEF ExitCodeTruthful
<1> QED BY <1>2, <1>3, <1>5, <1>6, <1>9 DEF CInv

\* A process goes on to its next output.
LEMMA Continues ==
  ASSUME CInv, In("combined") \/ In("ast") \/ In("output"),
         process' \in Processes, disk' \in Disks, FilesSound', DeliveredSound',
         process'.phase \in {"ast", "output"}, process'.foreign = process.foreign,
         UNCHANGED <<program, stack, result, args, runs>>
  PROVE  CInv'
<1>1. CTypeOK'
  BY DEF CInv, CTypeOK
<1>2. LinkSound' /\ ResultSound'
  BY DEF CInv, LinkSound, ResultSound, In
<1>3. ExitCodeTruthful'
  BY DEF ExitCodeTruthful, Compiled, Exited, In
<1> QED BY <1>1, <1>2, <1>3 DEF CInv

\* A process is brought down by an AST that is not there.
LEMMA Crashes ==
  ASSUME CInv, In("combined") \/ In("ast"), process' = [process EXCEPT !.phase = "crashed"],
         UNCHANGED <<program, stack, result, args, disk, runs>>
  PROVE  CInv'
<1>1. process' \in Processes /\ process'.phase = "crashed" /\ process'.foreign = process.foreign
  BY PhaseEffect DEF CInv, CTypeOK, Phases
<1>2. CTypeOK'
  BY <1>1 DEF CInv, CTypeOK
<1>3. FilesSound'
  BY DEF CInv, FilesSound
<1>4. LinkSound' /\ ResultSound' /\ DeliveredSound' /\ ExitCodeTruthful'
  BY <1>1 DEF CInv, LinkSound, ResultSound, DeliveredSound, ExitCodeTruthful, Compiled, Exited, In
<1> QED BY <1>2, <1>3, <1>4 DEF CInv

LEMMA CompileInputNext ==
  ASSUME CInv, CompileInput
  PROVE  CInv'
<1>1. In("compile") /\ UNCHANGED <<program, args, disk, runs>>
  BY DEF CompileInput
<1>2. process \in Processes /\ args \in Invocations
  BY DEF CInv, CTypeOK
<1>3. /\ stack' \in Fields /\ result' \in Results
      /\ result' = "true" /\ args.stopAfter = CompilationSuccessful =>
            stack'.stackState = CompilationSuccessful
  BY CompileInputOutcome DEF CInv
<1>4. "link" \notin args.modes /\ (process.foreign # {} => args.basePath)
  BY <1>1 DEF CInv, LinkSound, ResultSound
<1>41. process.delivered = {}
  BY <1>1 DEF CInv, ResultSound
<1>5. FilesSound'
  BY <1>1 DEF CInv, FilesSound
<1> DEFINE read == stack'.sources \ process.sourceCodes
           p == [process EXCEPT !.phase = "combined"]
<1>6. \/ /\ result' = "true" \/ (result' = "false" /\ args.errorRecovery)
         /\ process' = FileReader(p, read)
      \/ result' # "true" /\ Exit(1)
  BY DEF CompileInput
<1>7. /\ p \in Processes /\ p.phase = "combined" /\ p.foreign = process.foreign
      /\ p.delivered = process.delivered
  BY <1>2, PhaseEffect DEF Phases
<1>8. read \in SUBSET Names
  BY <1>3 DEF Fields
<1> HIDE DEF p, read
<1>9. CASE /\ result' = "true" \/ (result' = "false" /\ args.errorRecovery)
           /\ process' = FileReader(p, read)
  <2>1. /\ process' \in Processes /\ process'.phase = "combined" /\ process'.delivered = {}
        /\ process'.foreign # {} => args.basePath
    <3>1. CASE args.basePath /\ process' = [p EXCEPT !.foreign = read]
      BY <1>7, <1>8, <1>41, <3>1 DEF Processes
    <3>2. CASE process' = [p EXCEPT !.sourceCodes = p.sourceCodes \cup read]
      <4> DEFINE all == p.sourceCodes \cup read
      <4>1. all \in SUBSET Names
        BY <1>7, <1>8 DEF Processes
      <4> HIDE DEF all
      <4>2. process' = [p EXCEPT !.sourceCodes = all]
        BY <3>2 DEF all
      <4>3. /\ process' \in Processes /\ process'.phase = p.phase /\ process'.foreign = p.foreign
            /\ process'.delivered = p.delivered
        BY <1>7, <4>1, <4>2 DEF Processes
      <4> QED BY <1>4, <1>7, <1>41, <4>3
    <3> QED BY <1>9, <3>1, <3>2 DEF FileReader
  <2>2. CTypeOK'
    BY <1>1, <1>3, <2>1 DEF CInv, CTypeOK
  <2>3. LinkSound' /\ ResultSound' /\ DeliveredSound' /\ ExitCodeTruthful'
    BY <1>1, <1>3, <1>4, <1>9, <2>1
       DEF LinkSound, ResultSound, DeliveredSound, Stands, ExitCodeTruthful, Compiled, Exited, In
  <2> QED BY <1>5, <2>2, <2>3 DEF CInv
<1>10. CASE result' # "true" /\ Exit(1)
  <2>1. process' \in Processes /\ process'.phase = "exited" /\ process'.exit = 1
        /\ process'.foreign = process.foreign
    BY <1>2, <1>10, ExitEffect
  <2>2. CTypeOK'
    BY <1>1, <1>3, <2>1 DEF CInv, CTypeOK
  <2>3. LinkSound' /\ ResultSound' /\ DeliveredSound' /\ ExitCodeTruthful'
    BY <1>1, <1>4, <1>10, <2>1
       DEF LinkSound, ResultSound, DeliveredSound, ExitCodeTruthful, Compiled, Exited, In
  <2> QED BY <1>5, <2>2, <2>3 DEF CInv
<1> QED BY <1>6, <1>9, <1>10

\* A compilation that said "true" but did not get to the analysis was told to
\* stop before.
LEMMA StoppedBefore ==
  ASSUME CInv, result = "true", stack.stackState < CompilationSuccessful
  PROVE  args.stopAfter = Parsed
<1>1. args.stopAfter \in {Parsed, CompilationSuccessful}
  BY ArgsType DEF CInv, CTypeOK
<1>2. stack.stackState # CompilationSuccessful
  BY DEF CompilationSuccessful
<1> QED BY <1>1, <1>2 DEF CInv, ResultSound

LEMMA CombinedNext ==
  ASSUME CInv, HandleCombinedJSON
  PROVE  CInv'
<1> DEFINE successful == stack.stackState = CompilationSuccessful
           members == args.combined \ (IF successful THEN {} ELSE {"bin"})
           plain == [process EXCEPT !.phase = "ast"]
           next == [process EXCEPT !.phase = "ast", !.members = members]
           file == <<AnName, "combined">>
<1>1. In("combined") /\ UNCHANGED <<program, stack, result, args, runs>>
  BY DEF HandleCombinedJSON
<1>2. process \in Processes /\ args \in Invocations /\ disk \in Disks /\ FilesSound /\ stack \in Fields
  BY DEF CInv, CTypeOK
<1>3. /\ plain \in Processes /\ plain.phase = "ast" /\ plain.foreign = process.foreign
      /\ plain.error = process.error /\ plain.delivered = process.delivered /\ plain.lost = process.lost
  BY <1>2, PhaseEffect DEF Phases
<1> HIDE DEF plain
<1>31. members \in SUBSET {"abi", "bin", "ast"}
  BY <1>2, ArgsType
<1>32. /\ args.combined \ {"bin"} \subseteq members
       /\ result = "true" => members = args.combined \/ args.stopAfter = Parsed
  <2>1. args.stopAfter \in {Parsed, CompilationSuccessful}
    BY <1>2, ArgsType
  <2> QED BY <2>1 DEF CInv, ResultSound
<1> HIDE DEF members
<1>33. /\ next \in Processes /\ next.phase = "ast" /\ next.foreign = process.foreign
       /\ next.members = members /\ next.error = process.error
       /\ next.delivered = process.delivered /\ next.lost = process.lost
  BY <1>2, <1>31 DEF Processes, Phases
<1>34. Stands(process, disk)
  BY <1>1 DEF CInv, DeliveredSound
<1>4. \/ args.combined = {} /\ process' = plain /\ UNCHANGED disk
      \/ /\ \/ "abi" \in args.combined /\ stack.stackState < AnalysisPerformed
            \/ "ast" \in args.combined /\ AstFails
         /\ Exit(1) /\ UNCHANGED disk
      \/ process' = [process EXCEPT !.phase = "crashed"] /\ UNCHANGED disk
      \/ CreateFile(file, next)
  BY DEF HandleCombinedJSON, plain, members
<1>5. file \in Files
  BY DEF Files
<1> HIDE DEF next, file
<1>6. CASE args.combined = {} /\ process' = plain /\ UNCHANGED disk
  <2>1. FilesSound'
    BY <1>2, <1>6 DEF FilesSound
  <2>2. DeliveredSound'
    BY <1>1, <1>3, <1>6, <1>34 DEF DeliveredSound, Stands, CombinedMade, MembersMade, In
  <2> QED BY <1>1, <1>2, <1>3, <1>6, <2>1, <2>2, Continues
<1>7. CASE /\ \/ "abi" \in args.combined /\ stack.stackState < AnalysisPerformed
              \/ "ast" \in args.combined /\ AstFails
           /\ Exit(1) /\ UNCHANGED disk
  <2>1. stack.stackState < AnalysisPerformed => stack.stackState < CompilationSuccessful
    BY <1>2 DEF Fields, States, AnalysisPerformed, CompilationSuccessful
  <2>2. result = "true" => \/ args.stopAfter = Parsed /\ (args.outputs \cup args.combined) # {}
                           \/ process.foreign # {} /\ ("ast-compact-json" \in args.ast \/ "ast" \in args.combined)
    BY <1>7, <2>1, StoppedBefore DEF AstFails
  <2> QED BY <1>1, <1>7, <2>2, EndsCompiled
<1>8. CASE process' = [process EXCEPT !.phase = "crashed"] /\ UNCHANGED disk
  BY <1>1, <1>8, Crashes
<1>9. CASE CreateFile(file, next)
  <2>1. /\ process' \in Processes /\ process'.phase = "ast" /\ process'.foreign = process.foreign
        /\ process'.error \/ file \in process'.delivered
        /\ process'.members = members
        /\ disk' \in Disks /\ FilesSound' /\ (Stands(next, disk) => Stands(process', disk'))
    BY <1>2, <1>33, <1>5, <1>9, CreateFileEffect
  <2>2. Stands(process', disk')
    BY <1>33, <1>34, <2>1 DEF Stands
  <2>3. DeliveredSound'
    BY <1>1, <1>32, <2>1, <2>2 DEF DeliveredSound, Stands, CombinedMade, MembersMade, In, file
  <2> QED BY <1>1, <2>1, <2>3, Continues
<1> QED BY <1>4, <1>6, <1>7, <1>8, <1>9

LEMMA AstNext ==
  ASSUME CInv, HandleAst
  PROVE  CInv'
<1> DEFINE halted == /\ stack.stackState # CompilationSuccessful
                     /\ args.stopAfter = CompilationSuccessful
           todo == IF halted THEN {} ELSE stack.contracts \X args.outputs
           next == [process EXCEPT !.phase = "output", !.todo = todo]
           file == <<AnName, "ast-compact-json">>
           asked == "ast-compact-json" \in args.ast
<1>1. In("ast") /\ UNCHANGED <<program, stack, result, args, runs>>
  BY DEF HandleAst
<1>2. process \in Processes /\ args \in Invocations /\ disk \in Disks /\ FilesSound /\ stack \in Fields
  BY DEF CInv, CTypeOK
<1>3. todo \subseteq stack.contracts \X args.outputs /\ todo \in SUBSET (Names \cup Files)
  BY <1>2, ArgsType DEF Fields, Files
<1>4. result = "true" => todo = stack.contracts \X args.outputs
  BY <1>1 DEF CInv, ResultSound
<1> HIDE DEF todo
<1>5. /\ next \in Processes /\ next.phase = "output" /\ next.foreign = process.foreign /\ next.todo = todo
      /\ next.delivered = process.delivered /\ next.error = process.error
      /\ next.members = process.members /\ next.lost = process.lost
  BY <1>2, <1>3 DEF Processes, Phases
<1>6. \/ ~asked /\ process' = next /\ UNCHANGED disk
      \/ asked /\ AstFails /\ Exit(1) /\ UNCHANGED disk
      \/ process' = [process EXCEPT !.phase = "crashed"] /\ UNCHANGED disk
      \/ CreateFile(file, next)
  BY DEF HandleAst, todo
<1>7. file \in Files
  BY DEF Files
<1>8. CombinedMade /\ MembersMade /\ Stands(process, disk)
  BY <1>1 DEF CInv, DeliveredSound
<1> HIDE DEF next, file
<1>9. CASE ~asked /\ process' = next /\ UNCHANGED disk
  <2>1. FilesSound'
    BY <1>2, <1>9 DEF FilesSound
  <2>2. DeliveredSound'
    BY <1>1, <1>3, <1>4, <1>5, <1>8, <1>9
       DEF DeliveredSound, Stands, CombinedMade, MembersMade, AstMade, In
  <2> QED BY <1>1, <1>2, <1>5, <1>9, <2>1, <2>2, Continues
<1>10. CASE asked /\ AstFails /\ Exit(1) /\ UNCHANGED disk
  BY <1>1, <1>10, EndsCompiled DEF AstFails
<1>11. CASE process' = [process EXCEPT !.phase = "crashed"] /\ UNCHANGED disk
  BY <1>1, <1>11, Crashes
<1>12. CASE CreateFile(file, next)
  <2>1. /\ process' \in Processes /\ process'.phase = "output" /\ process'.foreign = process.foreign
        /\ process'.todo = todo /\ process'.members = process.members
        /\ process.error => process'.error
        /\ process.delivered \subseteq process'.delivered
        /\ process'.error \/ file \in process'.delivered
        /\ disk' \in Disks /\ FilesSound' /\ (Stands(next, disk) => Stands(process', disk'))
    BY <1>2, <1>5, <1>7, <1>12, CreateFileEffect
  <2>2. Stands(process', disk')
    BY <1>5, <1>8, <2>1 DEF Stands
  <2>3. DeliveredSound'
    BY <1>1, <1>3, <1>4, <1>8, <2>1, <2>2
       DEF DeliveredSound, Stands, CombinedMade, MembersMade, AstMade, In, file
  <2> QED BY <1>1, <2>1, <2>3, Continues
<1> QED BY <1>6, <1>9, <1>10, <1>11, <1>12

LEMMA OutputNext ==
  ASSUME CInv, HandleOutput
  PROVE  CInv'
<1>1. In("output") /\ UNCHANGED <<program, stack, result, args, runs>>
  BY DEF HandleOutput
<1>2. process \in Processes /\ args \in Invocations /\ disk \in Disks /\ FilesSound /\ stack \in Fields
  BY DEF CInv, CTypeOK
<1>3. PICK file \in process.todo :
         \/ /\ stack.stackState < CompilationSuccessful \/ stack.stackState < AnalysisPerformed
            /\ Exit(1) /\ UNCHANGED disk
         \/ CreateFile(file, [process EXCEPT !.todo = @ \ {file}])
  BY DEF HandleOutput
<1> DEFINE todo == process.todo \ {file}
           next == [process EXCEPT !.todo = todo]
<1>4. /\ CombinedMade /\ MembersMade /\ AstMade /\ Stands(process, disk)
      /\ process.todo \subseteq stack.contracts \X args.outputs
      /\ result = "true" =>
            process.error \/ stack.contracts \X args.outputs \subseteq process.delivered \cup process.todo
  BY <1>1 DEF CInv, DeliveredSound
<1>5. file \in stack.contracts \X args.outputs
  BY <1>4
<1>6. file \in Files
  BY <1>2, <1>5, ArgsType DEF Fields, Files
<1>7. todo \in SUBSET (Names \cup Files)
  BY <1>2 DEF Processes
<1>8. CASE /\ stack.stackState < CompilationSuccessful \/ stack.stackState < AnalysisPerformed
           /\ Exit(1) /\ UNCHANGED disk
  <2>1. stack.stackState < CompilationSuccessful
    BY <1>2, <1>8 DEF Fields, States, AnalysisPerformed, CompilationSuccessful
  <2>2. args.outputs # {}
    BY <1>5
  <2>3. result = "true" => args.stopAfter = Parsed /\ (args.outputs \cup args.combined) # {}
    BY <2>1, <2>2, StoppedBefore
  <2> QED BY <1>1, <1>8, <2>3, EndsCompiled
<1>9. CASE CreateFile(file, next)
  <2> HIDE DEF todo
  <2>1. /\ next \in Processes /\ next.phase = "output" /\ next.foreign = process.foreign /\ next.todo = todo
        /\ next.delivered = process.delivered /\ next.error = process.error
        /\ next.members = process.members /\ next.lost = process.lost
    BY <1>1, <1>2, <1>7 DEF Processes, In
  <2> HIDE DEF next
  <2>2. /\ process' \in Processes /\ process'.phase = "output" /\ process'.foreign = process.foreign
        /\ process'.todo = todo /\ process'.members = process.members
        /\ process.error => process'.error
        /\ process.delivered \subseteq process'.delivered
        /\ process'.error \/ file \in process'.delivered
        /\ disk' \in Disks /\ FilesSound' /\ (Stands(next, disk) => Stands(process', disk'))
    BY <1>2, <1>6, <1>9, <2>1, CreateFileEffect
  <2>3. /\ todo \subseteq process.todo
        /\ process'.error \/ process.delivered \cup process.todo \subseteq process'.delivered \cup todo
    BY <2>2 DEF todo
  <2>5. Stands(process', disk')
    BY <1>4, <2>1, <2>2 DEF Stands
  <2>4. DeliveredSound'
    BY <1>1, <1>4, <2>2, <2>3, <2>5 DEF DeliveredSound, Stands, CombinedMade, MembersMade, AstMade, In
  <2> QED BY <1>1, <2>2, <2>4, Continues
<1> QED BY <1>3, <1>8, <1>9

LEMMA FinishNext ==
  ASSUME CInv, Finish
  PROVE  CInv'
<1>1. /\ In("output") /\ process.todo = {} /\ UNCHANGED <<program, stack, result, args, disk, runs>>
      /\ (process.error /\ Exit(1)) \/ (~process.error /\ Exit(0))
  BY DEF Finish
<1> QED BY <1>1, EndsCompiled
-----------------------------------------------------------------------------
LEMMA CInitInv == CInit => CInv
<1> SUFFICES ASSUME CInit PROVE CInv
  OBVIOUS
<1>1. /\ args \in Invocations /\ program = args.program /\ stack = Fresh /\ result = "none"
      /\ process = [Process EXCEPT !.phase = "exited"] /\ disk = EmptyDisk /\ runs = 0
  BY DEF CInit
<1> DEFINE none == [n \in Names |-> Nothing]
           given == [n \in Names |-> {}]
<1>2. none \in Objects /\ given \in Given
  BY DEF Objects, Contents, Nothing, Given
<1>3. /\ process = [phase |-> "exited", sourceCodes |-> {}, foreign |-> {}, todo |-> {},
                    linked |-> none, delivered |-> {}, members |-> {}, lost |-> {},
                    unwritten |-> FALSE, error |-> FALSE, exit |-> 0]
      /\ disk = [files |-> {}, damaged |-> {}, object |-> none,
                 compiledWith |-> given, linkedWith |-> given]
  BY <1>1 DEF Process, EmptyDisk
<1> HIDE DEF none, given
<1>4. process \in Processes /\ disk \in Disks
  BY <1>2, <1>3 DEF Processes, Disks, Phases
<1>5. CTypeOK
  BY <1>1, <1>4, ArgsType, FreshSound DEF CTypeOK
<1>6. FilesSound /\ LinkSound /\ ResultSound /\ DeliveredSound /\ ExitCodeTruthful
  BY <1>1, <1>3 DEF FilesSound, LinkSound, ResultSound, DeliveredSound, ExitCodeTruthful, Compiled, Exited, In
<1> QED BY <1>5, <1>6 DEF CInv

LEMMA CNextInv == CInv /\ [CNext]_cvars => CInv'
<1> SUFFICES ASSUME CInv, [CNext]_cvars PROVE CInv'
  OBVIOUS
<1>1. CASE UNCHANGED cvars
  <2>1. UNCHANGED <<program, stack, result, args, process, disk>>
    BY <1>1 DEF cvars
  <2>2. CTypeOK' /\ FilesSound'
    BY <2>1 DEF CInv, CTypeOK, FilesSound
  <2>3. LinkSound'
    BY <2>1 DEF CInv, LinkSound, Refused, NoneLeft, Linked, In
  <2>4. ResultSound'
    BY <2>1 DEF CInv, ResultSound, In
  <2>5. DeliveredSound'
    BY <2>1 DEF CInv, DeliveredSound, Stands, CombinedMade, MembersMade, AstMade, In
  <2>6. ExitCodeTruthful'
    BY <1>1 DEF CInv, ExitCodeTruthful, Compiled, Exited, In, cvars
  <2> QED BY <2>2, <2>3, <2>4, <2>5, <2>6 DEF CInv
<1> QED BY <1>1, RunNext, BeforeCompilation, LinkNext, WriteLinkedNext, CompileInputNext, CombinedNext,
           AstNext, OutputNext, FinishNext DEF CNext

\* Whatever command lines follow each other on a disk, and wherever writing a
\* file fails.
THEOREM CInductive == CSpec => []CInv
BY CInitInv, CNextInv, PTL DEF CSpec

\* main returns what the two halves of the run, m_error and the exceptions say:
\* zero only if all outputs that code looks at were written as far as the process
\* could see, and something else only if that could not be.
THEOREM ExitCodeTold == CSpec => []ExitCodeTruthful
<1>1. CInv => ExitCodeTruthful
  BY DEF CInv
<1> QED BY <1>1, CInductive, PTL

\* link replaces the placeholders and removes the lines of exactly the libraries
\* it is given by their qualified names, also in steps and with runs in between
\* that fail or damage other files; compilation does so for simple names as well,
\* and leaves out the last byte of the addresses it fills in.
THEOREM LinkedInSteps == CSpec => []LinkedAsCompiled
<1>1. CInv => LinkedAsCompiled
  BY DEF CInv, FilesSound, Expected, LinkSound, Refused, NoneLeft, LinkedAsCompiled, Exited
<1> QED BY <1>1, CInductive, PTL
=============================================================================
