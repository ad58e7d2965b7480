------------------------ MODULE CompilerStackProofs ------------------------
(***************************************************************************)
(* For every set of programs and settings: code is only kept for what was  *)
(* analysed without an error, and bytecode together with what it contains. *)
(***************************************************************************)
EXTENDS CompilerStack, TLAPS

-----------------------------------------------------------------------------
(***************************************************************************)
(* The operators the phases are built from.                                *)
(***************************************************************************)
\* A program of the instance has the fields of a program.
LEMMA ProgramType ==
  ASSUME program \in Programs
  PROVE  /\ program.order \in Seq(Names)
         /\ program.imports \in [Names -> SUBSET Names]
         /\ program.unparsable \subseteq Names
         /\ program.missing \subseteq Names
         /\ program.analysis \in [Names -> Outcomes]
         /\ program.deployable \subseteq Names
         /\ program.rejected \subseteq Names
BY ProgramsAssumption DEF Program

\* A contract needs itself.
LEMMA NeedsReflexive ==
  ASSUME NEW n \in Names
  PROVE  n \in Needs(n)
BY DEF Needs

\* What a contract needs stays within every set that is closed under imports.
LEMMA NeedsLeast ==
  ASSUME NEW T \in SUBSET Names, NEW n \in T,
         \A k \in T : program.imports[k] \subseteq T
  PROVE  Needs(n) \subseteq T
BY DEF Needs

\* The needs of a contract are closed under imports.
LEMMA NeedsClosed ==
  ASSUME program \in Programs, NEW n, NEW k \in Needs(n)
  PROVE  program.imports[k] \subseteq Needs(n)
<1>1. k \in Names /\ program.imports[k] \subseteq Names
  BY ProgramType DEF Needs
<1> QED BY <1>1 DEF Needs

\* What a needed contract needs is needed.
LEMMA NeedsTransitive ==
  ASSUME program \in Programs, NEW n, NEW m \in Needs(n)
  PROVE  Needs(m) \subseteq Needs(n)
<1>1. Needs(n) \in SUBSET Names
  BY DEF Needs
<1> QED BY <1>1, NeedsClosed, NeedsLeast

\* The index of a source in the order is where it stands.
LEMMA IndexPlace ==
  ASSUME program \in Programs, NEW i \in DOMAIN program.order
  PROVE  Index(program.order[i]) = i
<1>1. \A j \in DOMAIN program.order : program.order[j] = program.order[i] => j = i
  BY ProgramsAssumption
<1> QED BY <1>1 DEF Index

\* What a contract needs does not come after it in the order of the sources.
LEMMA NeedsPrecede ==
  ASSUME program \in Programs, NEW n \in Names, NEW m \in Needs(n)
  PROVE  m = n \/ Precedes(program, m, n)
<1> DEFINE T == {k \in Names : k = n \/ Precedes(program, k, n)}
<1>1. ASSUME NEW k \in T, NEW j \in program.imports[k] PROVE j \in T
  <2>1. k \in Names /\ j \in Names
    BY <1>1, ProgramType
  <2>2. Precedes(program, j, k)
    BY <1>1, <2>1, ProgramsAssumption
  <2>3. CASE k = n
    BY <2>1, <2>2, <2>3
  <2>4. CASE Precedes(program, k, n)
    <3>1. PICK a, b \in DOMAIN program.order :
             a < b /\ program.order[a] = j /\ program.order[b] = k
      BY <2>2 DEF Precedes
    <3>2. PICK c, d \in DOMAIN program.order :
             c < d /\ program.order[c] = k /\ program.order[d] = n
      BY <2>4 DEF Precedes
    <3>3. b = c
      BY <3>1, <3>2, ProgramsAssumption
    <3>4. a \in Nat /\ b \in Nat /\ d \in Nat
      BY ProgramType
    <3>5. a < d
      BY <3>1, <3>2, <3>3, <3>4
    <3> QED BY <2>1, <3>1, <3>2, <3>5 DEF Precedes
  <2> QED BY <1>1, <2>3, <2>4
<1>2. Needs(n) \subseteq T
  BY <1>1, NeedsLeast
<1> QED BY <1>2

\* ... so that its index is not larger.
LEMMA NeedsIndex ==
  ASSUME program \in Programs, NEW n \in Names, NEW m \in Needs(n)
  PROVE  Index(m) = Index(n) \/ (Index(m) \in Nat /\ Index(n) \in Nat /\ Index(m) < Index(n))
<1>1. CASE Precedes(program, m, n)
  <2>1. PICK a, b \in DOMAIN program.order :
           a < b /\ program.order[a] = m /\ program.order[b] = n
    BY <1>1 DEF Precedes
  <2>2. a \in Nat /\ b \in Nat
    BY ProgramType
  <2>3. Index(m) = a /\ Index(n) = b
    BY <2>1, IndexPlace
  <2> QED BY <2>1, <2>2, <2>3
<1> QED BY <1>1, NeedsPrecede

\* Only a contract in the order of the sources needs others.
LEMMA NeedsOrdered ==
  ASSUME program \in Programs, NEW n \in Names, NEW m \in Needs(n), m # n
  PROVE  /\ Index(n) \in Nat
         /\ \A b \in Needs(n) : Index(b) \in Nat
<1>1. PICK i, j \in DOMAIN program.order :
         i < j /\ program.order[i] = m /\ program.order[j] = n
  BY NeedsPrecede DEF Precedes
<1>2. Index(n) \in Nat
  BY <1>1, IndexPlace, ProgramType
<1> QED BY <1>2, NeedsIndex

\* compileContract: whatever was generated for a target before a contract was
\* rejected includes all that it needs itself.
LEMMA GeneratedClosed ==
  ASSUME program \in Programs, NEW n \in Names, NEW m \in GeneratedFor(n)
  PROVE  Needs(m) \subseteq GeneratedFor(n)
<1>1. m \in Needs(n) /\ m \in Names
  BY DEF GeneratedFor, Needs
<1> SUFFICES ASSUME NEW k \in Needs(m), k # m PROVE k \in GeneratedFor(n)
  OBVIOUS
<1>2. k \in Needs(n)
  BY <1>1, NeedsTransitive
<1>3. Index(k) \in Nat /\ Index(m) \in Nat /\ (Index(k) = Index(m) \/ Index(k) < Index(m))
  BY <1>1, NeedsIndex, NeedsOrdered
<1>4. ASSUME NEW b \in Needs(n) \cap program.rejected PROVE Index(k) < Index(b)
  <2>1. Index(m) < Index(b)
    BY <1>4 DEF GeneratedFor
  <2>2. Index(b) \in Nat
    <3>1. k # n \/ m # n
      OBVIOUS
    <3> QED BY <1>1, <1>2, <3>1, NeedsOrdered
  <2> QED BY <1>3, <2>1, <2>2
<1> QED BY <1>2, <1>4 DEF GeneratedFor

\* If nothing a target needs is rejected, all of it is generated.
LEMMA GeneratedWhole ==
  ASSUME NEW n, Needs(n) \cap program.rejected = {}
  PROVE  GeneratedFor(n) = Needs(n)
BY DEF GeneratedFor
-----------------------------------------------------------------------------
(***************************************************************************)
(* The invariant of the fields, between calls and between the phases of a  *)
(* call: no code before the analysis, ...                                  *)
(***************************************************************************)
NoCode(s) == s.object = {} /\ s.yulIR = {} /\ s.ewasm = {}

\* ... every source without an AST remembered as an error, ...
AstSound(s) ==
    /\ ~s.hasError => s.withoutAst = {}
    /\ s.stackState = Empty => s.withoutAst = {}
    /\ s.stackState >= ParsedAndImported => s.sources \cap program.unparsable \subseteq s.withoutAst

\* ... the analysed sources closed under imports and with all those that were
\* requested when they were analysed, ...
Covers(order, sources, requests) ==
    \A n \in sources : requests = {} \/ (\E r \in requests : r[1] \in {"", n}) => n \in order
OrderSound(s) ==
    /\ s.stackState >= AnalysisPerformed /\ ~s.hasError =>
          \A n \in s.sourceOrder : program.imports[n] \subseteq s.sourceOrder
    /\ s.stackState >= AnalysisPerformed => Covers(s.sourceOrder, s.sources, s.analysedFor)
    /\ s.contracts \subseteq s.sources
    /\ s.stackState = Empty => s.contracts = {}

\* ... and code for analysed contracts only, together with what it contains.
CodeSound(s) ==
    /\ s.stackState < AnalysisPerformed \/ s.hasError => NoCode(s)
    /\ s.object \cup s.yulIR \cup s.ewasm \subseteq s.sourceOrder
    /\ ~s.guarded.viaIR =>
          \A n \in s.object : Needs(n) \cap program.deployable \subseteq s.object

Sound(s) == AstSound(s) /\ OrderSound(s) /\ CodeSound(s)

\* An outcome that keeps the types and the invariant.
SoundOutcome(o) == o.s \in Fields /\ o.r \in Results /\ Sound(o.s)

\* Throwing leaves everything as it was.
LEMMA ThrowSound ==
  ASSUME NEW s \in Fields, Sound(s)
  PROVE  SoundOutcome(Throw(s))
BY DEF SoundOutcome, Throw, Results

\* A returned value is a result.
LEMMA ReturnSound ==
  ASSUME NEW s \in Fields, Sound(s), NEW b
  PROVE  SoundOutcome(Return(s, b))
BY DEF SoundOutcome, Return, Results

\* The setting of the last stage is not looked at by the invariant.
LEMMA StopAfterSound ==
  ASSUME NEW s \in Fields, Sound(s), NEW stop \in States
  PROVE  [s EXCEPT !.stopAfter = stop] \in Fields /\ Sound([s EXCEPT !.stopAfter = stop])
<1>1. [s EXCEPT !.stopAfter = stop] \in Fields
  BY DEF Fields
<1> QED BY <1>1 DEF Fields, Sound, AstSound, OrderSound, CodeSound, NoCode

\* An update of the fields that parse writes.
LEMMA ParseFields ==
  ASSUME NEW s \in Fields, NEW errors \in BOOLEAN, NEW hasError \in BOOLEAN, NEW stage \in States,
         NEW sources \in SUBSET Names, NEW withoutAst \in SUBSET Names, NEW contracts \in SUBSET Names
  PROVE  [s EXCEPT !.errors = errors, !.hasError = hasError, !.stackState = stage,
                   !.sources = sources, !.withoutAst = withoutAst, !.contracts = contracts] \in Fields
BY DEF Fields

\* An update of the fields that analyze writes.
LEMMA AnalyzeFields ==
  ASSUME NEW s \in Fields, NEW sourceOrder \in SUBSET Names, NEW errors \in BOOLEAN,
         NEW stage \in States, NEW hasError \in BOOLEAN
  PROVE  /\ [s EXCEPT !.sourceOrder = sourceOrder, !.analysedFor = s.open.requestedContractNames,
                      !.errors = errors] \in Fields
         /\ [s EXCEPT !.stackState = stage, !.hasError = hasError] \in Fields
<1>1. s.open.requestedContractNames \in SUBSET Requests
  BY DEF Fields, OpenSettings
<1> QED BY <1>1 DEF Fields

\* parse changes the sources before there is any code.
LEMMA ParseSound ==
  ASSUME program \in Programs, NEW s \in Fields, Sound(s)
  PROVE  SoundOutcome(Parse(s))
<1>1. CASE s.stackState # SourcesSet
  BY <1>1, ThrowSound DEF Parse
<1>2. CASE s.stackState = SourcesSet
  <2> DEFINE loaded == Loaded(s)
             parsed == loaded \ program.unparsable
             err == \/ parsed # loaded
                    \/ s.stopAfter >= ParsedAndImported /\ WithMissingImports(loaded) # {}
             failed == s.hasError \/ err
             stage == IF s.stopAfter <= Parsed THEN Parsed ELSE ParsedAndImported
             without == loaded \ parsed
             contracts == s.contracts \cup parsed
             t == [s EXCEPT !.errors = err, !.hasError = failed, !.stackState = stage,
                            !.sources = loaded, !.withoutAst = without, !.contracts = contracts]
  <2>1. Parse(s) = Return(t, ~(s.hasError \/ err))
    BY <1>2 DEF Parse
  <2>2. loaded \in SUBSET Names
    BY DEF Loaded, Fields
  <2> HIDE DEF loaded
  <2>3. without \in SUBSET Names /\ contracts \in SUBSET Names
    BY <2>2 DEF Fields
  <2>4. err \in BOOLEAN /\ failed \in BOOLEAN
    OBVIOUS
  <2>5. stage \in {Parsed, ParsedAndImported} /\ stage \in States
    BY DEF States, Parsed, ParsedAndImported
  <2>6. /\ t \in Fields
        /\ t.hasError = failed /\ t.sources = loaded /\ t.withoutAst = without /\ t.stackState = stage
        /\ t.object = s.object /\ t.yulIR = s.yulIR /\ t.ewasm = s.ewasm
        /\ t.guarded = s.guarded /\ t.sourceOrder = s.sourceOrder /\ t.contracts = contracts
    <3> HIDE DEF err, failed, stage, without, contracts
    <3>1. t \in Fields
      BY <2>2, <2>3, <2>4, <2>5, ParseFields
    <3> QED BY <3>1 DEF Fields
  <2>7. NoCode(s)
    BY <1>2 DEF Sound, CodeSound, SourcesSet, AnalysisPerformed
  <2>8. AstSound(t)
    <3>1. ~failed => without = {}
      OBVIOUS
    <3>2. loaded \cap program.unparsable \subseteq without
      OBVIOUS
    <3> HIDE DEF t, failed, stage, without
    <3> QED BY <3>1, <3>2, <2>5, <2>6 DEF AstSound, Empty, Parsed, ParsedAndImported
  <2>9. contracts \subseteq loaded
    <3>1. s.contracts \subseteq s.sources /\ s.sources \subseteq Names
      BY DEF Sound, OrderSound, Fields
    <3>2. s.sources \subseteq loaded
      BY <3>1 DEF loaded, Loaded
    <3> QED BY <3>1, <3>2
  <2> HIDE DEF t, failed, stage, contracts
  <2>10. OrderSound(t) /\ CodeSound(t)
    BY <2>5, <2>6, <2>7, <2>9 DEF OrderSound, CodeSound, NoCode, Empty, Parsed, ParsedAndImported, AnalysisPerformed
  <2> QED BY <2>10, <2>1, <2>6, <2>8, <2>9, ReturnSound DEF Sound
<1> QED BY <1>1, <1>2

\* resolveImports: unless an import is missing, the sources that are analysed
\* are closed under imports as far as they have an AST.
LEMMA SourceOrderClosed ==
  ASSUME program \in Programs, NEW s \in Fields, AstSound(s),
         s.stackState = ParsedAndImported,
         SourceOrder(s) \cap WithMissingImports(s.sources) = {},
         NEW n \in SourceOrder(s) \ s.withoutAst
  PROVE  program.imports[n] \subseteq SourceOrder(s)
<1>1. n \in s.sources /\ n \notin program.unparsable
  BY DEF SourceOrder, AstSound, Fields, ParsedAndImported
<1>2. program.imports[n] \subseteq s.sources
  BY <1>1 DEF WithMissingImports
<1>3. \A T \in SUBSET s.sources :
         {m \in s.sources : IsRequestedSource(s, m)} \subseteq T /\ ImportClosed(s, T)
            => program.imports[n] \subseteq T
  BY DEF SourceOrder, ImportClosed
<1> QED BY <1>2, <1>3 DEF SourceOrder

\* analyze fixes the order of the sources before there is any code.
LEMMA AnalyzeSound ==
  ASSUME program \in Programs, NEW s \in Fields, Sound(s)
  PROVE  SoundOutcome(Analyze(s))
<1> DEFINE order == SourceOrder(s)
           asts  == order \ s.withoutAst
           found == {program.analysis[n] : n \in asts}
           some  == s.errors \/ found \notin SUBSET {"ok"}
           late  == s.hasError \/ "late" \in found
           t     == [s EXCEPT !.sourceOrder = order, !.analysedFor = s.open.requestedContractNames,
                              !.errors = some]
           u     == [t EXCEPT !.stackState = AnalysisPerformed, !.hasError = late]
<1>1. CASE s.stackState # ParsedAndImported \/ order \cap WithMissingImports(s.sources) # {}
  BY <1>1, ThrowSound DEF Analyze
<1>2. CASE s.stackState = ParsedAndImported /\ order \cap WithMissingImports(s.sources) = {}
  <2>1. order \in SUBSET Names
    BY DEF SourceOrder, Fields
  <2>2. NoCode(s)
    BY <1>2 DEF Sound, CodeSound, ParsedAndImported, AnalysisPerformed
  <2>3. ~s.hasError => \A n \in order : program.imports[n] \subseteq order
    BY <1>2, SourceOrderClosed DEF Sound, AstSound
  <2> DEFINE names == s.open.requestedContractNames
  <2>10. Covers(order, s.sources, names)
    BY DEF Covers, SourceOrder, IsRequestedSource
  <2> HIDE DEF names
  <2>4. Analyze(s) = Return(t, FALSE) \/ Analyze(s) = Return(u, ~u.hasError)
    BY <1>2 DEF Analyze, Fields
  <2> some \in BOOLEAN /\ late \in BOOLEAN /\ (~late => ~s.hasError)
    OBVIOUS
  <2> HIDE DEF order, found, some, late
  <2>5. t \in Fields /\ u \in Fields
    <3>1. AnalysisPerformed \in States
      BY DEF AnalysisPerformed, States
    <3>2. t \in Fields
      BY <2>1, <3>1, AnalyzeFields
    <3> HIDE DEF t
    <3> QED BY <3>1, <3>2, AnalyzeFields
  <2>6. /\ t.stackState = ParsedAndImported /\ t.hasError = s.hasError /\ t.sourceOrder = order
        /\ t.withoutAst = s.withoutAst /\ t.sources = s.sources /\ t.guarded = s.guarded
        /\ t.contracts = s.contracts
        /\ t.object = s.object /\ t.yulIR = s.yulIR /\ t.ewasm = s.ewasm
    BY <1>2 DEF Fields
  <2>7. /\ u.stackState = AnalysisPerformed /\ (~u.hasError => ~s.hasError) /\ u.sourceOrder = order
        /\ u.withoutAst = s.withoutAst /\ u.sources = s.sources /\ u.guarded = s.guarded
        /\ u.contracts = s.contracts /\ u.analysedFor = names
        /\ u.object = s.object /\ u.yulIR = s.yulIR /\ u.ewasm = s.ewasm
    BY <1>2 DEF Fields, names
  <2> HIDE DEF t, u
  <2>8. Sound(t)
    BY <1>2, <2>2, <2>6 DEF Sound, AstSound, OrderSound, CodeSound, NoCode,
          Empty, ParsedAndImported, AnalysisPerformed
  <2>9. Sound(u)
    BY <1>2, <2>2, <2>3, <2>7, <2>10 DEF Sound, AstSound, OrderSound, CodeSound, NoCode,
          Empty, ParsedAndImported, AnalysisPerformed
  <2> QED BY <2>4, <2>5, <2>8, <2>9, ReturnSound
<1> QED BY <1>1, <1>2

\* analyze returns true only when the analysis was performed, and does not reach
\* the last stage.
LEMMA AnalyzeStage ==
  ASSUME NEW s \in Fields
  PROVE  /\ Analyze(s).r = "true" => Analyze(s).s.stackState = AnalysisPerformed
         /\ s.stackState # CompilationSuccessful => Analyze(s).s.stackState # CompilationSuccessful
<1> DEFINE order == SourceOrder(s)
           found == {program.analysis[n] : n \in order \ s.withoutAst}
           some  == s.errors \/ found \notin SUBSET {"ok"}
           t     == [s EXCEPT !.sourceOrder = order, !.analysedFor = s.open.requestedContractNames,
                              !.errors = some]
           err   == t.hasError \/ "late" \in found
           u     == [t EXCEPT !.stackState = AnalysisPerformed, !.hasError = err]
<1>1. \/ Analyze(s) = Throw(s)
      \/ Analyze(s) = Return(t, FALSE)
      \/ Analyze(s) = Return(u, ~err)
  BY DEF Analyze
<1> HIDE DEF order, found, some, err
<1>2. t.stackState = s.stackState /\ u.stackState = AnalysisPerformed
  BY DEF Fields
<1>3. AnalysisPerformed # CompilationSuccessful
  BY DEF AnalysisPerformed, CompilationSuccessful
<1> HIDE DEF t, u
<1> QED BY <1>1, <1>2, <1>3 DEF Throw, Return

\* parseAndAnalyze is sound, and returns true before the last stage only after
\* the analysis.
LEMMA ParseAndAnalyzeSound ==
  ASSUME program \in Programs, NEW s \in Fields, Sound(s), NEW stop \in States
  PROVE  /\ SoundOutcome(ParseAndAnalyze(s, stop))
         /\ ParseAndAnalyze(s, stop).r = "true" =>
               \/ ParseAndAnalyze(s, stop).s.stackState >= stop
               \/ ParseAndAnalyze(s, stop).s.stackState = AnalysisPerformed
<1> DEFINE p == Parse([s EXCEPT !.stopAfter = stop])
           o == ParseAndAnalyze(s, stop)
<1> SUFFICES /\ SoundOutcome(o)
             /\ o.r = "true" => o.s.stackState >= stop \/ o.s.stackState = AnalysisPerformed
  OBVIOUS
<1>1. SoundOutcome(p)
  BY StopAfterSound, ParseSound
<1>2. (o = p /\ (p.r = "throw" \/ p.s.stackState >= stop \/ p.r = "false")) \/ o = Analyze(p.s)
  BY DEF ParseAndAnalyze
<1> HIDE DEF p, o
<1>3. CASE o = p /\ (p.r = "throw" \/ p.s.stackState >= stop \/ p.r = "false")
  BY <1>1, <1>3
<1>4. CASE o = Analyze(p.s)
  BY <1>1, <1>4, AnalyzeSound, AnalyzeStage DEF SoundOutcome
<1> QED BY <1>2, <1>3, <1>4

\* An update of the fields that code generation writes.
LEMMA GenerateFields ==
  ASSUME NEW s \in Fields, NEW yulIR \in SUBSET Names, NEW object \in SUBSET Names,
         NEW ewasm \in SUBSET Names
  PROVE  [s EXCEPT !.yulIR = yulIR, !.object = object, !.ewasm = ewasm] \in Fields
BY DEF Fields

\* Code generation on analysed sources without errors is sound: it follows the
\* needs of its targets within the sources that were analysed.
LEMMA GenerateSound ==
  ASSUME program \in Programs, NEW s \in Fields, Sound(s),
         s.stackState >= AnalysisPerformed, ~s.hasError
  PROVE  /\ Generate(s) \in Fields
         /\ Sound(Generate(s))
         /\ Generate(s).stackState = s.stackState
         /\ Generate(s).hasError = s.hasError
<1> DEFINE reached == Reached(s, Targets(s))
           passed  == {n \in reached : Needs(n) \cap program.rejected = {}}
           all     == (UNION {GeneratedFor(n) : n \in reached}) \cap program.deployable
           whole   == (UNION {Needs(n) : n \in passed}) \cap program.deployable
           yulIR   == IF NeedsIR(s) THEN s.yulIR \cup all ELSE s.yulIR
           object  == IF ~s.open.generateEvmBytecode THEN s.object
                      ELSE IF s.guarded.viaIR THEN s.object \cup (passed \cap program.deployable)
                      ELSE IF NeedsIR(s) THEN s.object \cup whole
                      ELSE s.object \cup all
           ewasm   == IF s.open.generateEwasm THEN s.ewasm \cup (passed \cap program.deployable)
                                              ELSE s.ewasm
           g == [s EXCEPT !.yulIR = yulIR, !.object = object, !.ewasm = ewasm]
<1>1. Generate(s) = g
  BY DEF Generate
<1>2. s.sourceOrder \in SUBSET Names /\ (s.object \cup s.yulIR \cup s.ewasm) \subseteq s.sourceOrder
  BY DEF Fields, Sound, CodeSound
<1>3. \A n \in s.sourceOrder : Needs(n) \subseteq s.sourceOrder
  BY <1>2, NeedsLeast DEF Sound, OrderSound
<1>4. reached \subseteq s.sourceOrder
  BY DEF Reached, Targets
<1> HIDE DEF reached
<1>5. \A n : GeneratedFor(n) \subseteq Needs(n)
  BY DEF GeneratedFor
<1>6. all \subseteq s.sourceOrder /\ whole \subseteq s.sourceOrder /\ passed \subseteq s.sourceOrder
  BY <1>3, <1>4, <1>5
<1>7. \A n \in all : Needs(n) \cap program.deployable \subseteq all
  <2> SUFFICES ASSUME NEW n \in reached, NEW m \in GeneratedFor(n)
               PROVE  Needs(m) \subseteq GeneratedFor(n)
    OBVIOUS
  <2>1. n \in Names
    BY <1>2, <1>4
  <2> QED BY <2>1, GeneratedClosed
<1>8. \A n \in whole : Needs(n) \cap program.deployable \subseteq whole
  BY NeedsTransitive
<1> HIDE DEF passed, all, whole
<1>9. yulIR \cup object \cup ewasm \subseteq s.sourceOrder
  BY <1>2, <1>6
<1>10. ~s.guarded.viaIR => \A n \in object : Needs(n) \cap program.deployable \subseteq object
  <2>1. ASSUME ~s.guarded.viaIR PROVE object \in {s.object, s.object \cup whole, s.object \cup all}
    BY <2>1
  <2>2. ASSUME ~s.guarded.viaIR PROVE \A n \in s.object : Needs(n) \cap program.deployable \subseteq s.object
    BY <2>2 DEF Sound, CodeSound
  <2> HIDE DEF object
  <2> QED BY <1>7, <1>8, <2>1, <2>2
<1> HIDE DEF yulIR, object, ewasm
<1>11. g \in Fields
  BY <1>2, <1>9, GenerateFields
<1>12. /\ g.yulIR = yulIR /\ g.object = object /\ g.ewasm = ewasm
       /\ g.stackState = s.stackState /\ g.hasError = s.hasError /\ g.withoutAst = s.withoutAst
       /\ g.sources = s.sources /\ g.sourceOrder = s.sourceOrder /\ g.guarded = s.guarded
       /\ g.contracts = s.contracts /\ g.analysedFor = s.analysedFor
  BY DEF Fields
<1> HIDE DEF g
<1>13. AstSound(g) /\ OrderSound(g)
  BY <1>12 DEF Sound, AstSound, OrderSound
<1>14. CodeSound(g)
  BY <1>9, <1>10, <1>12 DEF CodeSound, Fields, States, AnalysisPerformed
<1> QED BY <1>1, <1>11, <1>12, <1>13, <1>14 DEF Sound

\* parse does not reach the last stage.
LEMMA ParseStage ==
  ASSUME NEW s \in Fields, s.stackState # CompilationSuccessful
  PROVE  Parse(s).s.stackState # CompilationSuccessful
<1> DEFINE loaded == Loaded(s)
           parsed == loaded \ program.unparsable
           err == \/ parsed # loaded
                  \/ s.stopAfter >= ParsedAndImported /\ WithMissingImports(loaded) # {}
           failed == s.hasError \/ err
           stage == IF s.stopAfter <= Parsed THEN Parsed ELSE ParsedAndImported
           without == loaded \ parsed
           contracts == s.contracts \cup parsed
           t == [s EXCEPT !.errors = err, !.hasError = failed, !.stackState = stage,
                          !.sources = loaded, !.withoutAst = without, !.contracts = contracts]
<1>1. Parse(s) = Throw(s) \/ Parse(s) = Return(t, ~(s.hasError \/ err))
  BY DEF Parse
<1>2. stage # CompilationSuccessful
  BY DEF Parsed, ParsedAndImported, CompilationSuccessful
<1> HIDE DEF loaded, parsed, err, failed, stage, without, contracts
<1>3. t.stackState = stage
  BY DEF Fields
<1> HIDE DEF t
<1> QED BY <1>1, <1>2, <1>3 DEF Throw, Return

\* Neither does parseAndAnalyze.
LEMMA ParseAndAnalyzeStage ==
  ASSUME program \in Programs, NEW s \in Fields, Sound(s), NEW stop \in States,
         s.stackState # CompilationSuccessful
  PROVE  ParseAndAnalyze(s, stop).s.stackState # CompilationSuccessful
<1> DEFINE s0 == [s EXCEPT !.stopAfter = stop]
           p == Parse(s0)
<1>1. s0 \in Fields /\ Sound(s0)
  BY StopAfterSound
<1>2. s0.stackState = s.stackState
  BY DEF Fields
<1>3. ParseAndAnalyze(s, stop) = p \/ ParseAndAnalyze(s, stop) = Analyze(p.s)
  BY DEF ParseAndAnalyze
<1> HIDE DEF s0
<1>4. p.s \in Fields /\ p.s.stackState # CompilationSuccessful
  BY <1>1, <1>2, ParseSound, ParseStage DEF SoundOutcome
<1> HIDE DEF p
<1> QED BY <1>3, <1>4, AnalyzeStage

\* Every requested contract among the analysed ones that can be deployed has
\* each kind of code that is asked for.
CompleteCode(s) ==
    LET targets == Targets(s) \cap program.deployable
    IN /\ s.open.generateEvmBytecode => targets \subseteq s.object
       /\ s.open.generateEwasm => targets \subseteq s.ewasm
       /\ NeedsIR(s) => targets \subseteq s.yulIR

\* The loop of compile leaves out no target unless one is rejected.
LEMMA GenerateComplete ==
  ASSUME program \in Programs, NEW s \in Fields,
         NeedsIR(s) \/ s.open.generateEvmBytecode => Failing(s) = {}
  PROVE  CompleteCode([Generate(s) EXCEPT !.stackState = CompilationSuccessful])
<1> DEFINE reached == Reached(s, Targets(s))
           passed  == {n \in reached : Needs(n) \cap program.rejected = {}}
           all     == (UNION {GeneratedFor(n) : n \in reached}) \cap program.deployable
           whole   == (UNION {Needs(n) : n \in passed}) \cap program.deployable
           yulIR   == IF NeedsIR(s) THEN s.yulIR \cup all ELSE s.yulIR
           object  == IF ~s.open.generateEvmBytecode THEN s.object
                      ELSE IF s.guarded.viaIR THEN s.object \cup (passed \cap program.deployable)
                      ELSE IF NeedsIR(s) THEN s.object \cup whole
                      ELSE s.object \cup all
           ewasm   == IF s.open.generateEwasm THEN s.ewasm \cup (passed \cap program.deployable)
                                              ELSE s.ewasm
           g == [s EXCEPT !.yulIR = yulIR, !.object = object, !.ewasm = ewasm]
           c == [g EXCEPT !.stackState = CompilationSuccessful]
           targets == Targets(s) \cap program.deployable
<1>1. Generate(s) = g
  BY DEF Generate
<1>2. Targets(s) \subseteq Names
  BY DEF Targets, Fields
<1>3. ASSUME NeedsIR(s) \/ s.open.generateEvmBytecode
      PROVE  targets \subseteq all /\ targets \subseteq whole /\ targets \subseteq passed
  <2>1. reached = Targets(s) /\ passed = Targets(s)
    BY <1>3 DEF Reached, Failing
  <2>2. \A n \in Targets(s) : n \in Needs(n) /\ n \in GeneratedFor(n)
    <3> SUFFICES ASSUME NEW n \in Targets(s) PROVE n \in Needs(n) /\ n \in GeneratedFor(n)
      OBVIOUS
    <3>1. n \in Needs(n)
      BY <1>2, NeedsReflexive
    <3>2. Needs(n) \cap program.rejected = {}
      BY <1>3 DEF Failing
    <3> QED BY <3>1, <3>2, GeneratedWhole
  <2> QED BY <2>1, <2>2
<1> HIDE DEF passed, all, whole
<1>4. /\ s.open.generateEvmBytecode => targets \subseteq object
      /\ s.open.generateEwasm => targets \subseteq ewasm
      /\ NeedsIR(s) => targets \subseteq yulIR
  BY <1>3 DEF NeedsIR
<1> HIDE DEF yulIR, object, ewasm
<1>5. /\ c.yulIR = yulIR /\ c.object = object /\ c.ewasm = ewasm
      /\ c.open = s.open /\ c.guarded = s.guarded /\ c.sourceOrder = s.sourceOrder
  BY DEF Fields
<1> HIDE DEF g, c
<1>6. Targets(c) = Targets(s) /\ NeedsIR(c) = NeedsIR(s)
  BY <1>5 DEF Targets, IsRequestedContract, NeedsIR
<1>7. CompleteCode(c)
  BY <1>4, <1>5, <1>6 DEF CompleteCode
<1> QED BY <1>1, <1>7 DEF c

\* The two ends of compile after code generation.
LEMMA GeneratedSound ==
  ASSUME program \in Programs, NEW s \in Fields, Sound(s),
         s.stackState >= AnalysisPerformed, ~s.hasError
  PROVE  /\ [Generate(s) EXCEPT !.errors = TRUE] \in Fields
         /\ Sound([Generate(s) EXCEPT !.errors = TRUE])
         /\ [Generate(s) EXCEPT !.errors = TRUE].stackState = s.stackState
         /\ [Generate(s) EXCEPT !.stackState = CompilationSuccessful] \in Fields
         /\ Sound([Generate(s) EXCEPT !.stackState = CompilationSuccessful])
<1> DEFINE g == Generate(s)
           e == [g EXCEPT !.errors = TRUE]
           c == [g EXCEPT !.stackState = CompilationSuccessful]
<1>1. g \in Fields /\ Sound(g) /\ g.stackState = s.stackState /\ g.hasError = s.hasError
  BY GenerateSound
<1> HIDE DEF g
<1>2. e \in Fields /\ c \in Fields /\ g.stackState \in States
  <2>1. CompilationSuccessful \in States
    BY DEF States, CompilationSuccessful
  <2>2. \A b \in BOOLEAN : [g EXCEPT !.errors = b] \in Fields
    BY <1>1 DEF Fields
  <2> QED BY <1>1, <2>1, <2>2 DEF Fields
<1>3. /\ e.stackState = g.stackState /\ c.stackState = CompilationSuccessful
      /\ e.hasError = g.hasError /\ c.hasError = g.hasError
      /\ e.withoutAst = g.withoutAst /\ c.withoutAst = g.withoutAst
      /\ e.sources = g.sources /\ c.sources = g.sources
      /\ e.sourceOrder = g.sourceOrder /\ c.sourceOrder = g.sourceOrder
      /\ e.contracts = g.contracts /\ c.contracts = g.contracts
      /\ e.analysedFor = g.analysedFor /\ c.analysedFor = g.analysedFor
      /\ e.guarded = g.guarded /\ c.guarded = g.guarded
      /\ e.object = g.object /\ e.yulIR = g.yulIR /\ e.ewasm = g.ewasm
      /\ c.object = g.object /\ c.yulIR = g.yulIR /\ c.ewasm = g.ewasm
  BY <1>1 DEF Fields
<1> HIDE DEF e, c
<1>4. Sound(e)
  BY <1>1, <1>3 DEF Sound, AstSound, OrderSound, CodeSound, NoCode
<1>5. Sound(c)
  BY <1>1, <1>2, <1>3 DEF Sound, States, AstSound, OrderSound, CodeSound, NoCode,
        Empty, ParsedAndImported, AnalysisPerformed, CompilationSuccessful
<1> QED BY <1>1, <1>2, <1>3, <1>4, <1>5 DEF e, c, g

\* compile is sound, and complete when it reaches the last stage.
LEMMA CompileSound ==
  ASSUME program \in Programs, NEW s \in Fields, Sound(s), NEW stop \in States
  PROVE  /\ SoundOutcome(Compile(s, stop))
         /\ s.stackState # CompilationSuccessful
              /\ Compile(s, stop).s.stackState = CompilationSuccessful
              => CompleteCode(Compile(s, stop).s)
<1> DEFINE s0 == [s EXCEPT !.stopAfter = stop]
           a  == IF s.stackState < AnalysisPerformed THEN ParseAndAnalyze(s0, stop)
                                                     ELSE Return(s0, TRUE)
           generates == NeedsIR(a.s) \/ a.s.open.generateEvmBytecode
           e == [Generate(a.s) EXCEPT !.errors = TRUE]
           c == [Generate(a.s) EXCEPT !.stackState = CompilationSuccessful]
           o == Compile(s, stop)
<1> SUFFICES /\ SoundOutcome(o)
             /\ s.stackState # CompilationSuccessful /\ o.s.stackState = CompilationSuccessful
                  => CompleteCode(o.s)
  OBVIOUS
<1>1. \/ o = a /\ a.r # "true"
      \/ o = Return(a.s, TRUE)
      \/ a.r = "true" /\ ~(a.s.stackState >= stop) /\ a.s.hasError /\ o = Throw(a.s)
      \/ a.r = "true" /\ ~(a.s.stackState >= stop) /\ ~a.s.hasError
           /\ generates /\ Failing(a.s) # {} /\ o = Return(e, FALSE)
      \/ a.r = "true" /\ ~(a.s.stackState >= stop) /\ ~a.s.hasError
           /\ ~(generates /\ Failing(a.s) # {}) /\ o = Return(c, TRUE)
  BY DEF Compile
<1>2. s0 \in Fields /\ Sound(s0)
  BY StopAfterSound
<1>3. s0.stackState = s.stackState
  BY DEF Fields
<1> HIDE DEF s0, o
<1>4. /\ SoundOutcome(a)
      /\ a.r = "true" => a.s.stackState >= stop \/ a.s.stackState >= AnalysisPerformed
      /\ s.stackState # CompilationSuccessful => a.s.stackState # CompilationSuccessful
  <2>1. CASE s.stackState < AnalysisPerformed
    BY <1>2, <1>3, <2>1, ParseAndAnalyzeSound, ParseAndAnalyzeStage DEF AnalysisPerformed
  <2>2. CASE ~(s.stackState < AnalysisPerformed)
    <3>1. a = Return(s0, TRUE)
      BY <2>2
    <3>2. s.stackState >= AnalysisPerformed
      BY <2>2 DEF Fields, States, AnalysisPerformed
    <3> QED BY <1>2, <1>3, <3>1, <3>2, ReturnSound DEF Return
  <2> QED BY <2>1, <2>2
<1> HIDE DEF a
<1>5. a.s \in Fields /\ Sound(a.s)
  BY <1>4 DEF SoundOutcome
<1>6. CASE o = a /\ a.r # "true"
  BY <1>4, <1>6
<1>7. CASE o = Return(a.s, TRUE)
  BY <1>4, <1>5, <1>7, ReturnSound DEF Return
<1>8. CASE o = Throw(a.s)
  BY <1>4, <1>5, <1>8, ThrowSound DEF Throw
<1>9. CASE a.r = "true" /\ ~(a.s.stackState >= stop) /\ ~a.s.hasError /\ o = Return(e, FALSE)
  <2>1. e \in Fields /\ Sound(e) /\ e.stackState = a.s.stackState
    BY <1>4, <1>5, <1>9, GeneratedSound
  <2> HIDE DEF e
  <2> QED BY <1>4, <1>9, <2>1, ReturnSound DEF Return
<1>10. CASE a.r = "true" /\ ~(a.s.stackState >= stop) /\ ~a.s.hasError
              /\ ~(generates /\ Failing(a.s) # {}) /\ o = Return(c, TRUE)
  <2>1. c \in Fields /\ Sound(c)
    BY <1>4, <1>5, <1>10, GeneratedSound
  <2>2. CompleteCode(c)
    BY <1>5, <1>10, GenerateComplete
  <2> HIDE DEF c
  <2> QED BY <1>10, <2>1, <2>2, ReturnSound DEF Return
<1> QED BY <1>1, <1>6, <1>7, <1>8, <1>9, <1>10
-----------------------------------------------------------------------------
(***************************************************************************)
(* The inductive invariant of the stack.                                   *)
(***************************************************************************)
IInv == TypeOK /\ Sound(stack)

\* A new stack is sound.
LEMMA FreshSound == Fresh \in Fields /\ Sound(Fresh)
<1>1. DefaultGuarded \in GuardedSettings /\ DefaultOpen \in OpenSettings
  BY DEF DefaultGuarded, GuardedSettings, DefaultOpen, OpenSettings
<1>2. Fresh \in Fields
  BY <1>1 DEF Fresh, Fields, States, Empty, CompilationSuccessful
<1> QED BY <1>2 DEF Fresh, Sound, AstSound, OrderSound, CodeSound, NoCode,
           Empty, ParsedAndImported, AnalysisPerformed

LEMMA InitInv == Init => IInv
BY FreshSound DEF Init, IInv, TypeOK, Results

\* A call with a sound outcome keeps the invariant.
LEMMA EndsInv ==
  ASSUME IInv, NEW o, SoundOutcome(o), Ends(o)
  PROVE  IInv'
<1>1. TypeOK'
  BY DEF IInv, TypeOK, Ends, SoundOutcome
<1>2. Sound(stack)'
  <2>1. Sound(o.s)
    BY DEF SoundOutcome
  <2> QED BY <2>1 DEF Ends, Sound, AstSound, OrderSound, CodeSound, NoCode, Needs
<1> QED BY <1>1, <1>2 DEF IInv

\* Sources of another program are only given to an empty stack.
LEMMA SourcesInv ==
  ASSUME IInv, SetSources \/ ImportASTs
  PROVE  IInv'
<1> USE DEF IInv
<1>1. CASE stack.stackState # Empty
  <2>1. Ends(Throw(stack))
    BY <1>1 DEF SetSources, ImportASTs
  <2> QED BY <2>1, ThrowSound, EndsInv DEF TypeOK
<1>2. CASE stack.stackState = Empty
  <2>1. PICK p \in Programs, given \in SUBSET Names, contracts \in SUBSET Names,
             stage \in {SourcesSet, ParsedAndImported}, imported \in BOOLEAN :
           /\ program' = p
           /\ stack' = [stack EXCEPT !.sources = given, !.contracts = contracts,
                                     !.stackState = stage, !.importedSources = imported]
           /\ stage = ParsedAndImported => p.unparsable = {}
           /\ contracts \in {given, stack.contracts}
           /\ result' = "none"
    <3>1. ASSUME NEW p \in Programs PROVE ToSet(p.order) \in SUBSET Names
      BY <3>1, ProgramsAssumption DEF ToSet, Program
    <3>2. CASE SetSources
      <4>1. PICK p \in Programs, all \in BOOLEAN :
               /\ program' = p
               /\ stack' = [stack EXCEPT !.sources = {n \in ToSet(p.order) : all \/ n = Last(p.order)},
                                         !.stackState = SourcesSet]
               /\ result' = "none"
        BY <1>2, <3>2 DEF SetSources
      <4> DEFINE given == {n \in ToSet(p.order) : all \/ n = Last(p.order)}
      <4>2. given \in SUBSET Names
        BY <3>1
      <4> HIDE DEF given
      <4>3. stack' = [stack EXCEPT !.sources = given, !.contracts = stack.contracts,
                                   !.stackState = SourcesSet, !.importedSources = stack.importedSources]
        BY <4>1 DEF TypeOK, Fields, given
      <4>4. stack.contracts \in SUBSET Names /\ stack.importedSources \in BOOLEAN
        BY DEF TypeOK, Fields
      <4>5. SourcesSet # ParsedAndImported
        BY DEF SourcesSet, ParsedAndImported
      <4> USE <4>2, <4>4
      <4> WITNESS p \in Programs, given \in SUBSET Names, stack.contracts \in SUBSET Names,
                  SourcesSet \in {SourcesSet, ParsedAndImported}, stack.importedSources \in BOOLEAN
      <4> QED BY <4>1, <4>3, <4>5
    <3>3. CASE ImportASTs
      <4>1. PICK p \in {q \in Programs : q.unparsable = {} /\ q.missing = {}} :
               /\ program' = p
               /\ stack' = [stack EXCEPT !.sources = ToSet(p.order), !.contracts = ToSet(p.order),
                                         !.stackState = ParsedAndImported, !.importedSources = TRUE]
               /\ result' = "none"
        BY <1>2, <3>3 DEF ImportASTs
      <4> QED BY <3>1, <4>1
    <3> QED BY <3>2, <3>3
  <2> DEFINE t == [stack EXCEPT !.sources = given, !.contracts = contracts,
                                !.stackState = stage, !.importedSources = imported]
  <2>2. stage \in States
    BY DEF States, SourcesSet, ParsedAndImported
  <2>3. t \in Fields
    BY <2>2 DEF TypeOK, Fields
  <2>4. /\ t.sources = given /\ t.stackState = stage /\ t.hasError = stack.hasError
        /\ t.withoutAst = stack.withoutAst /\ t.sourceOrder = stack.sourceOrder
        /\ t.guarded = stack.guarded /\ t.contracts = contracts
        /\ t.object = stack.object /\ t.yulIR = stack.yulIR /\ t.ewasm = stack.ewasm
    BY DEF TypeOK, Fields
  <2>5. stack' = t
    BY <2>1
  <2>6. NoCode(stack) /\ stack.withoutAst = {} /\ stack.contracts = {}
    BY <1>2 DEF Sound, CodeSound, AstSound, OrderSound, Empty, AnalysisPerformed
  <2> HIDE DEF t
  <2>7. Sound(stack)'
    BY <2>1, <2>4, <2>5, <2>6 DEF Sound, AstSound, OrderSound, CodeSound, NoCode, Needs,
          Empty, SourcesSet, ParsedAndImported, AnalysisPerformed
  <2> QED BY <2>1, <2>3, <2>5, <2>7 DEF TypeOK, Results
<1> QED BY <1>1, <1>2

\* The settings with a guard do not change once there is code.
LEMMA GuardedInv ==
  ASSUME IInv, SetGuarded
  PROVE  IInv'
<1> USE DEF IInv
<1>1. CASE stack.stackState >= ParsedAndImported
  BY <1>1, ThrowSound, EndsInv DEF SetGuarded, TypeOK
<1>2. CASE ~(stack.stackState >= ParsedAndImported)
  <2>1. PICK g \in GuardedSettings : Ends([s |-> [stack EXCEPT !.guarded = g], r |-> "none"])
    BY <1>2 DEF SetGuarded
  <2> DEFINE t == [stack EXCEPT !.guarded = g]
  <2>2. t \in Fields
    BY DEF TypeOK, Fields
  <2>3. /\ t.sources = stack.sources /\ t.stackState = stack.stackState /\ t.hasError = stack.hasError
        /\ t.withoutAst = stack.withoutAst /\ t.sourceOrder = stack.sourceOrder
        /\ t.contracts = stack.contracts /\ t.analysedFor = stack.analysedFor
        /\ t.object = stack.object /\ t.yulIR = stack.yulIR /\ t.ewasm = stack.ewasm
    BY DEF TypeOK, Fields
  <2>4. NoCode(stack)
    BY <1>2 DEF Sound, CodeSound, TypeOK, Fields, States, ParsedAndImported, AnalysisPerformed
  <2> HIDE DEF t
  <2>5. Sound(t)
    BY <2>3, <2>4 DEF Sound, AstSound, OrderSound, CodeSound, NoCode
  <2>6. SoundOutcome([s |-> t, r |-> "none"])
    BY <2>2, <2>5 DEF SoundOutcome, Results
  <2> QED BY <2>1, <2>6, EndsInv DEF t
<1> QED BY <1>1, <1>2

\* The other settings are not looked at by the invariant.
LEMMA OpenInv ==
  ASSUME IInv, SetOpen
  PROVE  IInv'
<1> USE DEF IInv
<1>1. PICK g \in OpenSettings : Ends([s |-> [stack EXCEPT !.open = g], r |-> "none"])
  BY OpenChoicesAssumption DEF SetOpen
<1> DEFINE t == [stack EXCEPT !.open = g]
<1>2. t \in Fields
  BY DEF TypeOK, Fields
<1>3. /\ t.sources = stack.sources /\ t.stackState = stack.stackState /\ t.hasError = stack.hasError
      /\ t.withoutAst = stack.withoutAst /\ t.sourceOrder = stack.sourceOrder /\ t.guarded = stack.guarded
      /\ t.contracts = stack.contracts /\ t.analysedFor = stack.analysedFor
      /\ t.object = stack.object /\ t.yulIR = stack.yulIR /\ t.ewasm = stack.ewasm
  BY DEF TypeOK, Fields
<1> HIDE DEF t
<1>4. Sound(t)
  BY <1>3 DEF Sound, AstSound, OrderSound, CodeSound, NoCode
<1>5. SoundOutcome([s |-> t, r |-> "none"])
  BY <1>2, <1>4 DEF SoundOutcome, Results
<1> QED BY <1>1, <1>5, EndsInv DEF t

\* reset forgets all code.
LEMMA ResetInv ==
  ASSUME IInv, NEW keep \in BOOLEAN, Reset(keep)
  PROVE  IInv'
<1> USE DEF IInv
<1> DEFINE guarded == IF keep THEN stack.guarded ELSE Fresh.guarded
           stopAfter == IF keep THEN stack.stopAfter ELSE Fresh.stopAfter
           open == IF keep THEN stack.open
                   ELSE [stack.open EXCEPT !.generateIR = FALSE, !.generateEwasm = FALSE]
           t == [Fresh EXCEPT !.open = open, !.importedSources = stack.importedSources,
                              !.guarded = guarded, !.stopAfter = stopAfter]
<1>1. ResetFields(stack, keep) = t
  BY DEF ResetFields
<1>2. guarded \in GuardedSettings /\ stopAfter \in States
  BY FreshSound DEF TypeOK, Fields
<1>7. open \in OpenSettings
  BY DEF TypeOK, Fields, OpenSettings
<1> HIDE DEF guarded, stopAfter, open
<1>3. t \in Fields
  BY <1>2, <1>7, FreshSound DEF TypeOK, Fields
<1>4. t.contracts = {} /\ t.stackState = Empty /\ t.hasError = FALSE /\ t.withoutAst = {} /\ t.sources = {} /\ NoCode(t)
  BY DEF Fresh, NoCode
<1> HIDE DEF t
<1>5. Sound(t)
  BY <1>4 DEF Sound, AstSound, OrderSound, CodeSound, NoCode,
        Empty, ParsedAndImported, AnalysisPerformed
<1>6. SoundOutcome([s |-> t, r |-> "none"])
  BY <1>3, <1>5 DEF SoundOutcome, Results
<1> QED BY <1>1, <1>6, EndsInv DEF Reset

\* The stages compile and parseAndAnalyze may be told to stop after.
LEMMA Stops == {Parsed, AnalysisPerformed, CompilationSuccessful} \subseteq States
BY DEF Parsed, AnalysisPerformed, CompilationSuccessful, States

LEMMA NextInv == IInv /\ [Next]_vars => IInv'
<1> SUFFICES ASSUME IInv, [Next]_vars PROVE IInv'
  OBVIOUS
<1>1. program \in Programs /\ stack \in Fields /\ Sound(stack)
  BY DEF IInv, TypeOK
<1>2. CASE SetSources \/ ImportASTs
  BY <1>2, SourcesInv
<1>3. CASE CallParse
  BY <1>1, <1>3, ParseSound, EndsInv DEF CallParse
<1>4. CASE CallAnalyze
  BY <1>1, <1>4, AnalyzeSound, EndsInv DEF CallAnalyze
<1>5. CASE CallParseAndAnalyze
  BY <1>1, <1>5, Stops, ParseAndAnalyzeSound, EndsInv DEF CallParseAndAnalyze
<1>6. CASE CallCompile
  BY <1>1, <1>6, Stops, CompileSound, EndsInv DEF CallCompile
<1>7. CASE SetGuarded
  BY <1>7, GuardedInv
<1>8. CASE SetOpen
  BY <1>8, OpenInv
<1>9. ASSUME NEW keep \in BOOLEAN, Reset(keep) PROVE IInv'
  BY <1>9, ResetInv
<1>10. CASE UNCHANGED vars
  BY <1>10 DEF vars, IInv, TypeOK, Sound, AstSound, OrderSound, CodeSound, NoCode, Needs
<1> QED BY <1>2, <1>3, <1>4, <1>5, <1>6, <1>7, <1>8, <1>9, <1>10 DEF Next

\* The invariant of the fields holds between any two calls of the API, in
\* whatever order they come and however they end.
THEOREM Inductive == Spec => []IInv
BY InitInv, NextInv, PTL DEF Spec

\* Every field keeps its type.
THEOREM TypeCorrect == Spec => []TypeOK
<1>1. IInv => TypeOK
  BY DEF IInv
<1> QED BY <1>1, Inductive, PTL

\* Code is only ever kept for contracts of sources that were parsed and analysed
\* without an error: compileContract follows the contracts a requested one
\* creates into sources that were not requested, but never out of
\* m_sourceOrder.
THEOREM CodeOnlyForAnalysed == Spec => []ObjectsAnalysed
<1>1. IInv => ObjectsAnalysed
  <2> SUFFICES ASSUME IInv, stack.object \cup stack.yulIR \cup stack.ewasm # {}
               PROVE  /\ stack.stackState >= AnalysisPerformed
                      /\ ~stack.hasError
                      /\ stack.object \cup stack.yulIR \cup stack.ewasm
                           \subseteq stack.sourceOrder \ stack.withoutAst
    BY DEF ObjectsAnalysed
  <2>1. ~NoCode(stack)
    BY DEF NoCode
  <2>2. ~(stack.stackState < AnalysisPerformed) /\ ~stack.hasError
    BY <2>1 DEF IInv, Sound, CodeSound
  <2>3. stack.stackState >= AnalysisPerformed
    BY <2>2 DEF IInv, TypeOK, Fields, States, AnalysisPerformed
  <2>4. stack.withoutAst = {} /\ stack.object \cup stack.yulIR \cup stack.ewasm \subseteq stack.sourceOrder
    BY <2>2 DEF IInv, Sound, AstSound, CodeSound
  <2> QED BY <2>2, <2>3, <2>4
<1> QED BY <1>1, Inductive, PTL

\* With the legacy code generator, the bytecode of a contract is never there
\* without that of the contracts it creates, also after a compilation that
\* failed half way or was repeated with other requests.
THEOREM BytecodeWithItsParts == Spec => []ObjectsComplete
<1>1. IInv => ObjectsComplete
  BY DEF IInv, Sound, CodeSound, ObjectsComplete
<1> QED BY <1>1, Inductive, PTL

\* Whichever call brings the stack to CompilationSuccessful, every contract
\* requested by then has each kind of code that was asked for: every one that was
\* found in the sources if the requests are those of the analysis, every one of
\* the analysed sources if they were changed in between.
THEOREM SuccessComplete == Spec => SuccessIsComplete
<1> DEFINE Step == stack.stackState # CompilationSuccessful /\ stack'.stackState = CompilationSuccessful
                     => CompleteCode(stack')
           targets == IF stack'.analysedFor = stack'.open.requestedContractNames
                        THEN Requested(stack') ELSE Requested(stack') \cap stack'.sourceOrder
           Conclusion == /\ stack'.open.generateEvmBytecode => targets \subseteq stack'.object
                         /\ stack'.open.generateEwasm => targets \subseteq stack'.ewasm
                         /\ NeedsIR(stack') => targets \subseteq stack'.yulIR
           Success == stack.stackState # CompilationSuccessful /\ stack'.stackState = CompilationSuccessful
                        => Conclusion
<1>1. IInv /\ [Next]_vars => [Step]_vars
  <2> SUFFICES ASSUME IInv, Next, stack.stackState # CompilationSuccessful,
                      stack'.stackState = CompilationSuccessful
               PROVE  CompleteCode(stack')
    OBVIOUS
  <2>1. program \in Programs /\ stack \in Fields /\ Sound(stack)
    BY DEF IInv, TypeOK
  <2>2. ~(SetSources \/ ImportASTs)
    <3>1. ASSUME SetSources PROVE stack'.stackState \in {stack.stackState, SourcesSet}
      <4>1. PICK p \in Programs, all \in BOOLEAN :
               \/ Ends(Throw(stack))
               \/ stack' = [stack EXCEPT !.sources = {n \in ToSet(p.order) : all \/ n = Last(p.order)},
                                         !.stackState = SourcesSet]
        BY <3>1 DEF SetSources
      <4> DEFINE given == {n \in ToSet(p.order) : all \/ n = Last(p.order)}
      <4> HIDE DEF given
      <4>2. [stack EXCEPT !.sources = given, !.stackState = SourcesSet].stackState = SourcesSet
        BY <2>1 DEF Fields
      <4> QED BY <4>1, <4>2 DEF given, Ends, Throw
    <3>2. ASSUME ImportASTs PROVE stack'.stackState \in {stack.stackState, ParsedAndImported}
      BY <2>1, <3>2 DEF ImportASTs, Ends, Throw, Fields
    <3> QED BY <3>1, <3>2 DEF SourcesSet, ParsedAndImported, CompilationSuccessful
  <2>3. ~CallParse
    BY <2>1, ParseStage DEF CallParse, Ends
  <2>4. ~CallAnalyze
    BY <2>1, AnalyzeStage DEF CallAnalyze, Ends
  <2>5. ~CallParseAndAnalyze
    BY <2>1, Stops, ParseAndAnalyzeStage DEF CallParseAndAnalyze, Ends
  <2>6. ~SetGuarded /\ ~SetOpen
    BY <2>1 DEF SetGuarded, SetOpen, Ends, Throw, Fields
  <2>7. ~\E keep \in BOOLEAN : Reset(keep)
    <3>1. ASSUME NEW keep \in BOOLEAN PROVE ResetFields(stack, keep).stackState = Empty
      BY DEF ResetFields, Fresh
    <3>2. Empty # CompilationSuccessful
      BY DEF Empty, CompilationSuccessful
    <3> QED BY <3>1, <3>2 DEF Reset, Ends
  <2>8. CASE CallCompile
    <3>1. PICK stop \in {Parsed, AnalysisPerformed, CompilationSuccessful} : Ends(Compile(stack, stop))
      BY <2>8 DEF CallCompile
    <3>2. stack' = Compile(stack, stop).s
      BY <3>1 DEF Ends
    <3>3. stop \in States
      BY Stops
    <3> QED BY <2>1, <3>2, <3>3, CompileSound
  <2> QED BY <2>2, <2>3, <2>4, <2>5, <2>6, <2>7, <2>8 DEF Next
<1>2. IInv /\ [Step]_vars /\ IInv' => [Success]_vars
  <2> SUFFICES ASSUME IInv', stack'.stackState = CompilationSuccessful, CompleteCode(stack')
               PROVE  Conclusion
    OBVIOUS
  <2>1. /\ stack'.contracts \subseteq stack'.sources
        /\ stack'.stackState >= AnalysisPerformed
             => Covers(stack'.sourceOrder, stack'.sources, stack'.analysedFor)
    BY DEF IInv, Sound, OrderSound, Covers
  <2>2. stack'.stackState = CompilationSuccessful
          => Covers(stack'.sourceOrder, stack'.sources, stack'.analysedFor)
    BY <2>1 DEF CompilationSuccessful, AnalysisPerformed
  <2>3. ASSUME stack'.stackState = CompilationSuccessful,
               stack'.analysedFor = stack'.open.requestedContractNames
        PROVE  Requested(stack') \subseteq stack'.sourceOrder
    <3> SUFFICES ASSUME NEW n \in Requested(stack') PROVE n \in stack'.sourceOrder
      OBVIOUS
    <3>1. n \in stack'.sources
      BY <2>1 DEF Requested
    <3> QED BY <2>2, <2>3, <3>1 DEF Requested, IsRequestedContract, Covers
  <2>4. Requested(stack') \cap stack'.sourceOrder \subseteq Targets(stack') \cap program.deployable
    BY DEF Requested, Targets
  <2> QED BY <2>3, <2>4 DEF CompleteCode
<1> QED BY <1>1, <1>2, Inductive, PTL DEF Spec, SuccessIsComplete
=============================================================================
