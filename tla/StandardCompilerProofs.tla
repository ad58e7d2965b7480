----------------------- MODULE StandardCompilerProofs -----------------------
(***************************************************************************)
(* For every set of requests: the host's memory is accounted for, an       *)
(* answer without an error is complete and every failure is reported.      *)
(***************************************************************************)
EXTENDS StandardCompiler, CompilerStackProofs

-----------------------------------------------------------------------------
(***************************************************************************)
(* The output selection.                                                   *)
(***************************************************************************)
ArtifactNames == Seq(STRING) \ {<<>>}

\* A name of one part is selected by itself only, and one of two parts also by
\* the first of them.
LEMMA PrefixOfName ==
  ASSUME NEW p \in ArtifactNames, NEW x, NEW y
  PROVE  /\ IsPrefix(p, <<x>>) => p = <<x>>
         /\ IsPrefix(p, <<x, y>>) => p = <<x>> \/ p = <<x, y>>
<1>1. p \in Seq(STRING) /\ Len(p) \in Nat /\ Len(p) >= 1
  BY DEF ArtifactNames
<1>2. ASSUME IsPrefix(p, <<x>>) PROVE p = <<x>>
  <2>1. Len(p) = 1 /\ SubSeq(p, 1, 1) = SubSeq(<<x>>, 1, 1)
    BY <1>1, <1>2 DEF IsPrefix
  <2>2. p[1] = x
    BY <1>1, <2>1
  <2> QED BY <1>1, <2>1, <2>2
<1>3. ASSUME IsPrefix(p, <<x, y>>) PROVE p = <<x>> \/ p = <<x, y>>
  <2>1. Len(p) \in {1, 2} /\ SubSeq(p, 1, Len(p)) = SubSeq(<<x, y>>, 1, Len(p))
    <3>1. Len(p) <= Len(<<x, y>>)
      BY <1>3, Zenon DEF IsPrefix
    <3>2. \A k \in Nat : k >= 1 /\ k <= Len(<<x, y>>) => k = 1 \/ k = 2
      <4>1. Len(<<x, y>>) = 2
        OBVIOUS
      <4> QED BY <4>1
    <3>3. Len(p) = 1 \/ Len(p) = 2
      BY <1>1, <3>1, <3>2, Zenon
    <3>4. SubSeq(p, 1, Len(p)) = SubSeq(<<x, y>>, 1, Len(p))
      BY <1>3, Zenon DEF IsPrefix
    <3> QED BY <3>3, <3>4
  <2>2. CASE Len(p) = 1
    <3>1. p[1] = x
      BY <1>1, <2>1, <2>2
    <3> QED BY <1>1, <2>2, <3>1
  <2>3. CASE Len(p) = 2
    <3>1. p[1] = x /\ p[2] = y
      BY <1>1, <2>1, <2>3
    <3> QED BY <1>1, <2>3, <3>1
  <2> QED BY <2>1, <2>2, <2>3
<1> QED BY <1>2, <1>3

\* isIRRequested and isEwasmRequested compare names, isArtifactRequested matches
\* prefixes and the wildcard: they agree on IR and on Ewasm text.
LEMMA SelectsIR ==
  ASSUME NEW p \in ArtifactNames
  PROVE  /\ Selects(p, Ir, FALSE) \/ Selects(p, IrOptimized, FALSE) => p \in {Ir, IrOptimized}
         /\ Selects(p, Wast, FALSE) => p \in {Ewasm, Wast}
<1>1. Ir \in Experimental /\ IrOptimized \in Experimental /\ Wast \in Experimental
  BY DEF Experimental
<1> QED BY <1>1, PrefixOfName DEF Selects, Ir, IrOptimized, Wast, Ewasm

\* Whatever needs code is among the outputs that turn code generation on.
LEMMA CodeRequiresBinaries ==
  /\ CodeArtifacts \subseteq OutputsThatRequireBinaries
  /\ AssemblyArtifacts \cup UNION {ObjectArtifacts(k, TRUE) : k \in ObjectKinds}
        \subseteq OutputsThatRequireEvmBinaries
  /\ UNION {ObjectArtifacts(k, TRUE) : k \in ObjectKinds} \subseteq CodeArtifacts
<1>1. CodeArtifacts \subseteq OutputsThatRequireBinaries
  BY DEF CodeArtifacts, OutputsThatRequireBinaries, OutputsThatRequireEvmBinaries
<1>2. \A k \in ObjectKinds : ObjectArtifacts(k, TRUE) \subseteq EvmObjectComponents(k) \ {<<"evm", k>>}
  BY DEF ObjectArtifacts, EvmObjectComponents
<1>3. AssemblyArtifacts \cup UNION {ObjectArtifacts(k, TRUE) : k \in ObjectKinds}
        \subseteq OutputsThatRequireEvmBinaries
  BY <1>2 DEF OutputsThatRequireEvmBinaries
<1>4. UNION {ObjectArtifacts(k, TRUE) : k \in ObjectKinds} \subseteq CodeArtifacts
  BY <1>2 DEF CodeArtifacts
<1> QED BY <1>1, <1>3, <1>4

\* No artifact of the analysis needs code.
LEMMA AnalysisWithoutCode == AnalysisArtifacts \cap CodeArtifacts = {}
BY DEF AnalysisArtifacts, CodeArtifacts, Abi, MethodIdentifiers, Ir, IrOptimized, Wast, Wasm,
       AssemblyArtifacts, EvmObjectComponents, ObjectKinds
-----------------------------------------------------------------------------
(***************************************************************************)
(* The phases on a stack that was just given its sources.                  *)
(***************************************************************************)
\* What parsing says about the sources, and what is left alone.
Followed(s, t) ==
    /\ s.sources \subseteq t.sources
    /\ t.contracts = t.sources \ program.unparsable
    /\ t.withoutAst = t.sources \cap program.unparsable
    /\ t.open = s.open
    /\ t.guarded = s.guarded

New(s) == s.stackState = SourcesSet /\ ~s.hasError /\ s.contracts = {}

\* parse of a new stack ends with an error exactly if it reported one, also for
\* an import that is missing.
LEMMA ParseNew ==
  ASSUME program \in Programs, NEW s \in Fields, New(s)
  PROVE  /\ Followed(s, Parse(s).s)
         /\ Parse(s).s.hasError = Parse(s).s.errors
         /\ Parse(s).r = IF Parse(s).s.errors THEN "false" ELSE "true"
         /\ Parse(s).s.stackState = IF s.stopAfter <= Parsed THEN Parsed ELSE ParsedAndImported
         /\ s.stopAfter >= ParsedAndImported /\ WithMissingImports(Parse(s).s.sources) # {}
               => Parse(s).s.errors
<1> DEFINE loaded == Loaded(s)
           parsed == loaded \ program.unparsable
           err == \/ parsed # loaded
                  \/ s.stopAfter >= ParsedAndImported /\ WithMissingImports(loaded) # {}
           failed == s.hasError \/ err
           stage == IF s.stopAfter <= Parsed THEN Parsed ELSE ParsedAndImported
           without == loaded \ parsed
           contracts == s.contracts \cup parsed
           t == [s EXCEPT !.errors = err, !.hasError = failed, !.stackState = stage,
                          !.sources = loaded, !.withoutAst = without, !.contracts = contracts]
<1>1. Parse(s) = Return(t, ~(s.hasError \/ err))
  BY DEF Parse, New
<1>2. s.sources \subseteq loaded
  BY DEF Loaded, Fields
<1> HIDE DEF loaded
<1>3. /\ failed = err
      /\ without = loaded \cap program.unparsable
      /\ contracts = loaded \ program.unparsable
  BY DEF New
<1>4. s.stopAfter >= ParsedAndImported /\ WithMissingImports(loaded) # {} => err
  OBVIOUS
<1>5. err \in BOOLEAN /\ failed \in BOOLEAN
  OBVIOUS
<1>6. ~(s.hasError \/ err) = ~err
  BY DEF New
<1> HIDE DEF parsed, err, failed, stage, without, contracts
<1>7. /\ t.errors = err /\ t.hasError = failed /\ t.stackState = stage /\ t.sources = loaded
      /\ t.withoutAst = without /\ t.contracts = contracts /\ t.open = s.open /\ t.guarded = s.guarded
  BY <1>5 DEF Fields
<1> HIDE DEF t
<1>8. Parse(s).s = t /\ Parse(s).r = IF err THEN "false" ELSE "true"
  BY <1>1, <1>6 DEF Return
<1> QED BY <1>2, <1>3, <1>4, <1>7, <1>8 DEF Followed, stage

\* analyze throws only for a missing import, takes the requested sources, and
\* ends without success only if there was or is an error.
Analyzed(s, o) ==
    /\ o.r = "throw" => o.s = s /\ WithMissingImports(s.sources) # {}
    /\ o.s.sources = s.sources /\ o.s.contracts = s.contracts /\ o.s.withoutAst = s.withoutAst
    /\ o.s.open = s.open /\ o.s.guarded = s.guarded
    /\ o.s.stackState \in {ParsedAndImported, AnalysisPerformed}
    /\ o.s.stackState = AnalysisPerformed =>
          \A n \in s.sources : IsRequestedSource(s, n) => n \in o.s.sourceOrder
    /\ ~s.hasError /\ ~o.s.errors /\ o.r # "throw" =>
          o.r = "true" /\ o.s.stackState = AnalysisPerformed
    /\ o.r = "true" => ~o.s.hasError
    /\ ~s.hasError /\ ~o.s.errors => ~o.s.hasError
    /\ s.errors => o.s.errors

LEMMA AnalyzeParsed ==
  ASSUME program \in Programs, NEW s \in Fields, s.stackState = ParsedAndImported
  PROVE  Analyzed(s, Analyze(s))
<1> DEFINE order == SourceOrder(s)
           found == {program.analysis[n] : n \in order \ s.withoutAst}
           some  == s.errors \/ found \notin SUBSET {"ok"}
           late  == s.hasError \/ "late" \in found
           t     == [s EXCEPT !.sourceOrder = order, !.analysedFor = s.open.requestedContractNames,
                              !.errors = some]
           u     == [t EXCEPT !.stackState = AnalysisPerformed, !.hasError = late]
           o     == Analyze(s)
<1>1. \/ o = Throw(s) /\ WithMissingImports(s.sources) # {}
      \/ o = Return(t, FALSE) /\ "early" \in found
      \/ o = Return(u, ~late) /\ "early" \notin found
  BY DEF Analyze, Fields
<1>2. \A n \in s.sources : IsRequestedSource(s, n) => n \in order
  BY DEF SourceOrder
<1>3. some \in BOOLEAN /\ late \in BOOLEAN
  OBVIOUS
<1>4. /\ "early" \in found => some
      /\ late => s.hasError \/ some
      /\ s.errors => some
  OBVIOUS
<1> HIDE DEF order, found, some, late
<1>5. /\ t.stackState = ParsedAndImported /\ t.errors = some /\ t.hasError = s.hasError
      /\ t.sourceOrder = order /\ t.sources = s.sources /\ t.contracts = s.contracts
      /\ t.withoutAst = s.withoutAst /\ t.open = s.open /\ t.guarded = s.guarded
  BY <1>3 DEF Fields
<1>6. /\ u.stackState = AnalysisPerformed /\ u.errors = some /\ u.hasError = late
      /\ u.sourceOrder = order /\ u.sources = s.sources /\ u.contracts = s.contracts
      /\ u.withoutAst = s.withoutAst /\ u.open = s.open /\ u.guarded = s.guarded
  BY <1>3 DEF Fields
<1>7. ParsedAndImported # AnalysisPerformed
  BY DEF ParsedAndImported, AnalysisPerformed
<1> HIDE DEF t, u
<1> SUFFICES Analyzed(s, o)
  OBVIOUS
<1> HIDE DEF o
<1>8. CASE o = Throw(s) /\ WithMissingImports(s.sources) # {}
  <2>1. o.s = s /\ o.r = "throw"
    BY <1>8 DEF Throw
  <2> QED BY <1>7, <1>8, <2>1 DEF Analyzed
<1>9. CASE o = Return(t, FALSE) /\ "early" \in found
  <2>1. o.s = t /\ o.r = "false"
    BY <1>9 DEF Return
  <2> QED BY <1>4, <1>5, <1>7, <1>9, <2>1 DEF Analyzed
<1>10. CASE o = Return(u, ~late) /\ "early" \notin found
  <2>1. o.s = u /\ o.r = IF late THEN "false" ELSE "true"
    BY <1>10 DEF Return
  <2> QED BY <1>2, <1>4, <1>6, <1>7, <2>1 DEF Analyzed
<1> QED BY <1>1, <1>8, <1>9, <1>10

\* What the Standard JSON interface relies on, whichever entry point it used:
\* the sources are followed, an exception means a missing import that the parser
\* was asked to recover from, no error in the list means none at all, and the
\* requested sources are among the analysed ones.
Outcome(s, o) ==
    /\ SoundOutcome(o)
    /\ Followed(s, o.s)
    /\ o.r = "throw" => s.open.parserErrorRecovery /\ WithMissingImports(o.s.sources) # {}
    /\ o.r # "throw" /\ ~o.s.errors => ~o.s.hasError
    /\ o.s.stackState >= Parsed
    /\ o.s.stackState >= AnalysisPerformed =>
          \A n \in o.s.sources : IsRequestedSource(s, n) => n \in o.s.sourceOrder

LEMMA ParseAndAnalyzeNew ==
  ASSUME program \in Programs, NEW s \in Fields, Sound(s), New(s),
         NEW stop \in {Parsed, CompilationSuccessful}
  PROVE  LET o == ParseAndAnalyze(s, stop) IN
         /\ Outcome(s, o)
         /\ o.r = "true" => ~o.s.hasError
         /\ stop = CompilationSuccessful /\ o.r # "throw" /\ ~o.s.errors =>
               o.r = "true" /\ o.s.stackState = AnalysisPerformed
<1> DEFINE s0 == [s EXCEPT !.stopAfter = stop]
           p  == Parse(s0)
           o  == ParseAndAnalyze(s, stop)
           stops == p.r = "throw" \/ p.s.stackState >= stop \/ (p.r = "false" /\ ~s.open.parserErrorRecovery)
           Goal == /\ Outcome(s, o)
                   /\ o.r = "true" => ~o.s.hasError
                   /\ stop = CompilationSuccessful /\ o.r # "throw" /\ ~o.s.errors =>
                         o.r = "true" /\ o.s.stackState = AnalysisPerformed
<1>0. stop \in States
  BY Stops
<1>1. s0 \in Fields /\ Sound(s0)
  BY <1>0, StopAfterSound
<1>2. /\ s0.stopAfter = stop /\ s0.stackState = s.stackState /\ s0.hasError = s.hasError
      /\ s0.contracts = s.contracts /\ s0.sources = s.sources /\ s0.open = s.open
      /\ s0.guarded = s.guarded
  BY DEF Fields
<1>3. (o = p /\ stops) \/ (o = Analyze(p.s) /\ ~stops)
  BY DEF ParseAndAnalyze
<1>4. SoundOutcome(o)
  BY <1>0, ParseAndAnalyzeSound
<1> HIDE DEF s0
<1>5. New(s0)
  BY <1>2 DEF New
<1>6. /\ Followed(s, p.s)
      /\ p.s.hasError = p.s.errors
      /\ p.r = IF p.s.errors THEN "false" ELSE "true"
      /\ p.s.stackState = IF stop <= Parsed THEN Parsed ELSE ParsedAndImported
      /\ stop >= ParsedAndImported /\ WithMissingImports(p.s.sources) # {} => p.s.errors
  BY <1>1, <1>2, <1>5, ParseNew DEF Followed
<1>7. p.s \in Fields
  BY <1>1, ParseSound DEF SoundOutcome
<1> SUFFICES Goal
  OBVIOUS
<1> HIDE DEF o, p
<1>8. CASE stop = Parsed
  <2>1. p.s.stackState = Parsed
    BY <1>6, <1>8 DEF Parsed
  <2>2. o = p
    BY <1>3, <1>8, <2>1 DEF Parsed
  <2>3. p.r # "throw" /\ (p.r = "true" => ~p.s.errors)
    BY <1>6
  <2>4. Outcome(s, p)
    BY <1>4, <1>6, <2>1, <2>2, <2>3 DEF Outcome, Parsed, AnalysisPerformed
  <2> QED BY <1>6, <1>8, <2>2, <2>3, <2>4 DEF Parsed, CompilationSuccessful
<1>9. CASE stop = CompilationSuccessful
  <2>1. /\ p.s.stackState = ParsedAndImported
        /\ ~(p.s.stackState >= stop)
        /\ WithMissingImports(p.s.sources) # {} => p.s.errors
    BY <1>6, <1>9 DEF Parsed, ParsedAndImported, CompilationSuccessful
  <2>2. CASE o = p /\ stops
    <3>1. p.r = "false" /\ p.s.errors
      BY <1>6, <2>1, <2>2
    <3>2. p.r # "throw" /\ p.r # "true"
      BY <3>1
    <3>3. Outcome(s, p)
      BY <1>4, <1>6, <2>1, <2>2, <3>1, <3>2 DEF Outcome, Parsed, ParsedAndImported, AnalysisPerformed
    <3> QED BY <2>2, <3>1, <3>2, <3>3
  <2>3. CASE o = Analyze(p.s) /\ ~stops
    <3>1. Analyzed(p.s, o)
      BY <1>7, <2>1, <2>3, AnalyzeParsed
    <3>2. p.s.errors => s.open.parserErrorRecovery
      BY <1>6, <2>3
    <3>3. Followed(s, o.s)
      BY <1>6, <3>1 DEF Followed, Analyzed
    <3>4. o.r = "throw" => s.open.parserErrorRecovery /\ WithMissingImports(o.s.sources) # {}
      BY <2>1, <3>1, <3>2 DEF Analyzed
    <3>5. o.r # "throw" /\ ~o.s.errors => ~o.s.hasError /\ o.r = "true" /\ o.s.stackState = AnalysisPerformed
      <4>1. ASSUME o.r # "throw", ~o.s.errors PROVE ~p.s.hasError
        BY <1>6, <3>1, <4>1 DEF Analyzed
      <4> QED BY <3>1, <4>1 DEF Analyzed
    <3>6. o.s.stackState >= Parsed
      BY <3>1 DEF Analyzed, Parsed, ParsedAndImported, AnalysisPerformed
    <3>7. o.s.stackState >= AnalysisPerformed =>
             \A n \in o.s.sources : IsRequestedSource(s, n) => n \in o.s.sourceOrder
      <4>1. \A n : IsRequestedSource(s, n) = IsRequestedSource(p.s, n)
        BY <1>6 DEF IsRequestedSource, Followed
      <4>2. o.s.stackState >= AnalysisPerformed => o.s.stackState = AnalysisPerformed
        BY <3>1 DEF Analyzed, ParsedAndImported, AnalysisPerformed
      <4> QED BY <3>1, <4>1, <4>2 DEF Analyzed
    <3>8. Outcome(s, o)
      BY <1>4, <3>3, <3>4, <3>5, <3>6, <3>7 DEF Outcome
    <3> QED BY <3>1, <3>5, <3>8 DEF Analyzed
  <2> QED BY <1>3, <2>2, <2>3
<1> QED BY <1>8, <1>9

\* What the answer is made of besides code.
SameButCode(s, t) ==
    /\ t.sources = s.sources /\ t.contracts = s.contracts /\ t.withoutAst = s.withoutAst
    /\ t.open = s.open /\ t.guarded = s.guarded /\ t.sourceOrder = s.sourceOrder
    /\ t.hasError = s.hasError

\* Code generation leaves it alone.
LEMMA GenerateKeeps ==
  ASSUME program \in Programs, NEW s \in Fields, Sound(s),
         s.stackState >= AnalysisPerformed, ~s.hasError
  PROVE  /\ SameButCode(s, [Generate(s) EXCEPT !.errors = TRUE])
         /\ [Generate(s) EXCEPT !.errors = TRUE].errors = TRUE
         /\ SameButCode(s, [Generate(s) EXCEPT !.stackState = CompilationSuccessful])
         /\ [Generate(s) EXCEPT !.stackState = CompilationSuccessful].stackState = CompilationSuccessful
<1> DEFINE g == Generate(s)
           e == [g EXCEPT !.errors = TRUE]
           c == [g EXCEPT !.stackState = CompilationSuccessful]
<1>1. SameButCode(s, g)
  BY DEF Generate, Fields, SameButCode
<1>2. g \in Fields
  BY GenerateSound
<1> HIDE DEF g
<1>3. SameButCode(g, e) /\ e.errors = TRUE
  BY <1>2 DEF Fields, SameButCode
<1>4. SameButCode(g, c) /\ c.stackState = CompilationSuccessful
  BY <1>2 DEF Fields, SameButCode
<1> HIDE DEF e, c
<1>5. SameButCode(s, e) /\ SameButCode(s, c)
  BY <1>1, <1>3, <1>4 DEF SameButCode
<1> QED BY <1>3, <1>4, <1>5 DEF e, c, g

\* compile of a new stack: no error means that all code is there.
LEMMA CompileNew ==
  ASSUME program \in Programs, NEW s \in Fields, Sound(s), New(s)
  PROVE  LET o == Compile(s, CompilationSuccessful) IN
         /\ Outcome(s, o)
         /\ o.r # "throw" /\ ~o.s.errors => o.s.stackState = CompilationSuccessful
         /\ o.s.stackState = CompilationSuccessful => CompleteCode(o.s)
<1> DEFINE stop == CompilationSuccessful
           s0 == [s EXCEPT !.stopAfter = stop]
           a  == ParseAndAnalyze(s0, stop)
           generates == NeedsIR(a.s) \/ a.s.open.generateEvmBytecode
           e == [Generate(a.s) EXCEPT !.errors = TRUE]
           c == [Generate(a.s) EXCEPT !.stackState = CompilationSuccessful]
           o == Compile(s, stop)
           Goal == /\ Outcome(s, o)
                   /\ o.r # "throw" /\ ~o.s.errors => o.s.stackState = CompilationSuccessful
                   /\ o.s.stackState = CompilationSuccessful => CompleteCode(o.s)
<1>1. stop \in States /\ stop \in {Parsed, CompilationSuccessful}
  BY Stops
<1>2. s.stackState < AnalysisPerformed
  BY DEF New, SourcesSet, AnalysisPerformed
<1>3. \/ o = a /\ a.r # "true"
      \/ a.r = "true" /\ a.s.stackState >= stop /\ o = Return(a.s, TRUE)
      \/ a.r = "true" /\ ~(a.s.stackState >= stop) /\ a.s.hasError /\ o = Throw(a.s)
      \/ a.r = "true" /\ ~(a.s.stackState >= stop) /\ ~a.s.hasError /\ o = Return(e, FALSE)
      \/ a.r = "true" /\ ~(a.s.stackState >= stop) /\ ~a.s.hasError /\ o = Return(c, TRUE)
  BY <1>2 DEF Compile
<1>4. s0 \in Fields /\ Sound(s0)
  BY <1>1, StopAfterSound
<1>5. /\ s0.stackState = s.stackState /\ s0.hasError = s.hasError /\ s0.contracts = s.contracts
      /\ s0.sources = s.sources /\ s0.open = s.open /\ s0.guarded = s.guarded
  BY DEF Fields
<1>6. SoundOutcome(o) /\ (s.stackState # stop /\ o.s.stackState = stop => CompleteCode(o.s))
  BY <1>1, CompileSound
<1>7. s.stackState # stop
  BY DEF New, SourcesSet, CompilationSuccessful
<1> HIDE DEF s0
<1>8. New(s0)
  BY <1>5 DEF New
<1>9. /\ Outcome(s0, a)
      /\ a.r = "true" => ~a.s.hasError
      /\ a.r # "throw" /\ ~a.s.errors => a.r = "true" /\ a.s.stackState = AnalysisPerformed
      /\ a.r = "true" => a.s.stackState >= stop \/ a.s.stackState = AnalysisPerformed
      /\ a.s.stackState # stop
  BY <1>1, <1>4, <1>5, <1>7, <1>8, ParseAndAnalyzeNew, ParseAndAnalyzeSound, ParseAndAnalyzeStage
<1>10. Outcome(s, a)
  BY <1>5, <1>9 DEF Outcome, Followed, IsRequestedSource
<1> SUFFICES Goal
  OBVIOUS
<1> HIDE DEF o, a
<1>11. a.s \in Fields /\ Sound(a.s) /\ a.r \in Results
  BY <1>9 DEF Outcome, SoundOutcome
<1>12. CASE o = a /\ a.r # "true"
  BY <1>6, <1>7, <1>9, <1>10, <1>12
<1>13. ~(a.s.stackState >= stop)
  <2>1. a.s.stackState \in 0..5
    BY <1>11 DEF Fields, States
  <2> QED BY <1>9, <2>1 DEF CompilationSuccessful
<1>14. ASSUME a.r = "true" 
      PROVE  a.s.stackState = AnalysisPerformed /\ a.s.stackState >= AnalysisPerformed /\ ~a.s.hasError
  BY <1>9, <1>13, <1>14 DEF AnalysisPerformed
<1>15. CASE a.r = "true" /\ o = Return(e, FALSE)
  <2>1. /\ SameButCode(a.s, e) /\ e.errors = TRUE
        /\ e.stackState = a.s.stackState
    <3>1. a.s.stackState >= AnalysisPerformed /\ ~a.s.hasError
      BY <1>14, <1>15
    <3> QED BY <1>11, <3>1, GenerateKeeps, GeneratedSound
  <2> HIDE DEF e
  <2>2. o.s = e /\ o.r = "false"
    BY <1>15 DEF Return
  <2>3. Outcome(s, o)
    BY <1>6, <1>10, <2>1, <2>2 DEF Outcome, Followed, SameButCode
  <2> QED BY <1>6, <1>7, <2>1, <2>2, <2>3
<1>16. CASE a.r = "true" /\ o = Return(c, TRUE)
  <2>1. SameButCode(a.s, c) /\ c.stackState = stop
    <3>1. a.s.stackState >= AnalysisPerformed /\ ~a.s.hasError
      BY <1>14, <1>16
    <3> QED BY <1>11, <3>1, GenerateKeeps
  <2> HIDE DEF c
  <2>2. o.s = c /\ o.r = "true"
    BY <1>16 DEF Return
  <2>3. stop >= Parsed
    BY DEF Parsed, CompilationSuccessful
  <2>4. \A n \in a.s.sources : IsRequestedSource(s, n) => n \in a.s.sourceOrder
    BY <1>10, <1>14, <1>16 DEF Outcome, AnalysisPerformed
  <2>5. Followed(s, o.s)
    BY <1>10, <2>1, <2>2 DEF Outcome, Followed, SameButCode
  <2>6. Outcome(s, o)
    BY <1>6, <1>14, <1>16, <2>1, <2>2, <2>3, <2>4, <2>5 DEF Outcome, SameButCode
  <2> QED BY <1>6, <1>7, <2>1, <2>2, <2>6
<1> QED BY <1>3, <1>12, <1>13, <1>14, <1>15, <1>16
-----------------------------------------------------------------------------
(***************************************************************************)
(* The inductive invariant of the Standard JSON interface: the types, ...  *)
(***************************************************************************)
Phases == {"idle", "reading", "callback", "solidity", "yul", "collect", "crashed", "aborted"}
ReadErrors == {"io", "warning"}
Calls == [ input : Inputs, phase : Phases, todo : Seq(Names), urls : Int, failures : BOOLEAN,
           sources : SUBSET Names, errors : SUBSET (ReadErrors \cup {"stack", "exception"}) ]

STypeOK == program \in Programs /\ stack \in Fields /\ call \in Calls

\* ... no source lost by parseInput without an error, ...
Given(i) == {n \in ToSet(i.given) : i.entry[n].kind = "urls" => i.entry[n].urls > 0}

ReadSound ==
    /\ "io" \in call.errors \/ Given(call.input) \subseteq call.sources \cup ToSet(call.todo)
    /\ call.phase = "callback" => call.todo # <<>>
    /\ call.phase \in {"reading", "callback", "solidity", "yul"} => call.errors \subseteq ReadErrors
    /\ call.phase \in {"solidity", "yul", "collect"} => call.todo = <<>>

\* ... the settings that were accepted, ...
SettingsSound ==
    /\ call.phase \in {"solidity", "collect"} =>
          /\ call.input.language = "Solidity"
          /\ IsBinaryRequested(call.input.selection) => call.input.stopAfter = CompilationSuccessful
    /\ call.phase = "yul" => call.input.language = "Yul"

\* ... what the stack looks like when the answer is put together, ...
Compiled(t, i, sources, errors) ==
    /\ Sound(t)
    /\ Followed(NewStack(i, sources), t)
    /\ "exception" \in errors => i.parserErrorRecovery /\ WithMissingImports(t.sources) # {}
    /\ t.errors => "stack" \in errors \/ "exception" \in errors
    /\ errors \cap {"stack", "exception"} = {} =>
          /\ ~t.hasError
          /\ i.stopAfter = CompilationSuccessful => t.stackState >= AnalysisPerformed
          /\ IsBinaryRequested(i.selection) => t.stackState = CompilationSuccessful
    /\ t.stackState >= Parsed
    /\ t.stackState >= AnalysisPerformed =>
          \A n \in t.sources : IsRequestedSource(t, n) => n \in t.sourceOrder
    /\ t.stackState = CompilationSuccessful => CompleteCode(t)

CollectSound == call.phase = "collect" => Compiled(stack, call.input, call.sources, call.errors)

\* ... and that there is no answer before the end of a call.
AnswerSound == call.phase # "idle" => answer = None

OwnershipSound == OwnershipExact /\ owned \subseteq Pointers

\* The inputs have the fields of a request.
LEMMA InputType ==
  ASSUME NEW i \in Inputs
  PROVE  /\ i.program \in Programs
         /\ i.given \in Seq(Names)
         /\ i.entry \in [Names -> SourceEntry]
         /\ i.readable \in SUBSET Names
         /\ i.viaIR \in BOOLEAN
         /\ i.parserErrorRecovery \in BOOLEAN
         /\ i.callback \in BOOLEAN
         /\ i.stopAfter \in {Parsed, CompilationSuccessful}
         /\ i.language \in {"Solidity", "Yul", "other"}
         /\ i.selection \subseteq (Names \cup {"*"}) \X (Names \cup {"*", ""}) \X ArtifactNames
BY InputsAssumption DEF Input, ArtifactNames

\* ... and the output selection is made of triples of names.
LEMMA SelectionType ==
  ASSUME NEW i \in Inputs, NEW t \in i.selection
  PROVE  /\ t[1] \in Names \cup {"*"}
         /\ t[2] \in Names \cup {"*", ""}
         /\ t[3] \in ArtifactNames
<1>1. t \in (Names \cup {"*"}) \X (Names \cup {"*", ""}) \X ArtifactNames
  BY InputType
<1> QED BY <1>1

\* The memory of the host: whatever is released was allocated before.
LEMMA OwnershipNext ==
  ASSUME STypeOK, OwnershipSound, [SNext]_svars
  PROVE  OwnershipSound'
<1> USE DEF OwnershipSound, OwnershipExact
<1>1. ASSUME NEW x \in Phases PROVE [call EXCEPT !.phase = x].phase = x
  BY DEF STypeOK, Calls
<1>2. ASSUME NEW a, Answers(a) PROVE OwnershipSound'
  BY <1>1, <1>2 DEF Answers, Phases
<1>3. CASE SolidityAlloc
  BY <1>3 DEF SolidityAlloc
<1>4. CASE SolidityFree
  BY <1>4 DEF SolidityFree, Unknown
<1>5. CASE SolidityReset
  BY <1>5 DEF SolidityReset
<1>6. CASE SolidityCompile
  BY <1>6 DEF SolidityCompile, StartCall
<1>7. CASE CheckRoot \/ ReadInvalid
  BY <1>2, <1>7 DEF CheckRoot, ReadInvalid, Fails
<1>8. CASE ReadContent
  <2>1. call'.phase = call.phase
    BY <1>8 DEF ReadContent, STypeOK, Calls
  <2> QED BY <1>8, <2>1 DEF ReadContent
<1>9. CASE ReadUrls
  <2>1. CASE ~call.input.callback
    BY <1>2, <1>9, <2>1 DEF ReadUrls, Fails
  <2>2. CASE call.input.callback
    <3>1. call'.phase \in {call.phase, "callback"}
      BY <1>9, <2>2 DEF ReadUrls, STypeOK, Calls
    <3> QED BY <1>9, <2>2, <3>1 DEF ReadUrls
  <2> QED BY <2>1, <2>2
<1>10. CASE ReadUrl
  <2>1. PICK contents, error \in owned \cup {None}, matches \in BOOLEAN : CallbackReturns(contents, error, matches)
    BY <1>10 DEF ReadUrl
  <2>2. ~Unknown(TakeOver(contents) \cup TakeOver(error))
    BY DEF Unknown, TakeOver
  <2>3. call'.phase # "aborted"
    BY <2>1, <2>2 DEF CallbackReturns, AfterUrls, STypeOK, Calls
  <2>4. allocations' = owned' /\ owned' \subseteq Pointers
    BY <2>1, InputsAssumption DEF CallbackReturns, TakeOver
  <2> QED BY <2>3, <2>4
<1>11. CASE CheckSettings
  <2>1. Fails("JSONError") \/ UNCHANGED <<allocations, owned>>
    BY <1>11 DEF CheckSettings
  <2>2. call'.phase # "aborted"
    BY <1>11 DEF CheckSettings, Fails, Answers, STypeOK, Calls
  <2> QED BY <1>2, <2>1, <2>2 DEF Fails
<1>12. CASE CompileSolidity
  <2>1. call'.phase = "collect"
    BY <1>12 DEF CompileSolidity, STypeOK, Calls
  <2> QED BY <1>12, <2>1 DEF CompileSolidity
<1>13. CASE Collect
  <2>1. (\E a : Answers(a)) \/ (call' = [call EXCEPT !.phase = "crashed"] /\ UNCHANGED <<allocations, owned>>)
    BY <1>13 DEF Collect
  <2> QED BY <1>1, <1>2, <2>1 DEF Phases
<1>14. CASE CompileYul
  <2>1. \E a : Answers(a)
    BY <1>14 DEF CompileYul
  <2> QED BY <1>2, <2>1
<1>15. CASE UNCHANGED svars
  BY <1>15 DEF svars
<1> QED BY <1>3, <1>4, <1>5, <1>6, <1>7, <1>8, <1>9, <1>10, <1>11, <1>12, <1>13, <1>14, <1>15 DEF SNext

\* The stack that compileSolidity sets up.
LEMMA NewStackSound ==
  ASSUME NEW i \in Inputs, NEW sources \in SUBSET Names
  PROVE  /\ NewStack(i, sources) \in Fields
         /\ Sound(NewStack(i, sources))
         /\ New(NewStack(i, sources))
         /\ NewStack(i, sources).sources = sources
         /\ NewStack(i, sources).guarded.viaIR = i.viaIR
         /\ NewStack(i, sources).open =
              [ requestedContractNames |-> RequestedContractNames(i.selection),
                generateEvmBytecode    |-> IsEvmBytecodeRequested(i.selection),
                generateIR             |-> IsIRRequested(i.selection),
                generateEwasm          |-> IsEwasmRequested(i.selection),
                parserErrorRecovery    |-> i.parserErrorRecovery ]
<1> DEFINE readable == IF i.callback THEN i.readable ELSE {}
           requests == RequestedContractNames(i.selection)
           evm == IsEvmBytecodeRequested(i.selection)
           ir == IsIRRequested(i.selection)
           ewasm == IsEwasmRequested(i.selection)
           open == [ requestedContractNames |-> requests, generateEvmBytecode |-> evm,
                     generateIR |-> ir, generateEwasm |-> ewasm,
                     parserErrorRecovery |-> i.parserErrorRecovery ]
           s == [Fresh EXCEPT !.stackState = SourcesSet, !.sources = sources, !.readable = readable,
                              !.guarded.viaIR = i.viaIR, !.open = open]
<1>1. NewStack(i, sources) = s
  BY DEF NewStack
<1>2. evm \in BOOLEAN /\ ir \in BOOLEAN /\ ewasm \in BOOLEAN
  BY DEF IsEvmBytecodeRequested, IsIRRequested, IsEwasmRequested
<1>3. requests \subseteq Requests
  <2>1. ASSUME NEW t \in i.selection
        PROVE  t[1] \in Names \cup {"*"} /\ t[2] \in Names \cup {"*", ""}
    BY SelectionType
  <2> DEFINE Key(name) == IF name = "*" THEN "" ELSE name
  <2>2. requests = {<<Key(t[1]), Key(t[2])>> : t \in i.selection}
    BY DEF RequestedContractNames
  <2>3. ASSUME NEW t \in i.selection
        PROVE  Key(t[1]) \in Names \cup {""} /\ Key(t[2]) \in Names \cup {""}
    BY <2>1, <2>3
  <2> HIDE DEF requests, Key
  <2>4. ASSUME NEW t \in i.selection PROVE <<Key(t[1]), Key(t[2])>> \in Requests
    BY <2>3 DEF Requests
  <2> QED BY <2>2, <2>4, Zenon
<1>4. readable \in SUBSET Names
  BY InputType
<1> HIDE DEF readable, requests, evm, ir, ewasm
<1>5. open \in OpenSettings
  BY <1>2, <1>3, InputType DEF OpenSettings
<1> HIDE DEF open
<1>6. [DefaultGuarded EXCEPT !.viaIR = i.viaIR] \in GuardedSettings
  BY InputType DEF DefaultGuarded, GuardedSettings
<1>7. s = [Fresh EXCEPT !.stackState = SourcesSet, !.sources = sources, !.readable = readable,
                        !.guarded = [DefaultGuarded EXCEPT !.viaIR = i.viaIR], !.open = open]
  BY DEF Fresh
<1>8. SourcesSet \in States
  BY DEF SourcesSet, States
<1>9. s \in Fields
  <2> DEFINE g == [DefaultGuarded EXCEPT !.viaIR = i.viaIR]
  <2> HIDE DEF g
  <2>1. [Fresh EXCEPT !.stackState = SourcesSet, !.sources = sources, !.readable = readable,
                      !.guarded = g, !.open = open] \in Fields
    BY <1>4, <1>5, <1>6, <1>8, FreshSound DEF Fields, g
  <2> QED BY <1>7, <2>1 DEF g
<1>10. /\ s.stackState = SourcesSet /\ s.hasError = FALSE /\ s.withoutAst = {} /\ s.contracts = {}
       /\ s.sources = sources /\ s.open = open /\ s.guarded.viaIR = i.viaIR /\ NoCode(s)
  BY DEF Fresh, NoCode, DefaultGuarded
<1> HIDE DEF s
<1>11. Sound(s) /\ New(s)
  BY <1>10 DEF Sound, AstSound, OrderSound, CodeSound, NoCode, New,
        Empty, SourcesSet, ParsedAndImported, AnalysisPerformed
<1> QED BY <1>1, <1>9, <1>10, <1>11 DEF open, requests, evm, ir, ewasm

\* What compileSolidity leaves behind, with the errors it adds to those of the
\* sources.
LEMMA CompileSolidityOutcome ==
  ASSUME STypeOK, ReadSound, SettingsSound, CompileSolidity
  PROVE  /\ stack' \in Fields
         /\ call'.errors \in SUBSET (ReadErrors \cup {"stack", "exception"})
         /\ Compiled(stack', call.input, call.sources, call'.errors)
<1> DEFINE i == call.input
           s == NewStack(i, call.sources)
           o == IF IsBinaryRequested(i.selection) THEN Compile(s, CompilationSuccessful)
                                                  ELSE ParseAndAnalyze(s, i.stopAfter)
           errors == IF o.r = "throw" THEN {"exception"} ELSE IF o.s.errors THEN {"stack"} ELSE {}
<1>1. /\ stack' = o.s
      /\ call' = [call EXCEPT !.phase = "collect", !.errors = @ \cup errors]
      /\ call.phase = "solidity"
  BY DEF CompileSolidity
<1>2. i \in Inputs /\ call.sources \in SUBSET Names /\ call.errors \subseteq ReadErrors
  BY <1>1 DEF STypeOK, Calls, ReadSound
<1>3. /\ s \in Fields /\ Sound(s) /\ New(s)
      /\ s.open.parserErrorRecovery = i.parserErrorRecovery
      /\ program \in Programs
  <2>1. s \in Fields /\ Sound(s) /\ New(s)
    BY <1>2, NewStackSound
  <2>2. s.open = [ requestedContractNames |-> RequestedContractNames(i.selection),
                   generateEvmBytecode    |-> IsEvmBytecodeRequested(i.selection),
                   generateIR             |-> IsIRRequested(i.selection),
                   generateEwasm          |-> IsEwasmRequested(i.selection),
                   parserErrorRecovery    |-> i.parserErrorRecovery ]
    BY <1>2, NewStackSound
  <2> HIDE DEF s
  <2> QED BY <2>1, <2>2 DEF STypeOK
<1>4. i.stopAfter \in {Parsed, CompilationSuccessful}
  BY <1>2, InputType
<1>5. IsBinaryRequested(i.selection) => i.stopAfter = CompilationSuccessful
  BY <1>1 DEF SettingsSound
<1>6. errors \subseteq {"stack", "exception"}
  OBVIOUS
<1>7. call'.errors = call.errors \cup errors
  <2> HIDE DEF errors
  <2> QED BY <1>1 DEF STypeOK, Calls
<1> HIDE DEF s
<1>8. /\ Outcome(s, o)
      /\ o.s.stackState = CompilationSuccessful => CompleteCode(o.s)
      /\ o.r # "throw" /\ ~o.s.errors =>
            /\ i.stopAfter = CompilationSuccessful => o.s.stackState >= AnalysisPerformed
            /\ IsBinaryRequested(i.selection) => o.s.stackState = CompilationSuccessful
  <2>1. CASE IsBinaryRequested(i.selection)
    <3>1. o = Compile(s, CompilationSuccessful)
      BY <2>1
    <3> HIDE DEF o
    <3>2. CompilationSuccessful >= AnalysisPerformed
      BY DEF CompilationSuccessful, AnalysisPerformed
    <3> QED BY <1>3, <3>1, <3>2, CompileNew
  <2>2. CASE ~IsBinaryRequested(i.selection)
    <3>1. o = ParseAndAnalyze(s, i.stopAfter)
      BY <2>2
    <3> HIDE DEF o
    <3>2. s.stackState # CompilationSuccessful
      BY <1>3 DEF New, SourcesSet, CompilationSuccessful
    <3>3. o.s.stackState # CompilationSuccessful
      BY <1>3, <1>4, <3>1, <3>2, Stops, ParseAndAnalyzeStage
    <3>4. AnalysisPerformed >= AnalysisPerformed
      BY DEF AnalysisPerformed
    <3> QED BY <1>3, <1>4, <2>2, <3>1, <3>3, <3>4, ParseAndAnalyzeNew
  <2> QED BY <2>1, <2>2
<1>9. \A n : IsRequestedSource(s, n) = IsRequestedSource(o.s, n)
  BY <1>8 DEF Outcome, Followed, IsRequestedSource
<1> HIDE DEF o
<1>10. ReadErrors \cap {"stack", "exception"} = {}
  BY DEF ReadErrors
<1>11. /\ "exception" \in call'.errors <=> o.r = "throw"
       /\ o.s.errors => "stack" \in call'.errors \/ "exception" \in call'.errors
       /\ call'.errors \cap {"stack", "exception"} = {} => o.r # "throw" /\ ~o.s.errors
  BY <1>2, <1>7, <1>10
<1>12. Compiled(o.s, i, call.sources, call'.errors)
  BY <1>3, <1>8, <1>9, <1>11 DEF Compiled, Outcome, SoundOutcome, s
<1>13. call'.errors \in SUBSET (ReadErrors \cup {"stack", "exception"})
  BY <1>2, <1>6, <1>7
<1> QED BY <1>1, <1>8, <1>12, <1>13 DEF Outcome, SoundOutcome

\* Whoever selects an artifact of a contract requests its source, and the
\* contract.
LEMMA SelectedIsRequested ==
  ASSUME NEW i \in Inputs, NEW s,
         s.open.requestedContractNames = RequestedContractNames(i.selection),
         NEW n, NEW t \in i.selection, t[1] \in {"*", n}
  PROVE  /\ IsRequestedSource(s, n)
         /\ t[2] \in {"*", n} => IsRequestedContract(s, n)
<1> DEFINE Key(name) == IF name = "*" THEN "" ELSE name
           r == <<Key(t[1]), Key(t[2])>>
<1>1. r \in RequestedContractNames(i.selection)
  BY DEF RequestedContractNames
<1>2. r[1] \in {"", n}
  OBVIOUS
<1>3. t[2] \in {"*", n} => r[2] \in {"", n}
  OBVIOUS
<1> HIDE DEF r
<1> QED BY <1>1, <1>2, <1>3 DEF IsRequestedSource, IsRequestedContract

\* What is selected of a contract that can be deployed, and can be generated, is
\* there if the compilation went through.
SelectableArtifacts ==
    AnalysisArtifacts \cup {Ir, IrOptimized, Wast, Wasm} \cup AssemblyArtifacts
    \cup UNION {ObjectArtifacts(k, TRUE) : k \in ObjectKinds}

LEMMA SelectedIsAvailable ==
  ASSUME NEW i \in Inputs, NEW sources \in SUBSET Names, NEW s \in Fields,
         Followed(NewStack(i, sources), s), CompleteCode(s),
         NEW n \in s.sourceOrder \cap program.deployable,
         NEW t \in i.selection, t[1] \in {"*", n}, t[2] \in {"*", n},
         NEW a \in SelectableArtifacts, Selects(t[3], a, FALSE), ~NotGenerated(i, a)
  PROVE  a \in Available(s, n)
<1>1. s.open = [ requestedContractNames |-> RequestedContractNames(i.selection),
                 generateEvmBytecode    |-> IsEvmBytecodeRequested(i.selection),
                 generateIR             |-> IsIRRequested(i.selection),
                 generateEwasm          |-> IsEwasmRequested(i.selection),
                 parserErrorRecovery    |-> i.parserErrorRecovery ]
  BY NewStackSound DEF Followed
<1>2. s.guarded.viaIR = i.viaIR
  <2>1. s.guarded = NewStack(i, sources).guarded
    BY DEF Followed
  <2>2. NewStack(i, sources).guarded.viaIR = i.viaIR
    BY NewStackSound
  <2> QED BY <2>1, <2>2
<1>3. n \in Targets(s) \cap program.deployable
  <2>1. s.open.requestedContractNames = RequestedContractNames(i.selection)
    BY <1>1
  <2>2. IsRequestedContract(s, n)
    BY <2>1, SelectedIsRequested
  <2> QED BY <2>2 DEF Targets
<1>4. t[3] \in ArtifactNames
  BY SelectionType
<1>5. CASE a \in AnalysisArtifacts
  BY <1>5 DEF Available
<1>6. CASE a \in {Ir, IrOptimized}
  <2>1. IsIRRequested(i.selection)
    BY <1>4, <1>6, SelectsIR DEF IsIRRequested
  <2>2. n \in s.yulIR
    BY <1>1, <1>3, <2>1 DEF CompleteCode, NeedsIR
  <2> QED BY <1>6, <2>2 DEF Available
<1>7. CASE a \in {Wast, Wasm}
  <2>1. IsEwasmRequested(i.selection)
    <3>1. CASE a = Wast
      BY <1>4, <3>1, SelectsIR DEF IsEwasmRequested
    <3>2. CASE a = Wasm
      BY <3>2 DEF NotGenerated
    <3> QED BY <1>7, <3>1, <3>2
  <2>2. n \in s.ewasm
    BY <1>1, <1>3, <2>1 DEF CompleteCode
  <2> QED BY <1>7, <2>2 DEF Available
<1>8. ASSUME a \in AssemblyArtifacts \cup UNION {ObjectArtifacts(k, TRUE) : k \in ObjectKinds}
      PROVE  n \in s.object
  <2>1. IsEvmBytecodeRequested(i.selection)
    BY <1>8, CodeRequiresBinaries DEF IsEvmBytecodeRequested
  <2> QED BY <1>1, <1>3, <2>1 DEF CompleteCode
<1>9. CASE a \in AssemblyArtifacts
  BY <1>2, <1>8, <1>9 DEF Available, NotGenerated
<1>10. ASSUME NEW k \in ObjectKinds, a \in ObjectArtifacts(k, TRUE)
       PROVE  a \in Available(s, n)
  <2>1. a \in ObjectArtifacts(k, ~s.guarded.viaIR)
    <3>1. PICK part \in {"object", "opcodes", "sourceMap"} : a = <<"evm", k, part>>
      BY <1>10 DEF ObjectArtifacts
    <3>2. Last(a) = part
      BY <3>1 DEF Last
    <3>3. part = "sourceMap" => ~s.guarded.viaIR
      BY <1>2, <3>2 DEF NotGenerated
    <3> QED BY <3>1, <3>3 DEF ObjectArtifacts
  <2> QED BY <1>8, <1>10, <2>1 DEF Available
<1> QED BY <1>5, <1>6, <1>7, <1>9, <1>10 DEF SelectableArtifacts

\* The second half of compileSolidity: the answer it puts together is complete
\* if it holds no error, and it reports what went wrong.
LEMMA CollectAnswer ==
  ASSUME STypeOK, ReadSound, SettingsSound, CollectSound, AnswerSound, Collect
  PROVE  CompleteWithoutError' /\ FailuresReported'
<1> DEFINE i == call.input
           selection == i.selection
           compilationSuccess == stack.stackState = CompilationSuccessful
           analysisPerformed == /\ stack.stackState >= AnalysisPerformed
                                /\ stack.hasError => i.parserErrorRecovery
           inconsistent == /\ (IsBinaryRequested(selection) /\ ~compilationSuccess) \/ ~analysisPerformed
                           /\ call.errors = {}
                           /\ i.stopAfter >= AnalysisPerformed
           sources == IF stack.stackState >= Parsed /\ (stack.hasError => i.parserErrorRecovery)
                        THEN stack.sources ELSE {}
           contracts == IF analysisPerformed THEN stack.contracts ELSE {}
           members == {m \in contracts \X (AnalysisArtifacts \cup CodeArtifacts) :
                          m[2] \in Members(selection, m[1], compilationSuccess)}
           content == {m \in members : m[2] \in Available(stack, m[1])}
           asts == sources \cap AstRequested(i)
           complete == [ fatal |-> "none", errors |-> call.errors, sources |-> sources,
                         asts |-> asts, members |-> members, content |-> content ]
           refused == \/ \E m \in members : m[1] \notin stack.sourceOrder
                      \/ ~compilationSuccess /\ \E m \in members : m[2] \in CodeArtifacts
<1>1. /\ call.phase = "collect"
      /\ \/ inconsistent
         \/ /\ sources \cap AstRequested(i) \cap stack.withoutAst # {}
            /\ call' = [call EXCEPT !.phase = "crashed"] /\ answer' = answer
         \/ refused
         \/ Answers(complete)
      /\ UNCHANGED <<program, stack, result>>
  BY DEF Collect
<1>2. /\ i \in Inputs /\ call.sources \in SUBSET Names /\ stack \in Fields /\ program \in Programs
      /\ call.errors \subseteq ReadErrors \cup {"stack", "exception"}
  BY DEF STypeOK, Calls
<1>3. Compiled(stack, i, call.sources, call.errors)
  BY <1>1 DEF CollectSound
<1>4. i.stopAfter \in {Parsed, CompilationSuccessful}
  BY <1>2, InputType
<1>5. ~inconsistent
  <2> SUFFICES ASSUME inconsistent PROVE FALSE
    OBVIOUS
  <2>1. i.stopAfter = CompilationSuccessful
    BY <1>4 DEF Parsed, AnalysisPerformed
  <2> QED BY <1>3, <2>1 DEF Compiled
<1>6. stack.open.requestedContractNames = RequestedContractNames(selection)
  <2>1. stack.open = NewStack(i, call.sources).open
    BY <1>3 DEF Compiled, Followed
  <2>2. stack.open = [ requestedContractNames |-> RequestedContractNames(selection),
                       generateEvmBytecode    |-> IsEvmBytecodeRequested(selection),
                       generateIR             |-> IsIRRequested(selection),
                       generateEwasm          |-> IsEwasmRequested(selection),
                       parserErrorRecovery    |-> i.parserErrorRecovery ]
    BY <1>2, <2>1, NewStackSound
  <2> QED BY <2>2
<1>7. ASSUME NEW m \in members
      PROVE  m[1] \in stack.sourceOrder /\ (m[2] \in CodeArtifacts => compilationSuccess)
  <2>1. m[1] \in contracts /\ m[2] \in Members(selection, m[1], compilationSuccess)
    OBVIOUS
  <2>2. PICK t \in selection : t[1] \in {m[1], "*"}
    BY <2>1 DEF Members, IsArtifactRequested
  <2>3. IsRequestedSource(stack, m[1])
    BY <1>2, <1>6, <2>2, SelectedIsRequested
  <2>4. stack.stackState >= AnalysisPerformed /\ m[1] \in stack.sources
    BY <1>3, <2>1 DEF Compiled, Followed
  <2>5. m[1] \in stack.sourceOrder
    BY <1>3, <2>3, <2>4 DEF Compiled
  <2>6. m[2] \in CodeArtifacts => compilationSuccess
    BY <2>1, AnalysisWithoutCode DEF Members
  <2> QED BY <2>5, <2>6
<1>8. ~refused
  BY <1>7
<1>9. CASE /\ sources \cap AstRequested(i) \cap stack.withoutAst # {}
           /\ call' = [call EXCEPT !.phase = "crashed"] /\ answer' = answer
  <2>1. answer' = None
    BY <1>1, <1>9 DEF AnswerSound
  <2>2. call'.phase = "crashed" /\ call'.input = i
    BY <1>9 DEF STypeOK, Calls
  <2>3. stack.hasError
    BY <1>3, <1>9 DEF Compiled, Sound, AstSound
  <2>4. i.parserErrorRecovery
    BY <1>9, <2>3
  <2>5. stack.withoutAst \subseteq program.unparsable
    BY <1>3 DEF Compiled, Followed
  <2>6. AstRequested(i) \cap program.unparsable # {}
    BY <1>9, <2>5
  <2>7. FailuresReported'
    BY <1>1, <2>1, <2>2, <2>4, <2>6 DEF FailuresReported, Answered, AstRequested
  <2> QED BY <2>1, <2>7 DEF CompleteWithoutError, Answered
<1>10. CASE Answers(complete)
  <2>1. answer' = complete /\ call' = [call EXCEPT !.phase = "idle"]
    BY <1>10 DEF Answers
  <2>2. call'.phase = "idle" /\ call'.input = i
    BY <2>1 DEF STypeOK, Calls
  <2> HIDE DEF members, sources, asts, content
  <2>3. /\ answer'.fatal = "none" /\ answer'.errors = call.errors /\ answer'.sources = sources
        /\ answer'.asts = asts /\ answer'.content = content
    BY <2>1
  <2> HIDE DEF complete
  <2>4. FailuresReported'
    <3>1. stack.errors => "stack" \in call.errors \/ "exception" \in call.errors
      BY <1>3 DEF Compiled
    <3>2. "exception" \in call.errors => i.parserErrorRecovery /\ WithMissingImports(stack.sources) # {}
      BY <1>3 DEF Compiled
    <3>3. "exception" \in answer'.errors =>
             call'.input.parserErrorRecovery /\ WithMissingImports(stack.sources)' # {}
      BY <1>1, <2>2, <2>3, <3>2 DEF WithMissingImports
    <3> QED BY <1>1, <2>2, <2>3, <3>1, <3>3 DEF FailuresReported
  <2>5. ASSUME i.stopAfter = CompilationSuccessful, call.errors \cap {"io", "stack", "exception"} = {}
        PROVE  /\ Given(i) \subseteq sources
               /\ \A n \in sources \cap program.deployable, t \in selection :
                     t[1] \in {"*", n} /\ t[2] \in {"*", n} =>
                        \A a \in SelectableArtifacts :
                           Selects(t[3], a, FALSE) /\ ~NotGenerated(i, a) => <<n, a>> \in content
    <3>1. /\ ~stack.hasError /\ stack.stackState >= AnalysisPerformed /\ stack.stackState >= Parsed
          /\ IsBinaryRequested(selection) => compilationSuccess
          /\ compilationSuccess => CompleteCode(stack)
      BY <1>3, <2>5 DEF Compiled
    <3>2. sources = stack.sources /\ call.sources \subseteq sources
      <4>1. NewStack(i, call.sources).sources = call.sources
        BY <1>2, NewStackSound
      <4> QED BY <1>3, <3>1, <4>1 DEF Compiled, Followed, sources
    <3>3. Given(i) \subseteq sources
      <4>1. call.todo = <<>>
        BY <1>1 DEF ReadSound
      <4>2. ToSet(call.todo) = {}
        BY <4>1 DEF ToSet
      <4> QED BY <2>5, <3>2, <4>2 DEF ReadSound
    <3>4. contracts = sources
      BY <1>3, <3>1, <3>2 DEF Compiled, Sound, AstSound, Followed
    <3>5. ASSUME NEW n \in sources \cap program.deployable, NEW t \in selection,
                 t[1] \in {"*", n}, t[2] \in {"*", n},
                 NEW a \in SelectableArtifacts, Selects(t[3], a, FALSE), ~NotGenerated(i, a)
          PROVE  <<n, a>> \in content
      <4>1. n \in Names /\ n # ""
        BY <1>2, <3>2, <3>5, InputsAssumption DEF Fields
      <4>2. IsArtifactRequested(selection, n, n, a, FALSE)
        BY <3>5, <4>1 DEF IsArtifactRequested
      <4>3. a \in AnalysisArtifacts \/ (a \in CodeArtifacts /\ compilationSuccess)
        <5>1. a \in AnalysisArtifacts \/ a \in CodeArtifacts
          BY <3>5, CodeRequiresBinaries DEF SelectableArtifacts, CodeArtifacts
        <5>2. ASSUME a \in CodeArtifacts PROVE compilationSuccess
          <6>1. a \in OutputsThatRequireBinaries
            BY <5>2, CodeRequiresBinaries
          <6> QED BY <3>1, <3>5, <6>1 DEF IsBinaryRequested
        <5> QED BY <5>1, <5>2
      <4>4. <<n, a>> \in members
        BY <3>4, <3>5, <4>2, <4>3 DEF members, Members
      <4>5. a \in Available(stack, n)
        <5>1. CASE a \in AnalysisArtifacts
          BY <5>1 DEF Available
        <5>2. CASE compilationSuccess
          <6>1. IsRequestedSource(stack, n)
            BY <1>2, <1>6, <3>5, SelectedIsRequested
          <6>2. n \in stack.sourceOrder
            BY <1>3, <3>1, <3>2, <3>5, <6>1 DEF Compiled
          <6>3. Followed(NewStack(i, call.sources), stack) /\ CompleteCode(stack)
            BY <1>3, <3>1, <5>2 DEF Compiled
          <6> QED BY <1>2, <3>5, <6>2, <6>3, SelectedIsAvailable
        <5> QED BY <4>3, <5>1, <5>2
      <4> QED BY <4>4, <4>5 DEF content
    <3> QED BY <3>3, <3>5
  <2>6. CompleteWithoutError'
    <3>1. asts = sources \cap AstRequested(i)
      BY DEF asts
    <3> QED BY <1>1, <2>2, <2>3, <2>5, <3>1 DEF CompleteWithoutError, AnswersWithout, Given, SelectableArtifacts,
               AstRequested, NotGenerated
  <2> QED BY <2>4, <2>6
<1> QED BY <1>1, <1>5, <1>8, <1>9, <1>10
-----------------------------------------------------------------------------
(***************************************************************************)
(* The steps of a call.                                                    *)
(***************************************************************************)
CallSound == STypeOK /\ ReadSound /\ SettingsSound /\ CollectSound /\ AnswerSound

\* A call that only changes its phase, as at its end, keeps everything else.
LEMMA PhaseChange ==
  ASSUME call \in Calls, NEW x \in Phases
  PROVE  LET c == [call EXCEPT !.phase = x] IN
         /\ c \in Calls /\ c.phase = x /\ c.input = call.input /\ c.todo = call.todo
         /\ c.sources = call.sources /\ c.errors = call.errors
BY DEF Calls

\* The call is over: nothing is expected of its phase any more.
LEMMA AnswersSound ==
  ASSUME CallSound, NEW a, Answers(a), UNCHANGED <<program, stack>>
  PROVE  CallSound' /\ answer' = a /\ call'.phase = "idle" /\ call'.input = call.input
<1>1. call' = [call EXCEPT !.phase = "idle"] /\ answer' = a
  BY DEF Answers
<1>2. /\ call' \in Calls /\ call'.phase = "idle" /\ call'.input = call.input /\ call'.todo = call.todo
      /\ call'.sources = call.sources /\ call'.errors = call.errors
  BY <1>1, PhaseChange DEF CallSound, STypeOK, Phases
<1>3. STypeOK'
  BY <1>2 DEF CallSound, STypeOK
<1>4. ReadSound'
  BY <1>2 DEF CallSound, ReadSound, Given
<1> QED BY <1>1, <1>2, <1>3, <1>4 DEF CallSound, SettingsSound, CollectSound, AnswerSound

\* The first of a sequence, and the others.
LEMMA HeadAndTail ==
  ASSUME NEW S, NEW todo \in Seq(S), todo # <<>>
  PROVE  ToSet(todo) = {Head(todo)} \cup ToSet(Tail(todo))
<1>1. Len(todo) \in Nat \ {0} /\ Head(todo) = todo[1]
  OBVIOUS
<1>2. Len(Tail(todo)) = Len(todo) - 1 /\ \A k \in 1..Len(Tail(todo)) : Tail(todo)[k] = todo[k + 1]
  OBVIOUS
<1>3. ASSUME NEW x \in ToSet(todo) PROVE x \in {Head(todo)} \cup ToSet(Tail(todo))
  <2>1. PICK k \in 1..Len(todo) : x = todo[k]
    BY <1>3 DEF ToSet
  <2>2. CASE k = 1
    <3>1. x = Head(todo)
      BY <1>1, <2>1, <2>2
    <3> QED BY <3>1
  <2>3. CASE k # 1
    <3>1. k - 1 \in 1..Len(Tail(todo)) /\ Tail(todo)[k - 1] = x
      BY <1>1, <1>2, <2>1, <2>3
    <3>2. DOMAIN Tail(todo) = 1..Len(Tail(todo))
      OBVIOUS
    <3>3. x \in ToSet(Tail(todo))
      BY <3>1, <3>2, Zenon DEF ToSet
    <3> QED BY <3>3
  <2>4. k = 1 \/ k # 1
    OBVIOUS
  <2> QED BY <2>2, <2>3, <2>4, Zenon
<1>4. Head(todo) \in ToSet(todo)
  BY <1>1 DEF ToSet
<1>5. ASSUME NEW x \in ToSet(Tail(todo)) PROVE x \in ToSet(todo)
  <2>1. PICK k \in 1..Len(Tail(todo)) : x = Tail(todo)[k]
    BY <1>5 DEF ToSet
  <2>2. k + 1 \in 1..Len(todo) /\ todo[k + 1] = x
    BY <1>1, <1>2, <2>1
  <2> QED BY <2>2 DEF ToSet
<1> QED BY <1>3, <1>4, <1>5

\* The sources that are still to be read, without the first.
LEMMA NextSource ==
  ASSUME call \in Calls, call.todo # <<>>
  PROVE  /\ Head(call.todo) \in Names
         /\ Tail(call.todo) \in Seq(Names)
         /\ ToSet(call.todo) = {Head(call.todo)} \cup ToSet(Tail(call.todo))
         /\ Entry \in SourceEntry
<1>1. call.todo \in Seq(Names) /\ call.input \in Inputs
  BY DEF Calls
<1>2. Head(call.todo) \in Names /\ Tail(call.todo) \in Seq(Names)
  BY <1>1
<1>3. ToSet(call.todo) = {Head(call.todo)} \cup ToSet(Tail(call.todo))
  BY <1>1, HeadAndTail
<1>4. Entry \in SourceEntry
  BY <1>1, <1>2, InputType DEF Entry
<1> QED BY <1>2, <1>3, <1>4

\* A source that is done with was read, is no longer expected or left an error.
LEMMA SourceDone ==
  ASSUME CallSound, call.phase \in {"reading", "callback"}, call.todo # <<>>,
         NEW c \in Calls,
         c.phase = "reading", c.input = call.input, c.todo = Tail(call.todo),
         call.sources \subseteq c.sources, call.errors \subseteq c.errors,
         c.errors \subseteq ReadErrors,
         \/ Head(call.todo) \in c.sources
         \/ "io" \in c.errors
         \/ Head(call.todo) \notin Given(call.input),
         call' = c, UNCHANGED <<program, stack, answer>>
  PROVE  CallSound'
<1>1. ToSet(call.todo) = {Head(call.todo)} \cup ToSet(Tail(call.todo))
  BY NextSource DEF CallSound, STypeOK
<1>2. "io" \in c.errors \/ Given(c.input) \subseteq c.sources \cup ToSet(c.todo)
  <2>1. ASSUME "io" \notin c.errors PROVE Given(call.input) \subseteq c.sources \cup ToSet(Tail(call.todo))
    BY <1>1, <2>1 DEF CallSound, ReadSound
  <2> QED BY <2>1
<1>3. ReadSound'
  <2>1. Given(c.input)' = Given(c.input)
    BY DEF Given
  <2> QED BY <1>2 DEF ReadSound, Given
<1>4. STypeOK'
  BY DEF CallSound, STypeOK
<1>5. answer' = None
  BY DEF CallSound, AnswerSound
<1> QED BY <1>3, <1>4, <1>5 DEF CallSound, SettingsSound, CollectSound, AnswerSound

\* Each step of parseInput.
LEMMA ReadingNext ==
  ASSUME CallSound, CheckRoot \/ ReadContent \/ ReadUrls \/ ReadInvalid \/ CheckSettings
  PROVE  CallSound'
<1> DEFINE i == call.input
<1>1. call \in Calls /\ i \in Inputs
  BY DEF CallSound, STypeOK, Calls
<1>2. ASSUME Fails("JSONError") PROVE CallSound'
  BY <1>2, AnswersSound DEF Fails
<1>3. CASE CheckRoot \/ ReadInvalid
  BY <1>2, <1>3 DEF CheckRoot, ReadInvalid
<1>4. ASSUME call.phase = "reading" PROVE call.errors \subseteq ReadErrors
  BY <1>4 DEF CallSound, ReadSound
<1>5. CASE ReadContent
  <2>1. call.phase = "reading" /\ call.todo # <<>>
    BY <1>5 DEF ReadContent, Reads
  <2>2. Head(call.todo) \in Names /\ Tail(call.todo) \in Seq(Names)
    BY <1>1, <2>1, NextSource
  <2> DEFINE c == [call EXCEPT !.todo = Tail(call.todo), !.errors = call.errors \cup {"io"}]
             d == [call EXCEPT !.todo = Tail(call.todo), !.sources = call.sources \cup {Head(call.todo)}]
  <2>3. call' = c \/ call' = d
    BY <1>5 DEF ReadContent
  <2>4. /\ c \in Calls /\ c.phase = "reading" /\ c.input = i /\ c.todo = Tail(call.todo)
        /\ c.sources = call.sources /\ c.errors = call.errors \cup {"io"}
    BY <1>1, <2>1, <2>2 DEF Calls, ReadErrors
  <2>5. /\ d \in Calls /\ d.phase = "reading" /\ d.input = i /\ d.todo = Tail(call.todo)
        /\ d.sources = call.sources \cup {Head(call.todo)} /\ d.errors = call.errors
    BY <1>1, <2>1, <2>2 DEF Calls
  <2>6. UNCHANGED <<program, stack, answer>>
    BY <1>5 DEF ReadContent
  <2> HIDE DEF c, d
  <2>7. CASE call' = c
    <3>1. "io" \in c.errors /\ c.errors \subseteq ReadErrors
      BY <1>4, <2>1, <2>4 DEF ReadErrors
    <3> QED BY <2>1, <2>4, <2>6, <2>7, <3>1, SourceDone
  <2>8. CASE call' = d
    BY <1>4, <2>1, <2>5, <2>6, <2>8, SourceDone
  <2> QED BY <2>3, <2>7, <2>8
<1>6. CASE ReadUrls
  <2>1. call.phase = "reading" /\ call.todo # <<>> /\ Entry.kind = "urls"
    BY <1>6 DEF ReadUrls, Reads
  <2>2. Head(call.todo) \in Names /\ Tail(call.todo) \in Seq(Names) /\ Entry \in SourceEntry
    BY <1>1, <2>1, NextSource
  <2> DEFINE c == [call EXCEPT !.todo = Tail(call.todo)]
             d == [call EXCEPT !.phase = "callback", !.urls = Entry.urls, !.failures = FALSE]
  <2>3. CASE Fails("JSONError")
    BY <1>2, <2>3
  <2>4. CASE Entry.urls = 0 /\ call' = c /\ UNCHANGED <<program, stack, answer>>
    <3>1. c \in Calls /\ c.phase = "reading" /\ c.input = i /\ c.todo = Tail(call.todo)
          /\ c.sources = call.sources /\ c.errors = call.errors
      BY <1>1, <2>1, <2>2 DEF Calls
    <3> HIDE DEF c
    <3>2. Head(call.todo) \notin Given(i)
      BY <2>1, <2>2, <2>4 DEF Given, Entry
    <3> QED BY <1>4, <2>1, <2>4, <3>1, <3>2, SourceDone
  <2>5. CASE call' = d /\ UNCHANGED <<program, stack, answer>>
    <3>1. /\ d \in Calls /\ d.phase = "callback" /\ d.input = i /\ d.todo = call.todo
          /\ d.sources = call.sources /\ d.errors = call.errors
      <4> DEFINE urls == Entry.urls
      <4>1. urls \in Int
        BY <2>2 DEF SourceEntry
      <4>2. "callback" \in Phases /\ FALSE \in BOOLEAN
        BY DEF Phases
      <4> HIDE DEF urls
      <4>3. d = [call EXCEPT !.phase = "callback", !.urls = urls, !.failures = FALSE]
        BY DEF urls
      <4> QED BY <1>1, <4>1, <4>2, <4>3 DEF Calls
    <3> HIDE DEF d
    <3>2. ReadSound'
      BY <1>4, <2>1, <2>5, <3>1 DEF CallSound, ReadSound, Given
    <3> QED BY <2>1, <2>5, <3>1, <3>2 DEF CallSound, STypeOK, SettingsSound, CollectSound, AnswerSound
  <2> QED BY <1>6, <2>3, <2>4, <2>5 DEF ReadUrls
<1>7. CASE CheckSettings
  <2>1. call.phase = "reading" /\ call.todo = <<>>
    BY <1>7 DEF CheckSettings
  <2> DEFINE x == IF i.language = "Yul" THEN "yul" ELSE "solidity"
             c == [call EXCEPT !.phase = x]
  <2>2. CASE Fails("JSONError")
    BY <1>2, <2>2
  <2>3. CASE /\ ~(i.stopAfter # CompilationSuccessful /\ IsBinaryRequested(i.selection))
             /\ i.language # "other"
             /\ call' = c /\ UNCHANGED <<program, stack, answer>>
    <3>1. x \in Phases
      BY DEF Phases
    <3>2. x \in {"yul", "solidity"} /\ (x = "yul" <=> i.language = "Yul")
      OBVIOUS
    <3> HIDE DEF x
    <3>3. /\ c \in Calls /\ c.phase = x /\ c.input = i /\ c.todo = call.todo
          /\ c.sources = call.sources /\ c.errors = call.errors
      BY <1>1, <3>1, PhaseChange
    <3> HIDE DEF c
    <3>4. ReadSound'
      BY <1>4, <2>1, <2>3, <3>2, <3>3 DEF CallSound, ReadSound, Given
    <3>5. i.language \in {"Solidity", "Yul", "other"}
      BY <1>1, InputType
    <3>6. SettingsSound'
      BY <2>3, <3>2, <3>3, <3>5 DEF SettingsSound
    <3> QED BY <2>1, <2>3, <3>2, <3>3, <3>4, <3>6 DEF CallSound, STypeOK, CollectSound, AnswerSound
  <2> QED BY <1>7, <2>2, <2>3 DEF CheckSettings
<1> QED BY <1>3, <1>5, <1>6, <1>7

\* What the callback returns is tried until a text was read or no URL is left.
LEMMA ReadUrlNext ==
  ASSUME CallSound, ReadUrl
  PROVE  CallSound'
<1>1. PICK contents, error \in owned \cup {None}, matches \in BOOLEAN : CallbackReturns(contents, error, matches)
  BY DEF ReadUrl
<1> DEFINE taken == TakeOver(contents) \cup TakeOver(error)
           success == contents # None /\ error = None
           found == success /\ (Entry.hash => matches)
           errors == call.errors \cup (IF success /\ ~found THEN {"io"} ELSE {})
           failures == call.failures \/ ~success
           done == AfterUrls(found, errors, failures)
           next == [call EXCEPT !.urls = @ - 1, !.errors = errors, !.failures = failures]
           aborted == [call EXCEPT !.phase = "aborted"]
<1>2. call.phase = "callback" /\ UNCHANGED <<program, stack, answer>>
  BY DEF ReadUrl
<1>3. call \in Calls /\ call.todo # <<>> /\ call.errors \subseteq ReadErrors
  BY <1>2 DEF CallSound, STypeOK, ReadSound
<1>4. Head(call.todo) \in Names /\ Tail(call.todo) \in Seq(Names)
  BY <1>3, NextSource
<1>5. call' = aborted \/ call' = done \/ call' = next
  BY <1>1 DEF CallbackReturns
<1>6. errors \subseteq ReadErrors /\ call.errors \subseteq errors /\ failures \in BOOLEAN
  BY <1>3 DEF ReadErrors, Calls
<1>7. ~found => failures \/ "io" \in errors
  OBVIOUS
<1>8. found \in BOOLEAN
  OBVIOUS
<1> HIDE DEF taken, success, found, errors, failures
<1>9. CASE call' = aborted
  <2>1. /\ aborted \in Calls /\ aborted.phase = "aborted" /\ aborted.input = call.input
        /\ aborted.todo = call.todo /\ aborted.sources = call.sources /\ aborted.errors = call.errors
    BY <1>3, PhaseChange DEF Phases
  <2> HIDE DEF aborted
  <2>2. ReadSound'
    BY <1>9, <2>1 DEF CallSound, ReadSound, Given
  <2> QED BY <1>2, <1>9, <2>1, <2>2 DEF CallSound, STypeOK, SettingsSound, CollectSound, AnswerSound
<1>10. CASE call' = done
  <2> DEFINE sources == IF found THEN call.sources \cup {Head(call.todo)} ELSE call.sources
             all == errors \cup (IF ~failures THEN {} ELSE IF found THEN {"warning"} ELSE {"io"})
  <2>1. done = [call EXCEPT !.phase = "reading", !.todo = Tail(call.todo), !.sources = sources, !.errors = all]
    BY DEF AfterUrls
  <2>2. /\ sources \in SUBSET Names /\ call.sources \subseteq sources
        /\ found => Head(call.todo) \in sources
    BY <1>3, <1>4 DEF Calls
  <2>3. /\ all \subseteq ReadErrors /\ call.errors \subseteq all /\ (~found => "io" \in all)
    BY <1>6, <1>7, <1>8 DEF ReadErrors
  <2> HIDE DEF sources, all
  <2>4. /\ done \in Calls /\ done.phase = "reading" /\ done.input = call.input
        /\ done.todo = Tail(call.todo) /\ done.sources = sources /\ done.errors = all
    <3>1. "reading" \in Phases /\ all \in SUBSET (ReadErrors \cup {"stack", "exception"})
      BY <2>3 DEF Phases
    <3> QED BY <1>3, <1>4, <2>1, <2>2, <3>1 DEF Calls
  <2> HIDE DEF done
  <2> QED BY <1>2, <1>3, <1>8, <1>10, <2>2, <2>3, <2>4, SourceDone
<1>11. CASE call' = next
  <2>1. /\ next \in Calls /\ next.phase = "callback" /\ next.input = call.input
        /\ next.todo = call.todo /\ next.sources = call.sources /\ next.errors = errors
    <3>1. errors \in SUBSET (ReadErrors \cup {"stack", "exception"}) /\ call.urls - 1 \in Int
      BY <1>3, <1>6 DEF Calls
    <3> QED BY <1>2, <1>3, <1>6, <3>1 DEF Calls
  <2> HIDE DEF next
  <2>2. ReadSound'
    BY <1>2, <1>3, <1>6, <1>11, <2>1 DEF CallSound, ReadSound, Given
  <2> QED BY <1>2, <1>11, <2>1, <2>2 DEF CallSound, STypeOK, SettingsSound, CollectSound, AnswerSound
<1> QED BY <1>5, <1>9, <1>10, <1>11

\* Compiled speaks of the next state if it speaks of its components.
LEMMA CompiledNext ==
  ASSUME program' = program, Compiled(stack', call'.input, call'.sources, call'.errors)
  PROVE  Compiled(stack, call.input, call.sources, call.errors)'
<1>1. Sound(stack)'
  <2>1. Sound(stack')
    BY DEF Compiled
  <2> QED BY <2>1 DEF Sound, AstSound, OrderSound, CodeSound, NoCode, Needs
<1>2. Followed(NewStack(call.input, call.sources), stack)'
  <2>1. Followed(NewStack(call'.input, call'.sources), stack')
    BY DEF Compiled
  <2>2. NewStack(call.input, call.sources)' = NewStack(call'.input, call'.sources)
    BY DEF NewStack, RequestedContractNames, IsEvmBytecodeRequested, IsIRRequested, IsEwasmRequested
  <2> QED BY <2>1, <2>2 DEF Followed
<1>3. WithMissingImports(stack.sources)' = WithMissingImports(stack'.sources)
  BY DEF WithMissingImports
<1>4. IsBinaryRequested(call.input.selection)' = IsBinaryRequested(call'.input.selection)
  BY DEF IsBinaryRequested
<1>5. CompleteCode(stack') => CompleteCode(stack)'
  BY DEF CompleteCode, Targets, IsRequestedContract, NeedsIR
<1>6. ASSUME NEW n PROVE IsRequestedSource(stack, n)' = IsRequestedSource(stack', n)
  BY DEF IsRequestedSource
<1> QED BY <1>1, <1>2, <1>3, <1>4, <1>5, <1>6 DEF Compiled

\* Every step of the library and its host keeps the invariant of the call; that
\* the host frees only what it owns is needed, as the library aborts otherwise.
LEMMA CallNext ==
  ASSUME CallSound, OwnershipSound, [SNext]_svars
  PROVE  CallSound'
<1>1. call \in Calls /\ call.input \in Inputs
  BY DEF CallSound, STypeOK, Calls
<1>2. CASE CheckRoot \/ ReadContent \/ ReadUrls \/ ReadInvalid \/ CheckSettings
  BY <1>2, ReadingNext
<1>3. CASE ReadUrl
  BY <1>3, ReadUrlNext
<1>4. CASE UNCHANGED <<program, stack, call, answer>>
  <2>1. ReadSound'
    BY <1>4 DEF CallSound, ReadSound, Given
  <2>2. CollectSound'
    BY <1>4, CompiledNext DEF CallSound, CollectSound
  <2> QED BY <1>4, <2>1, <2>2 DEF CallSound, STypeOK, SettingsSound, AnswerSound
<1>5. CASE SolidityFree
  <2>1. ASSUME NEW p \in owned PROVE ~Unknown({p})
    BY DEF Unknown, OwnershipSound, OwnershipExact
  <2> QED BY <1>4, <1>5, <2>1 DEF SolidityFree
<1>6. CASE SolidityCompile
  <2> DEFINE c == StartCall(call.input)
  <2>1. call' = c /\ answer' = None /\ stack' = Fresh /\ program' = program
    BY <1>6 DEF SolidityCompile
  <2>2. /\ c \in Calls /\ c.phase = "reading" /\ c.input = call.input /\ c.todo = call.input.given
        /\ c.sources = {} /\ c.errors = {}
    <3> DEFINE given == call.input.given
    <3>1. given \in Seq(Names) /\ call.input \in Inputs
      BY <1>1, InputType
    <3> HIDE DEF given
    <3>2. c = [ input |-> call.input, phase |-> "reading", todo |-> given, urls |-> 0,
                failures |-> FALSE, sources |-> {}, errors |-> {} ]
      BY DEF StartCall, given
    <3>3. "reading" \in Phases
      BY DEF Phases
    <3>4. c \in Calls
      BY <3>1, <3>2, <3>3 DEF Calls
    <3> QED BY <3>2, <3>4 DEF given
  <2> HIDE DEF c
  <2>3. ReadSound'
    <3>1. Given(c.input) \subseteq ToSet(c.todo)
      BY <2>2 DEF Given
    <3> QED BY <2>1, <2>2, <3>1 DEF ReadSound, Given
  <2>4. STypeOK'
    BY <2>1, <2>2, FreshSound DEF CallSound, STypeOK
  <2>5. SettingsSound' /\ CollectSound' /\ AnswerSound'
    BY <2>1, <2>2 DEF SettingsSound, CollectSound, AnswerSound
  <2> QED BY <2>3, <2>4, <2>5 DEF CallSound
<1>7. CASE CompileSolidity
  <2>1. /\ call' \in [input : {call.input}, phase : {"collect"}, todo : {call.todo}, urls : Int,
                       failures : BOOLEAN, sources : {call.sources}, errors : {call'.errors}]
        /\ call.phase = "solidity"
        /\ UNCHANGED <<program, answer>>
    BY <1>1, <1>7 DEF CompileSolidity, Calls
  <2>2. /\ stack' \in Fields
        /\ call'.errors \in SUBSET (ReadErrors \cup {"stack", "exception"})
        /\ Compiled(stack', call.input, call.sources, call'.errors)
    BY <1>7, CompileSolidityOutcome DEF CallSound
  <2>3. /\ call'.phase = "collect" /\ call'.input = call.input /\ call'.todo = call.todo
        /\ call'.sources = call.sources
    BY <2>1
  <2>4. call' \in Calls
    BY <1>1, <2>1, <2>2 DEF Calls, Phases
  <2>5. CollectSound'
    BY <2>1, <2>2, <2>3, CompiledNext DEF CollectSound
  <2>6. ReadSound'
    <3>1. "io" \in call.errors => "io" \in call'.errors
      BY <1>7, <1>1 DEF CompileSolidity, Calls
    <3> QED BY <2>1, <2>3, <3>1 DEF CallSound, ReadSound, Given
  <2>7. SettingsSound'
    BY <2>1, <2>3 DEF CallSound, SettingsSound, IsBinaryRequested
  <2> QED BY <2>1, <2>2, <2>3, <2>4, <2>5, <2>6, <2>7 DEF CallSound, STypeOK, AnswerSound
<1>8. CASE Collect
  <2>1. (\E a : Answers(a)) \/ (call' = [call EXCEPT !.phase = "crashed"] /\ answer' = answer)
    BY <1>8 DEF Collect
  <2>2. call.phase = "collect" /\ UNCHANGED <<program, stack>>
    BY <1>8 DEF Collect
  <2>3. CASE \E a : Answers(a)
    BY <2>2, <2>3, AnswersSound
  <2>4. CASE call' = [call EXCEPT !.phase = "crashed"] /\ answer' = answer
    <3> DEFINE c == [call EXCEPT !.phase = "crashed"]
    <3>1. /\ c \in Calls /\ c.phase = "crashed" /\ c.input = call.input /\ c.todo = call.todo
          /\ c.sources = call.sources /\ c.errors = call.errors
      BY <1>1, PhaseChange DEF Phases
    <3> HIDE DEF c
    <3>2. call' = c
      BY <2>4 DEF c
    <3>3. ReadSound'
      BY <3>1, <3>2 DEF CallSound, ReadSound, Given
    <3> QED BY <2>2, <2>4, <3>1, <3>2, <3>3 DEF CallSound, STypeOK, SettingsSound, CollectSound, AnswerSound
  <2> QED BY <2>1, <2>3, <2>4
<1>9. CASE CompileYul
  <2>1. (\E a : Answers(a)) /\ UNCHANGED <<program, stack>>
    BY <1>9 DEF CompileYul
  <2> QED BY <2>1, AnswersSound
<1>10. CASE SolidityAlloc \/ SolidityReset \/ UNCHANGED svars
  <2>1. UNCHANGED <<program, stack, call, answer>>
    BY <1>10 DEF SolidityAlloc, SolidityReset, svars
  <2> QED BY <1>4, <2>1
<1> QED BY <1>2, <1>3, <1>5, <1>6, <1>7, <1>8, <1>9, <1>10 DEF SNext
-----------------------------------------------------------------------------
(***************************************************************************)
(* The invariant, and the theorems.                                        *)
(***************************************************************************)
SInv == CallSound /\ OwnershipSound /\ CompleteWithoutError /\ FailuresReported

LEMMA SInitInv == SInit => SInv
<1> SUFFICES ASSUME SInit PROVE SInv
  OBVIOUS
<1>1. PICK i \in Inputs : call = [StartCall(i) EXCEPT !.phase = "idle"]
  BY DEF SInit
<1>2. /\ program = call.input.program /\ stack = Fresh /\ answer = None
      /\ allocations = {} /\ owned = {}
  BY DEF SInit
<1>3. call = [ input |-> i, phase |-> "idle", todo |-> i.given, urls |-> 0,
               failures |-> FALSE, sources |-> {}, errors |-> {} ]
  BY <1>1 DEF StartCall
<1>4. call \in Calls /\ program \in Programs
  <2> DEFINE given == i.given
  <2>1. given \in Seq(Names) /\ i.program \in Programs
    BY InputType
  <2>2. call = [ input |-> i, phase |-> "idle", todo |-> given, urls |-> 0,
                 failures |-> FALSE, sources |-> {}, errors |-> {} ]
    BY <1>3
  <2>3. "idle" \in Phases
    BY DEF Phases
  <2> HIDE DEF given
  <2> QED BY <1>2, <2>1, <2>2, <2>3 DEF Calls
<1>5. ReadSound
  <2>1. Given(i) \subseteq ToSet(i.given)
    BY DEF Given
  <2> QED BY <1>3, <2>1 DEF ReadSound
<1>6. STypeOK
  BY <1>2, <1>4, FreshSound DEF STypeOK
<1>7. SettingsSound /\ CollectSound /\ AnswerSound
  BY <1>2, <1>3 DEF SettingsSound, CollectSound, AnswerSound
<1>8. OwnershipSound
  BY <1>2, <1>3 DEF OwnershipSound, OwnershipExact
<1>9. CompleteWithoutError /\ FailuresReported
  BY <1>2, <1>3 DEF CompleteWithoutError, FailuresReported, Answered
<1> QED BY <1>5, <1>6, <1>7, <1>8, <1>9 DEF SInv, CallSound

\* An answer that is not put together from a compilation is none of Solidity,
\* or says that the request was refused.
LEMMA AnswersNext ==
  ASSUME CallSound, OwnershipSound, CompleteWithoutError, FailuresReported, [SNext]_svars
  PROVE  CompleteWithoutError' /\ FailuresReported'
<1>1. call \in Calls
  BY DEF CallSound, STypeOK
<1>2. CASE Collect
  BY <1>2, CollectAnswer DEF CallSound
<1>3. ASSUME answer' = None, call'.phase # "crashed"
      PROVE  CompleteWithoutError' /\ FailuresReported'
  BY <1>3 DEF CompleteWithoutError, FailuresReported, Answered
<1>4. ASSUME call.phase # "idle", answer' = answer, call'.phase # "crashed"
      PROVE  CompleteWithoutError' /\ FailuresReported'
  BY <1>3, <1>4 DEF CallSound, AnswerSound
<1>5. ASSUME NEW a, Answers(a), UNCHANGED <<program, stack>>,
             a = FatalError("JSONError") \/ call.input.language # "Solidity"
      PROVE  CompleteWithoutError' /\ FailuresReported'
  <2>1. answer' = a /\ call'.phase = "idle" /\ call'.input = call.input
    BY <1>5, AnswersSound
  <2>2. FatalError("JSONError").fatal = "JSONError" /\ FatalError("JSONError").errors = {"JSONError"}
    BY DEF FatalError, NoSources
  <2>3. CASE a = FatalError("JSONError")
    <3>1. answer'.fatal = "JSONError" /\ answer'.errors = {"JSONError"} /\ call'.phase = "idle"
      BY <2>1, <2>2, <2>3
    <3>2. CompleteWithoutError'
      BY <3>1 DEF CompleteWithoutError, AnswersWithout
    <3> QED BY <3>1, <3>2 DEF FailuresReported
  <2>4. CASE call.input.language # "Solidity"
    <3>1. ~Answered'
      BY <2>1, <2>4 DEF Answered
    <3> QED BY <2>1, <3>1 DEF CompleteWithoutError, FailuresReported
  <2> QED BY <1>5, <2>3, <2>4
<1>6. ASSUME Fails("JSONError") PROVE CompleteWithoutError' /\ FailuresReported'
  BY <1>5, <1>6 DEF Fails
<1>7. CASE CheckRoot \/ ReadInvalid
  BY <1>6, <1>7 DEF CheckRoot, ReadInvalid
<1>8. CASE ReadContent
  <2>1. call'.phase = call.phase /\ answer' = answer /\ call.phase = "reading"
    BY <1>1, <1>8 DEF ReadContent, Reads, Calls
  <2> QED BY <1>4, <2>1
<1>9. CASE ReadUrls
  <2>1. CASE ~call.input.callback
    BY <1>6, <1>9, <2>1 DEF ReadUrls
  <2>2. CASE call.input.callback
    <3>1. call'.phase \in {"reading", "callback"} /\ answer' = answer /\ call.phase = "reading"
      BY <1>1, <1>9, <2>2 DEF ReadUrls, Reads, Calls
    <3> QED BY <1>4, <3>1
  <2> QED BY <2>1, <2>2
<1>10. CASE ReadUrl
  <2>1. call'.phase # "crashed" /\ answer' = answer /\ call.phase = "callback"
    BY <1>1, <1>10 DEF ReadUrl, CallbackReturns, AfterUrls, Calls
  <2> QED BY <1>4, <2>1
<1>11. CASE CheckSettings
  <2>1. CASE Fails("JSONError")
    BY <1>6, <2>1
  <2>2. CASE ~Fails("JSONError")
    <3>1. call'.phase \in {"yul", "solidity"} /\ answer' = answer /\ call.phase = "reading"
      BY <1>1, <1>11, <2>2 DEF CheckSettings, Calls
    <3> QED BY <1>4, <3>1
  <2> QED BY <2>1, <2>2
<1>12. CASE CompileSolidity
  <2>1. call'.phase = "collect" /\ answer' = answer /\ call.phase = "solidity"
    BY <1>1, <1>12 DEF CompileSolidity, Calls
  <2> QED BY <1>4, <2>1
<1>13. CASE CompileYul
  <2>1. (\E a : Answers(a)) /\ UNCHANGED <<program, stack>> /\ call.phase = "yul"
    BY <1>13 DEF CompileYul
  <2>2. call.input.language # "Solidity"
    BY <2>1 DEF CallSound, SettingsSound
  <2> QED BY <1>5, <2>1, <2>2
<1>14. CASE SolidityCompile
  <2>1. answer' = None /\ call'.phase = "reading"
    BY <1>14 DEF SolidityCompile, StartCall
  <2> QED BY <1>3, <2>1
<1>15. CASE SolidityAlloc \/ SolidityFree \/ SolidityReset \/ UNCHANGED svars
  <2>1. ASSUME NEW p \in owned PROVE ~Unknown({p})
    BY DEF Unknown, OwnershipSound, OwnershipExact
  <2>2. UNCHANGED <<program, stack, call, answer>>
    BY <1>15, <2>1 DEF SolidityAlloc, SolidityFree, SolidityReset, svars
  <2>3. CompleteWithoutError'
    BY <2>2 DEF CompleteWithoutError, Answered, AnswersWithout, AstRequested, IsArtifactRequested, Selects,
                NotGenerated, IsEwasmRequested
  <2>4. FailuresReported'
    BY <2>2 DEF FailuresReported, Answered, AstRequested, IsArtifactRequested, Selects, WithMissingImports
  <2> QED BY <2>3, <2>4
<1> QED BY <1>2, <1>7, <1>8, <1>9, <1>10, <1>11, <1>12, <1>13, <1>14, <1>15 DEF SNext

LEMMA SNextInv == SInv /\ [SNext]_svars => SInv'
BY CallNext, OwnershipNext, AnswersNext DEF SInv, CallSound

\* Between any two steps of the library and of its host, in whatever order the
\* host allocates, frees, answers the callback and starts calls.
THEOREM SInductive == SSpec => []SInv
BY SInitInv, SNextInv, PTL DEF SSpec

\* The library's list of allocations is what the host may still use: the
\* callback's contents and error message are taken over whichever way the call
\* goes on, and takeOverAllocation never aborts for a pointer the host owns.
THEOREM MemoryOwned == SSpec => []OwnershipExact
<1>1. SInv => OwnershipExact
  BY DEF SInv, OwnershipSound
<1> QED BY <1>1, SInductive, PTL

\* parseInput loses no source, the settings of the compiler stack ask for all
\* the code the output selection needs and the second half of compileSolidity
\* finds it: an answer without an error has everything in it that was selected.
THEOREM AnswersComplete == SSpec => []CompleteWithoutError
<1>1. SInv => CompleteWithoutError
  BY DEF SInv
<1> QED BY <1>1, SInductive, PTL

\* compileSolidity never meets its own "inconsistent state", no exception leaves
\* it, and every error the stack found is in the answer, except where the parser
\* was asked to recover from errors.
THEOREM NothingSwallowed == SSpec => []FailuresReported
<1>1. SInv => FailuresReported
  BY DEF SInv
<1> QED BY <1>1, SInductive, PTL
=============================================================================
