------------------------------- MODULE Parser -------------------------------
(***************************************************************************)
(* The parser: one object reads the sources of a compilation one after     *)
(* another, by recursive descent with up to three tokens of lookahead.     *)
(*                                                                         *)
(* A function of Parser.cpp that is under way is a frame of the stack,     *)
(* which holds what is left to do, the next thing first; every action is   *)
(* one function, or one turn of a loop of it.  Tokens are the lexemes of   *)
(* the language; "id", "num" and "str" stand for all identifiers, numbers  *)
(* and strings but those that the parser looks at.  Expressions are built  *)
(* as trees; of other constructs only their acceptance is kept.  Sources   *)
(* do not nest deeper than the 1200 calls that RecursionGuard allows.      *)
(*                                                                         *)
(* An error is fatal or not.  A fatal one is an exception: it is caught by *)
(* the statements, blocks and contracts under way if the parser was told   *)
(* to recover, and otherwise ends the source without a tree.               *)
(***************************************************************************)
EXTENDS Integers, Sequences, FiniteSetsExt

CONSTANTS
    Compilations,     \* the lists of sources, each a sequence of tokens
    SeveralLicenses,  \* the sources with more than one license in their comments
    MaxErrors         \* 256, from when on an error is always fatal

ASSUME MaxErrorsAssumption == MaxErrors \in Nat
ASSUME CompilationsAssumption == Compilations \subseteq Seq(Seq(STRING)) \ {<<>>}

VARIABLES
    sources, errorRecovery,   \* what is parsed, and m_parserErrorRecovery
    unit, pos,                \* the source and the token looked at
    stack,                    \* what the functions under way still have to do
    nodes,                    \* the expressions parsed and not yet part of another one
    errors,                   \* the errors reported, in all sources
    recovering,               \* m_inParserRecovery
    insideModifier,           \* m_insideModifier
    language,                 \* m_sourceLanguage
    skipped,                  \* tokens of this source were passed over
    results                   \* what was returned for each source

input == <<sources, errorRecovery>>
vars == <<sources, errorRecovery, unit, pos, stack, nodes, errors, recovering,
          insideModifier, language, skipped, results>>

-----------------------------------------------------------------------------
(***************************************************************************)
(* Tokens.                                                                 *)
(***************************************************************************)
\* An identifier behind a documentation comment, for all tokens behind one.
Documented == {"docid"}
Identifiers == {"id", "_", "from", "solidity", "soliditypp"} \cup Documented
ElementaryTypeNames == {"uint", "address"}
StateMutability == {"pure", "view", "payable"}
VariableVisibility == {"public", "private", "internal"}
VisibilitySpecifiers == VariableVisibility \cup {"external"}
LocationSpecifiers == {"memory", "storage", "calldata"}
AssignmentOps == {"=", "+="}
CountOps == {"++", "--"}
UnaryOps == {"!", "~", "delete", "+", "-"} \cup CountOps
SubDenominations == {"vite", "ether", "days"}
StringLiterals == {"str", "hexstr"}
Paths == {"str", "emptystr"}
ContractKinds == {"contract", "interface", "library"}

\* Operators by precedence, from 1 on.
Levels == <<{","}, AssignmentOps, {"?"}, {"||"}, {"&&"}, {"=="}, {"<"}, {"|"}, {"^"},
            {"&"}, {">>"}, {"+", "-"}, {"*"}, {"**"}>>
Precedence(t) == Max({0} \cup {i \in DOMAIN Levels : t \in Levels[i]})

Tokens == sources[unit]
Peek(k) == IF pos + k > Len(Tokens) THEN "EOS" ELSE Tokens[pos + k]
After(n) == Min({pos + n, Len(Tokens) + 1})

VariableDeclarationStart ==
    \/ Peek(0) \in Identifiers \cup ElementaryTypeNames \cup {"mapping"}
    \/ Peek(0) = "function" /\ Peek(1) = "("

\* Mutant of PeekStatementType: a location is no sign of a declaration.
PeekWithoutLocation ==
    CASE Peek(0) \in {"mapping", "function"} -> "declaration"
      [] Peek(0) \in ElementaryTypeNames /\ Peek(1) \in StateMutability -> "declaration"
      [] Peek(0) \in ElementaryTypeNames \cup Identifiers /\ Peek(1) \in Identifiers -> "declaration"
      [] Peek(0) \in ElementaryTypeNames \cup Identifiers /\ Peek(1) \in {"[", "."} -> "path"
      [] OTHER -> "expression"

PeekStatementType ==
    CASE Peek(0) \in {"mapping", "function"} -> "declaration"
      [] Peek(0) \in ElementaryTypeNames /\ Peek(1) \in StateMutability -> "declaration"
      [] Peek(0) \in ElementaryTypeNames \cup Identifiers
            /\ Peek(1) \in Identifiers \cup LocationSpecifiers -> "declaration"
      [] Peek(0) \in ElementaryTypeNames \cup Identifiers /\ Peek(1) \in {"[", "."} -> "path"
      [] OTHER -> "expression"

-----------------------------------------------------------------------------
(***************************************************************************)
(* Frames.  Sync stands for the end of a statement, block or contract with *)
(* the handler that guards it, Catch for a handler on the way of statements*)
(* that return before that end.                                            *)
(***************************************************************************)
Frame(op, arg) == [op |-> op, arg |-> arg]
Call(op) == Frame(op, "")
Expect(t) == Frame("Expect", t)
Sync(t) == Frame("Sync", [token |-> t, from |-> Len(nodes) + 1])
Catch == Frame("Catch", [token |-> ";", from |-> Len(nodes) + 1])
Create(kind, op, from) == Frame("Create", [kind |-> kind, op |-> op, from |-> from])
Expression == Frame("Expression", FALSE)
Parameters(options, allowEmpty) ==
    Frame("ParameterList", [options |-> options, allowEmpty |-> allowEmpty])

Node(kind, op, args) == [kind |-> kind, op |-> op, args |-> args]
Leaf(ts) == Node("leaf", ts, <<>>)
Omitted == Node("omitted", <<>>, <<>>)

Top(op) == stack # <<>> /\ Head(stack).op = op
Arg == Head(stack).arg

(***************************************************************************)
(* The ways to leave a frame: Go on with other frames behind n tokens,     *)
(* with new nodes (Build), after errors that are not fatal (Report), or    *)
(* with an exception (Fatal).                                              *)
(***************************************************************************)
Build(frames, n, ns) ==
    /\ stack' = frames \o Tail(stack)
    /\ pos' = After(n)
    /\ nodes' = ns
    /\ UNCHANGED <<input, unit, errors, recovering, insideModifier, language, skipped, results>>

Go(frames, n) == Build(frames, n, nodes)

\* parse returns; the next source is parsed with the same object.
Return(result) ==
    /\ results' = Append(results, result)
    /\ unit' = unit + 1
    /\ pos' = 1
    /\ stack' = IF unit < Len(sources) THEN <<Call("SourceUnit")>> ELSE <<>>
    /\ nodes' = <<>>
    /\ skipped' = FALSE
    /\ UNCHANGED input

\* Mutant of Unwind: the flag is reset by the end of the definition only.
UnwindKeepsModifier(count, p) ==
    LET i == Min({i \in DOMAIN stack : stack[i].op \in {"Sync", "Catch"}} \cup {Len(stack) + 1}) IN
    /\ errors' = Min({errors + count, MaxErrors + 1})
    /\ UNCHANGED language
    /\ IF errorRecovery /\ errors + count <= MaxErrors /\ i \in DOMAIN stack
       THEN /\ stack' = <<Frame("Sync", stack[i].arg)>> \o SubSeq(stack, i + 1, Len(stack))
            /\ nodes' = SubSeq(nodes, 1, stack[i].arg.from - 1)
            /\ pos' = p
            /\ recovering' = TRUE
            /\ UNCHANGED <<input, unit, insideModifier, skipped, results>>
       ELSE Return([ast |-> FALSE]) /\ UNCHANGED <<recovering, insideModifier>>

\* The exception is caught if there are errors but not too many of them.
Unwind(count, p) ==
    LET handlers == {i \in DOMAIN stack : stack[i].op \in {"Sync", "Catch"}}
        i == Min(handlers)
        h == stack[i].arg
    IN
    /\ errors' = Min({errors + count, MaxErrors + 1})
    /\ UNCHANGED language
    /\ IF errorRecovery /\ errors + count <= MaxErrors /\ handlers # {}
       THEN /\ stack' = <<Frame("Sync", h)>> \o SubSeq(stack, i + 1, Len(stack))
            /\ nodes' = SubSeq(nodes, 1, h.from - 1)
            /\ pos' = p
            /\ recovering' = TRUE
            /\ insideModifier' = (insideModifier /\ \A j \in 1..i : stack[j].op # "EndModifier")
            /\ UNCHANGED <<input, unit, skipped, results>>
       ELSE /\ Return([ast |-> FALSE])
            /\ insideModifier' = FALSE
            /\ UNCHANGED recovering

Fatal(n) == Unwind(1, After(n))

\* Mutant of Report: errors are not counted.
ReportUncounted(count, frames, n) == Go(frames, n)

Report(count, frames, n) ==
    IF errors + count > MaxErrors THEN Unwind(count, pos)
    ELSE /\ stack' = frames \o Tail(stack)
         /\ pos' = After(n)
         /\ errors' = errors + count
         /\ UNCHANGED <<input, unit, nodes, recovering, insideModifier, language, skipped, results>>

ReportIf(bad, frames, n) == IF bad THEN Report(1, frames, n) ELSE Go(frames, n)

(***************************************************************************)
(* ParserBase: expectToken does not pass a token it did not expect;        *)
(* getLiteralAndAdvance passes any.                                        *)
(***************************************************************************)
ExpectToken ==
    /\ Top("Expect")
    /\ IF Peek(0) = Arg THEN Go(<<>>, 1)
       ELSE IF errorRecovery THEN Report(1, <<>>, 0) ELSE Fatal(0)

\* As above, but the token is only looked at.
ExpectAhead ==
    /\ Top("ExpectAhead")
    /\ IF Peek(0) = Arg THEN Go(<<>>, 0)
       ELSE IF errorRecovery THEN Report(1, <<>>, 0) ELSE Fatal(0)

ExpectIdentifierToken ==
    /\ Top("Name")
    /\ IF Peek(0) \in Identifiers THEN Go(<<>>, 1)
       ELSE IF errorRecovery THEN Report(1, <<>>, 1) ELSE Fatal(0)

\* parseIdentifier makes a node as well.
ParseIdentifier ==
    /\ Top("Identifier")
    /\ Build(<<Call("Name")>>, 0, Append(nodes, Leaf(<<Peek(0)>>)))

\* Mutant of Synchronize: always looks for the token.
SynchronizeAlways ==
    LET found == {k \in pos..Len(Tokens) : Tokens[k] = Arg.token} IN
    /\ Top("Sync")
    /\ IF found = {} THEN Go(<<Call("Throw")>>, 0)
       ELSE /\ pos' = Min(found) + 1
            /\ stack' = Tail(stack)
            /\ recovering' = FALSE
            /\ skipped' = (skipped \/ Min(found) > pos)
            /\ UNCHANGED <<input, unit, nodes, errors, insideModifier, language, results>>

\* expectTokenOrConsumeUntil, which gives up where it started if there is no such token.
\* It runs outside of the handler, so that its exception goes to the next one.
Synchronize ==
    LET found == {k \in pos..Len(Tokens) : Tokens[k] = Arg.token} IN
    /\ Top("Sync")
    /\ \/ ~recovering /\ Go(<<Expect(Arg.token)>>, 0)
       \/ recovering /\ found = {} /\ Go(<<Call("Throw")>>, 0)
       \/ /\ recovering /\ found # {}
          /\ pos' = Min(found) + 1
          /\ stack' = Tail(stack)
          /\ recovering' = FALSE
          /\ skipped' = (skipped \/ Min(found) > pos)
          /\ UNCHANGED <<input, unit, nodes, errors, insideModifier, language, results>>

Rethrow == Top("Throw") /\ Fatal(0)

LeaveHandler == Top("Catch") /\ Go(<<>>, 0)

-----------------------------------------------------------------------------
(***************************************************************************)
(* Source units, pragmas and imports.                                      *)
(***************************************************************************)
\* findLicenseString, when the source is parsed.
LicenseErrors == IF Tokens \in SeveralLicenses THEN 1 ELSE 0

Parse ==
    /\ Top("SourceUnit")
    /\ LET sub(frames) == Go(frames \o <<Call("SourceUnit")>>, 0) IN
       CASE Peek(0) = "EOS" /\ LicenseErrors = 1 /\ errors >= MaxErrors -> Fatal(0)
         [] Peek(0) = "EOS" /\ (LicenseErrors = 0 \/ errors < MaxErrors) ->
              /\ errors' = errors + LicenseErrors
              /\ Return([ast |-> TRUE, language |-> language, skipped |-> skipped,
                         errors |-> errors', trees |-> nodes])
              /\ UNCHANGED <<recovering, insideModifier, language>>
         [] Peek(0) = "pragma" -> sub(<<Call("PragmaDirective")>>)
         [] Peek(0) = "import" -> sub(<<Call("ImportDirective")>>)
         [] Peek(0) \in ContractKinds \cup {"abstract"} -> sub(<<Call("ContractDefinition")>>)
         [] Peek(0) = "struct" -> sub(<<Call("StructDefinition")>>)
         [] Peek(0) = "enum" -> sub(<<Call("EnumDefinition")>>)
         [] Peek(0) = "function" -> sub(<<Call("FunctionDefinition")>>)
         [] Peek(0) # "function" /\ VariableDeclarationStart /\ Peek(1) # "EOS" ->
              sub(<<Frame("VariableDeclaration", {"initialValue"}), Expect(";")>>)
         [] OTHER -> Fatal(0)

\* At least one token belongs to a pragma, even a semicolon.
ParsePragmaDirective ==
    LET last == Min({Len(Tokens) + 1} \cup {k \in pos + 2..Len(Tokens) : Tokens[k] = ";"})
        words == SubSeq(Tokens, pos + 1, last - 1)
        illegal == {k \in DOMAIN words : words[k] = "illegal"}
    IN
    /\ Top("PragmaDirective")
    /\ Report(Cardinality(illegal),
              <<Expect(";"), Frame("SourceLanguage", SelectSeq(words, LAMBDA w : w # "illegal"))>>,
              last - pos)

\* The language stays as it was when the pragma is of another kind.
ParseSourceLanguage ==
    LET known == Arg # <<>> /\ Head(Arg) \in {"solidity", "soliditypp"} IN
    /\ Top("SourceLanguage")
    /\ \/ ~known /\ Go(<<>>, 0)
       \/ /\ known
          /\ language' = Head(Arg)
          /\ stack' = <<Frame("PragmaVersion", Tail(Arg))>> \o Tail(stack)
          /\ UNCHANGED <<input, unit, pos, nodes, errors, recovering, insideModifier, skipped, results>>

\* SemVerMatchExpressionParser: "version" is this compiler's, "otherversion" is not.
ParsesAsVersions(ws) == ws # <<>> /\ \A i \in DOMAIN ws : ws[i] \in {"version", "otherversion"}
MatchesVersion(ws) == \A i \in DOMAIN ws : ws[i] = "version"

\* While recovering from errors, a wrong version is left to the syntax checker.
ParsePragmaVersion ==
    /\ Top("PragmaVersion")
    /\ IF ParsesAsVersions(Arg) /\ (MatchesVersion(Arg) \/ errorRecovery) THEN Go(<<>>, 0) ELSE Fatal(0)

ParseImportDirective ==
    /\ Top("ImportDirective")
    /\ CASE Peek(1) \in Paths ->
              Go((IF Peek(2) = "as" THEN <<Expect("as"), Call("Name")>> ELSE <<>>)
                 \o <<Frame("ImportPath", Peek(1))>>, 2)
         [] Peek(1) = "{" -> Go(<<Call("Name"), Call("ImportAlias")>>, 2)
         [] Peek(1) = "*" -> Go(<<Expect("as"), Call("Name"), Call("ImportFrom")>>, 2)
         [] OTHER -> Fatal(1)

ParseImportAliases ==
    \/ /\ Top("ImportAlias")
       /\ Go((IF Peek(0) = "as" THEN <<Expect("as"), Call("Name")>> ELSE <<>>) \o <<Call("MoreAliases")>>, 0)
    \/ /\ Top("MoreAliases")
       /\ IF Peek(0) = "," THEN Go(<<Call("Name"), Call("ImportAlias")>>, 1)
          ELSE Go(<<Expect("}"), Call("ImportFrom")>>, 0)

ParseImportFrom ==
    \/ /\ Top("ImportFrom")
       /\ CASE Peek(0) # "from" -> Fatal(0)
            [] Peek(0) = "from" /\ Peek(1) \notin Paths -> Fatal(1)
            [] OTHER -> Go(<<Frame("ImportPath", Peek(1))>>, 2)
    \/ /\ Top("ImportPath")
       /\ IF Arg = "emptystr" THEN Fatal(0) ELSE Go(<<Expect(";")>>, 0)

-----------------------------------------------------------------------------
(***************************************************************************)
(* Contracts and their parts.                                              *)
(***************************************************************************)
ParseContractDefinition ==
    /\ Top("ContractDefinition")
    /\ Go(<<Call("ContractKind"), Call("Name"), Frame("Inheritance", "is"), Expect("{"),
            Call("ContractParts"), Sync("}")>>, 0)

ParseContractKind ==
    LET abstract == IF Peek(0) = "abstract" THEN 1 ELSE 0 IN
    /\ Top("ContractKind")
    /\ IF Peek(abstract) \in ContractKinds THEN Go(<<>>, abstract + 1) ELSE Report(1, <<>>, abstract)

ParseInheritance ==
    /\ Top("Inheritance")
    /\ IF Peek(0) = Arg THEN Go(<<Call("Invocation"), Frame("Inheritance", ",")>>, 1) ELSE Go(<<>>, 0)

\* An inheritance specifier or a modifier invocation.
ParseInvocation ==
    \/ Top("Invocation") /\ Go(<<Call("IdentifierPath"), Call("InvocationArguments")>>, 0)
    \/ /\ Top("InvocationArguments")
       /\ IF Peek(0) = "(" THEN Go(<<Call("ListArguments"), Expect(")")>>, 1) ELSE Go(<<>>, 0)

ParseContractParts ==
    /\ Top("ContractParts")
    /\ LET sub(frames) == Go(frames \o <<Call("ContractParts")>>, 0) IN
       CASE Peek(0) = "}" -> Go(<<>>, 0)
         [] \/ Peek(0) = "function" /\ Peek(1) # "("
            \/ Peek(0) \in {"constructor", "receive", "fallback"} -> sub(<<Call("FunctionDefinition")>>)
         [] Peek(0) = "struct" -> sub(<<Call("StructDefinition")>>)
         [] Peek(0) = "enum" -> sub(<<Call("EnumDefinition")>>)
         [] VariableDeclarationStart ->
              sub(<<Frame("VariableDeclaration", {"state", "initialValue"}), Expect(";")>>)
         [] Peek(0) = "modifier" -> sub(<<Call("ModifierDefinition")>>)
         [] Peek(0) = "event" -> sub(<<Call("EventDefinition")>>)
         [] Peek(0) = "using" -> sub(<<Call("UsingDirective")>>)
         [] OTHER -> Fatal(0)

ParseStructDefinition ==
    \/ Top("StructDefinition") /\ Go(<<Call("Name"), Expect("{"), Call("Members")>>, 1)
    \/ /\ Top("Members")
       /\ IF Peek(0) = "}" THEN Go(<<>>, 1)
          ELSE Go(<<Frame("VariableDeclaration", {}), Expect(";"), Call("Members")>>, 0)

ParseEnumDefinition ==
    \/ Top("EnumDefinition") /\ Go(<<Call("Name"), Expect("{"), Frame("EnumValues", TRUE)>>, 1)
    \/ /\ Top("EnumValues")
       /\ IF Peek(0) = "}" THEN ReportIf(Arg, <<>>, 1) ELSE Go(<<Call("Name"), Call("MoreValues")>>, 0)
    \/ /\ Top("MoreValues")
       /\ IF Peek(0) = "}" THEN Go(<<>>, 1) ELSE Go(<<Expect(","), Call("NextValue")>>, 0)
    \/ /\ Top("NextValue")
       /\ IF Peek(0) \notin Identifiers THEN Fatal(0) ELSE Go(<<Frame("EnumValues", FALSE)>>, 0)

\* The flag is reset by the EndModifier frame, or by the exception that removes the frame.
ParseModifierDefinition ==
    \/ /\ Top("ModifierDefinition")
       /\ insideModifier' = TRUE
       /\ stack' = <<Expect("modifier"), Call("Name"), Call("ModifierParameters"), Frame("ModifierSpecifiers", {}),
                     Call("Body"), Call("EndModifier")>> \o Tail(stack)
       /\ UNCHANGED <<input, unit, pos, nodes, errors, recovering, language, skipped, results>>
    \/ /\ Top("ModifierParameters")
       /\ IF Peek(0) = "(" THEN Go(<<Parameters({"indexed", "location"}, TRUE)>>, 0) ELSE Go(<<>>, 0)
    \/ /\ Top("ModifierSpecifiers")
       /\ CASE Peek(0) = "override" ->
                 ReportIf("override" \in Arg, <<Call("Override"), Frame("ModifierSpecifiers", Arg \cup {"override"})>>, 0)
            [] Peek(0) = "virtual" ->
                 ReportIf("virtual" \in Arg, <<Frame("ModifierSpecifiers", Arg \cup {"virtual"})>>, 1)
            [] OTHER -> Go(<<>>, 0)

EndModifier ==
    /\ Top("EndModifier")
    /\ insideModifier' = FALSE
    /\ stack' = Tail(stack)
    /\ UNCHANGED <<input, unit, pos, nodes, errors, recovering, language, skipped, results>>

ParseEventDefinition ==
    \/ Top("EventDefinition") /\ Go(<<Call("Name"), Parameters({"indexed"}, TRUE), Call("Anonymous")>>, 1)
    \/ Top("Anonymous") /\ Go(<<Expect(";")>>, IF Peek(0) = "anonymous" THEN 1 ELSE 0)

ParseUsingDirective ==
    \/ Top("UsingDirective") /\ Go(<<Call("IdentifierPath"), Expect("for"), Call("UsingType")>>, 1)
    \/ /\ Top("UsingType")
       /\ IF Peek(0) = "*" THEN Go(<<Expect(";")>>, 1) ELSE Go(<<Call("TypeName"), Expect(";")>>, 0)

-----------------------------------------------------------------------------
(***************************************************************************)
(* Functions, their headers and parameters.                                *)
(***************************************************************************)
ParseFunctionDefinition ==
    LET special == {"constructor", "fallback", "receive"}
        rest == <<Frame("FunctionHeader", FALSE), Call("Body")>>
    IN
    /\ Top("FunctionDefinition")
    /\ CASE Peek(0) = "function" /\ Peek(1) \in special -> ReportIf(Peek(1) = "constructor", rest, 2)
         [] Peek(0) = "function" /\ Peek(1) \notin special -> Go(<<Call("Name")>> \o rest, 1)
         [] OTHER -> Go(rest, 1)

ParseBody ==
    /\ Top("Body")
    /\ IF Peek(0) = ";" THEN Go(<<>>, 1) ELSE Go(<<Frame("Block", FALSE)>>, 0)

\* Arg: whether this is the type of a variable.
ParseFunctionHeader ==
    /\ Top("FunctionHeader")
    /\ Go(<<Parameters({"location"}, TRUE), Frame("Specifiers", [isStateVariable |-> Arg, seen |-> {}])>>, 0)

\* A second visibility ends the type of a variable: it is the one of the variable.
ParseSpecifiers ==
    LET t == Peek(0)  s == Arg
        visible == s.seen \cap VisibilitySpecifiers
        next(new) == Frame("Specifiers", [s EXCEPT !.seen = @ \cup {new}])
        ends == \/ s.isStateVariable /\ t \in Identifiers \cup {"override", "virtual"}
                \/ s.isStateVariable /\ t \in VisibilitySpecifiers /\ visible \cap {"external", "internal"} # {}
                \/ t \notin Identifiers \cup {"override", "virtual"} \cup VisibilitySpecifiers \cup StateMutability
    IN
    /\ Top("Specifiers")
    /\ CASE ends -> IF t = "returns" THEN Go(<<Parameters({"location"}, FALSE)>>, 1) ELSE Go(<<>>, 0)
         [] ~ends /\ t \in Identifiers -> Go(<<Call("Invocation"), Frame("Specifiers", s)>>, 0)
         [] ~ends /\ t \in VisibilitySpecifiers ->
              IF visible # {} THEN Report(1, <<Frame("Specifiers", s)>>, 1) ELSE Go(<<next(t)>>, 1)
         [] ~ends /\ t \in StateMutability -> ReportIf("mutability" \in s.seen, <<next("mutability")>>, 1)
         [] ~ends /\ t = "override" -> ReportIf("override" \in s.seen, <<Call("Override"), next("override")>>, 0)
         [] ~ends /\ t = "virtual" -> ReportIf("virtual" \in s.seen, <<next("virtual")>>, 1)

\* This loop has no exception to leave it while the parser recovers from errors.
ParseOverrideSpecifier ==
    \/ /\ Top("Override")
       /\ IF Peek(1) = "(" THEN Go(<<Call("IdentifierPath"), Call("MoreOverrides")>>, 2) ELSE Go(<<>>, 1)
    \/ /\ Top("MoreOverrides")
       /\ IF Peek(0) = ")" THEN Go(<<>>, 1)
          ELSE Go(<<Expect(","), Call("IdentifierPath"), Call("MoreOverrides")>>, 0)

ParseParameterList ==
    LET parameter == Frame("VariableDeclaration", Arg.options \cup {"emptyName"}) IN
    \/ /\ Top("ParameterList")
       /\ Go(<<Expect("("), Frame("FirstParameter", Arg)>>, 0)
    \/ /\ Top("FirstParameter")
       /\ IF Arg.allowEmpty /\ Peek(0) = ")" THEN Go(<<>>, 1) ELSE Go(<<parameter, Frame("MoreParameters", Arg)>>, 0)
    \/ /\ Top("MoreParameters")
       /\ CASE Peek(0) = ")" -> Go(<<>>, 1)
            [] Peek(0) = "," /\ Peek(1) = ")" -> Fatal(0)
            [] OTHER -> Go(<<Expect(","), parameter, Frame("MoreParameters", Arg)>>, 0)

-----------------------------------------------------------------------------
(***************************************************************************)
(* Types and variables.                                                    *)
(***************************************************************************)
ParseIdentifierPath ==
    \/ Top("IdentifierPath") /\ Go(<<Call("Name"), Call("MorePath")>>, 0)
    \/ /\ Top("MorePath")
       /\ IF Peek(0) = "." THEN Go(<<Call("Name"), Call("MorePath")>>, 1) ELSE Go(<<>>, 0)

ParseTypeName ==
    LET suffix == <<Call("TypeNameSuffix")>> IN
    /\ Top("TypeName")
    /\ CASE Peek(0) \in ElementaryTypeNames /\ Peek(1) \notin StateMutability -> Go(suffix, 1)
         [] Peek(0) \in ElementaryTypeNames /\ Peek(1) \in StateMutability ->
              ReportIf(Peek(0) # "address", suffix, 2)
         [] Peek(0) = "function" -> Go(<<Frame("FunctionHeader", TRUE)>> \o suffix, 1)
         [] Peek(0) = "mapping" -> Go(<<Expect("("), Call("MappingKey")>> \o suffix, 1)
         [] Peek(0) \in Identifiers -> Go(<<Call("IdentifierPath")>> \o suffix, 0)
         [] OTHER -> Fatal(0)

ParseMapping ==
    LET rest == <<Expect("=>"), Call("TypeName"), Expect(")")>> IN
    /\ Top("MappingKey")
    /\ CASE Peek(0) \in Identifiers -> Go(<<Call("IdentifierPath")>> \o rest, 0)
         [] Peek(0) \in ElementaryTypeNames -> Go(rest, 1)
         [] OTHER -> Fatal(0)

ParseTypeNameSuffix ==
    /\ Top("TypeNameSuffix")
    /\ IF Peek(0) # "[" THEN Go(<<>>, 0)
       ELSE Go((IF Peek(1) = "]" THEN <<>> ELSE <<Expression>>) \o <<Expect("]"), Call("TypeNameSuffix")>>, 1)

\* Only the variables of contracts and files, which may have a value, may have a
\* documentation comment.
NoDocstring == IF Peek(0) \in Documented THEN <<Call("NoDocstring")>> ELSE <<>>

RefuseDocstring == Top("NoDocstring") /\ Report(1, <<>>, 0)

\* Arg: where the variable is declared and what may be written of it.
ParseVariableDeclaration ==
    /\ Top("VariableDeclaration")
    /\ Go(<<Call("TypeName")>>
           \o (IF "initialValue" \in Arg THEN <<>> ELSE NoDocstring)
           \o (IF Peek(0) = "function" /\ "state" \in Arg THEN <<Call("NoBody")>> ELSE <<>>)
           \o <<Frame("VariableSpecifiers", [options |-> Arg, seen |-> {}])>>, 0)

\* What looks like a function without a name is no variable of function type.
RefuseUnnamedFunction ==
    /\ Top("NoBody")
    /\ IF Peek(0) = "{" /\ Tokens[pos - 1] # "]" THEN Fatal(0) ELSE Go(<<>>, 0)

ParseVariableSpecifiers ==
    LET t == Peek(0)  s == Arg
        next(new) == Frame("VariableSpecifiers", [s EXCEPT !.seen = @ \cup {new}])
        once(kind) == ReportIf(kind \in s.seen, <<next(kind)>>, 1)
        name == IF "emptyName" \in s.options /\ t \notin Identifiers THEN <<>> ELSE <<Call("Name")>>
    IN
    /\ Top("VariableSpecifiers")
    /\ CASE "state" \in s.options /\ t \in VariableVisibility -> once("visibility")
         [] "state" \in s.options /\ t = "override" ->
              ReportIf("override" \in s.seen, <<Call("Override"), next("override")>>, 0)
         [] "indexed" \in s.options /\ t = "indexed" -> Go(<<next("indexed")>>, 1)
         [] t \in {"constant", "immutable"} -> once("mutability")
         [] "location" \in s.options /\ t \in LocationSpecifiers -> once("location")
         [] OTHER -> Go(name \o (IF "initialValue" \in s.options THEN <<Call("InitialValue")>> ELSE <<>>), 0)

ParseInitialValue ==
    /\ Top("InitialValue")
    /\ IF Peek(0) = "=" THEN Go(<<Expression>>, 1) ELSE Go(<<>>, 0)

-----------------------------------------------------------------------------
(***************************************************************************)
(* Statements.  The Arg of blocks and statements tells whether "unchecked" *)
(* is allowed.                                                             *)
(***************************************************************************)
Statement == Frame("Statement", FALSE)

ParseBlock ==
    \/ /\ Top("Block")
       /\ LET unchecked == Peek(0) = "unchecked" IN
          ReportIf(unchecked /\ ~Arg, <<Expect("{"), Call("Statements"), Sync("}")>>, IF unchecked THEN 1 ELSE 0)
    \/ /\ Top("Statements")
       /\ IF Peek(0) = "}" THEN Go(<<>>, 0) ELSE Go(<<Frame("Statement", TRUE), Call("Statements")>>, 0)

ParseStatement ==
    LET t == Peek(0) IN
    /\ Top("Statement")
    /\ CASE t = "if" -> Go(<<Expect("("), Expression, Expect(")"), Statement, Call("Else"), Catch>>, 1)
         [] t = "while" -> Go(<<Expect("("), Expression, Expect(")"), Statement, Catch>>, 1)
         [] t = "do" -> Go(<<Statement, Expect("while"), Expect("("), Expression, Expect(")"), Expect(";"), Catch>>, 1)
         [] t = "for" -> Go(<<Expect("("), Call("ForInit"), Expect(";"), Call("ForCondition"), Expect(";"),
                             Call("ForLoop"), Expect(")"), Statement, Catch>>, 1)
         [] t \in {"unchecked", "{"} -> Go(<<Frame("Block", Arg), Catch>>, 0)
         [] t \in {"continue", "break", "throw"} -> Go(<<Sync(";")>>, 1)
         [] t = "return" -> Go((IF Peek(1) = ";" THEN <<>> ELSE <<Expression>>) \o <<Sync(";")>>, 1)
         [] t = "try" -> Go(<<Expression, Call("TryReturns"), Frame("Block", FALSE), Call("CatchClause"), Catch>>, 1)
         [] t = "assembly" -> Go(<<Call("InlineAssembly"), Catch>>, 1)
         [] t = "emit" -> Go(<<Call("EventName"), Expect("("), Call("CallArguments"), Expect(")"), Sync(";")>>, 1)
         [] t = "_" /\ insideModifier -> Go(<<Sync(";")>>, 1)
         [] OTHER -> Go(<<Call("SimpleStatement"), Sync(";")>>, 0)

ParseElse ==
    /\ Top("Else")
    /\ IF Peek(0) = "else" THEN Go(<<Statement>>, 1) ELSE Go(<<>>, 0)

ParseForParts ==
    \/ Top("ForInit") /\ Go(IF Peek(0) = ";" THEN <<>> ELSE <<Call("SimpleStatement")>>, 0)
    \/ Top("ForCondition") /\ Go(IF Peek(0) = ";" THEN <<>> ELSE <<Expression>>, 0)
    \/ Top("ForLoop") /\ Go(IF Peek(0) = ")" THEN <<>> ELSE <<Expression>>, 0)

ParseTryReturns ==
    /\ Top("TryReturns")
    /\ IF Peek(0) = "returns" THEN Go(<<Parameters({"location"}, FALSE)>>, 1) ELSE Go(<<>>, 0)

\* There is at least one clause; only one with a name may have no parameter.
ParseCatchClause ==
    LET rest == <<Frame("Block", FALSE), Call("MoreClauses")>> IN
    \/ /\ Top("CatchClause")
       /\ Go(<<Expect("catch"), Call("CatchParameters")>>, 0)
    \/ /\ Top("CatchParameters")
       /\ CASE Peek(0) = "{" -> Go(rest, 0)
            [] Peek(0) \in Identifiers -> Go(<<Parameters({"location"}, TRUE)>> \o rest, 1)
            [] OTHER -> Go(<<Parameters({"location"}, FALSE)>> \o rest, 0)
    \/ /\ Top("MoreClauses")
       /\ IF Peek(0) = "catch" THEN Go(<<Call("CatchClause")>>, 0) ELSE Go(<<>>, 0)

\* The block is read by the parser of Yul; here it is one token.
ParseInlineAssembly ==
    LET at == IF Peek(0) = "evmasm" THEN 1 ELSE 0 IN
    /\ Top("InlineAssembly")
    /\ CASE Peek(0) = "str" -> Fatal(0)
         [] Peek(0) # "str" /\ Peek(at) = "yulblock" -> Go(<<>>, at + 1)
         [] OTHER -> Fatal(at)

ParseEventName ==
    /\ Top("EventName")
    /\ IF Peek(0) \in Identifiers THEN Go(<<Call("IdentifierPath")>>, 0) ELSE Fatal(0)

(***************************************************************************)
(* Simple statements declare variables or are expressions.  A path with    *)
(* indices may be the start of either: it is parsed, and what it was is    *)
(* decided by the token behind it.                                         *)
(***************************************************************************)
ParseSimpleStatement ==
    LET from == Len(nodes) + 1
        commas == Min({k \in 0..Len(Tokens) : Peek(k + 1) # ","})
        start(tuple, at) == Frame("LookAhead", [tuple |-> tuple, from |-> from, at |-> at, known |-> FALSE])
    IN
    /\ Top("SimpleStatement")
    /\ IF Peek(0) = "("
       THEN Build(<<start(TRUE, from + commas)>>, 1 + commas, nodes \o [i \in 1..commas |-> Omitted])
       ELSE Go(<<start(FALSE, from)>>, 0)

TryParseIndexAccessedPath ==
    /\ Top("LookAhead")
    /\ CASE PeekStatementType = "declaration" -> Go(<<Frame("Declaration", Arg)>>, 0)
         [] PeekStatementType = "expression" -> Go(<<Frame("ExpressionStatement", Arg)>>, 0)
         [] OTHER -> Go(<<Call("IndexAccessedPath"), Frame("Decide", Arg)>>, 0)

ParseIndexAccessedPath ==
    \/ /\ Top("IndexAccessedPath")
       /\ IF Peek(0) \in Identifiers THEN Go(<<Call("Identifier"), Call("PathMembers")>>, 0)
          ELSE Build(<<Call("PathIndices")>>, 1, Append(nodes, Leaf(<<Peek(0)>>)))
    \/ /\ Top("PathMembers")
       /\ IF Peek(0) = "." THEN Go(<<Call("Identifier"), Call("PathMembers")>>, 1)
          ELSE Go(<<Call("PathIndices")>>, 0)
    \/ /\ Top("PathIndices")
       /\ IF Peek(0) = "[" THEN Go(<<Frame("Index", Len(nodes) + 1), Call("PathIndices")>>, 1) ELSE Go(<<>>, 0)

\* Mutant of ExpressionFromIndexAccessStructure: the names of the path only.
ExpressionWithoutIndices(at) ==
    LET e[i \in at..Len(nodes)] ==
            IF i = at THEN nodes[at]
            ELSE IF nodes[i].kind = "leaf" THEN Node("member", <<>>, <<e[i - 1], nodes[i]>>)
            ELSE e[i - 1]
    IN e[Len(nodes)]

\* The path from node "at" on: members behind the first name, then indices.
ExpressionFromIndexAccessStructure(at) ==
    LET e[i \in at..Len(nodes)] ==
            IF i = at THEN nodes[at]
            ELSE IF nodes[i].kind = "leaf" THEN Node("member", <<>>, <<e[i - 1], nodes[i]>>)
            ELSE Node(nodes[i].kind, <<>>, <<e[i - 1]>> \o nodes[i].args)
    IN e[Len(nodes)]

\* A range is no length of an array.
TypeNameFromIndexAccessStructure(at) == {i \in at..Len(nodes) : nodes[i].kind = "range"}

DecideIndexAccessedPath ==
    /\ Top("Decide")
    /\ IF Peek(0) \in Identifiers \cup LocationSpecifiers
       THEN Report(Cardinality(TypeNameFromIndexAccessStructure(Arg.at)),
                   <<Frame("Declaration", [Arg EXCEPT !.known = TRUE])>>, 0)
       ELSE Build(<<Frame("ExpressionStatement", [Arg EXCEPT !.known = TRUE])>>, 0,
                  Append(SubSeq(nodes, 1, Arg.at - 1), ExpressionFromIndexAccessStructure(Arg.at)))

ParseVariableDeclarationStatement ==
    LET variable == Frame("VariableDeclaration", {"location"}) IN
    \/ /\ Top("Declaration")
       /\ Build((IF Arg.known THEN NoDocstring ELSE <<>>)
                 \o <<IF Arg.known THEN Frame("VariableSpecifiers", [options |-> {"location"}, seen |-> {}]) ELSE variable,
                      IF Arg.tuple THEN Call("MoreVariables") ELSE Call("InitialValue")>>,
                0, SubSeq(nodes, 1, Arg.from - 1))
    \/ /\ Top("MoreVariables")
       /\ IF Peek(0) = ")" THEN Go(<<Expect("="), Expression>>, 1)
          ELSE Go(<<Expect(","), Call("NextVariable")>>, 0)
    \/ /\ Top("NextVariable")
       /\ Go((IF Peek(0) \in {",", ")"} THEN <<>> ELSE <<variable>>) \o <<Call("MoreVariables")>>, 0)

ParseExpressionStatement ==
    \/ /\ Top("ExpressionStatement")
       /\ IF ~Arg.tuple THEN Go(<<Frame("Expression", Arg.known)>>, 0)
          ELSE Go(<<Frame("Expression", Arg.known), Call("MoreComponents"), Expect(")"),
                    Create("tuple", <<>>, Arg.from), Frame("Expression", TRUE)>>, 0)
    \/ /\ Top("MoreComponents")
       /\ IF Peek(0) = ")" THEN Go(<<>>, 0) ELSE Go(<<Expect(","), Call("NextComponent")>>, 0)
    \/ /\ Top("NextComponent")
       /\ IF Peek(0) \in {",", ")"} THEN Build(<<Call("MoreComponents")>>, 0, Append(nodes, Omitted))
          ELSE Go(<<Expression, Call("MoreComponents")>>, 0)

-----------------------------------------------------------------------------
(***************************************************************************)
(* Expressions.  The Arg of most tells whether the first part has been     *)
(* parsed already, by a statement; "from" is where the operands begin.     *)
(***************************************************************************)
From(partial) == IF partial THEN Len(nodes) ELSE Len(nodes) + 1

CreateNode ==
    /\ Top("Create")
    /\ Build(<<>>, 0, Append(SubSeq(nodes, 1, Arg.from - 1),
                             Node(Arg.kind, Arg.op, SubSeq(nodes, Arg.from, Len(nodes)))))

ParseExpression ==
    \/ /\ Top("Expression")
       /\ Go(<<Frame("Binary", [min |-> 4, partial |-> Arg]), Frame("Assignment", From(Arg))>>, 0)
    \/ /\ Top("Assignment")
       /\ CASE Peek(0) \in AssignmentOps -> Go(<<Expression, Create("assignment", <<Peek(0)>>, Arg)>>, 1)
            [] Peek(0) = "?" -> Go(<<Expression, Expect(":"), Expression, Create("conditional", <<>>, Arg)>>, 1)
            [] OTHER -> Go(<<>>, 0)

\* From the first operator on, the loop goes down to the least precedence.
ParseBinaryExpression ==
    \/ /\ Top("Binary")
       /\ Go(<<Frame("Unary", Arg.partial),
               Frame("Operators", [min |-> Arg.min, max |-> Len(Levels), from |-> From(Arg.partial)])>>, 0)
    \/ /\ Top("Operators")
       /\ LET p == Precedence(Peek(0)) IN
          IF p \in Arg.min..Arg.max
          THEN Go(<<Frame("Binary", [min |-> IF Peek(0) = "**" THEN p ELSE p + 1, partial |-> FALSE]),
                    Create("binary", <<Peek(0)>>, Arg.from),
                    Frame("Operators", [Arg EXCEPT !.max = p])>>, 1)
          ELSE Go(<<>>, 0)

ParseUnaryExpression ==
    \/ /\ Top("Unary")
       /\ IF ~Arg /\ Peek(0) \in UnaryOps \cup {"await"}
          THEN Go(<<Frame("Unary", FALSE), Create("prefix", <<Peek(0)>>, From(FALSE))>>, 1)
          ELSE Go(<<Frame("LeftHandSide", Arg), Frame("Postfix", From(Arg))>>, 0)
    \/ /\ Top("Postfix")
       /\ IF Peek(0) \in CountOps THEN Go(<<Create("postfix", <<Peek(0)>>, Arg)>>, 1) ELSE Go(<<>>, 0)

ParseLeftHandSideExpression ==
    LET suffixes == Frame("Suffixes", From(Arg)) IN
    /\ Top("LeftHandSide")
    /\ CASE Arg -> Go(<<suffixes>>, 0)
         [] ~Arg /\ Peek(0) = "new" ->
              Go(<<Call("TypeName"), Frame("NewExpression", [from |-> From(FALSE), start |-> pos]), suffixes>>, 1)
         [] ~Arg /\ Peek(0) = "payable" ->
              Build(<<Frame("ExpectAhead", "("), suffixes>>, 1, Append(nodes, Leaf(<<"payable">>)))
         [] OTHER -> Go(<<Call("Primary"), suffixes>>, 0)

ParseNewExpression ==
    /\ Top("NewExpression")
    /\ Build(<<>>, 0, Append(SubSeq(nodes, 1, Arg.from - 1), Leaf(SubSeq(Tokens, Arg.start, pos - 1))))

\* A brace belongs to the expression only if options follow.
ParseSuffixes ==
    /\ Top("Suffixes")
    /\ LET again == <<Frame("Suffixes", Arg)>> IN
       CASE Peek(0) = "[" -> Go(<<Frame("Index", Arg)>> \o again, 1)
         [] Peek(0) = "." /\ Peek(1) = "address" ->
              Build(<<Create("member", <<>>, Arg)>> \o again, 2, Append(nodes, Leaf(<<"address">>)))
         [] Peek(0) = "." /\ Peek(1) # "address" -> Go(<<Call("Identifier"), Create("member", <<>>, Arg)>> \o again, 1)
         [] Peek(0) = "(" -> Go(<<Call("CallArguments"), Expect(")"), Create("call", <<>>, Arg)>> \o again, 1)
         [] Peek(0) = "{" /\ Peek(1) \in Identifiers /\ Peek(2) = ":" ->
              Go(<<Frame("NamedArguments", TRUE), Expect("}"), Create("options", <<>>, Arg)>> \o again, 1)
         [] OTHER -> Go(<<>>, 0)

\* Behind the opening bracket of an index or a range; Arg: where its operands begin.
ParseIndex ==
    \/ /\ Top("Index")
       /\ IF Peek(0) \in {"]", ":"} THEN Build(<<Frame("IndexEnd", Arg)>>, 0, Append(nodes, Omitted))
          ELSE Go(<<Expression, Frame("IndexEnd", Arg)>>, 0)
    \/ /\ Top("IndexEnd")
       /\ CASE Peek(0) # ":" -> Go(<<Expect("]"), Create("index", <<>>, Arg)>>, 0)
            [] Peek(0) = ":" /\ Peek(1) = "]" ->
                 Build(<<Expect("]"), Create("range", <<>>, Arg)>>, 1, Append(nodes, Omitted))
            [] OTHER -> Go(<<Expression, Expect("]"), Create("range", <<>>, Arg)>>, 1)

ParsePrimaryExpression ==
    LET t == Peek(0)
        strings == Min({k \in 1..Len(Tokens) : Peek(k) # t})
        leaf(n) == Build(<<>>, n, Append(nodes, Leaf(SubSeq(Tokens, pos, pos + n - 1))))
        closing == IF t = "(" THEN ")" ELSE "]"
        kind == IF t = "(" THEN "tuple" ELSE "array"
        end == <<Expect(closing), Create(kind, <<>>, Len(nodes) + 1)>>
    IN
    /\ Top("Primary")
    /\ CASE t \in Identifiers \cup ElementaryTypeNames \cup {"true", "type"} -> leaf(1)
         [] t = "num" -> leaf(IF Peek(1) \in SubDenominations THEN 2 ELSE 1)
         [] t \in StringLiterals -> IF Peek(strings) = "illegal" THEN Fatal(strings) ELSE leaf(strings)
         [] t \in {"(", "["} ->
              Go((IF Peek(1) = closing THEN <<>> ELSE <<Frame("Components", closing)>>) \o end, 1)
         [] OTHER -> Fatal(0)

\* Elements of an inline array cannot be left out.
ParseComponents ==
    \/ /\ Top("Components")
       /\ LET more == <<Frame("ComponentsEnd", Arg)>> IN
          CASE Peek(0) \notin {",", Arg} -> Go(<<Expression>> \o more, 0)
            [] Peek(0) \in {",", Arg} /\ Arg = "]" -> Report(1, more, 0)
            [] OTHER -> Build(more, 0, Append(nodes, Omitted))
    \/ /\ Top("ComponentsEnd")
       /\ IF Peek(0) = Arg THEN Go(<<>>, 0) ELSE Go(<<Expect(","), Frame("Components", Arg)>>, 0)

ParseFunctionCallArguments ==
    \/ /\ Top("CallArguments")
       /\ IF Peek(0) = "{" THEN Go(<<Frame("NamedArguments", TRUE), Expect("}")>>, 1)
          ELSE Go(<<Call("ListArguments")>>, 0)
    \/ /\ Top("ListArguments")
       /\ Go(IF Peek(0) = ")" THEN <<>> ELSE <<Expression, Call("MoreArguments")>>, 0)
    \/ /\ Top("MoreArguments")
       /\ Go(IF Peek(0) = ")" THEN <<>> ELSE <<Expect(","), Expression, Call("MoreArguments")>>, 0)

\* Arg: whether this is the first one.
ParseNamedArguments ==
    \/ /\ Top("NamedArguments")
       /\ IF Peek(0) = "}" THEN Go(<<>>, 0)
          ELSE Go((IF Arg THEN <<>> ELSE <<Expect(",")>>)
                  \o <<Call("Identifier"), Expect(":"), Expression, Create("named", <<>>, Len(nodes) + 1),
                       Call("TrailingComma")>>, 0)
    \/ /\ Top("TrailingComma")
       /\ LET trailing == Peek(0) = "," /\ Peek(1) = "}" IN
          ReportIf(trailing, <<Frame("NamedArguments", FALSE)>>, IF trailing THEN 1 ELSE 0)

-----------------------------------------------------------------------------
Init ==
    /\ sources \in Compilations
    /\ errorRecovery \in BOOLEAN
    /\ language = "indeterminate"   \* the member has no initialiser
    /\ unit = 1 /\ pos = 1
    /\ stack = <<Call("SourceUnit")>>
    /\ nodes = <<>> /\ results = <<>>
    /\ errors = 0
    /\ recovering = FALSE /\ insideModifier = FALSE /\ skipped = FALSE

Declarations ==
    \/ Parse \/ ParsePragmaDirective \/ ParseSourceLanguage \/ ParsePragmaVersion
    \/ ParseImportDirective \/ ParseImportAliases \/ ParseImportFrom
    \/ ParseContractDefinition \/ ParseContractKind \/ ParseInheritance \/ ParseInvocation
    \/ ParseContractParts \/ ParseStructDefinition \/ ParseEnumDefinition
    \/ ParseModifierDefinition \/ EndModifier \/ ParseEventDefinition \/ ParseUsingDirective
    \/ ParseFunctionDefinition \/ ParseBody \/ ParseFunctionHeader \/ ParseSpecifiers
    \/ ParseOverrideSpecifier \/ ParseParameterList
    \/ ParseIdentifierPath \/ ParseTypeName \/ ParseMapping \/ ParseTypeNameSuffix
    \/ ParseVariableDeclaration \/ RefuseDocstring \/ RefuseUnnamedFunction
    \/ ParseVariableSpecifiers \/ ParseInitialValue

Statements ==
    \/ ParseBlock \/ ParseStatement \/ ParseElse \/ ParseForParts \/ ParseTryReturns
    \/ ParseCatchClause \/ ParseInlineAssembly \/ ParseEventName
    \/ ParseSimpleStatement \/ TryParseIndexAccessedPath \/ ParseIndexAccessedPath
    \/ DecideIndexAccessedPath \/ ParseVariableDeclarationStatement \/ ParseExpressionStatement

Expressions ==
    \/ CreateNode \/ ParseExpression \/ ParseBinaryExpression \/ ParseUnaryExpression
    \/ ParseLeftHandSideExpression \/ ParseNewExpression \/ ParseSuffixes \/ ParseIndex
    \/ ParsePrimaryExpression \/ ParseComponents \/ ParseFunctionCallArguments \/ ParseNamedArguments

Base == ExpectToken \/ ExpectAhead \/ ExpectIdentifierToken \/ ParseIdentifier
        \/ Synchronize \/ Rethrow \/ LeaveHandler

Next == Base \/ Expressions \/ Statements \/ Declarations
Spec == Init /\ [][Next]_vars /\ WF_vars(Next)

-----------------------------------------------------------------------------
(***************************************************************************)
(* Properties.                                                             *)
(***************************************************************************)
\* Parsing comes to an end whatever the tokens are.  While it recovers from errors, an
\* unexpected token is reported and not passed, and some loops go on at the end of the
\* source: only the number of errors ends them.
Terminates == <>(stack = <<>>)

\* If no error was reported, all sources were parsed and no token was passed over: neither
\* by a search for the end of a statement, nor because the parser still thought it was
\* recovering from an error of an earlier source.
AcceptedMeansParsed ==
    errors = 0 => ~skipped /\ ~recovering /\ \A i \in DOMAIN results : results[i].ast

\* "_" is a placeholder in the definitions of modifiers and nowhere else, also after errors
\* that leave a definition from within; parse asserts it for the next source.
PlaceholdersInModifiersOnly ==
    insideModifier <=> \E i \in DOMAIN stack : stack[i].op = "EndModifier"

=============================================================================
