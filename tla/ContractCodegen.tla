-------------------------- MODULE ContractCodegen --------------------------
(***************************************************************************)
(* Code generation of one contract: Compiler::compileViteContract drives   *)
(* two ContractCompilers, one for the runtime code and one for the         *)
(* creation code, each writing to its own CompilerContext.  A context      *)
(* keeps the FunctionCompilationQueue, the queue of low-level functions    *)
(* and, new in Solidity++, the continuations of synchronous (awaited)      *)
(* calls.  Solidity++ moved the function selector behind the bodies of the *)
(* functions so that it can dispatch to those continuations.               *)
(*                                                                         *)
(* A body is abstracted to the items of it that touch this state:          *)
(*   call  f : an internal call of function f                              *)
(*   value f : f used as a value (a function pointer)                      *)
(*   await s : a synchronous external call, s being the FunctionCall node  *)
(*   low   n : a use of the low-level function n                           *)
(* and, in a modifier, the placeholder.                                    *)
(***************************************************************************)
EXTENDS Naturals, Sequences

CONSTANTS
    Functions,   \* function definitions other than the special ones
    Modifiers,   \* modifier definitions
    Sites,       \* FunctionCall nodes compiled as synchronous calls
    LowLevel,    \* names of low-level functions
    Contracts    \* the contracts that may be compiled

Initializers == "initializers"  \* the state variable initialisers
Constructor  == "constructor"
Receive      == "receive"
Fallback     == "fallback"
None         == "none"

Special == {Constructor, Receive, Fallback}
Decls   == Functions \cup Special
Units   == Decls \cup {Initializers}

Items == [kind : {"call", "value"}, of : Functions]
           \cup [kind : {"await"}, of : Sites]
           \cup [kind : {"low"}, of : LowLevel]
Placeholder == [kind |-> "placeholder", of |-> None]

(***************************************************************************)
(* A contract: its interface functions in selector order, the special      *)
(* functions it defines, the bodies, the modifiers each unit invokes (base *)
(* constructor specifiers left out) with their bodies, and what the        *)
(* generator of each low-level function uses.                              *)
(***************************************************************************)
Contract == [ isLibrary  : BOOLEAN,
              interface  : Seq(Functions),
              special    : SUBSET Special,
              body       : [Units -> Seq(Items)],
              modifiers  : [Units -> Seq(Modifiers)],
              modBody    : [Modifiers -> Seq(Items \cup {Placeholder})],
              generator  : [LowLevel -> SUBSET LowLevel] ]

ASSUME ContractsAssumption == Contracts \subseteq Contract
ASSUME NamesAssumption ==
    /\ Functions \cap (Special \cup {Initializers, None}) = {}
    /\ \A c \in Contracts : \A i, j \in 1..Len(c.interface) :
          c.interface[i] = c.interface[j] => i = j

\* The syntax checker refuses a modifier without a placeholder
\* (test/syntax/solidity/modifiers/modifier_without_underscore.sol).
ASSUME PlaceholderAssumption ==
    \A c \in Contracts, m \in Modifiers :
        \E i \in DOMAIN c.modBody[m] : c.modBody[m][i] = Placeholder

\* A FunctionCall node has one place in the AST.
AwaitsAt(b, s) == {i \in DOMAIN b : b[i] = [kind |-> "await", of |-> s]}
ASSUME NodesAssumption ==
    \A c \in Contracts, s \in Sites :
        /\ \A u, v \in Units : \A i \in AwaitsAt(c.body[u], s), j \in AwaitsAt(c.body[v], s) :
              u = v /\ i = j
        /\ \A m, n \in Modifiers : \A i \in AwaitsAt(c.modBody[m], s), j \in AwaitsAt(c.modBody[n], s) :
              m = n /\ i = j
        /\ \A u \in Units, m \in Modifiers :
              AwaitsAt(c.body[u], s) = {} \/ AwaitsAt(c.modBody[m], s) = {}

Contexts == {"creation", "runtime"}

FunTag(d)  == <<"function", d>>
CallTag(s) == <<"callback", s>>
LowTag(n)  == <<"lowLevel", n>>
SelectorTag == <<"selector", None>>

Tags == ({"function"} \X Decls) \cup ({"callback"} \X Sites)
          \cup ({"lowLevel"} \X LowLevel) \cup {SelectorTag}

VARIABLES
    contract,      \* the contract being compiled
    pc,            \* the step of the driver
    unit,          \* the function whose code is being emitted, or None
    code,          \* items of unit still to be visited, with their m_modifierDepth
    entryLabels,         \* per context: functions that have an entry label
    functionsToCompile,  \* per context: the compilation queue
    alreadyCompiled,     \* per context: m_alreadyCompiledFunctions
    awaitCallbacks,      \* per context: m_awaitCallbacks
    lowLevelFunctions,   \* per context: m_lowLevelFunctions
    lowLevelQueue,       \* per context: low-level functions still to be generated
    pushed,              \* per context: tags the emitted code jumps to
    placed,              \* per context: tags that have a position
    placedTwice,         \* per context: tags placed a second time
    dispatched           \* continuations the selector dispatches to

queueVars == <<entryLabels, functionsToCompile, alreadyCompiled>>
lowVars   == <<lowLevelFunctions, lowLevelQueue>>
tagVars   == <<pushed, placed, placedTwice>>
vars == <<contract, pc, unit, code, queueVars, awaitCallbacks,
          lowVars, tagVars, dispatched>>

CreationSteps == {"initializers", "constructor", "missingCreation", "lowCreation"}
RuntimeSteps  == {"missingRuntime", "lowRuntime", "selector", "receive", "fallback"}

\* How a compilation ends: with code, with the exception of a failed stack
\* height check, or with the exception of Assembly::assemble.
Ended == {"done", "unbalanced", "failed"}

Steps == {"compileContract", "unpackers", "assemble"} \cup Ended
           \cup CreationSteps \cup RuntimeSteps

\* The context that the compiler running in this step writes to.
Cur == IF pc \in CreationSteps THEN "creation" ELSE "runtime"

RangeOf(s) == {s[i] : i \in DOMAIN s}

Init ==
    /\ contract \in Contracts
    /\ pc = "compileContract"
    /\ unit = None
    /\ code = <<>>
    /\ entryLabels = [c \in Contexts |-> {}]
    /\ functionsToCompile = [c \in Contexts |-> <<>>]
    /\ alreadyCompiled = [c \in Contexts |-> {}]
    /\ awaitCallbacks = [c \in Contexts |-> {}]
    /\ lowLevelFunctions = [c \in Contexts |-> {}]
    /\ lowLevelQueue = [c \in Contexts |-> {}]
    /\ pushed = [c \in Contexts |-> {}]
    /\ placed = [c \in Contexts |-> {}]
    /\ placedTwice = [c \in Contexts |-> {}]
    /\ dispatched = {}

(***************************************************************************)
(* Operations of CompilerContext.                                          *)
(***************************************************************************)

\* CompilerContext::operator<< of the tag t in context c.
Place(c, t) ==
    /\ placed' = [placed EXCEPT ![c] = @ \cup {t}]
    /\ placedTwice' = [placedTwice EXCEPT ![c] =
                          @ \cup (placed[c] \cap {t})]

\* A jump or push of the tags ts in each context of cs.
Push(cs, ts) ==
    pushed' = [c \in Contexts |->
                  IF c \in cs THEN pushed[c] \cup ts ELSE pushed[c]]

\* Mutant: the label is created but the function is not queued.
EntryLabelNotQueued(cs, d) ==
    /\ entryLabels' = [c \in Contexts |->
           IF c \in cs THEN entryLabels[c] \cup {d} ELSE entryLabels[c]]
    /\ UNCHANGED functionsToCompile

\* FunctionCompilationQueue::entryLabel of d in each context of cs.
EntryLabel(cs, d) ==
    /\ entryLabels' = [c \in Contexts |->
           IF c \in cs THEN entryLabels[c] \cup {d} ELSE entryLabels[c]]
    /\ functionsToCompile' = [c \in Contexts |->
           IF c \in cs /\ d \notin entryLabels[c]
             THEN Append(functionsToCompile[c], d)
             ELSE functionsToCompile[c]]

\* appendModifierOrFunctionCode at modifier depth d of unit u: the body of the
\* modifier at that depth or, behind the last one, the body of u.
Block(u, d) ==
    LET items == IF d < Len(contract.modifiers[u])
                   THEN contract.modBody[contract.modifiers[u][d + 1]]
                   ELSE contract.body[u]
    IN [i \in 1..Len(items) |-> [item |-> items[i], depth |-> d]]

\* FunctionCompilationQueue::startFunction drops d if it is at the front ...
Dequeued(c, d) ==
    IF functionsToCompile[c] # <<>> /\ Head(functionsToCompile[c]) = d
      THEN Tail(functionsToCompile[c])
      ELSE functionsToCompile[c]

\* ... and CompilerContext::startFunction then places the entry label of d,
\* which is created, and queued, when nothing has referred to d before.
StartFunction(c, d) ==
    /\ alreadyCompiled' = [alreadyCompiled EXCEPT ![c] = @ \cup {d}]
    /\ entryLabels' = [entryLabels EXCEPT ![c] = @ \cup {d}]
    /\ functionsToCompile' = [functionsToCompile EXCEPT ![c] =
           IF d \in entryLabels[c] THEN Dequeued(c, d)
                                   ELSE Append(Dequeued(c, d), d)]
    /\ Place(c, FunTag(d))
    /\ unit' = d
    /\ code' = Block(d, 0)

(***************************************************************************)
(* The items of a body.                                                    *)
(***************************************************************************)
NextItem(kind) ==
    /\ unit # None
    /\ code # <<>>
    /\ Head(code).item.kind = kind
    /\ code' = Tail(code)
    /\ UNCHANGED <<contract, unit, alreadyCompiled, dispatched>>

\* Mutant: a call creates the runtime label too.
CallWithRuntimeLabel ==
    /\ NextItem("call")
    /\ EntryLabel({Cur, "runtime"}, Head(code).item.of)
    /\ Push({Cur}, {FunTag(Head(code).item.of)})
    /\ UNCHANGED <<pc, awaitCallbacks, lowVars, placed, placedTwice>>

\* pushCombinedFunctionEntryLabel(f, false): no runtime label is created when
\* a function is only called.
CompileCall ==
    /\ NextItem("call")
    /\ EntryLabel({Cur}, Head(code).item.of)
    /\ Push({Cur}, {FunTag(Head(code).item.of)})
    /\ UNCHANGED <<pc, awaitCallbacks, lowVars, placed, placedTwice>>

\* pushCombinedFunctionEntryLabel(f, true): at creation time the value also
\* holds the runtime label, because it may be stored and called later.
CompileValue ==
    LET cs == IF Cur = "creation" THEN Contexts ELSE {"runtime"} IN
    /\ NextItem("value")
    /\ EntryLabel(cs, Head(code).item.of)
    /\ Push(cs, {FunTag(Head(code).item.of)})
    /\ UNCHANGED <<pc, awaitCallbacks, lowVars, placed, placedTwice>>

\* Mutant: both contexts share one table of continuations.
CallbackTableShared(c, s) ==
    IF \E d \in Contexts : s \in awaitCallbacks[d]
      THEN /\ pc' = "unbalanced"
           /\ UNCHANGED <<awaitCallbacks, placed, placedTwice>>
      ELSE /\ awaitCallbacks' = [awaitCallbacks EXCEPT ![c] = @ \cup {s}]
           /\ Place(c, CallTag(s))
           /\ pc' = pc

\* appendExternalFunctionCall emits SYNCCALL STOP and calls addCallbackDest,
\* which places the continuation and emits CALLBACKDEST only for a call node
\* it has not met before.  Without CALLBACKDEST the success flag is missing
\* on the stack and the StackHeightChecker of the statement throws.
AddCallbackDest(c, s) ==
    IF s \in awaitCallbacks[c]
      THEN /\ pc' = "unbalanced"
           /\ UNCHANGED <<awaitCallbacks, placed, placedTwice>>
      ELSE /\ awaitCallbacks' = [awaitCallbacks EXCEPT ![c] = @ \cup {s}]
           /\ Place(c, CallTag(s))
           /\ pc' = pc

CompileAwait ==
    /\ NextItem("await")
    /\ AddCallbackDest(Cur, Head(code).item.of)
    /\ UNCHANGED <<entryLabels, functionsToCompile, lowVars, pushed>>

\* lowLevelFunctionTag
CompileLowLevel ==
    LET n == Head(code).item.of IN
    /\ NextItem("low")
    /\ lowLevelFunctions' = [lowLevelFunctions EXCEPT ![Cur] = @ \cup {n}]
    /\ lowLevelQueue' = [lowLevelQueue EXCEPT ![Cur] =
           @ \cup ({n} \ lowLevelFunctions[Cur])]
    /\ Push({Cur}, {LowTag(n)})
    /\ UNCHANGED <<pc, entryLabels, functionsToCompile, awaitCallbacks,
                   placed, placedTwice>>

\* PlaceholderStatement: appendModifierOrFunctionCode emits the block one
\* level further in, once for every placeholder of the modifier.
CompilePlaceholder ==
    /\ unit # None
    /\ code # <<>>
    /\ Head(code).item = Placeholder
    /\ code' = Block(unit, Head(code).depth + 1) \o Tail(code)
    /\ UNCHANGED <<contract, pc, unit, queueVars, awaitCallbacks, lowVars,
                   tagVars, dispatched>>

\* The step that follows the unit compiled in step p.
After(p) == CASE p = "initializers" /\ Constructor \in contract.special -> "constructor"
              [] p = "initializers" /\ Constructor \notin contract.special -> "missingCreation"
              [] p = "constructor" -> "missingCreation"
              [] p = "receive" -> "fallback"
              [] p = "fallback" -> "unpackers"
              [] OTHER -> p

FinishUnit ==
    /\ unit # None
    /\ code = <<>>
    /\ unit' = None
    /\ pc' = After(pc)
    /\ UNCHANGED <<contract, code, queueVars, awaitCallbacks, lowVars,
                   tagVars, dispatched>>

(***************************************************************************)
(* The driver.                                                             *)
(***************************************************************************)

\* ContractCompiler::compileContract for the runtime code: the interface
\* functions are queued and the code jumps to the selector emitted later.
CompileContract ==
    /\ pc = "compileContract"
    /\ entryLabels' = [entryLabels EXCEPT !["runtime"] = RangeOf(contract.interface)]
    /\ functionsToCompile' = [functionsToCompile EXCEPT !["runtime"] = contract.interface]
    /\ Push({"runtime"}, {SelectorTag})
    /\ pc' = IF contract.isLibrary THEN "missingCreation" ELSE "initializers"
    /\ UNCHANGED <<contract, unit, code, alreadyCompiled,
                   awaitCallbacks, lowVars, placed, placedTwice, dispatched>>

\* initializeStateVariables
CompileInitializers ==
    /\ pc = "initializers"
    /\ unit = None
    /\ unit' = Initializers
    /\ code' = Block(Initializers, 0)
    /\ UNCHANGED <<contract, pc, queueVars, awaitCallbacks, lowVars, tagVars,
                   dispatched>>

\* appendConstructor
CompileConstructor ==
    /\ pc = "constructor"
    /\ unit = None
    /\ StartFunction("creation", Constructor)
    /\ UNCHANGED <<contract, pc, awaitCallbacks, lowVars, pushed, dispatched>>

\* Mutant: nextFunctionToCompile does not pop what it skips.
SkipWithoutPop ==
    /\ pc \in {"missingCreation", "missingRuntime"}
    /\ unit = None
    /\ functionsToCompile[Cur] # <<>>
    /\ Head(functionsToCompile[Cur]) \in alreadyCompiled[Cur]
    /\ UNCHANGED vars

\* appendMissingFunctions: nextFunctionToCompile drops compiled functions ...
SkipCompiled ==
    /\ pc \in {"missingCreation", "missingRuntime"}
    /\ unit = None
    /\ functionsToCompile[Cur] # <<>>
    /\ Head(functionsToCompile[Cur]) \in alreadyCompiled[Cur]
    /\ functionsToCompile' = [functionsToCompile EXCEPT ![Cur] = Tail(@)]
    /\ UNCHANGED <<contract, pc, unit, code, entryLabels,
                   alreadyCompiled, awaitCallbacks, lowVars, tagVars, dispatched>>

\* Mutant: compiled functions are compiled again.
CompileQueueHead ==
    /\ pc \in {"missingCreation", "missingRuntime"}
    /\ unit = None
    /\ functionsToCompile[Cur] # <<>>
    /\ StartFunction(Cur, Head(functionsToCompile[Cur]))
    /\ UNCHANGED <<contract, pc, awaitCallbacks, lowVars, pushed, dispatched>>

\* ... and the first one that is not compiled is visited.
CompileNextFunction ==
    /\ pc \in {"missingCreation", "missingRuntime"}
    /\ unit = None
    /\ functionsToCompile[Cur] # <<>>
    /\ Head(functionsToCompile[Cur]) \notin alreadyCompiled[Cur]
    /\ StartFunction(Cur, Head(functionsToCompile[Cur]))
    /\ UNCHANGED <<contract, pc, awaitCallbacks, lowVars, pushed, dispatched>>

NoMissingFunction ==
    /\ pc \in {"missingCreation", "missingRuntime"}
    /\ unit = None
    /\ functionsToCompile[Cur] = <<>>
    /\ pc' = IF pc = "missingCreation" THEN "lowCreation" ELSE "lowRuntime"
    /\ UNCHANGED <<contract, unit, code, queueVars, awaitCallbacks,
                   lowVars, tagVars, dispatched>>

\* appendMissingLowLevelFunctions.  The order in which the queue yields the
\* functions is left open: their code is position independent.
GenerateLowLevel ==
    \E n \in lowLevelQueue[Cur] :
      LET uses == contract.generator[n] IN
      /\ pc \in {"lowCreation", "lowRuntime"}
      /\ lowLevelQueue' = [lowLevelQueue EXCEPT ![Cur] =
             (@ \ {n}) \cup (uses \ lowLevelFunctions[Cur])]
      /\ lowLevelFunctions' = [lowLevelFunctions EXCEPT ![Cur] = @ \cup uses]
      /\ Push({Cur}, {LowTag(m) : m \in uses})
      /\ Place(Cur, LowTag(n))
      /\ UNCHANGED <<contract, pc, unit, code, queueVars,
                     awaitCallbacks, dispatched>>

NoMissingLowLevel ==
    /\ pc \in {"lowCreation", "lowRuntime"}
    /\ lowLevelQueue[Cur] = {}
    /\ pc' = IF pc = "lowCreation" THEN "missingRuntime" ELSE "selector"
    /\ UNCHANGED <<contract, unit, code, queueVars, awaitCallbacks,
                   lowVars, tagVars, dispatched>>

\* Mutant: the selector reads the continuations of the creation context.
SelectorReadsCreation ==
    /\ pc = "selector"
    /\ Place("runtime", SelectorTag)
    /\ dispatched' = IF contract.interface = <<>> THEN {} ELSE awaitCallbacks["creation"]
    /\ Push({"runtime"}, {CallTag(s) : s \in dispatched'})
    /\ pc' = "receive"
    /\ UNCHANGED <<contract, unit, code, queueVars, awaitCallbacks, lowVars>>

\* appendFunctionSelector up to the selector's last comparison: the loop over
\* the interface functions and, inside the same condition, the loop over the
\* continuations known at this point.
AppendFunctionSelector ==
    /\ pc = "selector"
    /\ Place("runtime", SelectorTag)
    /\ dispatched' = IF contract.interface = <<>> THEN {} ELSE awaitCallbacks["runtime"]
    /\ Push({"runtime"}, {CallTag(s) : s \in dispatched'})
    /\ pc' = "receive"
    /\ UNCHANGED <<contract, unit, code, queueVars, awaitCallbacks, lowVars>>

\* The bodies of receive and fallback are emitted inside the selector.
CompileSpecial ==
    /\ pc \in {"receive", "fallback"}
    /\ unit = None
    /\ pc \in contract.special
    /\ StartFunction("runtime", pc)
    /\ UNCHANGED <<contract, pc, awaitCallbacks, lowVars, pushed, dispatched>>

NoSpecial ==
    /\ pc \in {"receive", "fallback"}
    /\ unit = None
    /\ pc \notin contract.special
    /\ pc' = After(pc)
    /\ UNCHANGED <<contract, unit, code, queueVars, awaitCallbacks,
                   lowVars, tagVars, dispatched>>

\* The calldata unpackers jump to the interface functions, and a jump to each
\* continuation is emitted behind them.
AppendUnpackers ==
    /\ pc = "unpackers"
    /\ Push({"runtime"}, {FunTag(f) : f \in RangeOf(contract.interface)}
                           \cup {CallTag(s) : s \in awaitCallbacks["runtime"]})
    /\ pc' = "assemble"
    /\ UNCHANGED <<contract, unit, code, queueVars, awaitCallbacks,
                   lowVars, placed, placedTwice, dispatched>>

\* Assembly::assemble throws on a tag that is pushed and has no position and
\* on a tag that has two.
Resolved == \A c \in Contexts : pushed[c] \subseteq placed[c] /\ placedTwice[c] = {}

Assemble ==
    /\ pc = "assemble"
    /\ pc' = IF Resolved THEN "done" ELSE "failed"
    /\ UNCHANGED <<contract, unit, code, queueVars, awaitCallbacks,
                   lowVars, tagVars, dispatched>>

Finished == pc \in Ended /\ UNCHANGED vars

Compile ==
    \/ CompileCall \/ CompileValue \/ CompileAwait \/ CompileLowLevel
    \/ CompilePlaceholder \/ FinishUnit

Drive ==
    \/ CompileContract \/ CompileInitializers \/ CompileConstructor
    \/ SkipCompiled \/ CompileNextFunction \/ NoMissingFunction
    \/ GenerateLowLevel \/ NoMissingLowLevel
    \/ AppendFunctionSelector \/ CompileSpecial \/ NoSpecial
    \/ AppendUnpackers \/ Assemble

Step == pc \notin Ended /\ (Compile \/ Drive)

Next == Step \/ Finished

Spec == Init /\ [][Next]_vars

\* The compiler is a sequential program: it takes its next step when it has one.
FairSpec == Spec /\ WF_vars(Step)
-----------------------------------------------------------------------------
(***************************************************************************)
(* Properties.                                                             *)
(***************************************************************************)

\* Type invariant of the two compiler contexts and of the driver.
TypeOK ==
    /\ contract \in Contracts
    /\ pc \in Steps
    /\ unit \in Units \cup {None}
    /\ code \in Seq([item : Items \cup {Placeholder}, depth : Nat])
    /\ entryLabels \in [Contexts -> SUBSET Decls]
    /\ functionsToCompile \in [Contexts -> Seq(Decls)]
    /\ alreadyCompiled \in [Contexts -> SUBSET Decls]
    /\ awaitCallbacks \in [Contexts -> SUBSET Sites]
    /\ lowLevelFunctions \in [Contexts -> SUBSET LowLevel]
    /\ lowLevelQueue \in [Contexts -> SUBSET LowLevel]
    /\ pushed \in [Contexts -> SUBSET Tags]
    /\ placed \in [Contexts -> SUBSET Tags]
    /\ placedTwice \in [Contexts -> SUBSET Tags]
    /\ dispatched \subseteq Sites

\* The items a unit can contribute: its own and those of its modifiers.
ItemsOf(u) ==
    RangeOf(contract.body[u])
      \cup UNION {RangeOf(contract.modBody[m]) \ {Placeholder} : m \in RangeOf(contract.modifiers[u])}

Refs(u)   == {i.of : i \in {j \in ItemsOf(u) : j.kind \in {"call", "value"}}}
Values(u) == {i.of : i \in {j \in ItemsOf(u) : j.kind = "value"}}
Awaits(u) == {i.of : i \in {j \in ItemsOf(u) : j.kind = "await"}}
Lows(u)   == {i.of : i \in {j \in ItemsOf(u) : j.kind = "low"}}

\* The units whose code is emitted by the selector, after the queues were drained.
LateUnits == contract.special \cap {Receive, Fallback}

\* No entry label, continuation or low-level label gets two positions: a
\* function that is queued again after its own start (startFunction creates
\* the label of a function nobody referred to and queues it) is not compiled
\* a second time, and no call node is given two continuations.
CompiledOnce == \A c \in Contexts : placedTwice[c] = {}

\* When the selector is emitted, both queues have been drained to the end:
\* whatever the code emitted so far jumps to has a position, except the
\* selector itself.
QueuesDrained ==
    pc = "selector" => \A c \in Contexts : pushed[c] \subseteq placed[c] \cup {SelectorTag}

\* The invariant behind CompiledOnce and QueuesDrained.  What has a label is
\* compiled or waits in the queue, what has a position was compiled, what is
\* jumped to has a label, ...
QueueInv ==
    \A c \in Contexts :
        /\ entryLabels[c] = alreadyCompiled[c] \cup RangeOf(functionsToCompile[c])
        /\ \A d \in Decls : FunTag(d) \in placed[c] => d \in alreadyCompiled[c]
        /\ \A d \in alreadyCompiled[c] : FunTag(d) \in placed[c]
        /\ \A d \in Decls : FunTag(d) \in pushed[c] => d \in entryLabels[c]

\* ... and the same for the low-level functions and the continuations.
LowLevelInv ==
    \A c \in Contexts :
        /\ lowLevelQueue[c] \subseteq lowLevelFunctions[c]
        /\ \A n \in LowLevel : LowTag(n) \in pushed[c] => n \in lowLevelFunctions[c]
        /\ \A n \in lowLevelFunctions[c] : n \in lowLevelQueue[c] \/ LowTag(n) \in placed[c]
        /\ \A n \in LowLevel : LowTag(n) \in placed[c] =>
              n \in lowLevelFunctions[c] /\ n \notin lowLevelQueue[c]

AwaitInv ==
    \A c \in Contexts :
        /\ \A s \in Sites : CallTag(s) \in placed[c] <=> s \in awaitCallbacks[c]
        /\ \A s \in Sites : CallTag(s) \in pushed[c] => s \in awaitCallbacks[c]

\* The driver: which units are compiled when, and which queues are empty.
DriverInv ==
    /\ unit # None => pc \in {"initializers", "constructor", "missingCreation",
                              "missingRuntime", "receive", "fallback", "unbalanced"}
    /\ pc = "compileContract" => \A c \in Contexts :
          /\ entryLabels[c] = {} /\ alreadyCompiled[c] = {} /\ functionsToCompile[c] = <<>>
          /\ placed[c] = {} /\ pushed[c] = {}
    /\ pc \in {"compileContract", "initializers"} \/ (pc = "constructor" /\ unit = None) =>
          Constructor \notin entryLabels["creation"]
    /\ pc # "compileContract" => RangeOf(contract.interface) \subseteq entryLabels["runtime"]
    /\ Constructor \notin entryLabels["runtime"]
    /\ {Receive, Fallback} \cap entryLabels["creation"] = {}
    /\ pc \in CreationSteps \cup {"compileContract", "missingRuntime", "lowRuntime", "selector"} =>
          {Receive, Fallback} \cap entryLabels["runtime"] = {}
    /\ pc = "receive" /\ unit = None => Receive \notin entryLabels["runtime"]
    /\ pc = "receive" \/ (pc = "fallback" /\ unit = None) => Fallback \notin entryLabels["runtime"]
    /\ pc \in CreationSteps \cup {"compileContract", "missingRuntime", "lowRuntime", "selector"} =>
          SelectorTag \notin placed["runtime"]
    /\ SelectorTag \notin placed["creation"] \cup pushed["creation"]
    /\ pc \in {"lowCreation"} \cup RuntimeSteps => functionsToCompile["creation"] = <<>>
    /\ pc \in RuntimeSteps => lowLevelQueue["creation"] = {}
    /\ pc \in {"lowRuntime", "selector"} => functionsToCompile["runtime"] = <<>>
    /\ pc = "selector" => lowLevelQueue["runtime"] = {}

\* The functions reachable from a set of functions through calls and values,
\* the least set that is closed under references.
Closed(S) == \A f \in S : Refs(f) \subseteq S
ReachableFrom(S) == {f \in Functions :
                        \A T \in SUBSET Functions : S \subseteq T /\ Closed(T) => f \in T}

\* Functions compiled into the creation code, and those the runtime code must
\* hold: the interface and what creation code may store as a function pointer.
CreationUnits ==
    IF contract.isLibrary THEN {}
      ELSE {Initializers} \cup (contract.special \cap {Constructor})
CreationCode == ReachableFrom(UNION {Refs(u) : u \in CreationUnits})
RuntimeRoots ==
    RangeOf(contract.interface)
      \cup UNION {Values(u) : u \in CreationUnits \cup CreationCode}

\* When the selector is emitted the two contexts hold exactly the functions
\* that can be reached in them: nothing is missing, nothing is dead.
CompilesExactlyReachable ==
    pc = "selector" =>
        /\ alreadyCompiled["creation"] \cap Functions = CreationCode
        /\ alreadyCompiled["runtime"] = ReachableFrom(RuntimeRoots)

\* The selector of a contract that has an interface dispatches to every
\* continuation in the runtime code but those awaited in receive or fallback.
DispatchesQueuedAwaits ==
    pc = "done" /\ contract.interface # <<>> =>
        awaitCallbacks["runtime"] \ dispatched \subseteq UNION {Awaits(u) : u \in LateUnits}

\* A call node can only be met twice in one context when a modifier repeats
\* code: it awaits a call and is applied more than once, or it has two
\* placeholders.  Compilation gives up for no other reason before the code is
\* assembled.
Repeats(m) == \E i, j \in DOMAIN contract.modBody[m] :
                 i # j /\ contract.modBody[m][i] = Placeholder
                       /\ contract.modBody[m][j] = Placeholder
AwaitsIn(m) == \E i \in RangeOf(contract.modBody[m]) : i.kind = "await"
Applications(m) ==
    UNION {{<<u, i>> : i \in {j \in DOMAIN contract.modifiers[u] :
                                 contract.modifiers[u][j] = m}} : u \in Units}
FailsOnlyOnSharedAwait ==
    pc = "unbalanced" =>
        \E m \in Modifiers : Repeats(m) \/ (AwaitsIn(m) /\ \E a, b \in Applications(m) : a # b)

\* Compilation comes to an end, whatever the functions refer to, recursion
\* included.
Terminates == <>(pc \in Ended)

\* What the comment of FunctionCompilationQueue says: it "ensures that
\* referenced functions are compiled".
ReferencedFunctionsCompiled ==
    pc \in {"assemble", "done"} =>
        \A f \in Functions : FunTag(f) \in pushed["runtime"] => f \in alreadyCompiled["runtime"]

=============================================================================
