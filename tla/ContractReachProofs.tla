------------------------ MODULE ContractReachProofs ------------------------
(***************************************************************************)
(* For every contract: the code generator emits exactly the functions that *)
(* can be reached, the selector dispatches to the continuations known when *)
(* it is emitted, and code generation gives up only where a modifier       *)
(* repeats an awaited call.                                                *)
(*                                                                         *)
(* The argument follows the unit that is being compiled: what is left of   *)
(* its code belongs to it (CodeInv), no block of it is forgotten           *)
(* (CoverInv), and so a unit that was finished has left its trace in the   *)
(* queues (FinishedInv).                                                   *)
(***************************************************************************)
EXTENDS ContractCodegenProofs

\* The items of the block that appendModifierOrFunctionCode emits at depth d.
BlockItems(u, d) ==
    IF d < Len(contract.modifiers[u]) THEN contract.modBody[contract.modifiers[u][d + 1]]
                                      ELSE contract.body[u]

Depths(u) == 0..Len(contract.modifiers[u])

\* The steps before the selector.
Early == {"compileContract", "missingRuntime", "lowRuntime", "selector"} \cup CreationSteps

\* The item has left its trace in the queues of context c.
Emitted(x, c) ==
    /\ x.kind \in {"call", "value"} => x.of \in entryLabels[c]
    /\ x.kind = "value" /\ c = "creation" => x.of \in entryLabels["runtime"]

\* What is left of the code belongs to the unit, ...
CodeInv ==
    unit # None => \A e \in RangeOf(code) :
        /\ e.depth \in Depths(unit)
        /\ e.item = Placeholder => e.depth < Len(contract.modifiers[unit])
        /\ e.item \in RangeOf(BlockItems(unit, e.depth))

\* ... and every block of the unit was emitted, is to be emitted, or has a
\* placeholder ahead that leads to it.
Covered(d) ==
    \/ \E e \in RangeOf(code) : e.item = Placeholder /\ e.depth < d
    \/ \A x \in RangeOf(BlockItems(unit, d)) :
          x = Placeholder \/ Emitted(x, Cur) \/ \E e \in RangeOf(code) : e.item = x
CoverInv == unit # None /\ pc \notin Ended => \A d \in Depths(unit) : Covered(d)

\* What the finished units refer to has a label.
FinishedInv ==
    pc \notin Ended =>
        /\ \A c \in Contexts : \A u \in alreadyCompiled[c] :
              (u = unit /\ c = Cur) \/ \A x \in ItemsOf(u) : Emitted(x, c)
        /\ pc \notin {"compileContract", "initializers"} /\ ~contract.isLibrary =>
              \A x \in ItemsOf(Initializers) : Emitted(x, "creation")
        /\ /\ pc \notin {"compileContract", "initializers"}
           /\ ~(pc = "constructor" /\ unit = None)
           /\ ~contract.isLibrary
           /\ Constructor \in contract.special
           => Constructor \in alreadyCompiled["creation"]

\* Which unit is compiled in which step, ...
UnitInv ==
    /\ pc \in {"initializers", "constructor"} => ~contract.isLibrary
    /\ pc = "constructor" => Constructor \in contract.special
    /\ Constructor \in entryLabels["creation"] => Constructor \in alreadyCompiled["creation"]
    /\ unit # None /\ pc = "initializers" => unit = Initializers
    /\ unit # None /\ pc = "constructor" => unit = Constructor
    /\ unit # None /\ pc = "missingCreation" => unit \in Functions \cap entryLabels["creation"]
    /\ unit # None /\ pc = "missingRuntime" => unit \in Functions \cap entryLabels["runtime"]
    /\ unit # None /\ pc \in {"receive", "fallback"} => unit = pc /\ unit \in contract.special

\* ... and that only what can be reached has a label.
ReachInv ==
    /\ entryLabels["creation"] \cap Functions \subseteq CreationCode
    /\ pc \in Early => entryLabels["runtime"] \cap Functions \subseteq ReachableFrom(RuntimeRoots)

\* After the selector, only receive and fallback add continuations.
DispatchInv ==
    pc \in {"receive", "fallback", "unpackers", "assemble", "done"} /\ contract.interface # <<>> =>
        awaitCallbacks["runtime"] \ dispatched \subseteq UNION {Awaits(u) : u \in LateUnits}

\* A modifier repeats code that awaits.
Shared == \E m \in Modifiers : Repeats(m) \/ (AwaitsIn(m) /\ \E a, b \in Applications(m) : a # b)

\* The call nodes awaited in a block and in a unit, and the units compiled or
\* under way in context c.
SitesAt(u, d) == {s \in Sites : AwaitsAt(BlockItems(u, d), s) # {}}
SitesOf(u) == UNION {SitesAt(u, d) : d \in Depths(u)}
Started(c) == alreadyCompiled[c] \cup (IF c = "creation" THEN {Initializers} ELSE {})

\* No call node in the code `left' of unit u, or in the blocks its placeholder
\* leads to, is in W, and none is there twice.
FreshIn(left, u, W) ==
    \A i \in DOMAIN left :
        /\ left[i].item.kind = "await" =>
              /\ left[i].item.of \notin W
              /\ \A j \in DOMAIN left : left[j].item = left[i].item => i = j
        /\ left[i].item = Placeholder =>
              /\ \A j \in DOMAIN left : left[j].item = Placeholder => i = j
              /\ \A d \in Depths(u) : d > left[i].depth => \A s \in SitesAt(u, d) :
                    /\ s \notin W
                    /\ \A j \in DOMAIN left : left[j].item # [kind |-> "await", of |-> s]
FreshCode == FreshIn(code, unit, awaitCallbacks[Cur])

\* The same of what follows a block of depth d that is about to be opened.
FreshBehind(rest, u, d, W) ==
    /\ \A e \in Depths(u) : e >= d => \A s \in SitesAt(u, e) :
          s \notin W /\ \A j \in DOMAIN rest : rest[j].item # [kind |-> "await", of |-> s]
    /\ \A i \in DOMAIN rest :
          /\ rest[i].item # Placeholder
          /\ rest[i].item.kind = "await" =>
                /\ rest[i].item.of \notin W
                /\ \A j \in DOMAIN rest : rest[j].item = rest[i].item => i = j

AwaitOnceInv ==
    ~Shared =>
        /\ pc # "unbalanced"
        /\ pc = "compileContract" \/ (pc = "initializers" /\ unit = None) => awaitCallbacks["creation"] = {}
        /\ \A c \in Contexts : \A s \in awaitCallbacks[c] : \E u \in Started(c) : s \in SitesOf(u)
        /\ unit # None => unit \in Started(Cur)
        /\ unit # None => FreshCode

-----------------------------------------------------------------------------
(***************************************************************************)
(* Blocks and what is left of them.                                        *)
(***************************************************************************)
LEMMA RangeConcat ==
  ASSUME NEW S, NEW a \in Seq(S), NEW b \in Seq(S)
  PROVE  RangeOf(a \o b) = RangeOf(a) \cup RangeOf(b)
<1>1. \A i \in 1..Len(a) : (a \o b)[i] = a[i] /\ i \in 1..Len(a \o b)
  OBVIOUS
<1>2. \A i \in 1..Len(b) : (a \o b)[Len(a) + i] = b[i] /\ Len(a) + i \in 1..Len(a \o b)
  OBVIOUS
<1>3. ASSUME NEW i \in 1..Len(a \o b), i \notin 1..Len(a)
      PROVE  i - Len(a) \in 1..Len(b) /\ (a \o b)[i] = b[i - Len(a)]
  BY <1>3
<1>4. DOMAIN a = 1..Len(a) /\ DOMAIN b = 1..Len(b) /\ DOMAIN (a \o b) = 1..Len(a \o b)
  OBVIOUS
<1>5. RangeOf(a) \subseteq RangeOf(a \o b)
  BY <1>1, <1>4 DEF RangeOf
<1>6. RangeOf(b) \subseteq RangeOf(a \o b)
  <2> SUFFICES ASSUME NEW i \in 1..Len(b) PROVE b[i] \in RangeOf(a \o b)
    BY <1>4 DEF RangeOf
  <2>1. Len(a) + i \in DOMAIN (a \o b) /\ (a \o b)[Len(a) + i] = b[i]
    BY <1>2, <1>4
  <2> QED BY <2>1 DEF RangeOf
<1>7. RangeOf(a \o b) \subseteq RangeOf(a) \cup RangeOf(b)
  <2> SUFFICES ASSUME NEW i \in 1..Len(a \o b) PROVE (a \o b)[i] \in RangeOf(a) \cup RangeOf(b)
    BY <1>4 DEF RangeOf
  <2>1. CASE i \in 1..Len(a)
    BY <2>1, <1>1, <1>4 DEF RangeOf
  <2>2. CASE i \notin 1..Len(a)
    <3>1. i - Len(a) \in DOMAIN b /\ (a \o b)[i] = b[i - Len(a)]
      BY <1>3, <1>4, <2>2
    <3> QED BY <3>1 DEF RangeOf
  <2> QED BY <2>1, <2>2
<1> QED BY <1>5, <1>6, <1>7

\* What the fields of a contract are.
LEMMA ContractFields ==
  ASSUME contract \in Contracts, NEW u \in Units
  PROVE  /\ contract.modifiers[u] \in Seq(Modifiers)
         /\ contract.body[u] \in Seq(Items)
         /\ \A m \in Modifiers : contract.modBody[m] \in Seq(Items \cup {Placeholder})
         /\ \A m \in Modifiers : Placeholder \in RangeOf(contract.modBody[m])
         /\ Len(contract.modifiers[u]) \in Nat
         /\ \A d \in Nat : d < Len(contract.modifiers[u]) =>
              /\ contract.modifiers[u][d + 1] \in Modifiers
              /\ contract.modifiers[u][d + 1] \in RangeOf(contract.modifiers[u])
<1>1. contract \in Contract
  BY ContractsAssumption
<1>2. contract.modifiers \in [Units -> Seq(Modifiers)] /\ contract.body \in [Units -> Seq(Items)]
      /\ contract.modBody \in [Modifiers -> Seq(Items \cup {Placeholder})]
  BY <1>1 DEF Contract
<1>3. contract.modifiers[u] \in Seq(Modifiers)
  BY <1>2
<1>4. \A m \in Modifiers : Placeholder \in RangeOf(contract.modBody[m])
  BY PlaceholderAssumption DEF RangeOf
<1>5. ASSUME NEW d \in Nat, d < Len(contract.modifiers[u])
      PROVE  /\ contract.modifiers[u][d + 1] \in Modifiers
             /\ contract.modifiers[u][d + 1] \in RangeOf(contract.modifiers[u])
  <2>1. d + 1 \in 1..Len(contract.modifiers[u]) /\ DOMAIN contract.modifiers[u] = 1..Len(contract.modifiers[u])
    BY <1>3, <1>5
  <2> QED BY <1>3, <2>1 DEF RangeOf
<1> QED BY <1>2, <1>3, <1>4, <1>5

\* No item of a body is a placeholder.
LEMMA PlaceholderApart == Placeholder \notin Items
BY DEF Placeholder, Items

\* The block at a depth and its items.
LEMMA BlockFacts ==
  ASSUME contract \in Contracts, NEW u \in Units, NEW d \in Depths(u)
  PROVE  /\ d \in Nat
         /\ BlockItems(u, d) \in Seq(Items \cup {Placeholder})
         /\ Block(u, d) = [i \in 1..Len(BlockItems(u, d)) |-> [item |-> BlockItems(u, d)[i], depth |-> d]]
         /\ Block(u, d) \in Seq(CodeItems)
         /\ RangeOf(Block(u, d)) = {[item |-> x, depth |-> d] : x \in RangeOf(BlockItems(u, d))}
         /\ Placeholder \in RangeOf(BlockItems(u, d)) <=> d < Len(contract.modifiers[u])
         /\ RangeOf(BlockItems(u, d)) \ {Placeholder} \subseteq ItemsOf(u)
<1> DEFINE mods == contract.modifiers[u]
           b == BlockItems(u, d)
           Shape == /\ b \in Seq(Items \cup {Placeholder})
                    /\ Placeholder \in RangeOf(b) <=> d < Len(mods)
                    /\ RangeOf(b) \ {Placeholder} \subseteq ItemsOf(u)
<1>1. d \in Nat /\ d <= Len(mods) /\ Len(mods) \in Nat
  BY ContractFields DEF Depths
<1>2. ASSUME d < Len(mods) PROVE Shape
  <2> DEFINE m == mods[d + 1]
  <2>1. m \in Modifiers /\ m \in RangeOf(mods)
    BY <1>1, <1>2, ContractFields
  <2>2. b = contract.modBody[m]
    BY <1>2 DEF BlockItems
  <2>3. b \in Seq(Items \cup {Placeholder}) /\ Placeholder \in RangeOf(b)
    BY <2>1, <2>2, ContractFields
  <2>4. RangeOf(b) \ {Placeholder} \subseteq ItemsOf(u)
    BY <2>1, <2>2 DEF ItemsOf
  <2> QED BY <1>2, <2>3, <2>4
<1>3. ASSUME ~(d < Len(mods)) PROVE Shape
  <2>1. b = contract.body[u]
    BY <1>3 DEF BlockItems
  <2>2. b \in Seq(Items)
    BY <2>1, ContractFields
  <2>3. RangeOf(b) \subseteq Items
    BY <2>2 DEF RangeOf
  <2>4. b \in Seq(Items \cup {Placeholder})
    BY <2>2
  <2>5. RangeOf(b) \ {Placeholder} \subseteq ItemsOf(u)
    BY <2>1 DEF ItemsOf
  <2> QED BY <1>3, <2>3, <2>4, <2>5, PlaceholderApart
<1>4. Shape
  BY <1>2, <1>3
<1>5. Block(u, d) = [i \in 1..Len(b) |-> [item |-> b[i], depth |-> d]]
  BY DEF Block, BlockItems
<1>6. Block(u, d) \in Seq(CodeItems)
  BY <1>1, BlockType
<1>7. RangeOf(Block(u, d)) = {[item |-> x, depth |-> d] : x \in RangeOf(b)}
  <2>1. DOMAIN Block(u, d) = 1..Len(b) /\ DOMAIN b = 1..Len(b)
    BY <1>4, <1>5
  <2>2. \A i \in 1..Len(b) : Block(u, d)[i] = [item |-> b[i], depth |-> d]
    BY <1>5
  <2> HIDE DEF b
  <2> QED BY <2>1, <2>2 DEF RangeOf
<1> QED BY <1>1, <1>4, <1>5, <1>6, <1>7

\* Every item of a unit is in one of its blocks.
LEMMA ItemsInBlocks ==
  ASSUME contract \in Contracts, NEW u \in Units, NEW x \in ItemsOf(u)
  PROVE  x # Placeholder /\ \E d \in Depths(u) : x \in RangeOf(BlockItems(u, d))
<1> DEFINE mods == contract.modifiers[u]
<1>0. mods \in Seq(Modifiers) /\ Len(mods) \in Nat /\ contract.body[u] \in Seq(Items)
  BY ContractFields
<1>1. CASE x \in RangeOf(contract.body[u])
  <2>1. Len(mods) \in Depths(u) /\ BlockItems(u, Len(mods)) = contract.body[u]
    BY <1>0 DEF Depths, BlockItems
  <2>2. x \in Items
    BY <1>0, <1>1 DEF RangeOf
  <2> QED BY <1>1, <2>1, <2>2, PlaceholderApart
<1>2. ASSUME NEW m \in RangeOf(mods), x \in RangeOf(contract.modBody[m]) \ {Placeholder}
      PROVE  x # Placeholder /\ \E d \in Depths(u) : x \in RangeOf(BlockItems(u, d))
  <2>1. PICK i \in 1..Len(mods) : mods[i] = m
    BY <1>0 DEF RangeOf
  <2>2. i - 1 \in Depths(u) /\ i - 1 < Len(mods) /\ (i - 1) + 1 = i
    BY <1>0 DEF Depths
  <2>3. BlockItems(u, i - 1) = contract.modBody[m]
    BY <2>1, <2>2 DEF BlockItems
  <2> QED BY <1>2, <2>2, <2>3
<1> QED BY <1>1, <1>2 DEF ItemsOf

-----------------------------------------------------------------------------
(***************************************************************************)
(* Steps.  A step either visits an item, or opens the block behind a       *)
(* placeholder, or finishes or starts a unit, or no unit is under way.     *)
(***************************************************************************)
VisitItem == CompileCall \/ CompileValue \/ CompileAwait \/ CompileLowLevel
StartUnit == CompileInitializers \/ CompileConstructor \/ CompileNextFunction \/ CompileSpecial

\* Steps of the driver between two units.
Between ==
    /\ unit = None /\ unit' = None
    /\ UNCHANGED <<contract, code, alreadyCompiled, awaitCallbacks>>
    /\ CompileContract \/ UNCHANGED entryLabels

LEMMA StepKinds ==
  ASSUME DriverInv, [Next]_vars
  PROVE  \/ pc \notin Ended /\ VisitItem
         \/ pc \notin Ended /\ CompilePlaceholder
         \/ pc \notin Ended /\ FinishUnit
         \/ pc \notin Ended /\ StartUnit
         \/ pc \notin Ended /\ Between /\ Drive
         \/ UNCHANGED vars
<1> USE DEF queueVars, lowVars, tagVars
<1>1. unit # None => pc \notin {"compileContract", "lowCreation", "lowRuntime", "selector",
                                "unpackers", "assemble"}
  BY DEF DriverInv
<1>2. ASSUME CompileContract \/ GenerateLowLevel \/ NoMissingLowLevel \/ AppendFunctionSelector
             \/ AppendUnpackers \/ Assemble
      PROVE  Between
  BY <1>1, <1>2 DEF CompileContract, GenerateLowLevel, NoMissingLowLevel, AppendFunctionSelector,
     AppendUnpackers, Assemble, Between
<1>3. ASSUME SkipCompiled \/ NoMissingFunction \/ NoSpecial
      PROVE  Between
  BY <1>3 DEF SkipCompiled, NoMissingFunction, NoSpecial, Between
<1> QED BY <1>2, <1>3 DEF Next, Step, Compile, Drive, Finished, VisitItem, StartUnit

\* The contract stays the same, and so does all that is read off it.
LEMMA ContractSame == [Next]_vars => contract' = contract
BY DEF Next, Step, Compile, Drive, Finished, vars, CompileCall, CompileValue, CompileAwait,
   CompileLowLevel, NextItem, CompilePlaceholder, FinishUnit, CompileContract, CompileInitializers,
   CompileConstructor, SkipCompiled, CompileNextFunction, NoMissingFunction, GenerateLowLevel,
   NoMissingLowLevel, AppendFunctionSelector, CompileSpecial, NoSpecial, AppendUnpackers, Assemble

LEMMA SameReach ==
  ASSUME contract' = contract
  PROVE  /\ CreationCode' = CreationCode
         /\ CreationUnits' = CreationUnits
         /\ RuntimeRoots' = RuntimeRoots
         /\ ReachableFrom(RuntimeRoots)' = ReachableFrom(RuntimeRoots)
         /\ LateUnits' = LateUnits
         /\ \A u : ItemsOf(u)' = ItemsOf(u)
         /\ \A u : Awaits(u)' = Awaits(u)
         /\ \A u : Depths(u)' = Depths(u)
         /\ \A u, d : BlockItems(u, d)' = BlockItems(u, d)
BY DEF CreationCode, CreationUnits, RuntimeRoots, ReachableFrom, Closed, LateUnits, ItemsOf, Refs,
   Values, Awaits, Depths, BlockItems, RangeOf

\* Labels are never taken back.
LEMMA Grow ==
  ASSUME TypeOK, DriverInv, [Next]_vars, NEW c \in Contexts
  PROVE  entryLabels[c] \subseteq entryLabels'[c] /\ alreadyCompiled[c] \subseteq alreadyCompiled'[c]
<1> USE DEF queueVars, lowVars, tagVars
<1>1. ASSUME NEW cs, NEW d, EntryLabel(cs, d) PROVE entryLabels[c] \subseteq entryLabels'[c]
  BY <1>1 DEF EntryLabel
<1>2. CASE CompileCall
  BY <1>1, <1>2 DEF CompileCall, NextItem
<1>3. CASE CompileValue
  BY <1>1, <1>3 DEF CompileValue, NextItem
<1>4. CASE CompileAwait \/ CompileLowLevel
  BY <1>4 DEF CompileAwait, CompileLowLevel, NextItem
<1>5. ASSUME NEW b, NEW d, StartFunction(b, d)
      PROVE  entryLabels[c] \subseteq entryLabels'[c] /\ alreadyCompiled[c] \subseteq alreadyCompiled'[c]
  BY <1>5 DEF StartFunction, TypeOK
<1>6. CASE StartUnit
  BY <1>5, <1>6 DEF StartUnit, CompileInitializers, CompileConstructor, CompileNextFunction, CompileSpecial
<1>7. CASE CompileContract
  BY <1>7 DEF CompileContract, DriverInv, TypeOK
<1>8. CASE CompilePlaceholder \/ FinishUnit \/ SkipCompiled \/ NoMissingFunction \/ GenerateLowLevel
           \/ NoMissingLowLevel \/ AppendFunctionSelector \/ NoSpecial \/ AppendUnpackers \/ Assemble
           \/ UNCHANGED vars
  BY <1>8 DEF CompilePlaceholder, FinishUnit, SkipCompiled, NoMissingFunction, GenerateLowLevel,
     NoMissingLowLevel, AppendFunctionSelector, NoSpecial, AppendUnpackers, Assemble, vars
<1> QED BY <1>2, <1>3, <1>4, <1>6, <1>7, <1>8 DEF Next, Step, Compile, Drive, Finished, StartUnit

LEMMA EmittedGrow ==
  ASSUME TypeOK, DriverInv, [Next]_vars, NEW c \in Contexts, NEW x, Emitted(x, c)
  PROVE  Emitted(x, c)'
<1>1. "runtime" \in Contexts
  BY DEF Contexts
<1> QED BY <1>1, Grow DEF Emitted

\* Visiting an item of the code.
LEMMA VisitFacts ==
  ASSUME TypeOK, VisitItem
  PROVE  /\ unit # None /\ unit \in Units /\ code # <<>> /\ code' = Tail(code)
         /\ code \in Seq(CodeItems) /\ Head(code) \in RangeOf(code)
         /\ RangeOf(code) = {Head(code)} \cup RangeOf(code')
         /\ Head(code).item # Placeholder /\ Head(code).item \in Items
         /\ UNCHANGED <<contract, unit, alreadyCompiled>>
         /\ pc' # pc => CompileAwait /\ pc' = "unbalanced" /\ Head(code).item.of \in awaitCallbacks[Cur]
         /\ pc' = pc => \A x, c : x = Head(code).item /\ c = Cur => Emitted(x, c)'
<1>1. PICK k \in {"call", "value", "await", "low"} : NextItem(k)
  BY DEF VisitItem, CompileCall, CompileValue, CompileAwait, CompileLowLevel
<1>2. /\ unit # None /\ code # <<>> /\ code' = Tail(code) /\ Head(code).item.kind = k
      /\ UNCHANGED <<contract, unit, alreadyCompiled>>
  BY <1>1 DEF NextItem
<1>3. code \in Seq(CodeItems) /\ unit \in Units
  BY <1>2 DEF TypeOK, CodeItems
<1>4. RangeOf(code) = {Head(code)} \cup RangeOf(code')
  BY <1>2, <1>3, RangeTail
<1>5. Head(code).item # Placeholder /\ Head(code).item \in Items
  <2>1. Head(code).item \in Items \cup {Placeholder}
    BY <1>2, <1>3, ItemType DEF CodeItems
  <2>2. Head(code).item # Placeholder
    BY <1>2 DEF Placeholder
  <2> QED BY <2>1, <2>2
<1>6. ASSUME pc' # pc PROVE CompileAwait /\ pc' = "unbalanced" /\ Head(code).item.of \in awaitCallbacks[Cur]
  BY <1>6 DEF VisitItem, CompileCall, CompileValue, CompileAwait, CompileLowLevel, AddCallbackDest
<1>7. ASSUME pc' = pc, NEW x, x = Head(code).item, NEW c, c = Cur PROVE Emitted(x, c)'
  <2>0. c \in Contexts
    BY <1>7 DEF Cur, Contexts
  <2>1. CASE CompileCall
    <3>1. EntryLabel({c}, x.of) /\ x.kind = "call"
      BY <1>7, <2>1 DEF CompileCall, NextItem
    <3>2. x.of \in entryLabels'[c]
      BY <2>0, <3>1 DEF EntryLabel
    <3> QED BY <2>0, <3>1, <3>2 DEF Emitted
  <2>2. CASE CompileValue
    <3>1. EntryLabel(IF c = "creation" THEN Contexts ELSE {"runtime"}, x.of) /\ x.kind = "value"
      BY <1>7, <2>2 DEF CompileValue, NextItem
    <3>2. x.of \in entryLabels'[c] /\ x.of \in entryLabels'["runtime"]
      BY <2>0, <3>1 DEF EntryLabel, Contexts
    <3> QED BY <2>0, <3>1, <3>2 DEF Emitted
  <2>3. CASE CompileAwait \/ CompileLowLevel
    <3>1. x.kind \in {"await", "low"}
      BY <1>7, <2>3 DEF CompileAwait, CompileLowLevel, NextItem
    <3> QED BY <3>1 DEF Emitted
  <2> QED BY <2>1, <2>2, <2>3 DEF VisitItem
<1> QED BY <1>2, <1>3, <1>4, <1>5, <1>6, <1>7

\* Opening the block behind a placeholder.
LEMMA PlaceholderFacts ==
  ASSUME TypeOK, CodeInv, CompilePlaceholder
  PROVE  /\ unit # None /\ unit \in Units /\ contract \in Contracts
         /\ code \in Seq(CodeItems) /\ code # <<>> /\ Tail(code) \in Seq(CodeItems)
         /\ Head(code).item = Placeholder
         /\ Head(code).depth \in Nat /\ Head(code).depth < Len(contract.modifiers[unit])
         /\ Head(code).depth + 1 \in Depths(unit)
         /\ RangeOf(code) = {Head(code)} \cup RangeOf(Tail(code))
         /\ code' = Block(unit, Head(code).depth + 1) \o Tail(code)
         /\ RangeOf(code') = RangeOf(Block(unit, Head(code).depth + 1)) \cup RangeOf(Tail(code))
         /\ UNCHANGED <<contract, unit, pc, alreadyCompiled, entryLabels, awaitCallbacks>>
<1> DEFINE k == Head(code).depth
<1>1. /\ unit # None /\ code # <<>> /\ Head(code).item = Placeholder
      /\ code' = Block(unit, k + 1) \o Tail(code)
      /\ UNCHANGED <<contract, unit, pc, alreadyCompiled, entryLabels, awaitCallbacks>>
  BY DEF CompilePlaceholder, queueVars
<1>2. unit \in Units /\ contract \in Contracts /\ code \in Seq(CodeItems) /\ Tail(code) \in Seq(CodeItems)
  BY <1>1 DEF TypeOK, CodeItems
<1>3. RangeOf(code) = {Head(code)} \cup RangeOf(Tail(code))
  BY <1>1, <1>2, RangeTail
<1>4. k \in Depths(unit) /\ k < Len(contract.modifiers[unit])
  BY <1>1, <1>3 DEF CodeInv
<1>5. k \in Nat /\ k + 1 \in Depths(unit)
  BY <1>2, <1>4, ContractFields DEF Depths
<1>6. Block(unit, k + 1) \in Seq(CodeItems)
  BY <1>2, <1>5, BlockFacts
<1>7. RangeOf(code') = RangeOf(Block(unit, k + 1)) \cup RangeOf(Tail(code))
  <2>1. RangeOf(Block(unit, k + 1) \o Tail(code)) = RangeOf(Block(unit, k + 1)) \cup RangeOf(Tail(code))
    <3> HIDE DEF k
    <3> QED BY <1>2, <1>6, RangeConcat
  <2> QED BY <1>1, <2>1
<1> QED BY <1>1, <1>2, <1>3, <1>4, <1>5, <1>7

\* Starting a unit.
LEMMA StartFacts ==
  ASSUME TypeOK, StartUnit
  PROVE  /\ unit = None /\ unit' \in Units /\ unit' # None /\ contract \in Contracts
         /\ code' = Block(unit', 0) /\ 0 \in Depths(unit')
         /\ UNCHANGED <<contract, pc, awaitCallbacks>>
<1> USE DEF StartUnit, CompileInitializers, CompileConstructor, CompileNextFunction, CompileSpecial,
            StartFunction, queueVars
<1>0. Cur \in Contexts /\ None \notin Units
  BY NamesAssumption DEF Cur, Contexts, None, Units, Decls, Special, Constructor,
     Receive, Fallback, Initializers
<1>1. unit = None /\ UNCHANGED <<contract, pc, awaitCallbacks>>
  OBVIOUS
<1>2. unit' \in Units
  <2>1. CASE CompileInitializers \/ CompileConstructor \/ CompileSpecial
    BY <2>1 DEF Units, Decls, Special, Receive, Fallback
  <2>2. CASE CompileNextFunction
    <3>1. Head(functionsToCompile[Cur]) \in Decls
      BY <1>0, <2>2 DEF TypeOK
    <3> QED BY <2>2, <3>1 DEF Units
  <2> QED BY <2>1, <2>2
<1>3. code' = Block(unit', 0)
  OBVIOUS
<1>4. 0 \in Depths(unit')
  BY <1>2, ContractFields DEF Depths, TypeOK
<1> QED BY <1>0, <1>1, <1>2, <1>3, <1>4 DEF TypeOK

-----------------------------------------------------------------------------
(***************************************************************************)
(* The unit under way.                                                     *)
(***************************************************************************)
\* A block belongs to its unit.
LEMMA BlockBelongs ==
  ASSUME contract \in Contracts, NEW u \in Units, NEW d \in Depths(u), NEW e \in RangeOf(Block(u, d))
  PROVE  /\ e.depth = d
         /\ e.item = Placeholder => d < Len(contract.modifiers[u])
         /\ e.item \in RangeOf(BlockItems(u, d))
<1>1. PICK x \in RangeOf(BlockItems(u, d)) : e = [item |-> x, depth |-> d]
  BY BlockFacts
<1>2. e.depth = d /\ e.item = x
  BY <1>1
<1> QED BY <1>2, BlockFacts

LEMMA CodeStep == TypeOK /\ DriverInv /\ CodeInv /\ [Next]_vars => CodeInv'
<1> SUFFICES ASSUME TypeOK, DriverInv, CodeInv, [Next]_vars PROVE CodeInv'
  OBVIOUS
<1>s. contract' = contract /\ \A u, d : BlockItems(u, d)' = BlockItems(u, d) /\ Depths(u)' = Depths(u)
  BY ContractSame, SameReach
<1> SUFFICES ASSUME unit' # None, NEW e \in RangeOf(code')
             PROVE  /\ e.depth \in Depths(unit')
                    /\ e.item = Placeholder => e.depth < Len(contract.modifiers[unit'])
                    /\ e.item \in RangeOf(BlockItems(unit', e.depth))
  BY <1>s DEF CodeInv, BlockItems, Depths
<1>1. CASE VisitItem
  BY <1>1, VisitFacts DEF CodeInv
<1>2. CASE CompilePlaceholder
  <2>1. CASE e \in RangeOf(Tail(code))
    BY <1>2, <2>1, PlaceholderFacts DEF CodeInv
  <2>2. CASE e \in RangeOf(Block(unit, Head(code).depth + 1))
    BY <1>2, <2>2, PlaceholderFacts, BlockBelongs
  <2> QED BY <1>2, <2>1, <2>2, PlaceholderFacts
<1>3. CASE FinishUnit \/ Between
  BY <1>3 DEF FinishUnit, Between
<1>4. CASE StartUnit
  BY <1>4, StartFacts, BlockBelongs
<1>5. CASE UNCHANGED vars
  BY <1>5 DEF vars, CodeInv
<1> QED BY <1>1, <1>2, <1>3, <1>4, <1>5, StepKinds

\* A block that was just opened covers itself, and leads to the deeper ones.
LEMMA Opened ==
  ASSUME contract \in Contracts, NEW u \in Units, NEW d \in Depths(u)
  PROVE  /\ \A x \in RangeOf(BlockItems(u, d)) : \E e \in RangeOf(Block(u, d)) : e.item = x
         /\ d < Len(contract.modifiers[u]) =>
               \E e \in RangeOf(Block(u, d)) : e.item = Placeholder /\ e.depth = d
<1>1. ASSUME NEW x \in RangeOf(BlockItems(u, d))
      PROVE  \E e \in RangeOf(Block(u, d)) : e.item = x /\ e.depth = d
  <2>1. [item |-> x, depth |-> d] \in RangeOf(Block(u, d))
    BY BlockFacts
  <2> QED BY <2>1
<1>2. d < Len(contract.modifiers[u]) => Placeholder \in RangeOf(BlockItems(u, d))
  BY BlockFacts
<1> QED BY <1>1, <1>2

LEMMA CoverStep == TypeOK /\ DriverInv /\ CodeInv /\ CoverInv /\ [Next]_vars => CoverInv'
<1> SUFFICES ASSUME TypeOK, DriverInv, CodeInv, CoverInv, [Next]_vars PROVE CoverInv'
  OBVIOUS
<1>s. contract' = contract /\ \A u, d : BlockItems(u, d)' = BlockItems(u, d) /\ Depths(u)' = Depths(u)
  BY ContractSame, SameReach
<1> SUFFICES ASSUME unit' # None, pc' \notin Ended,
                    NEW d \in Depths(unit')
             PROVE  \/ \E e \in RangeOf(code') : e.item = Placeholder /\ e.depth < d
                    \/ \A x \in RangeOf(BlockItems(unit', d)) :
                          x = Placeholder \/ Emitted(x, Cur)' \/ \E e \in RangeOf(code') : e.item = x
  BY <1>s DEF CoverInv, Covered, BlockItems, Depths
<1> DEFINE Goal == \/ \E e \in RangeOf(code') : e.item = Placeholder /\ e.depth < d
                   \/ \A x \in RangeOf(BlockItems(unit', d)) :
                          x = Placeholder \/ Emitted(x, Cur)' \/ \E e \in RangeOf(code') : e.item = x
<1>0. Cur \in Contexts /\ contract \in Contracts
  BY DEF Cur, Contexts, TypeOK
<1>1. CASE VisitItem
  <2>1. pc' = pc /\ unit' = unit /\ pc \notin Ended /\ unit # None
    BY <1>1, VisitFacts DEF Ended
  <2>2. Covered(d) /\ Cur' = Cur
    BY <2>1 DEF CoverInv, Cur
  <2>3. CASE \E e \in RangeOf(code) : e.item = Placeholder /\ e.depth < d
    BY <1>1, <2>3, VisitFacts
  <2>4. CASE \A x \in RangeOf(BlockItems(unit, d)) :
                x = Placeholder \/ Emitted(x, Cur) \/ \E e \in RangeOf(code) : e.item = x
    <3> SUFFICES ASSUME NEW x \in RangeOf(BlockItems(unit, d)), x # Placeholder
                 PROVE  Emitted(x, Cur)' \/ \E e \in RangeOf(code') : e.item = x
      BY <2>1
    <3>1. CASE Emitted(x, Cur)
      BY <1>0, <2>2, <3>1, EmittedGrow
    <3>2. ASSUME NEW e \in RangeOf(code), e.item = x
          PROVE  Emitted(x, Cur)' \/ \E e2 \in RangeOf(code') : e2.item = x
      <4>1. CASE e = Head(code)
        BY <1>1, <2>1, <2>2, <3>2, <4>1, VisitFacts
      <4>2. CASE e # Head(code)
        BY <1>1, <3>2, <4>2, VisitFacts
      <4> QED BY <4>1, <4>2
    <3> QED BY <2>4, <3>1, <3>2
  <2> QED BY <2>2, <2>3, <2>4 DEF Covered
<1>2. CASE CompilePlaceholder
  <2> DEFINE k == Head(code).depth
  <2>1. /\ pc' = pc /\ unit' = unit /\ pc \notin Ended /\ unit # None /\ unit \in Units
        /\ entryLabels' = entryLabels /\ k \in Nat /\ k + 1 \in Depths(unit)
        /\ RangeOf(Tail(code)) \subseteq RangeOf(code')
        /\ RangeOf(Block(unit, k + 1)) \subseteq RangeOf(code')
        /\ Head(code).item = Placeholder
        /\ RangeOf(code) = {Head(code)} \cup RangeOf(Tail(code))
        /\ Len(contract.modifiers[unit]) \in Nat
    BY <1>2, PlaceholderFacts, ContractFields
  <2>2. Covered(d) /\ Cur' = Cur /\ d \in Depths(unit) /\ d \in Nat
    BY <2>1 DEF CoverInv, Cur, Depths
  <2>3. CASE d <= k
    <3>1. ASSUME NEW e \in RangeOf(code), e.item = Placeholder, e.depth < d
          PROVE  e \in RangeOf(code')
      <4>1. e # Head(code)
        <5>1. e.depth \in Nat
          BY <2>1, <3>1 DEF CodeInv, Depths
        <5> QED BY <2>1, <2>2, <2>3, <3>1, <5>1
      <4> QED BY <2>1, <3>1, <4>1
    <3>2. ASSUME NEW x \in RangeOf(BlockItems(unit, d)), x # Placeholder, NEW e \in RangeOf(code), e.item = x
          PROVE  e \in RangeOf(code')
      BY <2>1, <3>2
    <3>3. \A x : Emitted(x, Cur) => Emitted(x, Cur)'
      BY <2>1, <2>2 DEF Emitted
    <3> QED BY <2>1, <2>2, <3>1, <3>2, <3>3 DEF Covered
  <2>4. CASE d = k + 1
    BY <1>0, <2>1, <2>4, Opened
  <2>5. CASE d > k + 1
    <3>1. k + 1 < Len(contract.modifiers[unit])
      BY <2>1, <2>2, <2>5 DEF Depths
    <3>2. PICK e \in RangeOf(Block(unit, k + 1)) : e.item = Placeholder /\ e.depth = k + 1
      BY <1>0, <2>1, <3>1, Opened
    <3> QED BY <2>1, <2>5, <3>2
  <2> QED BY <2>1, <2>2, <2>3, <2>4, <2>5
<1>3. CASE FinishUnit \/ Between
  BY <1>3 DEF FinishUnit, Between
<1>4. CASE StartUnit
  <2>1. unit' \in Units /\ code' = Block(unit', 0) /\ 0 \in Depths(unit') /\ Len(contract.modifiers[unit']) \in Nat
    BY <1>4, StartFacts, ContractFields
  <2>2. CASE d = 0
    BY <1>0, <2>1, <2>2, Opened
  <2>3. CASE d # 0
    <3>1. 0 < Len(contract.modifiers[unit']) /\ 0 < d
      BY <2>1, <2>3 DEF Depths
    <3>2. PICK e \in RangeOf(Block(unit', 0)) : e.item = Placeholder /\ e.depth = 0
      BY <1>0, <2>1, <3>1, Opened
    <3> QED BY <2>1, <3>1, <3>2
  <2> QED BY <2>2, <2>3
<1>5. CASE UNCHANGED vars
  BY <1>5 DEF vars, CoverInv, Covered, Emitted, Cur, queueVars
<1> QED BY <1>1, <1>2, <1>3, <1>4, <1>5, StepKinds

\* A unit that is finished has left its trace.
LEMMA UnitEmitted ==
  ASSUME TypeOK, CoverInv, FinishUnit, pc \notin Ended, NEW x \in ItemsOf(unit)
  PROVE  Emitted(x, Cur)
<1>1. unit \in Units /\ unit # None /\ code = <<>> /\ contract \in Contracts
  BY DEF FinishUnit, TypeOK
<1>2. RangeOf(code) = {}
  BY <1>1 DEF RangeOf
<1>3. PICK d \in Depths(unit) : x \in RangeOf(BlockItems(unit, d)) /\ x # Placeholder
  BY <1>1, ItemsInBlocks
<1>4. Covered(d)
  BY <1>1, <1>3 DEF CoverInv
<1> QED BY <1>2, <1>3, <1>4 DEF Covered

-----------------------------------------------------------------------------
(***************************************************************************)
(* Which unit is compiled when.                                            *)
(***************************************************************************)
LEMMA UnitNames ==
  /\ \A f \in Functions : f \notin Special /\ f # Initializers /\ f # None
  /\ None \notin Units /\ None \notin Decls
  /\ Units = Functions \cup Special \cup {Initializers}
BY NamesAssumption DEF Units, Decls, Special, Constructor, Receive, Fallback, Initializers, None

LEMMA UnitStep == TypeOK /\ DriverInv /\ QueueInv /\ UnitInv /\ [Next]_vars => UnitInv'
<1> SUFFICES ASSUME TypeOK, DriverInv, QueueInv, UnitInv, [Next]_vars PROVE UnitInv'
  OBVIOUS
<1> USE DEF queueVars, lowVars, tagVars
<1>s. contract' = contract
  BY ContractSame
<1>g. \A c \in Contexts : entryLabels[c] \subseteq entryLabels'[c] /\ alreadyCompiled[c] \subseteq alreadyCompiled'[c]
  BY Grow
<1>c. {"creation", "runtime"} \subseteq Contexts /\ Cur \in Contexts
  BY DEF Contexts, Cur
\* The constructor gets its label when it is compiled.
<1>1. Constructor \in entryLabels'["creation"] => Constructor \in alreadyCompiled'["creation"]
  <2>0. ASSUME entryLabels'["creation"] = entryLabels["creation"] PROVE <1>1!1 => <1>1!2
    BY <1>g, <1>c, <2>0 DEF UnitInv
  <2>1. ASSUME NEW cs, NEW f \in Functions, EntryLabel(cs, f) PROVE <1>1!1 => <1>1!2
    BY <1>g, <1>c, <2>1, UnitNames DEF EntryLabel, UnitInv, Special
  <2>2. CASE CompileCall \/ CompileValue
    BY <2>1, <2>2, ItemType DEF CompileCall, CompileValue, NextItem
  <2>3. CASE CompileAwait \/ CompileLowLevel \/ CompilePlaceholder \/ FinishUnit \/ (Between /\ ~CompileContract)
             \/ CompileInitializers \/ UNCHANGED vars
    BY <2>0, <2>3
       DEF CompileAwait, CompileLowLevel, CompilePlaceholder, FinishUnit, Between, CompileInitializers, vars
  <2>4. CASE CompileContract
    BY <2>0, <2>4 DEF CompileContract, TypeOK, Contexts
  <2>5. ASSUME NEW c \in Contexts, NEW d \in Decls, StartFunction(c, d) PROVE <1>1!1 => <1>1!2
    BY <1>g, <1>c, <2>5 DEF StartFunction, UnitInv, TypeOK
  <2>6. CASE CompileConstructor \/ CompileNextFunction \/ CompileSpecial
    <3>1. CompileNextFunction => Head(functionsToCompile[Cur]) \in Decls
      BY <1>c DEF CompileNextFunction, TypeOK
    <3> QED BY <1>c, <2>5, <2>6, <3>1
            DEF CompileConstructor, CompileNextFunction, CompileSpecial, Decls, Special, Receive, Fallback
  <2> QED BY <2>2, <2>3, <2>4, <2>6, StepKinds DEF VisitItem, StartUnit
<1>2. ASSUME UNCHANGED <<unit, pc>> PROVE UnitInv'
  BY <1>s, <1>g, <1>c, <1>1, <1>2 DEF UnitInv
<1>3. CASE VisitItem
  <2>1. CASE pc' = pc
    BY <1>2, <1>3, <2>1, VisitFacts
  <2>2. CASE pc' = "unbalanced"
    BY <1>1, <2>2 DEF UnitInv
  <2> QED BY <1>3, <2>1, <2>2, VisitFacts
<1>4. CASE CompilePlaceholder
  BY <1>2, <1>4 DEF CompilePlaceholder
<1>5. CASE FinishUnit
  <2>1. unit' = None /\ pc' = After(pc) /\ unit # None
    BY <1>5 DEF FinishUnit
  <2>2. pc' \notin {"initializers"} \/ pc' = pc
    BY <2>1 DEF After
  <2>3. pc' = "constructor" => Constructor \in contract.special /\ pc \in {"initializers", "constructor"}
    BY <2>1 DEF After, UnitInv
  <2> QED BY <1>s, <1>1, <2>1, <2>2, <2>3 DEF UnitInv
<1>6. CASE Between /\ Drive
  <2>1. pc' \in {"initializers", "constructor"} => (pc' = pc \/ CompileContract)
    BY <1>6 DEF Drive, Between, CompileContract, CompileInitializers, CompileConstructor, SkipCompiled,
       CompileNextFunction, NoMissingFunction, GenerateLowLevel, NoMissingLowLevel,
       AppendFunctionSelector, CompileSpecial, NoSpecial, AppendUnpackers, Assemble, After
  <2>2. CompileContract /\ pc' = "initializers" => ~contract.isLibrary
    BY DEF CompileContract
  <2>3. CompileContract => pc' # "constructor"
    BY DEF CompileContract
  <2> QED BY <1>s, <1>1, <1>6, <2>1, <2>2, <2>3 DEF UnitInv, Between
<1>7. CASE StartUnit
  <2>0. UNCHANGED <<contract, pc>> /\ unit = None
    BY <1>7, StartFacts
  <2>1. CASE CompileInitializers
    BY <1>s, <1>1, <2>0, <2>1 DEF CompileInitializers, UnitInv
  <2>2. CASE CompileConstructor
    BY <1>s, <1>1, <2>0, <2>2 DEF CompileConstructor, StartFunction, UnitInv
  <2>3. CASE CompileSpecial
    <3>1. unit' = pc /\ pc \in {"receive", "fallback"} /\ pc \in contract.special
      BY <2>3 DEF CompileSpecial, StartFunction
    <3> QED BY <1>s, <1>1, <2>0, <3>1 DEF UnitInv
  <2>4. CASE CompileNextFunction
    <3> DEFINE d == Head(functionsToCompile[Cur])
    <3>1. /\ pc \in {"missingCreation", "missingRuntime"} /\ functionsToCompile[Cur] # <<>>
          /\ d \notin alreadyCompiled[Cur] /\ unit' = d
      BY <2>4 DEF CompileNextFunction, StartFunction
    <3>2. functionsToCompile[Cur] \in Seq(Decls)
      BY <1>c DEF TypeOK
    <3>3. d \in RangeOf(functionsToCompile[Cur]) /\ d \in Decls
      BY <3>1, <3>2, RangeTail
    <3>4. d \in entryLabels[Cur]
      BY <1>c, <3>3 DEF QueueInv
    <3>5. d \in Functions
      <4>1. CASE pc = "missingCreation"
        <5>1. Cur = "creation"
          BY <4>1 DEF Cur, CreationSteps
        <5>2. d \notin {Constructor, Receive, Fallback}
          BY <3>1, <3>4, <5>1 DEF UnitInv, DriverInv
        <5> QED BY <3>3, <5>2 DEF Decls, Special
      <4>2. CASE pc = "missingRuntime"
        <5>1. Cur = "runtime"
          BY <4>2 DEF Cur, CreationSteps
        <5>2. d \notin {Constructor, Receive, Fallback}
          BY <3>4, <4>2, <5>1 DEF DriverInv
        <5> QED BY <3>3, <5>2 DEF Decls, Special
      <4> QED BY <3>1, <4>1, <4>2
    <3>6. pc = "missingCreation" => Cur = "creation"
      BY DEF Cur, CreationSteps
    <3>7. pc = "missingRuntime" => Cur = "runtime"
      BY DEF Cur, CreationSteps
    <3> QED BY <1>s, <1>g, <1>c, <1>1, <2>0, <3>1, <3>4, <3>5, <3>6, <3>7 DEF UnitInv
  <2> QED BY <1>7, <2>1, <2>2, <2>3, <2>4 DEF StartUnit
<1>8. CASE UNCHANGED vars
  BY <1>2, <1>8 DEF vars
<1> QED BY <1>3, <1>4, <1>5, <1>6, <1>7, <1>8, StepKinds

\* What a finished unit refers to has a label.
LEMMA FinishedStep ==
  TypeOK /\ DriverInv /\ QueueInv /\ UnitInv /\ CoverInv /\ FinishedInv /\ [Next]_vars => FinishedInv'
<1> SUFFICES ASSUME TypeOK, DriverInv, QueueInv, UnitInv, CoverInv, FinishedInv, [Next]_vars,
                    pc' \notin Ended
             PROVE  FinishedInv'
  BY DEF FinishedInv
<1> DEFINE Done(u, c) == \A x \in ItemsOf(u) : Emitted(x, c)
           DoneNext(u, c) == \A x \in ItemsOf(u) : Emitted(x, c)'
           Past == pc \notin {"compileContract", "initializers"} /\ ~contract.isLibrary
           PastConstructor == Past /\ ~(pc = "constructor" /\ unit = None) /\ Constructor \in contract.special
<1>s. contract' = contract
  BY ContractSame
<1>t. \A u : ItemsOf(u)' = ItemsOf(u)
  BY <1>s, SameReach
<1>c. {"creation", "runtime"} = Contexts /\ Cur \in Contexts
  BY DEF Contexts, Cur
<1>m. \A u : \A c \in Contexts : Done(u, c) => DoneNext(u, c)
  BY EmittedGrow
<1>g. \A c \in Contexts : alreadyCompiled[c] \subseteq alreadyCompiled'[c]
  BY Grow
<1> SUFFICES /\ \A c \in Contexts : \A u \in alreadyCompiled'[c] : (u = unit' /\ c = Cur') \/ DoneNext(u, c)
             /\ Past' => DoneNext(Initializers, "creation")
             /\ PastConstructor' => Constructor \in alreadyCompiled'["creation"]
  BY <1>s, <1>t DEF FinishedInv
<1>o. ASSUME pc \notin Ended
      PROVE  /\ \A c \in Contexts : \A u \in alreadyCompiled[c] : (u = unit /\ c = Cur) \/ Done(u, c)
             /\ Past => Done(Initializers, "creation")
             /\ PastConstructor => Constructor \in alreadyCompiled["creation"]
  BY <1>o DEF FinishedInv
<1>n. \A c \in Contexts : \A u \in alreadyCompiled[c] : u # None
  BY UnitNames DEF TypeOK
<1> HIDE DEF Done, DoneNext
<1>1. ASSUME pc \notin Ended, UNCHANGED <<unit, pc, alreadyCompiled>>
      PROVE  /\ \A c \in Contexts : \A u \in alreadyCompiled'[c] : (u = unit' /\ c = Cur') \/ DoneNext(u, c)
             /\ Past' => DoneNext(Initializers, "creation")
             /\ PastConstructor' => Constructor \in alreadyCompiled'["creation"]
  <2>1. Cur' = Cur
    BY <1>1 DEF Cur
  <2> QED BY <1>1, <1>s, <1>c, <1>m, <1>o, <2>1
<1>2. CASE pc \notin Ended /\ VisitItem
  <2>1. pc' = pc /\ UNCHANGED <<unit, alreadyCompiled>>
    BY <1>2, VisitFacts DEF Ended
  <2> QED BY <1>1, <1>2, <2>1
<1>3. CASE pc \notin Ended /\ CompilePlaceholder
  BY <1>1, <1>3 DEF CompilePlaceholder, queueVars
<1>4. CASE pc \notin Ended /\ FinishUnit
  <2>1. unit # None /\ unit' = None /\ pc' = After(pc) /\ alreadyCompiled' = alreadyCompiled
    BY <1>4 DEF FinishUnit, queueVars
  <2>2. Done(unit, Cur)
    BY <1>4, UnitEmitted DEF Done
  <2>3. \A c \in Contexts : \A u \in alreadyCompiled'[c] : DoneNext(u, c)
    BY <1>4, <1>c, <1>m, <1>o, <2>1, <2>2
  <2>4. pc = "initializers" => Done(Initializers, "creation")
    BY <2>1, <2>2 DEF UnitInv, Cur, CreationSteps
  <2>5. Past' => DoneNext(Initializers, "creation")
    <3>1. pc # "compileContract"
      BY <2>1 DEF DriverInv
    <3> QED BY <1>4, <1>s, <1>c, <1>m, <1>o, <2>4, <3>1
  <2>6. PastConstructor' => PastConstructor
    <3>1. pc' = "constructor" => pc \in {"initializers", "constructor"}
      BY <2>1 DEF After
    <3>2. pc \notin {"compileContract"}
      BY <2>1 DEF DriverInv
    <3>3. pc = "initializers" /\ Constructor \in contract.special => pc' = "constructor"
      BY <2>1 DEF After
    <3> QED BY <1>s, <2>1, <3>1, <3>2, <3>3
  <2> QED BY <1>4, <1>o, <1>g, <1>c, <2>3, <2>5, <2>6
<1>5. CASE pc \notin Ended /\ StartUnit
  <2>1. unit = None /\ pc' = pc /\ Cur' = Cur
    BY <1>5, StartFacts DEF Cur
  <2>2. ASSUME NEW c, NEW d, StartFunction(c, d)
        PROVE  unit' = d /\ \A b \in Contexts : \A u \in alreadyCompiled'[b] :
                              u \in alreadyCompiled[b] \/ (u = d /\ b = c)
    BY <2>2 DEF StartFunction, TypeOK
  <2>3. \A c \in Contexts : \A u \in alreadyCompiled'[c] : u \in alreadyCompiled[c] \/ (u = unit' /\ c = Cur)
    <3>1. CASE CompileInitializers
      BY <3>1 DEF CompileInitializers, queueVars
    <3>2. CASE CompileConstructor
      <4>1. Cur = "creation" /\ StartFunction("creation", Constructor)
        BY <3>2 DEF CompileConstructor, Cur, CreationSteps
      <4> QED BY <2>2, <4>1
    <3>3. CASE CompileSpecial
      <4>1. Cur = "runtime" /\ StartFunction("runtime", pc)
        BY <3>3 DEF CompileSpecial, Cur, CreationSteps
      <4> QED BY <2>2, <4>1
    <3>4. CASE CompileNextFunction
      BY <2>2, <3>4 DEF CompileNextFunction
    <3> QED BY <1>5, <3>1, <3>2, <3>3, <3>4 DEF StartUnit
  <2>4. \A c \in Contexts : \A u \in alreadyCompiled'[c] : (u = unit' /\ c = Cur') \/ DoneNext(u, c)
    BY <1>5, <1>m, <1>n, <1>o, <2>1, <2>3
  <2>5. Past' => DoneNext(Initializers, "creation")
    BY <1>5, <1>s, <1>c, <1>m, <1>o, <2>1
  <2>6. PastConstructor' => Constructor \in alreadyCompiled'["creation"]
    <3>1. CASE pc = "constructor"
      <4>1. CompileConstructor
        BY <1>5, <3>1 DEF StartUnit, CompileInitializers, CompileNextFunction, CompileSpecial
      <4> QED BY <4>1 DEF CompileConstructor, StartFunction, TypeOK, Contexts
    <3>2. CASE pc # "constructor"
      BY <1>5, <1>s, <1>c, <1>g, <1>o, <2>1, <3>2
    <3> QED BY <3>1, <3>2
  <2> QED BY <2>4, <2>5, <2>6
<1>6. CASE pc \notin Ended /\ Between /\ Drive
  <2>1. unit = None /\ unit' = None /\ alreadyCompiled' = alreadyCompiled
    BY <1>6 DEF Between
  <2>2. \A c \in Contexts : \A u \in alreadyCompiled'[c] : DoneNext(u, c)
    BY <1>6, <1>m, <1>n, <1>o, <2>1
  <2>3. pc' \notin {"compileContract", "initializers"} => pc \notin {"compileContract", "initializers"} \/ contract.isLibrary
    BY <1>6 DEF Drive, Between, CompileContract, CompileInitializers, CompileConstructor, SkipCompiled,
       CompileNextFunction, NoMissingFunction, GenerateLowLevel, NoMissingLowLevel,
       AppendFunctionSelector, CompileSpecial, NoSpecial, AppendUnpackers, Assemble, After
  <2>4. pc' # "constructor" => pc # "constructor"
    BY <1>6, UnitNames DEF Drive, Between, CompileContract, CompileInitializers, CompileConstructor, SkipCompiled,
       CompileNextFunction, NoMissingFunction, GenerateLowLevel, NoMissingLowLevel,
       AppendFunctionSelector, CompileSpecial, NoSpecial, AppendUnpackers, Assemble, After,
       StartFunction, Special
  <2> QED BY <1>6, <1>s, <1>c, <1>m, <1>o, <2>1, <2>2, <2>3, <2>4
<1>7. CASE UNCHANGED vars
  <2>1. pc' = pc /\ UNCHANGED <<unit, alreadyCompiled>>
    BY <1>7 DEF vars, queueVars
  <2> QED BY <1>1, <2>1
<1> QED BY <1>2, <1>3, <1>4, <1>5, <1>6, <1>7, StepKinds

-----------------------------------------------------------------------------
(***************************************************************************)
(* Reachability.                                                           *)
(***************************************************************************)
\* The reachable functions hold the first ones and are closed.
LEMMA Reachable ==
  ASSUME NEW S \in SUBSET Functions
  PROVE  S \subseteq ReachableFrom(S) /\ \A f \in ReachableFrom(S) : Refs(f) \cap Functions \subseteq ReachableFrom(S)
BY DEF ReachableFrom, Closed

\* They are the least such set.
LEMMA LeastReachable ==
  ASSUME NEW S, NEW T \in SUBSET Functions, S \subseteq T, Closed(T)
  PROVE  ReachableFrom(S) \subseteq T
BY DEF ReachableFrom

\* Only functions are called and used as values.
LEMMA RefsType ==
  ASSUME contract \in Contracts, NEW u \in Units
  PROVE  ItemsOf(u) \subseteq Items /\ Refs(u) \subseteq Functions /\ Values(u) \subseteq Refs(u)
<1>1. ItemsOf(u) \subseteq Items
  <2> SUFFICES ASSUME NEW x \in ItemsOf(u) PROVE x \in Items
    OBVIOUS
  <2>1. PICK d \in Depths(u) : x \in RangeOf(BlockItems(u, d)) /\ x # Placeholder
    BY ItemsInBlocks
  <2>2. BlockItems(u, d) \in Seq(Items \cup {Placeholder})
    BY BlockFacts
  <2> QED BY <2>1, <2>2 DEF RangeOf
<1>2. \A x \in Items : x.kind \in {"call", "value"} => x.of \in Functions
  BY DEF Items
<1> QED BY <1>1, <1>2 DEF Refs, Values

LEMMA RootsType ==
  ASSUME contract \in Contracts
  PROVE  /\ CreationUnits \subseteq Units
         /\ UNION {Refs(u) : u \in CreationUnits} \subseteq Functions
         /\ CreationCode \subseteq Functions
         /\ RangeOf(contract.interface) \subseteq Functions
         /\ RuntimeRoots \subseteq Functions
<1>1. CreationUnits \subseteq Units
  BY DEF CreationUnits, Units, Decls, Special
<1>2. UNION {Refs(u) : u \in CreationUnits} \subseteq Functions
  BY <1>1, RefsType
<1>3. CreationCode \subseteq Functions
  BY DEF CreationCode, ReachableFrom
<1>4. RangeOf(contract.interface) \subseteq Functions
  <2>1. contract.interface \in Seq(Functions)
    BY ContractsAssumption DEF Contract
  <2> QED BY <2>1 DEF RangeOf
<1>5. \A u \in CreationUnits \cup CreationCode : Values(u) \subseteq Functions
  BY <1>1, <1>3, RefsType DEF Units, Decls
<1> QED BY <1>1, <1>2, <1>3, <1>4, <1>5 DEF RuntimeRoots

\* What the unit under way refers to can be reached.
LEMMA UnitReaches ==
  ASSUME TypeOK, DriverInv, UnitInv, ReachInv, unit # None, NEW f \in Refs(unit)
  PROVE  /\ f \in Functions
         /\ pc \in CreationSteps => f \in CreationCode
         /\ pc \in CreationSteps /\ f \in Values(unit) => f \in ReachableFrom(RuntimeRoots)
         /\ pc = "missingRuntime" => f \in ReachableFrom(RuntimeRoots)
<1>0. contract \in Contracts /\ unit \in Units /\ f \in Functions
  BY RefsType DEF TypeOK
<1>1. ASSUME pc \in CreationSteps PROVE unit \in CreationUnits \cup CreationCode
  <2>1. pc \in {"initializers", "constructor", "missingCreation"}
    BY <1>1 DEF DriverInv, CreationSteps
  <2> QED BY <2>1 DEF UnitInv, ReachInv, CreationUnits
<1>2. ASSUME unit \in CreationUnits \cup CreationCode PROVE f \in CreationCode
  <2> DEFINE S == UNION {Refs(u) : u \in CreationUnits}
  <2>1. S \in SUBSET Functions /\ CreationCode = ReachableFrom(S)
    BY <1>0, RootsType DEF CreationCode
  <2>2. unit \in CreationUnits => f \in S
    OBVIOUS
  <2> HIDE DEF S
  <2>3. S \subseteq ReachableFrom(S) /\ \A g \in ReachableFrom(S) : Refs(g) \cap Functions \subseteq ReachableFrom(S)
    BY <2>1, Reachable
  <2> QED BY <1>0, <1>2, <2>1, <2>2, <2>3
<1>3. /\ RuntimeRoots \subseteq ReachableFrom(RuntimeRoots)
      /\ \A g \in ReachableFrom(RuntimeRoots) : Refs(g) \cap Functions \subseteq ReachableFrom(RuntimeRoots)
  BY <1>0, RootsType, Reachable
<1>4. ASSUME unit \in CreationUnits \cup CreationCode, f \in Values(unit) PROVE f \in RuntimeRoots
  BY <1>4 DEF RuntimeRoots
<1>5. ASSUME pc = "missingRuntime" PROVE unit \in ReachableFrom(RuntimeRoots)
  BY <1>5 DEF UnitInv, ReachInv, Early
<1> QED BY <1>0, <1>1, <1>2, <1>3, <1>4, <1>5

\* The item visited next is one of the unit's.
LEMMA HeadOfUnit ==
  ASSUME TypeOK, CodeInv, VisitItem
  PROVE  Head(code).item \in ItemsOf(unit)
<1>1. /\ unit # None /\ unit \in Units /\ contract \in Contracts
      /\ Head(code) \in RangeOf(code) /\ Head(code).item # Placeholder
  BY VisitFacts DEF TypeOK
<1>2. /\ Head(code).depth \in Depths(unit)
      /\ Head(code).item \in RangeOf(BlockItems(unit, Head(code).depth))
  BY <1>1 DEF CodeInv
<1> QED BY <1>1, <1>2, BlockFacts

\* Nothing gets a label that cannot be reached.
LEMMA ReachStep ==
  TypeOK /\ DriverInv /\ QueueInv /\ CodeInv /\ UnitInv /\ ReachInv /\ [Next]_vars => ReachInv'
<1> SUFFICES ASSUME TypeOK, DriverInv, QueueInv, CodeInv, UnitInv, ReachInv, [Next]_vars PROVE ReachInv'
  OBVIOUS
<1> DEFINE Late == ReachableFrom(RuntimeRoots)
<1>s. contract' = contract /\ contract \in Contracts
  BY ContractSame DEF TypeOK
<1>t. CreationCode' = CreationCode /\ ReachableFrom(RuntimeRoots)' = Late
  BY <1>s, SameReach
<1> SUFFICES /\ entryLabels'["creation"] \cap Functions \subseteq CreationCode
             /\ pc' \in Early => entryLabels'["runtime"] \cap Functions \subseteq Late
  BY <1>t DEF ReachInv
<1>c. {"creation", "runtime"} = Contexts /\ Cur \in Contexts
  BY DEF Contexts, Cur
<1>e. pc' \in Early => pc \in Early
  <2>1. VisitItem => pc' = pc \/ pc' = "unbalanced"
    BY VisitFacts
  <2> QED BY <2>1, StepKinds DEF Early, CreationSteps, Ended, CompilePlaceholder, FinishUnit, After, StartUnit, Drive, CompileContract, CompileInitializers,
       CompileConstructor, SkipCompiled, CompileNextFunction, NoMissingFunction, GenerateLowLevel,
       NoMissingLowLevel, AppendFunctionSelector, CompileSpecial, NoSpecial, AppendUnpackers, Assemble, vars
<1>1. ASSUME entryLabels' = entryLabels
      PROVE  /\ entryLabels'["creation"] \cap Functions \subseteq CreationCode
             /\ pc' \in Early => entryLabels'["runtime"] \cap Functions \subseteq Late
  BY <1>e, <1>1 DEF ReachInv
<1>2. CASE VisitItem
  <2> DEFINE x == Head(code).item
  <2>0. x \in ItemsOf(unit) /\ unit # None /\ (pc' \in Early => pc' = pc)
    BY <1>2, HeadOfUnit, VisitFacts DEF Early, CreationSteps
  <2>1. ASSUME NEW cs \in SUBSET Contexts, NEW f \in Refs(unit), EntryLabel(cs, f), pc' = pc,
               "creation" \in cs => pc \in CreationSteps,
               "runtime" \in cs /\ pc \in CreationSteps => f \in Values(unit)
        PROVE  /\ entryLabels'["creation"] \cap Functions \subseteq CreationCode
               /\ pc' \in Early => entryLabels'["runtime"] \cap Functions \subseteq Late
    <3>1. \A c \in Contexts : entryLabels'[c] \subseteq entryLabels[c] \cup (IF c \in cs THEN {f} ELSE {})
      BY <2>1 DEF EntryLabel
    <3>2. pc \in Early => pc \in CreationSteps \cup {"missingRuntime"}
      BY <2>0 DEF DriverInv, Early
    <3> QED BY <1>c, <1>e, <2>0, <2>1, <3>1, <3>2, UnitReaches DEF ReachInv
  <2>2. x.kind \in {"call", "value"} => x.of \in Refs(unit)
    BY <2>0 DEF Refs
  <2>3. x.kind = "value" => x.of \in Values(unit)
    BY <2>0 DEF Values
  <2>4. pc \in CreationSteps <=> Cur = "creation"
    BY DEF Cur
  <2>5. CASE CompileCall
    <3>1. EntryLabel({Cur}, x.of) /\ x.kind = "call" /\ pc' = pc
      BY <2>5 DEF CompileCall, NextItem
    <3> HIDE DEF x
    <3> QED BY <1>c, <2>1, <2>2, <2>4, <3>1
  <2>6. CASE CompileValue
    <3>1. EntryLabel(IF Cur = "creation" THEN Contexts ELSE {"runtime"}, x.of) /\ x.kind = "value" /\ pc' = pc
      BY <2>6 DEF CompileValue, NextItem
    <3> HIDE DEF x
    <3> QED BY <1>c, <2>1, <2>2, <2>3, <2>4, <3>1
  <2>7. CASE CompileAwait \/ CompileLowLevel
    BY <1>1, <2>7 DEF CompileAwait, CompileLowLevel
  <2> QED BY <1>2, <2>5, <2>6, <2>7 DEF VisitItem
<1>3. CASE CompilePlaceholder \/ FinishUnit \/ (Between /\ ~CompileContract) \/ CompileInitializers \/ UNCHANGED vars
  BY <1>1, <1>3 DEF CompilePlaceholder, FinishUnit, Between, CompileInitializers, vars, queueVars
<1>4. CASE CompileContract
  <2>1. entryLabels'["creation"] = entryLabels["creation"] /\ entryLabels'["runtime"] = RangeOf(contract.interface)
    BY <1>4 DEF CompileContract, TypeOK, Contexts
  <2>2. RangeOf(contract.interface) \subseteq RuntimeRoots /\ RuntimeRoots \subseteq Late
    BY <1>s, RootsType, Reachable DEF RuntimeRoots
  <2> QED BY <2>1, <2>2 DEF ReachInv
<1>5. CASE CompileConstructor \/ CompileSpecial
  <2>1. ASSUME NEW c, NEW d, StartFunction(c, d)
        PROVE  \A b \in Contexts : entryLabels'[b] \subseteq entryLabels[b] \cup {d}
    BY <2>1 DEF StartFunction, TypeOK
  <2>2. PICK d \in Special : \A b \in Contexts : entryLabels'[b] \subseteq entryLabels[b] \cup {d}
    BY <1>5, <2>1 DEF CompileConstructor, CompileSpecial, Special, Receive, Fallback
  <2> QED BY <1>c, <1>e, <2>2, UnitNames DEF ReachInv
<1>6. CASE CompileNextFunction
  <2> DEFINE d == Head(functionsToCompile[Cur])
  <2>1. StartFunction(Cur, d) /\ functionsToCompile[Cur] # <<>> /\ functionsToCompile[Cur] \in Seq(Decls)
    BY <1>6, <1>c DEF CompileNextFunction, TypeOK
  <2>2. d \in entryLabels[Cur]
    BY <1>c, <2>1, RangeTail DEF QueueInv
  <2>3. entryLabels' = entryLabels
    BY <1>c, <2>1, <2>2 DEF StartFunction, TypeOK
  <2> QED BY <1>1, <2>3
<1> QED BY <1>2, <1>3, <1>4, <1>5, <1>6, StepKinds DEF StartUnit

\* Behind the selector, continuations come from receive and fallback only.
LEMMA DispatchStep ==
  TypeOK /\ DriverInv /\ CodeInv /\ UnitInv /\ DispatchInv /\ [Next]_vars => DispatchInv'
<1> SUFFICES ASSUME TypeOK, DriverInv, CodeInv, UnitInv, DispatchInv, [Next]_vars PROVE DispatchInv'
  OBVIOUS
<1> USE DEF queueVars, lowVars, tagVars
<1> DEFINE LateAwaits == UNION {Awaits(u) : u \in LateUnits}
           Behind == {"receive", "fallback", "unpackers", "assemble", "done"}
<1>s. contract' = contract
  BY ContractSame
<1>t. LateAwaits' = LateAwaits
  BY <1>s, SameReach DEF LateUnits, Awaits, ItemsOf, RangeOf
<1> HIDE DEF LateAwaits
<1> SUFFICES ASSUME pc' \in Behind, contract.interface # <<>>
             PROVE  awaitCallbacks'["runtime"] \ dispatched' \subseteq LateAwaits
  BY <1>s, <1>t DEF DispatchInv, LateAwaits
<1>1. ASSUME pc \in Behind, UNCHANGED <<awaitCallbacks, dispatched>>
      PROVE  awaitCallbacks'["runtime"] \ dispatched' \subseteq LateAwaits
  BY <1>1 DEF DispatchInv, LateAwaits
<1>2. CASE VisitItem
  <2>1. pc' = pc /\ unit # None /\ Head(code).item \in ItemsOf(unit)
    BY <1>2, VisitFacts, HeadOfUnit
  <2>2. pc \in {"receive", "fallback"} /\ unit = pc /\ unit \in contract.special
    BY <2>1 DEF DriverInv, UnitInv
  <2>3. unit \in LateUnits
    BY <2>2 DEF LateUnits, Receive, Fallback
  <2>4. CASE CompileAwait
    <3> DEFINE x == Head(code).item
    <3>1. x.kind = "await" /\ dispatched' = dispatched /\ AddCallbackDest(Cur, x.of)
      BY <2>4 DEF CompileAwait, NextItem
    <3>2. x.of \in LateAwaits
      BY <2>1, <2>3, <3>1 DEF LateAwaits, Awaits
    <3>3. awaitCallbacks'["runtime"] \subseteq awaitCallbacks["runtime"] \cup {x.of}
      BY <3>1 DEF AddCallbackDest, TypeOK, Contexts
    <3>4. awaitCallbacks["runtime"] \ dispatched \subseteq LateAwaits
      BY <2>2 DEF DispatchInv, LateAwaits
    <3> QED BY <3>1, <3>2, <3>3, <3>4
  <2>5. CASE CompileCall \/ CompileValue \/ CompileLowLevel
    BY <1>1, <2>1, <2>5 DEF CompileCall, CompileValue, CompileLowLevel, NextItem
  <2> QED BY <1>2, <2>4, <2>5 DEF VisitItem
<1>3. CASE CompilePlaceholder \/ FinishUnit
  <2>1. pc \in Behind
    BY <1>3 DEF CompilePlaceholder, FinishUnit, After, DriverInv
  <2> QED BY <1>1, <1>3, <2>1 DEF CompilePlaceholder, FinishUnit
<1>4. CASE StartUnit
  BY <1>1, <1>4
     DEF StartUnit, CompileInitializers, CompileConstructor, CompileNextFunction, CompileSpecial
<1>5. CASE AppendFunctionSelector
  BY <1>5 DEF AppendFunctionSelector
<1>6. CASE Between /\ Drive /\ ~AppendFunctionSelector
  <2>1. pc \in Behind /\ UNCHANGED <<awaitCallbacks, dispatched>>
    BY <1>6 DEF Drive, Between, CompileContract, CompileInitializers, CompileConstructor, SkipCompiled,
       CompileNextFunction, NoMissingFunction, GenerateLowLevel, NoMissingLowLevel,
       CompileSpecial, NoSpecial, AppendUnpackers, Assemble, After
  <2> QED BY <1>1, <2>1
<1>7. CASE UNCHANGED vars
  BY <1>1, <1>7 DEF vars
<1> QED BY <1>2, <1>3, <1>4, <1>5, <1>6, <1>7, StepKinds

-----------------------------------------------------------------------------
\* The invariant of code generation, for what is compiled.
RInv == CodeInv /\ CoverInv /\ FinishedInv /\ UnitInv /\ ReachInv /\ DispatchInv

LEMMA RInit == Init => RInv
<1> SUFFICES ASSUME Init PROVE RInv
  OBVIOUS
<1>1. /\ pc = "compileContract" /\ unit = None
      /\ entryLabels["creation"] = {} /\ entryLabels["runtime"] = {}
      /\ \A c \in Contexts : alreadyCompiled[c] = {}
  BY DEF Init, Contexts
<1> QED BY <1>1 DEF RInv, CodeInv, CoverInv, FinishedInv, UnitInv, ReachInv, DispatchInv

\* The invariant holds in every reachable state, whatever the contract.
THEOREM ReachInductive == Spec => []RInv
<1>1. IInv /\ RInv /\ [Next]_vars => RInv'
  BY CodeStep, CoverStep, FinishedStep, UnitStep, ReachStep, DispatchStep DEF RInv, IInv
<1> QED BY RInit, <1>1, Inductive, PTL DEF Spec

\* When the selector is emitted, each context holds exactly the functions that
\* can be reached in it.
LEMMA ExactlyReachable == IInv /\ RInv => CompilesExactlyReachable
<1> SUFFICES ASSUME IInv, RInv, pc = "selector"
             PROVE  /\ alreadyCompiled["creation"] \cap Functions = CreationCode
                    /\ alreadyCompiled["runtime"] = ReachableFrom(RuntimeRoots)
  BY DEF CompilesExactlyReachable
<1>0. /\ TypeOK /\ DriverInv /\ QueueInv /\ FinishedInv /\ ReachInv /\ contract \in Contracts
      /\ pc \notin Ended /\ pc \in Early /\ {"creation", "runtime"} = Contexts
  BY DEF IInv, RInv, TypeOK, Ended, Early, Contexts
<1>1. unit = None
  BY <1>0 DEF DriverInv
<1>2. entryLabels["creation"] = alreadyCompiled["creation"] /\ entryLabels["runtime"] = alreadyCompiled["runtime"]
  <2>1. functionsToCompile["creation"] = <<>> /\ functionsToCompile["runtime"] = <<>>
    BY <1>0 DEF DriverInv, RuntimeSteps
  <2>2. RangeOf(<<>>) = {}
    BY DEF RangeOf
  <2>3. \A c \in Contexts : entryLabels[c] = alreadyCompiled[c] \cup RangeOf(functionsToCompile[c])
    BY <1>0 DEF QueueInv
  <2> QED BY <1>0, <2>1, <2>2, <2>3
<1>3. \A c \in Contexts : \A u \in alreadyCompiled[c] : \A x \in ItemsOf(u) : Emitted(x, c)
  <2>1. \A c \in Contexts : \A u \in alreadyCompiled[c] : u # None
    BY <1>0, UnitNames DEF TypeOK
  <2> QED BY <1>0, <1>1, <2>1 DEF FinishedInv
<1>4. \A u : \A c \in Contexts : (\A x \in ItemsOf(u) : Emitted(x, c)) => Refs(u) \subseteq alreadyCompiled[c]
  BY <1>0, <1>2 DEF Refs, Emitted
<1>5. \A u : (\A x \in ItemsOf(u) : Emitted(x, "creation")) => Values(u) \subseteq alreadyCompiled["runtime"]
  BY <1>2 DEF Values, Emitted
<1>6. \A u \in CreationUnits : \A x \in ItemsOf(u) : Emitted(x, "creation")
  <2> SUFFICES ASSUME NEW u \in CreationUnits, ~contract.isLibrary PROVE \A x \in ItemsOf(u) : Emitted(x, "creation")
    BY DEF CreationUnits
  <2>1. CASE u = Initializers
    BY <1>0, <2>1 DEF FinishedInv
  <2>2. CASE u = Constructor /\ Constructor \in contract.special
    <3>1. Constructor \in alreadyCompiled["creation"]
      BY <1>0, <2>2 DEF FinishedInv
    <3> QED BY <1>0, <1>3, <2>2, <3>1
  <2> QED BY <2>1, <2>2 DEF CreationUnits
<1>7. alreadyCompiled["creation"] \cap Functions = CreationCode
  <2> DEFINE T == alreadyCompiled["creation"] \cap Functions
             S == UNION {Refs(u) : u \in CreationUnits}
  <2>1. T \subseteq CreationCode
    BY <1>0, <1>2 DEF ReachInv
  <2>2. S \subseteq T
    BY <1>0, <1>4, <1>6, RootsType
  <2>3. Closed(T)
    <3> SUFFICES ASSUME NEW f \in T PROVE Refs(f) \subseteq T
      BY DEF Closed
    <3>1. f \in Units
      BY DEF Units, Decls
    <3> QED BY <1>0, <1>3, <1>4, <3>1, RefsType
  <2>4. CreationCode = ReachableFrom(S)
    BY DEF CreationCode
  <2> HIDE DEF S, T
  <2>5. T \in SUBSET Functions
    BY DEF T
  <2>6. ReachableFrom(S) \subseteq T
    BY <2>2, <2>3, <2>5, LeastReachable
  <2> QED BY <2>1, <2>4, <2>6 DEF T
<1>8. alreadyCompiled["runtime"] = ReachableFrom(RuntimeRoots)
  <2> DEFINE T == alreadyCompiled["runtime"]
  <2>0. T \in SUBSET Functions
    <3>1. T \subseteq Decls
      BY <1>0 DEF TypeOK
    <3>2. T \cap Special = {}
      BY <1>0, <1>2 DEF DriverInv, Special
    <3> QED BY <3>1, <3>2 DEF Decls
  <2>1. T \subseteq ReachableFrom(RuntimeRoots)
    BY <1>0, <1>2, <2>0 DEF ReachInv
  <2>2. RuntimeRoots \subseteq T
    <3>1. RangeOf(contract.interface) \subseteq T
      BY <1>0, <1>2 DEF DriverInv
    <3>2. \A u \in CreationUnits \cup CreationCode : Values(u) \subseteq T
      BY <1>0, <1>3, <1>5, <1>6, <1>7
    <3> QED BY <3>1, <3>2 DEF RuntimeRoots
  <2>3. Closed(T)
    BY <1>0, <1>3, <1>4 DEF Closed
  <2> HIDE DEF T
  <2>4. ReachableFrom(RuntimeRoots) \subseteq T
    BY <2>0, <2>2, <2>3, LeastReachable
  <2> QED BY <2>1, <2>4 DEF T
<1> QED BY <1>7, <1>8

\* compileMissingFunctions and the entry labels it finds in the queue reach
\* neither less nor more than the references in the source: no function is
\* missing when the selector is emitted, and there is no dead code.
THEOREM NothingMissingNothingDead == Spec => []CompilesExactlyReachable
BY ExactlyReachable, Inductive, ReachInductive, PTL

\* appendFunctionSelector dispatches to all continuations in the runtime code
\* except those in the code emitted after it.
THEOREM ContinuationsDispatched == Spec => []DispatchesQueuedAwaits
<1>1. RInv => DispatchesQueuedAwaits
  BY DEF RInv, DispatchInv, DispatchesQueuedAwaits
<1> QED BY <1>1, ReachInductive, PTL

-----------------------------------------------------------------------------
(***************************************************************************)
(* Awaited calls.                                                          *)
(***************************************************************************)
LEMMA AwaitItem ==
  ASSUME NEW x \in Items, x.kind = "await"
  PROVE  x = [kind |-> "await", of |-> x.of] /\ x.of \in Sites
<1>1. x \in [kind : {"await"}, of : Sites]
  BY DEF Items
<1> QED BY <1>1

\* Unless a modifier repeats code, a call node is in one block of one unit.
LEMMA OneSite ==
  ASSUME contract \in Contracts, ~Shared, NEW u \in Units, NEW v \in Units,
         NEW d \in Depths(u), NEW e \in Depths(v), NEW s \in Sites,
         NEW i \in AwaitsAt(BlockItems(u, d), s), NEW j \in AwaitsAt(BlockItems(v, e), s)
  PROVE  u = v /\ d = e /\ i = j
<1> DEFINE mu == contract.modifiers[u]
           mv == contract.modifiers[v]
<1>1. /\ mu \in Seq(Modifiers) /\ mv \in Seq(Modifiers) /\ Len(mu) \in Nat /\ Len(mv) \in Nat
      /\ d \in Nat /\ d <= Len(mu) /\ e \in Nat /\ e <= Len(mv)
  BY ContractFields DEF Depths
<1>2. CASE d < Len(mu) /\ e < Len(mv)
  <2> DEFINE m == mu[d + 1]
             n == mv[e + 1]
  <2>1. m \in Modifiers /\ n \in Modifiers
    BY <1>1, <1>2, ContractFields
  <2>2. i \in AwaitsAt(contract.modBody[m], s) /\ j \in AwaitsAt(contract.modBody[n], s)
    BY <1>2 DEF BlockItems
  <2>3. m = n /\ i = j
    BY <2>1, <2>2, NodesAssumption
  <2>4. AwaitsIn(m)
    <3>1. i \in DOMAIN contract.modBody[m] /\ contract.modBody[m][i] = [kind |-> "await", of |-> s]
      BY <2>2 DEF AwaitsAt
    <3>2. contract.modBody[m][i] \in RangeOf(contract.modBody[m]) /\ contract.modBody[m][i].kind = "await"
      BY <3>1 DEF RangeOf
    <3> QED BY <3>2 DEF AwaitsIn
  <2>5. d + 1 \in DOMAIN mu /\ e + 1 \in DOMAIN mv /\ mu[d + 1] = m /\ mv[e + 1] = m
    BY <1>1, <1>2, <2>3
  <2>6. <<u, d + 1>> \in Applications(m) /\ <<v, e + 1>> \in Applications(m)
    BY <2>5 DEF Applications
  <2>7. <<u, d + 1>> = <<v, e + 1>>
    BY <2>1, <2>4, <2>6 DEF Shared
  <2>8. u = v /\ d + 1 = e + 1
    BY <2>7
  <2> QED BY <1>1, <2>3, <2>8
<1>3. CASE ~(d < Len(mu)) /\ ~(e < Len(mv))
  <2>1. i \in AwaitsAt(contract.body[u], s) /\ j \in AwaitsAt(contract.body[v], s)
    BY <1>3 DEF BlockItems
  <2>2. u = v /\ i = j
    BY <2>1, NodesAssumption
  <2> QED BY <1>1, <1>3, <2>2
<1>4. CASE d < Len(mu) /\ ~(e < Len(mv))
  <2>1. mu[d + 1] \in Modifiers
    BY <1>1, <1>4, ContractFields
  <2>2. i \in AwaitsAt(contract.modBody[mu[d + 1]], s) /\ j \in AwaitsAt(contract.body[v], s)
    BY <1>4 DEF BlockItems
  <2>3. AwaitsAt(contract.body[v], s) = {} \/ AwaitsAt(contract.modBody[mu[d + 1]], s) = {}
    BY <2>1, NodesAssumption
  <2> QED BY <2>2, <2>3
<1>5. CASE ~(d < Len(mu)) /\ e < Len(mv)
  <2>1. mv[e + 1] \in Modifiers
    BY <1>1, <1>5, ContractFields
  <2>2. i \in AwaitsAt(contract.body[u], s) /\ j \in AwaitsAt(contract.modBody[mv[e + 1]], s)
    BY <1>5 DEF BlockItems
  <2>3. AwaitsAt(contract.body[u], s) = {} \/ AwaitsAt(contract.modBody[mv[e + 1]], s) = {}
    BY <2>1, NodesAssumption
  <2> QED BY <2>2, <2>3
<1> QED BY <1>2, <1>3, <1>4, <1>5

LEMMA OneUnit ==
  ASSUME contract \in Contracts, ~Shared, NEW u \in Units, NEW v \in Units,
         NEW d \in Depths(u), NEW e \in Depths(v), NEW s \in SitesAt(u, d), s \in SitesAt(v, e)
  PROVE  u = v /\ d = e
<1>1. s \in Sites /\ AwaitsAt(BlockItems(u, d), s) # {} /\ AwaitsAt(BlockItems(v, e), s) # {}
  BY DEF SitesAt
<1>2. PICK i \in AwaitsAt(BlockItems(u, d), s), j \in AwaitsAt(BlockItems(v, e), s) : TRUE
  BY <1>1
<1> QED BY <1>1, <1>2, OneSite

\* A block has one placeholder at most, and no call node twice.
LEMMA BlockOnce ==
  ASSUME contract \in Contracts, ~Shared, NEW u \in Units, NEW d \in Depths(u),
         NEW i \in DOMAIN Block(u, d)
  PROVE  /\ Block(u, d)[i].depth = d
         /\ Block(u, d)[i].item \in Items \cup {Placeholder}
         /\ Block(u, d)[i].item.kind = "await" =>
              /\ Block(u, d)[i].item.of \in SitesAt(u, d)
              /\ Block(u, d)[i].item = [kind |-> "await", of |-> Block(u, d)[i].item.of]
              /\ \A j \in DOMAIN Block(u, d) : Block(u, d)[j].item = Block(u, d)[i].item => i = j
         /\ Block(u, d)[i].item = Placeholder =>
              \A j \in DOMAIN Block(u, d) : Block(u, d)[j].item = Placeholder => i = j
         /\ \A s \in Sites : Block(u, d)[i].item = [kind |-> "await", of |-> s] => s \in SitesAt(u, d)
<1> DEFINE b == BlockItems(u, d)
<1>1. /\ b \in Seq(Items \cup {Placeholder})
      /\ Block(u, d) = [k \in 1..Len(b) |-> [item |-> b[k], depth |-> d]]
      /\ Placeholder \in RangeOf(b) <=> d < Len(contract.modifiers[u])
      /\ d \in Nat
  BY BlockFacts
<1> HIDE DEF b
<1>2. DOMAIN Block(u, d) = DOMAIN b /\ DOMAIN b = 1..Len(b)
      /\ \A k \in DOMAIN b : Block(u, d)[k].item = b[k] /\ Block(u, d)[k].depth = d
  BY <1>1
<1>3. i \in DOMAIN b /\ b[i] \in Items \cup {Placeholder}
  BY <1>1, <1>2
<1>4. ASSUME NEW s \in Sites, b[i] = [kind |-> "await", of |-> s]
      PROVE  s \in SitesAt(u, d) /\ \A j \in DOMAIN b : b[j] = b[i] => i = j
  <2>1. i \in AwaitsAt(BlockItems(u, d), s)
    BY <1>3, <1>4 DEF AwaitsAt, b
  <2>2. ASSUME NEW j \in DOMAIN b, b[j] = b[i] PROVE i = j
    <3>1. j \in AwaitsAt(BlockItems(u, d), s)
      BY <1>4, <2>2 DEF AwaitsAt, b
    <3> QED BY <2>1, <3>1, OneSite
  <2> QED BY <2>1, <2>2 DEF SitesAt
<1>5. ASSUME b[i].kind = "await"
      PROVE  b[i].of \in Sites /\ b[i] = [kind |-> "await", of |-> b[i].of]
  <2>1. b[i] \in Items
    BY <1>3, <1>5 DEF Placeholder
  <2> QED BY <1>5, <2>1, AwaitItem
<1>6. ASSUME b[i] = Placeholder, NEW j \in DOMAIN b, b[j] = Placeholder PROVE i = j
  <2>1. d < Len(contract.modifiers[u])
    BY <1>1, <1>3, <1>6 DEF RangeOf
  <2> DEFINE m == contract.modifiers[u][d + 1]
  <2>2. m \in Modifiers /\ b = contract.modBody[m]
    BY <1>1, <2>1, ContractFields DEF BlockItems, b
  <2>3. ~Repeats(m)
    BY <2>2 DEF Shared
  <2> QED BY <1>3, <1>6, <2>2, <2>3 DEF Repeats
<1> QED BY <1>2, <1>3, <1>4, <1>5, <1>6

LEMMA SharedSame ==
  ASSUME contract' = contract
  PROVE  /\ Shared' = Shared
         /\ \A u, d : SitesAt(u, d)' = SitesAt(u, d)
         /\ \A u : SitesOf(u)' = SitesOf(u)
BY DEF Shared, Repeats, AwaitsIn, Applications, SitesAt, SitesOf, BlockItems, Depths, AwaitsAt, RangeOf

\* A unit that is started has nothing in common with those before.
LEMMA StartFresh ==
  ASSUME TypeOK, DriverInv, QueueInv, AwaitOnceInv, ~Shared, StartUnit
  PROVE  /\ Cur' = Cur
         /\ unit' \in Started(Cur)'
         /\ \A d \in Depths(unit') : SitesAt(unit', d) \cap awaitCallbacks[Cur] = {}
<1>0. /\ unit = None /\ unit' \in Units /\ contract \in Contracts /\ pc' = pc /\ Cur \in Contexts
      /\ {"creation", "runtime"} = Contexts
  BY StartFacts DEF Cur, Contexts
<1>1. Cur' = Cur
  BY <1>0 DEF Cur
<1>2. /\ unit' \in Started(Cur)'
      /\ unit' \notin Started(Cur) \/ awaitCallbacks[Cur] = {}
  <2>1. CASE CompileInitializers
    <3>1. Cur = "creation" /\ unit' = Initializers /\ awaitCallbacks["creation"] = {}
      BY <1>0, <2>1 DEF CompileInitializers, Cur, CreationSteps, AwaitOnceInv
    <3> QED BY <1>1, <3>1 DEF Started
  <2>2. ASSUME NEW c \in Contexts, c = Cur, NEW f \in Decls, f \notin alreadyCompiled[c], StartFunction(c, f)
        PROVE  <1>2!1 /\ <1>2!2
    <3>1. unit' = f /\ f \in alreadyCompiled'[c]
      BY <2>2 DEF StartFunction, TypeOK
    <3>2. f # Initializers
      BY UnitNames DEF Decls, Special, Constructor, Receive, Fallback, Initializers
    <3> QED BY <1>1, <2>2, <3>1, <3>2 DEF Started
  <2>3. CASE CompileConstructor
    <3>1. pc = "constructor" /\ Cur = "creation" /\ StartFunction("creation", Constructor)
      BY <2>3 DEF CompileConstructor, Cur, CreationSteps
    <3>2. Constructor \notin alreadyCompiled["creation"]
      BY <1>0, <3>1 DEF DriverInv, QueueInv
    <3> QED BY <1>0, <2>2, <3>1, <3>2 DEF Decls, Special
  <2>4. CASE CompileSpecial
    <3>1. pc \in {Receive, Fallback} /\ Cur = "runtime" /\ StartFunction("runtime", pc)
      BY <2>4 DEF CompileSpecial, Cur, CreationSteps, Receive, Fallback
    <3>2. pc \notin alreadyCompiled["runtime"]
      BY <1>0, <3>1 DEF DriverInv, QueueInv, Receive, Fallback
    <3> QED BY <1>0, <2>2, <3>1, <3>2 DEF Decls, Special
  <2>5. CASE CompileNextFunction
    <3>1. Head(functionsToCompile[Cur]) \in Decls
      BY <1>0, <2>5 DEF CompileNextFunction, TypeOK
    <3> QED BY <1>0, <2>2, <2>5, <3>1 DEF CompileNextFunction
  <2> QED BY <2>1, <2>3, <2>4, <2>5 DEF StartUnit
<1>3. ASSUME NEW d \in Depths(unit'), NEW s \in SitesAt(unit', d), s \in awaitCallbacks[Cur]
      PROVE  FALSE
  <2>1. PICK v \in Started(Cur) : s \in SitesOf(v)
    BY <1>0, <1>3 DEF AwaitOnceInv
  <2>2. v \in Units
    BY <1>0 DEF Started, TypeOK, Units
  <2>3. PICK e \in Depths(v) : s \in SitesAt(v, e)
    BY <2>1 DEF SitesOf
  <2>4. v = unit'
    BY <1>0, <1>3, <2>2, <2>3, OneUnit
  <2> QED BY <1>2, <1>3, <2>1, <2>4
<1> QED BY <1>1, <1>2, <1>3

\* The code left stays fresh when an item is visited, ...
LEMMA FreshVisit ==
  ASSUME TypeOK, CodeInv, ~Shared, FreshCode, VisitItem, unit # None
  PROVE  /\ pc' = pc
         /\ FreshCode'
         /\ \A c \in Contexts : \A s \in awaitCallbacks'[c] :
               s \in awaitCallbacks[c] \/ (c = Cur /\ s \in SitesOf(unit))
<1> DEFINE x == Head(code).item
<1>1. /\ code \in Seq(CodeItems) /\ code # <<>> /\ code' = Tail(code) /\ unit \in Units
      /\ UNCHANGED <<contract, unit>> /\ x \in Items /\ contract \in Contracts
  BY VisitFacts DEF TypeOK
<1>2. /\ 1 \in DOMAIN code /\ code[1] = Head(code)
      /\ \A i \in DOMAIN code' : i + 1 \in DOMAIN code /\ code'[i] = code[i + 1] /\ i \in Nat /\ i # 0
  BY <1>1
<1>3. Cur \in Contexts
  BY DEF Cur, Contexts
<1>4. ASSUME CompileAwait
      PROVE  x.kind = "await" /\ x.of \notin awaitCallbacks[Cur] /\ x = [kind |-> "await", of |-> x.of] /\ x.of \in Sites
  <2>1. x.kind = "await"
    BY <1>4 DEF CompileAwait, NextItem
  <2>2. x.of \notin awaitCallbacks[Cur]
    BY <1>2, <2>1 DEF FreshCode, FreshIn
  <2> QED BY <1>1, <2>1, <2>2, AwaitItem
<1>5. pc' = pc
  BY <1>4, VisitFacts
<1>6. Cur' = Cur
  BY <1>5 DEF Cur
<1>7. CompileAwait => awaitCallbacks' = [awaitCallbacks EXCEPT ![Cur] = @ \cup {x.of}]
  BY <1>4 DEF CompileAwait, AddCallbackDest
<1>8. ~CompileAwait => awaitCallbacks' = awaitCallbacks
  BY DEF VisitItem, CompileCall, CompileValue, CompileLowLevel
<1>9. /\ \A c \in Contexts : awaitCallbacks'[c] \subseteq awaitCallbacks[c] \cup {x.of}
      /\ \A c \in Contexts : c # Cur => awaitCallbacks'[c] = awaitCallbacks[c]
      /\ ~CompileAwait => awaitCallbacks'[Cur] = awaitCallbacks[Cur]
  BY <1>3, <1>7, <1>8 DEF TypeOK
<1>10. CompileAwait => x.of \in SitesOf(unit)
  <2> SUFFICES ASSUME CompileAwait PROVE x.of \in SitesOf(unit)
    OBVIOUS
  <2> DEFINE d == Head(code).depth
  <2>1. Head(code) \in RangeOf(code)
    BY <1>2 DEF RangeOf
  <2>2. d \in Depths(unit) /\ x \in RangeOf(BlockItems(unit, d))
    BY <1>1, <2>1 DEF CodeInv
  <2>3. AwaitsAt(BlockItems(unit, d), x.of) # {}
    BY <1>4, <2>2 DEF RangeOf, AwaitsAt
  <2> QED BY <1>4, <2>2, <2>3 DEF SitesOf, SitesAt
<1>11. (\A d : SitesAt(unit, d)' = SitesAt(unit, d)) /\ Depths(unit)' = Depths(unit)
  BY <1>1 DEF SitesAt, BlockItems, Depths
<1>12. FreshCode'
  <2> SUFFICES ASSUME NEW i \in DOMAIN code'
        PROVE  /\ code'[i].item.kind = "await" =>
                    /\ code'[i].item.of \notin awaitCallbacks'[Cur]
                    /\ \A j \in DOMAIN code' : code'[j].item = code'[i].item => i = j
               /\ code'[i].item = Placeholder =>
                    /\ \A j \in DOMAIN code' : code'[j].item = Placeholder => i = j
                    /\ \A d \in Depths(unit) : d > code'[i].depth => \A s \in SitesAt(unit, d) :
                          /\ s \notin awaitCallbacks'[Cur]
                          /\ \A j \in DOMAIN code' : code'[j].item # [kind |-> "await", of |-> s]
    BY <1>6, <1>11 DEF FreshCode, FreshIn
  <2>0. /\ i + 1 \in DOMAIN code /\ i + 1 # 1 /\ code'[i] = code[i + 1]
        /\ \A j \in DOMAIN code' : j + 1 \in DOMAIN code /\ code'[j] = code[j + 1]
                                     /\ (i + 1 = j + 1 => i = j)
    BY <1>2
  <2>1. ASSUME code[i + 1].item.kind = "await"
        PROVE  /\ code[i + 1].item.of \notin awaitCallbacks'[Cur]
               /\ \A j \in DOMAIN code' : code'[j].item = code'[i].item => i = j
    <3>1. /\ code[i + 1].item.of \notin awaitCallbacks[Cur]
          /\ \A j \in DOMAIN code : code[j].item = code[i + 1].item => i + 1 = j
      BY <2>0, <2>1 DEF FreshCode, FreshIn
    <3>2. ASSUME CompileAwait PROVE code[i + 1].item.of # x.of
      <4>1. code[i + 1].item \in Items
        <5>1. code[i + 1].item \in Items \cup {Placeholder}
          <6>1. code[i + 1] \in CodeItems
            BY <1>1, <2>0
          <6> QED BY <6>1 DEF CodeItems
        <5> QED BY <2>1, <5>1 DEF Placeholder
      <4>2. code[i + 1].item = [kind |-> "await", of |-> code[i + 1].item.of]
        BY <2>1, <4>1, AwaitItem
      <4>3. code[1].item # code[i + 1].item
        BY <1>2, <2>0, <3>1
      <4> QED BY <1>2, <1>4, <3>2, <4>2, <4>3
    <3> QED BY <1>3, <1>9, <2>0, <3>1, <3>2
  <2>2. ASSUME code[i + 1].item = Placeholder
        PROVE  \A j \in DOMAIN code' : code'[j].item = Placeholder => i = j
    <3>1. \A j \in DOMAIN code : code[j].item = Placeholder => i + 1 = j
      BY <2>0, <2>2 DEF FreshCode, FreshIn
    <3> QED BY <2>0, <3>1
  <2>3. ASSUME code[i + 1].item = Placeholder, NEW d \in Depths(unit), d > code[i + 1].depth, NEW s \in SitesAt(unit, d)
        PROVE  /\ s \notin awaitCallbacks'[Cur]
               /\ \A j \in DOMAIN code' : code'[j].item # [kind |-> "await", of |-> s]
    <3>1. /\ s \notin awaitCallbacks[Cur]
          /\ \A j \in DOMAIN code : code[j].item # [kind |-> "await", of |-> s]
      BY <2>0, <2>3 DEF FreshCode, FreshIn
    <3>2. CompileAwait => s # x.of
      BY <1>2, <1>4, <3>1
    <3> QED BY <1>3, <1>9, <2>0, <3>1, <3>2
  <2> QED BY <2>0, <2>1, <2>2, <2>3
<1> QED BY <1>5, <1>8, <1>9, <1>10, <1>12

\* ... when a block is opened behind other code, ...
LEMMA FreshOpen ==
  ASSUME contract \in Contracts, ~Shared, NEW u \in Units, NEW d \in Depths(u), NEW W,
         NEW rest \in Seq(CodeItems), FreshBehind(rest, u, d, W)
  PROVE  FreshIn(Block(u, d) \o rest, u, W)
<1> DEFINE all == Block(u, d) \o rest
<1>a. \A e \in Depths(u) : e >= d => \A s \in SitesAt(u, e) :
         s \notin W /\ \A j \in DOMAIN rest : rest[j].item # [kind |-> "await", of |-> s]
  BY DEF FreshBehind
<1>b. \A i \in DOMAIN rest :
         /\ rest[i].item # Placeholder
         /\ rest[i].item.kind = "await" =>
               /\ rest[i].item.of \notin W
               /\ \A j \in DOMAIN rest : rest[j].item = rest[i].item => i = j
  BY DEF FreshBehind
<1> SUFFICES ASSUME NEW i \in DOMAIN all
             PROVE  /\ all[i].item.kind = "await" =>
                          /\ all[i].item.of \notin W
                          /\ \A j \in DOMAIN all : all[j].item = all[i].item => i = j
                    /\ all[i].item = Placeholder =>
                          /\ \A j \in DOMAIN all : all[j].item = Placeholder => i = j
                          /\ \A e \in Depths(u) : e > all[i].depth => \A s \in SitesAt(u, e) :
                                /\ s \notin W
                                /\ \A j \in DOMAIN all : all[j].item # [kind |-> "await", of |-> s]
  BY DEF FreshIn
<1> DEFINE b == Block(u, d)
           n == Len(b)
<1>1. b \in Seq(CodeItems) /\ n \in Nat /\ DOMAIN b = 1..n /\ DOMAIN rest = 1..Len(rest) /\ Len(rest) \in Nat
  BY BlockFacts
<1>2. d \in Nat /\ \A e \in Depths(u) : e \in Nat
  BY DEF Depths
<1>3. \A j \in DOMAIN b :
         /\ b[j].depth = d
         /\ b[j].item.kind = "await" =>
              /\ b[j].item.of \in SitesAt(u, d)
              /\ b[j].item = [kind |-> "await", of |-> b[j].item.of]
              /\ \A k \in DOMAIN b : b[k].item = b[j].item => j = k
         /\ b[j].item = Placeholder => \A k \in DOMAIN b : b[k].item = Placeholder => j = k
         /\ \A s \in Sites : b[j].item = [kind |-> "await", of |-> s] => s \in SitesAt(u, d)
  BY BlockOnce
<1> HIDE DEF b
<1>4. /\ DOMAIN all = 1..(n + Len(rest))
      /\ \A j \in 1..n : all[j] = b[j]
      /\ \A j \in 1..(n + Len(rest)) : j \notin 1..n => j - n \in 1..Len(rest) /\ all[j] = rest[j - n]
  <2>1. all = b \o rest
    BY DEF b
  <2> HIDE DEF all
  <2>2. DOMAIN all = 1..(n + Len(rest))
    BY <1>1, <2>1
  <2>3. \A j \in 1..n : all[j] = b[j]
    BY <1>1, <2>1
  <2>4. ASSUME NEW j \in 1..(n + Len(rest)), j \notin 1..n
        PROVE  j - n \in 1..Len(rest) /\ all[j] = rest[j - n]
    BY <1>1, <2>1, <2>4
  <2> QED BY <2>2, <2>3, <2>4
<1> HIDE DEF n, all
<1>5. \A j \in DOMAIN all : \/ j \in DOMAIN b /\ all[j] = b[j]
                            \/ j - n \in DOMAIN rest /\ all[j] = rest[j - n] /\ j \notin DOMAIN b /\ j \in Nat
  BY <1>1, <1>4
<1>6. ASSUME all[i].item.kind = "await"
      PROVE  /\ all[i].item.of \notin W
             /\ \A j \in DOMAIN all : all[j].item = all[i].item => i = j
  <2>1. CASE i \in DOMAIN b /\ all[i] = b[i]
    <3>1. /\ all[i].item.of \in SitesAt(u, d)
          /\ all[i].item = [kind |-> "await", of |-> all[i].item.of]
          /\ \A k \in DOMAIN b : b[k].item = all[i].item => i = k
      BY <1>3, <1>6, <2>1
    <3>2. /\ all[i].item.of \notin W
          /\ \A j \in DOMAIN rest : rest[j].item # all[i].item
      BY <1>2, <1>a, <3>1
    <3>3. ASSUME NEW j \in DOMAIN all, all[j].item = all[i].item PROVE i = j
      <4>1. CASE j \in DOMAIN b /\ all[j] = b[j]
        BY <3>1, <3>3, <4>1
      <4>2. CASE j - n \in DOMAIN rest /\ all[j] = rest[j - n]
        BY <3>2, <3>3, <4>2
      <4> QED BY <1>5, <4>1, <4>2
    <3> QED BY <3>2, <3>3
  <2>2. CASE i - n \in DOMAIN rest /\ all[i] = rest[i - n] /\ i \in Nat
    <3>1. /\ all[i].item.of \notin W
          /\ \A k \in DOMAIN rest : rest[k].item = all[i].item => i - n = k
      BY <1>6, <1>b, <2>2
    <3>2. ASSUME NEW j \in DOMAIN b, b[j].item = all[i].item PROVE FALSE
      <4>1. b[j].item.of \in SitesAt(u, d) /\ b[j].item = [kind |-> "await", of |-> b[j].item.of]
        BY <1>3, <1>6, <3>2
      <4>2. rest[i - n].item # [kind |-> "await", of |-> b[j].item.of]
        BY <1>2, <1>a, <2>2, <4>1
      <4> QED BY <2>2, <3>2, <4>1, <4>2
    <3>3. ASSUME NEW j \in DOMAIN all, all[j].item = all[i].item PROVE i = j
      <4>1. j - n \in DOMAIN rest /\ all[j] = rest[j - n] /\ j \in Nat
        BY <1>5, <3>2, <3>3
      <4>2. i - n = j - n
        BY <3>1, <3>3, <4>1
      <4> QED BY <1>1, <2>2, <4>1, <4>2
    <3> QED BY <3>1, <3>3
  <2> QED BY <1>5, <2>1, <2>2
<1>7. ASSUME all[i].item = Placeholder
      PROVE  /\ i \in DOMAIN b /\ all[i].depth = d
             /\ \A j \in DOMAIN all : all[j].item = Placeholder => i = j
  <2>1. \A j \in DOMAIN all : all[j].item = Placeholder => j \in DOMAIN b /\ all[j] = b[j]
    BY <1>5, <1>b
  <2>2. i \in DOMAIN b /\ all[i] = b[i]
    BY <1>7, <2>1
  <2> QED BY <1>3, <1>7, <2>1, <2>2
<1>8. ASSUME NEW e \in Depths(u), e > d, NEW s \in SitesAt(u, e)
      PROVE  /\ s \notin W
             /\ \A j \in DOMAIN all : all[j].item # [kind |-> "await", of |-> s]
  <2>1. s \notin W /\ \A j \in DOMAIN rest : rest[j].item # [kind |-> "await", of |-> s]
    BY <1>2, <1>8, <1>a
  <2>2. s \in Sites
    BY DEF SitesAt
  <2>3. ASSUME NEW j \in DOMAIN b, b[j].item = [kind |-> "await", of |-> s] PROVE FALSE
    <3>1. s \in SitesAt(u, d)
      BY <1>3, <2>2, <2>3
    <3>2. d = e
      BY <1>8, <3>1, OneUnit
    <3> QED BY <1>2, <1>8, <3>2
  <2> QED BY <1>5, <2>1, <2>3
<1> QED BY <1>6, <1>7, <1>8

LEMMA AwaitOnceStep ==
  IInv /\ CodeInv /\ AwaitOnceInv /\ [Next]_vars => AwaitOnceInv'
<1> SUFFICES ASSUME IInv, CodeInv, AwaitOnceInv, [Next]_vars, ~Shared
             PROVE  AwaitOnceInv'
  <2>1. ASSUME [Next]_vars PROVE Shared' = Shared
    BY <2>1, ContractSame, SharedSame
  <2> QED BY <2>1 DEF AwaitOnceInv
<1>0. TypeOK /\ DriverInv /\ QueueInv /\ contract \in Contracts /\ Cur \in Contexts /\ Contexts = {"creation", "runtime"}
  BY DEF IInv, TypeOK, Cur, Contexts
<1>o. /\ pc # "unbalanced"
      /\ pc = "compileContract" \/ (pc = "initializers" /\ unit = None) => awaitCallbacks["creation"] = {}
      /\ \A c \in Contexts : \A s \in awaitCallbacks[c] : \E u \in Started(c) : s \in SitesOf(u)
      /\ unit # None => unit \in Started(Cur) /\ FreshCode
  BY DEF AwaitOnceInv
<1>s. contract' = contract
  BY ContractSame
<1>t. /\ \A u : SitesOf(u)' = SitesOf(u)
      /\ \A u : Depths(u)' = Depths(u)
      /\ \A u, d : SitesAt(u, d)' = SitesAt(u, d)
  BY <1>s, SharedSame, SameReach
<1>g. \A c \in Contexts : \A u \in Started(c) : u \in Started(c)'
  BY <1>0, Grow DEF Started
\* The goal, without primes over operators.
<1>f. \A x, u, W : FreshIn(x, u, W)' <=> FreshIn(x, u, W)
  BY <1>t DEF FreshIn
<1> DEFINE Callbacks == \A c \in Contexts : \A s \in awaitCallbacks'[c] : \E u : u \in Started(c)' /\ s \in SitesOf(u)
           Fresh == unit' # None => unit' \in Started(Cur)' /\ FreshCode'
<1>q. ASSUME pc' # "unbalanced",
             pc' = "compileContract" \/ (pc' = "initializers" /\ unit' = None) => awaitCallbacks'["creation"] = {},
             Callbacks, Fresh
      PROVE  AwaitOnceInv'
  <2>1. \A c \in Contexts : \A s \in awaitCallbacks'[c] : \E u \in Started(c)' : s \in SitesOf(u)'
    BY <1>t, <1>q
  <2> QED BY <1>q, <2>1 DEF AwaitOnceInv
<1>k. ASSUME awaitCallbacks' = awaitCallbacks PROVE Callbacks
  BY <1>o, <1>g, <1>k
<1>1. CASE VisitItem
  <2>1. /\ unit # None /\ unit' = unit /\ pc' = pc /\ FreshCode'
        /\ \A c \in Contexts : \A s \in awaitCallbacks'[c] :
               s \in awaitCallbacks[c] \/ (c = Cur /\ s \in SitesOf(unit))
    BY <1>0, <1>o, <1>1, VisitFacts, FreshVisit
  <2>2. Cur' = Cur
    BY <2>1 DEF Cur
  <2>3. Callbacks
    BY <1>o, <1>g, <2>1
  <2>4. unit' \in Started(Cur)'
    BY <1>0, <1>o, <1>g, <2>1, <2>2 DEF Started
  <2>5. pc # "compileContract"
    BY <1>0, <2>1 DEF DriverInv
  <2> QED BY <1>o, <1>q, <2>1, <2>3, <2>4, <2>5
<1>2. CASE CompilePlaceholder
  <2> DEFINE h == Head(code)
             rest == Tail(code)
  <2>1. /\ unit # None /\ unit \in Units /\ code \in Seq(CodeItems) /\ code # <<>> /\ rest \in Seq(CodeItems)
        /\ h.item = Placeholder /\ h.depth \in Nat /\ h.depth + 1 \in Depths(unit)
        /\ code' = Block(unit, h.depth + 1) \o rest
        /\ UNCHANGED <<contract, unit, pc, alreadyCompiled, awaitCallbacks>>
    BY <1>0, <1>2, PlaceholderFacts
  <2>2. /\ 1 \in DOMAIN code /\ code[1] = h
        /\ \A i \in DOMAIN rest : i + 1 \in DOMAIN code /\ rest[i] = code[i + 1] /\ i + 1 # 1
        /\ \A i, j \in DOMAIN rest : i + 1 = j + 1 => i = j
    BY <2>1
  <2>3. Cur' = Cur /\ FreshCode
    BY <1>o, <2>1 DEF Cur
  <2>4. \A e \in Depths(unit) : e >= h.depth + 1 => \A s \in SitesAt(unit, e) :
           s \notin awaitCallbacks[Cur] /\ \A j \in DOMAIN rest : rest[j].item # [kind |-> "await", of |-> s]
    <3> SUFFICES ASSUME NEW e \in Depths(unit), e >= h.depth + 1, NEW s \in SitesAt(unit, e)
                 PROVE  s \notin awaitCallbacks[Cur] /\ \A j \in DOMAIN rest : rest[j].item # [kind |-> "await", of |-> s]
      OBVIOUS
    <3>1. e > code[1].depth
      BY <2>1, <2>2 DEF Depths
    <3>2. s \notin awaitCallbacks[Cur] /\ \A j \in DOMAIN code : code[j].item # [kind |-> "await", of |-> s]
      BY <2>1, <2>2, <2>3, <3>1 DEF FreshCode, FreshIn
    <3> QED BY <2>2, <3>2
  <2>5. ASSUME NEW i \in DOMAIN rest
        PROVE  /\ rest[i].item # Placeholder
               /\ rest[i].item.kind = "await" =>
                     /\ rest[i].item.of \notin awaitCallbacks[Cur]
                     /\ \A j \in DOMAIN rest : rest[j].item = rest[i].item => i = j
    <3>1. \A j \in DOMAIN code : code[j].item = Placeholder => 1 = j
      BY <2>1, <2>2, <2>3 DEF FreshCode, FreshIn
    <3>2. rest[i].item.kind = "await" =>
             /\ rest[i].item.of \notin awaitCallbacks[Cur]
             /\ \A j \in DOMAIN code : code[j].item = rest[i].item => i + 1 = j
      BY <2>2, <2>3 DEF FreshCode, FreshIn
    <3> QED BY <2>2, <3>1, <3>2
  <2> HIDE DEF h, rest
  <2>6. FreshCode'
    <3>1. FreshBehind(rest, unit, h.depth + 1, awaitCallbacks[Cur])
      BY <2>4, <2>5 DEF FreshBehind
    <3>2. FreshIn(code', unit', awaitCallbacks'[Cur'])
      BY <1>0, <2>1, <2>3, <3>1, FreshOpen
    <3> QED BY <1>f, <3>2 DEF FreshCode
  <2>7. unit' \in Started(Cur)'
    BY <1>0, <1>o, <1>g, <2>1, <2>3 DEF Started
  <2>8. pc # "compileContract"
    BY <1>0, <2>1 DEF DriverInv
  <2> QED BY <1>o, <1>q, <1>k, <2>1, <2>6, <2>7, <2>8
<1>3. CASE FinishUnit
  <2>1. unit # None /\ unit' = None /\ pc' = After(pc) /\ awaitCallbacks' = awaitCallbacks
    BY <1>3 DEF FinishUnit
  <2>2. pc # "compileContract" /\ pc \in {"initializers", "constructor", "missingCreation",
                              "missingRuntime", "receive", "fallback"}
    BY <1>0, <1>o, <2>1 DEF DriverInv
  <2>3. pc' \notin {"unbalanced", "compileContract", "initializers"}
    BY <2>1, <2>2 DEF After
  <2> QED BY <1>q, <1>k, <2>1, <2>3
<1>4. CASE StartUnit
  <2>1. /\ unit = None /\ unit' \in Units /\ unit' # None /\ code' = Block(unit', 0) /\ 0 \in Depths(unit')
        /\ UNCHANGED <<contract, pc, awaitCallbacks>>
    BY <1>0, <1>4, StartFacts
  <2>2. /\ Cur' = Cur /\ unit' \in Started(Cur)'
        /\ \A d \in Depths(unit') : SitesAt(unit', d) \cap awaitCallbacks[Cur] = {}
    BY <1>0, <1>4, StartFresh
  <2>3. FreshCode'
    <3> DEFINE v == unit'
    <3>1. v \in Units /\ 0 \in Depths(v) /\ code' = Block(v, 0)
      BY <2>1
    <3>2. \A e \in Depths(v) : \A s \in SitesAt(v, e) : s \notin awaitCallbacks[Cur]
      BY <2>2
    <3> HIDE DEF v
    <3>3. code' = Block(v, 0) \o <<>> /\ <<>> \in Seq(CodeItems) /\ DOMAIN <<>> = {}
      BY <1>0, <3>1, BlockFacts
    <3>4. FreshBehind(<<>>, v, 0, awaitCallbacks[Cur])
      BY <3>2, <3>3 DEF FreshBehind
    <3>5. FreshIn(code', v, awaitCallbacks'[Cur'])
      BY <1>0, <2>1, <2>2, <3>1, <3>3, <3>4, FreshOpen
    <3> QED BY <1>f, <3>5 DEF FreshCode, v
  <2> QED BY <1>0, <1>o, <1>q, <1>k, <2>1, <2>2, <2>3
<1>5. CASE Between /\ Drive
  <2>1. unit = None /\ unit' = None /\ awaitCallbacks' = awaitCallbacks
    BY <1>5 DEF Between
  <2>2. /\ pc' # "unbalanced"
        /\ pc' \in {"compileContract", "initializers"} => pc \in {"compileContract", "initializers"}
    BY <1>o, <1>5 DEF Drive, Between, CompileContract, CompileInitializers, CompileConstructor, SkipCompiled,
       CompileNextFunction, NoMissingFunction, GenerateLowLevel, NoMissingLowLevel,
       AppendFunctionSelector, CompileSpecial, NoSpecial, AppendUnpackers, Assemble, After
  <2> QED BY <1>o, <1>q, <1>k, <2>1, <2>2
<1>6. CASE UNCHANGED vars
  <2>1. UNCHANGED <<unit, pc, code, contract, alreadyCompiled, awaitCallbacks>>
    BY <1>6 DEF vars, queueVars
  <2>2. Cur' = Cur
    BY <2>1 DEF Cur
  <2>3. FreshCode' <=> FreshCode
    BY <1>f, <2>1, <2>2 DEF FreshCode
  <2>4. unit # None => unit' \in Started(Cur)'
    BY <1>0, <1>o, <1>g, <2>1, <2>2 DEF Started
  <2> QED BY <1>o, <1>q, <1>k, <2>1, <2>3, <2>4
<1> QED BY <1>0, <1>1, <1>2, <1>3, <1>4, <1>5, <1>6, StepKinds

\* The invariant of awaited calls holds in every reachable state.
THEOREM AwaitsInductive == Spec => []AwaitOnceInv
<1>1. Init => AwaitOnceInv
  BY DEF Init, AwaitOnceInv, Contexts
<1>2. IInv /\ RInv /\ AwaitOnceInv /\ [Next]_vars => AwaitOnceInv'
  BY AwaitOnceStep DEF RInv
<1> QED BY <1>1, <1>2, Inductive, ReachInductive, PTL DEF Spec

\* addCallbackDest meets a call node a second time in one context only if a
\* modifier repeats it: the stack height check fails for no other contract.
THEOREM GivesUpForModifiersOnly == Spec => []FailsOnlyOnSharedAwait
<1>1. AwaitOnceInv => FailsOnlyOnSharedAwait
  BY DEF AwaitOnceInv, FailsOnlyOnSharedAwait, Shared
<1> QED BY <1>1, AwaitsInductive, PTL

=============================================================================
