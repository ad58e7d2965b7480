----------------------- MODULE ContractCodegenProofs -----------------------
(***************************************************************************)
(* For every contract: the compilation queue never loses or repeats a      *)
(* function, up to the point where the selector is emitted.                *)
(***************************************************************************)
EXTENDS ContractCodegen, TLAPS

CodeItems == [item : Items \cup {Placeholder}, depth : Nat]

\* The block emitted by appendModifierOrFunctionCode is a sequence of items.
LEMMA BlockType ==
  ASSUME contract \in Contracts, NEW u \in Units, NEW d \in Nat
  PROVE  Block(u, d) \in Seq(CodeItems)
<1> DEFINE mods == contract.modifiers[u]
           items == IF d < Len(mods) THEN contract.modBody[mods[d + 1]]
                                     ELSE contract.body[u]
<1>1. contract \in Contract
  BY ContractsAssumption
<1>2. mods \in Seq(Modifiers) /\ contract.body[u] \in Seq(Items \cup {Placeholder})
  BY <1>1 DEF Contract
<1>3. ASSUME d < Len(mods) PROVE contract.modBody[mods[d + 1]] \in Seq(Items \cup {Placeholder})
  <2>1. mods[d + 1] \in Modifiers
    BY <1>2, <1>3
  <2> QED BY <1>1, <2>1 DEF Contract
<1>4. items \in Seq(Items \cup {Placeholder})
  BY <1>2, <1>3
<1>5. \A i \in 1..Len(items) : [item |-> items[i], depth |-> d] \in CodeItems
  BY <1>4 DEF CodeItems
<1>6. [i \in 1..Len(items) |-> [item |-> items[i], depth |-> d]] \in Seq(CodeItems)
  <2> HIDE DEF items, CodeItems
  <2> QED BY <1>4, <1>5
<1> QED BY <1>6 DEF Block

\* The entry queue stays a queue of declarations.
LEMMA DequeuedType ==
  ASSUME TypeOK, NEW c \in Contexts, NEW d \in Decls
  PROVE  Dequeued(c, d) \in Seq(Decls)
BY DEF TypeOK, Dequeued

\* What the next item of a body refers to has the type its kind says.
LEMMA ItemType ==
  ASSUME TypeOK, code # <<>>
  PROVE  /\ Head(code) \in CodeItems
         /\ Tail(code) \in Seq(CodeItems)
         /\ Head(code).item.kind \in {"call", "value"} => Head(code).item.of \in Functions
         /\ Head(code).item.kind = "await" => Head(code).item.of \in Sites
         /\ Head(code).item.kind = "low" => Head(code).item.of \in LowLevel
<1>1. code \in Seq(CodeItems)
  BY DEF TypeOK, CodeItems
<1>2. Head(code) \in CodeItems /\ Tail(code) \in Seq(CodeItems)
  BY <1>1
<1>3. Head(code).item \in Items \cup {Placeholder}
  BY <1>2 DEF CodeItems
<1> QED BY <1>2, <1>3 DEF Items, Placeholder

\* Type correctness of the initial state.
LEMMA TypeInit == Init => TypeOK
BY DEF Init, TypeOK, Steps

\* startFunction keeps the types.
LEMMA StartFunctionType ==
  ASSUME TypeOK, NEW c \in Contexts, NEW d \in Decls, StartFunction(c, d),
         UNCHANGED <<contract, pc, awaitCallbacks, lowVars, pushed, dispatched>>
  PROVE  TypeOK'
<1>1. Dequeued(c, d) \in Seq(Decls) /\ Append(Dequeued(c, d), d) \in Seq(Decls)
  BY DequeuedType
<1>2. d \in Units
  BY DEF Units
<1>3. code' \in Seq(CodeItems)
  BY <1>2, BlockType DEF StartFunction, TypeOK
<1>4. functionsToCompile' \in [Contexts -> Seq(Decls)]
  BY <1>1 DEF StartFunction, TypeOK
<1>5. FunTag(d) \in Tags
  BY DEF Tags, FunTag
<1>6. placed' \in [Contexts -> SUBSET Tags] /\ placedTwice' \in [Contexts -> SUBSET Tags]
  BY <1>5 DEF StartFunction, Place, TypeOK
<1> QED BY <1>2, <1>3, <1>4, <1>6 DEF StartFunction, TypeOK, CodeItems, lowVars

\* Every step of the compiler keeps the types.
LEMMA TypeStep == TypeOK /\ [Next]_vars => TypeOK'
<1> SUFFICES ASSUME TypeOK, [Next]_vars PROVE TypeOK'
  OBVIOUS
<1> USE DEF queueVars, lowVars, tagVars
<1>0. Cur \in Contexts /\ None \notin Units
  BY NamesAssumption DEF Cur, Contexts, None, Units, Decls, Special, Constructor,
     Receive, Fallback, Initializers
<1>c. contract \in Contract
  BY ContractsAssumption DEF TypeOK
<1>1. CASE CompileCall
  <2>1. Head(code).item.of \in Functions /\ Tail(code) \in Seq(CodeItems)
    BY <1>1, ItemType DEF CompileCall, NextItem
  <2>2. Head(code).item.of \in Decls /\ FunTag(Head(code).item.of) \in Tags
    BY <2>1 DEF Decls, Tags, FunTag
  <2> QED BY <1>0, <1>1, <2>1, <2>2 DEF CompileCall, NextItem, EntryLabel, Push, TypeOK, CodeItems
<1>2. CASE CompileValue
  <2>1. Head(code).item.of \in Functions /\ Tail(code) \in Seq(CodeItems)
    BY <1>2, ItemType DEF CompileValue, NextItem
  <2>2. Head(code).item.of \in Decls /\ FunTag(Head(code).item.of) \in Tags
    BY <2>1 DEF Decls, Tags, FunTag
  <2> QED BY <1>0, <1>2, <2>1, <2>2 DEF CompileValue, NextItem, EntryLabel, Push, TypeOK, CodeItems
<1>3. CASE CompileAwait
  <2>1. Head(code).item.of \in Sites /\ Tail(code) \in Seq(CodeItems)
    BY <1>3, ItemType DEF CompileAwait, NextItem
  <2>2. CallTag(Head(code).item.of) \in Tags
    BY <2>1 DEF Tags, CallTag
  <2>3. CASE Head(code).item.of \in awaitCallbacks[Cur]
    BY <1>3, <2>1, <2>3
       DEF CompileAwait, AddCallbackDest, NextItem, TypeOK, CodeItems, Steps, Ended
  <2>4. CASE Head(code).item.of \notin awaitCallbacks[Cur]
    <3>1. /\ awaitCallbacks' = [awaitCallbacks EXCEPT ![Cur] = @ \cup {Head(code).item.of}]
          /\ Place(Cur, CallTag(Head(code).item.of))
          /\ pc' = pc
      BY <1>3, <2>4 DEF CompileAwait, AddCallbackDest
    <3>2. awaitCallbacks' \in [Contexts -> SUBSET Sites]
      BY <1>0, <2>1, <3>1 DEF TypeOK
    <3>3. placed' \in [Contexts -> SUBSET Tags] /\ placedTwice' \in [Contexts -> SUBSET Tags]
      BY <1>0, <2>2, <3>1 DEF Place, TypeOK
    <3> QED BY <1>3, <2>1, <3>1, <3>2, <3>3 DEF CompileAwait, NextItem, TypeOK, CodeItems
  <2> QED BY <2>3, <2>4
<1>4. CASE CompileLowLevel
  <2>1. Head(code).item.of \in LowLevel /\ Tail(code) \in Seq(CodeItems)
    BY <1>4, ItemType DEF CompileLowLevel, NextItem
  <2>2. LowTag(Head(code).item.of) \in Tags
    BY <2>1 DEF Tags, LowTag
  <2> QED BY <1>0, <1>4, <2>1, <2>2 DEF CompileLowLevel, NextItem, Push, TypeOK, CodeItems
<1>5. CASE CompilePlaceholder
  <2>1. Head(code) \in CodeItems /\ Tail(code) \in Seq(CodeItems) /\ unit \in Units
    BY <1>5, ItemType DEF CompilePlaceholder, TypeOK
  <2>2. Head(code).depth + 1 \in Nat
    BY <2>1 DEF CodeItems
  <2>3. Block(unit, Head(code).depth + 1) \in Seq(CodeItems)
    BY <2>1, <2>2, BlockType DEF TypeOK
  <2> QED BY <1>5, <2>1, <2>3 DEF CompilePlaceholder, TypeOK, CodeItems
<1>6. CASE FinishUnit
  BY <1>6 DEF FinishUnit, TypeOK, After, Steps, CreationSteps, RuntimeSteps
<1>7. CASE CompileContract
  <2>1. contract.interface \in Seq(Functions)
    BY <1>c DEF Contract
  <2>2. contract.interface \in Seq(Decls) /\ RangeOf(contract.interface) \subseteq Decls
    BY <2>1 DEF Decls, RangeOf
  <2>3. SelectorTag \in Tags
    BY DEF Tags
  <2> QED BY <1>7, <2>2, <2>3 DEF CompileContract, Push, TypeOK, Steps, CreationSteps, Contexts
<1>8. CASE CompileInitializers
  BY <1>8, BlockType DEF CompileInitializers, TypeOK, Units, CodeItems
<1>9. CASE CompileConstructor
  BY <1>9, StartFunctionType DEF CompileConstructor, Contexts, Decls, Special
<1>10. CASE SkipCompiled
  BY <1>0, <1>10 DEF SkipCompiled, TypeOK
<1>11. CASE CompileNextFunction
  <2>1. Head(functionsToCompile[Cur]) \in Decls
    BY <1>0, <1>11 DEF CompileNextFunction, TypeOK
  <2> QED BY <1>0, <1>11, <2>1, StartFunctionType DEF CompileNextFunction
<1>12. CASE NoMissingFunction
  BY <1>12 DEF NoMissingFunction, TypeOK, Steps, CreationSteps, RuntimeSteps
<1>13. CASE GenerateLowLevel
  <2>1. PICK n \in lowLevelQueue[Cur] : GenerateLowLevel!(n)
    BY <1>13 DEF GenerateLowLevel
  <2>2. n \in LowLevel /\ contract.generator[n] \in SUBSET LowLevel
    BY <1>0, <1>c, <2>1 DEF TypeOK, Contract
  <2>3. LowTag(n) \in Tags /\ {LowTag(m) : m \in contract.generator[n]} \subseteq Tags
    BY <2>2 DEF LowTag, Tags
  <2> QED BY <1>0, <2>1, <2>2, <2>3 DEF Place, Push, TypeOK
<1>14. CASE NoMissingLowLevel
  BY <1>14 DEF NoMissingLowLevel, TypeOK, Steps, RuntimeSteps
<1>15. CASE AppendFunctionSelector
  <2>1. dispatched' \subseteq Sites
    BY <1>15 DEF AppendFunctionSelector, TypeOK, Contexts
  <2>2. SelectorTag \in Tags /\ {CallTag(s) : s \in dispatched'} \subseteq Tags
    BY <2>1 DEF CallTag, Tags
  <2> QED BY <1>15, <2>1, <2>2 DEF AppendFunctionSelector, Place, Push, TypeOK, Steps, RuntimeSteps, Contexts
<1>16. CASE CompileSpecial
  BY <1>16, StartFunctionType DEF CompileSpecial, Contexts, Decls, Special, Receive, Fallback
<1>17. CASE NoSpecial
  BY <1>17 DEF NoSpecial, TypeOK, After, Steps, CreationSteps, RuntimeSteps
<1>18. CASE AppendUnpackers
  <2>1. RangeOf(contract.interface) \subseteq Decls
    <3>1. contract.interface \in Seq(Functions)
      BY <1>c DEF Contract
    <3> QED BY <3>1 DEF RangeOf, Decls
  <2>2. awaitCallbacks["runtime"] \subseteq Sites
    BY DEF TypeOK, Contexts
  <2>3. {FunTag(f) : f \in RangeOf(contract.interface)}
           \cup {CallTag(s) : s \in awaitCallbacks["runtime"]} \subseteq Tags
    BY <2>1, <2>2 DEF FunTag, CallTag, Tags
  <2> QED BY <1>18, <2>3 DEF AppendUnpackers, Push, TypeOK, Steps
<1>19. CASE Assemble
  BY <1>19 DEF Assemble, TypeOK, Steps, Ended
<1>20. CASE UNCHANGED vars
  BY <1>20 DEF vars, TypeOK
<1> QED
  BY <1>1, <1>2, <1>3, <1>4, <1>5, <1>6, <1>7, <1>8, <1>9, <1>10, <1>11, <1>12,
     <1>13, <1>14, <1>15, <1>16, <1>17, <1>18, <1>19, <1>20
     DEF Next, Step, Compile, Drive, Finished

\* The state of the two contexts and of the driver keeps its types, whatever
\* contract is compiled.
THEOREM TypeCorrect == Spec => []TypeOK
BY TypeInit, TypeStep, PTL DEF Spec

\* Tags of different kinds differ, and a tag determines what it stands for.
LEMMA TagFacts ==
  /\ \A d, e : FunTag(d) = FunTag(e) => d = e
  /\ \A s, t : CallTag(s) = CallTag(t) => s = t
  /\ \A n, m : LowTag(n) = LowTag(m) => n = m
  /\ \A d, s : FunTag(d) # CallTag(s)
  /\ \A d, n : FunTag(d) # LowTag(n)
  /\ \A s, n : CallTag(s) # LowTag(n)
  /\ \A d : FunTag(d) # SelectorTag
  /\ \A s : CallTag(s) # SelectorTag
  /\ \A n : LowTag(n) # SelectorTag
BY DEF FunTag, CallTag, LowTag, SelectorTag

\* Removing the head of a queue removes no other element, ...
LEMMA RangeTail ==
  ASSUME NEW D, NEW q \in Seq(D), q # <<>>
  PROVE  RangeOf(q) = {Head(q)} \cup RangeOf(Tail(q))
<1>0. Head(q) \in RangeOf(q) /\ RangeOf(Tail(q)) \subseteq RangeOf(q)
  <2>1. 1 \in DOMAIN q /\ q[1] = Head(q)
    OBVIOUS
  <2>2. \A i \in DOMAIN Tail(q) : i + 1 \in DOMAIN q /\ Tail(q)[i] = q[i + 1]
    OBVIOUS
  <2> QED BY <2>1, <2>2 DEF RangeOf
<1> SUFFICES ASSUME NEW i \in 1..Len(q) PROVE q[i] = Head(q) \/ q[i] \in RangeOf(Tail(q))
  BY <1>0 DEF RangeOf
<1>1. CASE i = 1
  BY <1>1
<1>2. CASE i # 1
  <2>1. i - 1 \in 1..Len(Tail(q)) /\ Tail(q)[i - 1] = q[i]
    BY <1>2
  <2>2. DOMAIN Tail(q) = 1..Len(Tail(q))
    OBVIOUS
  <2> QED BY <2>1, <2>2 DEF RangeOf
<1> QED BY <1>1, <1>2

\* ... and appending adds the new element only.
LEMMA RangeAppend ==
  ASSUME NEW D, NEW q \in Seq(D), NEW x \in D
  PROVE  RangeOf(Append(q, x)) = RangeOf(q) \cup {x}
<1>1. \A i \in 1..Len(q) : Append(q, x)[i] = q[i]
  OBVIOUS
<1>2. Append(q, x)[Len(q) + 1] = x /\ DOMAIN Append(q, x) = 1..(Len(q) + 1)
  OBVIOUS
<1>3. DOMAIN q = 1..Len(q) /\ Len(q) \in Nat
  OBVIOUS
<1> QED BY <1>1, <1>2, <1>3 DEF RangeOf

\* entryLabel keeps every labelled function compiled or queued.
LEMMA EntryLabelQueued ==
  ASSUME TypeOK, QueueInv, NEW cs \in SUBSET Contexts, NEW d \in Decls, EntryLabel(cs, d),
         alreadyCompiled' = alreadyCompiled
  PROVE  \A c \in Contexts :
           entryLabels'[c] = alreadyCompiled'[c] \cup RangeOf(functionsToCompile'[c])
<1> SUFFICES ASSUME NEW c \in Contexts
             PROVE  entryLabels'[c] = alreadyCompiled'[c] \cup RangeOf(functionsToCompile'[c])
  OBVIOUS
<1>1. CASE c \in cs /\ d \notin entryLabels[c]
  <2>1. RangeOf(functionsToCompile'[c]) = RangeOf(functionsToCompile[c]) \cup {d}
    BY <1>1, RangeAppend DEF EntryLabel, TypeOK
  <2> QED BY <1>1, <2>1 DEF EntryLabel, QueueInv
<1>2. CASE ~(c \in cs /\ d \notin entryLabels[c])
  BY <1>2 DEF EntryLabel, QueueInv
<1> QED BY <1>1, <1>2

\* startFunction removes from the queue only the function it starts.
LEMMA StartFunctionQueue ==
  ASSUME TypeOK, QueueInv, NEW c \in Contexts, NEW d \in Decls, StartFunction(c, d),
         pushed' = pushed
  PROVE  QueueInv'
<1>1. RangeOf(functionsToCompile[c]) \cup {d} = {d} \cup RangeOf(Dequeued(c, d))
  BY RangeTail DEF Dequeued, TypeOK
<1>2. Dequeued(c, d) \in Seq(Decls)
  BY DequeuedType
<1>3. RangeOf(functionsToCompile[c]) \cup {d} = {d} \cup RangeOf(functionsToCompile'[c])
  BY <1>1, <1>2, RangeAppend DEF StartFunction, TypeOK
<1>4. /\ \A b \in Contexts : b # c => /\ functionsToCompile'[b] = functionsToCompile[b]
                                     /\ entryLabels'[b] = entryLabels[b]
                                     /\ alreadyCompiled'[b] = alreadyCompiled[b]
                                     /\ placed'[b] = placed[b]
      /\ entryLabels'[c] = entryLabels[c] \cup {d}
      /\ alreadyCompiled'[c] = alreadyCompiled[c] \cup {d}
      /\ placed'[c] = placed[c] \cup {FunTag(d)}
  BY DEF StartFunction, Place, TypeOK
<1> SUFFICES ASSUME NEW b \in Contexts PROVE QueueInv!(b)'
  BY DEF QueueInv
<1>5. CASE b = c
  BY <1>3, <1>4, <1>5, TagFacts DEF QueueInv
<1>6. CASE b # c
  BY <1>4, <1>6 DEF QueueInv
<1> QED BY <1>5, <1>6

\* What placing and pushing tags does to the sets of tags.
LEMMA PlaceEffect ==
  ASSUME TypeOK, NEW c \in Contexts, NEW t, Place(c, t)
  PROVE  \A b \in Contexts : \A x : x \in placed'[b] <=> x \in placed[b] \/ (b = c /\ x = t)
BY DEF Place, TypeOK

LEMMA PushEffect ==
  ASSUME NEW cs, NEW ts, Push(cs, ts)
  PROVE  \A b \in Contexts : \A x : x \in pushed'[b] <=> x \in pushed[b] \/ (b \in cs /\ x \in ts)
BY DEF Push

\* A step that leaves the queue and the function tags alone keeps QueueInv.
LEMMA QueueFrame ==
  ASSUME QueueInv, UNCHANGED queueVars,
         \A c \in Contexts, d \in Decls :
            /\ FunTag(d) \in placed'[c] <=> FunTag(d) \in placed[c]
            /\ FunTag(d) \in pushed'[c] => FunTag(d) \in pushed[c] \/ d \in entryLabels[c],
         TypeOK
  PROVE  QueueInv'
BY DEF QueueInv, queueVars, TypeOK

LEMMA QueueStep == TypeOK /\ QueueInv /\ DriverInv /\ [Next]_vars => QueueInv'
<1> SUFFICES ASSUME TypeOK, QueueInv, DriverInv, [Next]_vars PROVE QueueInv'
  OBVIOUS
<1> USE DEF queueVars, tagVars
<1>0. Cur \in Contexts /\ "creation" \in Contexts /\ "runtime" \in Contexts
  BY DEF Cur, Contexts
<1>1. ASSUME NEW cs \in SUBSET Contexts, NEW f \in Functions, EntryLabel(cs, f),
             Push(cs, {FunTag(f)}), UNCHANGED <<alreadyCompiled, placed>>
      PROVE  QueueInv'
  <2>1. f \in Decls
    BY DEF Decls
  <2>2. \A c \in Contexts :
           entryLabels'[c] = alreadyCompiled'[c] \cup RangeOf(functionsToCompile'[c])
    BY <1>1, <2>1, EntryLabelQueued
  <2>3. \A c \in Contexts, d \in Decls : FunTag(d) \in pushed'[c] => d \in entryLabels'[c]
    BY <1>1, PushEffect, TagFacts DEF EntryLabel, QueueInv
  <2> QED BY <1>1, <2>2, <2>3 DEF QueueInv
<1>2. CASE CompileCall
  BY <1>0, <1>1, <1>2, ItemType DEF CompileCall, NextItem
<1>3. CASE CompileValue
  BY <1>0, <1>1, <1>3, ItemType DEF CompileValue, NextItem, Contexts
<1>4. CASE CompileAwait
  <2>1. CASE Head(code).item.of \in awaitCallbacks[Cur]
    BY <1>4, <2>1, QueueFrame DEF CompileAwait, AddCallbackDest, NextItem
  <2>2. CASE Head(code).item.of \notin awaitCallbacks[Cur]
    <3>1. Place(Cur, CallTag(Head(code).item.of))
      BY <1>4, <2>2 DEF CompileAwait, AddCallbackDest
    <3> QED BY <1>0, <1>4, <3>1, PlaceEffect, TagFacts, QueueFrame DEF CompileAwait, NextItem
  <2> QED BY <2>1, <2>2
<1>5. CASE CompileLowLevel
  <2>1. Push({Cur}, {LowTag(Head(code).item.of)})
    BY <1>5 DEF CompileLowLevel
  <2> QED BY <1>5, <2>1, PushEffect, TagFacts, QueueFrame DEF CompileLowLevel, NextItem
<1>6. CASE CompileContract
  <2>1. Push({"runtime"}, {SelectorTag})
    BY <1>6 DEF CompileContract
  <2>2. \A c \in Contexts, d \in Decls : FunTag(d) \notin pushed'[c] /\ FunTag(d) \notin placed'[c]
    BY <1>6, <2>1, PushEffect, TagFacts DEF CompileContract, DriverInv
  <2>3. \A c \in Contexts : entryLabels'[c] = RangeOf(functionsToCompile'[c])
    BY <1>6 DEF CompileContract, DriverInv, TypeOK, Contexts, RangeOf
  <2>4. \A c \in Contexts : alreadyCompiled'[c] = {}
    BY <1>6 DEF CompileContract, DriverInv
  <2> QED BY <2>2, <2>3, <2>4 DEF QueueInv
<1>7. CASE SkipCompiled
  <2>1. RangeOf(functionsToCompile[Cur])
           = {Head(functionsToCompile[Cur])} \cup RangeOf(Tail(functionsToCompile[Cur]))
    BY <1>0, <1>7, RangeTail DEF SkipCompiled, TypeOK
  <2>2. \A c \in Contexts :
           entryLabels[c] = alreadyCompiled[c] \cup RangeOf(functionsToCompile'[c])
    BY <1>0, <1>7, <2>1 DEF SkipCompiled, TypeOK, QueueInv
  <2> QED BY <1>7, <2>2 DEF SkipCompiled, QueueInv
<1>8. CASE CompileConstructor
  BY <1>0, <1>8, StartFunctionQueue DEF CompileConstructor, Decls, Special
<1>9. CASE CompileNextFunction
  <2>1. Head(functionsToCompile[Cur]) \in Decls
    BY <1>0, <1>9 DEF CompileNextFunction, TypeOK
  <2> QED BY <1>0, <1>9, <2>1, StartFunctionQueue DEF CompileNextFunction
<1>10. CASE CompileSpecial
  <2>1. pc \in Decls
    BY <1>10 DEF CompileSpecial, Decls, Special, Receive, Fallback
  <2> QED BY <1>0, <1>10, <2>1, StartFunctionQueue DEF CompileSpecial
<1>11. CASE GenerateLowLevel
  <2>1. PICK n \in lowLevelQueue[Cur] : GenerateLowLevel!(n)
    BY <1>11 DEF GenerateLowLevel
  <2>2. Push({Cur}, {LowTag(m) : m \in contract.generator[n]}) /\ Place(Cur, LowTag(n))
    BY <2>1
  <2> QED BY <1>0, <2>1, <2>2, PushEffect, PlaceEffect, TagFacts, QueueFrame
<1>12. CASE AppendFunctionSelector
  <2>1. Push({"runtime"}, {CallTag(s) : s \in dispatched'}) /\ Place("runtime", SelectorTag)
    BY <1>12 DEF AppendFunctionSelector
  <2> QED BY <1>0, <1>12, <2>1, PushEffect, PlaceEffect, TagFacts, QueueFrame
          DEF AppendFunctionSelector
<1>13. CASE AppendUnpackers
  <2>1. \A c \in Contexts, d \in Decls :
           FunTag(d) \in pushed'[c] => FunTag(d) \in pushed[c] \/ d \in entryLabels[c]
    <3>1. Push({"runtime"}, {FunTag(f) : f \in RangeOf(contract.interface)}
                           \cup {CallTag(s) : s \in awaitCallbacks["runtime"]})
      BY <1>13 DEF AppendUnpackers
    <3>2. RangeOf(contract.interface) \subseteq entryLabels["runtime"]
      BY <1>13 DEF AppendUnpackers, DriverInv
    <3> QED BY <3>1, <3>2, PushEffect, TagFacts
  <2> QED BY <1>13, <2>1, QueueFrame DEF AppendUnpackers
<1>14. CASE UNCHANGED <<queueVars, tagVars>>
  BY <1>14 DEF QueueInv
<1>15. CASE CompilePlaceholder \/ FinishUnit \/ CompileInitializers \/ NoMissingFunction
              \/ NoMissingLowLevel \/ NoSpecial \/ Assemble \/ UNCHANGED vars
  BY <1>14, <1>15 DEF CompilePlaceholder, FinishUnit, CompileInitializers, NoMissingFunction,
     NoMissingLowLevel, NoSpecial, Assemble, vars
<1> QED
  BY <1>2, <1>3, <1>4, <1>5, <1>6, <1>7, <1>8, <1>9, <1>10, <1>11, <1>12, <1>13, <1>15
     DEF Next, Step, Compile, Drive, Finished

\* A step that leaves the low-level functions and their tags alone.
LEMMA LowLevelFrame ==
  ASSUME LowLevelInv, TypeOK, UNCHANGED lowVars,
         \A c \in Contexts, n \in LowLevel :
            /\ LowTag(n) \in placed'[c] <=> LowTag(n) \in placed[c]
            /\ LowTag(n) \in pushed'[c] => LowTag(n) \in pushed[c]
  PROVE  LowLevelInv'
BY DEF LowLevelInv, lowVars, TypeOK

LEMMA LowLevelStep == TypeOK /\ LowLevelInv /\ [Next]_vars => LowLevelInv'
<1> SUFFICES ASSUME TypeOK, LowLevelInv, [Next]_vars PROVE LowLevelInv'
  OBVIOUS
<1> USE DEF lowVars, tagVars
<1>0. Cur \in Contexts /\ "creation" \in Contexts /\ "runtime" \in Contexts
  BY DEF Cur, Contexts
<1>1. ASSUME NEW c \in Contexts, NEW d, StartFunction(c, d), UNCHANGED <<lowVars, pushed>>
      PROVE  LowLevelInv'
  <2>1. Place(c, FunTag(d))
    BY <1>1 DEF StartFunction
  <2> QED BY <1>1, <2>1, PlaceEffect, TagFacts, LowLevelFrame
<1>2. CASE CompileCall
  <2>1. Push({Cur}, {FunTag(Head(code).item.of)})
    BY <1>2 DEF CompileCall
  <2> QED BY <1>2, <2>1, PushEffect, TagFacts, LowLevelFrame DEF CompileCall
<1>3. CASE CompileValue
  <2>1. PICK cs : Push(cs, {FunTag(Head(code).item.of)})
    BY <1>3 DEF CompileValue
  <2> QED BY <1>3, <2>1, PushEffect, TagFacts, LowLevelFrame DEF CompileValue
<1>4. CASE CompileAwait
  <2>1. CASE Head(code).item.of \in awaitCallbacks[Cur]
    BY <1>4, <2>1, LowLevelFrame DEF CompileAwait, AddCallbackDest
  <2>2. CASE Head(code).item.of \notin awaitCallbacks[Cur]
    <3>1. Place(Cur, CallTag(Head(code).item.of))
      BY <1>4, <2>2 DEF CompileAwait, AddCallbackDest
    <3> QED BY <1>0, <1>4, <3>1, PlaceEffect, TagFacts, LowLevelFrame DEF CompileAwait
  <2> QED BY <2>1, <2>2
<1>5. CASE CompileLowLevel
  <2> DEFINE n == Head(code).item.of
  <2>1. Push({Cur}, {LowTag(n)}) /\ UNCHANGED placed
    BY <1>5 DEF CompileLowLevel
  <2>2. n \in LowLevel
    BY <1>5, ItemType DEF CompileLowLevel, NextItem
  <2>3. \A c \in Contexts :
          /\ lowLevelFunctions'[c] = lowLevelFunctions[c] \cup (IF c = Cur THEN {n} ELSE {})
          /\ lowLevelQueue'[c] = lowLevelQueue[c]
                \cup (IF c = Cur THEN {n} \ lowLevelFunctions[c] ELSE {})
    BY <1>0, <1>5 DEF CompileLowLevel, TypeOK
  <2>4. \A c \in Contexts, m \in LowLevel :
           LowTag(m) \in pushed'[c] => LowTag(m) \in pushed[c] \/ (c = Cur /\ m = n)
    BY <2>1, PushEffect, TagFacts
  <2> HIDE DEF n
  <2> QED BY <2>1, <2>2, <2>3, <2>4 DEF LowLevelInv
<1>6. CASE GenerateLowLevel
  <2>1. PICK n \in lowLevelQueue[Cur] : GenerateLowLevel!(n)
    BY <1>6 DEF GenerateLowLevel
  <2> DEFINE uses == contract.generator[n]
  <2>2. Push({Cur}, {LowTag(m) : m \in uses}) /\ Place(Cur, LowTag(n))
    BY <2>1
  <2>3. uses \subseteq LowLevel /\ n \in LowLevel
    <3>1. contract \in Contract
      BY ContractsAssumption DEF TypeOK
    <3> QED BY <1>0, <2>1, <3>1 DEF TypeOK, Contract
  <2>4. \A c \in Contexts :
          /\ lowLevelFunctions'[c] = lowLevelFunctions[c] \cup (IF c = Cur THEN uses ELSE {})
          /\ lowLevelQueue'[c] =
                IF c = Cur THEN (lowLevelQueue[c] \ {n}) \cup (uses \ lowLevelFunctions[c])
                           ELSE lowLevelQueue[c]
    BY <1>0, <2>1 DEF TypeOK
  <2>5. \A c \in Contexts, m \in LowLevel :
          /\ LowTag(m) \in pushed'[c] => LowTag(m) \in pushed[c] \/ (c = Cur /\ m \in uses)
          /\ LowTag(m) \in placed'[c] <=> LowTag(m) \in placed[c] \/ (c = Cur /\ m = n)
    BY <1>0, <2>2, PushEffect, PlaceEffect, TagFacts
  <2> HIDE DEF uses
  <2> SUFFICES ASSUME NEW c \in Contexts PROVE LowLevelInv!(c)'
    BY DEF LowLevelInv
  <2>6. LowLevelInv!(c) /\ lowLevelFunctions[c] \subseteq LowLevel
    BY DEF LowLevelInv, TypeOK
  <2>7. \A m \in LowLevel : LowTag(m) \in pushed'[c] => m \in lowLevelFunctions'[c]
    BY <2>4, <2>5, <2>6
  <2>8. lowLevelQueue'[c] \subseteq lowLevelFunctions'[c]
    BY <2>4, <2>6
  <2>9. ASSUME NEW m \in lowLevelFunctions'[c]
        PROVE  m \in lowLevelQueue'[c] \/ LowTag(m) \in placed'[c]
    <3>1. m \in LowLevel
      BY <2>3, <2>4, <2>6
    <3>2. CASE m \in lowLevelFunctions[c]
      BY <2>4, <2>5, <2>6, <3>1, <3>2
    <3>3. CASE m \notin lowLevelFunctions[c]
      BY <2>4, <2>9, <3>3
    <3> QED BY <3>2, <3>3
  <2>10. ASSUME NEW m \in LowLevel, LowTag(m) \in placed'[c]
         PROVE  m \in lowLevelFunctions'[c] /\ m \notin lowLevelQueue'[c]
    <3>1. CASE c = Cur /\ m = n
      <4>1. n \in lowLevelFunctions[c]
        BY <2>6, <3>1
      <4> QED BY <2>4, <3>1, <4>1
    <3>2. CASE LowTag(m) \in placed[c]
      BY <2>4, <2>6, <3>2
    <3> QED BY <2>5, <2>10, <3>1, <3>2
  <2> QED BY <2>7, <2>8, <2>9, <2>10
<1>7. CASE CompileContract
  <2>1. Push({"runtime"}, {SelectorTag})
    BY <1>7 DEF CompileContract
  <2> QED BY <1>7, <2>1, PushEffect, TagFacts, LowLevelFrame DEF CompileContract
<1>8. CASE CompileConstructor \/ CompileNextFunction \/ CompileSpecial
  BY <1>0, <1>1, <1>8 DEF CompileConstructor, CompileNextFunction, CompileSpecial
<1>9. CASE AppendFunctionSelector
  <2>1. Push({"runtime"}, {CallTag(s) : s \in dispatched'}) /\ Place("runtime", SelectorTag)
    BY <1>9 DEF AppendFunctionSelector
  <2> QED BY <1>0, <1>9, <2>1, PushEffect, PlaceEffect, TagFacts, LowLevelFrame
          DEF AppendFunctionSelector
<1>10. CASE AppendUnpackers
  <2>1. Push({"runtime"}, {FunTag(f) : f \in RangeOf(contract.interface)}
                           \cup {CallTag(s) : s \in awaitCallbacks["runtime"]})
    BY <1>10 DEF AppendUnpackers
  <2> QED BY <1>10, <2>1, PushEffect, TagFacts, LowLevelFrame DEF AppendUnpackers
<1>11. CASE CompilePlaceholder \/ FinishUnit \/ CompileInitializers \/ SkipCompiled
              \/ NoMissingFunction \/ NoMissingLowLevel \/ NoSpecial \/ Assemble
              \/ UNCHANGED vars
  BY <1>11, LowLevelFrame DEF CompilePlaceholder, FinishUnit, CompileInitializers, SkipCompiled,
     NoMissingFunction, NoMissingLowLevel, NoSpecial, Assemble, vars
<1> QED
  BY <1>2, <1>3, <1>4, <1>5, <1>6, <1>7, <1>8, <1>9, <1>10, <1>11
     DEF Next, Step, Compile, Drive, Finished

\* Continuations: a call node has one exactly when it is in m_awaitCallbacks.
LEMMA AwaitFrame ==
  ASSUME AwaitInv, UNCHANGED awaitCallbacks,
         \A c \in Contexts, s \in Sites :
            /\ CallTag(s) \in placed'[c] <=> CallTag(s) \in placed[c]
            /\ CallTag(s) \in pushed'[c] => CallTag(s) \in pushed[c] \/ s \in awaitCallbacks[c]
  PROVE  AwaitInv'
BY DEF AwaitInv

LEMMA AwaitStep == TypeOK /\ AwaitInv /\ [Next]_vars => AwaitInv'
<1> SUFFICES ASSUME TypeOK, AwaitInv, [Next]_vars PROVE AwaitInv'
  OBVIOUS
<1> USE DEF tagVars
<1>0. Cur \in Contexts /\ "creation" \in Contexts /\ "runtime" \in Contexts
  BY DEF Cur, Contexts
<1>1. ASSUME NEW c \in Contexts, NEW d, StartFunction(c, d), UNCHANGED <<awaitCallbacks, pushed>>
      PROVE  AwaitInv'
  <2>1. Place(c, FunTag(d))
    BY <1>1 DEF StartFunction
  <2> QED BY <1>1, <2>1, PlaceEffect, TagFacts, AwaitFrame
<1>2. CASE CompileCall
  <2>1. Push({Cur}, {FunTag(Head(code).item.of)})
    BY <1>2 DEF CompileCall
  <2> QED BY <1>2, <2>1, PushEffect, TagFacts, AwaitFrame DEF CompileCall
<1>3. CASE CompileValue
  <2>1. PICK cs : Push(cs, {FunTag(Head(code).item.of)})
    BY <1>3 DEF CompileValue
  <2> QED BY <1>3, <2>1, PushEffect, TagFacts, AwaitFrame DEF CompileValue
<1>4. CASE CompileAwait
  <2> DEFINE s == Head(code).item.of
  <2>1. CASE s \in awaitCallbacks[Cur]
    BY <1>4, <2>1, AwaitFrame DEF CompileAwait, AddCallbackDest
  <2>2. CASE s \notin awaitCallbacks[Cur]
    <3>1. Place(Cur, CallTag(s)) /\ awaitCallbacks' = [awaitCallbacks EXCEPT ![Cur] = @ \cup {s}]
      BY <1>4, <2>2 DEF CompileAwait, AddCallbackDest
    <3>2. \A c \in Contexts :
             awaitCallbacks'[c] = awaitCallbacks[c] \cup (IF c = Cur THEN {s} ELSE {})
      BY <1>0, <3>1 DEF TypeOK
    <3>3. \A c \in Contexts, t \in Sites :
             CallTag(t) \in placed'[c] <=> CallTag(t) \in placed[c] \/ (c = Cur /\ t = s)
      BY <1>0, <3>1, PlaceEffect, TagFacts
    <3>4. pushed' = pushed
      BY <1>4 DEF CompileAwait
    <3> HIDE DEF s
    <3> QED BY <3>2, <3>3, <3>4 DEF AwaitInv
  <2> QED BY <2>1, <2>2
<1>5. CASE CompileLowLevel
  <2>1. Push({Cur}, {LowTag(Head(code).item.of)})
    BY <1>5 DEF CompileLowLevel
  <2> QED BY <1>5, <2>1, PushEffect, TagFacts, AwaitFrame DEF CompileLowLevel
<1>6. CASE GenerateLowLevel
  <2>1. PICK n \in lowLevelQueue[Cur] : GenerateLowLevel!(n)
    BY <1>6 DEF GenerateLowLevel
  <2>2. Push({Cur}, {LowTag(m) : m \in contract.generator[n]}) /\ Place(Cur, LowTag(n))
    BY <2>1
  <2> QED BY <1>0, <2>1, <2>2, PushEffect, PlaceEffect, TagFacts, AwaitFrame
<1>7. CASE CompileContract
  <2>1. Push({"runtime"}, {SelectorTag})
    BY <1>7 DEF CompileContract
  <2> QED BY <1>7, <2>1, PushEffect, TagFacts, AwaitFrame DEF CompileContract
<1>8. CASE CompileConstructor \/ CompileNextFunction \/ CompileSpecial
  BY <1>0, <1>1, <1>8 DEF CompileConstructor, CompileNextFunction, CompileSpecial
<1>9. CASE AppendFunctionSelector
  <2>1. Push({"runtime"}, {CallTag(s) : s \in dispatched'}) /\ Place("runtime", SelectorTag)
    BY <1>9 DEF AppendFunctionSelector
  <2>2. dispatched' \subseteq awaitCallbacks["runtime"]
    BY <1>9 DEF AppendFunctionSelector
  <2> QED BY <1>0, <1>9, <2>1, <2>2, PushEffect, PlaceEffect, TagFacts, AwaitFrame
          DEF AppendFunctionSelector
<1>10. CASE AppendUnpackers
  <2>1. Push({"runtime"}, {FunTag(f) : f \in RangeOf(contract.interface)}
                           \cup {CallTag(s) : s \in awaitCallbacks["runtime"]})
    BY <1>10 DEF AppendUnpackers
  <2> QED BY <1>10, <2>1, PushEffect, TagFacts, AwaitFrame DEF AppendUnpackers
<1>11. CASE CompilePlaceholder \/ FinishUnit \/ CompileInitializers \/ SkipCompiled
              \/ NoMissingFunction \/ NoMissingLowLevel \/ NoSpecial \/ Assemble
              \/ UNCHANGED vars
  BY <1>11, AwaitFrame DEF CompilePlaceholder, FinishUnit, CompileInitializers, SkipCompiled,
     NoMissingFunction, NoMissingLowLevel, NoSpecial, Assemble, vars
<1> QED
  BY <1>2, <1>3, <1>4, <1>5, <1>6, <1>7, <1>8, <1>9, <1>10, <1>11
     DEF Next, Step, Compile, Drive, Finished

\* entryLabel only adds functions that are not special.
LEMMA EntryLabelEffect ==
  ASSUME TypeOK, code # <<>>, Head(code).item.kind \in {"call", "value"},
         NEW cs, EntryLabel(cs, Head(code).item.of)
  PROVE  /\ Head(code).item.of \notin Special
         /\ \A c \in Contexts : entryLabels'[c] \subseteq entryLabels[c] \cup {Head(code).item.of}
         /\ \A c \in Contexts : entryLabels[c] \subseteq entryLabels'[c]
         /\ \A c \in Contexts : c \notin cs => functionsToCompile'[c] = functionsToCompile[c]
<1>1. Head(code).item.of \in Functions
  BY ItemType
<1> QED BY <1>1, NamesAssumption DEF EntryLabel

\* startFunction labels the function it starts and touches one context only.
LEMMA StartFunctionEffect ==
  ASSUME TypeOK, NEW c \in Contexts, NEW d \in Decls, StartFunction(c, d)
  PROVE  /\ \A b \in Contexts : entryLabels'[b] = entryLabels[b] \cup (IF b = c THEN {d} ELSE {})
         /\ \A b \in Contexts : b # c => functionsToCompile'[b] = functionsToCompile[b]
         /\ unit' = d /\ unit' # None
         /\ \A b \in Contexts : SelectorTag \in placed'[b] <=> SelectorTag \in placed[b]
<1>1. d # None
  BY NamesAssumption DEF Decls, Special, Constructor, Receive, Fallback, None
<1>2. Place(c, FunTag(d))
  BY DEF StartFunction
<1>3. \A b \in Contexts : SelectorTag \in placed'[b] <=> SelectorTag \in placed[b]
  BY <1>2, PlaceEffect, TagFacts
<1> QED BY <1>1, <1>3 DEF StartFunction, TypeOK

LEMMA DriverStep == TypeOK /\ QueueInv /\ DriverInv /\ [Next]_vars => DriverInv'
<1> SUFFICES ASSUME TypeOK, QueueInv, DriverInv, [Next]_vars PROVE DriverInv'
  OBVIOUS
<1> USE DEF queueVars, lowVars, tagVars, CreationSteps, RuntimeSteps
<1>0. Cur \in Contexts /\ "creation" \in Contexts /\ "runtime" \in Contexts
  BY DEF Cur, Contexts
<1>1. CASE CompileCall
  <2>1. unit # None /\ code # <<>> /\ Head(code).item.kind = "call"
    BY <1>1 DEF CompileCall, NextItem
  <2>2. EntryLabel({Cur}, Head(code).item.of) /\ Push({Cur}, {FunTag(Head(code).item.of)})
    BY <1>1 DEF CompileCall
  <2> QED BY <1>0, <1>1, <2>1, <2>2, EntryLabelEffect, PushEffect, TagFacts
          DEF CompileCall, NextItem, DriverInv, Cur, Special, Constructor, Receive, Fallback
<1>2. CASE CompileValue
  <2> DEFINE cs == IF Cur = "creation" THEN Contexts ELSE {"runtime"}
  <2>1. unit # None /\ code # <<>> /\ Head(code).item.kind = "value"
    BY <1>2 DEF CompileValue, NextItem
  <2>2. EntryLabel(cs, Head(code).item.of) /\ Push(cs, {FunTag(Head(code).item.of)})
    BY <1>2 DEF CompileValue
  <2> QED BY <1>0, <1>2, <2>1, <2>2, EntryLabelEffect, PushEffect, TagFacts
          DEF CompileValue, NextItem, DriverInv, Cur, Special, Constructor, Receive, Fallback
<1>3. CASE CompileAwait
  <2>1. CASE Head(code).item.of \in awaitCallbacks[Cur]
    BY <1>3, <2>1 DEF CompileAwait, AddCallbackDest, NextItem, DriverInv
  <2>2. CASE Head(code).item.of \notin awaitCallbacks[Cur]
    <3>1. Place(Cur, CallTag(Head(code).item.of)) /\ pc' = pc
      BY <1>3, <2>2 DEF CompileAwait, AddCallbackDest
    <3> QED BY <1>0, <1>3, <3>1, PlaceEffect, TagFacts DEF CompileAwait, NextItem, DriverInv
  <2> QED BY <2>1, <2>2
<1>4. CASE CompileLowLevel
  <2>1. Push({Cur}, {LowTag(Head(code).item.of)})
    BY <1>4 DEF CompileLowLevel
  <2> QED BY <1>0, <1>4, <2>1, PushEffect, TagFacts DEF CompileLowLevel, NextItem, DriverInv, Cur
<1>5. CASE CompilePlaceholder
  BY <1>5 DEF CompilePlaceholder, DriverInv
<1>6. CASE FinishUnit
  BY <1>6 DEF FinishUnit, DriverInv, After
<1>7. CASE CompileContract
  <2>1. Push({"runtime"}, {SelectorTag})
    BY <1>7 DEF CompileContract
  <2>2. RangeOf(contract.interface) \cap Special = {}
    <3>1. contract \in Contract
      BY ContractsAssumption DEF TypeOK
    <3>2. contract.interface \in Seq(Functions)
      BY <3>1 DEF Contract
    <3> QED BY <3>2, NamesAssumption DEF RangeOf
  <2>3. /\ entryLabels'["runtime"] = RangeOf(contract.interface)
        /\ entryLabels'["creation"] = {}
        /\ unit' = None /\ contract' = contract
        /\ pc' \in {"initializers", "missingCreation"}
    BY <1>0, <1>7 DEF CompileContract, DriverInv, TypeOK
  <2>4. placed' = placed /\ placed["runtime"] = {} /\ placed["creation"] = {}
        /\ SelectorTag \notin pushed'["creation"]
    BY <1>0, <1>7, <2>1, PushEffect DEF CompileContract, DriverInv
  <2> QED BY <2>2, <2>3, <2>4 DEF DriverInv, Special
<1>8. CASE CompileInitializers
  BY <1>8 DEF CompileInitializers, DriverInv
<1>9. CASE SkipCompiled
  BY <1>9 DEF SkipCompiled, DriverInv
<1>10. CASE NoMissingFunction \/ NoMissingLowLevel
  BY <1>10 DEF NoMissingFunction, NoMissingLowLevel, DriverInv, Cur
<1>11. CASE CompileConstructor
  <2>1. StartFunction("creation", Constructor) /\ Constructor \in Decls
    BY <1>11 DEF CompileConstructor, Decls, Special
  <2> QED BY <1>0, <1>11, <2>1, StartFunctionEffect
          DEF CompileConstructor, DriverInv, Constructor, Receive, Fallback
<1>12. CASE CompileNextFunction
  <2> DEFINE d == Head(functionsToCompile[Cur])
  <2>0. functionsToCompile[Cur] \in Seq(Decls) /\ functionsToCompile[Cur] # <<>>
    BY <1>0, <1>12 DEF CompileNextFunction, TypeOK
  <2>1. StartFunction(Cur, d) /\ d \in Decls /\ d \in RangeOf(functionsToCompile[Cur])
    <3>1. StartFunction(Cur, d)
      BY <1>12 DEF CompileNextFunction
    <3>2. RangeOf(functionsToCompile[Cur])
             = {d} \cup RangeOf(Tail(functionsToCompile[Cur])) /\ d \in Decls
      BY <2>0, RangeTail
    <3> HIDE DEF d
    <3> QED BY <3>1, <3>2
  <2>2. d \in entryLabels[Cur]
    BY <1>0, <2>1 DEF QueueInv
  <2> HIDE DEF d
  <2>3. \A b \in Contexts : entryLabels'[b] = entryLabels[b]
    <3>1. \A b \in Contexts : entryLabels'[b] = entryLabels[b] \cup (IF b = Cur THEN {d} ELSE {})
      BY <1>0, <2>1, StartFunctionEffect
    <3>2. \A b \in Contexts : entryLabels[b] \cup (IF b = Cur THEN {d} ELSE {}) = entryLabels[b]
      BY <2>2
    <3> QED BY <3>1, <3>2
  <2>4. /\ Cur # "creation" => functionsToCompile'["creation"] = functionsToCompile["creation"]
        /\ \A b \in Contexts : SelectorTag \in placed'[b] <=> SelectorTag \in placed[b]
    BY <2>1, <1>0, StartFunctionEffect
  <2> QED BY <1>0, <1>12, <2>3, <2>4 DEF CompileNextFunction, DriverInv, Cur
<1>13. CASE GenerateLowLevel
  <2>1. PICK n \in lowLevelQueue[Cur] : GenerateLowLevel!(n)
    BY <1>13 DEF GenerateLowLevel
  <2>2. Push({Cur}, {LowTag(m) : m \in contract.generator[n]}) /\ Place(Cur, LowTag(n))
    BY <2>1
  <2>3. \A b \in Contexts : /\ SelectorTag \in placed'[b] <=> SelectorTag \in placed[b]
                            /\ SelectorTag \in pushed'[b] <=> SelectorTag \in pushed[b]
    BY <1>0, <2>2, PushEffect, PlaceEffect, TagFacts
  <2> QED BY <1>0, <2>1, <2>3 DEF DriverInv, Cur, TypeOK
<1>14. CASE AppendFunctionSelector
  <2>1. Push({"runtime"}, {CallTag(s) : s \in dispatched'}) /\ Place("runtime", SelectorTag)
    BY <1>14 DEF AppendFunctionSelector
  <2>2. SelectorTag \notin placed'["creation"] \cup pushed'["creation"]
    BY <1>0, <2>1, PushEffect, PlaceEffect DEF DriverInv
  <2> QED BY <1>14, <2>2 DEF AppendFunctionSelector, DriverInv
<1>15. CASE CompileSpecial
  <2>1. StartFunction("runtime", pc) /\ pc \in Decls /\ pc \in {Receive, Fallback}
    BY <1>15 DEF CompileSpecial, Decls, Special, Receive, Fallback
  <2> QED BY <1>0, <1>15, <2>1, StartFunctionEffect
          DEF CompileSpecial, DriverInv, Constructor, Receive, Fallback
<1>16. CASE NoSpecial
  BY <1>16 DEF NoSpecial, After, DriverInv
<1>17. CASE AppendUnpackers
  <2>1. Push({"runtime"}, {FunTag(f) : f \in RangeOf(contract.interface)}
                           \cup {CallTag(s) : s \in awaitCallbacks["runtime"]})
    BY <1>17 DEF AppendUnpackers
  <2>2. SelectorTag \notin pushed'["creation"]
    BY <1>0, <2>1, PushEffect DEF DriverInv
  <2> QED BY <1>17, <2>2 DEF AppendUnpackers, DriverInv
<1>18. CASE Assemble \/ UNCHANGED vars
  BY <1>18 DEF Assemble, DriverInv, vars
<1> QED
  BY <1>1, <1>2, <1>3, <1>4, <1>5, <1>6, <1>7, <1>8, <1>9, <1>10, <1>11, <1>12,
     <1>13, <1>14, <1>15, <1>16, <1>17, <1>18
     DEF Next, Step, Compile, Drive, Finished

\* Every step that places a tag places one that has no position yet.
LEMMA CompiledOnceStep ==
  TypeOK /\ QueueInv /\ LowLevelInv /\ AwaitInv /\ DriverInv /\ CompiledOnce /\ [Next]_vars
     => CompiledOnce'
<1> SUFFICES ASSUME TypeOK, QueueInv, LowLevelInv, AwaitInv, DriverInv, CompiledOnce, [Next]_vars
             PROVE  CompiledOnce'
  OBVIOUS
<1> USE DEF tagVars
<1>0. Cur \in Contexts /\ "creation" \in Contexts /\ "runtime" \in Contexts
  BY DEF Cur, Contexts
<1>1. ASSUME NEW c \in Contexts, NEW t, Place(c, t), t \notin placed[c] PROVE CompiledOnce'
  BY <1>1 DEF Place, CompiledOnce, TypeOK
<1>2. ASSUME NEW c \in Contexts, NEW d \in Decls, StartFunction(c, d), d \notin alreadyCompiled[c]
      PROVE  CompiledOnce'
  <2>1. FunTag(d) \notin placed[c]
    BY <1>2 DEF QueueInv
  <2> QED BY <1>1, <1>2, <2>1 DEF StartFunction
<1>3. CASE CompileAwait
  <2>1. CASE Head(code).item.of \in awaitCallbacks[Cur]
    BY <1>3, <2>1 DEF CompileAwait, AddCallbackDest, CompiledOnce
  <2>2. CASE Head(code).item.of \notin awaitCallbacks[Cur]
    <3>1. Place(Cur, CallTag(Head(code).item.of)) /\ Head(code).item.of \in Sites
      BY <1>3, <2>2, ItemType DEF CompileAwait, AddCallbackDest, NextItem
    <3>2. CallTag(Head(code).item.of) \notin placed[Cur]
      BY <1>0, <2>2, <3>1 DEF AwaitInv
    <3> QED BY <1>0, <1>1, <3>1, <3>2
  <2> QED BY <2>1, <2>2
<1>4. CASE CompileConstructor
  <2>1. Constructor \in Decls /\ Constructor \notin alreadyCompiled["creation"]
    BY <1>0, <1>4 DEF CompileConstructor, DriverInv, QueueInv, Decls, Special
  <2> QED BY <1>0, <1>2, <1>4, <2>1 DEF CompileConstructor
<1>5. CASE CompileNextFunction
  <2>1. Head(functionsToCompile[Cur]) \in Decls
    BY <1>0, <1>5 DEF CompileNextFunction, TypeOK
  <2> QED BY <1>0, <1>2, <1>5, <2>1 DEF CompileNextFunction
<1>6. CASE CompileSpecial
  <2>1. pc \in Decls /\ pc \notin alreadyCompiled["runtime"]
    BY <1>0, <1>6 DEF CompileSpecial, DriverInv, QueueInv, Decls, Special, Receive, Fallback
  <2> QED BY <1>0, <1>2, <1>6, <2>1 DEF CompileSpecial
<1>7. CASE GenerateLowLevel
  <2>1. PICK n \in lowLevelQueue[Cur] : GenerateLowLevel!(n)
    BY <1>7 DEF GenerateLowLevel
  <2>2. Place(Cur, LowTag(n)) /\ n \in LowLevel
    BY <1>0, <2>1 DEF TypeOK
  <2>3. LowTag(n) \notin placed[Cur]
    BY <1>0, <2>2 DEF LowLevelInv
  <2> QED BY <1>0, <1>1, <2>2, <2>3
<1>8. CASE AppendFunctionSelector
  BY <1>0, <1>1, <1>8 DEF AppendFunctionSelector, DriverInv
<1>9. CASE UNCHANGED placedTwice
  BY <1>9 DEF CompiledOnce
<1>10. CASE CompileCall \/ CompileValue \/ CompileLowLevel \/ CompilePlaceholder \/ FinishUnit
              \/ CompileContract \/ CompileInitializers \/ SkipCompiled \/ NoMissingFunction
              \/ NoMissingLowLevel \/ NoSpecial \/ AppendUnpackers \/ Assemble \/ UNCHANGED vars
  BY <1>9, <1>10 DEF CompileCall, CompileValue, CompileLowLevel, CompilePlaceholder, FinishUnit,
     CompileContract, CompileInitializers, SkipCompiled, NoMissingFunction, NoMissingLowLevel,
     NoSpecial, AppendUnpackers, Assemble, vars
<1> QED
  BY <1>3, <1>4, <1>5, <1>6, <1>7, <1>8, <1>10 DEF Next, Step, Compile, Drive, Finished

\* The inductive invariant.
IInv == TypeOK /\ QueueInv /\ LowLevelInv /\ AwaitInv /\ DriverInv /\ CompiledOnce

LEMMA InvInit == Init => IInv
<1> SUFFICES ASSUME Init PROVE IInv
  OBVIOUS
<1>1. TypeOK
  BY TypeInit
<1>2. QueueInv
  BY DEF Init, QueueInv, RangeOf
<1>3. LowLevelInv /\ AwaitInv /\ CompiledOnce
  BY DEF Init, LowLevelInv, AwaitInv, CompiledOnce
<1>4. DriverInv
  BY DEF Init, DriverInv, Contexts, CreationSteps, RuntimeSteps
<1> QED BY <1>1, <1>2, <1>3, <1>4 DEF IInv

\* The inductive invariant holds in every reachable state.
THEOREM Inductive == Spec => []IInv
<1>1. IInv /\ [Next]_vars => IInv'
  BY TypeStep, QueueStep, LowLevelStep, AwaitStep, DriverStep, CompiledOnceStep DEF IInv
<1> QED BY InvInit, <1>1, PTL DEF Spec

\* Neither a function nor a continuation nor a low-level function is ever
\* emitted twice into one context, whatever the contract.
THEOREM NothingCompiledTwice == Spec => []CompiledOnce
<1>1. IInv => CompiledOnce
  BY DEF IInv
<1> QED BY Inductive, <1>1, PTL

\* When appendFunctionSelector starts, appendMissingFunctions has left nothing
\* behind: every tag the code jumps to has a position, in both contexts.
THEOREM SelectorFindsQueuesEmpty == Spec => []QueuesDrained
<1>1. IInv => QueuesDrained
  <2> SUFFICES ASSUME IInv, pc = "selector", NEW c \in Contexts, NEW t \in pushed[c]
               PROVE  t \in placed[c] \cup {SelectorTag}
    BY DEF QueuesDrained
  <2>1. RangeOf(functionsToCompile[c]) = {} /\ lowLevelQueue[c] = {}
    BY DEF IInv, DriverInv, RuntimeSteps, Contexts, RangeOf
  <2>2. t \in Tags
    BY DEF IInv, TypeOK
  <2>3. \A d \in Decls : t = FunTag(d) => t \in placed[c]
    BY <2>1 DEF IInv, QueueInv
  <2>4. \A s \in Sites : t = CallTag(s) => t \in placed[c]
    BY DEF IInv, AwaitInv
  <2>5. \A n \in LowLevel : t = LowTag(n) => t \in placed[c]
    BY <2>1 DEF IInv, LowLevelInv
  <2> QED BY <2>2, <2>3, <2>4, <2>5 DEF Tags, FunTag, CallTag, LowTag
<1> QED BY Inductive, <1>1, PTL
=============================================================================
