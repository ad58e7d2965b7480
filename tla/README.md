# A TLA+ verification project for the Solidity++ compiler

Solidity++ is a fork of the Solidity compiler for the Vite blockchain. Vite
contracts call each other by asynchronous messages, and Solidity++ adds
`await`: a synchronous call stops the execution of the contract and resumes it
in a continuation when the answer arrives. The repository is an overlay on the
Solidity sources: files under `libevmasm`, `libsolidity`, `liblangutil`,
`libsolutil`, `libsolc` and `solppc` replace or extend those of the
`solidity` submodule. What is only in the submodule (the optimiser, name
resolution, Yul, LValues and most of the type checker) is not part of the
repository and is modelled, where at all, from how the code here uses it.

## 1. Inventory

| Component | State | Operations | Interaction | What makes it correct |
|---|---|---|---|---|
| `CompilerStack` | stage, settings, sources, ASTs, `m_sourceOrder`, contracts with their objects, error list, `m_hasError` | setters, `setSources`, `importASTs`, `parse`, `analyze`, `parseAndAnalyze`, `compile`, `reset`, `link` | driven by the command line, the JSON interface and libsolc; drives parser, analysis, code generation | code only of programs that were analysed without error; success means everything requested is there; a failure is reported |
| `Compiler`, `ContractCompiler` | creation and runtime context, entry labels, modifier depth, tag stacks, scope heights | compile runtime, constructor, missing functions, selector; one `visit` per statement | writes to `CompilerContext`, uses `ExpressionCompiler` and `CompilerUtils` | everything reachable is compiled once; all continuations are dispatched to; the stack height is right on every path |
| `CompilerContext` | function queue, low-level function queue, await table, local variables | `functionEntryLabel`, `startFunction`, `nextFunctionToCompile`, `addCallbackDest`, `lowLevelFunction`, `addVariable`, `removeVariable` | two instances, creation and runtime; the first one points to the second | labels and queue agree; variables resolve to their slots |
| `ExpressionCompiler`, `CompilerUtils` | none of their own | visits of expressions, calls, conversions, memory encoding | emit to the context; `await` registers a continuation | the stack effect of each expression is the size of its type |
| `Assembly`, `LinkerObject` | items, tags, subassemblies, data, cached object; bytecode with link and immutable references | `append`, `assemble`, `link`, `optimise` | assemblies contain one another and are shared | references hold what they refer to; nothing is truncated; linking fills in all of an address |
| `StandardCompiler` | none across calls | parse the JSON input, read sources, compile, collect the output | client of `CompilerStack`; reads through a callback | an answer without an error has all that was selected; every failure is reported |
| `CommandLineInterface` | options, sources, error flag; files on disk between runs | parse arguments, read, compile, link, write | client of `CompilerStack` and `StandardCompiler` | exit code and files agree; linking in steps leaves out no library it was given |
| `libsolc` | list of allocations, callback | `solidity_compile`, `solidity_alloc`, `solidity_free`, `solidity_reset` | C callers and their callbacks | every buffer is freed once |
| `Parser` | scanner position, functions under way, recovery and modifier flags, source language | one function per production | fills `CompilerStack`; one object for all sources | what is accepted was parsed as the grammar says; parsing ends whatever the tokens are |
| Type and syntax checkers, `DeclarationTypeChecker` | annotations of the AST | one visit per node | called by `analyze` | await and send are used where they can be compiled; no recursive types |
| `Types`, `TypeProvider` | interned types (a singleton) | conversions, encoding sizes, storage layout | everywhere | packing does not overlap; common types are symmetric |
| `YulUtilFunctions`, `ABIFunctions` | requested functions | generate a Yul function | called by code generation | generated arithmetic, storage access and encoding are right; nothing is read behind the end of data |
| `libsolutil` | buffers of Blake2b | hex conversion, hashing | everywhere | padding, block limits |

The program has one thread. What is hard in it is *order*: two code generation
contexts that feed each other's queues, jumps around which the stack height is
corrected by hand, references whose width is fixed before their value is
known, generated code that relies on what earlier generated code left in
storage and memory, a parser that goes on after errors, and an API that may be
called in any order, fail half way, and be used again. `PROJECT.json` lists these hazards with the lines where they bite and
the properties that cover them.

## 2. Modules

| Module | Models | Extended by |
|---|---|---|
| `ContractCodegen` | the order of code generation of one contract, with queues, labels and continuations of both contexts | `MCContractCodegen`, `ContractCodegenProofs`, `ContractReachProofs` |
| `FunctionCodegen` | code generation of the statements of one function under its modifiers, and the execution of the result on a stack machine | `MCFunctionCodegen`, `FunctionCodegenProofs` |
| `CompilerStack` | the driver and its API | `MCCompilerStack`, `CompilerStackProofs` |
| `Assembler` | `Assembly::assemble` and `LinkerObject` | `MCAssembler`, `AssemblerProofs` |
| `CallCodegen` | the code generated for calls of other contracts and for contract creation, and its execution | `MCCallCodegen` |
| `IntegerCodegen` | the code generated for operators and conversions of integers and fixed-size byte strings | `MCIntegerCodegen` |
| `ArrayModel` | what the language promises of arrays and structs in storage (abstract) | implemented by `StorageLayout` |
| `StorageLayout` | the Yul functions for arrays, byte arrays and structs in storage | `MCStorageLayout` |
| `AbiCoding` | the ABI encoder and decoder | `MCAbiCoding` |
| `Parser` | the parser with its error recovery | `StatementGrammar`, `ParserProofs` |
| `StatementGrammar` | the grammar of simple statements and of trees, as a reference for the parser | `MCParser` |
| `StandardCompiler` | the JSON interface and the C library, composed with `CompilerStack` | `MCStandardCompiler`, `StandardCompilerProofs` |
| `CommandLine` | the command line program, composed with `CompilerStack` | `MCCommandLine`, `CommandLineProofs` |

The MC modules only give the constants their values.

### ContractCodegen

A contract is a record of what code generation can tell apart: its interface
functions, its special functions, and for each function, modifier and
initialiser a list of items, each a call, a use as a value, an awaited call or
a use of a low-level function. `pc` is the position of the driver in
`packIntoContractCreator` or `deployLibrary`; `unit` and `code` are the
function being visited and what is left of it. The other variables are the
fields of the two `CompilerContext`s, as functions from `"creation"` and
`"runtime"`: `entryLabels`, `functionsToCompile` and `alreadyCompiled`
(`FunctionCompilationQueue`), `awaitCallbacks` (`m_awaitCallbacks`),
`lowLevelFunctions` and its queue, and the tags pushed and placed. An action
is one step of the driver or one item. `Assemble` throws when a tag that is
pushed has no position or two, like `Assembly::assemble`. A call node that is
compiled a second time in one context gets no `CALLBACKDEST`; the success flag
is then missing and the stack height check throws (`"unbalanced"`).

### FunctionCodegen

`visit` methods are turned into lists of tasks: emit an instruction, adjust
the height, add or remove a variable, open or close a scope, a loop or a
return tag, check the height, visit a nested statement. A step of the compiler
takes the first task. `height` is the deposit of the assembly; `code` keeps
the height known to the compiler in front of every instruction. When the code
is complete it is run, with both outcomes of every condition and of every
call, on a `stack` whose slots know which variable they belong to. `Reach` is
the reach of SWAP and DUP, 16. Reading a variable is modelled from its use
(`StackVariable` is in the submodule). A function is a tree of `Statements`,
records that say what `AST.h` says of each class; `ScopesIn` gives the blocks and
for loops in a statement.

### CompilerStack

`stack` is a record of the fields, `program` what the phases will find in the
sources, `result` how the last call ended. Each phase is an operator from the
fields to fields and result, so that `compile` composes `parseAndAnalyze`,
`parse` and `analyze` as the code does, and so that the two clients can call
them. A call that throws leaves the fields as the code left them at that point.
The settings that must be made before parsing are represented by two (`viaIR`
and `libraries`); those that may be changed at any time are kept one by one, and
`OpenChoices` bounds their combinations. A request is a pair of a source and a
contract, either of which may be empty and then stands for all. `parse` adds
the imports the read callback delivers. `Generate` is the loop of `compile` over
the requested contracts with `generateIR`, `compileContract`,
`generateEVMFromIR` and `generateEwasm`. `analysedFor` is a history variable: the
names that were requested when `analyze` chose the order of sources.

### Assembler

An object is its size and the set of its fields: the places behind a push
where a reference goes, with position, length and value. The other bytes only
count. `Start`, `EmitItem`, `FinishItems`, `AppendSub`, `ResolveTags`,
`AppendData` and `Finish` are the parts of `assemble` in their order.
`BytesRequiredForCode` is the estimate that fixes the width of tags;
`ToBigEndian` keeps the low bytes of a value that does not fit. `EstimatedCode`
and `EstimatedObject`, of the properties, are what `assemble` counts on when it
fixes the width of tags and of data references; an assembly may outgrow both.
`Link` keeps of every address the bytes that `LinkerObject::link` copies,
`CopiedBytes` of the `AddressBytes` that are reserved. Assemblies are
numbered so that a subassembly has a smaller number; indices of subassemblies
count from 1. `MaxId` stands for the largest `size_t`.

### IntegerCodegen

The machine holds one value: its type, the machine word, and what the language
says the value is (`value`, an unbounded integer reduced by the rules of the
type). An action replaces it by the result of an operator or a conversion. The
definitions named after functions of `YulUtilFunctions` do what the generated
Yul functions do, in wrapping word arithmetic; `PlainArithmetic`, `ShiftCode`
and the others named ...`Code` are the instructions `ExpressionCompiler` emits,
with the cleaning that `cleanupNeededForOp` asks for. `generator = "ir"` stands
for code in which every operation is a Yul function; the generator that would
call them is in the submodule, so operators it does not take from
`YulUtilFunctions` (bit operators, comparisons) are left out for it. The
operators under "The language" are the reference: exact numbers, a panic in
checked blocks when the result is out of range, the remainder in unchecked
ones. Words may be dirty from the start, as after inline assembly. `cut`
remembers that a Yul function has made a byte string shorter, which leaves the
bytes that were cut off in the word: the properties are stated for the other
executions. Addresses,
token ids, enums and fixed point numbers are left out, and so is the chopping
of sign bits for packed arrays.

### CallCodegen

A call is a record: its kind (external, delegate, low-level, precompiled
contract, send, transfer, creation), its arguments (slots on the stack, static
or dynamic), the options in the order written, whether it is bound, awaited or
in a try statement, the values returned, and the ABI encoder. `Emit...`
actions are the consecutive parts of `appendExternalFunctionCall` and of the
visits that call it; each appends the instructions of its part, built by the
operator of the same name ending in `Code`, and the `Run...` actions run them
on a stack of named slots. The compiler finds slots by counting from the
height it remembers (`entry`), so a wrong count finds a slot with another
name. `EncodeToMemory` is the first ABI encoder instruction by instruction; the
second one is written in Yul and only its result is modelled (`RunAbiEncode`,
and `RunAbiDecode` for the decoder). Copying and
measuring arrays is in the submodule and is modelled by its effect. `SYNCCALL`
ends the execution; `Answer` resumes it with either success flag. `gas` and
`salt`, which the Solidity++ checker rejects, struct and string literal
arguments, and the memory that the return data is copied to are left out.
`Unbalanced` names the calls whose code leaves something else than their type:
low-level calls that are not synchronous, `send`, whose single argument is
compiled as amount *and* token, `ecrecover`, which keeps output size and
position for a CALL that no longer takes them, and `new` with a token option,
which is never popped. `OnlyResultsRemain` is stated for the others.

### ArrayModel and StorageLayout

`ArrayModel` is the abstract specification: two sequences of values, requests
that push, pop, write, delete, assign and copy, and an answer, done or panic.
`StorageLayout` does the same with `image`, the words of the slots of both: each
action is one of the Yul functions (`storageByteArrayPush`, `resizeArray`,
`copyValueArrayStorageToStorage`, ...) with the functions it calls as operators
on the image. Values of a few bytes share a slot, struct members are placed by
`StorageOffsets::computeOffsets`, byte arrays change between their short and
long form, copies work on whole words. The refinement mapping reads the
sequences back out of the slots (`Contents`); `ImplementsArrays` is the
specification of `ArrayModel` under it. The hash that finds a data area is
modelled by giving the area slots of its own.

### AbiCoding

A tuple of typed values is encoded element by element (`EncodeElement`) into
dirty memory, from the stack, memory, calldata or packed storage slots, with the
ABI's heads and tails or packed. The data then arrives as it was written, with
one word replaced, or cut short (`Deliver...`), and is decoded into memory or as
references into calldata (`DecodeElement`), from which it is encoded again
(`Reencode`). The operators carry the names of the generated functions; sums
and products wrap around. `TupleEncoding` is the reference: the definition of
the ABI, with byte arrays padded to multiples of a word wherever they come from.
The code departs from it in two cases, which `PaddedToMultiples` and
`ReencodedFaithfully` show; the other properties name these cases in their
conditions and do not take them over into the reference.

### Parser and StatementGrammar

The functions of the parser that are under way are frames on `stack`, the next
thing to do first; an action is one function or one turn of its loop. A fatal
error removes frames up to a handler (`Unwind`), as the exception does, and
`Synchronize` is `expectTokenOrConsumeUntil`, with `m_inParserRecovery`. Tokens
are lexemes, with one representative for each class the parser does not tell
apart. Expressions are built as trees from `nodes`; other constructs are only
accepted or not. `StatementGrammar` says without lookahead which token
sequences are simple statements, when a tree respects precedence, and what a
tree looks like when written down. `docid` is a name behind a documentation
string, which is an error in front of some variables (`RefuseDocstring`), and
`SeveralLicenses` are the sources in which `findLicenseString` finds more than one
license. Sources nest less deep than the 1200 calls after which `RecursionGuard`
throws. The scanner and inline assembly are in the submodule.

### StandardCompiler

Extends `CompilerStack`, whose variables become the stack of the call under
way. `call` is the request with what is left to do: reading the sources one by
one, each by its text or through URLs and the callback, checking settings,
compiling, collecting. The host owns pointers (`owned`); the library keeps
`allocations`, and the host may call `solidity_alloc`, `solidity_free` and
`solidity_reset` also from within the callback (`HostRuns`). Imports that the stack reads through the callback are
read at once, without allocations of their own. An artifact is the sequence of
the parts of its name.

### CommandLine

Extends `CompilerStack` as well. A process parses its arguments, reads files,
compiles, assembles or links and writes; `disk` outlives it, so that a later run
links the object files of an earlier one. An object file is the set of
libraries it refers to (`refs`), the set its hint lines name (`hints`) and the set
whose addresses lack the last byte (`cut`): the compiler finds a library by its
qualified or its simple name (`FoundByStack`) and copies 20 of 21 bytes, `Link`
replaces the placeholders of exactly the names it was given by whole addresses.
`compiledWith` and `linkedWith` are history: the names given when the file was
made and since then. `CreateFile` and `WriteLinkedFile` open a file before they
know whether it can be written, so a failure leaves it truncated (`Truncated`),
also one that held an older object or what is being linked, and what is lost when
a file is closed is lost unnoticed (`lost`). Exceptions of
`fs::create_directories` are left out.

## 3. Runs

| Run | Shows |
|---|---|
| `contract_codegen` | no code twice, no code missing or dead when the selector is emitted, queues drained, continuations dispatched to, termination in spite of recursion; compilation fails only for awaits in modifiers that are compiled twice |
| `function_codegen` | the height counted by the compiler is the one of the machine on all paths; variables are found; the frame is removed; no assertion fails; code behind a placeholder is run after a return in the body; the compiler ends |
| `compiler_stack` | no order of calls leads to code of a program that was not analysed, to code without the code it needs, or to success without a contract that is requested; only if the names were changed after the analysis, the contracts of sources it left out of its order are missing |
| `assembler` | references are exact in every object that is no larger than estimated, link references cover all uses at any depth and stay until an address is filled in, copies are faithful; assembling fails for a cause in the items or because the code is larger than estimated |
| `integer_codegen` | after any sequence of operators and conversions, in checked and unchecked blocks, the code panics or answers a comparison exactly as the language demands, and the word stands for the exact value in spite of dirty bits |
| `call_codegen` | the message sent has the address, amount, token and encoding of the source program whatever the order of options and the shape of arguments; all slots counted are removed and only the results stay, on success, on failure and in try |
| `storage_layout` | the generated functions implement `ArrayModel` at all lengths and for all packings; every byte behind an end is zero, which push and the packed copies rely on |
| `parser` | a source accepted without error was parsed completely; simple statements are accepted exactly if the grammar has them; trees are those of the grammar; `_` is a placeholder in modifiers only, whatever errors came before; parsing ends |
| `abi_coding` | but for empty byte arrays of storage, the encoder writes exactly the bytes of the ABI; what it wrote is decoded to the same values; decoding into memory and lazily in calldata agree on damaged data, but for tuples whose head overflows, and if only calldata accepts it then an offset leads back or an array reaches behind the end; no check against the end wraps around |
| `standard_json` | an answer without error has every artifact that was selected; failures of the stack are in the answer; the allocation list is exactly what the host owns |
| `command_line` | exit code 0 means compiled and everything written, with the exceptions below, another one has a cause the user can see; a complete object file refers to exactly the libraries that no run was given in a form it looks for, and a run that links succeeds only if it replaced all it was given |

One run shows a disagreement of the code with one of its own comments:
`referenced_functions_compiled`. CompilerContext.h:313 says that the queue
"ensures that referenced functions are compiled in a specific order"; a function
only receive or fallback refers to is queued by the selector, after the queue was
drained for the last time, and never compiled.

### Further disagreements

Ten more properties are stated in the modules as the comments, the help or the
error messages of the code have them, and the code violates them. They are in no
listed run; each has a configuration of its own with which TLC gives a behaviour,
`tlc -config P.cfg MC`, with `P` and `MC` from the table.

| Property, module | The text | What the code does |
|---|---|---|
| `EveryContractCompiled`, `MCCompilerStack` | without names "every contract found in the supplied sources is compiled" (CompilerStack.h:164) | if the names are cleared after `analyze`, `compile` goes through the sources that the old names selected (CompilerStack.cpp:541, 1139) and reports success |
| `EstimateIsUpperBound`, `MCAssembler` | `bytesRequired` "returns an upper bound" (AssemblyItem.h:120) | an immutable that nobody reads takes one byte more than counted, `PushSub` and `PushData` are counted with the width of a tag (AssemblyItem.cpp:64-81, Assembly.cpp:647-656, 705-709) |
| `AddressesFilledIn`, `MCAssembler` | references are "replaced by the actual addresses" (LinkerObject.h:40) | 20 of the 21 bytes are copied (LinkerObject.cpp:45) |
| `PaddedToMultiples`, `MCAbiCoding` | "Pad/signextend value types and bytes/string to multiples of 32 bytes" (ABIFunctions.h:115) | a byte array stored in its own slot takes a word even if it is empty (ABIFunctions.cpp:705) |
| `ReencodedFaithfully`, `MCAbiCoding` | `tupleEncoder` is "to ABI-encode values" (ABIFunctions.h:53) | a static array copied from calldata to the end of the head clears the first word of the tail (YulUtilFunctions.cpp:80, ABIFunctions.cpp:495) |
| `CalldataWithinEnd`, `MCAbiCoding` | "Invalid calldata access stride" (ABIFunctions.cpp:1443) | the bound is checked for the position of the enclosing tuple instead of the array (ABIFunctions.cpp:1437) |
| `AstJsonDelivered`, `MCCommandLine` | --ast-json: "AST of all source files in JSON format." (CommandLineInterface.cpp:964) | no code looks at the option (1730); exit code 0 |
| `CombinedJsonComplete`, `MCCommandLine` | "a single json document containing the specified information" (CommandLineInterface.cpp:992) | with `--stop-after parsing` the bytecode is left out (1666); exit code 0 |
| `FilesComplete`, `MCCommandLine` | "creates one file per component and contract/file" (CommandLineInterface.cpp:846) | the stream is tested before it is closed (769-776), what fails then is not noticed; exit code 0 |
| `SimpleNamesLinked`, `MCCommandLine` | "If the user did not supply a fully qualified library name, try to match only the simple library name" (LinkerObject.cpp:83) | `--link` replaces placeholders of the name as given only (CommandLineInterface.cpp:1786); exit code 0 |

The properties of the runs say what holds besides; where one of these cases
touches them, their conditions name it.

### Observations

The following came up besides. The models do what the code does; the
properties above are stated so that they say what holds in spite of it.

Code generation:

* a modifier that awaits and is applied twice cannot be compiled, as the second
  copy of the call gets no `CALLBACKDEST` (ExpressionCompiler.cpp:2714), and a
  call awaited in receive or fallback gets a continuation that the selector does
  not dispatch to (ContractCompiler.cpp:103);
* a low-level call that is not synchronous has no success flag where its return
  data is appended (ExpressionCompiler.cpp:2753);
* Yul conversions to a shorter byte string are not cleaned (the comment at
  YulUtilFunctions.h:390 says they are), and a shift to the left brings the rest
  back;
* the function that shortens byte arrays would keep the wrong bytes for a new
  length of a slot or more, which no caller asks for;
* the offsets in arrays of dynamic elements are read before any check against
  the end of the data.

Compiler stack and clients:

* `compile(AnalysisPerformed)` after a failed analysis returns true
  (CompilerStack.h:215);
* with parser error recovery, a missing import replaces the errors found by an
  exception, and a selected AST that is missing is dereferenced
  (CompilerStack.cpp:963), in the JSON and in the command line interface;
* `ewasm.wasm` alone does not turn Ewasm on, while `*` matches it; a source with
  an empty list of URLs is dropped silently; Yul requests lose the errors of
  reading their sources;
* on the command line, `--standard-json` ends with 0 whatever the answer, a
  linked file that cannot be written and errors under `--error-recovery` leave
  exit code 0, imports below a base path are filed under names for which no AST
  is found, `--stop-after parsing` conflicts with fewer outputs than it cannot
  serve, a library with a `_` in its qualified name makes an object file
  unlinkable because the hint lines are searched too, and a library linked by
  `--link` gets all the bytes of its address while one linked by the compiler
  does not.

Parser:

* `m_sourceLanguage` (Parser.h:209) has no initial value and outlives a source,
  as does `m_inParserRecovery`; `parsePragmaVersion` looks for the language word
  in a list that does not have it.

### Bounds

* `contract_codegen`: three functions, one modifier (used by up to two
  functions), three call nodes, two low-level functions. The bodies include
  recursion, mutual recursion, a pointer stored at creation, a modifier with
  two placeholders. Two functions are enough for a queue that is refilled
  while it is drained, three for one that another context fills.
* `function_codegen`: bodies with two levels of loops and try statements and
  every way of leaving them, variables of one and two slots, at most two
  modifiers, and functions with 12 to 17 slots to get to the limit of the
  stack.
* `compiler_stack`: two sources, of which the second may import and create the
  first, with at most one kind of failure in a program; all orders of calls.
* `assembler`: three assemblies, the innermost shared by the other two; sizes
  around 256 and 65536 bytes, among them objects that outgrow their estimate by
  immutables nobody reads, by references to data wider than tags and by
  subassemblies copied more often than counted (`Outgrowing`): some still fit,
  some fail and some get references that are cut off.
* `integer_codegen`: words of 6 bits, types of 3 and 6 bits, all words as
  operands. What follows a conversion that leaves cut off bytes in the word, about
  which nothing is promised, is not explored (`Promised`). The
  code treats a type as "narrower than a word" or "as wide as a word" and knows
  no other width; no formula depends on the number of bits except through the
  limits of the type, the shortcuts for small powers (`SmallPowers`, here one
  pair instead of two, with the same assertions) and the oddness of
  `WordBits - 1`, which the code relies on and `WordAssumption` states.
  An expression may stop (a panic, a comparison), so deadlock is not checked.
* `call_codegen`: all lists of up to three arguments of four shapes (one or two
  slots, static or dynamic) and lists of 13 to 16 slots with a dynamic value
  first, last or nowhere, which is where DUP and SWAP end; all orders of
  options; awaited or not, try or not, both encoders. Two locals below the call
  stand for the rest of the stack, which the code never looks at. The code ends,
  so deadlock is not checked.
* `storage_layout`: slots of 5 bytes of 16 values, so that a byte array changes
  its form at 5 bytes, two values of two bytes leave one byte of a slot unused
  and three bytes fill a slot alone; arrays are refused from 7 values on; 8 slots.
  The code divides by the size of a slot and knows no other number. All
  sequences of operations, from all contents they lead to; states that differ
  only in the last request and its answer are explored once (`View`), their steps
  being the same.
* `parser`: ten sources that use every construct, with each token removed,
  replaced by `}` or `;`, and cut off behind it; nine faulty ones, alone and
  before another source; two with several licenses; all statements of up to three tokens, and longer ones
  with one edit; with and without recovery. `MaxErrors` is 6 instead of 256,
  so that the loops that only the limit stops reach it, while sources with one
  mistake stay below it.
* `abi_coding`: words of 4 bytes of 16 values, `Limit` 1023 for 2^64 - 1; tuples of
  all kinds of types, static and dynamic before and behind each other, byte
  arrays around the length of a word. Each word of the data is replaced by small
  numbers and by numbers at the limits; up to 5 bytes, more than a word, are cut
  off.
* `standard_json`: two sources, of which the second may import the first; one
  selection of each kind by name and by wildcards; faults of one kind at a time.
  Three pointers (interchangeable: the run uses their symmetry) are enough for
  an answer, the two buffers of a callback and memory of the host. A host may
  stop at any time, so deadlock is not checked.
* `command_line`: up to three processes on one disk (`MaxRuns`): one to compile
  and two to link, or to compile again over the files of the first. Options
  that differ from the plain command line in one group at a time; files are
  written by programs of their own (`OfFiles`), with libraries given by qualified
  and simple names.

### Fairness

The compiler is a sequential program that is not interrupted: weak fairness of
its next step is what running it means (`FairSpec` of `ContractCodegen` and
`FunctionCodegen`, `Spec` of `Parser`). The code that `FunctionCodegen` runs gets
no fairness, since a loop of the user's program may not end. The other modules
have no liveness property: callers, hosts and users may stop at any time.

## 4. Proofs

TLAPS checks the theorems below for all values of the constants that satisfy
the assumptions; TLC evaluates the assumptions in every run of the module, and
the inductive invariants were model-checked before they were proved. A proof
module extends the module it is about and changes nothing in it.

### ContractCodegenProofs

For all sets of functions, modifiers, call nodes and low-level functions and
all contracts over them:

* `TypeCorrect`: `Spec => []TypeOK`;
* `NothingCompiledTwice`: `Spec => []CompiledOnce`;
* `SelectorFindsQueuesEmpty`: `Spec => []QueuesDrained`.

Neither of the last two is inductive. That a function is not compiled twice
rests on `QueueInv`: what has a label is compiled or queued, and what has a
position was compiled. That the selector finds no open jump rests on the same
invariant, on its counterpart `LowLevelInv` for low-level functions, and on
`DriverInv`, which says for each step of the driver which queues are empty and
which special functions have no label yet. The inductive invariant `IInv` is
the conjunction of these with `AwaitInv` and `TypeOK` (theorem `Inductive`,
one lemma per action that changes queues or tags). The assumptions are
`ContractsAssumption` (contracts are records of the right type) and
`NamesAssumption` (special functions are not ordinary ones; an interface lists
a function once).

### ContractReachProofs

Also for all contracts:

* `NothingMissingNothingDead`: `Spec => []CompilesExactlyReachable`;
* `ContinuationsDispatched`: `Spec => []DispatchesQueuedAwaits`;
* `GivesUpForModifiersOnly`: `Spec => []FailsOnlyOnSharedAwait`.

The reachable functions are the least set that holds the roots and what its
members refer to, so there are two directions. *Nothing dead*: `ReachInv`
says that only reachable functions have a label. The labels a unit makes while
it is compiled are those of items of its own code (`CodeInv`), and the unit has
a label itself (`UnitInv`). *Nothing missing*: the compiled functions are closed
under references, so that the least closed set is among them. This is
`FinishedInv`; it holds because at each moment every block of the unit under way
was visited, is in the code that is left, or is behind a placeholder in that code
(`CoverInv`), however deep the modifiers are nested. `DispatchInv` says what may
still be added once the selector is there. All of this is the invariant `RInv`
(theorem `ReachInductive`).

For the third theorem, `AwaitOnceInv` says of a contract in which no modifier
repeats an awaited call that a call node with a continuation belongs to a unit
that was started, and that the code that is left, with the blocks its placeholder
leads to, names each call node at most once and none that has a continuation
(`FreshIn`). A unit that starts has not been started before, so its nodes are
fresh (`StartFresh`).

Two more assumptions describe the syntax tree. `PlaceholderAssumption`: a
modifier has a placeholder; the syntax checker refuses others
(test/syntax/solidity/modifiers/modifier_without_underscore.sol).
`NodesAssumption`: a call node has one place in the tree. The first is needed:
behind a modifier without placeholder the function's body would never be
compiled, and what it refers to would not be missing.

### CompilerStackProofs

For all programs, settings and orders of calls of the API, failing ones included:

* `TypeCorrect`: `Spec => []TypeOK`;
* `CodeOnlyForAnalysed`: `Spec => []ObjectsAnalysed`;
* `BytecodeWithItsParts`: `Spec => []ObjectsComplete`;
* `SuccessComplete`: `Spec => SuccessIsComplete`, an action property. It asks for
  all requested contracts if the names are those that `analyze` saw, and for those
  in its order of sources otherwise; `EveryContractCompiled` shows that more
  does not hold.

The invariant `Sound` adds what later phases rely on and no property states:
without an error no source lacks its AST (`AstSound`), the analysed sources are
closed under imports (`OrderSound`), and there is no code before the analysis
or after an error (`CodeSound`). Each phase is an operator, and there is one
lemma for each that it leads from sound fields to sound fields (`ParseSound`,
`AnalyzeSound`, `GenerateSound`, `CompileSound`); the actions follow. `Needs`
(the contracts that a contract brings in by `new`) is a least fixed point;
`NeedsLeast`, `NeedsClosed` and `NeedsTransitive` are all that is used of it.
`ProgramsAssumption` says that `order` lists a source once, that only deployable
contracts are rejected by the code generator, and that contracts are created
without cycles, which the analysis guarantees in the code; imports in a cycle
are outside the model.

### StandardCompilerProofs and CommandLineProofs

Both extend `CompilerStackProofs` and use its lemmas about the phases, now for a
stack that is made afresh for each request.

`StandardCompilerProofs`, for all requests, programs, answers of the callback and
calls of the host in between:

* `MemoryOwned`: `SSpec => []OwnershipExact`;
* `AnswersComplete`: `SSpec => []CompleteWithoutError`;
* `NothingSwallowed`: `SSpec => []FailuresReported`.

`SInv` follows a call through its phases: no source is lost by `parseInput`
without an error (`ReadSound`), which settings were accepted (`SettingsSound`),
and what the stack looks like when the answer is put together (`CollectSound`).
`SelectedIsRequested` and `SelectedIsAvailable` say that the three places where
the output selection is evaluated agree.

`CommandLineProofs`, for all command lines, programs, libraries and failing
writes, and any number of runs:

* `ExitCodeTold`: `CSpec => []ExitCodeTruthful`;
* `LinkedInSteps`: `CSpec => []LinkedAsCompiled`.

`CInv` says of each object file that is complete that it is the one `Expected` from
the names it was compiled and linked with (`FilesSound`), whatever other files
were truncated in between; the rest is about the process: the
files linked but not yet written (`LinkSound`), the result of the compilation
(`ResultSound`) and the outputs made or refused (`DeliveredSound`).

`InputsAssumption`, `LibrariesAssumption` and `InvocationsAssumption` give the
constants their types, and say that the empty string names no source and that
the null pointer is not allocated.

### AssemblerProofs

For all sets of assemblies:

* `CopiesStayFaithful`: `Spec => []CopiesFaithful`;
* `LinksExact`: `Spec => []LinksCoverUses`.

The invariant `AInv` has three parts. `ControlInv`: what is complete is closed
under subassemblies, and an assembly is only under way when its own are complete.
`ObjectInv`: every object is `Good`, complete or not. Its fields lie in it and
begin at different places, its link references are its uses of libraries, and
each copy of a subassembly in it is `Faithful` to an object that is complete and
has a smaller number. `LinkInv`: what is linked was used. There is one lemma for
each way in which an object changes: it gets longer (`GoodLonger`), a push
instruction is added (`GoodField`), own fields are filled in (`GoodFilled`), a
complete object is appended (`GoodAppended`). Filling in does not disturb a copy
because the fields of a copy belong to assemblies with smaller numbers; an
appended object brings its own copies, whose references were moved before
(`ShiftTwice`). `LinkKeeps` is the step of `link`; it needs that no two uses are at
the same place.

`ProgramsAssumption` gives items, data and auxiliary data their types and numbers
the assemblies so that subassemblies come first, as there are no cycles; the path
of a `PushSub` leads to a subassembly at some depth, which `subAssemblyById`
asserts. Neither result depends on the widths of references, which the model
limits to the three bytes of a program of 16 MB (`MaxWidth`).

### FunctionCodegenProofs

For every function, whatever it is made of:

* `CountedHeights`: `Spec => []HeightsAgree`;
* `ScopesBalanced`: `Spec => []Balanced`, a part of `NeverAsserts`.

The compiler knows the height of the stack only from counting, and it corrects
the count by hand around jumps; where a tag is placed, nothing compares the
count with those at the jumps to it. So the proof needs a height for each tag
(`T`), fixed when the tag is created. A *point* describes the compiler between two
tasks: the height `h` it has counted, the height `g` that the machine has there
(they differ between a jump and the correction behind it), the scopes, the stacks
of break, continue and return targets, and the modifier depth. `Step` says from
which point to which a task leads: an instruction `Fits` if the heights in front
of it, behind it and at its target agree; a scope is closed at the height at
which it was opened; a statement ends at the height where it began, or above its
declaration. A `Flow` is a list of tasks whose steps fit together.

Most of the proof shows for each task that is replaced by others, hence for each
statement, that if it stands at a point from which its step leads to another,
then the tasks it becomes are a flow between the same two points, for some
heights of the tags it creates (`BlockVisited`, `ForVisited`, `TryVisited` and so
on). The invariant `HeightsFollowed` says while compiling that the fields of the
compiler describe a point, that the tasks left are a flow from there to the end,
that the code so far fits `T`, and that every tag has a place in the code or in
the tasks; while running, that the machine's stack has the height that fits the
next instruction. It does not mention the statements that are still to be
visited otherwise than by their steps, so that nothing is proved by induction over
the program. Once the frame of the function is being removed, the rest of the
code has no jumps and heights are followed inside `Reshuffle` only (`Unknown`).

`StatementsAssumption` says what the classes of the AST say of each kind of
statement, and that it is a tree: a block or for loop is not part of itself, which
is why a scope is never opened twice at one modifier depth. A success clause takes
all values or none, `catch Error` and `catch Panic` take one value of one slot, no
declaration is the only statement of a branch or a loop: these are rules of the
type and syntax checkers. `ProgramsAssumption` adds that `receive` has no
parameters.

### ParserProofs

For all lists of sources, whatever their tokens are, with and without recovery
and for every limit of errors:

* `PlaceholdersOnlyInModifiers`: `Spec => []PlaceholdersInModifiersOnly`;
* `AcceptedIsParsed`: `Spec => []AcceptedMeansParsed`.

The invariant `PInv` adds to these what the steps need of the functions under way.
`Good`: functions that throw nodes away when they end, or when an exception ends
them, know where to. `StackInv`: above the end of a definition of a modifier there
is no function of `Outer` (source units, contracts, their parts and modifiers).
Without it, the property is not inductive: an exception that removes one end of a
definition resets the flag, and there could be another end below. `PushInv` and
`UnwindInv` are the two facts about the stack, that functions may take the place of
another one if they `Fit`, and that an exception keeps the invariant wherever its
handler is. Of the 66 actions, all but eight then only need that the functions they
call are `Inner` ones, which may be called from anywhere; the eight have proofs of
their own. That an exception is never without an error is where
`AcceptedMeansParsed` comes from: the parser is recovering only after one.

`CompilationsAssumption` says that a compilation is a list of sources, at least
one, and a source a sequence of tokens.

### Only model-checked

* Termination of code generation and of the parser: fairness is out of the
  prover's reach.
* That the parser accepts and builds what the grammar says, and the ABI: their
  references are recursive operators.
* The refinement of `ArrayModel`, the integer operators: they need induction over
  bytes or reasoning about powers of two and remainders.
* `ReferencesExact` and `FailsOnlyForCause` of `Assembler`. The estimate that
  fixes the widths can be less than the size (`EstimateIsUpperBound`): by unread
  immutables, by `PushSub` and `PushData` that are wider than tags, by copies of
  subassemblies that are not counted. So both properties are conditional on the
  estimate, and a proof would have to compare two sums over the items of an
  assembly, an induction.
* Of `FunctionCodegen`: `ReadsFindVariable`, `FrameRemoved` and
  `ModifiersRunToTheEnd` speak of what the slots hold and of what was run before;
  they need, above the heights, that every slot of every frame is followed
  through the code, and for the removal of the frame a measure of how many slots
  are out of place. Of `NeverAsserts` the part about statements, scopes and jump
  targets is proved (`ScopesBalanced`); the rest is about the table of local
  variables and about the layout that `Reshuffle` ends with.
* The invariants of `CallCodegen`: the code of the encoder is a concatenation
  over the arguments, and where a slot is found at its end depends on sums over
  them.

The three `TypeOK`s that are proved are not among the properties of a run.

## 5. Not modelled

Optimiser passes, Yul, the scanner and name resolution are not in the repository.
Metadata, documentation, gas estimates, JSON and text output are formatting.
Inline assembly is delegated to Yul. The AST is a data structure without control
of its own; `libsolutil` and `EVMVersion` are pure functions and tables. The
components with status `not_modelled` in `PROJECT.json` are listed with reasons;
the notes of the others say what is left out of each.

## 6. Plan

1. Proofs: the local variables of `FunctionCodegen` (`NeverAsserts`).
2. `Await`: the protocol of `SYNCCALL`, `CALLBACKDEST` and the dispatch by
   selector at run time, with the Vite VM as the environment, composed with
   `ContractCodegen`; an abstract specification of a call that returns once.
3. Remappings of import paths against a reference definition.
4. The Solidity++ checks of the type checker, and cycle detection in
   `DeclarationTypeChecker`.
