---------------------------- MODULE CallCodegen ----------------------------
(***************************************************************************)
(* The code generated for a call of another contract.                      *)
(*                                                                         *)
(* ExpressionCompiler emits it piece by piece, and finds what it needs on  *)
(* the stack by counting slots.  Apart from the jump of a failed try call  *)
(* the code is a straight line, so the model runs every piece as soon as   *)
(* it is emitted: Len(stack) is the height the compiler counts, and code   *)
(* the part of the last piece that has not run yet.                        *)
(*                                                                         *)
(* Calls to other contracts are asynchronous messages on Vite.  A call     *)
(* that is synchronous (awaited, or in a source written in Solidity) ends  *)
(* the execution with SYNCCALL; the answer resumes it behind CALLBACKDEST, *)
(* with the old stack and a success flag.  CALL sends the message and      *)
(* pushes nothing.                                                         *)
(***************************************************************************)
EXTENDS Integers, SequencesExt

CONSTANTS
    Calls,      \* the calls of the source program, records as below
    FreeMemory  \* the free memory pointer before the call

BareKinds == {"bareCall", "bareDelegate", "bareStatic"}
Builtins == {"ecrecover", "sha256", "ripemd160"}
DelegateKinds == {"delegate", "bareDelegate"}
SendKinds == {"send", "transfer"}
Kinds == {"external", "delegate", "creation"} \cup BareKinds \cup Builtins \cup SendKinds

\* An argument of a call: the slots of its type, and whether it is a dynamic
\* array, then with the bytes it has.  External functions have two slots, and
\* so have arrays in call data.
Arguments == [slots : 1..2, dynamic : BOOLEAN, bytes : Nat]

\* options is the order in which token and value are written, self the slots of
\* the bound object, returns those of the values returned.  coder is the
\* pragma abicoder.
Options == {<<>>, <<"token">>, <<"value">>, <<"token", "value">>, <<"value", "token">>}
CallOK(c) ==
    /\ c.kind \in Kinds /\ c.args \in Seq(Arguments) /\ c.options \in Options
    /\ c.self \in 0..1 /\ c.returns \in Nat /\ c.coder \in {"v1", "v2"}
    /\ c.sync \in BOOLEAN /\ c.try \in BOOLEAN
    \* The type checker's restrictions.
    /\ c.options # <<>> => c.kind \in {"external", "bareCall", "creation"}
    /\ c.self > 0 => c.kind = "delegate"
    /\ c.try => c.kind \in {"external", "delegate", "creation"}
    /\ c.sync => c.kind \in {"external", "bareCall", "bareStatic"}
    /\ c.kind \in BareKinds \cup {"sha256", "ripemd160"} =>
          Len(c.args) = 1 /\ c.args[1].dynamic
    \* send(amount), transfer(token, amount)
    /\ c.kind = "send" => Len(c.args) = 1
    /\ c.kind = "transfer" => Len(c.args) = 2
    /\ c.kind \in SendKinds \cup {"ecrecover"} =>
          \A i \in DOMAIN c.args : ~c.args[i].dynamic /\ c.args[i].slots = 1
    /\ c.kind = "ecrecover" => Len(c.args) = 4
    /\ c.kind \in SendKinds \cup {"creation"} => c.returns = 0
    /\ c.kind \in Builtins => c.returns = 1

ASSUME CallsAssumption == \A c \in Calls : CallOK(c)
ASSUME MemoryAssumption == FreeMemory \in Nat /\ FreeMemory >= 64

VARIABLES
    call,     \* the call being compiled
    phase,    \* the piece of code emitted last
    todo,     \* options not yet evaluated
    entry,    \* the height when appendExternalFunctionCall is entered
    code,     \* instructions not yet run
    stack,    \* top last
    memory,   \* what is stored, by its address
    free,     \* the free memory pointer
    sent,     \* the message sent, <<>> before
    flag,     \* whether the callee succeeded
    outcome   \* running, waiting, done, reverted, tooDeep

vars == <<call, phase, todo, entry, code, stack, memory, free, sent, flag, outcome>>

-----------------------------------------------------------------------------
(***************************************************************************)
(* Slots and instructions.                                                 *)
(***************************************************************************)
Num(n) == <<"number", n>>
Locals == << <<"local", 1>>, <<"local", 2>> >>
ViteToken == <<"vite">>

Push(x) == <<"push", x>>
Dup(n) == <<"dup", n>>
Swap(n) == <<"swap", n>>
Op(name) == <<name>>
Times(n, instruction) == [i \in 1..n |-> instruction]

\* Helpers of CompilerUtils.
FetchFree == <<Op("fetchFree")>>
PopStackSlots(n) == Times(n, Op("pop"))
CopyToStackTop(depth, size) == Times(size, Dup(depth))
RotateStackUp(items) == [i \in 1..items - 1 |-> Swap(items - i)]
RotateStackDown(items) == [i \in 1..items - 1 |-> Swap(i)]

MoveIntoStack(depth, size) ==
    IF depth <= size THEN FlattenSeq(Times(depth, RotateStackDown(depth + size)))
                     ELSE FlattenSeq(Times(size, RotateStackUp(depth + size)))
ToSizeAfterFreeMemoryPointer == FetchFree \o <<Dup(1), Swap(2), Op("sub"), Swap(1)>>

StoreInMemoryDynamic == <<Dup(2), Op("mstore"), Push(Num(32)), Op("add")>>

\* Properties of function types.
IsBareCall(c) == c.kind \in BareKinds \cup Builtins \cup SendKinds
PadArguments(c) == c.kind \notin BareKinds \cup SendKinds \cup {"sha256", "ripemd160"}
TakesInPlace(c) == IsBareCall(c) /\ c.kind # "ecrecover"
IsDelegate(c) == c.kind \in DelegateKinds

\* send and transfer are compiled as a bare call with value and token set.
ValueSet(c) == Contains(c.options, "value") \/ c.kind \in SendKinds
TokenSet(c) == Contains(c.options, "token") \/ c.kind \in SendKinds
One(b) == IF b THEN 1 ELSE 0
ValueTokenSize(c) == One(ValueSet(c)) + One(TokenSet(c))

\* Arguments that are encoded: the bound object is the first; those of send and
\* transfer are not encoded.
SelfArgument == [slots |-> 1, dynamic |-> FALSE, bytes |-> 32]
Encoded(c) == IF c.kind \in SendKinds THEN <<>>
              ELSE (IF c.self = 1 THEN <<SelfArgument>> ELSE <<>>) \o c.args
SlotOf(c, i, k) == IF c.self = 1 /\ i = 1 THEN <<"self">> ELSE <<"arg", i, k>>
SlotsBefore(args, i) == FoldLeft(LAMBDA n, a : n + a.slots, 0, SubSeq(args, 1, i - 1))
SizeOnStack(args) == SlotsBefore(args, Len(args) + 1)

-----------------------------------------------------------------------------
(***************************************************************************)
(* encodeToMemory: before, the values and the memory pointer are on the    *)
(* stack, then its end.  In between, the heads of dynamic values are       *)
(* remembered on the stack until their data is copied.  The explicit depth *)
(* tests of encodeToMemory (argSize + dynPointers < 16) are implied by the *)
(* limit of the SWAP at its end.                                           *)
(***************************************************************************)
DynBefore(args, i) == Cardinality({j \in 1..i - 1 : args[j].dynamic})

EncodeHead(args, inPlace, pad, i) ==
    LET a == args[i]
        dyn == IF inPlace THEN 0 ELSE DynBefore(args, i)
    IN IF a.dynamic /\ ~inPlace
       THEN <<Dup(1), Push(Num(32)), Op("add")>>
       ELSE CopyToStackTop(SizeOnStack(args) - SlotsBefore(args, i) + dyn + 2, a.slots)
            \o (IF a.dynamic THEN << <<"copyArray", i, pad>> >>
                ELSE (IF a.slots = 2 THEN <<Op("combine")>> ELSE <<>>) \o StoreInMemoryDynamic)

\* Mutant: the depth of a value forgets the heads that are on the stack.
EncodeTailWithoutHeads(args, pad, i) ==
    LET a == args[i]
        dyn == DynBefore(args, Len(args) + 1)
    IN <<Dup(2 + dyn), Dup(2), Op("sub"), Dup(2 + dyn - DynBefore(args, i)), Op("mstore")>>
       \o CopyToStackTop(SizeOnStack(args) - SlotsBefore(args, i) + 3, a.slots)
       \o <<Dup(1 + a.slots), Op("length")>> \o StoreInMemoryDynamic
       \o <<Swap(a.slots + 1), Op("pop"), <<"copyArray", i, pad>> >>

EncodeTail(args, pad, i) ==
    LET a == args[i]
        dyn == DynBefore(args, Len(args) + 1)
    IN <<Dup(2 + dyn), Dup(2), Op("sub"), Dup(2 + dyn - DynBefore(args, i)), Op("mstore")>>
       \o CopyToStackTop(SizeOnStack(args) - SlotsBefore(args, i) + dyn + 2, a.slots)
       \o <<Dup(1 + a.slots), Op("length")>> \o StoreInMemoryDynamic
       \o <<Swap(a.slots + 1), Op("pop"), <<"copyArray", i, pad>> >>

EncodeToMemory(c, pad, inPlace) ==
    LET args == Encoded(c)
        dyn == IF inPlace THEN 0 ELSE DynBefore(args, Len(args) + 1)
        rest == SizeOnStack(args) + dyn + 1
    IN IF args = <<>> THEN <<>>
       ELSE IF c.coder = "v2" THEN << <<"abiEncodeV2", pad, inPlace>> >>
       ELSE <<Dup(1)>>
            \o FlattenSeq([i \in 1..Len(args) |-> EncodeHead(args, inPlace, pad, i)])
            \o FlattenSeq([i \in 1..Len(args) |->
                  IF args[i].dynamic /\ ~inPlace THEN EncodeTail(args, pad, i) ELSE <<>>])
            \o <<Swap(rest)>> \o PopStackSlots(rest)

-----------------------------------------------------------------------------
(***************************************************************************)
(* The pieces of appendExternalFunctionCall.  h is the height when one is  *)
(* emitted, e the height when the function was entered; slots are found    *)
(* again through currentToBaseStackOffset and baseToCurrentStackOffset.    *)
(***************************************************************************)
\* The expression called, without options.
TargetCode(c) ==
    IF c.kind = "creation" THEN <<>>
    ELSE <<Push(<<"address">>)>>
         \o (IF c.kind \in {"external", "delegate"} THEN <<Push(<<"function">>)>> ELSE <<>>)
         \o (IF c.self = 1 THEN <<Push(<<"self">>)>> ELSE <<>>)

\* Mutant: options stay in the order in which they are written.
OptionAppended(c, k) == <<Push(<<c.options[k]>>)>>

\* visit(FunctionCallOptions): one more option is moved below the ones that
\* belong above it.  The order is token, value.
OptionCode(c, k) ==
    LET present == SubSeq(c.options, 1, k - 1)
        below == c.options[k] = "token" /\ Contains(present, "value")
    IN <<Push(<<c.options[k]>>)>> \o MoveIntoStack(One(below), 1)

\* send and transfer evaluate their arguments before the call is compiled.
SendArgumentCode(c) ==
    IF c.kind = "transfer" THEN <<Push(<<"token">>), Push(<<"value">>)>>
    ELSE IF c.kind = "send" THEN <<Push(<<"value">>)>> ELSE <<>>

\* The self object is moved up; then the arguments, and the clearing of the
\* output area of ecrecover.
ArgumentCode(c) ==
    LET args == Encoded(c)
        slots == [i \in 1..Len(args) |-> [k \in 1..args[i].slots |-> Push(SlotOf(c, i, k))]]
    IN MoveIntoStack(c.self, ValueTokenSize(c))
       \o FlattenSeq(IF c.self = 1 THEN Tail(slots) ELSE slots)
       \o (IF c.kind = "ecrecover"
           THEN FetchFree \o <<Push(Num(0)), Dup(2), Op("mstore"), Push(Num(32)), Op("add"), Op("storeFree")>>
           ELSE <<>>)

\* Code of the new contract or function identifier first, then the arguments.
EncodeCode(c) ==
    FetchFree
    \o (IF c.kind = "creation" THEN <<Op("copyCode")>>
        ELSE IF IsBareCall(c) THEN <<>>
        ELSE <<Dup(2 + ValueTokenSize(c) + SizeOnStack(Encoded(c))), Op("storeSelector")>>)
    \o EncodeToMemory(c, PadArguments(c), TakesInPlace(c))

\* Output size and position are only needed by DELEGATECALL.
SizeCode(c) ==
    <<Push(<<"outSize">>)>> \o FetchFree
    \o (IF c.kind = "ecrecover"
        THEN <<Push(Num(32)), Dup(2), Op("sub"), Swap(1), Dup(1), Dup(5), Op("sub"), Swap(1)>>
        ELSE IF IsDelegate(c) THEN <<Dup(1), Dup(4), Op("sub"), Dup(2)>>
        ELSE <<Swap(1), Op("pop"), Dup(1), Dup(3), Op("sub"), Swap(1)>>)

ValueCode(c, h, e) ==
    IF IsDelegate(c) THEN <<>>
    ELSE IF ValueSet(c)
      THEN <<Dup(h - e + 1), IF TokenSet(c) THEN Dup(h + 1 - e + ValueTokenSize(c)) ELSE Push(ViteToken)>>
    ELSE <<Push(Num(0)), Push(ViteToken)>>

ContractPosition(c) == 1 + ValueTokenSize(c) + c.self + One(~IsBareCall(c))
AddressCode(c, h, e) ==
    <<Dup(h - e + ContractPosition(c))>> \o (IF c.sync THEN <<Push(<<"callback">>)>> ELSE <<>>)

InvokeCode(c) == <<Op(IF IsDelegate(c) THEN "delegatecall" ELSE IF c.sync THEN "synccall" ELSE "call")>>

RemainsSize(c) == 2 + ValueTokenSize(c) + One(~IsBareCall(c))
FlagPushed(c) == c.sync \/ IsDelegate(c)
ReturnsFlag(c) == c.kind \in BareKinds \cup SendKinds

\* Mutant: the function identifier is not counted.
CleanupForgetsFunction(c) ==
    (IF ~FlagPushed(c) THEN <<>>
     ELSE IF ~ReturnsFlag(c) /\ ~c.try THEN <<Op("iszero"), Op("revertIf")>>
     ELSE <<Swap(RemainsSize(c) - 1)>>)
    \o PopStackSlots(RemainsSize(c) - 1)

CleanupCode(c) ==
    (IF ~FlagPushed(c) THEN <<>>
     ELSE IF ~ReturnsFlag(c) /\ ~c.try THEN <<Op("iszero"), Op("revertIf")>>
     ELSE <<Swap(RemainsSize(c))>>)
    \o PopStackSlots(RemainsSize(c))
    \o (IF c.try /\ FlagPushed(c) THEN <<Dup(1), Op("iszero"), Op("jumpToEnd"), Op("pop")>> ELSE <<>>)

\* Values returned are of value types, one slot each: a delegate call has them
\* in memory, and the first encoder leaves the free memory pointer alone then.
ResultCode(c) ==
    (IF c.kind \in BareKinds THEN <<Push(<<"returndata">>)>>
     ELSE IF c.kind = "ripemd160" THEN FetchFree \o <<Op("mload")>>
     ELSE IF c.kind = "ecrecover" THEN <<Push(Num(32))>> \o FetchFree \o <<Op("sub"), Op("mload")>>
     ELSE IF c.returns = 0 THEN <<>>
     ELSE IF FlagPushed(c)
       THEN FetchFree \o <<Push(Num(32 * c.returns))>>
            \o (IF ~IsDelegate(c) \/ c.coder = "v2" THEN <<Op("updateFree")>> ELSE <<>>)
            \o <<Op("abiDecode")>>
     ELSE Times(c.returns, Push(<<"zero">>)))
    \o (IF c.try THEN <<Push(Num(1))>> ELSE <<>>)

\* visit(FunctionCall) for new: the code and the arguments are the message.
CreateCode(c) ==
    ToSizeAfterFreeMemoryPointer
    \o <<IF ValueSet(c) THEN Dup(3) ELSE Push(Num(0)), Op("create")>>
    \o (IF ValueSet(c) THEN <<Swap(1), Op("pop")>> ELSE <<>>)
    \o <<Dup(1), Op("iszero")>>
    \o (IF c.try THEN <<Op("jumpToEnd"), Push(Num(1))>> ELSE <<Op("revertIf")>>)

-----------------------------------------------------------------------------
(***************************************************************************)
(* The compiler: one action per piece.                                     *)
(***************************************************************************)
Init ==
    /\ call \in Calls /\ phase = "start" /\ todo = 1 /\ entry = 0
    /\ code = <<>> /\ stack = Locals /\ memory = [a \in {} |-> <<>>] /\ free = FreeMemory
    /\ sent = <<>> /\ flag = FALSE /\ outcome = "running"

Emit(from, to, instructions) ==
    /\ outcome = "running" /\ code = <<>> /\ phase = from
    /\ phase' = to /\ code' = instructions
    /\ UNCHANGED <<call, stack, memory, free, sent, flag, outcome>>

EmitTarget == Emit("start", "target", TargetCode(call)) /\ UNCHANGED <<todo, entry>>

EmitOption ==
    /\ todo <= Len(call.options)
    /\ Emit("target", "target", OptionCode(call, todo))
    /\ todo' = todo + 1 /\ UNCHANGED entry

EmitSendArguments ==
    /\ todo > Len(call.options)
    /\ Emit("target", "entry", SendArgumentCode(call)) /\ UNCHANGED <<todo, entry>>

EmitArguments ==
    /\ Emit("entry", "arguments", ArgumentCode(call))
    /\ entry' = Len(stack) /\ UNCHANGED todo

EmitEncode == Emit("arguments", "encode", EncodeCode(call)) /\ UNCHANGED <<todo, entry>>
EmitSize ==
    /\ call.kind # "creation"
    /\ Emit("encode", "size", SizeCode(call)) /\ UNCHANGED <<todo, entry>>
EmitValue == Emit("size", "value", ValueCode(call, Len(stack), entry)) /\ UNCHANGED <<todo, entry>>
EmitAddress == Emit("value", "address", AddressCode(call, Len(stack), entry)) /\ UNCHANGED <<todo, entry>>
EmitInvoke == Emit("address", "invoke", InvokeCode(call)) /\ UNCHANGED <<todo, entry>>
EmitCleanup == Emit("invoke", "cleanup", CleanupCode(call)) /\ UNCHANGED <<todo, entry>>
EmitResult == Emit("cleanup", "end", ResultCode(call)) /\ UNCHANGED <<todo, entry>>
EmitCreate ==
    /\ call.kind = "creation"
    /\ Emit("encode", "end", CreateCode(call)) /\ UNCHANGED <<todo, entry>>

EmitDone ==
    /\ outcome = "running" /\ code = <<>> /\ phase = "end" /\ outcome' = "done"
    /\ UNCHANGED <<call, phase, todo, entry, code, stack, memory, free, sent, flag>>

-----------------------------------------------------------------------------
(***************************************************************************)
(* The machine: one action per instruction, or per group of instructions   *)
(* of the helpers that are not in the repository.                          *)
(***************************************************************************)
CodeSize == 100   \* of a contract that is created
RoundUp(n) == ((n + 31) \div 32) * 32
Top(n) == stack[Len(stack) - n + 1]
IsNumber(x) == x[1] = "number"
Minus(x, y) == IF IsNumber(x) /\ IsNumber(y) THEN Num(x[2] - y[2]) ELSE <<"garbage">>
Plus(x, y) == IF IsNumber(x) /\ IsNumber(y) THEN Num(x[2] + y[2]) ELSE <<"garbage">>
Address(x) == IF IsNumber(x) THEN x[2] ELSE -1
Stored(x, content) == [a \in DOMAIN memory \cup {Address(x)} |->
                          IF a = Address(x) THEN content ELSE memory[a]]

\* The ABI encoding of the arguments from address m on, by its definition: a
\* head of one word for each value, then the dynamic ones in their order.
TailSize(a) == IF a.dynamic THEN 32 + RoundUp(a.bytes) ELSE 0
TailStart(args, i) == FoldLeft(LAMBDA n, a : n + TailSize(a), 32 * Len(args), SubSeq(args, 1, i - 1))
InPlaceSize(a, pad) == IF a.dynamic THEN (IF pad THEN RoundUp(a.bytes) ELSE a.bytes) ELSE 32
InPlaceStart(args, pad, i) ==
    FoldLeft(LAMBDA n, a : n + InPlaceSize(a, pad), 0, SubSeq(args, 1, i - 1))
Content(c, i) == IF Encoded(c)[i].slots = 2 THEN <<"combined", i>> ELSE SlotOf(c, i, 1)
EncodedSize(c, pad, inPlace) ==
    LET n == Len(Encoded(c))
    IN IF inPlace THEN InPlaceStart(Encoded(c), pad, n + 1) ELSE TailStart(Encoded(c), n + 1)
EncodedCells(c, pad, inPlace, m) ==
    LET args == Encoded(c)
        Dynamic == {i \in DOMAIN args : args[i].dynamic}
    IN IF inPlace THEN {<<m + InPlaceStart(args, pad, i), <<"data", i>> >> : i \in Dynamic}
       ELSE {<<m + 32 * (i - 1), IF i \in Dynamic THEN Num(TailStart(args, i)) ELSE Content(c, i)>>
                : i \in DOMAIN args}
            \cup {<<m + TailStart(args, i), <<"length", i>> >> : i \in Dynamic}
            \cup {<<m + TailStart(args, i) + 32, <<"data", i>> >> : i \in Dynamic}
CellsOf(f) == {<<a, f[a]>> : a \in DOMAIN f}
FromCells(S) == [a \in {s[1] : s \in S} |-> (CHOOSE s \in S : s[1] = a)[2]]

\* The next instruction removes n slots and pushes new ones.
Takes(n, pushed) ==
    /\ stack' = SubSeq(stack, 1, Len(stack) - n) \o pushed
    /\ code' = Tail(code)
Running(name) == outcome = "running" /\ code # <<>> /\ Head(code)[1] = name

RunPush ==
    /\ Running("push") /\ Takes(0, <<Head(code)[2]>>)
    /\ UNCHANGED <<call, phase, todo, entry, memory, free, sent, flag, outcome>>

\* dupInstruction and swapInstruction throw beyond 16.
RunDup ==
    /\ Running("dup")
    /\ LET n == Head(code)[2]
       IN IF n > 16 THEN outcome' = "tooDeep" /\ UNCHANGED <<stack, code>>
          ELSE Takes(0, <<Top(n)>>) /\ UNCHANGED outcome
    /\ UNCHANGED <<call, phase, todo, entry, memory, free, sent, flag>>

RunSwap ==
    /\ Running("swap")
    /\ LET n == Head(code)[2]
       IN IF n > 16 THEN outcome' = "tooDeep" /\ UNCHANGED <<stack, code>>
          ELSE /\ Takes(n + 1, <<Top(1)>> \o SubSeq(stack, Len(stack) - n + 1, Len(stack) - 1) \o <<Top(n + 1)>>)
               /\ UNCHANGED outcome
    /\ UNCHANGED <<call, phase, todo, entry, memory, free, sent, flag>>

RunStack ==
    /\ \/ Running("pop") /\ Takes(1, <<>>)
       \/ Running("sub") /\ Takes(2, <<Minus(Top(1), Top(2))>>)
       \/ Running("add") /\ Takes(2, <<Plus(Top(1), Top(2))>>)
       \/ Running("iszero") /\ Takes(1, <<Num(One(Top(1) = Num(0)))>>)
       \/ Running("combine") /\ Takes(2, <<IF Top(1)[1] = "arg" /\ Top(2)[1] = "arg" THEN <<"combined", Top(1)[2]>>
                                           ELSE <<"garbage">> >>)
       \/ Running("length") /\ Takes(0, <<IF Top(2)[1] = "arg" THEN <<"length", Top(2)[2]>> ELSE <<"garbage">> >>)
       \/ Running("fetchFree") /\ Takes(0, <<Num(free)>>)
       \/ Running("mload") /\ Takes(1, <<IF Address(Top(1)) \in DOMAIN memory THEN memory[Address(Top(1))]
                                         ELSE <<"garbage">> >>)
    /\ UNCHANGED <<call, phase, todo, entry, memory, free, sent, flag, outcome>>

\* abiDecode, whatever the decoder: the values take the place of start and length.
RunAbiDecode ==
    /\ Running("abiDecode") /\ Takes(2, [k \in 1..call.returns |-> <<"returned", k>>])
    /\ UNCHANGED <<call, phase, todo, entry, memory, free, sent, flag, outcome>>

RunMemory ==
    /\ \/ Running("mstore") /\ memory' = Stored(Top(1), Top(2)) /\ Takes(2, <<>>)
       \/ Running("storeSelector") /\ memory' = Stored(Top(2), Top(1)) /\ Takes(2, <<Plus(Top(2), Num(4))>>)
       \/ Running("copyCode") /\ memory' = Stored(Top(1), <<"code">>) /\ Takes(1, <<Plus(Top(1), Num(CodeSize))>>)
       \/ /\ Running("copyArray")
          /\ LET i == Head(code)[2]
                 a == Encoded(call)[i]
                 found == \A k \in 1..a.slots : Top(a.slots - k + 1) = SlotOf(call, i, k)
             IN /\ memory' = Stored(Top(a.slots + 1), IF found THEN <<"data", i>> ELSE <<"garbage">>)
                /\ Takes(a.slots + 1, <<Plus(Top(a.slots + 1), Num(InPlaceSize(a, Head(code)[3])))>>)
    /\ UNCHANGED <<call, phase, todo, entry, free, sent, flag, outcome>>

\* abiEncodeV2: the Yul function takes all arguments and the start of the memory,
\* and leaves its end.
RunAbiEncode ==
    /\ Running("abiEncodeV2")
    /\ LET m == Address(Top(1))
       IN /\ memory' = FromCells(CellsOf(memory) \cup EncodedCells(call, Head(code)[2], Head(code)[3], m))
          /\ Takes(SizeOnStack(Encoded(call)) + 1,
                   <<Num(m + EncodedSize(call, Head(code)[2], Head(code)[3]))>>)
    /\ UNCHANGED <<call, phase, todo, entry, free, sent, flag, outcome>>

RunFree ==
    /\ \/ Running("storeFree") /\ free' = Address(Top(1)) /\ Takes(1, <<>>)
       \/ Running("updateFree") /\ free' = Address(Top(2)) + RoundUp(Address(Top(1))) /\ Takes(0, <<>>)
    /\ UNCHANGED <<call, phase, todo, entry, memory, sent, flag, outcome>>

Message(address, token, value, offset, size) ==
    [address |-> address, token |-> token, value |-> value, offset |-> offset, size |-> size]
None == <<"none">>

\* CALL sends the message; SYNCCALL and STOP end the execution as well.
RunCall ==
    /\ \/ Running("call") /\ Takes(5, <<>>) /\ UNCHANGED outcome
          /\ sent' = Message(Top(1), Top(2), Top(3), Top(4), Top(5))
       \/ Running("synccall") /\ Takes(6, <<>>) /\ outcome' = "waiting"
          /\ sent' = Message(Top(2), Top(3), Top(4), Top(5), Top(6))
    /\ UNCHANGED <<call, phase, todo, entry, memory, free, flag>>

\* CALLBACKDEST: the machine runs the contract again when the answer arrives.
Answer ==
    /\ outcome = "waiting" /\ outcome' = "running"
    /\ \E ok \in BOOLEAN : flag' = ok /\ stack' = Append(stack, Num(One(ok)))
    /\ UNCHANGED <<call, phase, todo, entry, code, memory, free, sent>>

RunDelegateCall ==
    /\ Running("delegatecall") /\ sent' = Message(Top(1), None, None, Top(2), Top(3))
    /\ \E ok \in BOOLEAN : flag' = ok /\ Takes(5, <<Num(One(ok))>>)
    /\ UNCHANGED <<call, phase, todo, entry, memory, free, outcome>>

RunCreate ==
    /\ Running("create") /\ sent' = Message(None, None, Top(1), Top(2), Top(3))
    /\ \E ok \in BOOLEAN : flag' = ok /\ Takes(3, <<IF ok THEN <<"contract">> ELSE Num(0)>>)
    /\ UNCHANGED <<call, phase, todo, entry, memory, free, outcome>>

RunRevertIf ==
    /\ Running("revertIf") /\ Takes(1, <<>>)
    /\ outcome' = IF Top(1) = Num(0) THEN outcome ELSE "reverted"
    /\ UNCHANGED <<call, phase, todo, entry, memory, free, sent, flag>>

RunJumpToEnd ==
    /\ Running("jumpToEnd")
    /\ IF Top(1) = Num(0) THEN Takes(1, <<>>) /\ UNCHANGED phase
       ELSE stack' = Front(stack) /\ code' = <<>> /\ phase' = "end"
    /\ UNCHANGED <<call, todo, entry, memory, free, sent, flag, outcome>>

Next ==
    \/ EmitTarget \/ EmitOption \/ EmitSendArguments \/ EmitArguments \/ EmitEncode \/ EmitSize
    \/ EmitValue \/ EmitAddress \/ EmitInvoke \/ EmitCleanup \/ EmitResult \/ EmitCreate \/ EmitDone
    \/ RunPush \/ RunDup \/ RunSwap \/ RunStack \/ RunMemory \/ RunAbiEncode \/ RunAbiDecode
    \/ RunFree \/ RunCall \/ Answer
    \/ RunDelegateCall \/ RunCreate \/ RunRevertIf \/ RunJumpToEnd

Spec == Init /\ [][Next]_vars
-----------------------------------------------------------------------------
\* Type invariant of compiler and machine.
TypeOK ==
    /\ call \in Calls /\ todo \in 1..3 /\ entry \in Nat /\ free \in Nat /\ flag \in BOOLEAN
    /\ phase \in {"start", "target", "entry", "arguments", "encode", "size", "value", "address",
                  "invoke", "cleanup", "end"}
    /\ outcome \in {"running", "waiting", "done", "reverted", "tooDeep"}
    /\ DOMAIN memory \subseteq Nat

\* Calls whose code is known not to leave what their type promises: the success
\* flag of a low-level call that is not synchronous is never pushed; send gives one
\* of the two values the code expects; ecrecover leaves output size and
\* position, which only DELEGATECALL would take; creation ignores the token.
Unbalanced(c) ==
    \/ c.kind \in {"bareCall", "bareStatic"} /\ ~c.sync
    \/ c.kind \in {"send", "ecrecover"}
    \/ c.kind = "creation" /\ TokenSet(c)

\* What the language promises to be on the stack: the values returned, or a zero
\* value each if the call is not synchronous, and for a try call whether it
\* succeeded.  ripemd160 is not synchronous either but reads its placeholder from
\* memory.
Results(c) ==
    CASE c.kind \in BareKinds -> <<Num(One(flag)), <<"returndata">> >>
      [] c.kind = "creation" -> IF ~c.try THEN << <<"contract">> >>
                                ELSE IF flag THEN << <<"contract">>, Num(1)>> ELSE <<Num(0)>>
      [] c.kind = "ripemd160" -> <<memory[FreeMemory]>>
      [] ~FlagPushed(c) -> Times(c.returns, <<"zero">>) \o (IF c.try THEN <<Num(1)>> ELSE <<>>)
      [] OTHER -> IF c.try /\ ~flag THEN <<Num(0)>>
                  ELSE [k \in 1..c.returns |-> <<"returned", k>>] \o (IF c.try THEN <<Num(1)>> ELSE <<>>)

\* Whatever the kind of call, its options, arguments and answer: the slots that
\* appendExternalFunctionCall and its helpers found by counting are removed,
\* all of them and no others, and only the results stay above the locals.  A
\* failure of the callee is never lost on the way: only a try call or a
\* low-level call goes on after it.
OnlyResultsRemain ==
    outcome = "done" /\ ~Unbalanced(call) =>
        /\ stack = Locals \o Results(call)
        /\ FlagPushed(call) /\ ~flag => call.try \/ call.kind \in BareKinds

\* The message has the address, the amount and the token of the source program,
\* in whatever order the options were written, and the whole input.
OperandsFound ==
    sent # <<>> /\ call.kind # "send" =>
        /\ call.kind # "creation" => sent.address = <<"address">>
        /\ ~IsDelegate(call) => sent.value = IF ValueSet(call) THEN <<"value">> ELSE Num(0)
        /\ call.kind # "creation" /\ ~IsDelegate(call) =>
              sent.token = IF ValueSet(call) /\ TokenSet(call) THEN <<"token">> ELSE ViteToken
        /\ IsNumber(sent.offset) /\ IsNumber(sent.size)

\* The input is the ABI encoding of the arguments, behind the function
\* identifier or the code of the new contract, with nothing else before or
\* after it: the encoder that keeps the heads of dynamic values on the stack
\* finds values, heads and ends at the depths it counted.
MessageEncoded ==
    sent # <<>> =>
        LET c == call
            start == FreeMemory + (IF c.kind = "ecrecover" THEN 32 ELSE 0)
            prefix == IF c.kind = "creation" THEN {<<start, <<"code">> >>}
                      ELSE IF IsBareCall(c) THEN {} ELSE {<<start, <<"function">> >>}
            m == start + (IF c.kind = "creation" THEN CodeSize ELSE IF IsBareCall(c) THEN 0 ELSE 4)
        IN /\ {s \in CellsOf(memory) : s[1] >= start}
                 = prefix \cup EncodedCells(c, PadArguments(c), TakesInPlace(c), m)
           /\ sent.offset = Num(start)
           /\ sent.size = Num(m - start + EncodedSize(c, PadArguments(c), TakesInPlace(c)))
=============================================================================
