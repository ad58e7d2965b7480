------------------------------- MODULE AbiCoding -------------------------------
(***************************************************************************)
(* The encoder and the decoder that ABIFunctions.cpp generates as Yul      *)
(* code: a tuple of values is encoded from memory, from storage or from    *)
(* calldata, the data travels (and may arrive damaged or cut short), and   *)
(* is decoded into memory or as references into calldata, from which it is *)
(* encoded again.                                                          *)
(*                                                                         *)
(* A word has WordBytes bytes of Base values each, instead of 32 bytes of  *)
(* 256 values; additions and multiplications wrap around as on the         *)
(* machine.  Limit stands for 0xffffffffffffffff.  An object in memory is  *)
(* the sequence of its elements; calldata, storage and the buffer that is  *)
(* written are explicit.                                                   *)
(*                                                                         *)
(* A type is a record with a field "kind":                                 *)
(*   uint, int, bytesN (n bytes), bool, enum (n members) and function are  *)
(*   value types (an address is a uint of AddressBytes);                   *)
(*   bytes; array (base, len, where len = -1 stands for a dynamic array);  *)
(*   struct (members, a sequence of types).                                *)
(***************************************************************************)
EXTENDS Integers, Sequences

CONSTANTS
  WordBytes,      \* bytes of a word
  Base,           \* values of a byte
  Limit,          \* the largest offset or length that is accepted
  AddressBytes,   \* bytes of an address (21 of 32 in Solidity++)
  SelectorBytes,  \* bytes of a function selector (4 of 32)
  BufferSize,     \* bytes of the buffer that is written
  Dirt,           \* the byte that memory is full of before it is written
  Tuples,         \* the tuples: sequences of [type, value, literal]
  DamageWords,    \* words that may replace a word of the data on its way
  MaxCut          \* how many bytes may be missing at the end of the data

ASSUME AbiConstants ==
  /\ WordBytes \in Nat /\ Base \in Nat /\ Base % 2 = 0
  /\ AddressBytes + SelectorBytes < WordBytes
  /\ Limit * WordBytes < Base ^ WordBytes

VARIABLES
  tuple,    \* the tuple that is coded
  options,  \* EncodingOptions: [padded, inplace]
  source,   \* where the reference types are encoded from
  storage,  \* slot -> word
  buffer,   \* memory from the start of the output on: byte positions -> bytes
  tail,     \* tail (tupleEncoder) or pos (tupleEncoderPacked)
  index,    \* the element of the tuple that is coded next
  phase,
  data,     \* the bytes that are decoded
  intact,   \* the data is what the encoder wrote
  decoder,  \* [to, behind]: decode to memory or calldata; the byte behind the
            \* data: -1 when the data is calldata, else memory holds it
  decoded   \* the results of the elements decoded so far

vars == <<tuple, options, source, storage, buffer, tail, index, phase, data,
          intact, decoder, decoded>>

WordLimit == Base ^ WordBytes
Add(a, b) == (a + b) % WordLimit
Sub(a, b) == (a - b) % WordLimit
Mul(a, b) == (a * b) % WordLimit
Signed(a) == IF a >= WordLimit \div 2 THEN a - WordLimit ELSE a
RoundUp(n) == ((n + WordBytes - 1) \div WordBytes) * WordBytes
Total(s) ==
  LET T[i \in 0 .. Len(s)] == IF i = 0 THEN 0 ELSE T[i - 1] + s[i]
  IN  T[Len(s)]

-----------------------------------------------------------------------------
(* Types: sizes in calldata and in storage *)

IsValueType(t) == t.kind \in {"uint", "int", "bytesN", "bool", "enum", "function"}
IsByteArray(t) == t.kind = "bytes"
IsDynamicallySized(t) == IsByteArray(t) \/ (t.kind = "array" /\ t.len = -1)

StorageBytes(t) ==
  CASE t.kind \in {"uint", "int", "bytesN"} -> t.n
    [] t.kind \in {"bool", "enum"}          -> 1
    [] t.kind = "function"                  -> AddressBytes + SelectorBytes
    [] OTHER                                -> WordBytes

RECURSIVE IsDynamicallyEncoded(_), CalldataEncodedSize(_)
IsDynamicallyEncoded(t) ==
  \/ IsDynamicallySized(t)
  \/ t.kind = "array" /\ IsDynamicallyEncoded(t.base)
  \/ t.kind = "struct" /\ \E i \in DOMAIN t.members : IsDynamicallyEncoded(t.members[i])

CalldataEncodedSize(t) ==
  CASE t.kind = "array"  ->
         RoundUp(t.len * (IF IsDynamicallyEncoded(t.base) THEN WordBytes
                                               ELSE CalldataEncodedSize(t.base)))
    [] t.kind = "struct" ->
         Total([i \in DOMAIN t.members |-> CalldataEncodedSize(t.members[i])])
    [] OTHER -> WordBytes

CalldataHeadSize(t) ==
  IF IsDynamicallyEncoded(t) THEN WordBytes ELSE CalldataEncodedSize(t)

\* calldataEncodedSize(false): only value types are shorter without padding.
PackedSize(t) == IF IsValueType(t) THEN StorageBytes(t) ELSE CalldataEncodedSize(t)

CalldataStride(t) == IF IsByteArray(t) THEN 1 ELSE CalldataHeadSize(t.base)

HeadSize(types) == Total([i \in DOMAIN types |-> CalldataHeadSize(types[i])])

CalldataEncodedTailSize(t) ==
  CASE IsDynamicallySized(t) -> WordBytes
    [] t.kind = "array"      -> t.len * CalldataStride(t)
    [] OTHER                 -> HeadSize(t.members)

CalldataOffsetOfMember(t, i) == HeadSize(SubSeq(t.members, 1, i - 1))

-----------------------------------------------------------------------------
(* Value types *)

SignExtend(n, w) ==
  LET low == w % Base ^ n
  IN  IF 2 * low >= Base ^ n THEN low + WordLimit - Base ^ n ELSE low

Cleanup(t, w) ==
  CASE t.kind = "int" -> SignExtend(t.n, w)
    [] t.kind = "uint" -> w % Base ^ t.n
    [] t.kind = "bool" -> IF w = 0 THEN 0 ELSE 1
    [] t.kind \in {"bytesN", "function"} -> w - (w % Base ^ (WordBytes - StorageBytes(t)))
    [] t.kind = "enum" -> w

Validator(t, w) == IF t.kind = "enum" THEN w < t.n ELSE w = Cleanup(t, w)

LeftAlign(t, w) ==
  IF t.kind \in {"bytesN", "function"} THEN w
  ELSE Mul(w, Base ^ (WordBytes - StorageBytes(t)))

CombineExternalFunctionId(addr, selector) ==
  Mul(Base ^ (WordBytes - AddressBytes - SelectorBytes),
      Add(Mul(addr, Base ^ SelectorBytes), selector % Base ^ SelectorBytes))

SplitExternalFunctionId(combined) ==
  LET shifted == combined \div Base ^ (WordBytes - AddressBytes - SelectorBytes)
  IN  <<shifted \div Base ^ SelectorBytes, shifted % Base ^ SelectorBytes>>

-----------------------------------------------------------------------------
(* The machine: bytes of words, the buffer, the data and the storage *)

ByteOf(w, i) == (w \div Base ^ (WordBytes - 1 - i)) % Base

WordOf(byte(_)) ==
  LET S[i \in 0 .. WordBytes] == IF i = 0 THEN 0 ELSE S[i - 1] * Base + byte(i - 1)
  IN  S[WordBytes]

MStore(m, pos, w) ==
  [a \in DOMAIN m |-> IF a >= pos /\ a < pos + WordBytes THEN ByteOf(w, a - pos) ELSE m[a]]

DataByte(p) ==
  IF p < Len(data) THEN data[p + 1]
  ELSE IF decoder.behind = -1 THEN 0 ELSE decoder.behind

Load(p) == WordOf(LAMBDA i : DataByte(p + i))

\* Memory is so expensive that nothing is read behind Limit.
Loadable(p) == decoder.behind = -1 \/ p <= Limit

SLoad(slot) == IF slot \in DOMAIN storage THEN storage[slot] ELSE 0
DataSlot(slot) == 100 * (slot + 1)

-----------------------------------------------------------------------------
(* Reading the sources.  A reference into storage is its slot, one into     *)
(* calldata is [pos, len], one into memory is the sequence of elements.    *)

\* cleanupFromStorage(shiftRight(slotValue)) of the value at a byte offset.
ExtractFromStorageValue(t, slotValue, offset) ==
  LET v == (slotValue \div Base ^ offset) % Base ^ StorageBytes(t)
  IN  CASE t.kind \in {"bytesN", "function"} -> v * Base ^ (WordBytes - StorageBytes(t))
        [] t.kind = "int" -> SignExtend(t.n, v)
        [] OTHER -> v

RECURSIVE StorageSize(_), StorageOffsets(_)
StorageSize(t) ==
  CASE t.kind = "array" /\ t.len # -1 ->
         IF StorageBytes(t.base) < WordBytes
         THEN LET perSlot == WordBytes \div StorageBytes(t.base)
              IN  (t.len + perSlot - 1) \div perSlot
         ELSE t.len * StorageSize(t.base)
    [] t.kind = "struct" ->
         LET last == Len(t.members)
         IN  StorageOffsets(t.members)[last][1] + StorageSize(t.members[last])
    [] OTHER -> 1

\* StorageOffsets::computeOffsets: <<slot, byte offset>> of every member.
StorageOffsets(types) ==
  LET O[i \in 1 .. Len(types)] ==
        IF i = 1 THEN <<0, 0>>
        ELSE LET before == O[i - 1]
                 behind == before[2] + StorageBytes(types[i - 1])
             IN  IF behind + StorageBytes(types[i]) <= WordBytes
                 THEN <<before[1], behind>>
                 ELSE <<before[1] + StorageSize(types[i - 1]), 0>>
  IN  O

ExtractByteArrayLength(slotValue) ==
  IF slotValue % 2 = 0 THEN (slotValue \div 2) % (Base \div 2) ELSE slotValue \div 2

ArrayLength(from, t, v) ==
  CASE t.kind = "array" /\ t.len # -1 -> t.len
    [] from = "memory"   -> Len(v)
    [] from = "calldata" -> v.len
    [] from = "storage"  -> IF IsByteArray(t) THEN ExtractByteArrayLength(SLoad(v)) ELSE SLoad(v)

ArrayDataArea(from, t, v) ==
  CASE from = "storage"  -> IF IsDynamicallySized(t) THEN DataSlot(v) ELSE v
    [] from = "calldata" -> v.pos
    [] OTHER             -> 0

Refused == [ok |-> FALSE]
Result(v) == [ok |-> TRUE, value |-> v]

\* abiDecodingFunctionValueType and abiDecodingFunctionFunctionType
DecodeValueType(t, pos) ==
  LET w == Load(pos)
  IN  IF Loadable(pos) /\ Validator(t, w) THEN Result(w) ELSE Refused

\* Mutant of CalldataAccess: the offset is taken to be relative to the word it is in.
CalldataAccessFromPtr(t, baseRef, ptr) ==
  IF IsDynamicallyEncoded(t)
  THEN LET value == Add(Load(ptr), ptr)
       IN  IF IsDynamicallySized(t)
           THEN Result([pos |-> Add(value, WordBytes), len |-> Load(value) % Base])
           ELSE Result([pos |-> value, len |-> 0])
  ELSE IF IsValueType(t) THEN DecodeValueType(t, ptr)
  ELSE Result([pos |-> ptr, len |-> 0])

CalldataAccess(t, baseRef, ptr) ==
  IF IsDynamicallyEncoded(t)
  THEN LET relOffset == Load(ptr)
           value == Add(relOffset, baseRef)
           length == Load(value)
       IN  IF Signed(relOffset) >= Signed(Sub(Sub(Len(data), baseRef),
                                               CalldataEncodedTailSize(t) - 1))
           THEN Refused
           ELSE IF ~IsDynamicallySized(t)
           THEN Result([pos |-> value, len |-> 0])
           ELSE IF \/ length > Limit
                   \/ Signed(baseRef) >
                        Signed(Sub(Len(data), Mul(length, CalldataStride(t))))
           THEN Refused
           ELSE Result([pos |-> Add(value, WordBytes), len |-> length])
  ELSE IF IsValueType(t) THEN DecodeValueType(t, ptr)
  ELSE Result([pos |-> ptr, len |-> 0])

\* Element i (from 0) of an array that abiEncodingFunctionSimpleArray walks.
ArrayElementAccess(from, t, v, i) ==
  LET area == ArrayDataArea(from, t, v)
  IN  CASE from = "memory"   -> Result(v[i + 1])
        [] from = "storage"  ->
             LET slot == area + i * StorageSize(t.base)
             IN  Result(IF IsValueType(t.base)
                        THEN ExtractFromStorageValue(t.base, SLoad(slot), 0) ELSE slot)
        [] from = "calldata" ->
             CalldataAccess(t.base, area, Add(area, i * CalldataStride(t)))

-----------------------------------------------------------------------------
(* Encoding.  Every encoder returns [ok, m, end]: whether it reverted, the  *)
(* buffer, and the updated position (abiEncodeAndReturnUpdatedPosFunction). *)

\* Mutant of CopyToMemory: the bytes behind the last word are not cleared.
CopyWholeWords(m, from, v, pos, n) ==
  [a \in DOMAIN m |->
     IF a >= pos /\ a < pos + n
     THEN IF from = "calldata" THEN DataByte(v.pos + (a - pos)) ELSE v[a - pos + 1]
     ELSE m[a]]

CopyToMemory(m, from, v, pos, n) ==
  CASE from = "calldata" ->
         MStore([a \in DOMAIN m |-> IF a >= pos /\ a < pos + n
                                    THEN DataByte(v.pos + (a - pos)) ELSE m[a]],
                pos + n, 0)
    [] from = "memory" ->
         LET copied == [a \in DOMAIN m |-> IF a >= pos /\ a < pos + RoundUp(n)
                                           THEN IF a < pos + n THEN v[a - pos + 1] ELSE Dirt
                                           ELSE m[a]]
         IN  IF RoundUp(n) > n THEN MStore(copied, pos + n, 0) ELSE copied

\* arrayStoreLengthForEncodingFunction
StoreLength(t, o, m, pos, n) ==
  IF IsDynamicallySized(t) /\ ~o.inplace
  THEN [m |-> MStore(m, pos, n), pos |-> pos + WordBytes]
  ELSE [m |-> m, pos |-> pos]

\* Arrays inside of other objects and struct members are always padded.
Inner(o) == [o EXCEPT !.padded = TRUE]

EncodeValueType(m, t, w, pos, o) ==
  LET clean == Cleanup(t, w)
  IN  [ok  |-> t.kind = "enum" => Validator(t, w),
       m   |-> MStore(m, pos, IF o.padded THEN clean ELSE LeftAlign(t, clean)),
       end |-> pos + (IF o.padded THEN WordBytes ELSE PackedSize(t))]

EncodeFunctionType(m, t, v, pos, o, fromStack) ==
  [ok  |-> TRUE,
   m   |-> MStore(m, pos, IF fromStack THEN CombineExternalFunctionId(v[1], v[2])
                          ELSE Cleanup(t, v)),
   end |-> pos + (IF o.padded THEN WordBytes ELSE PackedSize(t))]

EncodeStringLiteral(m, t, literal, pos, o) ==
  LET s == IF IsByteArray(t) THEN StoreLength(t, o, m, pos, Len(literal))
                             ELSE [m |-> m, pos |-> pos]
      n == IF IsByteArray(t) THEN RoundUp(Len(literal)) ELSE WordBytes
  IN  [ok  |-> TRUE,
       m   |-> [a \in DOMAIN m |->
                  IF a >= s.pos /\ a < s.pos + n
                  THEN IF a < s.pos + Len(literal) THEN literal[a - s.pos + 1] ELSE 0
                  ELSE s.m[a]],
       end |-> IF IsByteArray(t)
               THEN s.pos + (IF o.padded THEN n ELSE Len(literal))
               ELSE pos + (IF o.padded THEN WordBytes ELSE PackedSize(t))]

EncodeCalldataArrayWithoutCleanup(m, t, v, pos, o) ==
  LET n == ArrayLength("calldata", t, v)
      s == StoreLength(t, o, m, pos, n)
      byteLength == n * CalldataStride(t)
  IN  [ok  |-> TRUE,
       m   |-> CopyToMemory(s.m, "calldata", v, s.pos, byteLength),
       end |-> s.pos + (IF o.padded /\ IsByteArray(t) THEN RoundUp(byteLength) ELSE byteLength)]

EncodeMemoryByteArray(m, t, v, pos, o) ==
  LET s == StoreLength(t, o, m, pos, Len(v))
  IN  [ok  |-> TRUE,
       m   |-> CopyToMemory(s.m, "memory", v, s.pos, Len(v)),
       end |-> s.pos + (IF o.padded THEN RoundUp(Len(v)) ELSE Len(v))]

EncodeStorageByteArray(m, t, slot, pos, o) ==
  LET slotValue == SLoad(slot)
      n == ExtractByteArrayLength(slotValue)
      s == StoreLength(t, o, m, pos, n)
      long == slotValue % 2 = 1
      words == RoundUp(n) \div WordBytes
      M[i \in 0 .. words] == IF i = 0 THEN s.m
                             ELSE MStore(M[i - 1], s.pos + (i - 1) * WordBytes,
                                         SLoad(DataSlot(slot) + i - 1))
  IN  [ok  |-> long <=> n >= WordBytes,
       m   |-> IF long THEN M[words] ELSE MStore(s.m, s.pos, slotValue - (slotValue % Base)),
       end |-> s.pos + (IF ~o.padded THEN n ELSE IF long THEN RoundUp(n) ELSE WordBytes)]

RECURSIVE Encode(_, _, _, _, _, _)

\* abiEncodingFunctionSimpleArray: with a tail for dynamic elements unless the
\* encoding is in place.
EncodeSimpleArray(m, from, t, v, pos, o) ==
  LET n == ArrayLength(from, t, v)
      s == StoreLength(t, o, m, pos, n)
      usesTail == IsDynamicallyEncoded(t.base) /\ ~o.inplace
      E[i \in 0 .. n] ==
        IF i = 0 THEN [ok |-> TRUE, m |-> s.m, end |-> IF usesTail THEN s.pos + n * WordBytes
                                                                   ELSE s.pos]
        ELSE LET e == E[i - 1]
                 x == ArrayElementAccess(from, t, v, i - 1)
                 m1 == IF usesTail THEN MStore(e.m, s.pos + (i - 1) * WordBytes, e.end - s.pos)
                                   ELSE e.m
             IN  IF ~e.ok \/ ~x.ok THEN [e EXCEPT !.ok = FALSE]
                 ELSE Encode(m1, from, t.base, x.value, e.end, Inner(o))
  IN  E[n]

\* abiEncodingFunctionCompactStorageArray of several items per slot: the full
\* slots, then the items in the last slot.
EncodeCompactStorageArray(m, t, slot, pos, o) ==
  LET n == ArrayLength("storage", t, slot)
      s == StoreLength(t, o, m, pos, n)
      area == ArrayDataArea("storage", t, slot)
      perSlot == WordBytes \div StorageBytes(t.base)
      Items(k) == IF k < n \div perSlot THEN perSlot ELSE n % perSlot
      Slot(k, start) ==
        LET E[i \in 0 .. Items(k)] ==
              IF i = 0 THEN start
              ELSE LET e == E[i - 1]
                       r == EncodeValueType(e.m, t.base,
                              ExtractFromStorageValue(t.base, SLoad(area + k),
                                                      (i - 1) * StorageBytes(t.base)),
                              e.end, Inner(o))
                   IN  [r EXCEPT !.ok = @ /\ e.ok]
        IN  E[Items(k)]
      S[k \in 0 .. (n \div perSlot) + 1] ==
        IF k = 0 THEN [ok |-> TRUE, m |-> s.m, end |-> s.pos] ELSE Slot(k - 1, S[k - 1])
  IN  S[(n \div perSlot) + 1]

\* The value of a member that abiEncodingFunctionStruct encodes; slotValue is
\* loaded only where the slot changes.
MemberValue(from, t, v, i, slotValue) ==
  LET member == t.members[i]
      place == StorageOffsets(t.members)[i]
  IN  CASE from = "memory"   -> Result(v[i])
        [] from = "calldata" ->
             CalldataAccess(member, v.pos, Add(v.pos, CalldataOffsetOfMember(t, i)))
        [] from = "storage"  ->
             Result(IF IsValueType(member)
                    THEN ExtractFromStorageValue(member, slotValue, place[2])
                    ELSE v + place[1])

EncodeStruct(m, from, t, v, pos, o) ==
  LET offsets == StorageOffsets(t.members)
      \* members(i): [ok, m, end, slotValue, previous] before member i
      E[i \in 0 .. Len(t.members)] ==
        IF i = 0
        THEN [ok |-> TRUE, m |-> m, slotValue |-> 0, previous |-> -1,
              end |-> IF o.inplace THEN pos ELSE pos + HeadSize(t.members)]
        ELSE
          LET e == E[i - 1]
              member == t.members[i]
              loads == from = "storage" /\ IsValueType(member) /\ offsets[i][1] # e.previous
              slotValue == IF loads THEN SLoad(v + offsets[i][1]) ELSE e.slotValue
              x == MemberValue(from, t, v, i, slotValue)
              head == pos + CalldataOffsetOfMember(t, i)
              dynamic == IsDynamicallyEncoded(member)
              m1 == IF dynamic /\ ~o.inplace THEN MStore(e.m, head, e.end - pos) ELSE e.m
              After(r) == [ok |-> r.ok, m |-> r.m, slotValue |-> slotValue,
                           previous |-> IF loads THEN offsets[i][1] ELSE e.previous,
                           end |-> IF dynamic \/ o.inplace THEN r.end ELSE e.end]
          IN  IF ~e.ok \/ ~x.ok THEN [e EXCEPT !.ok = FALSE]
              ELSE After(Encode(m1, from, member, x.value,
                                IF dynamic \/ o.inplace THEN e.end ELSE head, Inner(o)))
  IN  [field \in {"ok", "m", "end"} |-> E[Len(t.members)][field]]

\* abiEncodingFunction
Encode(m, from, t, v, pos, o) ==
  CASE from = "literal" -> EncodeStringLiteral(m, t, v, pos, o)
    [] t.kind \in {"bytes", "array"} /\ from = "calldata" ->
         IF IsByteArray(t) \/ (t.base.kind \in {"uint", "bytesN"} /\ t.base.n = WordBytes)
         THEN EncodeCalldataArrayWithoutCleanup(m, t, v, pos, o)
         ELSE EncodeSimpleArray(m, from, t, v, pos, o)
    [] t.kind \in {"bytes", "array"} /\ from = "memory" ->
         IF IsByteArray(t) THEN EncodeMemoryByteArray(m, t, v, pos, o)
                           ELSE EncodeSimpleArray(m, from, t, v, pos, o)
    [] t.kind \in {"bytes", "array"} /\ from = "storage" ->
         IF IsByteArray(t) THEN EncodeStorageByteArray(m, t, v, pos, o)
         ELSE IF 2 * StorageBytes(t.base) <= WordBytes
         THEN EncodeCompactStorageArray(m, t, v, pos, o)
         ELSE EncodeSimpleArray(m, from, t, v, pos, o)
    [] t.kind = "struct" -> EncodeStruct(m, from, t, v, pos, o)
    [] t.kind = "function" -> EncodeFunctionType(m, t, v, pos, o, from = "stack")
    [] OTHER -> EncodeValueType(m, t, v, pos, o)

-----------------------------------------------------------------------------
(* Decoding.  A decoder returns Refused or [ok, value, within], where       *)
(* within says that all that makes up the value (elements and bytes, not    *)
(* the offsets on the way to them) was read before the end of the data, or  *)
(* so far out that calldata is zero there.                                  *)

Decoded(v, within) == [ok |-> TRUE, value |-> v, within |-> within]
Within(pos, n) == n = 0 \/ pos + n <= Len(data) \/ Signed(pos) < 0

\* arrayAllocationSizeFunction and allocationFunction: memory is still empty.
ArrayAllocationSize(t, length) ==
  (IF IsByteArray(t) THEN RoundUp(length) ELSE length * WordBytes)
    + (IF IsDynamicallySized(t) THEN WordBytes ELSE 0)
Allocatable(t, length) == length <= Limit /\ ArrayAllocationSize(t, length) <= Limit

RECURSIVE Decode(_, _)

\* All or nothing: the results of decoding several parts.
Combine(parts) ==
  IF \E i \in DOMAIN parts : ~parts[i].ok THEN Refused
  ELSE Decoded([i \in DOMAIN parts |-> parts[i].value], \A i \in DOMAIN parts : parts[i].within)

DecodeByteArrayAvailableLength(t, src, length) ==
  IF ~Allocatable(t, length) \/ Add(src, length) > Len(data) THEN Refused
  ELSE Decoded([i \in 1 .. length |-> DataByte(src + i - 1)], Within(src, length))

DecodeArrayAvailableLength(t, offset, length) ==
  IF \/ ~Allocatable(t, length)
     \/ ~IsDynamicallyEncoded(t.base)
          /\ Add(offset, Mul(length, CalldataStride(t))) > Len(data)
  THEN Refused
  ELSE LET Src(i) == Add(offset, (i - 1) * CalldataStride(t))
           \* stops at the first element that is refused
           D[i \in 0 .. length] ==
             IF i = 0 THEN <<>>
             ELSE LET done == D[i - 1]
                  IN  IF Len(done) < i - 1 \/ (i > 1 /\ ~done[i - 1].ok) THEN done
                      ELSE Append(done,
                             IF ~IsDynamicallyEncoded(t.base) THEN Decode(t.base, Src(i))
                             ELSE IF ~Loadable(Src(i)) THEN Refused
                             ELSE Decode(t.base, Add(offset, Load(Src(i)))))
       IN  Combine(D[length])

\* Mutant of DecodeArray: an array at the very end of the data is refused.
DecodeArrayNotAtEnd(t, offset) ==
  IF Signed(Add(offset, WordBytes)) >= Signed(Len(data)) \/ ~Loadable(offset) THEN Refused
  ELSE LET length == IF IsDynamicallySized(t) THEN Load(offset) ELSE t.len
           start == IF IsDynamicallySized(t) THEN Add(offset, WordBytes) ELSE offset
       IN  IF IsByteArray(t) THEN DecodeByteArrayAvailableLength(t, start, length)
                             ELSE DecodeArrayAvailableLength(t, start, length)

DecodeArray(t, offset) ==
  IF Signed(Add(offset, WordBytes - 1)) >= Signed(Len(data)) \/ ~Loadable(offset) THEN Refused
  ELSE LET length == IF IsDynamicallySized(t) THEN Load(offset) ELSE t.len
           start == IF IsDynamicallySized(t) THEN Add(offset, WordBytes) ELSE offset
       IN  IF IsByteArray(t) THEN DecodeByteArrayAvailableLength(t, start, length)
                             ELSE DecodeArrayAvailableLength(t, start, length)

\* Mutant of DecodeCalldataArray: the length is not limited.
DecodeCalldataArrayUnlimited(t, offset) ==
  LET length == IF IsDynamicallySized(t) THEN Load(offset) ELSE t.len
      arrayPos == IF IsDynamicallySized(t) THEN Add(offset, WordBytes) ELSE offset
  IN  IF \/ IsDynamicallySized(t) /\ Signed(Add(offset, WordBytes - 1)) >= Signed(Len(data))
         \/ Add(arrayPos, Mul(length, CalldataStride(t))) > Len(data)
      THEN Refused
      ELSE Decoded([pos |-> arrayPos, len |-> length],
                   Within(arrayPos, length * CalldataStride(t)))

DecodeCalldataArray(t, offset) ==
  LET length == IF IsDynamicallySized(t) THEN Load(offset) ELSE t.len
      arrayPos == IF IsDynamicallySized(t) THEN Add(offset, WordBytes) ELSE offset
      size == Mul(length, CalldataStride(t))
  IN  IF \/ IsDynamicallySized(t) /\ Signed(Add(offset, WordBytes - 1)) >= Signed(Len(data))
         \/ IsDynamicallySized(t) /\ length > Limit
         \/ Add(arrayPos, size) > Len(data)
      THEN Refused
      ELSE Decoded([pos |-> arrayPos, len |-> length],
                   Within(arrayPos, length * CalldataStride(t)))

DecodeCalldataStruct(t, offset) ==
  LET minimum == IF IsDynamicallyEncoded(t) THEN CalldataEncodedTailSize(t)
                                            ELSE CalldataEncodedSize(t)
  IN  IF Signed(Sub(Len(data), offset)) < minimum THEN Refused
      ELSE Decoded([pos |-> offset, len |-> 0], Within(offset, minimum))

\* The start of an element of a tuple or a struct: of a dynamic one the offset
\* is in the head, and is refused when it is beyond Limit.
ElementStart(t, headStart, headPos) ==
  IF ~IsDynamicallyEncoded(t) THEN Result(Add(headStart, headPos))
  ELSE LET offset == Load(Add(headStart, headPos))
       IN  IF offset > Limit \/ ~Loadable(Add(headStart, headPos)) THEN Refused
           ELSE Result(Add(headStart, offset))

DecodeStruct(t, headStart) ==
  IF Signed(Sub(Len(data), headStart)) < HeadSize(t.members) THEN Refused
  ELSE Combine([i \in DOMAIN t.members |->
         LET start == ElementStart(t.members[i], headStart, CalldataOffsetOfMember(t, i))
         IN  IF start.ok THEN Decode(t.members[i], start.value) ELSE Refused])

\* abiDecodingFunction, for an object in memory
Decode(t, pos) ==
  CASE t.kind \in {"bytes", "array"} -> DecodeArray(t, pos)
    [] t.kind = "struct" -> DecodeStruct(t, pos)
    [] OTHER -> LET w == DecodeValueType(t, pos)
                IN  IF w.ok THEN Decoded(w.value, Within(pos, WordBytes)) ELSE Refused

\* abiDecodingFunction of a parameter: a reference type may stay in calldata, a
\* function is split into the two values it has on the stack.
DecodeParameter(t, pos, to) ==
  CASE to = "calldata" /\ t.kind \in {"bytes", "array"} -> DecodeCalldataArray(t, pos)
    [] to = "calldata" /\ t.kind = "struct" -> DecodeCalldataStruct(t, pos)
    [] t.kind = "function" ->
         LET fun == Decode(t, pos)
         IN  IF fun.ok THEN [fun EXCEPT !.value = SplitExternalFunctionId(@)] ELSE Refused
    [] OTHER -> Decode(t, pos)

-----------------------------------------------------------------------------
(* The contract whose code this is.  The values are in storage as the       *)
(* module StorageLayout lays them out.                                     *)

RECURSIVE Image(_, _, _)
Image(t, v, slot) ==
  LET Raw(b, w) == IF b.kind \in {"bytesN", "function"}
                   THEN w \div Base ^ (WordBytes - StorageBytes(b)) ELSE w % Base ^ StorageBytes(b)
      Union(parts) ==
        LET slots == UNION {DOMAIN parts[i] : i \in DOMAIN parts}
        IN  [s \in slots |->
               Total([i \in DOMAIN parts |-> IF s \in DOMAIN parts[i] THEN parts[i][s] ELSE 0])]
      At(b, w, s, offset) == IF IsValueType(b) THEN [x \in {s} |-> Raw(b, w) * Base ^ offset]
                             ELSE Image(b, w, s)
      area == ArrayDataArea("storage", t, slot)
      bytes == [x \in 0 .. Len(v) \div WordBytes |->
                  WordOf(LAMBDA i : IF x * WordBytes + i < Len(v)
                                    THEN v[x * WordBytes + i + 1] ELSE 0)]
      perSlot == WordBytes \div StorageBytes(t.base)
      elements == [i \in DOMAIN v |->
                     IF StorageBytes(t.base) < WordBytes
                     THEN At(t.base, v[i], area + (i - 1) \div perSlot,
                             ((i - 1) % perSlot) * StorageBytes(t.base))
                     ELSE At(t.base, v[i], area + (i - 1) * StorageSize(t.base), 0)]
  IN  CASE IsByteArray(t) ->
             IF Len(v) < WordBytes THEN [x \in {slot} |-> bytes[0] + 2 * Len(v)]
             ELSE [x \in {slot} \union {DataSlot(slot) + k : k \in DOMAIN bytes} |->
                     IF x = slot THEN 2 * Len(v) + 1 ELSE bytes[x - DataSlot(slot)]]
        [] t.kind = "array" ->
             Union(IF t.len = -1 THEN Append(elements, [x \in {slot} |-> Len(v)]) ELSE elements)
        [] t.kind = "struct" ->
             Union([i \in DOMAIN v |->
                      At(t.members[i], v[i], slot + StorageOffsets(t.members)[i][1],
                         StorageOffsets(t.members)[i][2])])

Types == [i \in DOMAIN tuple |-> tuple[i].type]
HeadStart == SelectorBytes
HeadPos(i) == HeadSize(SubSeq(Types, 1, i - 1))
SlotOf(i) == 10 * i

StorageOf(tu) ==
  LET images == [i \in DOMAIN tu |-> IF IsValueType(tu[i].type) THEN <<>>
                                     ELSE Image(tu[i].type, tu[i].value, SlotOf(i))]
      slots == UNION {DOMAIN images[i] : i \in DOMAIN tu}
  IN  [s \in slots |-> LET i == CHOOSE j \in DOMAIN tu : s \in DOMAIN images[j]
                       IN  images[i][s]]

\* The arguments of the encoder: where element i is, and its value there.
GivenFrom(i) ==
  IF phase = "encode" /\ tuple[i].literal THEN "literal"
  ELSE IF IsValueType(tuple[i].type) THEN "stack"
  ELSE IF phase = "encode" THEN source ELSE decoder.to
GivenValue(i) ==
  IF phase = "reencode" THEN decoded[i].value
  ELSE IF GivenFrom(i) = "storage" THEN SlotOf(i) ELSE tuple[i].value

Dirty == [a \in 0 .. BufferSize - 1 |-> Dirt]
TailStart == IF options.inplace THEN HeadStart ELSE HeadStart + HeadSize(Types)

Init ==
  /\ tuple \in Tuples
  /\ options \in {[padded |-> TRUE, inplace |-> FALSE], [padded |-> FALSE, inplace |-> TRUE]}
  /\ source \in {"memory", "storage"}
  /\ storage = IF source = "storage" THEN StorageOf(tuple) ELSE <<>>
  /\ buffer = Dirty
  /\ tail = TailStart
  /\ index = 1
  /\ phase = "encode"
  /\ data = <<>>
  /\ intact = TRUE
  /\ decoder = [to |-> "memory", behind |-> -1]
  /\ decoded = <<>>

\* One element of tupleEncoder: its offset goes into the head when it is
\* dynamic, and it goes behind the tail.
TupleEncodeElement(i) ==
  LET dynamic == IsDynamicallyEncoded(Types[i])
      head == HeadStart + HeadPos(i)
      m1 == IF dynamic THEN MStore(buffer, head, tail - HeadStart) ELSE buffer
  IN  [Encode(m1, GivenFrom(i), Types[i], GivenValue(i), IF dynamic THEN tail ELSE head, options)
         EXCEPT !.end = IF dynamic THEN @ ELSE tail]

\* One element of tupleEncoderPacked, which advances the position itself.
TupleEncodePackedElement(i) ==
  [Encode(buffer, GivenFrom(i), Types[i], GivenValue(i), tail, options)
     EXCEPT !.end = IF IsDynamicallyEncoded(Types[i]) THEN @ ELSE tail + PackedSize(Types[i])]

EncodeElement ==
  /\ phase \in {"encode", "reencode"}
  /\ index <= Len(tuple)
  /\ \E r \in {IF options.inplace THEN TupleEncodePackedElement(index)
                                  ELSE TupleEncodeElement(index)} :
         /\ buffer' = r.m
         /\ tail' = r.end
         /\ index' = IF r.ok THEN index + 1 ELSE index
         /\ phase' = IF r.ok THEN phase ELSE "reverted"
  /\ UNCHANGED <<tuple, options, source, storage, data, intact, decoder, decoded>>

FinishEncoding ==
  /\ phase \in {"encode", "reencode"}
  /\ index > Len(tuple)
  /\ phase' = IF phase = "encode" THEN "encoded" ELSE "reencoded"
  /\ UNCHANGED <<tuple, options, source, storage, buffer, tail, index, data, intact,
                 decoder, decoded>>

Written == [p \in 1 .. tail |-> buffer[p - 1]]

\* tupleDecoder refuses data that is shorter than the head.
BeginDecoding(d, unharmed, to, behind) ==
  /\ phase = "encoded"
  /\ ~options.inplace
  /\ to = "calldata" => behind = -1
  /\ data' = d
  /\ intact' = unharmed
  /\ decoder' = [to |-> to, behind |-> behind]
  /\ index' = 1
  /\ phase' = IF Signed(Sub(Len(d), HeadStart)) < HeadSize(Types) THEN "reverted" ELSE "decode"
  /\ UNCHANGED <<tuple, options, source, storage, buffer, tail, decoded>>

Deliver == \E to \in {"memory", "calldata"}, behind \in {-1, 0, Dirt} :
  BeginDecoding(Written, TRUE, to, behind)

DeliverDamaged == \E to \in {"memory", "calldata"}, behind \in {-1, 0, Dirt} :
  \E k \in 0 .. ((tail - HeadStart) \div WordBytes) - 1, w \in DamageWords :
    BeginDecoding([p \in DOMAIN Written |->
                     LET i == (p - 1) - (HeadStart + k * WordBytes)
                     IN  IF i \in 0 .. WordBytes - 1 THEN ByteOf(w, i) ELSE Written[p]],
                  FALSE, to, behind)

DeliverShort == \E to \in {"memory", "calldata"}, behind \in {-1, 0, Dirt} :
  \E cut \in 1 .. MaxCut :
    BeginDecoding(SubSeq(Written, 1, tail - cut), FALSE, to, behind)

\* One element of tupleDecoder
DecodeElement ==
  /\ phase = "decode"
  /\ index <= Len(tuple)
  /\ LET start == ElementStart(Types[index], HeadStart, HeadPos(index))
         r == IF start.ok THEN DecodeParameter(Types[index], start.value, decoder.to) ELSE Refused
     IN  IF r.ok THEN /\ decoded' = Append(decoded, r)
                      /\ index' = index + 1
                      /\ UNCHANGED phase
         ELSE /\ phase' = "reverted"
              /\ UNCHANGED <<decoded, index>>
  /\ UNCHANGED <<tuple, options, source, storage, buffer, tail, data, intact, decoder>>

\* The decoded values are encoded again, into fresh memory.
Reencode ==
  /\ phase = "decode"
  /\ index > Len(tuple)
  /\ phase' = "reencode"
  /\ index' = 1
  /\ buffer' = Dirty
  /\ tail' = TailStart
  /\ UNCHANGED <<tuple, options, source, storage, data, intact, decoder, decoded>>

Next ==
  \/ EncodeElement
  \/ FinishEncoding
  \/ Deliver
  \/ DeliverDamaged
  \/ DeliverShort
  \/ DecodeElement
  \/ Reencode

Spec == Init /\ [][Next]_vars

-----------------------------------------------------------------------------
(* What the encoding of a value is *)

Zeros(n) == [i \in 1 .. n |-> 0]
WordBytesOf(w) == [i \in 1 .. WordBytes |-> ByteOf(w, i - 1)]
Concat(s) ==
  LET C[i \in 0 .. Len(s)] == IF i = 0 THEN <<>> ELSE C[i - 1] \o s[i]
  IN  C[Len(s)]

\* A byte array is padded to a multiple of a word.
PaddedBytes(v) == v \o Zeros(RoundUp(Len(v)) - Len(v))

RECURSIVE Encoding(_, _), InPlace(_, _, _)

TupleEncoding(types, v) ==
  LET heads == HeadSize(types)
      parts == [i \in DOMAIN types |-> Encoding(types[i], v[i])]
      tails == [i \in DOMAIN types |-> IF IsDynamicallyEncoded(types[i]) THEN parts[i] ELSE <<>>]
      offset(i) == heads + Len(Concat(SubSeq(tails, 1, i - 1)))
  IN  Concat([i \in DOMAIN types |-> IF IsDynamicallyEncoded(types[i])
                                     THEN WordBytesOf(offset(i)) ELSE parts[i]])
        \o Concat(tails)

Encoding(t, v) ==
  CASE IsByteArray(t) -> WordBytesOf(Len(v)) \o PaddedBytes(v)
    [] t.kind = "array" -> (IF t.len = -1 THEN WordBytesOf(Len(v)) ELSE <<>>)
                             \o TupleEncoding([i \in DOMAIN v |-> t.base], v)
    [] t.kind = "struct" -> TupleEncoding(t.members, v)
    [] OTHER -> WordBytesOf(Cleanup(t, v))

InPlace(t, v, padded) ==
  CASE IsByteArray(t) -> IF padded THEN PaddedBytes(v) ELSE v
    [] t.kind = "array" -> Concat([i \in DOMAIN v |-> InPlace(t.base, v[i], TRUE)])
    [] t.kind = "struct" -> Concat([i \in DOMAIN v |-> InPlace(t.members[i], v[i], TRUE)])
    [] OTHER -> IF padded THEN WordBytesOf(Cleanup(t, v))
                ELSE SubSeq(WordBytesOf(LeftAlign(t, Cleanup(t, v))), 1, StorageBytes(t))

\* A value of the tuple, or a decoded one, as it is inside of an object.
Abstract(t, v) == IF t.kind = "function" THEN CombineExternalFunctionId(v[1], v[2])
                  ELSE IF IsValueType(t) THEN Cleanup(t, v) ELSE v
Values == [i \in DOMAIN tuple |-> IF tuple[i].literal /\ ~IsByteArray(Types[i])
            THEN WordOf(LAMBDA j : IF j < Len(tuple[i].value) THEN tuple[i].value[j + 1] ELSE 0)
            ELSE Abstract(Types[i], tuple[i].value)]
Output == [p \in 1 .. tail - HeadStart |-> buffer[HeadStart + p - 1]]

\* What memory decoding makes of the data, whatever it was decoded to.
InMemory ==
  Combine([i \in DOMAIN tuple |->
    LET start == ElementStart(Types[i], HeadStart, HeadPos(i))
        r == DecodeParameter(Types[i], start.value, "memory")
    IN  IF ~start.ok THEN Refused
        ELSE IF r.ok THEN [r EXCEPT !.value = Abstract(Types[i], @)] ELSE Refused])

\* A byte array of storage that is empty, here or inside.
RECURSIVE HoldsEmptyBytes(_, _)
HoldsEmptyBytes(t, v) ==
  CASE IsByteArray(t)      -> v = <<>>
    [] t.kind = "array"  -> \E i \in DOMAIN v : HoldsEmptyBytes(t.base, v[i])
    [] t.kind = "struct" -> \E i \in DOMAIN v : HoldsEmptyBytes(t.members[i], v[i])
    [] OTHER             -> FALSE
EmptyBytesFromStorage ==
  source = "storage" /\ \E i \in DOMAIN tuple : HoldsEmptyBytes(Types[i], tuple[i].value)

Specified ==
  IF options.inplace THEN Concat([i \in DOMAIN tuple |-> InPlace(Types[i], Values[i], FALSE)])
                     ELSE TupleEncoding(Types, Values)

\* EncodedAsSpecified: what the encoder writes between headStart and tail is
\* exactly the encoding of the values: heads with the offsets of the tails,
\* lengths, elements, zeros as padding - whether they come from the stack, from
\* memory, from packed storage slots or from a literal, and although the memory
\* written to and the unused bits of the values are dirty.  The same for the
\* packed encoding, whose elements have neither padding nor length.  Tuples with
\* an empty byte array in storage are left to PaddedToMultiples.
EncodedAsSpecified == phase = "encoded" /\ ~EmptyBytesFromStorage => Output = Specified

\* PaddedToMultiples: "Pad/signextend value types and bytes/string to multiples
\* of 32 bytes", so the encoding has no other bytes than these, wherever the
\* values come from.  The code violates it for empty byte arrays of storage.
PaddedToMultiples == phase = "encoded" => Output = Specified

\* IntactDataDecodes: what the encoder wrote is never refused, neither by the
\* decoder nor on the way through calldata, and the decoder finds the values
\* that were encoded.
IntactDataDecodes ==
  intact => /\ phase # "reverted"
            /\ phase \in {"reencode", "reencoded"} =>
                 /\ InMemory.ok
                 /\ InMemory.value = Values

\* A static array of whole words is copied from calldata into the end of the
\* head when an element before it is already in the tail: copyToMemoryFunction
\* clears a word behind what it copied, the first of the tail.
HeadOverflow ==
  LET last == Types[Len(Types)]
  IN  /\ decoder.to = "calldata"
      /\ last.kind = "array" /\ ~IsDynamicallyEncoded(last)
      /\ last.base.kind \in {"uint", "bytesN"} /\ last.base.n = WordBytes
      /\ \E i \in DOMAIN Types : IsDynamicallyEncoded(Types[i])

\* The arrays and structs that encoding from calldata reads: where they are, the
\* bytes of them that are not behind further offsets, and the first position that
\* an offset without a sign leads to.
RECURSIVE References(_, _, _)
References(t, v, first) ==
  LET n == ArrayLength("calldata", t, v)
      Inside(type, x) ==
        IF ~x.ok \/ IsValueType(type) THEN {}
        ELSE References(type, x.value, v.pos + (IF IsDynamicallySized(type) THEN WordBytes ELSE 0))
  IN  IF t.kind = "struct"
      THEN {[pos |-> v.pos, size |-> HeadSize(t.members), first |-> first]}
             \cup UNION {Inside(t.members[i], MemberValue("calldata", t, v, i, 0)) : i \in DOMAIN t.members}
      ELSE {[pos |-> v.pos, size |-> n * CalldataStride(t), first |-> first]}
             \cup (IF IsByteArray(t) THEN {}
                   ELSE UNION {Inside(t.base, ArrayElementAccess("calldata", t, v, i)) : i \in 0 .. n - 1})
Referenced ==
  UNION {References(Types[i], decoded[i].value, 0) : i \in {k \in DOMAIN decoded : ~IsValueType(Types[k])}}

\* PathsAgree: data that was decoded lazily, as references into calldata, and
\* is encoded from there gives the encoding of what memory decoding finds in the
\* same data, for damaged data too.  Memory decoding refuses only data in which an
\* offset, which calldata access takes as a signed number, leads back, or which
\* has an array that calldataAccessFunction should have refused, as
\* CalldataWithinEnd says.  Tuples whose head may overflow are left to
\* ReencodedFaithfully.
PathsAgree ==
  phase = "reencoded" /\ ~HeadOverflow =>
    IF InMemory.ok
      THEN Output = TupleEncoding(Types, InMemory.value)
      ELSE \E r \in Referenced : r.pos < r.first \/ r.pos + r.size > Len(data)

\* ReencodedFaithfully: tupleEncoder is to "ABI-encode values" of the given types:
\* what was decoded from intact data and is encoded again gives the same data.
\* The code violates it when the head overflows.
ReencodedFaithfully == phase = "reencoded" /\ intact => Output = TupleEncoding(Types, Values)

\* CalldataWithinEnd: calldataAccessFunction reverts with "Invalid calldata access
\* stride" for an array that is longer than the data that is left, so all that
\* encoding reached, at any depth, lies before the end of the data.  The code
\* violates it: the check is made for the position of the enclosing tuple.
CalldataWithinEnd ==
  phase = "reencoded" /\ decoder.to = "calldata" => \A r \in Referenced : Within(r.pos, r.size)

\* NothingFromBehindTheEnd: whatever lengths and offsets the data has, no part of
\* a decoded value is read from what lies behind the end of the data: the sum
\* the bounds checks compare with the end does not wrap around.
NothingFromBehindTheEnd == \A i \in DOMAIN decoded : decoded[i].within
=============================================================================
