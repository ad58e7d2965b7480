--------------------------- MODULE StorageLayout ---------------------------
(***************************************************************************)
(* Arrays and structs in storage, as the functions of YulUtilFunctions     *)
(* lay them out and change them.                                           *)
(*                                                                         *)
(* A slot holds a word of SlotBytes bytes, byte 0 the least significant.   *)
(* Values of few bytes share a slot.  The image of an array that grows is  *)
(* slot 0, with the length, and the slots of its data area from 1 on,      *)
(* which the code finds by hashing; fixed arrays and structs start in slot *)
(* 0.  A byte array with room in slot 0 is kept there next to twice its    *)
(* length, a longer one has one more than twice its length in slot 0.      *)
(* push() and the packed copies rely on everything behind the end being    *)
(* zero.  Each operation reads and writes words; ArrayModel says what they *)
(* mean.                                                                   *)
(***************************************************************************)
EXTENDS Integers, Sequences, SequencesExt

CONSTANTS
    Base,             \* the values of a byte: 256
    SlotBytes,        \* the bytes of a slot: 32
    MaxArrayLength,   \* 2^64
    Slots,            \* bound: slots kept of each array
    Shapes            \* the types of target and source

\* A short byte array and its length fit in a slot, as 31 * 2 < 256 does.
ASSUME SlotAssumption ==
    /\ Base \in Nat /\ Base % 2 = 0 /\ SlotBytes \in Nat \ {0}
    /\ 2 * SlotBytes <= Base

Modulus == Base^SlotBytes
Words == 0..Modulus - 1

VARIABLES
    shape,            \* the types of target and source
    image,            \* the slots of target and source
    request, answer   \* as in ArrayModel

vars == <<shape, image, request, answer>>

-----------------------------------------------------------------------------
(***************************************************************************)
(* Words.                                                                  *)
(***************************************************************************)
Shl(w, bytes) == IF bytes >= SlotBytes THEN 0 ELSE (w % Base^(SlotBytes - bytes)) * Base^bytes
Shr(w, bytes) == IF bytes >= SlotBytes THEN 0 ELSE w \div Base^bytes
MaskLowerOrderBytes(w, bytes) == w % Base^bytes
MaskBytes(w, bytes) == w - (w % Base^(SlotBytes - bytes))
ByteAt(w, offset) == Shr(w, offset) % Base

UpdateByteSlice(bytes, w, offset, insert) ==
    w - Shl(MaskLowerOrderBytes(Shr(w, offset), bytes), offset)
      + Shl(MaskLowerOrderBytes(insert, bytes), offset)

(***************************************************************************)
(* Value types: uint, int and fixedBytes, left-aligned in their word.      *)
(* Members of structs are also mappings and fixed arrays of mappings,      *)
(* which take one or several slots and hold no value.                      *)
(***************************************************************************)
Byte1 == [sort |-> "fixedBytes", bytes |-> 1]

PrepareStore(type, v) ==
    IF type.sort = "fixedBytes" THEN Shr(v, SlotBytes - type.bytes) ELSE v

CleanupFromStorage(type, w) ==
    LET low == MaskLowerOrderBytes(w, type.bytes)
    IN  CASE type.sort = "fixedBytes" -> Shl(w, SlotBytes - type.bytes)
          [] type.sort = "int" /\ 2 * low >= Base^type.bytes -> low + Modulus - Base^type.bytes
          [] OTHER -> low

ExtractFromStorageValue(type, w, offset) == CleanupFromStorage(type, Shr(w, offset))

UpdateStorageValue(type, d, slot, offset, v) ==
    [d EXCEPT ![slot] = UpdateByteSlice(type.bytes, @, offset, PrepareStore(type, v))]

StorageSetToZero(type, d, slot, offset) == UpdateStorageValue(type, d, slot, offset, 0)

(***************************************************************************)
(* Shapes: bytes, array (dynamic), fixed (array) and struct.               *)
(***************************************************************************)
IsDynamic(t) == t.kind \in {"bytes", "array"}
BaseType(t) == IF t.kind = "bytes" THEN Byte1 ELSE t.base
ItemsPerSlot(t) == SlotBytes \div BaseType(t).bytes
StorageStride(t) == BaseType(t).bytes
Packed(t) == 2 * BaseType(t).bytes <= SlotBytes
ArrayDataArea(t) == IF IsDynamic(t) THEN 1 ELSE 0
ArrayConvertLengthToSize(t, length) == (length + ItemsPerSlot(t) - 1) \div ItemsPerSlot(t)

StorageSize(type) == IF type.sort = "mapping" THEN type.slots ELSE 1

\* Members are packed in their order.  One that does not fit opens a slot, and
\* behind one of several slots a new slot starts.
ComputeOffsets(members) ==
    LET Behind(at, type) ==
            IF StorageSize(type) = 1 THEN [at EXCEPT !.offset = @ + type.bytes]
            ELSE [slot |-> at.slot + StorageSize(type), offset |-> 0]
        At[i \in 1..Len(members)] ==
            LET free == IF i = 1 THEN [slot |-> 0, offset |-> 0]
                        ELSE Behind(At[i - 1], members[i - 1])
            IN  IF free.offset + members[i].bytes > SlotBytes
                THEN [slot |-> free.slot + 1, offset |-> 0]
                ELSE free
    IN  [i \in 1..Len(members) |-> At[i]]

\* The offsets of a struct are computed once.
StorageOffsets == [t \in {t \in UNION {{sh.target, sh.source} : sh \in Shapes} : t.kind = "struct"} |-> ComputeOffsets(t.members)]

StorageOffsetsOfMember(t, i) == StorageOffsets[t][i]

\* The members that hold a value; the others are mappings.
ValueMembers(t) == SelectSeq([i \in DOMAIN t.members |-> i], LAMBDA i : t.members[i].sort # "mapping")

-----------------------------------------------------------------------------
(***************************************************************************)
(* Operations on images.  A panic gives no image.                          *)
(***************************************************************************)
NoImage == <<>>

ClearStorageRange(d, start, end) ==
    [slot \in DOMAIN d |-> IF start <= slot /\ slot < end THEN 0 ELSE d[slot]]

\* Keeps the lower bytes of a slot.
PartialClearStorageSlot(d, slot, bytes) ==
    [d EXCEPT ![slot] = MaskLowerOrderBytes(@, bytes)]

ExtractByteArrayLength(w) ==
    IF w % 2 = 0 THEN (w \div 2) % (Base \div 2) ELSE w \div 2

StorageEncodingError(w) == (w % 2 = 1) = (ExtractByteArrayLength(w) < SlotBytes)

Malformed(t, d) == t.kind = "bytes" /\ StorageEncodingError(d[0])

ArrayLength(t, d) ==
    CASE t.kind = "bytes" -> ExtractByteArrayLength(d[0])
      [] t.kind = "array" -> d[0]
      [] t.kind = "fixed" -> t.length
      [] t.kind = "struct" -> Len(ValueMembers(t))

\* Where the value with an index, counted from zero, is.
StorageArrayIndexAccess(t, d, index) ==
    IF t.kind = "bytes"
    THEN [slot |-> IF ArrayLength(t, d) < SlotBytes THEN 0 ELSE 1 + index \div SlotBytes,
          offset |-> SlotBytes - 1 - (index % SlotBytes)]
    ELSE IF Packed(t)
    THEN [slot |-> ArrayDataArea(t) + index \div ItemsPerSlot(t),
          offset |-> (index % ItemsPerSlot(t)) * BaseType(t).bytes]
    ELSE [slot |-> ArrayDataArea(t) + index, offset |-> 0]

ShortByteArrayEncodeUsedAreaSetLength(w, len) == MaskBytes(w, len) + 2 * len

IncreaseByteArraySize(d, oldLen, newLen) ==
    IF oldLen >= SlotBytes THEN [d EXCEPT ![0] = 2 * newLen + 1]
    ELSE IF newLen >= SlotBytes
    THEN [d EXCEPT ![1] = MaskBytes(d[0], SlotBytes - 1), ![0] = 2 * newLen + 1]
    ELSE [d EXCEPT ![0] = ShortByteArrayEncodeUsedAreaSetLength(@, newLen)]

ByteArrayTransitLongToShort(d, len) ==
    [d EXCEPT ![0] = ShortByteArrayEncodeUsedAreaSetLength(d[1], len), ![1] = 0]

SlotsOfBytes(len) == (len + SlotBytes - 1) \div SlotBytes

\* Only reached with newLen = 0: bytes have no assignable length.
DecreaseByteArraySize(d, oldLen, newLen) ==
    IF newLen >= SlotBytes
    THEN LET start == 1 + SlotsOfBytes(newLen)
             offset == newLen % SlotBytes
             cut == IF offset > 0 THEN PartialClearStorageSlot(d, start - 1, offset) ELSE d
         IN  [ClearStorageRange(cut, start, 1 + SlotsOfBytes(oldLen)) EXCEPT ![0] = 2 * newLen + 1]
    ELSE IF oldLen >= SlotBytes
    THEN ByteArrayTransitLongToShort(ClearStorageRange(d, 2, 1 + SlotsOfBytes(oldLen)), newLen)
    ELSE [d EXCEPT ![0] = ShortByteArrayEncodeUsedAreaSetLength(@, newLen)]

ResizeDynamicByteArray(t, d, newLen) ==
    LET oldLen == ArrayLength(t, d)
    IN  IF newLen > MaxArrayLength \/ Malformed(t, d) THEN NoImage
        ELSE IF newLen > oldLen THEN IncreaseByteArraySize(d, oldLen, newLen)
        ELSE IF newLen < oldLen THEN DecreaseByteArraySize(d, oldLen, newLen)
        ELSE d

\* Mutant: the rest of the last slot is left as it is.
ResizeWholeSlots(t, d, newLen) ==
    LET start == ArrayDataArea(t) + ArrayConvertLengthToSize(t, newLen)
        end == ArrayDataArea(t) + ArrayConvertLengthToSize(t, ArrayLength(t, d))
        resized == IF IsDynamic(t) THEN [d EXCEPT ![0] = newLen] ELSE d
    IN  IF newLen > MaxArrayLength THEN NoImage ELSE ClearStorageRange(resized, start, end)

\* Stores the length and clears what is no longer in the array.
ResizeArray(t, d, newLen) ==
    LET oldLen == ArrayLength(t, d)
        start == ArrayDataArea(t) + ArrayConvertLengthToSize(t, newLen)
        end == ArrayDataArea(t) + ArrayConvertLengthToSize(t, oldLen)
        offset == (newLen % ItemsPerSlot(t)) * BaseType(t).bytes
        resized == IF IsDynamic(t) THEN [d EXCEPT ![0] = newLen] ELSE d
        cut == IF Packed(t) /\ offset > 0 THEN PartialClearStorageSlot(resized, start - 1, offset)
               ELSE resized
    IN  IF newLen > MaxArrayLength THEN NoImage
        ELSE IF newLen < oldLen THEN ClearStorageRange(cut, start, end)
        ELSE resized

(***************************************************************************)
(* push, pop, write and delete.                                            *)
(***************************************************************************)
StoreAt(t, d, index, v) ==
    LET at == StorageArrayIndexAccess(t, d, index)
    IN  UpdateStorageValue(BaseType(t), d, at.slot, at.offset, v)

StorageByteArrayPush(t, d, v) ==
    LET w == d[0]
        oldLen == ArrayLength(t, d)
        byte == ByteAt(v, SlotBytes - 1)
    IN  IF Malformed(t, d) \/ oldLen >= MaxArrayLength THEN NoImage
        ELSE IF oldLen >= SlotBytes THEN StoreAt(t, [d EXCEPT ![0] = w + 2], oldLen, v)
        ELSE IF oldLen = SlotBytes - 1
        THEN [d EXCEPT ![1] = MaskBytes(w, SlotBytes - 1) + byte, ![0] = 2 * SlotBytes + 1]
        ELSE [d EXCEPT ![0] = UpdateByteSlice(1, w + 2, SlotBytes - 1 - oldLen, byte)]

StorageArrayPush(t, d, v) ==
    IF t.kind = "bytes" THEN StorageByteArrayPush(t, d, v)
    ELSE IF d[0] >= MaxArrayLength THEN NoImage
    ELSE StoreAt(t, [d EXCEPT ![0] = @ + 1], d[0], v)

\* The new value is whatever is behind the end.
StorageArrayPushZero(t, d) ==
    IF t.kind = "bytes"
    THEN IF Malformed(t, d) THEN NoImage
         ELSE IncreaseByteArraySize(d, ArrayLength(t, d), ArrayLength(t, d) + 1)
    ELSE IF d[0] >= MaxArrayLength THEN NoImage
    ELSE [d EXCEPT ![0] = @ + 1]

\* Mutant: an array of exactly one slot is taken for a short one.
PopWithoutTransition(t, d) ==
    LET oldLen == ArrayLength(t, d)
    IN  IF Malformed(t, d) \/ oldLen = 0 THEN NoImage
        ELSE IF oldLen <= SlotBytes
        THEN [d EXCEPT ![0] = ShortByteArrayEncodeUsedAreaSetLength(@, oldLen - 1)]
        ELSE [StoreAt(t, d, oldLen - 1, 0) EXCEPT ![0] = @ - 2]

StorageByteArrayPop(t, d) ==
    LET oldLen == ArrayLength(t, d)
    IN  IF Malformed(t, d) \/ oldLen = 0 THEN NoImage
        ELSE IF oldLen = SlotBytes THEN ByteArrayTransitLongToShort(d, SlotBytes - 1)
        ELSE IF oldLen < SlotBytes
        THEN [d EXCEPT ![0] = ShortByteArrayEncodeUsedAreaSetLength(@, oldLen - 1)]
        ELSE [StoreAt(t, d, oldLen - 1, 0) EXCEPT ![0] = @ - 2]

StorageArrayPop(t, d) ==
    IF t.kind = "bytes" THEN StorageByteArrayPop(t, d)
    ELSE IF d[0] = 0 THEN NoImage
    ELSE [StoreAt(t, d, d[0] - 1, 0) EXCEPT ![0] = @ - 1]

WriteMember(t, d, i, v) ==
    LET at == StorageOffsetsOfMember(t, i)
    IN  UpdateStorageValue(t.members[i], d, at.slot, at.offset, v)

StorageWrite(t, d, index, v) ==
    IF t.kind = "struct" THEN WriteMember(t, d, ValueMembers(t)[index + 1], v)
    ELSE IF Malformed(t, d) \/ index >= ArrayLength(t, d) THEN NoImage
    ELSE StoreAt(t, d, index, v)

ClearStorageArray(t, d) ==
    CASE t.kind = "bytes" -> ResizeDynamicByteArray(t, d, 0)
      [] t.kind = "array" -> ResizeArray(t, d, 0)
      [] t.kind = "fixed" -> ClearStorageRange(d, 0, ArrayConvertLengthToSize(t, t.length))

\* Slots with small members are cleared as a whole, mappings are left alone.
ClearStorageStruct(t, d) ==
    LET Holds(slot) ==
            \E i \in DOMAIN t.members :
                t.members[i].sort # "mapping" /\ StorageOffsetsOfMember(t, i).slot = slot
    IN  [slot \in DOMAIN d |-> IF Holds(slot) THEN 0 ELSE d[slot]]

StorageDelete(t, d) ==
    IF t.kind = "struct" THEN ClearStorageStruct(t, d) ELSE ClearStorageArray(t, d)

(***************************************************************************)
(* Copies to storage.  words[k] is the k-th word of a source of bytes: the *)
(* bytes behind its end may be anything.                                   *)
(***************************************************************************)
CopyByteArrayToStorage(t, d, newLen, words) ==
    LET oldLen == ArrayLength(t, d)
        start == IF newLen < SlotBytes THEN 1 ELSE 1 + SlotsOfBytes(newLen)
        cut == IF oldLen >= SlotBytes THEN ClearStorageRange(d, start, 1 + SlotsOfBytes(oldLen)) ELSE d
        full == newLen \div SlotBytes
        rest == newLen % SlotBytes
        Copied(slot) ==
            CASE slot = 0 -> 2 * newLen + 1
              [] 0 < slot /\ slot <= full -> words[slot - 1]
              [] slot = full + 1 /\ rest > 0 -> MaskBytes(words[full], rest)
              [] OTHER -> cut[slot]
    IN  IF newLen > MaxArrayLength - 1 \/ Malformed(t, d) THEN NoImage
        ELSE IF newLen >= SlotBytes THEN [slot \in DOMAIN d |-> Copied(slot)]
        ELSE [cut EXCEPT ![0] = ShortByteArrayEncodeUsedAreaSetLength(
                                    IF newLen = 0 THEN 0 ELSE words[0], newLen)]

\* One value after the other, from memory or calldata.
CopyArrayToStorage(t, d, values) ==
    LET resized == ResizeArray(t, d, Len(values))
        Loop[i \in 0..Len(values)] ==
            IF i = 0 THEN [d |-> resized, slot |-> ArrayDataArea(t), offset |-> 0]
            ELSE LET at == Loop[i - 1]
                     offset == at.offset + StorageStride(t)
                     turn == ~Packed(t) \/ offset > SlotBytes - StorageStride(t)
                 IN  [d |-> UpdateStorageValue(BaseType(t), at.d, at.slot, at.offset, values[i]),
                      slot |-> IF turn THEN at.slot + 1 ELSE at.slot,
                      offset |-> IF turn THEN 0 ELSE offset]
    IN  IF resized = NoImage THEN NoImage ELSE Loop[Len(values)].d

\* Slot by slot if both arrays have the same base type.
CopySlots(t, d, s, length) ==
    LET full == length \div ItemsPerSlot(t)
        spill == length - full * ItemsPerSlot(t)
        from == ArrayDataArea(t)
        Copied(slot) ==
            CASE from <= slot /\ slot < from + full ->
                     MaskLowerOrderBytes(s[slot], ItemsPerSlot(t) * StorageStride(t))
              [] slot = from + full /\ ItemsPerSlot(t) > 1 /\ spill > 0 ->
                     MaskLowerOrderBytes(s[slot], spill * StorageStride(t))
              [] OTHER -> d[slot]
    IN  [slot \in DOMAIN d |-> Copied(slot)]

\* Otherwise value by value, with a slot of the source read when it is due.
CopyItems(tt, d, ts, s, length) ==
    LET Advance(at) ==
            LET index == at.index + 1
                turn == ~Packed(ts) \/ index = ItemsPerSlot(ts)
            IN  [slot |-> IF turn THEN at.slot + 1 ELSE at.slot,
                 index |-> IF turn THEN 0 ELSE index]
        Source[k \in 0..length] ==
            IF k = 0 THEN [slot |-> ArrayDataArea(ts), index |-> 0] ELSE Advance(Source[k - 1])
        Item(k) ==
            PrepareStore(BaseType(tt),
                ExtractFromStorageValue(BaseType(ts), s[Source[k].slot], StorageStride(ts) * Source[k].index))
        \* The words of the target are built from zero, with j values in them.
        Word(first, n) ==
            LET Build[j \in 0..n] ==
                    IF j = 0 THEN 0
                    ELSE IF ItemsPerSlot(tt) = 1 THEN Item(first)
                    ELSE UpdateByteSlice(StorageStride(tt), Build[j - 1],
                                         StorageStride(tt) * (j - 1), Item(first + j - 1))
            IN  Build[n]
        Copied(slot) ==
            LET first == (slot - ArrayDataArea(tt)) * ItemsPerSlot(tt)
                left == length - first
            IN  IF slot < ArrayDataArea(tt) \/ left <= 0 THEN d[slot]
                ELSE Word(first, IF left < ItemsPerSlot(tt) THEN left ELSE ItemsPerSlot(tt))
    IN  [slot \in DOMAIN d |-> Copied(slot)]

CopyValueArrayStorageToStorage(tt, d, ts, s) ==
    LET length == ArrayLength(ts, s)
        resized == ResizeArray(tt, d, length)
    IN  IF length > MaxArrayLength - 1 \/ resized = NoImage THEN NoImage
        ELSE IF ts.base = tt.base THEN CopySlots(tt, resized, s, length)
        ELSE CopyItems(tt, resized, ts, s, length)

CopyStructToStorage(t, d, values) ==
    LET Loop[k \in 0..Len(values)] ==
            IF k = 0 THEN d ELSE WriteMember(t, Loop[k - 1], ValueMembers(t)[k], values[k])
    IN  Loop[Len(values)]

-----------------------------------------------------------------------------
(***************************************************************************)
(* The values the program uses: zero, and one that needs all bytes of its  *)
(* type and, for int, its sign.                                            *)
(***************************************************************************)
High(type) ==
    CASE type.sort = "uint" -> Base^type.bytes - 2
      [] type.sort = "int" -> Modulus - 2
      [] type.sort = "fixedBytes" -> Shl(Base^type.bytes - 2, SlotBytes - type.bytes)

TypeOfValue(t, k) == IF t.kind = "struct" THEN t.members[ValueMembers(t)[k]] ELSE BaseType(t)

\* One input of each length, in which every other value is high.
Inputs(t) ==
    LET lengths == IF IsDynamic(t) THEN 0..MaxArrayLength + 1 ELSE {ArrayLength(t, NoImage)}
    IN  {[k \in 1..n |-> IF k % 2 = 1 THEN High(TypeOfValue(t, k)) ELSE 0] : n \in lengths}

\* Few are enough for the source.
Fillings(t) ==
    {s \in Inputs(t) : IsDynamic(t) => Len(s) \in {SlotBytes - 1, SlotBytes, MaxArrayLength}}

BytesBehind(t) == IF t.kind = "bytes" THEN {0, Base - 1} ELSE {0}

\* Values are written at both ends of a slot and around the limit.
Indices(t) ==
    IF IsDynamic(t) THEN {1, SlotBytes, MaxArrayLength, MaxArrayLength + 1}
    ELSE 1..ArrayLength(t, NoImage)

-----------------------------------------------------------------------------
Init ==
    /\ shape \in Shapes
    /\ image = [a \in {"target", "source"} |-> [slot \in 0..Slots |-> 0]]
    /\ request = [op |-> "none"] /\ answer = "done"

\* An operation on the storage of a reverts if it panics.
Answer(r, a, d) ==
    /\ request' = r
    /\ answer' = IF d = NoImage THEN "panic" ELSE "done"
    /\ image' = IF d = NoImage THEN image ELSE [image EXCEPT ![a] = d]
    /\ UNCHANGED shape

Push(v) ==
    /\ IsDynamic(shape.target)
    /\ Answer([op |-> "push", value |-> v], "target", StorageArrayPush(shape.target, image["target"], v))

\* push(): the new value is reached by reference.  It has no limit for bytes.
PushZero ==
    /\ IsDynamic(shape.target)
    /\ ArrayLength(shape.target, image["target"]) <= MaxArrayLength
    /\ Answer([op |-> "push", value |-> 0], "target", StorageArrayPushZero(shape.target, image["target"]))

Pop ==
    /\ IsDynamic(shape.target)
    /\ Answer([op |-> "pop"], "target", StorageArrayPop(shape.target, image["target"]))

Write(i, v) ==
    Answer([op |-> "write", index |-> i, value |-> v], "target",
           StorageWrite(shape.target, image["target"], i - 1, v))

Delete == Answer([op |-> "delete"], "target", StorageDelete(shape.target, image["target"]))

\* Bytes in memory, left to right, and what happens to be behind them.
MemoryWord(values, k, behind) ==
    LET Upto[j \in 0..SlotBytes] ==
            IF j = 0 THEN 0
            ELSE Upto[j - 1] * Base + IF k * SlotBytes + j > Len(values) THEN behind
                                      ELSE ByteAt(values[k * SlotBytes + j], SlotBytes - 1)
    IN  Upto[SlotBytes]

FromMemory(t, d, values, behind) ==
    CASE t.kind = "bytes" ->
             CopyByteArrayToStorage(t, d, Len(values),
                 [k \in 0..SlotsOfBytes(Len(values)) - 1 |-> MemoryWord(values, k, behind)])
      [] t.kind = "struct" -> CopyStructToStorage(t, d, values)
      [] OTHER -> CopyArrayToStorage(t, d, values)

Assign(values, behind) ==
    Answer([op |-> "assign", values |-> values], "target",
           FromMemory(shape.target, image["target"], values, behind))

Fill(values) ==
    Answer([op |-> "fill", values |-> values], "source",
           FromMemory(shape.source, image["source"], values, 0))

ReadValue(t, d, k) ==
    IF t.kind = "struct"
    THEN LET i == ValueMembers(t)[k]
             at == StorageOffsetsOfMember(t, i)
         IN  ExtractFromStorageValue(t.members[i], d[at.slot], at.offset)
    ELSE LET at == StorageArrayIndexAccess(t, d, k - 1)
         IN  ExtractFromStorageValue(BaseType(t), d[at.slot], at.offset)

FromStorage(tt, d, ts, s) ==
    CASE tt.kind = "bytes" ->
             IF Malformed(ts, s) THEN NoImage
             ELSE LET length == ArrayLength(ts, s)
                  IN  CopyByteArrayToStorage(tt, d, length,
                          [k \in 0..SlotsOfBytes(length) - 1 |-> IF length < SlotBytes THEN s[k] ELSE s[1 + k]])
      [] tt.kind = "struct" ->
             CopyStructToStorage(tt, d, [k \in 1..Len(ValueMembers(ts)) |-> ReadValue(ts, s, k)])
      [] OTHER -> CopyValueArrayStorageToStorage(tt, d, ts, s)

Copy ==
    Answer([op |-> "copy"], "target",
           FromStorage(shape.target, image["target"], shape.source, image["source"]))

\* All copies leave at once if both ends are the same slot.
SelfCopy == Answer([op |-> "self"], "target", image["target"])

Next ==
    \/ \E v \in {0, High(TypeOfValue(shape.target, 1))} : Push(v)
    \/ PushZero \/ Pop \/ Delete \/ Copy \/ SelfCopy
    \/ \E i \in Indices(shape.target) : \E v \in {0, High(TypeOfValue(shape.target, i))} : Write(i, v)
    \/ \E values \in Inputs(shape.target), behind \in BytesBehind(shape.target) : Assign(values, behind)
    \/ \E values \in Fillings(shape.source) : Fill(values)

Spec == Init /\ [][Next]_vars

-----------------------------------------------------------------------------
\* What a program that reads all values finds.
Contents(a) ==
    LET t == shape[a]
    IN  IF Malformed(t, image[a]) THEN <<-1>>
        ELSE [k \in 1..ArrayLength(t, image[a]) |-> ReadValue(t, image[a], k)]

Model == INSTANCE ArrayModel WITH
    target <- Contents("target"),
    source <- Contents("source"),
    places <- [a \in {"target", "source"} |->
                  IF IsDynamic(shape[a]) THEN 0 ELSE ArrayLength(shape[a], image[a])]

\* Operations on slots and bytes do to the values of an array or struct what
\* the language says, at every length, for every packing and whatever is behind
\* the end of the source: the functions of YulUtilFunctions implement ArrayModel.
ImplementsArrays == Model!AMSpec

\* The bytes of a word that no value of the array uses.
UsedBytes(a, slot) ==
    LET t == shape[a]
        d == image[a]
        At(k) == IF t.kind = "struct" THEN StorageOffsetsOfMember(t, ValueMembers(t)[k])
                 ELSE StorageArrayIndexAccess(t, d, k - 1)
    IN  UNION {At(k).offset..At(k).offset + TypeOfValue(t, k).bytes - 1 :
                   k \in {k \in 1..ArrayLength(t, d) : At(k).slot = slot}}

\* Every byte outside the values and the length is zero: push() hands out what
\* is behind the end as a fresh value, and the slot-wise copies, pop and delete
\* of YulUtilFunctions must have cleared it.
NothingBehind ==
    \A a \in {"target", "source"} : \A slot \in 0..Slots :
        (slot = 0 /\ IsDynamic(shape[a])) \/
            \A offset \in (0..SlotBytes - 1) \ UsedBytes(a, slot) : ByteAt(image[a][slot], offset) = 0
=============================================================================
