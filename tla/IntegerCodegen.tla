-------------------------- MODULE IntegerCodegen ---------------------------
(***************************************************************************)
(* The code generated for integers and fixed-size byte strings.            *)
(*                                                                         *)
(* A value narrower than a machine word lives in a word whose other bits   *)
(* are only cleaned when an operation needs them clean: the word may be    *)
(* dirty.  Two generators share the work.  The legacy one                  *)
(* (ExpressionCompiler, CompilerUtils) emits instructions, and calls the   *)
(* Yul functions of YulUtilFunctions in checked blocks; the other one      *)
(* ("ir") calls Yul functions throughout.                                  *)
(*                                                                         *)
(* The machine holds one value, which operations replace one after the     *)
(* other; next to it value is what the language says it is.                *)
(***************************************************************************)
EXTENDS Integers, FiniteSetsExt

CONSTANTS
    WordBits,     \* 256
    Widths,       \* widths of types, WordBits among them
    SmallPowers,  \* the bounds of the specialisations of checked_exp_unsigned
    LiteralBases, \* literals used as base of a power
    Operands      \* words used as second operand, dirty ones included

Modulus == 2^WordBits
Words == 0..Modulus - 1

\* For each pair <<b, e>>: a base below b and an exponent below e give a power
\* that fits in a word, and neither bound can be raised.
ASSUME SmallPowersAssumption ==
    \A p \in SmallPowers :
        /\ (p[1] - 1)^(p[2] - 1) < Modulus
        /\ p[1]^(p[2] - 1) >= Modulus
        /\ (p[1] - 1)^p[2] >= Modulus

\* Literals fit in a word.  WordBits - 1 must be odd: see LiteralBound.
ASSUME WordAssumption ==
    /\ WordBits \in Widths /\ Widths \subseteq 1..WordBits /\ WordBits % 2 = 0
    /\ Operands \subseteq Words
    /\ LiteralBases \subseteq (-(Modulus \div 2))..(Modulus - 1)

Types == [kind : {"uint", "int", "bytes"}, bits : Widths]
Signed(t) == t.kind = "int"
IsInteger(t) == t.kind # "bytes"

VARIABLES
    shifting,     \* EVMVersion::hasBitwiseShifting
    generator,    \* legacy or ir
    arithmetic,   \* Arithmetic::Checked or Wrapping, set by unchecked blocks
    type, word,   \* the value on the stack: its type and the word
    outcome,      \* number, panic, or the result of a comparison: true, false
    value,        \* the value by the rules of the language
    expected,     \* the outcome by the rules of the language
    cut           \* history: ir has converted a byte string to a shorter one

vars == <<shifting, generator, arithmetic, type, word, outcome, value, expected, cut>>

-----------------------------------------------------------------------------
(***************************************************************************)
(* Instructions of the machine, on words.                                  *)
(***************************************************************************)
ToSigned(x) == IF x >= Modulus \div 2 THEN x - Modulus ELSE x      \* u2s
ToWord(n) == n % Modulus                                           \* s2u

Abs(n) == IF n < 0 THEN -n ELSE n
Sign(n) == IF n < 0 THEN -1 ELSE 1
Quotient(a, b) == Sign(a) * Sign(b) * (Abs(a) \div Abs(b))         \* towards zero
Remainder(a, b) == a - b * Quotient(a, b)

ADD(x, y) == (x + y) % Modulus
SUB(x, y) == (x - y) % Modulus
MUL(x, y) == (x * y) % Modulus
DIV(x, y) == IF y = 0 THEN 0 ELSE x \div y
MOD(x, y) == IF y = 0 THEN 0 ELSE x % y
SDIV(x, y) == IF y = 0 THEN 0 ELSE ToWord(Quotient(ToSigned(x), ToSigned(y)))
SMOD(x, y) == IF y = 0 THEN 0 ELSE ToWord(Remainder(ToSigned(x), ToSigned(y)))
SLT(x, y) == ToSigned(x) < ToSigned(y)
SGT(x, y) == ToSigned(x) > ToSigned(y)
EXP(x, e) == LET P[k \in Nat] == IF k = 0 THEN 1 ELSE MUL(P[k - 1], x) IN P[e]
SHL(n, x) == IF n >= WordBits THEN 0 ELSE MUL(x, 2^n)
SHR(n, x) == IF n >= WordBits THEN 0 ELSE x \div 2^n
SAR(n, x) == IF n >= WordBits THEN (IF SLT(x, 0) THEN Modulus - 1 ELSE 0)
                              ELSE ToWord(ToSigned(x) \div 2^n)

Bit(x, i) == (x \div 2^i) % 2 = 1
FromBits(S) == MapThenSumSet(LAMBDA i : 2^i, S)
AND(x, y) == FromBits({i \in 0..WordBits - 1 : Bit(x, i) /\ Bit(y, i)})
OR(x, y)  == FromBits({i \in 0..WordBits - 1 : Bit(x, i) \/ Bit(y, i)})
XOR(x, y) == FromBits({i \in 0..WordBits - 1 : Bit(x, i) # Bit(y, i)})
NOT(x) == Modulus - 1 - x
SIGNEXTEND(bits, x) == LET low == x % 2^bits
                       IN IF Bit(x, bits - 1) THEN ToWord(low - 2^bits) ELSE low

-----------------------------------------------------------------------------
(***************************************************************************)
(* Cleaning.                                                               *)
(***************************************************************************)
MinValue(t) == IF Signed(t) THEN -(2^(t.bits - 1)) ELSE 0
MaxValue(t) == IF Signed(t) THEN 2^(t.bits - 1) - 1 ELSE 2^t.bits - 1
minWord(t) == ToWord(MinValue(t))
maxWord(t) == ToWord(MaxValue(t))

\* cleanupFunction, and cleanHigherOrderBits of CompilerUtils: the same code.
\* Byte strings are aligned to the left.
CleanupFunction(t, x) ==
    CASE t.bits = WordBits  -> x
      [] t.kind = "bytes"   -> x - (x % 2^(WordBits - t.bits))
      [] t.kind = "int"     -> SIGNEXTEND(t.bits, x)
      [] OTHER              -> x % 2^t.bits

\* What a function returns that panics: not a word, and not a number of a type.
Panic == Modulus

OverflowCheckedIntAdd(t, a, b) ==
    LET x == CleanupFunction(t, a)
        y == CleanupFunction(t, b)
    IN IF IF Signed(t) THEN \/ ~SLT(x, 0) /\ SGT(y, SUB(maxWord(t), x))
                            \/ SLT(x, 0) /\ SLT(y, SUB(minWord(t), x))
                       ELSE x > SUB(maxWord(t), y)
       THEN Panic ELSE ADD(x, y)

OverflowCheckedIntSub(t, a, b) ==
    LET x == CleanupFunction(t, a)
        y == CleanupFunction(t, b)
    IN IF IF Signed(t) THEN \/ ~SLT(y, 0) /\ SLT(x, ADD(minWord(t), y))
                            \/ SLT(y, 0) /\ SGT(x, ADD(maxWord(t), y))
                       ELSE x < y
       THEN Panic ELSE SUB(x, y)

OverflowCheckedIntMul(t, a, b) ==
    LET x == CleanupFunction(t, a)
        y == CleanupFunction(t, b)
    IN IF IF Signed(t) THEN \/ SGT(x, 0) /\ SGT(y, 0) /\ x > DIV(maxWord(t), y)
                            \/ SGT(x, 0) /\ SLT(y, 0) /\ SLT(y, SDIV(minWord(t), x))
                            \/ SLT(x, 0) /\ SGT(y, 0) /\ SLT(x, SDIV(minWord(t), y))
                            \/ SLT(x, 0) /\ SLT(y, 0) /\ SLT(x, SDIV(maxWord(t), y))
                       ELSE x # 0 /\ y > DIV(maxWord(t), x)
       THEN Panic ELSE MUL(x, y)

OverflowCheckedIntDiv(t, a, b) ==
    LET x == CleanupFunction(t, a)
        y == CleanupFunction(t, b)
    IN IF y = 0 \/ (Signed(t) /\ x = minWord(t) /\ y = SUB(0, 1))
       THEN Panic
       ELSE IF Signed(t) THEN SDIV(x, y) ELSE DIV(x, y)

WrappingIntDiv(t, a, b) ==
    LET x == CleanupFunction(t, a)
        y == CleanupFunction(t, b)
    IN IF y = 0 THEN Panic ELSE IF Signed(t) THEN SDIV(x, y) ELSE DIV(x, y)

IntMod(t, a, b) ==
    LET x == CleanupFunction(t, a)
        y == CleanupFunction(t, b)
    IN IF y = 0 THEN Panic ELSE IF Signed(t) THEN SMOD(x, y) ELSE MOD(x, y)

IncrementChecked(t, a) ==
    LET x == CleanupFunction(t, a) IN IF x = maxWord(t) THEN Panic ELSE ADD(x, 1)
DecrementChecked(t, a) ==
    LET x == CleanupFunction(t, a) IN IF x = minWord(t) THEN Panic ELSE SUB(x, 1)
NegateNumberChecked(t, a) ==
    LET x == CleanupFunction(t, a) IN IF x = minWord(t) THEN Panic ELSE SUB(0, x)

-----------------------------------------------------------------------------
(***************************************************************************)
(* Powers.                                                                 *)
(***************************************************************************)
Overflowed == [power |-> 0, base |-> 0, panic |-> TRUE]

\* checked_exp_helper; the last multiplication is left to the caller.
OverflowCheckedExpLoop(p0, b0, e0, max) ==
    LET Loop[s \in Words \X Words \X Words] ==
            LET p == s[1]
                b == s[2]
                e == s[3]
            IN IF e <= 1 THEN [power |-> p, base |-> b, panic |-> FALSE]
               ELSE IF b > DIV(max, b) THEN Overflowed
               ELSE Loop[<<IF e % 2 = 1 THEN MUL(p, b) ELSE p, MUL(b, b), SHR(1, e)>>]
    IN Loop[<<p0, b0, e0>>]

OverflowCheckedUnsignedExp(base, e, max) ==
    LET small == EXP(base, e)
        r == OverflowCheckedExpLoop(1, base, e, max)
    IN IF e = 0 THEN 1
       ELSE IF base <= 1 THEN base
       ELSE IF base = 2 /\ e > WordBits - 1 THEN Panic
       ELSE IF base = 2 \/ \E p \in SmallPowers : base < p[1] /\ e < p[2]
         THEN IF small > max THEN Panic ELSE small
       ELSE IF r.panic \/ r.power > DIV(max, r.base) THEN Panic
       ELSE MUL(r.power, r.base)

\* Mutant: the square of the base is not tested when the base is negative.
SignedExpNoSquareTest(base, e, min, max) ==
    LET r == OverflowCheckedExpLoop(IF e % 2 = 1 THEN base ELSE 1, MUL(base, base), SHR(1, e), max)
    IN IF e = 0 THEN 1
       ELSE IF e = 1 \/ base = 0 THEN base
       ELSE IF SGT(base, 0) /\ base > DIV(max, base) THEN Panic
       ELSE IF \/ r.panic
               \/ SGT(r.power, 0) /\ r.power > DIV(max, r.base)
               \/ SLT(r.power, 0) /\ SLT(r.power, SDIV(min, r.base))
         THEN Panic
       ELSE MUL(r.power, r.base)

\* The first round is pulled out: only in it the base can be negative.
OverflowCheckedSignedExp(base, e, min, max) ==
    LET r == OverflowCheckedExpLoop(IF e % 2 = 1 THEN base ELSE 1, MUL(base, base), SHR(1, e), max)
    IN IF e = 0 THEN 1
       ELSE IF e = 1 \/ base = 0 THEN base
       ELSE IF IF SGT(base, 0) THEN base > DIV(max, base) ELSE SLT(base, SDIV(max, base))
         THEN Panic
       ELSE IF \/ r.panic
               \/ SGT(r.power, 0) /\ r.power > DIV(max, r.base)
               \/ SLT(r.power, 0) /\ SLT(r.power, SDIV(min, r.base))
         THEN Panic
       ELSE MUL(r.power, r.base)

\* overflowCheckedIntExpFunction
OverflowCheckedIntExp(t, te, a, b) ==
    LET base == CleanupFunction(t, a)
        e    == CleanupFunction(te, b)
    IN IF Signed(t) THEN OverflowCheckedSignedExp(base, e, minWord(t), maxWord(t))
                    ELSE OverflowCheckedUnsignedExp(base, e, maxWord(t))

\* findExponentUpperbound: the largest b with base^b <= max, by bisection, with
\* a test on the most significant bits to avoid large powers.
Msb(n) == CHOOSE i \in 0..WordBits : 2^i <= n /\ n < 2^(i + 1)
FindExponentUpperbound(base, max) ==
    LET Find[s \in Nat \X Nat] ==
            LET first  == s[1]
                last   == s[2]
                middle == (first + last) \div 2
            IN IF first >= last THEN last
               ELSE IF Msb(base) * middle <= Msb(max) /\ base^middle <= max
                 THEN IF base^(middle + 1) > max THEN middle ELSE Find[<<middle + 1, last>>]
                 ELSE Find[<<first, middle>>]
    IN IF base \in {0, 1} THEN 0 ELSE Find[<<0, WordBits - 1>>]

\* overflowCheckedIntLiteralExpFunction.  For a negative base only underflow is
\* tested: an even power cannot be 2^(WordBits - 1), this exponent being odd.
LiteralType(base) == [kind |-> IF base < 0 THEN "int" ELSE "uint", bits |-> WordBits]
LiteralBound(base) ==
    FindExponentUpperbound(Abs(base), IF base < 0 THEN Modulus \div 2 ELSE Modulus - 1)
OverflowCheckedIntLiteralExp(base, te, b) ==
    LET e == CleanupFunction(te, b)
    IN IF base \notin {-1, 0, 1} /\ e > LiteralBound(base) THEN Panic ELSE EXP(ToWord(base), e)

-----------------------------------------------------------------------------
(***************************************************************************)
(* Shifts and conversions.                                                 *)
(***************************************************************************)
ShiftLeft(n, x) == IF shifting THEN SHL(n, x) ELSE MUL(x, EXP(2, n))

\* shiftRightSignedFunctionDynamic, shiftRightFunctionDynamic, and the inline
\* assembly of appendShiftOperatorCode, which is the same.
ShiftRight(signed, n, x) ==
    LET mask == IF SLT(x, 0) THEN Modulus - 1 ELSE 0
    IN IF ~signed THEN IF shifting THEN SHR(n, x) ELSE DIV(x, EXP(2, n))
       ELSE IF shifting THEN SAR(n, x)
       ELSE XOR(DIV(XOR(x, mask), EXP(2, n)), mask)

\* typedShiftLeftFunction and typedShiftRightFunction
TypedShift(op, t, te, x, n) ==
    LET bits == CleanupFunction(te, n)
    IN CleanupFunction(t, IF op = "shl" THEN ShiftLeft(bits, x)
                          ELSE ShiftRight(Signed(t), bits, CleanupFunction(t, x)))

\* Conversions the language allows: integers change their width or their
\* signedness, not both at once; byte strings change their length or become an
\* unsigned integer of the same width, and back.
Convertible(t, u) ==
    \/ t.kind = u.kind
    \/ t.bits = u.bits /\ ((IsInteger(t) /\ IsInteger(u)) \/ "int" \notin {t.kind, u.kind})

\* Mutant: a widening conversion trusts the word to be clean.
ConvertWithoutCleanup(t, u, cleanupNeeded, x) ==
    IF t = u /\ ~cleanupNeeded THEN x
    ELSE CASE t.kind = "bytes" /\ u.kind = "bytes" ->
                 IF u.bits > t.bits \/ cleanupNeeded
                 THEN CleanupFunction([kind |-> "bytes", bits |-> Min({t.bits, u.bits})], x)
                 ELSE x
           [] t.kind = "bytes" -> ShiftRight(FALSE, WordBits - t.bits, x)
           [] u.kind = "bytes" -> ShiftLeft(WordBits - u.bits, x)
           [] OTHER -> IF cleanupNeeded THEN CleanupFunction(u, x) ELSE x

\* CompilerUtils::convertType
ConvertType(t, u, cleanupNeeded, x) ==
    IF t = u /\ ~cleanupNeeded THEN x
    ELSE CASE t.kind = "bytes" /\ u.kind = "bytes" ->
                 IF u.bits > t.bits \/ cleanupNeeded
                 THEN CleanupFunction([kind |-> "bytes", bits |-> Min({t.bits, u.bits})], x)
                 ELSE x
           [] t.kind = "bytes" -> ShiftRight(FALSE, WordBits - t.bits, x)
           [] u.kind = "bytes" -> ShiftLeft(WordBits - u.bits, x)
           [] OTHER -> IF u.bits > t.bits THEN CleanupFunction(t, x)
                       ELSE IF cleanupNeeded THEN CleanupFunction(u, x) ELSE x

\* YulUtilFunctions::conversionFunction
ConversionFunction(t, u, x) ==
    CASE t.kind = "bytes" /\ u.kind = "bytes" -> CleanupFunction(t, x)
      [] t.kind = "bytes" -> CleanupFunction(u, ShiftRight(FALSE, WordBits - t.bits, x))
      [] u.kind = "bytes" -> ShiftLeft(WordBits - u.bits, CleanupFunction(t, x))
      [] OTHER -> CleanupFunction(IF u.bits > t.bits THEN t ELSE u, x)

-----------------------------------------------------------------------------
(***************************************************************************)
(* The operators.  t is the common type, and both operands have it.        *)
(***************************************************************************)
ArithmeticOps == {"add", "sub", "mul", "div", "mod"}
BitOps == {"and", "or", "xor"}
CompareOps == {"eq", "ne", "lt", "gt", "le", "ge"}
ShiftOps == {"shl", "sar"}

CleanupNeededForOp(t, op) ==
    \/ op \in CompareOps \cup ShiftOps
    \/ arithmetic = "wrapping" /\ IsInteger(t) /\ op \in {"div", "mod", "exp"}

\* acceptAndConvert of an operand
Operand(t, op, x) == ConvertType(t, t, CleanupNeededForOp(t, op), x)

\* appendArithmeticOperatorCode and its counterparts for ir
CheckedArithmetic(op, t, x, y) ==
    CASE op = "add" -> OverflowCheckedIntAdd(t, x, y)
      [] op = "sub" -> OverflowCheckedIntSub(t, x, y)
      [] op = "mul" -> OverflowCheckedIntMul(t, x, y)
      [] op = "div" -> OverflowCheckedIntDiv(t, x, y)
      [] op = "mod" -> IntMod(t, x, y)
WrappingArithmetic(op, t, x, y) ==
    CASE op = "add" -> CleanupFunction(t, ADD(x, y))
      [] op = "sub" -> CleanupFunction(t, SUB(x, y))
      [] op = "mul" -> CleanupFunction(t, MUL(x, y))
      [] op = "div" -> WrappingIntDiv(t, x, y)
      [] op = "mod" -> IntMod(t, x, y)
PlainArithmetic(op, t, x, y) ==
    CASE op = "add" -> ADD(x, y)
      [] op = "sub" -> SUB(x, y)
      [] op = "mul" -> MUL(x, y)
      [] op = "div" -> IF y = 0 THEN Panic ELSE IF Signed(t) THEN SDIV(x, y) ELSE DIV(x, y)
      [] op = "mod" -> IF y = 0 THEN Panic ELSE IF Signed(t) THEN SMOD(x, y) ELSE MOD(x, y)
ArithmeticCode(op, t, x, y) ==
    IF arithmetic = "checked" THEN CheckedArithmetic(op, t, x, y)
    ELSE IF generator = "ir" THEN WrappingArithmetic(op, t, x, y)
    ELSE PlainArithmetic(op, t, Operand(t, op, x), Operand(t, op, y))

\* appendExpOperatorCode, wrappingIntExpFunction.  The exponent has a type of
\* its own.
ExpCode(t, te, x, e) ==
    IF arithmetic = "checked" THEN OverflowCheckedIntExp(t, te, x, e)
    ELSE IF generator = "ir" THEN CleanupFunction(t, EXP(CleanupFunction(t, x), CleanupFunction(te, e)))
    ELSE EXP(Operand(t, "exp", x), Operand(te, "exp", e))

\* appendBitOperatorCode
BitCode(op, x, y) == CASE op = "and" -> AND(x, y) [] op = "or" -> OR(x, y) [] op = "xor" -> XOR(x, y)

\* appendCompareOperatorCode: le and ge are the negations of gt and lt.
CompareCode(op, t, x, y) ==
    CASE op = "eq" -> x = y
      [] op = "ne" -> ~(x = y)
      [] op = "lt" -> IF Signed(t) THEN SLT(x, y) ELSE x < y
      [] op = "gt" -> IF Signed(t) THEN SGT(x, y) ELSE x > y
      [] op = "le" -> ~(IF Signed(t) THEN SGT(x, y) ELSE x > y)
      [] op = "ge" -> ~(IF Signed(t) THEN SLT(x, y) ELSE x < y)

\* appendShiftOperatorCode
ShiftCode(op, t, te, x, n) ==
    IF generator = "ir" THEN TypedShift(op, t, te, x, n)
    ELSE LET a == Operand(t, op, x)
             k == Operand(te, op, n)
         IN IF op = "shl" THEN ShiftLeft(k, a) ELSE ShiftRight(Signed(t), k, a)

\* visit(UnaryOperation); ++ and -- on their value.
UnaryCode(op, t, x) ==
    CASE op = "not" -> NOT(x)
      [] op # "not" /\ arithmetic = "checked" ->
            (CASE op = "inc" -> IncrementChecked(t, x)
               [] op = "dec" -> DecrementChecked(t, x)
               [] op = "neg" -> NegateNumberChecked(t, x))
      [] OTHER ->
            LET r == CASE op = "inc" -> ADD(x, 1) [] op = "dec" -> SUB(x, 1) [] op = "neg" -> SUB(0, x)
            IN IF generator = "ir" THEN CleanupFunction(t, r) ELSE r

-----------------------------------------------------------------------------
(***************************************************************************)
(* The language: numbers of unlimited size, and what fits in a type.       *)
(***************************************************************************)
Meaning(t, x) ==
    CASE t.kind = "bytes" -> x \div 2^(WordBits - t.bits)
      [] t.kind = "uint"  -> x % 2^t.bits
      [] OTHER            -> LET low == x % 2^t.bits
                             IN IF low > MaxValue(t) THEN low - 2^t.bits ELSE low

InRange(t, n) == n \in MinValue(t)..MaxValue(t)
Wrap(t, n) == LET low == n % 2^t.bits IN IF low > MaxValue(t) THEN low - 2^t.bits ELSE low

\* Overflow panics in a checked block and wraps in an unchecked one.
Limited(t, n) == IF arithmetic = "checked" /\ ~InRange(t, n) THEN Panic ELSE Wrap(t, n)

Exact(op, t, a, b) ==
    CASE op = "add" -> Limited(t, a + b)
      [] op = "sub" -> Limited(t, a - b)
      [] op = "mul" -> Limited(t, a * b)
      [] op = "div" -> IF b = 0 THEN Panic ELSE Limited(t, Quotient(a, b))
      [] op = "mod" -> IF b = 0 THEN Panic ELSE Limited(t, Remainder(a, b))

\* Once a power is out of range the next ones are.
Power(t, a, e) ==
    LET P[k \in Nat] == IF k = 0 THEN 1
                        ELSE LET p == P[k - 1]
                             IN IF p = Panic THEN Panic ELSE Limited(t, p * a)
    IN P[e]

Shifted(op, t, a, n) ==
    IF op = "shl" THEN IF n >= t.bits THEN 0 ELSE Wrap(t, a * 2^n)
    ELSE IF n >= t.bits THEN (IF a < 0 THEN -1 ELSE 0) ELSE a \div 2^n

Pattern(t, n) == n % 2^t.bits
Bitwise(op, t, a, b) == Wrap(t, BitCode(op, Pattern(t, a), Pattern(t, b)))

Compared(op, a, b) ==
    CASE op = "eq" -> a = b [] op = "ne" -> a # b [] op = "lt" -> a < b [] op = "gt" -> a > b
      [] op = "le" -> a <= b [] op = "ge" -> a >= b

UnaryResult(op, t, a) ==
    CASE op = "not" -> Wrap(t, -1 - a) [] op = "inc" -> Limited(t, a + 1)
      [] op = "dec" -> Limited(t, a - 1) [] op = "neg" -> Limited(t, -a)

\* Byte strings are cut or filled up at their right end.
Converted(t, u, n) ==
    IF t.kind = "bytes" /\ u.kind = "bytes"
    THEN IF u.bits >= t.bits THEN n * 2^(u.bits - t.bits) ELSE n \div 2^(t.bits - u.bits)
    ELSE Wrap(u, n)

-----------------------------------------------------------------------------
(***************************************************************************)
(* Steps.                                                                  *)
(***************************************************************************)
\* Words may be dirty from the start (inline assembly), except that ir counts
\* on clean byte strings: typedShiftLeftFunction cleans its result only.
Init ==
    /\ shifting \in BOOLEAN
    /\ generator \in {"legacy", "ir"}
    /\ arithmetic = "checked"
    /\ type \in Types /\ word \in Words
    /\ generator = "ir" /\ type.kind = "bytes" => word = CleanupFunction(type, word)
    /\ value = Meaning(type, word)
    /\ outcome = "number" /\ expected = "number" /\ cut = FALSE

\* The machine has word w, or panics; the language says n, or panic.
Becomes(t, w, n) ==
    /\ outcome' = IF w = Panic THEN "panic" ELSE "number"
    /\ expected' = IF n = Panic THEN "panic" ELSE "number"
    /\ type' = IF w = Panic THEN type ELSE t
    /\ word' = IF w = Panic THEN word ELSE w
    /\ value' = IF n = Panic THEN value ELSE n
    /\ cut' = (cut \/ (generator = "ir" /\ type.kind = "bytes" /\ t.kind = "bytes" /\ t.bits < type.bits))
    /\ UNCHANGED <<shifting, generator, arithmetic>>

AmountTypes == [kind : {"uint"}, bits : Widths]

Arithmetic(op, y) ==
    /\ outcome = "number" /\ IsInteger(type)
    /\ Becomes(type, ArithmeticCode(op, type, word, y), Exact(op, type, value, Meaning(type, y)))

Exponentiate(te, y) ==
    /\ outcome = "number" /\ IsInteger(type)
    /\ Becomes(type, ExpCode(type, te, word, y), Power(type, value, Meaning(te, y)))

\* The value is the exponent of a literal.
LiteralPower(base) ==
    /\ outcome = "number" /\ generator = "ir" /\ arithmetic = "checked" /\ type.kind = "uint"
    /\ Becomes(LiteralType(base), OverflowCheckedIntLiteralExp(base, type, word),
               Power(LiteralType(base), base, value))

BitOperation(op, y) ==
    /\ outcome = "number" /\ generator = "legacy"
    /\ Becomes(type, BitCode(op, word, y), Bitwise(op, type, value, Meaning(type, y)))

Shift(op, te, y) ==
    /\ outcome = "number"
    /\ Becomes(type, ShiftCode(op, type, te, word, y), Shifted(op, type, value, Meaning(te, y)))

Unary(op) ==
    /\ outcome = "number"
    /\ op = "neg" => Signed(type)
    /\ op = "not" => generator = "legacy"
    /\ op # "not" => IsInteger(type)
    /\ Becomes(type, UnaryCode(op, type, word), UnaryResult(op, type, value))

Convert(u) ==
    /\ outcome = "number" /\ Convertible(type, u)
    /\ Becomes(u, IF generator = "ir" THEN ConversionFunction(type, u, word)
                                      ELSE ConvertType(type, u, FALSE, word),
               Converted(type, u, value))

\* A comparison ends the expression.
Compare(op, y) ==
    LET Answer(b) == IF b THEN "true" ELSE "false"
    IN /\ outcome = "number" /\ generator = "legacy"
       /\ outcome' = Answer(CompareCode(op, type, Operand(type, op, word), Operand(type, op, y)))
       /\ expected' = Answer(Compared(op, value, Meaning(type, y)))
       /\ UNCHANGED <<shifting, generator, arithmetic, type, word, value, cut>>

\* visit(Block): unchecked blocks are not nested.
SetArithmetic ==
    /\ outcome = "number"
    /\ arithmetic' = IF arithmetic = "checked" THEN "wrapping" ELSE "checked"
    /\ UNCHANGED <<shifting, generator, type, word, outcome, value, expected, cut>>

Next ==
    \/ \E y \in Operands :
          \/ \E op \in ArithmeticOps : Arithmetic(op, y)
          \/ \E op \in BitOps : BitOperation(op, y)
          \/ \E op \in CompareOps : Compare(op, y)
          \/ \E te \in AmountTypes : Exponentiate(te, y)
          \/ \E op \in ShiftOps, te \in AmountTypes : Shift(op, te, y)
    \/ \E base \in LiteralBases : LiteralPower(base)
    \/ \E op \in {"not", "inc", "dec", "neg"} : Unary(op)
    \/ \E u \in Types : Convert(u)
    \/ SetArithmetic

Spec == Init /\ [][Next]_vars
-----------------------------------------------------------------------------
\* Type invariant of the machine.
TypeOK ==
    /\ shifting \in BOOLEAN /\ generator \in {"legacy", "ir"}
    /\ arithmetic \in {"checked", "wrapping"}
    /\ type \in Types /\ word \in Words /\ value \in MinValue(type)..MaxValue(type)
    /\ outcome \in {"number", "panic", "true", "false"}
    /\ expected \in {"number", "panic", "true", "false"}

\* After any sequence of operations, in checked and unchecked blocks and with
\* conversions in between, the code panics, or answers a comparison, as the
\* language demands: no overflow is missed, none is reported that did not
\* happen, and dirty bits do not get into a decision.  (conversionFunction leaves
\* the bytes that a shorter byte string loses in the word, and a shift brings
\* them back: nothing is promised for what follows.)
OutcomeAsExpected == ~cut => outcome = expected

\* Whatever bits were left dirty on the way, the word still stands for the
\* value the language gives to the expression.
WordMeansValue == ~cut /\ outcome = "number" /\ expected = "number" => Meaning(type, word) = value

=============================================================================
