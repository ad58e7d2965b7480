--------------------------- MODULE ParserProofs ---------------------------
(***************************************************************************)
(* For all lists of sources and every number of errors: "_" is a           *)
(* placeholder exactly within definitions of modifiers, and sources        *)
(* without an error were parsed to their last token.                       *)
(*                                                                         *)
(* The argument is about the functions under way.  A definition of a       *)
(* modifier holds no second one, since nothing within it calls what parses *)
(* source units, contracts or their parts; so the exception that removes   *)
(* its frame may reset the flag.  The proof goes through all functions of  *)
(* the parser: most only call others that may be called from anywhere.     *)
(***************************************************************************)
EXTENDS Parser, SequenceTheorems, FiniteSetTheorems, WellFoundedInduction, TLAPS

-----------------------------------------------------------------------------
(***************************************************************************)
(* Sequences of anything.                                                  *)
(***************************************************************************)
IsSeq(s) == s \in Seq({s[i] : i \in DOMAIN s})

LEMMA SeqIsSeq ==
  ASSUME NEW S, NEW s \in Seq(S)
  PROVE  IsSeq(s)
<1>1. Len(s) \in Nat /\ s \in [1..Len(s) -> S] /\ DOMAIN s = 1..Len(s)
  BY LenProperties
<1>2. s \in [1..Len(s) -> {s[i] : i \in DOMAIN s}]
  BY <1>1
<1>3. s \in UNION {[1..n -> {s[i] : i \in DOMAIN s}] : n \in Nat}
  BY <1>1, <1>2
<1> QED BY <1>3, SeqDef DEF IsSeq

LEMMA IsSeqLen ==
  ASSUME NEW s, IsSeq(s)
  PROVE  Len(s) \in Nat /\ DOMAIN s = 1..Len(s)
BY LenProperties DEF IsSeq

\* Two sequences have their elements in one set.
LEMMA InOneSet ==
  ASSUME NEW s, IsSeq(s), NEW t, IsSeq(t)
  PROVE  \E S : s \in Seq(S) /\ t \in Seq(S)
<1> DEFINE A == {s[i] : i \in DOMAIN s}
           B == {t[i] : i \in DOMAIN t}
<1>1. s \in Seq(A) /\ t \in Seq(B)
  BY DEF IsSeq
<1> HIDE DEF A, B
<1>2. A \subseteq A \cup B /\ B \subseteq A \cup B
  OBVIOUS
<1>3. s \in Seq(A \cup B) /\ t \in Seq(A \cup B)
  BY <1>1, <1>2, SeqMonotonic
<1> QED BY <1>3

LEMMA IsSeqConcat ==
  ASSUME NEW s, IsSeq(s), NEW t, IsSeq(t)
  PROVE  /\ IsSeq(s \o t) /\ Len(s \o t) = Len(s) + Len(t)
         /\ \A i \in 1..(Len(s) + Len(t)) : (s \o t)[i] = IF i <= Len(s) THEN s[i] ELSE t[i - Len(s)]
<1>1. PICK S : s \in Seq(S) /\ t \in Seq(S)
  BY InOneSet
<1>2. /\ s \o t \in Seq(S) /\ Len(s \o t) = Len(s) + Len(t)
      /\ \A i \in 1..(Len(s) + Len(t)) : (s \o t)[i] = IF i <= Len(s) THEN s[i] ELSE t[i - Len(s)]
  BY <1>1, ConcatProperties
<1> QED BY <1>2, SeqIsSeq

LEMMA IsSeqAppend ==
  ASSUME NEW s, IsSeq(s), NEW e
  PROVE  /\ IsSeq(Append(s, e)) /\ Len(Append(s, e)) = Len(s) + 1
         /\ \A i \in 1..(Len(s) + 1) : Append(s, e)[i] = IF i <= Len(s) THEN s[i] ELSE e
<1> DEFINE A == {s[i] : i \in DOMAIN s} \cup {e}
<1>1. s \in Seq(A) /\ e \in A
  <2>1. s \in Seq({s[i] : i \in DOMAIN s}) /\ {s[i] : i \in DOMAIN s} \subseteq A
    BY DEF IsSeq
  <2> QED BY <2>1, SeqMonotonic
<1> HIDE DEF A
<1>2. /\ Append(s, e) \in Seq(A) /\ Len(Append(s, e)) = Len(s) + 1
      /\ \A i \in 1..Len(s) : Append(s, e)[i] = s[i]
      /\ Append(s, e)[Len(s) + 1] = e
  BY <1>1, AppendProperties
<1>3. Len(s) \in Nat
  BY IsSeqLen
<1>4. IsSeq(Append(s, e))
  BY <1>2, SeqIsSeq
<1> QED BY <1>2, <1>3, <1>4

LEMMA IsSeqTail ==
  ASSUME NEW s, IsSeq(s), s # <<>>
  PROVE  /\ IsSeq(Tail(s)) /\ Len(s) >= 1 /\ Len(Tail(s)) = Len(s) - 1 /\ Head(s) = s[1]
         /\ \A i \in 1..(Len(s) - 1) : Tail(s)[i] = s[i + 1]
<1> DEFINE A == {s[i] : i \in DOMAIN s}
<1>1. s \in Seq(A)
  BY DEF IsSeq
<1> HIDE DEF A
<1>2. /\ Tail(s) \in Seq(A) /\ Len(Tail(s)) = Len(s) - 1
      /\ \A i \in 1..Len(Tail(s)) : Tail(s)[i] = s[i + 1]
  BY <1>1, HeadTailProperties
<1>3. Len(s) \in Nat \ {0}
  BY <1>1, EmptySeq
<1>4. Head(s) = s[1]
  BY <1>1
<1>5. IsSeq(Tail(s))
  BY <1>2, SeqIsSeq
<1> QED BY <1>2, <1>3, <1>4, <1>5

LEMMA IsSeqSub ==
  ASSUME NEW s, NEW m \in Int, NEW n \in Int
  PROVE  /\ IsSeq(SubSeq(s, m, n)) /\ Len(SubSeq(s, m, n)) = IF m <= n THEN n - m + 1 ELSE 0
         /\ \A i \in 1..(n - m + 1) : SubSeq(s, m, n)[i] = s[m + i - 1]
<1> DEFINE A == {s[i] : i \in m..n}
<1>1. \A i \in m..n : s[i] \in A
  OBVIOUS
<1> HIDE DEF A
<1>2. /\ SubSeq(s, m, n) \in Seq(A) /\ Len(SubSeq(s, m, n)) = IF m <= n THEN n - m + 1 ELSE 0
      /\ \A i \in 1..(n - m + 1) : SubSeq(s, m, n)[i] = s[m + i - 1]
  BY <1>1, SubSeqProperties
<1> QED BY <1>2, SeqIsSeq

\* The least of some numbers is one of them.
LEMMA MinIn ==
  ASSUME NEW T, T \subseteq Nat, T # {}
  PROVE  Min(T) \in T
<1> DEFINE R == OpToRel(<, Nat)
<1>1. \E x \in T : \A y \in T : ~(<<y, x>> \in R)
  BY NatLessThanWellFounded, WFMin
<1>2. PICK x \in T : \A y \in T : ~(<<y, x>> \in R)
  BY <1>1
<1>3. \A y \in T : ~(y < x)
  BY <1>2 DEF OpToRel
<1>4. \A y \in T : x =< y
  BY <1>3
<1> QED BY <1>4 DEF Min

\* Short sequences.
LEMMA Short ==
  ASSUME NEW a, NEW b, NEW c, NEW d, NEW e, NEW f, NEW g, NEW h, NEW k
  PROVE  /\ IsSeq(<<>>) /\ IsSeq(<<a>>) /\ IsSeq(<<a, b>>) /\ IsSeq(<<a, b, c>>) /\ IsSeq(<<a, b, c, d>>)
         /\ IsSeq(<<a, b, c, d, e>>) /\ IsSeq(<<a, b, c, d, e, f>>) /\ IsSeq(<<a, b, c, d, e, f, g>>)
         /\ IsSeq(<<a, b, c, d, e, f, g, h, k>>)
<1> DEFINE S == {a, b, c, d, e, f, g, h, k}
<1>1. /\ <<>> \in Seq(S) /\ <<a>> \in Seq(S) /\ <<a, b>> \in Seq(S) /\ <<a, b, c>> \in Seq(S)
      /\ <<a, b, c, d>> \in Seq(S) /\ <<a, b, c, d, e>> \in Seq(S)
  OBVIOUS
<1>2. /\ <<a, b, c, d, e, f>> \in Seq(S) /\ <<a, b, c, d, e, f, g>> \in Seq(S)
      /\ <<a, b, c, d, e, f, g, h, k>> \in Seq(S)
  OBVIOUS
<1> HIDE DEF S
<1> QED BY <1>1, <1>2, SeqIsSeq

-----------------------------------------------------------------------------
(***************************************************************************)
(* What holds of the functions under way.                                  *)
(***************************************************************************)
\* Frames that remember where nodes begin.
PathOps == {"LookAhead", "Decide", "Declaration", "ExpressionStatement"}
WithFrom == {"Sync", "Catch", "Create", "NewExpression", "Operators"} \cup PathOps
Places == {"Assignment", "Postfix", "Suffixes", "Index", "IndexEnd"}

\* The functions under way have the arguments they rely on.
Good(f) ==
    /\ f.op \in WithFrom => f.arg.from \in Int
    /\ f.op \in PathOps =>
          /\ f.arg.at \in Int
          /\ f.arg = [tuple |-> f.arg.tuple, from |-> f.arg.from, at |-> f.arg.at, known |-> f.arg.known]
    /\ f.op \in Places => f.arg \in Int
    /\ f.op = "Operators" => f.arg = [min |-> f.arg.min, max |-> f.arg.max, from |-> f.arg.from]

\* What is never under way within the definition of a modifier.
Outer == {"SourceUnit", "ContractDefinition", "ContractParts", "ModifierDefinition", "EndModifier"}

TypeInv ==
    /\ sources \in Compilations
    /\ unit \in Nat \ {0} /\ pos \in Nat \ {0} /\ errors \in Nat
    /\ stack # <<>> => unit \in 1..Len(sources)
    /\ IsSeq(nodes) /\ IsSeq(results)
    /\ insideModifier \in BOOLEAN

\* Nothing of Outer is above the end of a definition of a modifier, and the flag
\* tells whether there is one.
StackInv ==
    /\ IsSeq(stack)
    /\ \A i \in 1..Len(stack) : Good(stack[i])
    /\ \A i, j \in 1..Len(stack) : i < j /\ stack[i].op \in Outer => stack[j].op # "EndModifier"
    /\ insideModifier <=> \E i \in 1..Len(stack) : stack[i].op = "EndModifier"

\* The inductive invariant.
PInv == TypeInv /\ StackInv /\ AcceptedMeansParsed

-----------------------------------------------------------------------------
(***************************************************************************)
(* The ways to leave a frame.                                              *)
(***************************************************************************)
\* Frames that may take the place of one of a function op.
Fit(f, op) == Good(f) /\ f.op # "EndModifier" /\ (op \notin Outer => f.op \notin Outer)
AllFit(frames, op) == IsSeq(frames) /\ \A i \in 1..Len(frames) : Fit(frames[i], op)

\* There is a source while a function is under way.
LEMMA SourcesType ==
  ASSUME TypeInv
  PROVE  /\ sources \in Seq(Seq(STRING)) /\ sources # <<>> /\ Len(sources) \in Nat \ {0}
         /\ stack # <<>> => Tokens \in Seq(STRING) /\ Len(Tokens) \in Nat
<1>1. sources \in Seq(Seq(STRING)) /\ sources # <<>>
  BY CompilationsAssumption DEF TypeInv
<1>2. Len(sources) \in Nat \ {0}
  BY <1>1, EmptySeq
<1>3. ASSUME stack # <<>> PROVE Tokens \in Seq(STRING)
  BY <1>1, <1>3, ElementOfSeq DEF TypeInv, Tokens
<1> QED BY <1>1, <1>2, <1>3, LenProperties

\* The position stays one of a token, or the end.
LEMMA AfterType ==
  ASSUME TypeInv, stack # <<>>, NEW n \in Nat
  PROVE  After(n) \in Nat \ {0}
<1> DEFINE T == {pos + n, Len(Tokens) + 1}
<1>1. T \subseteq Nat \ {0} /\ T # {}
  BY SourcesType DEF TypeInv
<1> HIDE DEF T
<1>2. Min(T) \in T
  BY <1>1, MinIn
<1> QED BY <1>1, <1>2 DEF After, T

\* Functions take the place of the one under way.
LEMMA PushInv ==
  ASSUME StackInv, stack # <<>>, Head(stack).op # "EndModifier",
         NEW frames, AllFit(frames, Head(stack).op),
         stack' = frames \o Tail(stack), insideModifier' = insideModifier
  PROVE  StackInv'
<1> DEFINE t == Tail(stack)
           s == frames \o t
<1>1. /\ IsSeq(stack) /\ Len(stack) \in Nat /\ Len(stack) >= 1 /\ Head(stack) = stack[1]
      /\ IsSeq(t) /\ Len(t) = Len(stack) - 1 /\ \A i \in 1..Len(t) : t[i] = stack[i + 1]
  BY IsSeqTail, IsSeqLen DEF StackInv
<1>2. IsSeq(frames) /\ Len(frames) \in Nat /\ \A i \in 1..Len(frames) : Fit(frames[i], stack[1].op)
  BY <1>1, IsSeqLen DEF AllFit
<1> HIDE DEF t
<1>3. /\ IsSeq(s) /\ Len(s) = Len(frames) + Len(t)
      /\ \A i \in 1..(Len(frames) + Len(t)) : s[i] = IF i <= Len(frames) THEN frames[i] ELSE t[i - Len(frames)]
  BY <1>1, <1>2, IsSeqConcat
<1>4. stack' = s
  BY DEF t
<1> HIDE DEF s
<1> DEFINE k == Len(frames)
<1>5. k \in Nat /\ Len(s) = k + (Len(stack) - 1) /\ Len(s) \in Nat
  BY <1>1, <1>2, <1>3
<1>6. \A i \in 1..k : s[i] = frames[i] /\ Fit(s[i], stack[1].op)
  BY <1>1, <1>2, <1>3, <1>5
<1>7. \A i \in (k + 1)..Len(s) : i - k + 1 \in 2..Len(stack) /\ s[i] = stack[i - k + 1]
  <2> SUFFICES ASSUME NEW i \in (k + 1)..Len(s) PROVE i - k + 1 \in 2..Len(stack) /\ s[i] = stack[i - k + 1]
    OBVIOUS
  <2>1. i \in 1..(Len(frames) + Len(t)) /\ ~(i <= Len(frames)) /\ i - k \in 1..Len(t) /\ i - k + 1 \in 2..Len(stack)
    BY <1>1, <1>3, <1>5
  <2>2. s[i] = t[i - k]
    BY <1>3, <2>1
  <2> QED BY <1>1, <2>1, <2>2
<1>8. \A j \in 2..Len(stack) : j + k - 1 \in (k + 1)..Len(s) /\ s[j + k - 1] = stack[j]
  <2> SUFFICES ASSUME NEW j \in 2..Len(stack) PROVE j + k - 1 \in (k + 1)..Len(s) /\ s[j + k - 1] = stack[j]
    OBVIOUS
  <2>1. j + k - 1 \in (k + 1)..Len(s) /\ (j + k - 1) - k + 1 = j
    BY <1>1, <1>5
  <2> QED BY <1>7, <2>1
<1> HIDE DEF k
<1>9. \A i \in 1..Len(s) : Good(s[i])
  <2> SUFFICES ASSUME NEW i \in 1..Len(s) PROVE Good(s[i])
    OBVIOUS
  <2>1. CASE i \in 1..k
    BY <1>6, <2>1 DEF Fit
  <2>2. CASE i \in (k + 1)..Len(s)
    <3>1. i - k + 1 \in 2..Len(stack) /\ s[i] = stack[i - k + 1]
      BY <1>7, <2>2
    <3>2. i - k + 1 \in 1..Len(stack)
      BY <1>1, <3>1
    <3> QED BY <3>1, <3>2 DEF StackInv
  <2> QED BY <1>5, <2>1, <2>2
<1>10. \A i, j \in 1..Len(s) : i < j /\ s[i].op \in Outer => s[j].op # "EndModifier"
  <2> SUFFICES ASSUME NEW i \in 1..Len(s), NEW j \in 1..Len(s), i < j, s[i].op \in Outer
               PROVE  s[j].op # "EndModifier"
    OBVIOUS
  <2>1. CASE j \in 1..k
    BY <1>6, <2>1 DEF Fit
  <2>2. CASE j \in (k + 1)..Len(s) /\ i \in 1..k
    <3>1. stack[1].op \in Outer
      BY <1>6, <2>2 DEF Fit
    <3>2. j - k + 1 \in 2..Len(stack) /\ s[j] = stack[j - k + 1]
      BY <1>7, <2>2
    <3>3. 1 \in 1..Len(stack) /\ j - k + 1 \in 1..Len(stack) /\ 1 < j - k + 1
      BY <1>1, <1>5, <3>2
    <3> QED BY <3>1, <3>2, <3>3 DEF StackInv
  <2>3. CASE j \in (k + 1)..Len(s) /\ i \in (k + 1)..Len(s)
    <3>1. j - k + 1 \in 2..Len(stack) /\ s[j] = stack[j - k + 1]
      BY <1>7, <2>3
    <3>2. i - k + 1 \in 2..Len(stack) /\ s[i] = stack[i - k + 1]
      BY <1>7, <2>3
    <3>3. j - k + 1 \in 1..Len(stack) /\ i - k + 1 \in 1..Len(stack) /\ i - k + 1 < j - k + 1
      BY <1>1, <1>5, <3>1, <3>2
    <3> QED BY <3>1, <3>2, <3>3 DEF StackInv
  <2> QED BY <1>5, <2>1, <2>2, <2>3
<1>11. insideModifier <=> \E i \in 1..Len(s) : s[i].op = "EndModifier"
  <2>1. ASSUME NEW i \in 1..Len(s), s[i].op = "EndModifier" PROVE insideModifier
    <3>1. i \in (k + 1)..Len(s)
      BY <1>5, <1>6, <2>1 DEF Fit
    <3>2. i - k + 1 \in 1..Len(stack) /\ s[i] = stack[i - k + 1]
      BY <1>1, <1>7, <3>1
    <3> QED BY <2>1, <3>2 DEF StackInv
  <2>2. ASSUME insideModifier PROVE \E i \in 1..Len(s) : s[i].op = "EndModifier"
    <3>1. PICK j \in 1..Len(stack) : stack[j].op = "EndModifier"
      BY <2>2 DEF StackInv
    <3>2. j \in 2..Len(stack)
      BY <1>1, <3>1
    <3>3. j + k - 1 \in 1..Len(s) /\ s[j + k - 1] = stack[j]
      BY <1>5, <1>8, <3>2
    <3> QED BY <3>1, <3>3
  <2> QED BY <2>1, <2>2
<1> QED BY <1>3, <1>4, <1>9, <1>10, <1>11 DEF StackInv

\* A function goes on with others, and with these nodes.
LEMMA BuildInv ==
  ASSUME PInv, NEW op, Top(op), op # "EndModifier", NEW frames, AllFit(frames, op), NEW n \in Nat,
         NEW ns, IsSeq(ns), Build(frames, n, ns)
  PROVE  PInv'
<1>1. /\ stack # <<>> /\ Head(stack).op = op /\ TypeInv /\ StackInv
      /\ stack' = frames \o Tail(stack) /\ pos' = After(n) /\ nodes' = ns
      /\ UNCHANGED <<sources, unit, errors, recovering, insideModifier, skipped, results>>
  BY DEF PInv, Top, Build, input
<1>2. StackInv'
  BY <1>1, PushInv
<1>3. TypeInv'
  BY <1>1, AfterType DEF TypeInv
<1>4. AcceptedMeansParsed'
  BY <1>1 DEF PInv, AcceptedMeansParsed
<1> QED BY <1>2, <1>3, <1>4 DEF PInv

\* The same, with the nodes as they are.
LEMMA GoInv ==
  ASSUME PInv, NEW op, Top(op), op # "EndModifier", NEW frames, AllFit(frames, op), NEW n \in Nat,
         Go(frames, n)
  PROVE  PInv'
<1>1. IsSeq(nodes) /\ Build(frames, n, nodes)
  BY DEF PInv, TypeInv, Go
<1> QED BY <1>1, BuildInv

\* parse returns.
LEMMA ReturnInv ==
  ASSUME TypeInv, stack # <<>>, NEW result, Return(result), insideModifier' = FALSE, errors' \in Nat
  PROVE  TypeInv' /\ StackInv'
<1>1. /\ results' = Append(results, result) /\ unit' = unit + 1 /\ pos' = 1 /\ nodes' = <<>>
      /\ stack' = (IF unit < Len(sources) THEN <<Call("SourceUnit")>> ELSE <<>>)
      /\ sources' = sources
  BY DEF Return, input
<1>2. IsSeq(<<>>) /\ IsSeq(Append(results, result))
  BY Short, IsSeqAppend DEF TypeInv
<1>3. Len(sources) \in Nat
  BY SourcesType
<1>4. TypeInv'
  <2>1. unit' \in Nat \ {0} /\ pos' \in Nat \ {0} /\ sources' \in Compilations
    BY <1>1 DEF TypeInv
  <2>4. insideModifier' \in BOOLEAN
    OBVIOUS
  <2>2. ASSUME stack' # <<>> PROVE unit' \in 1..Len(sources')
    <3>1. unit < Len(sources)
      BY <1>1, <2>2
    <3> QED BY <1>1, <1>3, <3>1 DEF TypeInv
  <2>3. IsSeq(nodes') /\ IsSeq(results')
    BY <1>1, <1>2
  <2> QED BY <2>1, <2>2, <2>3, <2>4 DEF TypeInv
<1>5. StackInv'
  <2>1. CASE stack' = <<>>
    BY <1>2, <2>1 DEF StackInv
  <2>2. CASE stack' = <<Call("SourceUnit")>>
    <3>1. IsSeq(stack') /\ Len(stack') = 1 /\ stack'[1] = Call("SourceUnit")
      BY <2>2, Short
    <3>2. Good(Call("SourceUnit")) /\ Call("SourceUnit").op = "SourceUnit"
      BY DEF Good, Call, Frame, WithFrom, PathOps, Places
    <3>3. \A i \in 1..Len(stack') : i = 1
      BY <3>1
    <3> QED BY <3>1, <3>2, <3>3 DEF StackInv
  <2> QED BY <1>1, <2>1, <2>2
<1> QED BY <1>4, <1>5

\* An exception: the frames above the handler go, with the flag if the end of a
\* definition is one of them.
LEMMA UnwindInv ==
  ASSUME PInv, stack # <<>>, NEW count \in Nat, errors + count > 0, NEW p \in Nat \ {0}, Unwind(count, p)
  PROVE  PInv'
<1> DEFINE handlers == {i \in DOMAIN stack : stack[i].op \in {"Sync", "Catch"}}
           i == Min(handlers)
           h == stack[i].arg
<1>1. TypeInv /\ StackInv /\ IsSeq(stack) /\ Len(stack) \in Nat /\ DOMAIN stack = 1..Len(stack)
  BY IsSeqLen DEF PInv, StackInv
<1>2. errors' \in Nat \ {0}
  <2> DEFINE T == {errors + count, MaxErrors + 1}
  <2>1. T \subseteq Nat \ {0} /\ T # {}
    BY <1>1, MaxErrorsAssumption DEF TypeInv
  <2>2. errors' = Min(T)
    BY DEF Unwind
  <2> HIDE DEF T
  <2>3. Min(T) \in T
    BY <2>1, MinIn
  <2> QED BY <2>1, <2>2, <2>3
<1>3. AcceptedMeansParsed'
  BY <1>2 DEF AcceptedMeansParsed
<1>4. CASE Return([ast |-> FALSE]) /\ insideModifier' = FALSE
  BY <1>1, <1>2, <1>3, <1>4, ReturnInv DEF PInv
<1>5. CASE /\ handlers # {}
           /\ stack' = <<Frame("Sync", h)>> \o SubSeq(stack, i + 1, Len(stack))
           /\ nodes' = SubSeq(nodes, 1, h.from - 1)
           /\ pos' = p
           /\ insideModifier' = (insideModifier /\ \A j \in 1..i : stack[j].op # "EndModifier")
           /\ UNCHANGED <<input, unit, results>>
  <2>1. i \in handlers
    <3>1. handlers \subseteq Nat
      BY <1>1
    <3> HIDE DEF handlers
    <3> QED BY <1>5, <3>1, MinIn
  <2>2. i \in 1..Len(stack) /\ stack[i].op \in {"Sync", "Catch"}
    BY <1>1, <2>1
  <2> HIDE DEF handlers, i
  <2>3. h.from \in Int
    BY <1>1, <2>2 DEF StackInv, Good, WithFrom
  <2> HIDE DEF h
  <2>4. TypeInv'
    <3>1. PICK m : m = h.from - 1
      OBVIOUS
    <3>2. 1 \in Int /\ m \in Int
      BY <2>3, <3>1
    <3>3. nodes' = SubSeq(nodes, 1, m)
      BY <1>5, <3>1
    <3>4. IsSeq(nodes')
      BY <3>2, <3>3, IsSeqSub
    <3> QED BY <1>1, <1>2, <1>5, <3>4 DEF TypeInv, input
  <2> DEFINE t == SubSeq(stack, i + 1, Len(stack))
             f == Frame("Sync", h)
             s == <<f>> \o t
  <2>5. f.op = "Sync" /\ Good(f)
    BY <2>3 DEF Frame, Good, WithFrom, PathOps, Places
  <2>6. /\ IsSeq(t) /\ Len(t) = Len(stack) - i /\ \A j \in 1..(Len(stack) - i) : t[j] = stack[i + j]
    <3>1. i + 1 \in Int /\ Len(stack) \in Int
      BY <1>1, <2>2
    <3>2. /\ IsSeq(t) /\ Len(t) = IF i + 1 <= Len(stack) THEN Len(stack) - (i + 1) + 1 ELSE 0
          /\ \A j \in 1..(Len(stack) - (i + 1) + 1) : t[j] = stack[i + 1 + j - 1]
      BY <3>1, IsSeqSub
    <3> HIDE DEF t
    <3>3. Len(stack) - (i + 1) + 1 = Len(stack) - i /\ i \in Nat /\ i <= Len(stack)
      BY <1>1, <2>2
    <3>4. Len(t) = Len(stack) - i
      <4>1. CASE i + 1 <= Len(stack)
        BY <3>2, <3>3, <4>1
      <4>2. CASE ~(i + 1 <= Len(stack))
        <5>1. Len(t) = 0
          BY <3>2, <4>2
        <5>2. Len(stack) - i = 0
          <6>1. \A a, b \in Nat : a <= b /\ ~(a + 1 <= b) => b - a = 0
            OBVIOUS
          <6>2. Len(stack) \in Nat
            BY <1>1
          <6> QED BY <3>3, <4>2, <6>1, <6>2
        <5> QED BY <5>1, <5>2
      <4> QED BY <4>1, <4>2
    <3>5. ASSUME NEW j \in 1..(Len(stack) - i) PROVE t[j] = stack[i + j]
      <4>1. i + 1 + j - 1 = i + j
        BY <3>3
      <4>2. t[j] = stack[i + 1 + j - 1]
        BY <3>2, <3>3
      <4> QED BY <4>1, <4>2
    <3> QED BY <3>2, <3>4, <3>5
  <2> HIDE DEF t, f
  <2>7. IsSeq(<<f>>) /\ Len(<<f>>) = 1 /\ <<f>>[1] = f
    BY Short
  <2>8. /\ IsSeq(s) /\ Len(s) = 1 + Len(t)
        /\ \A j \in 1..(1 + Len(t)) : s[j] = IF j <= 1 THEN <<f>>[j] ELSE t[j - 1]
    <3>1. PICK u : u = <<f>>
      OBVIOUS
    <3>2. IsSeq(u) /\ Len(u) = 1
      BY <2>7, <3>1
    <3>3. /\ IsSeq(u \o t) /\ Len(u \o t) = Len(u) + Len(t)
          /\ \A j \in 1..(Len(u) + Len(t)) : (u \o t)[j] = IF j <= Len(u) THEN u[j] ELSE t[j - Len(u)]
      BY <2>6, <3>2, IsSeqConcat
    <3> QED BY <3>1, <3>2, <3>3
  <2>9. stack' = s
    BY <1>5 DEF t, f
  <2> HIDE DEF s
  <2>10. Len(s) \in Nat /\ Len(s) = 1 + (Len(stack) - i) /\ s[1] = f
    <3>1. Len(t) \in Nat /\ 1 + Len(t) = 1 + (Len(stack) - i) /\ 1 + Len(t) \in Nat
      BY <1>1, <2>2, <2>6
    <3>2. 1 \in 1..(1 + Len(t)) /\ 1 <= 1
      BY <3>1
    <3>3. s[1] = <<f>>[1]
      BY <2>8, <3>2
    <3> QED BY <2>7, <2>8, <3>1, <3>3
  <2>11. \A j \in 2..Len(s) : i + j - 1 \in (i + 1)..Len(stack) /\ s[j] = stack[i + j - 1]
    <3> SUFFICES ASSUME NEW j \in 2..Len(s) PROVE i + j - 1 \in (i + 1)..Len(stack) /\ s[j] = stack[i + j - 1]
      OBVIOUS
    <3>1. j \in 1..(1 + Len(t)) /\ ~(j <= 1) /\ j - 1 \in 1..(Len(stack) - i) /\ i + (j - 1) = i + j - 1
      BY <1>1, <2>2, <2>6, <2>10
    <3>2. s[j] = t[j - 1]
      BY <2>8, <3>1
    <3>3. t[j - 1] = stack[i + (j - 1)]
      BY <2>6, <3>1
    <3>4. i + j - 1 \in (i + 1)..Len(stack)
      BY <1>1, <2>2, <2>10
    <3> QED BY <3>1, <3>2, <3>3, <3>4
  <2>12. \A k \in (i + 1)..Len(stack) : k - i + 1 \in 2..Len(s) /\ s[k - i + 1] = stack[k]
    <3> SUFFICES ASSUME NEW k \in (i + 1)..Len(stack) PROVE k - i + 1 \in 2..Len(s) /\ s[k - i + 1] = stack[k]
      OBVIOUS
    <3>1. k - i + 1 \in 2..Len(s) /\ i + (k - i + 1) - 1 = k
      BY <1>1, <2>2, <2>10
    <3> QED BY <2>11, <3>1
  <2>13. (i + 1)..Len(stack) \subseteq 1..Len(stack)
    BY <1>1, <2>2
  <2>14. \A j \in 1..Len(s) : Good(s[j])
    <3> SUFFICES ASSUME NEW j \in 1..Len(s) PROVE Good(s[j])
      OBVIOUS
    <3>1. CASE j = 1
      BY <2>5, <2>10, <3>1
    <3>2. CASE j \in 2..Len(s)
      <4>1. i + j - 1 \in 1..Len(stack) /\ s[j] = stack[i + j - 1]
        BY <2>11, <2>13, <3>2
      <4> QED BY <1>1, <4>1 DEF StackInv
    <3> QED BY <2>10, <3>1, <3>2
  <2>15. \A j, k \in 1..Len(s) : j < k /\ s[j].op \in Outer => s[k].op # "EndModifier"
    <3> SUFFICES ASSUME NEW j \in 1..Len(s), NEW k \in 1..Len(s), j < k, s[j].op \in Outer
                 PROVE  s[k].op # "EndModifier"
      OBVIOUS
    <3>1. j # 1
      BY <2>5, <2>10 DEF Outer
    <3>2. j \in 2..Len(s) /\ k \in 2..Len(s)
      BY <2>10, <3>1
    <3>3. i + j - 1 \in 1..Len(stack) /\ s[j] = stack[i + j - 1]
      <4>1. i + j - 1 \in (i + 1)..Len(stack) /\ s[j] = stack[i + j - 1]
        BY <2>11, <3>2
      <4> QED BY <2>2, <2>13, <4>1
    <3>4. i + k - 1 \in 1..Len(stack) /\ s[k] = stack[i + k - 1]
      <4>1. i + k - 1 \in (i + 1)..Len(stack) /\ s[k] = stack[i + k - 1]
        BY <2>11, <3>2
      <4> QED BY <2>2, <2>13, <4>1
    <3>5. i + j - 1 < i + k - 1
      BY <2>2
    <3> QED BY <1>1, <3>3, <3>4, <3>5 DEF StackInv
  <2>16. insideModifier' <=> \E j \in 1..Len(s) : s[j].op = "EndModifier"
    <3>1. ASSUME NEW j \in 1..Len(s), s[j].op = "EndModifier" PROVE insideModifier'
      <4>1. j \in 2..Len(s)
        BY <2>5, <2>10, <3>1
      <4>2. i + j - 1 \in (i + 1)..Len(stack) /\ s[j] = stack[i + j - 1]
        BY <2>11, <4>1
      <4>3. i + j - 1 \in 1..Len(stack)
        BY <1>1, <2>2, <4>2
      <4>4. insideModifier
        BY <1>1, <3>1, <4>2, <4>3 DEF StackInv
      <4>5. ASSUME NEW k \in 1..i, stack[k].op = "EndModifier" PROVE FALSE
        <5>1. k \in 1..Len(stack) /\ k < i + j - 1
          BY <1>1, <2>2, <4>2
        <5> QED BY <1>1, <3>1, <4>2, <4>3, <4>5, <5>1 DEF StackInv, Outer
      <4> QED BY <1>5, <4>4, <4>5
    <3>2. ASSUME insideModifier' PROVE \E j \in 1..Len(s) : s[j].op = "EndModifier"
      <4>1. insideModifier /\ \A j \in 1..i : stack[j].op # "EndModifier"
        BY <1>5, <3>2
      <4>2. PICK k \in 1..Len(stack) : stack[k].op = "EndModifier"
        BY <1>1, <4>1 DEF StackInv
      <4>3. k \in (i + 1)..Len(stack)
        BY <1>1, <2>2, <4>1, <4>2
      <4>4. k - i + 1 \in 1..Len(s) /\ s[k - i + 1] = stack[k]
        BY <2>10, <2>12, <4>3
      <4> QED BY <4>2, <4>4
    <3> QED BY <3>1, <3>2
  <2>17. StackInv'
    BY <2>8, <2>9, <2>14, <2>15, <2>16 DEF StackInv
  <2> QED BY <1>3, <2>4, <2>17 DEF PInv
<1> QED BY <1>4, <1>5 DEF Unwind

\* An error that is an exception, and one that becomes an exception at the limit.
LEMMA FatalInv ==
  ASSUME PInv, stack # <<>>, NEW n \in Nat, Fatal(n)
  PROVE  PInv'
<1>1. errors \in Nat /\ errors + 1 > 0 /\ 1 \in Nat
  BY DEF PInv, TypeInv
<1>2. PICK p : p = After(n)
  OBVIOUS
<1>3. p \in Nat \ {0}
  BY <1>2, AfterType DEF PInv
<1>4. Unwind(1, p)
  BY <1>2 DEF Fatal
<1> QED BY <1>1, <1>3, <1>4, UnwindInv

LEMMA ReportInv ==
  ASSUME PInv, NEW op, Top(op), op # "EndModifier", NEW frames, AllFit(frames, op), NEW n,
         After(n) \in Nat \ {0}, NEW count \in Nat, Report(count, frames, n)
  PROVE  PInv'
<1>1. stack # <<>> /\ Head(stack).op = op /\ TypeInv /\ StackInv /\ errors \in Nat /\ pos \in Nat \ {0}
  BY DEF PInv, Top, TypeInv
<1>2. CASE errors + count > MaxErrors /\ Unwind(count, pos)
  <2>1. errors + count > 0
    BY <1>1, <1>2, MaxErrorsAssumption
  <2> QED BY <1>1, <1>2, <2>1, UnwindInv
<1>3. CASE /\ stack' = frames \o Tail(stack) /\ pos' = After(n) /\ errors' = errors + count
           /\ UNCHANGED <<input, unit, nodes, recovering, insideModifier, language, skipped, results>>
  <2>1. UNCHANGED <<sources, unit, nodes, recovering, insideModifier, skipped, results>>
    BY <1>3 DEF input
  <2>2. StackInv'
    BY <1>1, <1>3, <2>1, PushInv
  <2>3. TypeInv'
    BY <1>1, <1>3, <2>1 DEF TypeInv
  <2>4. AcceptedMeansParsed'
    <3>1. errors' = 0 => errors = 0
      BY <1>1, <1>3
    <3> QED BY <2>1, <3>1 DEF PInv, AcceptedMeansParsed
  <2> QED BY <2>2, <2>3, <2>4 DEF PInv
<1> QED BY <1>2, <1>3 DEF Report

-----------------------------------------------------------------------------
(***************************************************************************)
(* Frames that may be pushed anywhere, and how actions use them.           *)
(***************************************************************************)
\* Functions that may be called from anywhere.
Inner(f) == Good(f) /\ f.op \notin Outer
AllInner(frames) == IsSeq(frames) /\ \A i \in 1..Len(frames) : Inner(frames[i])

\* Functions whose place or arguments matter.
Special == WithFrom \cup Places \cup Outer

LEMMA PlainFrame ==
  ASSUME NEW op, op \notin Special, NEW arg
  PROVE  Inner(Frame(op, arg))
BY DEF Special, Inner, Good, Frame, WithFrom, PathOps, Places

\* Sequences of such frames.
LEMMA NoFrames == AllInner(<<>>)
<1>1. IsSeq(<<>>)
  BY Short
<1>2. \A i \in 1..Len(<<>>) : FALSE
  OBVIOUS
<1> QED BY <1>1, <1>2 DEF AllInner

LEMMA OneFrame ==
  ASSUME NEW a, Inner(a)
  PROVE  AllInner(<<a>>)
<1>1. IsSeq(<<a>>) /\ Len(<<a>>) = 1 /\ <<a>>[1] = a
  BY Short
<1> HIDE DEF Inner
<1> QED BY <1>1 DEF AllInner

LEMMA TwoFrames ==
  ASSUME NEW a, NEW b, Inner(a), Inner(b)
  PROVE  AllInner(<<a, b>>)
<1> DEFINE s == <<a, b>>
<1>1. IsSeq(s)
  BY Short
<1>2. Len(s) = 2
  OBVIOUS
<1>3. s[1] = a /\ s[2] = b
  OBVIOUS
<1> HIDE DEF s
<1>4. ASSUME NEW i \in 1..2 PROVE Inner(s[i])
  <2>1. i = 1 \/ i = 2
    OBVIOUS
  <2> QED BY <1>3, <2>1
<1>5. AllInner(s)
  BY <1>1, <1>2, <1>4 DEF AllInner
<1> QED BY <1>5 DEF s

LEMMA ThreeFrames ==
  ASSUME NEW a, NEW b, NEW c, Inner(a), Inner(b), Inner(c)
  PROVE  AllInner(<<a, b, c>>)
<1> DEFINE s == <<a, b, c>>
<1>1. IsSeq(s)
  BY Short
<1>2. Len(s) = 3
  OBVIOUS
<1>3. s[1] = a /\ s[2] = b /\ s[3] = c
  OBVIOUS
<1> HIDE DEF s
<1>4. ASSUME NEW i \in 1..3 PROVE Inner(s[i])
  <2>1. i = 1 \/ i = 2 \/ i = 3
    OBVIOUS
  <2> QED BY <1>3, <2>1
<1>5. AllInner(s)
  BY <1>1, <1>2, <1>4 DEF AllInner
<1> QED BY <1>5 DEF s

LEMMA FourFrames ==
  ASSUME NEW a, NEW b, NEW c, NEW d, Inner(a), Inner(b), Inner(c), Inner(d)
  PROVE  AllInner(<<a, b, c, d>>)
<1> DEFINE s == <<a, b, c, d>>
<1>1. IsSeq(s)
  BY Short
<1>2. Len(s) = 4
  OBVIOUS
<1>3. s[1] = a /\ s[2] = b /\ s[3] = c /\ s[4] = d
  OBVIOUS
<1> HIDE DEF s
<1>4. ASSUME NEW i \in 1..4 PROVE Inner(s[i])
  <2>1. i = 1 \/ i = 2 \/ i = 3 \/ i = 4
    OBVIOUS
  <2> QED BY <1>3, <2>1
<1>5. AllInner(s)
  BY <1>1, <1>2, <1>4 DEF AllInner
<1> QED BY <1>5 DEF s

LEMMA FiveFrames ==
  ASSUME NEW a, NEW b, NEW c, NEW d, NEW e, Inner(a), Inner(b), Inner(c), Inner(d), Inner(e)
  PROVE  AllInner(<<a, b, c, d, e>>)
<1> DEFINE s == <<a, b, c, d, e>>
<1>1. IsSeq(s)
  BY Short
<1>2. Len(s) = 5
  OBVIOUS
<1>3. s[1] = a /\ s[2] = b /\ s[3] = c /\ s[4] = d /\ s[5] = e
  OBVIOUS
<1> HIDE DEF s
<1>4. ASSUME NEW i \in 1..5 PROVE Inner(s[i])
  <2>1. i = 1 \/ i = 2 \/ i = 3 \/ i = 4 \/ i = 5
    OBVIOUS
  <2> QED BY <1>3, <2>1
<1>5. AllInner(s)
  BY <1>1, <1>2, <1>4 DEF AllInner
<1> QED BY <1>5 DEF s

LEMMA SixFrames ==
  ASSUME NEW a, NEW b, NEW c, NEW d, NEW e, NEW f, Inner(a), Inner(b), Inner(c), Inner(d), Inner(e), Inner(f)
  PROVE  AllInner(<<a, b, c, d, e, f>>)
<1> DEFINE s == <<a, b, c, d, e, f>>
<1>1. IsSeq(s)
  BY Short
<1>2. Len(s) = 6
  OBVIOUS
<1>3. s[1] = a /\ s[2] = b /\ s[3] = c /\ s[4] = d /\ s[5] = e /\ s[6] = f
  OBVIOUS
<1> HIDE DEF s
<1>4. ASSUME NEW i \in 1..6 PROVE Inner(s[i])
  <2>1. i = 1 \/ i = 2 \/ i = 3 \/ i = 4 \/ i = 5 \/ i = 6
    OBVIOUS
  <2> QED BY <1>3, <2>1
<1>5. AllInner(s)
  BY <1>1, <1>2, <1>4 DEF AllInner
<1> QED BY <1>5 DEF s

LEMMA SevenFrames ==
  ASSUME NEW a, NEW b, NEW c, NEW d, NEW e, NEW f, NEW g,
         Inner(a), Inner(b), Inner(c), Inner(d), Inner(e), Inner(f), Inner(g)
  PROVE  AllInner(<<a, b, c, d, e, f, g>>)
<1> DEFINE s == <<a, b, c, d, e, f, g>>
<1>1. IsSeq(s)
  BY Short
<1>2. Len(s) = 7
  OBVIOUS
<1>3. s[1] = a /\ s[2] = b /\ s[3] = c /\ s[4] = d /\ s[5] = e /\ s[6] = f /\ s[7] = g
  OBVIOUS
<1> HIDE DEF s
<1>4. ASSUME NEW i \in 1..7 PROVE Inner(s[i])
  <2>1. i = 1 \/ i = 2 \/ i = 3 \/ i = 4 \/ i = 5 \/ i = 6 \/ i = 7
    OBVIOUS
  <2> QED BY <1>3, <2>1
<1>5. AllInner(s)
  BY <1>1, <1>2, <1>4 DEF AllInner
<1> QED BY <1>5 DEF s

LEMMA NineFrames ==
  ASSUME NEW a, NEW b, NEW c, NEW d, NEW e, NEW f, NEW g, NEW h, NEW k,
         Inner(a), Inner(b), Inner(c), Inner(d), Inner(e),
         Inner(f), Inner(g), Inner(h), Inner(k)
  PROVE  AllInner(<<a, b, c, d, e, f, g, h, k>>)
<1> DEFINE s == <<a, b, c, d, e, f, g, h, k>>
<1>1. IsSeq(s)
  BY Short
<1>2. Len(s) = 9
  OBVIOUS
<1>3. s[1] = a /\ s[2] = b /\ s[3] = c /\ s[4] = d /\ s[5] = e /\ s[6] = f /\ s[7] = g /\ s[8] = h /\ s[9] = k
  OBVIOUS
<1> HIDE DEF s
<1>4. ASSUME NEW i \in 1..9 PROVE Inner(s[i])
  <2>1. i = 1 \/ i = 2 \/ i = 3 \/ i = 4 \/ i = 5 \/ i = 6 \/ i = 7 \/ i = 8 \/ i = 9
    OBVIOUS
  <2> QED BY <1>3, <2>1
<1>5. AllInner(s)
  BY <1>1, <1>2, <1>4 DEF AllInner
<1> QED BY <1>5 DEF s

LEMMA ThenFrames ==
  ASSUME NEW s, AllInner(s), NEW t, AllInner(t)
  PROVE  AllInner(s \o t)
<1> DEFINE u == s \o t
<1>1. IsSeq(s) /\ IsSeq(t) /\ Len(s) \in Nat /\ Len(t) \in Nat
  BY IsSeqLen DEF AllInner
<1>2. /\ IsSeq(u) /\ Len(u) = Len(s) + Len(t)
      /\ \A i \in 1..(Len(s) + Len(t)) : u[i] = IF i <= Len(s) THEN s[i] ELSE t[i - Len(s)]
  BY <1>1, IsSeqConcat
<1> HIDE DEF u
<1>3. ASSUME NEW i \in 1..Len(u) PROVE Inner(u[i])
  <2>1. CASE i <= Len(s)
    <3>1. i \in 1..Len(s) /\ u[i] = s[i]
      BY <1>1, <1>2, <2>1
    <3> QED BY <3>1 DEF AllInner
  <2>2. CASE ~(i <= Len(s))
    <3>1. i - Len(s) \in 1..Len(t) /\ u[i] = t[i - Len(s)]
      BY <1>1, <1>2, <2>2
    <3> QED BY <3>1 DEF AllInner
  <2> QED BY <2>1, <2>2
<1>4. AllInner(u)
  BY <1>2, <1>3 DEF AllInner
<1> QED BY <1>4 DEF u

\* They may take the place of any function.
LEMMA InnerFits ==
  ASSUME NEW frames, AllInner(frames), NEW op
  PROVE  AllFit(frames, op)
BY DEF AllFit, AllInner, Fit, Inner, Outer

\* The steps of a function that pushes such frames only.
LEMMA Goes ==
  ASSUME PInv, NEW op, Top(op), op # "EndModifier", NEW frames, AllInner(frames), NEW n \in Nat, Go(frames, n)
  PROVE  PInv'
BY GoInv, InnerFits

LEMMA Builds ==
  ASSUME PInv, NEW op, Top(op), op # "EndModifier", NEW frames, AllInner(frames), NEW n \in Nat,
         NEW ns, IsSeq(ns), Build(frames, n, ns)
  PROVE  PInv'
BY BuildInv, InnerFits

LEMMA Reports ==
  ASSUME PInv, NEW op, Top(op), op # "EndModifier", NEW frames, AllInner(frames), NEW n \in Nat, Report(1, frames, n)
  PROVE  PInv'
<1>1. After(n) \in Nat \ {0}
  BY AfterType DEF PInv, Top
<1> QED BY <1>1, ReportInv, InnerFits

LEMMA ReportsIf ==
  ASSUME PInv, NEW op, Top(op), op # "EndModifier", NEW frames, AllInner(frames), NEW n \in Nat,
         NEW bad, ReportIf(bad, frames, n)
  PROVE  PInv'
<1>1. Report(1, frames, n) \/ Go(frames, n)
  BY DEF ReportIf
<1> QED BY <1>1, Reports, Goes

LEMMA Fails ==
  ASSUME PInv, NEW op, Top(op), NEW n \in Nat, Fatal(n)
  PROVE  PInv'
<1>1. stack # <<>>
  BY DEF Top
<1> QED BY <1>1, FatalInv

\* Frames that remember a place.
LEMMA CreateFrame ==
  ASSUME NEW kind, NEW op, NEW from \in Int
  PROVE  Inner(Create(kind, op, from))
BY DEF Inner, Good, Create, Frame, WithFrom, PathOps, Places, Outer

LEMMA PlaceFrame ==
  ASSUME NEW op \in Places, NEW arg \in Int
  PROVE  Inner(Frame(op, arg))
BY DEF Inner, Good, Frame, WithFrom, PathOps, Places, Outer

LEMMA PlaceHere ==
  ASSUME PInv
  PROVE  Len(nodes) \in Nat /\ Len(nodes) + 1 \in Int /\ \A partial : From(partial) \in Int
<1>1. Len(nodes) \in Nat
  BY IsSeqLen DEF PInv, TypeInv
<1> QED BY <1>1 DEF From

LEMMA SyncFrame ==
  ASSUME PInv, NEW t
  PROVE  Inner(Sync(t)) /\ Inner(Catch)
<1>1. PICK from : from = Len(nodes) + 1
  OBVIOUS
<1>2. from \in Int
  BY <1>1, PlaceHere
<1>3. Sync(t) = Frame("Sync", [token |-> t, from |-> from]) /\ Catch = Frame("Catch", [token |-> ";", from |-> from])
  BY <1>1 DEF Sync, Catch
<1>4. Inner(Frame("Sync", [token |-> t, from |-> from])) /\ Inner(Frame("Catch", [token |-> ";", from |-> from]))
  BY <1>2 DEF Inner, Good, Frame, WithFrom, PathOps, Places, Outer
<1> QED BY <1>3, <1>4

\* What a function knows of its argument.
LEMMA TopGood ==
  ASSUME PInv, NEW op, Top(op)
  PROVE  Good(Head(stack)) /\ Head(stack).op = op /\ Arg = Head(stack).arg
<1>1. IsSeq(stack) /\ stack # <<>> /\ Head(stack).op = op
  BY DEF PInv, StackInv, Top
<1>2. Head(stack) = stack[1] /\ 1 \in 1..Len(stack)
  BY <1>1, IsSeqTail, IsSeqLen
<1> QED BY <1>1, <1>2 DEF PInv, StackInv, Arg

LEMMA PlaceArg ==
  ASSUME PInv, NEW op \in Places, Top(op)
  PROVE  Arg \in Int
BY TopGood DEF Good

LEMMA FromArg ==
  ASSUME PInv, NEW op \in WithFrom, Top(op)
  PROVE  Arg.from \in Int
BY TopGood DEF Good

\* The nodes, with one more or without the last ones.
LEMMA NodesSeq ==
  ASSUME PInv
  PROVE  IsSeq(nodes) /\ (\A e : IsSeq(Append(nodes, e))) /\ (\A m \in Int : IsSeq(SubSeq(nodes, 1, m - 1)))
<1>1. IsSeq(nodes)
  BY DEF PInv, TypeInv
<1>2. ASSUME NEW m \in Int PROVE IsSeq(SubSeq(nodes, 1, m - 1))
  <2>1. PICK k : k = m - 1
    OBVIOUS
  <2>2. k \in Int /\ 1 \in Int
    BY <2>1
  <2> QED BY <2>1, <2>2, IsSeqSub
<1> QED BY <1>1, <1>2, IsSeqAppend

-----------------------------------------------------------------------------
(***************************************************************************)
(* The actions: tokens and handlers.                                       *)
(***************************************************************************)
LEMMA ExpectTokenInv == PInv /\ (ExpectToken \/ ExpectAhead \/ ExpectIdentifierToken) => PInv'
<1>1. AllInner(<<>>)
  BY NoFrames
<1>2. PInv /\ ExpectToken => PInv'
  BY <1>1, Goes, Reports, Fails DEF ExpectToken
<1>3. PInv /\ ExpectAhead => PInv'
  BY <1>1, Goes, Reports, Fails DEF ExpectAhead
<1>4. PInv /\ ExpectIdentifierToken => PInv'
  BY <1>1, Goes, Reports, Fails DEF ExpectIdentifierToken
<1> QED BY <1>2, <1>3, <1>4

LEMMA ParseIdentifierInv == PInv /\ ParseIdentifier => PInv'
<1>1. AllInner(<<Call("Name")>>)
  BY OneFrame, PlainFrame DEF Call, Special, WithFrom, PathOps, Places, Outer
<1>2. PInv => IsSeq(Append(nodes, Leaf(<<Peek(0)>>)))
  BY NodesSeq
<1> QED BY <1>1, <1>2, Builds DEF ParseIdentifier
-----------------------------------------------------------------------------
(***************************************************************************)
(* The actions: pragmas and imports.                                       *)
(***************************************************************************)

LEMMA ParsePragmaVersionInv ==
  ASSUME PInv, ParsePragmaVersion
  PROVE  PInv'
<1>1. AllInner(<<>>)
  BY NoFrames
<1> QED BY <1>1, Goes, Fails DEF ParsePragmaVersion


LEMMA ParseImportDirectiveInv ==
  ASSUME PInv, ParseImportDirective
  PROVE  PInv'
<1>1. /\ AllInner(<<>>)
      /\ AllInner(<<Expect("as"), Call("Name")>>)
      /\ AllInner(<<Frame("ImportPath", Peek(1))>>)
      /\ AllInner(<<Call("Name"), Call("ImportAlias")>>)
      /\ AllInner(<<Expect("as"), Call("Name"), Call("ImportFrom")>>)
  BY NoFrames, TwoFrames, OneFrame, ThreeFrames, PlainFrame
     DEF Call, Expect, Outer, PathOps, Places, Special, WithFrom
<1>2. AllInner(IF Peek(2) = "as" THEN <<Expect("as"), Call("Name")>> ELSE <<>>)
  BY <1>1
<1>3. AllInner((IF Peek(2) = "as" THEN <<Expect("as"), Call("Name")>> ELSE <<>>) \o <<Frame("ImportPath", Peek(1))>>)
  BY <1>1, <1>2, ThenFrames
<1> QED BY <1>1, <1>2, <1>3, Goes, Fails DEF ParseImportDirective


LEMMA ParseImportAliasesInv ==
  ASSUME PInv, ParseImportAliases
  PROVE  PInv'
<1>1. /\ AllInner(<<>>)
      /\ AllInner(<<Expect("as"), Call("Name")>>)
      /\ AllInner(<<Call("MoreAliases")>>)
      /\ AllInner(<<Call("Name"), Call("ImportAlias")>>)
      /\ AllInner(<<Expect("}"), Call("ImportFrom")>>)
  BY NoFrames, TwoFrames, OneFrame, PlainFrame DEF Call, Expect, Outer, PathOps, Places, Special, WithFrom
<1>2. AllInner(IF Peek(0) = "as" THEN <<Expect("as"), Call("Name")>> ELSE <<>>)
  BY <1>1
<1>3. AllInner((IF Peek(0) = "as" THEN <<Expect("as"), Call("Name")>> ELSE <<>>) \o <<Call("MoreAliases")>>)
  BY <1>1, <1>2, ThenFrames
<1> QED BY <1>1, <1>2, <1>3, Goes DEF ParseImportAliases


LEMMA ParseImportFromInv ==
  ASSUME PInv, ParseImportFrom
  PROVE  PInv'
<1>1. /\ AllInner(<<Frame("ImportPath", Peek(1))>>)
      /\ AllInner(<<Expect(";")>>)
  BY OneFrame, PlainFrame DEF Expect, Outer, PathOps, Places, Special, WithFrom
<1> QED BY <1>1, Goes, Fails DEF ParseImportFrom


-----------------------------------------------------------------------------
(***************************************************************************)
(* The actions: contracts and their parts.                                 *)
(***************************************************************************)

LEMMA ParseContractKindInv ==
  ASSUME PInv, ParseContractKind
  PROVE  PInv'
<1>1. AllInner(<<>>)
  BY NoFrames
<1> QED BY <1>1, Goes, Reports DEF ParseContractKind


LEMMA ParseInheritanceInv ==
  ASSUME PInv, ParseInheritance
  PROVE  PInv'
<1>1. /\ AllInner(<<>>)
      /\ AllInner(<<Call("Invocation"), Frame("Inheritance", ",")>>)
  BY NoFrames, TwoFrames, PlainFrame DEF Call, Outer, PathOps, Places, Special, WithFrom
<1> QED BY <1>1, Goes DEF ParseInheritance


LEMMA ParseInvocationInv ==
  ASSUME PInv, ParseInvocation
  PROVE  PInv'
<1>1. /\ AllInner(<<>>)
      /\ AllInner(<<Call("IdentifierPath"), Call("InvocationArguments")>>)
      /\ AllInner(<<Call("ListArguments"), Expect(")")>>)
  BY NoFrames, TwoFrames, PlainFrame DEF Call, Expect, Outer, PathOps, Places, Special, WithFrom
<1> QED BY <1>1, Goes DEF ParseInvocation


LEMMA ParseStructDefinitionInv ==
  ASSUME PInv, ParseStructDefinition
  PROVE  PInv'
<1>1. /\ AllInner(<<>>)
      /\ AllInner(<<Call("Name"), Expect("{"), Call("Members")>>)
      /\ AllInner(<<Frame("VariableDeclaration", {}), Expect(";"), Call("Members")>>)
  BY NoFrames, ThreeFrames, PlainFrame DEF Call, Expect, Outer, PathOps, Places, Special, WithFrom
<1> QED BY <1>1, Goes DEF ParseStructDefinition


LEMMA ParseEnumDefinitionInv ==
  ASSUME PInv, ParseEnumDefinition
  PROVE  PInv'
<1>1. /\ AllInner(<<>>)
      /\ AllInner(<<Call("Name"), Expect("{"), Frame("EnumValues", TRUE)>>)
      /\ AllInner(<<Call("Name"), Call("MoreValues")>>)
      /\ AllInner(<<Expect(","), Call("NextValue")>>)
      /\ AllInner(<<Frame("EnumValues", FALSE)>>)
  BY NoFrames, ThreeFrames, TwoFrames, OneFrame, PlainFrame
     DEF Call, Expect, Outer, PathOps, Places, Special, WithFrom
<1> QED BY <1>1, Goes, ReportsIf, Fails DEF ParseEnumDefinition


LEMMA ParseEventDefinitionInv ==
  ASSUME PInv, ParseEventDefinition
  PROVE  PInv'
<1>1. /\ AllInner(<<Call("Name"), Parameters({"indexed"}, TRUE), Call("Anonymous")>>)
      /\ AllInner(<<Expect(";")>>)
  BY ThreeFrames, OneFrame, PlainFrame DEF Call, Expect, Outer, Parameters, PathOps, Places, Special, WithFrom
<1> QED BY <1>1, Goes DEF ParseEventDefinition


LEMMA ParseUsingDirectiveInv ==
  ASSUME PInv, ParseUsingDirective
  PROVE  PInv'
<1>1. /\ AllInner(<<Call("IdentifierPath"), Expect("for"), Call("UsingType")>>)
      /\ AllInner(<<Expect(";")>>)
      /\ AllInner(<<Call("TypeName"), Expect(";")>>)
  BY ThreeFrames, OneFrame, TwoFrames, PlainFrame DEF Call, Expect, Outer, PathOps, Places, Special, WithFrom
<1> QED BY <1>1, Goes DEF ParseUsingDirective


-----------------------------------------------------------------------------
(***************************************************************************)
(* The actions: functions.                                                 *)
(***************************************************************************)

LEMMA ParseFunctionDefinitionInv ==
  ASSUME PInv, ParseFunctionDefinition
  PROVE  PInv'
<1>1. /\ AllInner(<<Frame("FunctionHeader", FALSE), Call("Body")>>)
      /\ AllInner(<<Call("Name")>>)
  BY TwoFrames, OneFrame, PlainFrame DEF Call, Outer, PathOps, Places, Special, WithFrom
<1>2. AllInner(<<Call("Name")>> \o <<Frame("FunctionHeader", FALSE), Call("Body")>>)
  BY <1>1, ThenFrames
<1> QED BY <1>1, <1>2, Goes, ReportsIf DEF ParseFunctionDefinition


LEMMA ParseBodyInv ==
  ASSUME PInv, ParseBody
  PROVE  PInv'
<1>1. /\ AllInner(<<>>)
      /\ AllInner(<<Frame("Block", FALSE)>>)
  BY NoFrames, OneFrame, PlainFrame DEF Outer, PathOps, Places, Special, WithFrom
<1> QED BY <1>1, Goes DEF ParseBody


LEMMA ParseFunctionHeaderInv ==
  ASSUME PInv, ParseFunctionHeader
  PROVE  PInv'
<1>1. AllInner(<<Parameters({"location"}, TRUE), Frame("Specifiers", [isStateVariable |-> Arg, seen |-> {}])>>)
  BY TwoFrames, PlainFrame DEF Outer, Parameters, PathOps, Places, Special, WithFrom
<1> QED BY <1>1, Goes DEF ParseFunctionHeader


LEMMA ParseOverrideSpecifierInv ==
  ASSUME PInv, ParseOverrideSpecifier
  PROVE  PInv'
<1>1. /\ AllInner(<<>>)
      /\ AllInner(<<Call("IdentifierPath"), Call("MoreOverrides")>>)
      /\ AllInner(<<Expect(","), Call("IdentifierPath"), Call("MoreOverrides")>>)
  BY NoFrames, TwoFrames, ThreeFrames, PlainFrame DEF Call, Expect, Outer, PathOps, Places, Special, WithFrom
<1> QED BY <1>1, Goes DEF ParseOverrideSpecifier


LEMMA ParseParameterListInv ==
  ASSUME PInv, ParseParameterList
  PROVE  PInv'
<1>1. /\ AllInner(<<>>)
      /\ AllInner(<<Expect("("), Frame("FirstParameter", Arg)>>)
      /\ AllInner(<<Frame("VariableDeclaration", Arg.options \cup {"emptyName"}), Frame("MoreParameters", Arg)>>)
      /\ AllInner(<<Expect(","), Frame("VariableDeclaration", Arg.options \cup {"emptyName"}), Frame("MoreParameters", Arg)>>)
  BY NoFrames, TwoFrames, ThreeFrames, PlainFrame DEF Expect, Outer, PathOps, Places, Special, WithFrom
<1> QED BY <1>1, Goes, Fails DEF ParseParameterList


-----------------------------------------------------------------------------
(***************************************************************************)
(* The actions: types and variables.                                       *)
(***************************************************************************)

LEMMA ParseIdentifierPathInv ==
  ASSUME PInv, ParseIdentifierPath
  PROVE  PInv'
<1>1. /\ AllInner(<<>>)
      /\ AllInner(<<Call("Name"), Call("MorePath")>>)
  BY NoFrames, TwoFrames, PlainFrame DEF Call, Outer, PathOps, Places, Special, WithFrom
<1> QED BY <1>1, Goes DEF ParseIdentifierPath


LEMMA ParseTypeNameInv ==
  ASSUME PInv, ParseTypeName
  PROVE  PInv'
<1>1. /\ AllInner(<<Call("TypeNameSuffix")>>)
      /\ AllInner(<<Frame("FunctionHeader", TRUE)>>)
      /\ AllInner(<<Expect("("), Call("MappingKey")>>)
      /\ AllInner(<<Call("IdentifierPath")>>)
  BY OneFrame, TwoFrames, PlainFrame DEF Call, Expect, Outer, PathOps, Places, Special, WithFrom
<1>2. /\ AllInner(<<Frame("FunctionHeader", TRUE)>> \o <<Call("TypeNameSuffix")>>)
      /\ AllInner(<<Expect("("), Call("MappingKey")>> \o <<Call("TypeNameSuffix")>>)
      /\ AllInner(<<Call("IdentifierPath")>> \o <<Call("TypeNameSuffix")>>)
  BY <1>1, ThenFrames
<1> QED BY <1>1, <1>2, Goes, ReportsIf, Fails DEF ParseTypeName


LEMMA ParseMappingInv ==
  ASSUME PInv, ParseMapping
  PROVE  PInv'
<1>1. /\ AllInner(<<Expect("=>"), Call("TypeName"), Expect(")")>>)
      /\ AllInner(<<Call("IdentifierPath")>>)
  BY ThreeFrames, OneFrame, PlainFrame DEF Call, Expect, Outer, PathOps, Places, Special, WithFrom
<1>2. AllInner(<<Call("IdentifierPath")>> \o <<Expect("=>"), Call("TypeName"), Expect(")")>>)
  BY <1>1, ThenFrames
<1> QED BY <1>1, <1>2, Goes, Fails DEF ParseMapping


LEMMA ParseTypeNameSuffixInv ==
  ASSUME PInv, ParseTypeNameSuffix
  PROVE  PInv'
<1>1. /\ AllInner(<<>>)
      /\ AllInner(<<Expression>>)
      /\ AllInner(<<Expect("]"), Call("TypeNameSuffix")>>)
  BY NoFrames, OneFrame, TwoFrames, PlainFrame DEF Call, Expect, Expression, Outer, PathOps, Places, Special, WithFrom
<1>2. AllInner(IF Peek(1) = "]" THEN <<>> ELSE <<Expression>>)
  BY <1>1
<1>3. AllInner((IF Peek(1) = "]" THEN <<>> ELSE <<Expression>>) \o <<Expect("]"), Call("TypeNameSuffix")>>)
  BY <1>1, <1>2, ThenFrames
<1> QED BY <1>1, <1>2, <1>3, Goes DEF ParseTypeNameSuffix


LEMMA NoDocstringInner == AllInner(NoDocstring)
<1>1. AllInner(<<>>) /\ AllInner(<<Call("NoDocstring")>>)
  BY NoFrames, OneFrame, PlainFrame DEF Call, Outer, PathOps, Places, Special, WithFrom
<1> QED BY <1>1 DEF NoDocstring

LEMMA RefuseDocstringInv ==
  ASSUME PInv, RefuseDocstring
  PROVE  PInv'
<1>1. AllInner(<<>>)
  BY NoFrames
<1> QED BY <1>1, Reports DEF RefuseDocstring

LEMMA ParseVariableDeclarationInv ==
  ASSUME PInv, ParseVariableDeclaration
  PROVE  PInv'
<1> DEFINE start == <<Call("TypeName")>> \o (IF "initialValue" \in Arg THEN <<>> ELSE NoDocstring)
<1>1. /\ AllInner(<<>>)
      /\ AllInner(<<Call("TypeName")>>)
      /\ AllInner(<<Call("NoBody")>>)
      /\ AllInner(<<Frame("VariableSpecifiers", [options |-> Arg, seen |-> {}])>>)
  BY NoFrames, OneFrame, PlainFrame DEF Call, Outer, PathOps, Places, Special, WithFrom
<1>2. AllInner(IF Peek(0) = "function" /\ "state" \in Arg THEN <<Call("NoBody")>> ELSE <<>>)
  BY <1>1
<1>3. AllInner(IF "initialValue" \in Arg THEN <<>> ELSE NoDocstring)
  BY <1>1, NoDocstringInner
<1>4. AllInner(start)
  BY <1>1, <1>3, ThenFrames
<1>5. AllInner(start \o (IF Peek(0) = "function" /\ "state" \in Arg THEN <<Call("NoBody")>> ELSE <<>>))
  BY <1>2, <1>4, ThenFrames
<1>6. AllInner(start \o (IF Peek(0) = "function" /\ "state" \in Arg THEN <<Call("NoBody")>> ELSE <<>>)
               \o <<Frame("VariableSpecifiers", [options |-> Arg, seen |-> {}])>>)
  BY <1>1, <1>5, ThenFrames
<1> QED BY <1>6, Goes DEF ParseVariableDeclaration


LEMMA RefuseUnnamedFunctionInv ==
  ASSUME PInv, RefuseUnnamedFunction
  PROVE  PInv'
<1>1. AllInner(<<>>)
  BY NoFrames
<1> QED BY <1>1, Goes, Fails DEF RefuseUnnamedFunction


LEMMA ParseInitialValueInv ==
  ASSUME PInv, ParseInitialValue
  PROVE  PInv'
<1>1. /\ AllInner(<<>>)
      /\ AllInner(<<Expression>>)
  BY NoFrames, OneFrame, PlainFrame DEF Expression, Outer, PathOps, Places, Special, WithFrom
<1> QED BY <1>1, Goes DEF ParseInitialValue


-----------------------------------------------------------------------------
(***************************************************************************)
(* The actions: statements.                                                *)
(***************************************************************************)

LEMMA ParseBlockInv ==
  ASSUME PInv, ParseBlock
  PROVE  PInv'
<1>1. /\ AllInner(<<>>)
      /\ AllInner(<<Expect("{"), Call("Statements"), Sync("}")>>)
      /\ AllInner(<<Frame("Statement", TRUE), Call("Statements")>>)
  BY NoFrames, ThreeFrames, SyncFrame, TwoFrames, PlainFrame
     DEF Call, Expect, Outer, PathOps, Places, Special, WithFrom
<1> QED BY <1>1, Goes, ReportsIf DEF ParseBlock


LEMMA ParseElseInv ==
  ASSUME PInv, ParseElse
  PROVE  PInv'
<1>1. /\ AllInner(<<>>)
      /\ AllInner(<<Statement>>)
  BY NoFrames, OneFrame, PlainFrame DEF Outer, PathOps, Places, Special, Statement, WithFrom
<1> QED BY <1>1, Goes DEF ParseElse


LEMMA ParseForPartsInv ==
  ASSUME PInv, ParseForParts
  PROVE  PInv'
<1>1. /\ AllInner(<<>>)
      /\ AllInner(<<Call("SimpleStatement")>>)
      /\ AllInner(<<Expression>>)
  BY NoFrames, OneFrame, PlainFrame DEF Call, Expression, Outer, PathOps, Places, Special, WithFrom
<1>2. /\ AllInner(IF Peek(0) = ";" THEN <<>> ELSE <<Call("SimpleStatement")>>)
      /\ AllInner(IF Peek(0) = ";" THEN <<>> ELSE <<Expression>>)
      /\ AllInner(IF Peek(0) = ")" THEN <<>> ELSE <<Expression>>)
  BY <1>1
<1> QED BY <1>1, <1>2, Goes DEF ParseForParts


LEMMA ParseTryReturnsInv ==
  ASSUME PInv, ParseTryReturns
  PROVE  PInv'
<1>1. /\ AllInner(<<>>)
      /\ AllInner(<<Parameters({"location"}, FALSE)>>)
  BY NoFrames, OneFrame, PlainFrame DEF Outer, Parameters, PathOps, Places, Special, WithFrom
<1> QED BY <1>1, Goes DEF ParseTryReturns


LEMMA ParseCatchClauseInv ==
  ASSUME PInv, ParseCatchClause
  PROVE  PInv'
<1>1. /\ AllInner(<<>>)
      /\ AllInner(<<Frame("Block", FALSE), Call("MoreClauses")>>)
      /\ AllInner(<<Expect("catch"), Call("CatchParameters")>>)
      /\ AllInner(<<Parameters({"location"}, TRUE)>>)
      /\ AllInner(<<Parameters({"location"}, FALSE)>>)
      /\ AllInner(<<Call("CatchClause")>>)
  BY NoFrames, TwoFrames, OneFrame, PlainFrame DEF Call, Expect, Outer, Parameters, PathOps, Places, Special, WithFrom
<1>2. /\ AllInner(<<Parameters({"location"}, TRUE)>> \o <<Frame("Block", FALSE), Call("MoreClauses")>>)
      /\ AllInner(<<Parameters({"location"}, FALSE)>> \o <<Frame("Block", FALSE), Call("MoreClauses")>>)
  BY <1>1, ThenFrames
<1> QED BY <1>1, <1>2, Goes DEF ParseCatchClause


LEMMA ParseInlineAssemblyInv ==
  ASSUME PInv, ParseInlineAssembly
  PROVE  PInv'
<1>1. AllInner(<<>>)
  BY NoFrames
<1> QED BY <1>1, Goes, Fails DEF ParseInlineAssembly


LEMMA ParseEventNameInv ==
  ASSUME PInv, ParseEventName
  PROVE  PInv'
<1>1. AllInner(<<Call("IdentifierPath")>>)
  BY OneFrame, PlainFrame DEF Call, Outer, PathOps, Places, Special, WithFrom
<1> QED BY <1>1, Goes, Fails DEF ParseEventName


LEMMA ParseIndexAccessedPathInv ==
  ASSUME PInv, ParseIndexAccessedPath
  PROVE  PInv'
<1>1. Len(nodes) + 1 \in Int
  BY PlaceHere
<1>2. /\ AllInner(<<>>)
      /\ AllInner(<<Call("Identifier"), Call("PathMembers")>>)
      /\ AllInner(<<Call("PathIndices")>>)
      /\ AllInner(<<Frame("Index", Len(nodes) + 1), Call("PathIndices")>>)
  BY <1>1, NoFrames, TwoFrames, OneFrame, PlaceFrame, PlainFrame DEF Call, Outer, PathOps, Places, Special, WithFrom
<1>3. IsSeq(Append(nodes, Leaf(<<Peek(0)>>)))
  BY NodesSeq
<1> QED BY <1>1, <1>2, <1>3, Goes, Builds DEF ParseIndexAccessedPath


LEMMA ParseVariableDeclarationStatementInv ==
  ASSUME PInv, ParseVariableDeclarationStatement
  PROVE  PInv'
<1>1. /\ AllInner(<<>>)
      /\ AllInner(<<Frame("VariableDeclaration", {"location"}), Call("MoreVariables")>>)
      /\ AllInner(<<Frame("VariableDeclaration", {"location"}), Call("InitialValue")>>)
      /\ AllInner(<<Frame("VariableSpecifiers", [options |-> {"location"}, seen |-> {}]), Call("MoreVariables")>>)
      /\ AllInner(<<Frame("VariableSpecifiers", [options |-> {"location"}, seen |-> {}]), Call("InitialValue")>>)
      /\ AllInner(<<Expect("="), Expression>>)
      /\ AllInner(<<Expect(","), Call("NextVariable")>>)
      /\ AllInner(<<Frame("VariableDeclaration", {"location"})>>)
      /\ AllInner(<<Call("MoreVariables")>>)
  BY NoFrames, TwoFrames, OneFrame, PlainFrame DEF Call, Expect, Expression, Outer, PathOps, Places, Special, WithFrom
<1>2. Top("Declaration") => IsSeq(SubSeq(nodes, 1, Arg.from - 1))
  BY FromArg, NodesSeq DEF WithFrom, PathOps
<1>3. AllInner(IF Peek(0) \in {",", ")"} THEN <<>> ELSE <<Frame("VariableDeclaration", {"location"})>>)
  BY <1>1
<1>4. AllInner((IF Peek(0) \in {",", ")"} THEN <<>> ELSE <<Frame("VariableDeclaration", {"location"})>>)
               \o <<Call("MoreVariables")>>)
  BY <1>1, <1>3, ThenFrames
<1>5. AllInner(IF Arg.known THEN NoDocstring ELSE <<>>)
  BY <1>1, NoDocstringInner
<1>6. AllInner((IF Arg.known THEN NoDocstring ELSE <<>>)
               \o <<IF Arg.known THEN Frame("VariableSpecifiers", [options |-> {"location"}, seen |-> {}])
                    ELSE Frame("VariableDeclaration", {"location"}),
                    IF Arg.tuple THEN Call("MoreVariables") ELSE Call("InitialValue")>>)
  <2>1. AllInner(<<IF Arg.known THEN Frame("VariableSpecifiers", [options |-> {"location"}, seen |-> {}])
                   ELSE Frame("VariableDeclaration", {"location"}),
                   IF Arg.tuple THEN Call("MoreVariables") ELSE Call("InitialValue")>>)
    BY <1>1
  <2> QED BY <1>5, <2>1, ThenFrames
<1> QED BY <1>1, <1>2, <1>3, <1>4, <1>6, Goes, Builds DEF ParseVariableDeclarationStatement


LEMMA ParseExpressionStatementInv ==
  ASSUME PInv, ParseExpressionStatement
  PROVE  PInv'
<1>1. /\ AllInner(<<>>)
      /\ AllInner(<<Frame("Expression", Arg.known)>>)
      /\ AllInner(<<Call("MoreComponents")>>)
      /\ AllInner(<<Expect(","), Call("NextComponent")>>)
      /\ AllInner(<<Expression, Call("MoreComponents")>>)
  BY NoFrames, OneFrame, TwoFrames, PlainFrame DEF Call, Expect, Expression, Outer, PathOps, Places, Special, WithFrom
<1>2. Top("ExpressionStatement") =>
        AllInner(<<Frame("Expression", Arg.known), Call("MoreComponents"), Expect(")"),
                   Create("tuple", <<>>, Arg.from), Frame("Expression", TRUE)>>)
  BY FromArg, FiveFrames, CreateFrame, PlainFrame DEF Call, Expect, Special, WithFrom, PathOps, Places, Outer
<1>3. IsSeq(Append(nodes, Omitted))
  BY NodesSeq
<1> QED BY <1>1, <1>2, <1>3, Goes, Builds DEF ParseExpressionStatement


-----------------------------------------------------------------------------
(***************************************************************************)
(* The actions: expressions.                                               *)
(***************************************************************************)

LEMMA ParseExpressionInv ==
  ASSUME PInv, ParseExpression
  PROVE  PInv'
<1>1. From(Arg) \in Int
  BY PlaceHere
<1>2. /\ AllInner(<<>>)
      /\ AllInner(<<Frame("Binary", [min |-> 4, partial |-> Arg]), Frame("Assignment", From(Arg))>>)
  BY <1>1, NoFrames, TwoFrames, PlaceFrame, PlainFrame DEF Outer, PathOps, Places, Special, WithFrom
<1>3. Top("Assignment") =>
        /\ AllInner(<<Expression, Create("assignment", <<Peek(0)>>, Arg)>>)
        /\ AllInner(<<Expression, Expect(":"), Expression, Create("conditional", <<>>, Arg)>>)
  BY PlaceArg, TwoFrames, FourFrames, CreateFrame, PlainFrame
     DEF Expect, Expression, Special, WithFrom, PathOps, Places, Outer
<1> QED BY <1>1, <1>2, <1>3, Goes DEF ParseExpression


LEMMA ParseUnaryExpressionInv ==
  ASSUME PInv, ParseUnaryExpression
  PROVE  PInv'
<1>1. From(Arg) \in Int /\ From(FALSE) \in Int
  BY PlaceHere
<1>2. /\ AllInner(<<>>)
      /\ AllInner(<<Frame("Unary", FALSE), Create("prefix", <<Peek(0)>>, From(FALSE))>>)
      /\ AllInner(<<Frame("LeftHandSide", Arg), Frame("Postfix", From(Arg))>>)
  BY <1>1, NoFrames, TwoFrames, CreateFrame, PlaceFrame, PlainFrame DEF Outer, PathOps, Places, Special, WithFrom
<1>3. Top("Postfix") => AllInner(<<Create("postfix", <<Peek(0)>>, Arg)>>)
  BY PlaceArg, OneFrame, CreateFrame DEF Places
<1> QED BY <1>1, <1>2, <1>3, Goes DEF ParseUnaryExpression


LEMMA ParseIndexInv ==
  ASSUME PInv, ParseIndex
  PROVE  PInv'
<1>1. Top("Index") => AllInner(<<Frame("IndexEnd", Arg)>>) /\ AllInner(<<Expression, Frame("IndexEnd", Arg)>>)
  BY PlaceArg, OneFrame, TwoFrames, PlaceFrame, PlainFrame DEF Expression, Special, WithFrom, PathOps, Places, Outer
<1>2. Top("IndexEnd") =>
        /\ AllInner(<<Expect("]"), Create("index", <<>>, Arg)>>)
        /\ AllInner(<<Expect("]"), Create("range", <<>>, Arg)>>)
        /\ AllInner(<<Expression, Expect("]"), Create("range", <<>>, Arg)>>)
  BY PlaceArg, TwoFrames, ThreeFrames, CreateFrame, PlainFrame
     DEF Expect, Expression, Special, WithFrom, PathOps, Places, Outer
<1>3. IsSeq(Append(nodes, Omitted))
  BY NodesSeq
<1> QED BY <1>1, <1>2, <1>3, Goes, Builds DEF ParseIndex


LEMMA ParseComponentsInv ==
  ASSUME PInv, ParseComponents
  PROVE  PInv'
<1>1. /\ AllInner(<<>>)
      /\ AllInner(<<Expression>>)
      /\ AllInner(<<Frame("ComponentsEnd", Arg)>>)
      /\ AllInner(<<Expect(","), Frame("Components", Arg)>>)
  BY NoFrames, OneFrame, TwoFrames, PlainFrame DEF Expect, Expression, Outer, PathOps, Places, Special, WithFrom
<1>2. AllInner(<<Expression>> \o <<Frame("ComponentsEnd", Arg)>>)
  BY <1>1, ThenFrames
<1>3. IsSeq(Append(nodes, Omitted))
  BY NodesSeq
<1> QED BY <1>1, <1>2, <1>3, Goes, Builds, Reports DEF ParseComponents


LEMMA ParseFunctionCallArgumentsInv ==
  ASSUME PInv, ParseFunctionCallArguments
  PROVE  PInv'
<1>1. /\ AllInner(<<>>)
      /\ AllInner(<<Frame("NamedArguments", TRUE), Expect("}")>>)
      /\ AllInner(<<Call("ListArguments")>>)
      /\ AllInner(<<Expression, Call("MoreArguments")>>)
      /\ AllInner(<<Expect(","), Expression, Call("MoreArguments")>>)
  BY NoFrames, TwoFrames, OneFrame, ThreeFrames, PlainFrame
     DEF Call, Expect, Expression, Outer, PathOps, Places, Special, WithFrom
<1>2. /\ AllInner(IF Peek(0) = ")" THEN <<>> ELSE <<Expression, Call("MoreArguments")>>)
      /\ AllInner(IF Peek(0) = ")" THEN <<>> ELSE <<Expect(","), Expression, Call("MoreArguments")>>)
  BY <1>1
<1> QED BY <1>1, <1>2, Goes DEF ParseFunctionCallArguments


LEMMA ParseNamedArgumentsInv ==
  ASSUME PInv, ParseNamedArguments
  PROVE  PInv'
<1>1. Len(nodes) + 1 \in Int
  BY PlaceHere
<1>2. /\ AllInner(<<>>)
      /\ AllInner(<<Expect(",")>>)
      /\ AllInner(<<Call("Identifier"), Expect(":"), Expression, Create("named", <<>>, Len(nodes) + 1), Call("TrailingComma")>>)
      /\ AllInner(<<Frame("NamedArguments", FALSE)>>)
  BY <1>1, NoFrames, OneFrame, FiveFrames, CreateFrame, PlainFrame
     DEF Call, Expect, Expression, Outer, PathOps, Places, Special, WithFrom
<1>3. AllInner(IF Arg THEN <<>> ELSE <<Expect(",")>>)
  BY <1>2
<1>4. AllInner((IF Arg THEN <<>> ELSE <<Expect(",")>>)
               \o <<Call("Identifier"), Expect(":"), Expression, Create("named", <<>>, Len(nodes) + 1), Call("TrailingComma")>>)
  BY <1>2, <1>3, ThenFrames
<1> QED BY <1>1, <1>2, <1>3, <1>4, Goes, ReportsIf DEF ParseNamedArguments

\* The loop over binary operators.
LEMMA OperatorsFrame ==
  ASSUME NEW a, NEW b, NEW from \in Int
  PROVE  Inner(Frame("Operators", [min |-> a, max |-> b, from |-> from]))
<1> DEFINE r == [min |-> a, max |-> b, from |-> from]
<1>1. r.min = a /\ r.max = b /\ r.from = from
  OBVIOUS
<1>2. r = [min |-> r.min, max |-> r.max, from |-> r.from]
  BY <1>1
<1> HIDE DEF r
<1>3. Inner(Frame("Operators", r))
  BY <1>1, <1>2 DEF Inner, Good, Frame, WithFrom, PathOps, Places, Outer
<1> QED BY <1>3 DEF r

LEMMA CreateNodeInv ==
  ASSUME PInv, CreateNode
  PROVE  PInv'
<1>1. AllInner(<<>>)
  BY NoFrames
<1>2. PICK s : s = SubSeq(nodes, 1, Arg.from - 1)
  OBVIOUS
<1>3. Top("Create")
  BY DEF CreateNode
<1>4. IsSeq(s)
  BY <1>2, <1>3, FromArg, NodesSeq DEF WithFrom
<1>5. IsSeq(Append(s, Node(Arg.kind, Arg.op, SubSeq(nodes, Arg.from, Len(nodes)))))
  BY <1>4, IsSeqAppend
<1> QED BY <1>1, <1>2, <1>5, Builds DEF CreateNode

LEMMA ParseNewExpressionInv ==
  ASSUME PInv, ParseNewExpression
  PROVE  PInv'
<1>1. AllInner(<<>>)
  BY NoFrames
<1>2. PICK s : s = SubSeq(nodes, 1, Arg.from - 1)
  OBVIOUS
<1>3. Top("NewExpression")
  BY DEF ParseNewExpression
<1>4. IsSeq(s)
  BY <1>2, <1>3, FromArg, NodesSeq DEF WithFrom
<1>5. IsSeq(Append(s, Leaf(SubSeq(Tokens, Arg.start, pos - 1))))
  BY <1>4, IsSeqAppend
<1> QED BY <1>1, <1>2, <1>5, Builds DEF ParseNewExpression

LEMMA ParseBinaryExpressionInv ==
  ASSUME PInv, ParseBinaryExpression
  PROVE  PInv'
<1> DEFINE p == Precedence(Peek(0))
           inner == Frame("Binary", [min |-> IF Peek(0) = "**" THEN p ELSE p + 1, partial |-> FALSE])
           again == Frame("Operators", [Arg EXCEPT !.max = p])
<1>1. From(Arg.partial) \in Int
  BY PlaceHere
<1>2. /\ AllInner(<<>>)
      /\ AllInner(<<Frame("Unary", Arg.partial),
                    Frame("Operators", [min |-> Arg.min, max |-> Len(Levels), from |-> From(Arg.partial)])>>)
  BY <1>1, NoFrames, TwoFrames, OperatorsFrame, PlainFrame DEF Special, WithFrom, PathOps, Places, Outer
<1>3. ASSUME Top("Operators")
      PROVE  AllInner(<<inner, Create("binary", <<Peek(0)>>, Arg.from), again>>)
  <2>1. Arg.from \in Int /\ Arg = [min |-> Arg.min, max |-> Arg.max, from |-> Arg.from]
    BY <1>3, TopGood DEF Good, WithFrom
  <2> HIDE DEF p
  <2>2. [Arg EXCEPT !.max = p] = [min |-> Arg.min, max |-> p, from |-> Arg.from]
    BY <2>1
  <2>3. Inner(again)
    BY <2>1, <2>2, OperatorsFrame
  <2>4. Inner(inner)
    BY PlainFrame DEF Special, WithFrom, PathOps, Places, Outer
  <2> HIDE DEF inner, again
  <2> QED BY <2>1, <2>3, <2>4, ThreeFrames, CreateFrame
<1> QED BY <1>2, <1>3, Goes DEF ParseBinaryExpression

LEMMA ParseLeftHandSideExpressionInv ==
  ASSUME PInv, ParseLeftHandSideExpression
  PROVE  PInv'
<1> DEFINE suffixes == Frame("Suffixes", From(Arg))
           new == Frame("NewExpression", [from |-> From(FALSE), start |-> pos])
<1>1. From(Arg) \in Int /\ From(FALSE) \in Int
  BY PlaceHere
<1>2. Inner(suffixes)
  BY <1>1, PlaceFrame DEF Places
<1>3. Inner(new)
  <2>1. PICK n : n = From(FALSE)
    OBVIOUS
  <2>2. n \in Int
    BY <1>1, <2>1
  <2>3. Inner(Frame("NewExpression", [from |-> n, start |-> pos]))
    BY <2>2 DEF Inner, Good, Frame, WithFrom, PathOps, Places, Outer
  <2> QED BY <2>1, <2>3
<1>4. Inner(Call("TypeName")) /\ Inner(Call("Primary")) /\ Inner(Frame("ExpectAhead", "("))
  BY PlainFrame DEF Call, Special, WithFrom, PathOps, Places, Outer
<1> HIDE DEF suffixes, new
<1>5. /\ AllInner(<<suffixes>>) /\ AllInner(<<Call("TypeName"), new, suffixes>>)
      /\ AllInner(<<Frame("ExpectAhead", "("), suffixes>>) /\ AllInner(<<Call("Primary"), suffixes>>)
  BY <1>2, <1>3, <1>4, OneFrame, TwoFrames, ThreeFrames
<1>6. IsSeq(Append(nodes, Leaf(<<"payable">>)))
  BY NodesSeq
<1> QED BY <1>5, <1>6, Goes, Builds DEF ParseLeftHandSideExpression, suffixes, new

LEMMA ParseSuffixesInv ==
  ASSUME PInv, ParseSuffixes
  PROVE  PInv'
<1> DEFINE again == <<Frame("Suffixes", Arg)>>
<1>1. Arg \in Int
  BY PlaceArg DEF ParseSuffixes, Places
<1>2. AllInner(<<>>) /\ AllInner(again) /\ AllInner(<<Frame("Index", Arg)>>)
  BY <1>1, NoFrames, OneFrame, PlaceFrame DEF Places
<1>3. /\ AllInner(<<Create("member", <<>>, Arg)>>)
      /\ AllInner(<<Call("Identifier"), Create("member", <<>>, Arg)>>)
      /\ AllInner(<<Call("CallArguments"), Expect(")"), Create("call", <<>>, Arg)>>)
      /\ AllInner(<<Frame("NamedArguments", TRUE), Expect("}"), Create("options", <<>>, Arg)>>)
  BY <1>1, OneFrame, TwoFrames, ThreeFrames, CreateFrame, PlainFrame
     DEF Call, Expect, Special, WithFrom, PathOps, Places, Outer
<1> HIDE DEF again
<1>4. /\ AllInner(<<Frame("Index", Arg)>> \o again)
      /\ AllInner(<<Create("member", <<>>, Arg)>> \o again)
      /\ AllInner(<<Call("Identifier"), Create("member", <<>>, Arg)>> \o again)
      /\ AllInner(<<Call("CallArguments"), Expect(")"), Create("call", <<>>, Arg)>> \o again)
      /\ AllInner(<<Frame("NamedArguments", TRUE), Expect("}"), Create("options", <<>>, Arg)>> \o again)
  BY <1>2, <1>3, ThenFrames
<1>5. IsSeq(Append(nodes, Leaf(<<"address">>)))
  BY NodesSeq
<1> QED BY <1>2, <1>4, <1>5, Goes, Builds DEF ParseSuffixes, again

LEMMA ParsePrimaryExpressionInv ==
  ASSUME PInv, ParsePrimaryExpression
  PROVE  PInv'
<1> DEFINE t == Peek(0)
           candidates == {k \in 1..Len(Tokens) : Peek(k) # t}
           strings == Min(candidates)
           leaf(n) == Build(<<>>, n, Append(nodes, Leaf(SubSeq(Tokens, pos, pos + n - 1))))
           closing == IF t = "(" THEN ")" ELSE "]"
           kind == IF t = "(" THEN "tuple" ELSE "array"
           end == <<Expect(closing), Create(kind, <<>>, Len(nodes) + 1)>>
<1>1. Top("Primary") /\ "Primary" # "EndModifier" /\ TypeInv /\ stack # <<>>
  BY DEF ParsePrimaryExpression, PInv, Top
<1>2. ASSUME NEW n \in Nat, leaf(n) PROVE PInv'
  <2>1. AllInner(<<>>) /\ IsSeq(Append(nodes, Leaf(SubSeq(Tokens, pos, pos + n - 1))))
    BY NoFrames, NodesSeq
  <2> QED BY <1>1, <1>2, <2>1, Builds
<1>3. t \in StringLiterals => strings \in Nat
  <2> HAVE t \in StringLiterals
  <2>1. Len(Tokens) \in Nat /\ pos \in Nat \ {0}
    BY <1>1, SourcesType DEF TypeInv
  <2>2. t # "EOS" /\ pos + 0 <= Len(Tokens)
    BY <2>1 DEF StringLiterals, Peek
  <2>3. Len(Tokens) \in 1..Len(Tokens) /\ Peek(Len(Tokens)) = "EOS"
    BY <2>1, <2>2 DEF Peek
  <2>4. candidates \subseteq Nat /\ candidates # {}
    BY <2>1, <2>2, <2>3
  <2> HIDE DEF candidates
  <2> QED BY <2>4, MinIn
<1>4. AllInner((IF Peek(1) = closing THEN <<>> ELSE <<Frame("Components", closing)>>) \o end)
  <2>1. Len(nodes) + 1 \in Int
    BY PlaceHere
  <2> HIDE DEF closing, kind
  <2>2. AllInner(end)
    BY <2>1, TwoFrames, CreateFrame, PlainFrame DEF Expect, Special, WithFrom, PathOps, Places, Outer
  <2>3. AllInner(<<>>) /\ AllInner(<<Frame("Components", closing)>>)
    BY NoFrames, OneFrame, PlainFrame DEF Special, WithFrom, PathOps, Places, Outer
  <2> HIDE DEF end
  <2>4. AllInner(IF Peek(1) = closing THEN <<>> ELSE <<Frame("Components", closing)>>)
    BY <2>3
  <2> QED BY <2>2, <2>4, ThenFrames
<1>5. \/ leaf(1) \/ leaf(IF Peek(1) \in SubDenominations THEN 2 ELSE 1)
      \/ t \in StringLiterals /\ (Fatal(strings) \/ leaf(strings))
      \/ Go((IF Peek(1) = closing THEN <<>> ELSE <<Frame("Components", closing)>>) \o end, 1)
      \/ Fatal(0)
  BY DEF ParsePrimaryExpression
<1> HIDE DEF t, strings, leaf, closing, kind, end
<1> QED BY <1>1, <1>2, <1>3, <1>4, <1>5, Goes, Fails
\* Statements that may be declarations or expressions.
LEMMA PathFrame ==
  ASSUME NEW op \in PathOps, NEW tuple, NEW from \in Int, NEW at \in Int, NEW known
  PROVE  Inner(Frame(op, [tuple |-> tuple, from |-> from, at |-> at, known |-> known]))
<1> DEFINE r == [tuple |-> tuple, from |-> from, at |-> at, known |-> known]
<1>1. r.tuple = tuple /\ r.from = from /\ r.at = at /\ r.known = known
  OBVIOUS
<1>2. r = [tuple |-> r.tuple, from |-> r.from, at |-> r.at, known |-> r.known]
  BY <1>1
<1> HIDE DEF r
<1>3. Inner(Frame(op, r))
  BY <1>1, <1>2 DEF Inner, Good, Frame, WithFrom, PathOps, Places, Outer
<1> QED BY <1>3 DEF r

LEMMA NowKnown ==
  ASSUME NEW t, NEW f, NEW at, NEW k, NEW v, NEW a, a = [tuple |-> t, from |-> f, at |-> at, known |-> k]
  PROVE  [a EXCEPT !.known = v] = [tuple |-> t, from |-> f, at |-> at, known |-> v]
OBVIOUS

\* What is known of a statement goes from one frame to the next.
LEMMA PathArg ==
  ASSUME PInv, NEW op \in PathOps, Top(op), NEW new \in PathOps
  PROVE  Arg.at \in Int /\ Inner(Frame(new, Arg)) /\ Inner(Frame(new, [Arg EXCEPT !.known = TRUE]))
<1>1. PICK a : a = Arg
  OBVIOUS
<1>2. /\ a.from \in Int /\ a.at \in Int
      /\ a = [tuple |-> a.tuple, from |-> a.from, at |-> a.at, known |-> a.known]
  BY <1>1, TopGood DEF Good, WithFrom
<1>3. \A v : [a EXCEPT !.known = v] = [tuple |-> a.tuple, from |-> a.from, at |-> a.at, known |-> v]
  BY <1>2, NowKnown
<1>4. [a EXCEPT !.known = TRUE] = [tuple |-> a.tuple, from |-> a.from, at |-> a.at, known |-> TRUE]
  BY <1>3, Zenon
<1>5. Inner(Frame(new, a)) /\ Inner(Frame(new, [a EXCEPT !.known = TRUE]))
  BY <1>2, <1>4, PathFrame
<1> QED BY <1>1, <1>2, <1>5

LEMMA ParseSimpleStatementInv ==
  ASSUME PInv, ParseSimpleStatement
  PROVE  PInv'
<1> DEFINE from == Len(nodes) + 1
           candidates == {k \in 0..Len(Tokens) : Peek(k + 1) # ","}
           commas == Min(candidates)
           start(tuple, at) == Frame("LookAhead", [tuple |-> tuple, from |-> from, at |-> at, known |-> FALSE])
           ns == nodes \o [i \in 1..commas |-> Omitted]
<1>1. Top("SimpleStatement") /\ TypeInv /\ stack # <<>> /\ Len(nodes) \in Nat
  BY PlaceHere DEF ParseSimpleStatement, PInv, Top
<1>2. commas \in Nat
  <2>1. Len(Tokens) \in Nat /\ pos \in Nat \ {0}
    BY <1>1, SourcesType DEF TypeInv
  <2>2. Len(Tokens) \in 0..Len(Tokens) /\ Peek(Len(Tokens) + 1) = "EOS"
    BY <2>1 DEF Peek
  <2>3. candidates \subseteq Nat
    <3>1. 0..Len(Tokens) \subseteq Nat
      BY <2>1
    <3>2. candidates \subseteq 0..Len(Tokens)
      OBVIOUS
    <3> QED BY <3>1, <3>2
  <2>4. Len(Tokens) \in candidates
    BY <2>2
  <2> HIDE DEF candidates
  <2> QED BY <2>3, <2>4, MinIn
<1>3. \/ Build(<<start(TRUE, from + commas)>>, 1 + commas, ns)
      \/ Go(<<start(FALSE, from)>>, 0)
  BY DEF ParseSimpleStatement
<1> HIDE DEF commas
<1>4. from \in Int /\ from + commas \in Int /\ 1 + commas \in Nat
  BY <1>1, <1>2
<1> HIDE DEF from
<1>5. ASSUME NEW tuple, NEW at \in Int PROVE AllInner(<<start(tuple, at)>>)
  BY <1>4, <1>5, PathFrame, OneFrame DEF PathOps
<1>6. IsSeq(ns)
  <2>1. PICK o : o = [i \in 1..commas |-> Omitted]
    OBVIOUS
  <2>2. o \in Seq({Omitted})
    BY <1>2, <2>1
  <2>3. IsSeq(o) /\ IsSeq(nodes)
    BY <2>2, SeqIsSeq, NodesSeq
  <2>4. IsSeq(nodes \o o)
    BY <2>3, IsSeqConcat
  <2> QED BY <2>1, <2>4
<1>7. AllInner(<<start(TRUE, from + commas)>>) /\ AllInner(<<start(FALSE, from)>>)
  BY <1>4, <1>5
<1> HIDE DEF start, ns
<1> QED BY <1>1, <1>3, <1>4, <1>6, <1>7, Goes, Builds

LEMMA TryParseIndexAccessedPathInv ==
  ASSUME PInv, TryParseIndexAccessedPath
  PROVE  PInv'
<1>1. Top("LookAhead")
  BY DEF TryParseIndexAccessedPath
<1>2. /\ Inner(Frame("Declaration", Arg))
      /\ Inner(Frame("ExpressionStatement", Arg)) /\ Inner(Frame("Decide", Arg))
  BY <1>1, PathArg DEF PathOps
<1>3. Inner(Call("IndexAccessedPath"))
  BY PlainFrame DEF Call, Special, WithFrom, PathOps, Places, Outer
<1>4. /\ AllInner(<<Frame("Declaration", Arg)>>)
      /\ AllInner(<<Frame("ExpressionStatement", Arg)>>)
      /\ AllInner(<<Call("IndexAccessedPath"), Frame("Decide", Arg)>>)
  BY <1>2, <1>3, OneFrame, TwoFrames
<1> QED BY <1>4, Goes DEF TryParseIndexAccessedPath

LEMMA DecideIndexAccessedPathInv ==
  ASSUME PInv, DecideIndexAccessedPath
  PROVE  PInv'
<1> DEFINE ranges == TypeNameFromIndexAccessStructure(Arg.at)
           declaration == Frame("Declaration", [Arg EXCEPT !.known = TRUE])
           statement == Frame("ExpressionStatement", [Arg EXCEPT !.known = TRUE])
           ns == Append(SubSeq(nodes, 1, Arg.at - 1), ExpressionFromIndexAccessStructure(Arg.at))
<1>1. Top("Decide")
  BY DEF DecideIndexAccessedPath
<1>2. Arg.at \in Int /\ Inner(declaration) /\ Inner(statement)
  BY <1>1, PathArg DEF PathOps
<1>3. Cardinality(ranges) \in Nat
  <2>1. Len(nodes) \in Int
    BY PlaceHere
  <2>2. PICK at : at = Arg.at
    OBVIOUS
  <2>3. IsFiniteSet(at..Len(nodes))
    BY <1>2, <2>1, <2>2, FS_Interval
  <2>4. ranges \subseteq at..Len(nodes)
    BY <2>2 DEF TypeNameFromIndexAccessStructure
  <2>5. IsFiniteSet(ranges)
    BY <2>3, <2>4, FS_Subset
  <2> QED BY <2>5, FS_CardinalityType
<1>4. IsSeq(ns)
  <2>1. PICK s : s = SubSeq(nodes, 1, Arg.at - 1)
    OBVIOUS
  <2>2. IsSeq(s)
    BY <1>2, <2>1, NodesSeq
  <2>3. IsSeq(Append(s, ExpressionFromIndexAccessStructure(Arg.at)))
    BY <2>2, IsSeqAppend
  <2> QED BY <2>1, <2>3
<1>5. Report(Cardinality(ranges), <<declaration>>, 0) \/ Build(<<statement>>, 0, ns)
  BY DEF DecideIndexAccessedPath
<1> HIDE DEF ranges, declaration, statement, ns
<1>6. AllInner(<<declaration>>) /\ AllInner(<<statement>>) /\ AllFit(<<declaration>>, "Decide")
  BY <1>2, OneFrame, InnerFits
<1>7. After(0) \in Nat \ {0}
  BY <1>1, AfterType DEF PInv, Top
<1> QED BY <1>1, <1>3, <1>4, <1>5, <1>6, <1>7, ReportInv, Builds

LEMMA ParseStatementInv ==
  ASSUME PInv, ParseStatement
  PROVE  PInv'
<1>1. /\ Inner(Call("Else")) /\ Inner(Call("ForInit")) /\ Inner(Call("ForCondition")) /\ Inner(Call("ForLoop"))
      /\ Inner(Call("TryReturns")) /\ Inner(Call("CatchClause")) /\ Inner(Call("InlineAssembly"))
      /\ Inner(Call("EventName")) /\ Inner(Call("CallArguments")) /\ Inner(Call("SimpleStatement"))
      /\ Inner(Statement) /\ Inner(Expression) /\ Inner(Frame("Block", Arg)) /\ Inner(Frame("Block", FALSE))
  BY PlainFrame DEF Call, Expression, Statement, Special, WithFrom, PathOps, Places, Outer
<1>2. \A t : Inner(Expect(t))
  BY PlainFrame DEF Expect, Special, WithFrom, PathOps, Places, Outer
<1>3. Inner(Sync(";")) /\ Inner(Catch)
  BY SyncFrame
<1>4. /\ AllInner(<<Expect("("), Expression, Expect(")"), Statement, Call("Else"), Catch>>)
      /\ AllInner(<<Expect("("), Expression, Expect(")"), Statement, Catch>>)
      /\ AllInner(<<Statement, Expect("while"), Expect("("), Expression, Expect(")"), Expect(";"), Catch>>)
      /\ AllInner(<<Expect("("), Call("ForInit"), Expect(";"), Call("ForCondition"), Expect(";"),
                    Call("ForLoop"), Expect(")"), Statement, Catch>>)
  BY <1>1, <1>2, <1>3, FiveFrames, SixFrames, SevenFrames, NineFrames
<1>5. /\ AllInner(<<Frame("Block", Arg), Catch>>) /\ AllInner(<<Sync(";")>>)
      /\ AllInner(<<Expression, Call("TryReturns"), Frame("Block", FALSE), Call("CatchClause"), Catch>>)
      /\ AllInner(<<Call("InlineAssembly"), Catch>>)
      /\ AllInner(<<Call("EventName"), Expect("("), Call("CallArguments"), Expect(")"), Sync(";")>>)
      /\ AllInner(<<Call("SimpleStatement"), Sync(";")>>)
  BY <1>1, <1>2, <1>3, OneFrame, TwoFrames, FiveFrames
<1>6. AllInner(IF Peek(1) = ";" THEN <<>> ELSE <<Expression>>)
  BY <1>1, NoFrames, OneFrame
<1>7. AllInner((IF Peek(1) = ";" THEN <<>> ELSE <<Expression>>) \o <<Sync(";")>>)
  BY <1>5, <1>6, ThenFrames
<1> QED BY <1>4, <1>5, <1>7, Goes DEF ParseStatement

LEMMA ParseSpecifiersInv ==
  ASSUME PInv, ParseSpecifiers
  PROVE  PInv'
<1> DEFINE t == Peek(0)
           next(new) == Frame("Specifiers", [Arg EXCEPT !.seen = @ \cup {new}])
<1>1. \A arg : Inner(Frame("Specifiers", arg))
  BY PlainFrame DEF Special, WithFrom, PathOps, Places, Outer
<1>2. \A new : Inner(next(new))
  BY <1>1
<1>3. Inner(Call("Invocation")) /\ Inner(Call("Override")) /\ Inner(Parameters({"location"}, FALSE))
  BY PlainFrame DEF Call, Parameters, Special, WithFrom, PathOps, Places, Outer
<1>4. \/ Go(<<Parameters({"location"}, FALSE)>>, 1) \/ Go(<<>>, 0)
      \/ Go(<<Call("Invocation"), Frame("Specifiers", Arg)>>, 0)
      \/ Report(1, <<Frame("Specifiers", Arg)>>, 1) \/ Go(<<next(t)>>, 1)
      \/ ReportIf("mutability" \in Arg.seen, <<next("mutability")>>, 1)
      \/ ReportIf("override" \in Arg.seen, <<Call("Override"), next("override")>>, 0)
      \/ ReportIf("virtual" \in Arg.seen, <<next("virtual")>>, 1)
  BY DEF ParseSpecifiers
<1>5. Top("Specifiers")
  BY DEF ParseSpecifiers
<1> HIDE DEF t, next
<1>6. /\ AllInner(<<Parameters({"location"}, FALSE)>>) /\ AllInner(<<>>)
      /\ AllInner(<<Call("Invocation"), Frame("Specifiers", Arg)>>)
      /\ AllInner(<<Frame("Specifiers", Arg)>>) /\ AllInner(<<next(t)>>)
      /\ AllInner(<<next("mutability")>>) /\ AllInner(<<Call("Override"), next("override")>>)
      /\ AllInner(<<next("virtual")>>)
  BY <1>1, <1>2, <1>3, NoFrames, OneFrame, TwoFrames
<1> QED BY <1>4, <1>5, <1>6, Goes, Reports, ReportsIf

LEMMA ParseVariableSpecifiersInv ==
  ASSUME PInv, ParseVariableSpecifiers
  PROVE  PInv'
<1> DEFINE next(new) == Frame("VariableSpecifiers", [Arg EXCEPT !.seen = @ \cup {new}])
           name == IF "emptyName" \in Arg.options /\ Peek(0) \notin Identifiers THEN <<>> ELSE <<Call("Name")>>
           value == IF "initialValue" \in Arg.options THEN <<Call("InitialValue")>> ELSE <<>>
<1>1. \A new : Inner(next(new))
  BY PlainFrame DEF Special, WithFrom, PathOps, Places, Outer
<1>2. Inner(Call("Override")) /\ Inner(Call("Name")) /\ Inner(Call("InitialValue"))
  BY PlainFrame DEF Call, Special, WithFrom, PathOps, Places, Outer
<1>3. AllInner(name) /\ AllInner(value)
  BY <1>2, NoFrames, OneFrame
<1>4. \/ ReportIf("visibility" \in Arg.seen, <<next("visibility")>>, 1)
      \/ ReportIf("override" \in Arg.seen, <<Call("Override"), next("override")>>, 0)
      \/ Go(<<next("indexed")>>, 1)
      \/ ReportIf("mutability" \in Arg.seen, <<next("mutability")>>, 1)
      \/ ReportIf("location" \in Arg.seen, <<next("location")>>, 1)
      \/ Go(name \o value, 0)
  BY DEF ParseVariableSpecifiers
<1>5. Top("VariableSpecifiers")
  BY DEF ParseVariableSpecifiers
<1> HIDE DEF next, name, value
<1>6. /\ AllInner(<<next("visibility")>>) /\ AllInner(<<Call("Override"), next("override")>>)
      /\ AllInner(<<next("indexed")>>) /\ AllInner(<<next("mutability")>>)
      /\ AllInner(<<next("location")>>) /\ AllInner(name \o value)
  BY <1>1, <1>2, <1>3, OneFrame, TwoFrames, ThenFrames
<1> QED BY <1>4, <1>5, <1>6, Goes, ReportsIf
-----------------------------------------------------------------------------
(***************************************************************************)
(* The actions that do not only push frames.                               *)
(***************************************************************************)
\* The functions below the one under way.
LEMMA TailStack ==
  ASSUME PInv, stack # <<>>
  PROVE  /\ IsSeq(stack) /\ Len(stack) \in Nat \ {0} /\ Head(stack) = stack[1]
         /\ IsSeq(Tail(stack)) /\ Len(Tail(stack)) = Len(stack) - 1
         /\ \A i \in 1..(Len(stack) - 1) : Tail(stack)[i] = stack[i + 1]
<1>1. IsSeq(stack)
  BY DEF PInv, StackInv
<1>2. Len(stack) \in Nat
  BY <1>1, IsSeqLen
<1> QED BY <1>1, <1>2, IsSeqTail

\* There is no definition of a modifier below a frame of Outer.
LEMMA NoneBelow ==
  ASSUME PInv, NEW op \in Outer, Top(op)
  PROVE  /\ \A i \in 2..Len(stack) : stack[i].op # "EndModifier"
         /\ op # "EndModifier" => insideModifier = FALSE
<1>1. /\ stack # <<>> /\ IsSeq(stack) /\ Len(stack) \in Nat \ {0} /\ stack[1].op = op
      /\ StackInv /\ insideModifier \in BOOLEAN
  BY TailStack DEF Top, PInv, TypeInv
<1>2. ASSUME NEW i \in 2..Len(stack) PROVE stack[i].op # "EndModifier"
  <2>1. 1 \in 1..Len(stack) /\ i \in 1..Len(stack) /\ 1 < i
    BY <1>1
  <2> QED BY <1>1, <2>1 DEF StackInv
<1>3. ASSUME op # "EndModifier", insideModifier PROVE FALSE
  <2>1. PICK i \in 1..Len(stack) : stack[i].op = "EndModifier"
    BY <1>1, <1>3 DEF StackInv
  <2>2. i \in 2..Len(stack)
    BY <1>1, <1>3, <2>1
  <2> QED BY <1>2, <2>1, <2>2
<1> QED BY <1>1, <1>2, <1>3

\* A function returns.
LEMMA PopInv ==
  ASSUME PInv, NEW op, Top(op), op # "EndModifier", stack' = Tail(stack), insideModifier' = insideModifier
  PROVE  StackInv'
<1>1. stack # <<>> /\ StackInv /\ Head(stack).op = op
  BY DEF Top, PInv
<1>2. AllFit(<<>>, op)
  BY NoFrames, InnerFits
<1>3. stack' = <<>> \o Tail(stack)
  <2>1. PICK t : t = Tail(stack)
    OBVIOUS
  <2>2. IsSeq(t)
    BY <1>1, <2>1, TailStack
  <2>3. <<>> \o t = t
    BY <2>2, ConcatEmptySeq DEF IsSeq
  <2> QED BY <2>1, <2>3
<1> QED BY <1>1, <1>2, <1>3, PushInv

LEMMA SynchronizeInv ==
  ASSUME PInv, Synchronize
  PROVE  PInv'
<1> DEFINE found == {k \in pos..Len(Tokens) : Tokens[k] = Arg.token}
<1>1. Top("Sync") /\ TypeInv /\ stack # <<>>
  BY DEF Synchronize, Top, PInv
<1>2. CASE Go(<<Expect(Arg.token)>>, 0) \/ Go(<<Call("Throw")>>, 0)
  <2>1. AllInner(<<Expect(Arg.token)>>) /\ AllInner(<<Call("Throw")>>)
    BY OneFrame, PlainFrame DEF Call, Expect, Special, WithFrom, PathOps, Places, Outer
  <2> QED BY <1>1, <1>2, <2>1, Goes
<1>3. CASE /\ recovering /\ found # {} /\ pos' = Min(found) + 1 /\ stack' = Tail(stack)
           /\ UNCHANGED <<input, unit, nodes, errors, insideModifier, language, results>>
  <2>1. UNCHANGED <<sources, unit, nodes, errors, insideModifier, results>>
    BY <1>3 DEF input
  <2>2. StackInv'
    BY <1>1, <1>3, <2>1, PopInv
  <2>3. pos' \in Nat \ {0}
    <3>1. Len(Tokens) \in Nat /\ pos \in Nat \ {0}
      BY <1>1, SourcesType DEF TypeInv
    <3>2. found \subseteq pos..Len(Tokens) /\ pos..Len(Tokens) \subseteq Nat
      BY <3>1
    <3> HIDE DEF found
    <3>3. Min(found) \in Nat
      BY <1>3, <3>2, MinIn
    <3> QED BY <1>3, <3>3
  <2>4. TypeInv'
    BY <1>1, <2>1, <2>3 DEF TypeInv
  <2>5. AcceptedMeansParsed'
    BY <1>3, <2>1 DEF PInv, AcceptedMeansParsed
  <2> QED BY <2>2, <2>4, <2>5 DEF PInv
<1> QED BY <1>2, <1>3 DEF Synchronize

LEMMA RethrowInv ==
  ASSUME PInv, Rethrow
  PROVE  PInv'
BY Fails DEF Rethrow

LEMMA LeaveHandlerInv ==
  ASSUME PInv, LeaveHandler
  PROVE  PInv'
BY NoFrames, Goes DEF LeaveHandler

LEMMA ParsePragmaDirectiveInv ==
  ASSUME PInv, ParsePragmaDirective
  PROVE  PInv'
<1> DEFINE ends == {Len(Tokens) + 1} \cup {k \in pos + 2..Len(Tokens) : Tokens[k] = ";"}
           last == Min(ends)
           words == SubSeq(Tokens, pos + 1, last - 1)
           illegal == {k \in DOMAIN words : words[k] = "illegal"}
           rest == SelectSeq(words, LAMBDA w : w # "illegal")
           frames == <<Expect(";"), Frame("SourceLanguage", rest)>>
<1>1. Top("PragmaDirective") /\ TypeInv /\ stack # <<>>
  BY DEF ParsePragmaDirective, Top, PInv
<1>2. Report(Cardinality(illegal), frames, last - pos)
  BY DEF ParsePragmaDirective
<1>3. Len(Tokens) \in Nat /\ pos \in Nat \ {0}
  BY <1>1, SourcesType DEF TypeInv
<1>4. last \in Nat \ {0}
  <2>1. ends \subseteq Nat \ {0} /\ ends # {}
    <3>1. Len(Tokens) + 1 \in Nat \ {0} /\ (pos + 2)..Len(Tokens) \subseteq Nat \ {0}
      BY <1>3
    <3>2. ends \subseteq {Len(Tokens) + 1} \cup ((pos + 2)..Len(Tokens)) /\ Len(Tokens) + 1 \in ends
      OBVIOUS
    <3> QED BY <3>1, <3>2
  <2> HIDE DEF ends
  <2> QED BY <2>1, MinIn
<1> HIDE DEF last
<1>5. Cardinality(illegal) \in Nat
  <2>1. pos + 1 \in Int /\ last - 1 \in Int
    BY <1>3, <1>4
  <2>2. IsSeq(words)
    <3>1. \A m, n \in Int : IsSeq(SubSeq(Tokens, m, n))
      BY IsSeqSub
    <3> QED BY <2>1, <3>1
  <2> HIDE DEF words
  <2>3. DOMAIN words = 1..Len(words) /\ Len(words) \in Nat
    BY <2>2, IsSeqLen
  <2>4. IsFiniteSet(DOMAIN words)
    BY <2>3, FS_Interval
  <2>5. IsFiniteSet(illegal)
    <3>1. illegal \subseteq DOMAIN words
      OBVIOUS
    <3> QED BY <2>4, <3>1, FS_Subset
  <2> QED BY <2>5, FS_CardinalityType
<1>6. AllFit(frames, "PragmaDirective")
  <2> HIDE DEF rest
  <2>1. AllInner(frames)
    BY TwoFrames, PlainFrame DEF Expect, Special, WithFrom, PathOps, Places, Outer
  <2> QED BY <2>1, InnerFits
<1>7. After(last - pos) \in Nat \ {0}
  <2> DEFINE T == {last, Len(Tokens) + 1}
  <2>1. T \subseteq Nat \ {0} /\ T # {} /\ pos + (last - pos) = last
    BY <1>3, <1>4
  <2>2. After(last - pos) = Min(T)
    BY <2>1 DEF After
  <2> HIDE DEF T
  <2> QED BY <2>1, <2>2, MinIn
<1> HIDE DEF illegal, frames
<1> QED BY <1>1, <1>2, <1>5, <1>6, <1>7, ReportInv

LEMMA ParseSourceLanguageInv ==
  ASSUME PInv, ParseSourceLanguage
  PROVE  PInv'
<1>1. Top("SourceLanguage") /\ TypeInv /\ StackInv /\ stack # <<>> /\ Head(stack).op = "SourceLanguage"
  BY DEF ParseSourceLanguage, Top, PInv
<1>2. CASE Go(<<>>, 0)
  BY <1>1, <1>2, NoFrames, Goes
<1>3. CASE /\ stack' = <<Frame("PragmaVersion", Tail(Arg))>> \o Tail(stack)
           /\ UNCHANGED <<input, unit, pos, nodes, errors, recovering, insideModifier, skipped, results>>
  <2>1. UNCHANGED <<sources, unit, pos, nodes, errors, recovering, insideModifier, skipped, results>>
    BY <1>3 DEF input
  <2>2. AllFit(<<Frame("PragmaVersion", Tail(Arg))>>, "SourceLanguage")
    BY OneFrame, PlainFrame, InnerFits DEF Special, WithFrom, PathOps, Places, Outer
  <2>3. StackInv'
    BY <1>1, <1>3, <2>1, <2>2, PushInv
  <2>4. TypeInv'
    BY <1>1, <2>1 DEF TypeInv
  <2>5. AcceptedMeansParsed'
    BY <2>1 DEF PInv, AcceptedMeansParsed
  <2> QED BY <2>3, <2>4, <2>5 DEF PInv
<1> QED BY <1>2, <1>3 DEF ParseSourceLanguage

LEMMA EndModifierInv ==
  ASSUME PInv, EndModifier
  PROVE  PInv'
<1> DEFINE t == Tail(stack)
<1>1. /\ Top("EndModifier") /\ stack # <<>> /\ insideModifier' = FALSE /\ stack' = t
      /\ UNCHANGED <<sources, unit, pos, nodes, errors, recovering, skipped, results>>
  BY DEF EndModifier, Top, input
<1>2. /\ IsSeq(t) /\ Len(stack) \in Nat \ {0} /\ Len(t) = Len(stack) - 1
      /\ \A i \in 1..(Len(stack) - 1) : t[i] = stack[i + 1]
  BY <1>1, TailStack
<1> HIDE DEF t
<1>3. \A i \in 2..Len(stack) : stack[i].op # "EndModifier"
  BY <1>1, NoneBelow DEF Outer
<1>4. ASSUME NEW i \in 1..Len(t) PROVE Good(t[i]) /\ t[i].op # "EndModifier"
  <2>1. i + 1 \in 2..Len(stack) /\ i + 1 \in 1..Len(stack) /\ t[i] = stack[i + 1]
    BY <1>2
  <2> QED BY <1>3, <2>1 DEF PInv, StackInv
<1>5. StackInv'
  BY <1>1, <1>2, <1>4 DEF StackInv
<1>6. TypeInv'
  <2>1. stack # <<>> /\ TypeInv
    BY <1>1 DEF PInv
  <2> QED BY <1>1, <2>1 DEF TypeInv
<1>7. AcceptedMeansParsed'
  BY <1>1 DEF PInv, AcceptedMeansParsed
<1> QED BY <1>5, <1>6, <1>7 DEF PInv

\* The flag is set together with the frame that stands for the end of the definition.
LEMMA ParseModifierDefinitionInv ==
  ASSUME PInv, ParseModifierDefinition
  PROVE  PInv'
<1> DEFINE frames == <<Expect("modifier"), Call("Name"), Call("ModifierParameters"), Frame("ModifierSpecifiers", {}),
                       Call("Body"), Call("EndModifier")>>
           specifiers(new) == Frame("ModifierSpecifiers", Arg \cup {new})
<1>1. CASE /\ Top("ModifierDefinition") /\ insideModifier' = TRUE /\ stack' = frames \o Tail(stack)
           /\ UNCHANGED <<input, unit, pos, nodes, errors, recovering, language, skipped, results>>
  <2> DEFINE t == Tail(stack)
             s == frames \o t
  <2>1. /\ stack # <<>> /\ stack' = s
        /\ UNCHANGED <<sources, unit, pos, nodes, errors, recovering, skipped, results>>
    BY <1>1 DEF Top, input
  <2>2. /\ IsSeq(t) /\ Len(stack) \in Nat \ {0} /\ Len(t) = Len(stack) - 1
        /\ \A i \in 1..(Len(stack) - 1) : t[i] = stack[i + 1]
    BY <2>1, TailStack
  <2> HIDE DEF t
  <2>3. IsSeq(frames) /\ Len(frames) = 6
    BY Short
  <2>4. ASSUME NEW i \in 1..5 PROVE Inner(frames[i])
    <3>1. /\ Inner(Expect("modifier")) /\ Inner(Call("Name")) /\ Inner(Call("ModifierParameters"))
          /\ Inner(Frame("ModifierSpecifiers", {})) /\ Inner(Call("Body"))
      BY PlainFrame DEF Call, Expect, Special, WithFrom, PathOps, Places, Outer
    <3>2. i = 1 \/ i = 2 \/ i = 3 \/ i = 4 \/ i = 5
      OBVIOUS
    <3> QED BY <3>1, <3>2
  <2>5. frames[6].op = "EndModifier" /\ Good(frames[6])
    BY DEF Call, Frame, Good, WithFrom, PathOps, Places
  <2> HIDE DEF frames
  <2>6. /\ IsSeq(s) /\ Len(s) = 6 + Len(t)
        /\ \A i \in 1..(6 + Len(t)) : s[i] = IF i <= 6 THEN frames[i] ELSE t[i - 6]
    <3>1. /\ IsSeq(frames \o t) /\ Len(frames \o t) = Len(frames) + Len(t)
          /\ \A i \in 1..(Len(frames) + Len(t)) :
               (frames \o t)[i] = IF i <= Len(frames) THEN frames[i] ELSE t[i - Len(frames)]
      BY <2>2, <2>3, IsSeqConcat
    <3> QED BY <2>3, <3>1
  <2> HIDE DEF s
  <2>7. \A i \in 1..5 : Inner(s[i])
    BY <2>2, <2>4, <2>6
  <2>8. s[6] = frames[6]
    BY <2>2, <2>6
  <2>9. \A i \in 7..Len(s) : i - 5 \in 2..Len(stack) /\ s[i] = stack[i - 5]
    <3> SUFFICES ASSUME NEW i \in 7..Len(s) PROVE i - 5 \in 2..Len(stack) /\ s[i] = stack[i - 5]
      OBVIOUS
    <3>1. i \in 1..(6 + Len(t)) /\ ~(i <= 6) /\ i - 6 \in 1..(Len(stack) - 1) /\ (i - 6) + 1 = i - 5
      BY <2>2, <2>6
    <3>2. s[i] = t[i - 6]
      BY <2>6, <3>1
    <3>3. t[i - 6] = stack[(i - 6) + 1]
      BY <2>2, <3>1
    <3> QED BY <2>2, <3>1, <3>2, <3>3
  <2>10. \A i \in 7..Len(s) : Good(s[i]) /\ s[i].op # "EndModifier"
    <3> SUFFICES ASSUME NEW i \in 7..Len(s) PROVE Good(s[i]) /\ s[i].op # "EndModifier"
      OBVIOUS
    <3>1. i - 5 \in 2..Len(stack) /\ i - 5 \in 1..Len(stack) /\ s[i] = stack[i - 5]
      BY <2>2, <2>9
    <3> QED BY <1>1, <3>1, NoneBelow DEF PInv, StackInv, Outer
  <2>11. \A i \in 1..Len(s) : i \in 1..5 \/ i = 6 \/ i \in 7..Len(s)
    BY <2>2, <2>6
  <2>12. \A i \in 1..Len(s) : Good(s[i])
    BY <2>5, <2>7, <2>8, <2>10, <2>11 DEF Inner
  <2>13. ASSUME NEW i \in 1..Len(s), NEW j \in 1..Len(s), i < j, s[i].op \in Outer PROVE s[j].op # "EndModifier"
    <3>1. ~(i \in 1..5)
      BY <2>7, <2>13 DEF Inner
    <3>2. j \in 7..Len(s)
      BY <2>2, <2>6, <2>11, <2>13, <3>1
    <3> QED BY <2>10, <3>2
  <2>14. \E i \in 1..Len(s) : s[i].op = "EndModifier"
    <3>1. 6 \in 1..Len(s)
      BY <2>2, <2>6
    <3> QED BY <2>5, <2>8, <3>1
  <2>15. StackInv'
    BY <1>1, <2>1, <2>6, <2>12, <2>13, <2>14 DEF StackInv
  <2>16. TypeInv'
    <3>1. TypeInv /\ insideModifier' = TRUE
      BY <1>1 DEF PInv
    <3> QED BY <2>1, <3>1 DEF TypeInv
  <2>17. AcceptedMeansParsed'
    BY <2>1 DEF PInv, AcceptedMeansParsed
  <2> QED BY <2>15, <2>16, <2>17 DEF PInv
<1>2. /\ AllInner(<<>>) /\ AllInner(<<Parameters({"indexed", "location"}, TRUE)>>)
      /\ AllInner(<<Call("Override"), specifiers("override")>>) /\ AllInner(<<specifiers("virtual")>>)
  BY NoFrames, OneFrame, TwoFrames, PlainFrame DEF Call, Parameters, Special, WithFrom, PathOps, Places, Outer
<1>3. \/ /\ Top("ModifierDefinition") /\ insideModifier' = TRUE /\ stack' = frames \o Tail(stack)
         /\ UNCHANGED <<input, unit, pos, nodes, errors, recovering, language, skipped, results>>
      \/ Top("ModifierParameters") /\ (Go(<<Parameters({"indexed", "location"}, TRUE)>>, 0) \/ Go(<<>>, 0))
      \/ /\ Top("ModifierSpecifiers")
         /\ \/ ReportIf("override" \in Arg, <<Call("Override"), specifiers("override")>>, 0)
            \/ ReportIf("virtual" \in Arg, <<specifiers("virtual")>>, 1)
            \/ Go(<<>>, 0)
  BY DEF ParseModifierDefinition
<1> HIDE DEF frames, specifiers
<1> QED BY <1>1, <1>2, <1>3, Goes, ReportsIf

-----------------------------------------------------------------------------
(***************************************************************************)
(* The actions of frames of Outer, which may push others of them.          *)
(***************************************************************************)
\* Sequences of frames that fit.
LEMMA FitOne ==
  ASSUME NEW a, NEW op, Fit(a, op)
  PROVE  AllFit(<<a>>, op)
<1>1. IsSeq(<<a>>) /\ Len(<<a>>) = 1 /\ <<a>>[1] = a
  BY Short
<1> QED BY <1>1 DEF AllFit

LEMMA FitThen ==
  ASSUME NEW op, NEW s, AllFit(s, op), NEW t, AllFit(t, op)
  PROVE  AllFit(s \o t, op)
<1> DEFINE u == s \o t
<1>1. IsSeq(s) /\ IsSeq(t) /\ Len(s) \in Nat /\ Len(t) \in Nat
  BY IsSeqLen DEF AllFit
<1>2. /\ IsSeq(u) /\ Len(u) = Len(s) + Len(t)
      /\ \A i \in 1..(Len(s) + Len(t)) : u[i] = IF i <= Len(s) THEN s[i] ELSE t[i - Len(s)]
  BY <1>1, IsSeqConcat
<1> HIDE DEF u
<1>3. ASSUME NEW i \in 1..Len(u) PROVE Fit(u[i], op)
  <2>1. CASE i <= Len(s)
    <3>1. i \in 1..Len(s) /\ u[i] = s[i]
      BY <1>1, <1>2, <2>1
    <3> QED BY <3>1 DEF AllFit
  <2>2. CASE ~(i <= Len(s))
    <3>1. i - Len(s) \in 1..Len(t) /\ u[i] = t[i - Len(s)]
      BY <1>1, <1>2, <2>2
    <3> QED BY <3>1 DEF AllFit
  <2> QED BY <2>1, <2>2
<1>4. AllFit(u, op)
  BY <1>2, <1>3 DEF AllFit
<1> QED BY <1>4 DEF u

\* A frame of Outer may be pushed in place of one of them.
LEMMA OuterFits ==
  ASSUME NEW op \in Outer, NEW new \in Outer, new # "EndModifier"
  PROVE  Fit(Call(new), op)
BY DEF Fit, Good, Call, Frame, WithFrom, PathOps, Places, Outer

LEMMA ParseContractDefinitionInv ==
  ASSUME PInv, ParseContractDefinition
  PROVE  PInv'
<1> DEFINE s == <<Call("ContractKind"), Call("Name"), Frame("Inheritance", "is"), Expect("{"),
                  Call("ContractParts"), Sync("}")>>
<1>1. Top("ContractDefinition") /\ Go(s, 0)
  BY DEF ParseContractDefinition
<1>2. IsSeq(s) /\ Len(s) = 6
  BY Short
<1>3. /\ Inner(Call("ContractKind")) /\ Inner(Call("Name")) /\ Inner(Frame("Inheritance", "is"))
      /\ Inner(Expect("{")) /\ Inner(Sync("}"))
  BY SyncFrame, PlainFrame DEF Call, Expect, Special, WithFrom, PathOps, Places, Outer
<1>4. Fit(Call("ContractParts"), "ContractDefinition")
  BY OuterFits DEF Outer
<1>5. \A f : Inner(f) => Fit(f, "ContractDefinition")
  BY DEF Inner, Fit, Outer
<1>6. /\ s[1] = Call("ContractKind") /\ s[2] = Call("Name") /\ s[3] = Frame("Inheritance", "is")
      /\ s[4] = Expect("{") /\ s[5] = Call("ContractParts") /\ s[6] = Sync("}")
  OBVIOUS
<1> HIDE DEF s
<1>7. ASSUME NEW i \in 1..6 PROVE Fit(s[i], "ContractDefinition")
  <2>1. i = 1 \/ i = 2 \/ i = 3 \/ i = 4 \/ i = 5 \/ i = 6
    OBVIOUS
  <2> QED BY <1>3, <1>4, <1>5, <1>6, <2>1
<1>8. AllFit(s, "ContractDefinition")
  BY <1>2, <1>7 DEF AllFit
<1> QED BY <1>1, <1>8, GoInv

LEMMA ParseContractPartsInv ==
  ASSUME PInv, ParseContractParts
  PROVE  PInv'
<1> DEFINE again == <<Call("ContractParts")>>
           variable == <<Frame("VariableDeclaration", {"state", "initialValue"}), Expect(";")>>
<1>1. /\ Top("ContractParts")
      /\ \/ Go(<<>>, 0)
         \/ \E op \in {"FunctionDefinition", "StructDefinition", "EnumDefinition", "ModifierDefinition",
                       "EventDefinition", "UsingDirective"} : Go(<<Call(op)>> \o again, 0)
         \/ Go(variable \o again, 0)
         \/ Fatal(0)
  BY DEF ParseContractParts
<1>2. AllFit(again, "ContractParts") /\ AllFit(<<Call("ModifierDefinition")>>, "ContractParts")
  BY OuterFits, FitOne DEF Outer
<1>3. ASSUME NEW op \in {"FunctionDefinition", "StructDefinition", "EnumDefinition", "ModifierDefinition",
                         "EventDefinition", "UsingDirective"}
      PROVE  AllFit(<<Call(op)>>, "ContractParts")
  <2>1. op = "ModifierDefinition" \/ op \notin Special
    BY DEF Special, WithFrom, PathOps, Places, Outer
  <2>2. op \notin Special => Inner(Call(op))
    BY PlainFrame DEF Call
  <2> QED BY <1>2, <2>1, <2>2, OneFrame, InnerFits
<1>4. AllFit(variable, "ContractParts") /\ AllFit(<<>>, "ContractParts")
  BY NoFrames, TwoFrames, PlainFrame, InnerFits DEF Expect, Special, WithFrom, PathOps, Places, Outer
<1> HIDE DEF again, variable
<1>5. CASE \E op \in {"FunctionDefinition", "StructDefinition", "EnumDefinition", "ModifierDefinition",
                       "EventDefinition", "UsingDirective"} : Go(<<Call(op)>> \o again, 0)
  <2>1. PICK op \in {"FunctionDefinition", "StructDefinition", "EnumDefinition", "ModifierDefinition",
                       "EventDefinition", "UsingDirective"} : Go(<<Call(op)>> \o again, 0)
    BY <1>5
  <2>2. AllFit(<<Call(op)>> \o again, "ContractParts")
    BY <1>2, <1>3, FitThen
  <2> QED BY <1>1, <2>1, <2>2, GoInv
<1>6. AllFit(variable \o again, "ContractParts")
  BY <1>2, <1>4, FitThen
<1> QED BY <1>1, <1>4, <1>5, <1>6, GoInv, Fails

LEMMA ParseInv ==
  ASSUME PInv, Parse
  PROVE  PInv'
<1> DEFINE Ops == {"PragmaDirective", "ImportDirective", "ContractDefinition", "StructDefinition",
                   "EnumDefinition", "FunctionDefinition"}
           result == [ast |-> TRUE, language |-> language, skipped |-> skipped, errors |-> errors', trees |-> nodes]
           ends == /\ Return(result) /\ errors' = errors + LicenseErrors
                   /\ UNCHANGED <<recovering, insideModifier, language>>
           again == <<Call("SourceUnit")>>
           variable == <<Frame("VariableDeclaration", {"initialValue"}), Expect(";")>>
<1>1. /\ Top("SourceUnit") /\ stack # <<>> /\ TypeInv
      /\ \/ ends
         \/ \E op \in Ops : Go(<<Call(op)>> \o again, 0)
         \/ Go(variable \o again, 0)
         \/ Fatal(0)
  BY DEF Parse, Top, PInv
<1>2. AllFit(again, "SourceUnit") /\ AllFit(<<Call("ContractDefinition")>>, "SourceUnit")
  BY OuterFits, FitOne DEF Outer
<1>3. ASSUME NEW op \in Ops PROVE AllFit(<<Call(op)>>, "SourceUnit")
  <2>1. op = "ContractDefinition" \/ op \notin Special
    BY DEF Special, WithFrom, PathOps, Places, Outer
  <2>2. op \notin Special => Inner(Call(op))
    BY PlainFrame DEF Call
  <2> QED BY <1>2, <2>1, <2>2, OneFrame, InnerFits
<1>4. AllFit(variable, "SourceUnit")
  BY TwoFrames, PlainFrame, InnerFits DEF Expect, Special, WithFrom, PathOps, Places, Outer
<1>5. CASE ends
  <2>1. insideModifier' = FALSE
    <3>1. insideModifier = FALSE
      BY <1>1, NoneBelow DEF Outer
    <3> QED BY <1>5, <3>1
  <2>2. result.ast = TRUE
    OBVIOUS
  <2> HIDE DEF result
  <2>3. TypeInv' /\ StackInv'
    <3>1. errors' \in Nat
      BY <1>1, <1>5 DEF TypeInv, LicenseErrors
    <3> QED BY <1>1, <1>5, <2>1, <3>1, ReturnInv
  <2>4. AcceptedMeansParsed'
    <3>1. /\ results' = Append(results, result) /\ skipped' = FALSE /\ UNCHANGED recovering
          /\ IsSeq(results) /\ IsSeq(results')
      BY <1>1, <1>5, <2>3 DEF Return, TypeInv
    <3>5. errors' = 0 => errors = 0
      BY <1>1, <1>5 DEF TypeInv, LicenseErrors
    <3>2. Len(results) \in Nat /\ DOMAIN results = 1..Len(results) /\ DOMAIN results' = 1..Len(results')
      BY <3>1, IsSeqLen
    <3>3. /\ Len(results') = Len(results) + 1
          /\ \A i \in 1..(Len(results) + 1) : results'[i] = IF i <= Len(results) THEN results[i] ELSE result
      BY <3>1, IsSeqAppend
    <3>4. ASSUME errors = 0, NEW i \in DOMAIN results' PROVE results'[i].ast
      <4>1. i \in 1..(Len(results) + 1)
        BY <3>2, <3>3
      <4>2. CASE i <= Len(results)
        <5>1. i \in DOMAIN results /\ results'[i] = results[i]
          BY <3>2, <3>3, <4>1, <4>2
        <5> QED BY <3>4, <5>1 DEF PInv, AcceptedMeansParsed
      <4>3. CASE ~(i <= Len(results))
        BY <2>2, <3>3, <4>1, <4>3
      <4> QED BY <4>2, <4>3
    <3> QED BY <3>1, <3>4, <3>5 DEF PInv, AcceptedMeansParsed
  <2> QED BY <2>3, <2>4 DEF PInv
<1> HIDE DEF again, variable, Ops, result, ends
<1>6. CASE \E op \in Ops : Go(<<Call(op)>> \o again, 0)
  <2>1. PICK op \in Ops : Go(<<Call(op)>> \o again, 0)
    BY <1>6
  <2>2. AllFit(<<Call(op)>> \o again, "SourceUnit")
    BY <1>2, <1>3, FitThen
  <2> QED BY <1>1, <2>1, <2>2, GoInv
<1>7. AllFit(variable \o again, "SourceUnit")
  BY <1>2, <1>4, FitThen
<1> QED BY <1>1, <1>5, <1>6, <1>7, GoInv, Fails

-----------------------------------------------------------------------------
\* All actions.
LEMMA DeclarationsInv ==
  ASSUME PInv, Declarations
  PROVE  PInv'
BY ParseInv, ParsePragmaDirectiveInv, ParseSourceLanguageInv, ParsePragmaVersionInv,
   ParseImportDirectiveInv, ParseImportAliasesInv, ParseImportFromInv,
   ParseContractDefinitionInv, ParseContractKindInv, ParseInheritanceInv, ParseInvocationInv,
   ParseContractPartsInv, ParseStructDefinitionInv, ParseEnumDefinitionInv,
   ParseModifierDefinitionInv, EndModifierInv, ParseEventDefinitionInv, ParseUsingDirectiveInv,
   ParseFunctionDefinitionInv, ParseBodyInv, ParseFunctionHeaderInv, ParseSpecifiersInv,
   ParseOverrideSpecifierInv, ParseParameterListInv, ParseIdentifierPathInv, ParseTypeNameInv,
   ParseMappingInv, ParseTypeNameSuffixInv, ParseVariableDeclarationInv, RefuseDocstringInv, RefuseUnnamedFunctionInv,
   ParseVariableSpecifiersInv, ParseInitialValueInv
   DEF Declarations

LEMMA StatementsInv ==
  ASSUME PInv, Statements
  PROVE  PInv'
BY ParseBlockInv, ParseStatementInv, ParseElseInv, ParseForPartsInv, ParseTryReturnsInv,
   ParseCatchClauseInv, ParseInlineAssemblyInv, ParseEventNameInv, ParseSimpleStatementInv,
   TryParseIndexAccessedPathInv, ParseIndexAccessedPathInv, DecideIndexAccessedPathInv,
   ParseVariableDeclarationStatementInv, ParseExpressionStatementInv
   DEF Statements

LEMMA ExpressionsInv ==
  ASSUME PInv, Expressions
  PROVE  PInv'
BY CreateNodeInv, ParseExpressionInv, ParseBinaryExpressionInv, ParseUnaryExpressionInv,
   ParseLeftHandSideExpressionInv, ParseNewExpressionInv, ParseSuffixesInv, ParseIndexInv,
   ParsePrimaryExpressionInv, ParseComponentsInv, ParseFunctionCallArgumentsInv, ParseNamedArgumentsInv
   DEF Expressions

LEMMA BaseInv ==
  ASSUME PInv, Base
  PROVE  PInv'
BY ExpectTokenInv, ParseIdentifierInv, SynchronizeInv, RethrowInv, LeaveHandlerInv DEF Base

-----------------------------------------------------------------------------
(***************************************************************************)
(* The theorems.                                                           *)
(***************************************************************************)
\* The invariant holds whatever the sources are, however many errors are allowed, and
\* whether the parser recovers from them or not.
THEOREM ParserInv == Spec => []PInv
<1>1. Init => PInv
  <2> SUFFICES ASSUME Init PROVE PInv
    OBVIOUS
  <2>1. sources \in Seq(Seq(STRING)) /\ sources # <<>>
    BY CompilationsAssumption DEF Init
  <2>2. Len(sources) \in Nat \ {0}
    BY <2>1, EmptySeq
  <2>3. IsSeq(<<>>)
    BY Short
  <2>4. TypeInv
    <3>1. sources \in Compilations /\ unit = 1 /\ pos = 1 /\ errors = 0 /\ IsSeq(nodes) /\ IsSeq(results)
      BY <2>3 DEF Init
    <3>2. insideModifier \in BOOLEAN
      BY DEF Init
    <3>3. unit \in 1..Len(sources) /\ unit \in Nat \ {0} /\ pos \in Nat \ {0} /\ errors \in Nat
      BY <2>2, <3>1
    <3> QED BY <3>1, <3>2, <3>3 DEF TypeInv
  <2>5. IsSeq(stack) /\ Len(stack) = 1 /\ stack[1] = Call("SourceUnit")
    BY Short DEF Init
  <2>6. Good(Call("SourceUnit")) /\ Call("SourceUnit").op = "SourceUnit"
    BY DEF Good, Call, Frame, WithFrom, PathOps, Places
  <2>7. \A i \in 1..Len(stack) : i = 1
    BY <2>5
  <2>8. insideModifier = FALSE
    BY DEF Init
  <2>9. StackInv
    BY <2>5, <2>6, <2>7, <2>8 DEF StackInv
  <2>10. AcceptedMeansParsed
    BY DEF Init, AcceptedMeansParsed
  <2> QED BY <2>4, <2>9, <2>10 DEF PInv
<1>2. PInv /\ [Next]_vars => PInv'
  <2> SUFFICES ASSUME PInv, [Next]_vars PROVE PInv'
    OBVIOUS
  <2>1. CASE Next
    BY <2>1, DeclarationsInv, StatementsInv, ExpressionsInv, BaseInv DEF Next
  <2>2. CASE UNCHANGED vars
    BY <2>2 DEF vars, PInv, TypeInv, StackInv, AcceptedMeansParsed
  <2> QED BY <2>1, <2>2
<1> QED BY <1>1, <1>2, PTL DEF Spec

\* Sources without an error were all parsed, and no token of them was passed over: a parser
\* that is recovering has reported an error, in this source or in an earlier one.
THEOREM AcceptedIsParsed == Spec => []AcceptedMeansParsed
<1>1. PInv => AcceptedMeansParsed
  BY DEF PInv
<1> QED BY <1>1, ParserInv, PTL

\* m_insideModifier is set exactly while a definition of a modifier is under way, whatever
\* exceptions leave definitions from within, so "_" is a placeholder nowhere else.
THEOREM PlaceholdersOnlyInModifiers == Spec => []PlaceholdersInModifiersOnly
<1>1. PInv => PlaceholdersInModifiersOnly
  <2> SUFFICES ASSUME PInv PROVE PlaceholdersInModifiersOnly
    OBVIOUS
  <2>1. DOMAIN stack = 1..Len(stack)
    BY IsSeqLen DEF PInv, StackInv
  <2> QED BY <2>1 DEF PInv, StackInv, PlaceholdersInModifiersOnly
<1> QED BY <1>1, ParserInv, PTL

=============================================================================
