---------------------- MODULE FunctionCodegenProofs ----------------------
(***************************************************************************)
(* The height of the stack that the compiler counts while it visits a      *)
(* function is the height that the machine has when it runs the code, for  *)
(* every function and along every path.                                    *)
(*                                                                         *)
(* The compiler is a list of tasks.  A point says where it is between two  *)
(* tasks: the height h counted, the height g that the machine has there,   *)
(* the scopes, the stacks of tags and the modifier depth.  A step says     *)
(* from which point to which a task leads, a flow is a list of tasks whose *)
(* steps fit together.  A task that is replaced by others leads where the  *)
(* others lead: this is shown for each statement, given a height T for     *)
(* each tag, which is decided when the tag is created, before it is placed *)
(* and before most jumps to it are emitted.  The inductive invariant says  *)
(* that the tasks left are a flow to the end of the code, and that the     *)
(* instructions emitted fit the heights T; when the code is run, this is   *)
(* all that is needed to follow the height along every jump.               *)
(***************************************************************************)
EXTENDS FunctionCodegen, SequenceTheorems, FiniteSetTheorems, WellFoundedInduction, TLAPS

-----------------------------------------------------------------------------
(***************************************************************************)
(* Sequences of anything.                                                  *)
(***************************************************************************)
IsSeq(s) == s \in Seq({s[i] : i \in DOMAIN s})

LEMMA SeqIsSeq ==
  ASSUME NEW S, NEW s \in Seq(S)
  PROVE  IsSeq(s)
<1>1. Len(s) \in Nat /\ s \in [1..Len(s) -> S] /\ DOMAIN s = 1..Len(s)
  BY LenProperties
<1>2. s \in [1..Len(s) -> {s[i] : i \in DOMAIN s}]
  BY <1>1
<1>3. s \in UNION {[1..n -> {s[i] : i \in DOMAIN s}] : n \in Nat}
  BY <1>1, <1>2
<1> QED BY <1>3, SeqDef DEF IsSeq

LEMMA IsSeqLen ==
  ASSUME NEW s, IsSeq(s)
  PROVE  Len(s) \in Nat /\ DOMAIN s = 1..Len(s)
BY LenProperties DEF IsSeq

\* Two sequences have their elements in one set.
LEMMA InOneSet ==
  ASSUME NEW s, IsSeq(s), NEW t, IsSeq(t)
  PROVE  \E S : s \in Seq(S) /\ t \in Seq(S)
<1> DEFINE A == {s[i] : i \in DOMAIN s}
           B == {t[i] : i \in DOMAIN t}
<1>1. s \in Seq(A) /\ t \in Seq(B)
  BY DEF IsSeq
<1> HIDE DEF A, B
<1>2. A \subseteq A \cup B /\ B \subseteq A \cup B
  OBVIOUS
<1>3. s \in Seq(A \cup B) /\ t \in Seq(A \cup B)
  BY <1>1, <1>2, SeqMonotonic
<1> QED BY <1>3

LEMMA IsSeqConcat ==
  ASSUME NEW s, IsSeq(s), NEW t, IsSeq(t)
  PROVE  /\ IsSeq(s \o t) /\ Len(s \o t) = Len(s) + Len(t)
         /\ \A i \in 1..(Len(s) + Len(t)) : (s \o t)[i] = IF i <= Len(s) THEN s[i] ELSE t[i - Len(s)]
<1>1. PICK S : s \in Seq(S) /\ t \in Seq(S)
  BY InOneSet
<1>2. /\ s \o t \in Seq(S) /\ Len(s \o t) = Len(s) + Len(t)
      /\ \A i \in 1..(Len(s) + Len(t)) : (s \o t)[i] = IF i <= Len(s) THEN s[i] ELSE t[i - Len(s)]
  BY <1>1, ConcatProperties
<1> QED BY <1>2, SeqIsSeq

LEMMA IsSeqAppend ==
  ASSUME NEW s, IsSeq(s), NEW e
  PROVE  /\ IsSeq(Append(s, e)) /\ Len(Append(s, e)) = Len(s) + 1
         /\ \A i \in 1..(Len(s) + 1) : Append(s, e)[i] = IF i <= Len(s) THEN s[i] ELSE e
<1> DEFINE A == {s[i] : i \in DOMAIN s} \cup {e}
<1>1. s \in Seq(A) /\ e \in A
  <2>1. s \in Seq({s[i] : i \in DOMAIN s}) /\ {s[i] : i \in DOMAIN s} \subseteq A
    BY DEF IsSeq
  <2> QED BY <2>1, SeqMonotonic
<1> HIDE DEF A
<1>2. /\ Append(s, e) \in Seq(A) /\ Len(Append(s, e)) = Len(s) + 1
      /\ \A i \in 1..Len(s) : Append(s, e)[i] = s[i]
      /\ Append(s, e)[Len(s) + 1] = e
  BY <1>1, AppendProperties
<1>3. Len(s) \in Nat
  BY IsSeqLen
<1>4. IsSeq(Append(s, e))
  BY <1>2, SeqIsSeq
<1> QED BY <1>2, <1>3, <1>4

LEMMA IsSeqTail ==
  ASSUME NEW s, IsSeq(s), s # <<>>
  PROVE  /\ IsSeq(Tail(s)) /\ Len(s) >= 1 /\ Len(Tail(s)) = Len(s) - 1 /\ Head(s) = s[1]
         /\ \A i \in 1..(Len(s) - 1) : Tail(s)[i] = s[i + 1]
<1> DEFINE A == {s[i] : i \in DOMAIN s}
<1>1. s \in Seq(A)
  BY DEF IsSeq
<1> HIDE DEF A
<1>2. /\ Tail(s) \in Seq(A) /\ Len(Tail(s)) = Len(s) - 1
      /\ \A i \in 1..Len(Tail(s)) : Tail(s)[i] = s[i + 1]
  BY <1>1, HeadTailProperties
<1>3. Len(s) \in Nat \ {0}
  BY <1>1, EmptySeq
<1>4. Head(s) = s[1]
  BY <1>1
<1>5. IsSeq(Tail(s))
  BY <1>2, SeqIsSeq
<1> QED BY <1>2, <1>3, <1>4, <1>5

LEMMA IsSeqSub ==
  ASSUME NEW s, NEW m \in Int, NEW n \in Int
  PROVE  /\ IsSeq(SubSeq(s, m, n)) /\ Len(SubSeq(s, m, n)) = IF m <= n THEN n - m + 1 ELSE 0
         /\ \A i \in 1..(n - m + 1) : SubSeq(s, m, n)[i] = s[m + i - 1]
<1> DEFINE A == {s[i] : i \in m..n}
<1>1. \A i \in m..n : s[i] \in A
  OBVIOUS
<1> HIDE DEF A
<1>2. /\ SubSeq(s, m, n) \in Seq(A) /\ Len(SubSeq(s, m, n)) = IF m <= n THEN n - m + 1 ELSE 0
      /\ \A i \in 1..(n - m + 1) : SubSeq(s, m, n)[i] = s[m + i - 1]
  BY <1>1, SubSeqProperties
<1> QED BY <1>2, SeqIsSeq

\* Short sequences.
LEMMA Short ==
  ASSUME NEW a, NEW b, NEW c, NEW d, NEW e, NEW f, NEW g, NEW h, NEW k
  PROVE  /\ IsSeq(<<>>) /\ IsSeq(<<a>>) /\ IsSeq(<<a, b>>) /\ IsSeq(<<a, b, c>>) /\ IsSeq(<<a, b, c, d>>)
         /\ IsSeq(<<a, b, c, d, e>>) /\ IsSeq(<<a, b, c, d, e, f>>) /\ IsSeq(<<a, b, c, d, e, f, g>>)
         /\ IsSeq(<<a, b, c, d, e, f, g, h, k>>)
<1> DEFINE S == {a, b, c, d, e, f, g, h, k}
<1>1. /\ <<>> \in Seq(S) /\ <<a>> \in Seq(S) /\ <<a, b>> \in Seq(S) /\ <<a, b, c>> \in Seq(S)
      /\ <<a, b, c, d>> \in Seq(S) /\ <<a, b, c, d, e>> \in Seq(S)
  OBVIOUS
<1>2. /\ <<a, b, c, d, e, f>> \in Seq(S) /\ <<a, b, c, d, e, f, g>> \in Seq(S)
      /\ <<a, b, c, d, e, f, g, h, k>> \in Seq(S)
  OBVIOUS
<1> HIDE DEF S
<1> QED BY <1>1, <1>2, SeqIsSeq


-----------------------------------------------------------------------------
(***************************************************************************)
(* Induction over the numbers up to n, and functions defined by recursion  *)
(* over the elements of a sequence.                                        *)
(***************************************************************************)
LEMMA UpTo ==
  ASSUME NEW n \in Nat, NEW S, 0 \in S, \A i \in 0..(n - 1) : i \in S => i + 1 \in S
  PROVE  \A i \in 0..n : i \in S
<1> DEFINE C == {i \in 0..n : i \notin S}
<1> SUFFICES ASSUME C # {} PROVE FALSE
  OBVIOUS
<1> DEFINE R == OpToRel(<, Nat)
<1>1. C \subseteq Nat
  OBVIOUS
<1> HIDE DEF C
<1>2. \E x \in C : \A y \in C : ~(<<y, x>> \in R)
  BY <1>1, NatLessThanWellFounded, WFMin
<1>3. PICK x \in C : \A y \in C : ~(<<y, x>> \in R)
  BY <1>2
<1>4. \A y \in C : ~(y < x)
  BY <1>1, <1>3 DEF OpToRel
<1>5. x \in 0..n /\ x \notin S
  BY DEF C
<1>6. x # 0 /\ x - 1 \in 0..(n - 1) /\ x - 1 \in 0..n
  BY <1>5
<1>7. x - 1 \notin C
  BY <1>4, <1>5, <1>6
<1>8. x - 1 \in S
  BY <1>6, <1>7 DEF C
<1>9. (x - 1) + 1 = x
  BY <1>5
<1> QED BY <1>5, <1>6, <1>8, <1>9

LEMMA EmptyIsSeq ==
  ASSUME NEW s, IsSeq(s), Len(s) = 0
  PROVE  s = <<>>
<1>1. s \in Seq({s[i] : i \in DOMAIN s})
  BY DEF IsSeq
<1> QED BY <1>1, EmptySeq

\* A sequence given by its elements.
LEMMA MadeSeq ==
  ASSUME NEW n \in Nat, NEW s, s = [i \in 1..n |-> s[i]]
  PROVE  IsSeq(s) /\ Len(s) = n /\ DOMAIN s = 1..n
<1> DEFINE A == {s[i] : i \in 1..n}
<1>1. s \in [1..n -> A]
  OBVIOUS
<1> HIDE DEF A
<1>2. s \in Seq(A) /\ Len(s) = n
  BY <1>1, SeqDef, LenProperties
<1> QED BY <1>2, SeqIsSeq, IsSeqLen

LEMMA NoneIsSeq == IsSeq(<<>>) /\ Len(<<>>) = 0
<1>1. <<>> \in Seq({})
  OBVIOUS
<1> QED BY <1>1, SeqIsSeq

LEMMA EmptyConcat ==
  ASSUME NEW s, IsSeq(s)
  PROVE  <<>> \o s = s /\ s \o <<>> = s
<1>1. s \in Seq({s[i] : i \in DOMAIN s})
  BY DEF IsSeq
<1> QED BY <1>1

\* The defining equation of FlattenSeq: the elements are put together one by one.
LEMMA Flattened ==
  ASSUME NEW q, IsSeq(q), \A i \in 1..Len(q) : IsSeq(q[i])
  PROVE  \E f : /\ f[0] = <<>> /\ f[Len(q)] = FlattenSeq(q)
               /\ \A i \in 1..Len(q) : f[i] = f[i - 1] \o q[i]
<1> DEFINE n == Len(q)
<1>1. n \in Nat
  BY IsSeqLen
<1>2. CASE n = 0
  <2>1. q = <<>> /\ FlattenSeq(q) = q
    BY <1>2, EmptyIsSeq DEF FlattenSeq
  <2> DEFINE f == [i \in {0} |-> <<>>]
  <2>2. f[0] = <<>>
    OBVIOUS
  <2> HIDE DEF f
  <2> QED BY <1>2, <2>1, <2>2
<1>3. CASE n # 0
  <2> DEFINE Rec(g, k) == g = [i \in 1..k |-> IF i = 1 THEN q[i] ELSE g[i - 1] \o q[i]]
             S == {k \in 0..n : \E g : Rec(g, k)}
  <2>1. 0 \in S
    <3> DEFINE g == [i \in 1..0 |-> q]
    <3>1. Rec(g, 0)
      OBVIOUS
    <3> HIDE DEF g, Rec
    <3> QED BY <1>1, <3>1
  <2>2. ASSUME NEW k \in 0..(n - 1), k \in S PROVE k + 1 \in S
    <3>1. PICK g : Rec(g, k)
      BY <2>2
    <3> DEFINE h == [i \in 1..(k + 1) |-> IF i <= k THEN g[i] ELSE IF i = 1 THEN q[i] ELSE g[i - 1] \o q[i]]
    <3>2. \A i \in 1..k : g[i] = IF i = 1 THEN q[i] ELSE g[i - 1] \o q[i]
      BY <3>1
    <3>3. \A i \in 1..(k + 1) : h[i] = IF i = 1 THEN q[i] ELSE h[i - 1] \o q[i]
      <4> SUFFICES ASSUME NEW i \in 1..(k + 1) PROVE h[i] = IF i = 1 THEN q[i] ELSE h[i - 1] \o q[i]
        OBVIOUS
      <4>1. i # 1 => i - 1 \in 1..(k + 1) /\ i - 1 <= k
        BY <1>1, <2>2
      <4>2. i # 1 => h[i - 1] = g[i - 1]
        BY <4>1
      <4>3. CASE i <= k
        BY <3>2, <4>2, <4>3, <1>1, <2>2
      <4>4. CASE ~(i <= k)
        BY <4>2, <4>4
      <4> QED BY <4>3, <4>4
    <3>4. h = [i \in 1..(k + 1) |-> h[i]]
      OBVIOUS
    <3> HIDE DEF h
    <3>5. Rec(h, k + 1)
      BY <3>3, <3>4
    <3> HIDE DEF Rec
    <3> QED BY <1>1, <2>2, <3>5
  <2> HIDE DEF S
  <2>3. \A k \in 0..n : k \in S
    BY <1>1, <2>1, <2>2, UpTo
  <2>4. n \in S
    BY <1>1, <2>3
  <2> DEFINE F == CHOOSE g : Rec(g, n)
  <2>5. Rec(F, n)
    <3>1. \E g : Rec(g, n)
      BY <2>4 DEF S
    <3> HIDE DEF Rec
    <3> QED BY <3>1
  <2>6. FlattenSeq(q) = F[n]
    BY <1>3 DEF FlattenSeq
  <2> HIDE DEF F
  <2>7. \A i \in 1..n : F[i] = IF i = 1 THEN q[i] ELSE F[i - 1] \o q[i]
    BY <2>5
  <2> HIDE DEF Rec
  <2> DEFINE f == [i \in 0..n |-> IF i = 0 THEN <<>> ELSE F[i]]
  <2>8. f[0] = <<>> /\ f[n] = F[n]
    BY <1>1, <1>3
  <2>9. ASSUME NEW i \in 1..n PROVE f[i] = f[i - 1] \o q[i]
    <3>1. CASE i = 1
      <4>1. f[1] = q[1] /\ f[0] = <<>>
        BY <1>1, <2>7, <3>1
      <4> HIDE DEF f
      <4>2. 1 - 1 = 0
        OBVIOUS
      <4>3. IsSeq(q[1])
        BY <2>9, <3>1
      <4> QED BY <3>1, <4>1, <4>2, <4>3, EmptyConcat
    <3>2. CASE i # 1
      <4>1. i - 1 \in 0..n /\ i - 1 # 0 /\ i \in 0..n /\ i # 0
        BY <1>1, <3>2
      <4> QED BY <2>7, <3>2, <4>1
    <3> QED BY <3>1, <3>2
  <2> HIDE DEF f
  <2> QED BY <2>6, <2>8, <2>9
<1> QED BY <1>2, <1>3

LEMMA ConcatAssociates ==
  ASSUME NEW s, IsSeq(s), NEW t, IsSeq(t), NEW u, IsSeq(u)
  PROVE  s \o (t \o u) = (s \o t) \o u
<1>1. PICK S : s \in Seq(S) /\ t \in Seq(S)
  BY InOneSet
<1>2. IsSeq(s \o t) /\ IsSeq(u)
  BY IsSeqConcat
<1> DEFINE A == S \cup {u[i] : i \in DOMAIN u}
<1>3. s \in Seq(A) /\ t \in Seq(A) /\ u \in Seq(A)
  <2>1. u \in Seq({u[i] : i \in DOMAIN u}) /\ S \subseteq A /\ {u[i] : i \in DOMAIN u} \subseteq A
    BY DEF IsSeq
  <2> QED BY <1>1, <2>1, SeqMonotonic
<1> HIDE DEF A
<1> QED BY <1>3, ConcatAssociative

-----------------------------------------------------------------------------
(***************************************************************************)
(* Sizes on the stack.                                                     *)
(***************************************************************************)
LEMMA SlotsOfSize ==
  ASSUME NEW x \in Variable, NEW val
  PROVE  IsSeq(SlotsOf(x, val)) /\ Len(SlotsOf(x, val)) = x.size /\ x.size \in {1, 2}
<1>1. x.size \in {1, 2}
  BY DEF Variable
<1>2. SlotsOf(x, val) = [i \in 1..x.size |-> SlotsOf(x, val)[i]]
  BY DEF SlotsOf
<1> QED BY <1>1, <1>2, MadeSeq

\* The size of the first i variables is the sum of the sizes, whatever the values.
LEMMA PartialSizes ==
  ASSUME NEW xs \in Seq(Variable), NEW val
  PROVE  /\ IsSeq(AllSlots(xs, val)) /\ Len(AllSlots(xs, val)) \in Nat
         /\ \E p : /\ p[0] = 0 /\ p[Len(xs)] = Len(AllSlots(xs, val))
                   /\ \A i \in 1..Len(xs) : p[i] = p[i - 1] + xs[i].size
                   /\ \A i \in 0..Len(xs) : p[i] \in Nat
<1> DEFINE n == Len(xs)
           q == [i \in 1..n |-> SlotsOf(xs[i], val)]
<1>1. n \in Nat /\ \A i \in 1..n : xs[i] \in Variable
  BY ElementOfSeq, LenProperties
<1>2. q = [i \in 1..n |-> q[i]]
  OBVIOUS
<1>3. \A i \in 1..n : q[i] = SlotsOf(xs[i], val)
  OBVIOUS
<1> HIDE DEF q
<1>4. IsSeq(q) /\ Len(q) = n
  BY <1>1, <1>2, MadeSeq
<1>5. \A i \in 1..n : IsSeq(q[i]) /\ Len(q[i]) = xs[i].size /\ xs[i].size \in {1, 2}
  BY <1>1, <1>3, SlotsOfSize
<1> HIDE DEF n
<1>0. \E f : f[0] = <<>> /\ f[Len(q)] = FlattenSeq(q) /\ \A i \in 1..Len(q) : f[i] = f[i - 1] \o q[i]
  <2>1. \A i \in 1..Len(q) : IsSeq(q[i])
    BY <1>4, <1>5
  <2> QED BY <1>4, <2>1, Flattened
<1>6. PICK f : f[0] = <<>> /\ f[n] = FlattenSeq(q) /\ \A i \in 1..n : f[i] = f[i - 1] \o q[i]
  BY <1>0, <1>4
<1>7. AllSlots(xs, val) = f[n]
  BY <1>6 DEF AllSlots, q, n
<1> DEFINE S == {i \in 0..n : IsSeq(f[i])}
<1>8. 0 \in S
  BY <1>1, <1>6, NoneIsSeq
<1>9. ASSUME NEW i \in 0..(n - 1), i \in S PROVE i + 1 \in S
  <2>1. i + 1 \in 1..n /\ (i + 1) - 1 = i /\ i + 1 \in 0..n
    BY <1>1
  <2>2. f[i + 1] = f[i] \o q[i + 1]
    BY <1>6, <2>1
  <2>3. IsSeq(f[i + 1])
    BY <1>5, <1>9, <2>1, <2>2, IsSeqConcat
  <2> QED BY <2>1, <2>3
<1> HIDE DEF S
<1>10. \A i \in 0..n : i \in S
  BY <1>1, <1>8, <1>9, UpTo
<1>11. \A i \in 0..n : IsSeq(f[i])
  BY <1>10 DEF S
<1> DEFINE p == [i \in 0..n |-> Len(f[i])]
<1>12. \A i \in 0..n : p[i] = Len(f[i])
  OBVIOUS
<1> HIDE DEF p
<1>13. \A i \in 0..n : p[i] \in Nat
  BY <1>11, <1>12, IsSeqLen
<1>14. ASSUME NEW i \in 1..n PROVE p[i] = p[i - 1] + xs[i].size
  <2>1. i \in 0..n /\ i - 1 \in 0..n
    BY <1>1
  <2>2. f[i] = f[i - 1] \o q[i] /\ IsSeq(f[i - 1])
    BY <1>6, <1>11, <2>1
  <2>3. Len(f[i]) = Len(f[i - 1]) + Len(q[i])
    BY <1>5, <2>2, IsSeqConcat
  <2> QED BY <1>5, <1>12, <2>1, <2>3
<1>15. p[0] = 0 /\ p[n] = Len(AllSlots(xs, val))
  <2>1. Len(<<>>) = 0
    OBVIOUS
  <2> QED BY <1>1, <1>6, <1>7, <1>12, <2>1
<1>16. IsSeq(AllSlots(xs, val)) /\ Len(AllSlots(xs, val)) \in Nat
  BY <1>1, <1>7, <1>11, IsSeqLen
<1> QED BY <1>13, <1>14, <1>15, <1>16 DEF n

LEMMA SameSize ==
  ASSUME NEW xs \in Seq(Variable), NEW val
  PROVE  /\ IsSeq(AllSlots(xs, val)) /\ Len(AllSlots(xs, val)) = SizeOnStack(xs)
         /\ SizeOnStack(xs) \in Nat
<1>1. /\ IsSeq(AllSlots(xs, val)) /\ Len(AllSlots(xs, val)) \in Nat
      /\ \E p : /\ p[0] = 0 /\ p[Len(xs)] = Len(AllSlots(xs, val))
                /\ \A i \in 1..Len(xs) : p[i] = p[i - 1] + xs[i].size
                /\ \A i \in 0..Len(xs) : p[i] \in Nat
  BY PartialSizes
<1>2. PICK p : /\ p[0] = 0 /\ p[Len(xs)] = Len(AllSlots(xs, val))
               /\ \A i \in 1..Len(xs) : p[i] = p[i - 1] + xs[i].size
               /\ \A i \in 0..Len(xs) : p[i] \in Nat
  BY <1>1
<1>3. PICK z : /\ z[0] = 0 /\ z[Len(xs)] = Len(AllSlots(xs, "zero"))
               /\ \A i \in 1..Len(xs) : z[i] = z[i - 1] + xs[i].size
               /\ \A i \in 0..Len(xs) : z[i] \in Nat
  BY PartialSizes
<1>4. Len(AllSlots(xs, "zero")) \in Nat /\ Len(xs) \in Nat
  BY PartialSizes, LenProperties
<1> DEFINE S == {i \in 0..Len(xs) : p[i] = z[i]}
<1>5. 0 \in S
  BY <1>2, <1>3, <1>4
<1>6. ASSUME NEW i \in 0..(Len(xs) - 1), i \in S PROVE i + 1 \in S
  <2>1. i + 1 \in 1..Len(xs) /\ (i + 1) - 1 = i /\ i + 1 \in 0..Len(xs)
    BY <1>4
  <2> QED BY <1>2, <1>3, <1>6, <2>1
<1> HIDE DEF S
<1>7. \A i \in 0..Len(xs) : i \in S
  BY <1>4, <1>5, <1>6, UpTo
<1>8. p[Len(xs)] = z[Len(xs)]
  BY <1>4, <1>7 DEF S
<1> QED BY <1>1, <1>2, <1>3, <1>4, <1>8 DEF SizeOnStack

LEMMA SizesAddUp ==
  ASSUME NEW xs \in Seq(Variable)
  PROVE  \E p : /\ p[0] = 0 /\ p[Len(xs)] = SizeOnStack(xs)
                /\ \A i \in 1..Len(xs) : p[i] = p[i - 1] + xs[i].size
                /\ \A i \in 0..Len(xs) : p[i] \in Nat
BY PartialSizes DEF SizeOnStack

-----------------------------------------------------------------------------
(***************************************************************************)
(* What the compiler assumes of the code, step by step.                    *)
(*                                                                         *)
(* T gives the height that the stack has at each tag.  A point in the      *)
(* compilation is described by a record of h, the counter of the compiler, *)
(* g, the height that the stack of the machine has there (plus the         *)
(* surplus), and the fields of the compiler that tasks look at.            *)
(***************************************************************************)
Unknown == -1     \* once the frame is being removed, heights are not followed
Nowhere == -2     \* behind the last instruction

\* Instruction c may stand where the height is g, with the height next behind it.
Here(f, c, g) == g \in Int /\ g >= Surplus(f) /\ g = c.h
Fits(f, T, c, g, next) ==
    /\ c.op \in {"push", "pop", "dup", "swap", "tag", "jump", "jumpi", "trycall", "revert", "out", "end"}
    /\ c.op \notin {"tag", "out", "end"} => Here(f, c, g)
    /\ c.op = "push" => IsSeq(c.vals) /\ next \in {g + Len(c.vals), Unknown}
    /\ c.op = "pop" => c.n \in Nat /\ g - c.n >= Surplus(f) /\ next \in {g - c.n, Unknown}
    /\ c.op = "dup" => next \in {g + 1, Unknown}
    /\ c.op = "swap" => next \in {g, Unknown}
    /\ c.op = "tag" => /\ c.n \in DOMAIN T /\ T[c.n] = g /\ g \in Int /\ g >= Surplus(f)
                       /\ next \in {g, Unknown}
    /\ c.op = "jump" => c.n \in DOMAIN T /\ T[c.n] = g
    /\ c.op = "jumpi" => /\ c.n \in DOMAIN T /\ T[c.n] = g - 1 /\ g - 1 >= Surplus(f)
                         /\ next \in {g - 1, Unknown}
    /\ c.op = "trycall" => /\ IsSeq(c.vals) /\ c.n \in DOMAIN T /\ T[c.n] = g + Len(c.vals)
                           /\ next \in {g, Unknown}

\* The entries of the stacks of tags: where to jump to, and with which height.
Entries(f, T) == {e \in [tag : DOMAIN T, height : Int] : e.height = T[e.tag] /\ e.height >= Surplus(f)}
ScopeRecords == [depth : Int, node : Node, height : Int]
Points(f, T) ==
    [h : Int, g : Int, sc : SUBSET ScopeRecords, br : Seq(Entries(f, T)), co : Seq(Entries(f, T)),
     re : Seq(Entries(f, T)), depth : Int]
Good(f, T, a) ==
    /\ a \in Points(f, T)
    /\ \A e \in a.sc : e.depth <= a.depth /\ e.height >= Surplus(f)

\* Points that differ from point a in some fields.
Point(h, g, sc, br, co, re, d) ==
    [h |-> h, g |-> g, sc |-> sc, br |-> br, co |-> co, re |-> re, depth |-> d]
At(a, h, g) == Point(h, g, a.sc, a.br, a.co, a.re, a.depth)
Move(a, d) == At(a, a.h + d, a.g + d)
WithScopes(a, sc) == Point(a.h, a.g, sc, a.br, a.co, a.re, a.depth)
WithLoops(a, br, co) == Point(a.h, a.g, a.sc, br, co, a.re, a.depth)
WithReturns(a, re) == Point(a.h, a.g, a.sc, a.br, a.co, re, a.depth)
WithDepth(a, d) == Point(a.h, a.g, a.sc, a.br, a.co, a.re, d)

Sync(f, a) == a.g = a.h /\ a.h >= Surplus(f)
StatementSize(s) == IF s.kind = "declare" THEN SizeOnStack(s.vars) ELSE 0

\* A task leads from point a to point b.
Step(f, T, t, a, b) ==
    /\ t.do \in {"visit", "emit", "adjust", "check", "addVariable", "removeVariable", "closeClause",
                 "openScope", "closeScope", "openLoop", "closeLoop", "openReturn", "closeReturn",
                 "leave", "assign", "read", "codeBlock", "leaveDepth", "cleanup", "finish"}
    /\ t.do \notin {"emit", "adjust", "addVariable", "removeVariable", "finish"} => Sync(f, a)
    /\ t.do = "visit" => /\ t.s \in Statements /\ a.re # <<>> /\ a.depth >= -1
                         /\ \A e \in a.sc : e.depth = a.depth => e.node \notin ScopesIn[t.s]
                         /\ b = Move(a, StatementSize(t.s))
    /\ t.do = "emit" => /\ Fits(f, T, [op |-> t.op, n |-> t.n, vals |-> t.vals, h |-> a.h], a.g, b.g)
                        /\ b.g \in Int /\ b.h \in Int /\ b = At(a, b.h, b.g)
                        /\ IF t.op \in {"out", "end"} THEN b.g = Nowhere ELSE b.h = a.h + Delta(t)
    /\ t.do = "adjust" => t.n \in Int /\ b = At(a, a.h + t.n, a.g)
    /\ t.do = "check" => t.h = a.h /\ b = a
    /\ t.do \in {"addVariable", "removeVariable"} => b = a
    /\ t.do = "closeClause" => t.n \in Nat /\ a.h - t.n >= Surplus(f) /\ b = Move(a, 0 - t.n)
    /\ t.do = "openScope" =>
          /\ t.node \in Node
          /\ \A e \in a.sc : ~(e.depth = a.depth /\ e.node = t.node)
          /\ b = WithScopes(a, a.sc \cup {[depth |-> a.depth, node |-> t.node, height |-> a.h]})
    /\ t.do = "closeScope" =>
          \E e \in a.sc : /\ e.depth = a.depth /\ e.node = t.node
                          /\ \A x \in a.sc : x.depth = a.depth /\ x.node = t.node => x = e
                          /\ b = At(WithScopes(a, a.sc \ {e}), e.height, e.height)
    /\ t.do = "openLoop" =>
          /\ {t.b, t.c} \subseteq DOMAIN T /\ T[t.b] = a.h /\ T[t.c] = a.h
          /\ b = WithLoops(a, Append(a.br, [tag |-> t.b, height |-> a.h]),
                             Append(a.co, [tag |-> t.c, height |-> a.h]))
    /\ t.do = "closeLoop" =>
          a.br # <<>> /\ a.co # <<>> /\ b = WithLoops(a, Front(a.br), Front(a.co))
    /\ t.do = "openReturn" =>
          /\ t.t \in DOMAIN T /\ T[t.t] = a.h
          /\ b = WithReturns(a, Append(a.re, [tag |-> t.t, height |-> a.h]))
    /\ t.do = "closeReturn" => a.re # <<>> /\ b = WithReturns(a, Front(a.re))
    /\ t.do = "leave" => t.entry \in Entries(f, T) /\ b = a
    /\ t.do = "assign" => t.x \in Variable /\ a.h - t.x.size >= Surplus(f) /\ b = Move(a, 0 - t.x.size)
    /\ t.do = "read" => t.x \in Variable /\ b = Move(a, t.x.size)
    /\ t.do = "codeBlock" => a.depth >= -1 /\ b = a
    /\ t.do = "leaveDepth" => (\A e \in a.sc : e.depth < a.depth) /\ b = WithDepth(a, a.depth - 1)
    /\ t.do = "cleanup" => /\ IsSeq(t.layout)
                           /\ Len(t.layout) <= a.h - Surplus(f) \/ t.layout = <<1>>
                           /\ b.h \in Int /\ b = At(a, b.h, Unknown)
    /\ t.do = "finish" => a.g = Unknown /\ b = At(a, a.h, Nowhere)

\* A list of tasks leads from point a to point b.
Flow(f, T, ts, a, b) ==
    /\ IsSeq(ts)
    /\ \E w : /\ w[1] = a /\ w[Len(ts) + 1] = b
              /\ \A k \in 1..Len(ts) : Step(f, T, ts[k], w[k], w[k + 1])

LEMMA FlowNone ==
  ASSUME NEW f, NEW T, NEW a
  PROVE  Flow(f, T, <<>>, a, a)
<1>1. IsSeq(<<>>) /\ Len(<<>>) = 0
  BY NoneIsSeq
<1> DEFINE w == [k \in {1} |-> a]
<1>2. w[1] = a /\ w[0 + 1] = a
  OBVIOUS
<1> HIDE DEF w
<1>3. \A k \in 1..0 : Step(f, T, <<>>[k], w[k], w[k + 1])
  OBVIOUS
<1> QED BY <1>1, <1>2, <1>3 DEF Flow

LEMMA FlowConcat ==
  ASSUME NEW f, NEW T, NEW ts, NEW us, NEW a, NEW b, NEW c, Flow(f, T, ts, a, b), Flow(f, T, us, b, c)
  PROVE  Flow(f, T, ts \o us, a, c)
<1> DEFINE m == Len(ts)
           n == Len(us)
           s == ts \o us
<1>1. /\ IsSeq(ts) /\ IsSeq(us) /\ m \in Nat /\ n \in Nat
      /\ IsSeq(s) /\ Len(s) = m + n
      /\ \A i \in 1..(m + n) : s[i] = IF i <= m THEN ts[i] ELSE us[i - m]
  BY IsSeqLen, IsSeqConcat DEF Flow
<1>2. PICK v : /\ v[1] = a /\ v[m + 1] = b
               /\ \A k \in 1..m : Step(f, T, ts[k], v[k], v[k + 1])
  BY DEF Flow
<1>3. PICK w : /\ w[1] = b /\ w[n + 1] = c
               /\ \A k \in 1..n : Step(f, T, us[k], w[k], w[k + 1])
  BY DEF Flow
<1> HIDE DEF m, n, s
<1> DEFINE u == [k \in 1..(m + n + 1) |-> IF k <= m + 1 THEN v[k] ELSE w[k - m]]
<1>4. \A k \in 1..(m + 1) : u[k] = v[k]
  BY <1>1
<1>5. \A k \in (m + 1)..(m + n + 1) : u[k] = w[k - m]
  <2> SUFFICES ASSUME NEW k \in (m + 1)..(m + n + 1) PROVE u[k] = w[k - m]
    OBVIOUS
  <2>1. CASE k = m + 1
    <3>1. k - m = 1 /\ k \in 1..(m + n + 1) /\ k <= m + 1
      BY <1>1, <2>1
    <3> QED BY <1>2, <1>3, <2>1, <3>1
  <2>2. CASE k # m + 1
    BY <1>1, <2>2
  <2> QED BY <2>1, <2>2
<1> HIDE DEF u
<1>6. u[1] = a
  BY <1>1, <1>2, <1>4
<1>7. u[m + n + 1] = c
  <2>1. m + n + 1 \in (m + 1)..(m + n + 1) /\ (m + n + 1) - m = n + 1
    BY <1>1
  <2> QED BY <1>3, <1>5, <2>1
<1>8. ASSUME NEW k \in 1..(m + n) PROVE Step(f, T, s[k], u[k], u[k + 1])
  <2>1. CASE k <= m
    <3>1. k \in 1..m /\ k \in 1..(m + 1) /\ k + 1 \in 1..(m + 1)
      BY <1>1, <2>1
    <3> QED BY <1>1, <1>2, <1>4, <2>1, <3>1
  <2>2. CASE ~(k <= m)
    <3>1. /\ k - m \in 1..n /\ k \in (m + 1)..(m + n + 1) /\ k + 1 \in (m + 1)..(m + n + 1)
          /\ (k + 1) - m = (k - m) + 1
      BY <1>1, <2>2
    <3>2. s[k] = us[k - m] /\ u[k] = w[k - m] /\ u[k + 1] = w[(k - m) + 1]
      BY <1>1, <1>5, <2>2, <3>1
    <3> QED BY <1>3, <3>1, <3>2
  <2> QED BY <2>1, <2>2
<1> QED BY <1>1, <1>6, <1>7, <1>8 DEF Flow, s

LEMMA FlowHead ==
  ASSUME NEW f, NEW T, NEW ts, NEW a, NEW c, Flow(f, T, ts, a, c), ts # <<>>
  PROVE  \E b : Step(f, T, Head(ts), a, b) /\ Flow(f, T, Tail(ts), b, c)
<1>1. /\ IsSeq(Tail(ts)) /\ Len(ts) >= 1 /\ Len(Tail(ts)) = Len(ts) - 1 /\ Head(ts) = ts[1]
      /\ \A i \in 1..(Len(ts) - 1) : Tail(ts)[i] = ts[i + 1]
      /\ Len(ts) \in Nat
  BY IsSeqTail, IsSeqLen DEF Flow
<1>2. PICK w : /\ w[1] = a /\ w[Len(ts) + 1] = c
               /\ \A k \in 1..Len(ts) : Step(f, T, ts[k], w[k], w[k + 1])
  BY DEF Flow
<1> DEFINE v == [k \in 1..Len(ts) |-> w[k + 1]]
<1>3. \A k \in 1..Len(ts) : v[k] = w[k + 1]
  OBVIOUS
<1> HIDE DEF v
<1>4. v[1] = w[2] /\ v[Len(Tail(ts)) + 1] = c
  BY <1>1, <1>2, <1>3
<1>5. ASSUME NEW k \in 1..Len(Tail(ts)) PROVE Step(f, T, Tail(ts)[k], v[k], v[k + 1])
  <2>1. k \in 1..(Len(ts) - 1) /\ k \in 1..Len(ts) /\ k + 1 \in 1..Len(ts)
    BY <1>1
  <2> QED BY <1>1, <1>2, <1>3, <2>1
<1>6. Flow(f, T, Tail(ts), w[2], c)
  BY <1>1, <1>4, <1>5 DEF Flow
<1>7. Step(f, T, Head(ts), a, w[2])
  BY <1>1, <1>2
<1> QED BY <1>6, <1>7

LEMMA Chain1 ==
  ASSUME NEW f, NEW T, NEW t1,
         NEW a0, NEW a1,
         Step(f, T, t1, a0, a1)
  PROVE  Flow(f, T, <<t1>>, a0, a1)
<1> DEFINE s == <<t1>>
           w == <<a0, a1>>
<1>1. IsSeq(s) /\ Len(s) = 1
  BY Short
<1>2. w[1] = a0 /\ w[1 + 1] = a1
  OBVIOUS
<1>3. \A k \in 1..1 : Step(f, T, s[k], w[k], w[k + 1])
  OBVIOUS
<1> HIDE DEF s, w
<1>4. Flow(f, T, s, a0, a1)
  BY <1>1, <1>2, <1>3 DEF Flow
<1> QED BY <1>4 DEF s

LEMMA Chain2 ==
  ASSUME NEW f, NEW T, NEW t1, NEW t2,
         NEW a0, NEW a1, NEW a2,
         Step(f, T, t1, a0, a1), Step(f, T, t2, a1, a2)
  PROVE  Flow(f, T, <<t1, t2>>, a0, a2)
<1> DEFINE s == <<t1, t2>>
           w == <<a0, a1, a2>>
<1>1. IsSeq(s) /\ Len(s) = 2
  BY Short
<1>2. w[1] = a0 /\ w[2 + 1] = a2
  OBVIOUS
<1>3. \A k \in 1..2 : Step(f, T, s[k], w[k], w[k + 1])
  OBVIOUS
<1> HIDE DEF s, w
<1>4. Flow(f, T, s, a0, a2)
  BY <1>1, <1>2, <1>3 DEF Flow
<1> QED BY <1>4 DEF s

LEMMA Chain3 ==
  ASSUME NEW f, NEW T, NEW t1, NEW t2, NEW t3,
         NEW a0, NEW a1, NEW a2, NEW a3,
         Step(f, T, t1, a0, a1), Step(f, T, t2, a1, a2), Step(f, T, t3, a2, a3)
  PROVE  Flow(f, T, <<t1, t2, t3>>, a0, a3)
<1> DEFINE s == <<t1, t2, t3>>
           w == <<a0, a1, a2, a3>>
<1>1. IsSeq(s) /\ Len(s) = 3
  BY Short
<1>2. w[1] = a0 /\ w[3 + 1] = a3
  OBVIOUS
<1>3. \A k \in 1..3 : Step(f, T, s[k], w[k], w[k + 1])
  OBVIOUS
<1> HIDE DEF s, w
<1>4. Flow(f, T, s, a0, a3)
  BY <1>1, <1>2, <1>3 DEF Flow
<1> QED BY <1>4 DEF s

LEMMA Chain5 ==
  ASSUME NEW f, NEW T, NEW t1, NEW t2, NEW t3, NEW t4, NEW t5,
         NEW a0, NEW a1, NEW a2, NEW a3, NEW a4, NEW a5,
         Step(f, T, t1, a0, a1), Step(f, T, t2, a1, a2), Step(f, T, t3, a2, a3), Step(f, T, t4, a3, a4),
         Step(f, T, t5, a4, a5)
  PROVE  Flow(f, T, <<t1, t2, t3, t4, t5>>, a0, a5)
<1> DEFINE s == <<t1, t2, t3, t4, t5>>
           w == <<a0, a1, a2, a3, a4, a5>>
<1>1. IsSeq(s) /\ Len(s) = 5
  BY Short
<1>2. w[1] = a0 /\ w[5 + 1] = a5
  OBVIOUS
<1>3. \A k \in 1..5 : Step(f, T, s[k], w[k], w[k + 1])
  OBVIOUS
<1> HIDE DEF s, w
<1>4. Flow(f, T, s, a0, a5)
  BY <1>1, <1>2, <1>3 DEF Flow
<1> QED BY <1>4 DEF s

LEMMA Chain7 ==
  ASSUME NEW f, NEW T, NEW t1, NEW t2, NEW t3, NEW t4, NEW t5, NEW t6, NEW t7,
         NEW a0, NEW a1, NEW a2, NEW a3, NEW a4, NEW a5, NEW a6, NEW a7,
         Step(f, T, t1, a0, a1), Step(f, T, t2, a1, a2), Step(f, T, t3, a2, a3), Step(f, T, t4, a3, a4),
         Step(f, T, t5, a4, a5), Step(f, T, t6, a5, a6), Step(f, T, t7, a6, a7)
  PROVE  Flow(f, T, <<t1, t2, t3, t4, t5, t6, t7>>, a0, a7)
<1> DEFINE s == <<t1, t2, t3, t4, t5, t6, t7>>
           w == <<a0, a1, a2, a3, a4, a5, a6, a7>>
<1>1. IsSeq(s) /\ Len(s) = 7
  BY Short
<1>2. w[1] = a0 /\ w[7 + 1] = a7
  OBVIOUS
<1>3. \A k \in 1..7 : Step(f, T, s[k], w[k], w[k + 1])
  OBVIOUS
<1> HIDE DEF s, w
<1>4. Flow(f, T, s, a0, a7)
  BY <1>1, <1>2, <1>3 DEF Flow
<1> QED BY <1>4 DEF s

LEMMA Chain9 ==
  ASSUME NEW f, NEW T, NEW t1, NEW t2, NEW t3, NEW t4, NEW t5, NEW t6, NEW t7, NEW t8, NEW t9,
         NEW a0, NEW a1, NEW a2, NEW a3, NEW a4, NEW a5, NEW a6, NEW a7, NEW a8, NEW a9,
         Step(f, T, t1, a0, a1), Step(f, T, t2, a1, a2), Step(f, T, t3, a2, a3), Step(f, T, t4, a3, a4),
         Step(f, T, t5, a4, a5), Step(f, T, t6, a5, a6), Step(f, T, t7, a6, a7), Step(f, T, t8, a7, a8),
         Step(f, T, t9, a8, a9)
  PROVE  Flow(f, T, <<t1, t2, t3, t4, t5, t6, t7, t8, t9>>, a0, a9)
<1> DEFINE s == <<t1, t2, t3, t4, t5, t6, t7, t8, t9>>
           w == <<a0, a1, a2, a3, a4, a5, a6, a7, a8, a9>>
<1>1. IsSeq(s) /\ Len(s) = 9
  BY Short
<1>2. w[1] = a0 /\ w[9 + 1] = a9
  OBVIOUS
<1>3. \A k \in 1..9 : Step(f, T, s[k], w[k], w[k + 1])
  OBVIOUS
<1> HIDE DEF s, w
<1>4. Flow(f, T, s, a0, a9)
  BY <1>1, <1>2, <1>3 DEF Flow
<1> QED BY <1>4 DEF s

-----------------------------------------------------------------------------
(***************************************************************************)
(* Points, and the steps of single tasks.                                  *)
(***************************************************************************)
Shaped(a) ==
    /\ a = [h |-> a.h, g |-> a.g, sc |-> a.sc, br |-> a.br, co |-> a.co, re |-> a.re, depth |-> a.depth]
    /\ a.h \in Int /\ a.g \in Int /\ a.depth \in Int

LEMMA GoodShaped ==
  ASSUME NEW f, NEW T, NEW a, Good(f, T, a)
  PROVE  Shaped(a)
BY DEF Good, Points, Shaped

LEMMA SamePoint ==
  ASSUME NEW a, NEW b, Shaped(a), Shaped(b), a.h = b.h, a.g = b.g, a.sc = b.sc, a.br = b.br,
         a.co = b.co, a.re = b.re, a.depth = b.depth
  PROVE  a = b
BY DEF Shaped

LEMMA PointShaped ==
  ASSUME NEW h \in Int, NEW g \in Int, NEW sc, NEW br, NEW co, NEW re, NEW d \in Int
  PROVE  LET p == Point(h, g, sc, br, co, re, d)
         IN /\ Shaped(p) /\ p.h = h /\ p.g = g /\ p.sc = sc /\ p.br = br /\ p.co = co /\ p.re = re
            /\ p.depth = d
BY DEF Point, Shaped

LEMMA AtShape ==
  ASSUME NEW a, Shaped(a), NEW h \in Int, NEW g \in Int
  PROVE  /\ Shaped(At(a, h, g)) /\ At(a, h, g).h = h /\ At(a, h, g).g = g
         /\ At(a, h, g).sc = a.sc /\ At(a, h, g).br = a.br /\ At(a, h, g).co = a.co
         /\ At(a, h, g).re = a.re /\ At(a, h, g).depth = a.depth
BY PointShaped DEF At, Shaped

LEMMA MoveShape ==
  ASSUME NEW a, Shaped(a), NEW d \in Int
  PROVE  /\ Shaped(Move(a, d))
         /\ Move(a, d).h = a.h + d /\ Move(a, d).g = a.g + d /\ Move(a, d).sc = a.sc
         /\ Move(a, d).br = a.br /\ Move(a, d).co = a.co /\ Move(a, d).re = a.re
         /\ Move(a, d).depth = a.depth
<1>1. Move(a, d) = At(a, a.h + d, a.g + d)
  BY DEF Move
<1>2. a.h + d \in Int /\ a.g + d \in Int
  BY DEF Shaped
<1> QED BY <1>1, <1>2, AtShape

LEMMA MoveZero ==
  ASSUME NEW a, Shaped(a)
  PROVE  Move(a, 0) = a
<1>1. a.h + 0 = a.h /\ a.g + 0 = a.g
  BY DEF Shaped
<1> QED BY <1>1, MoveShape, SamePoint

LEMMA MoveTwice ==
  ASSUME NEW a, Shaped(a), NEW d \in Int, NEW e \in Int
  PROVE  Move(Move(a, d), e) = Move(a, d + e)
<1> DEFINE b == Move(a, d)
           c == Move(a, d + e)
<1>1. Shaped(b) /\ Shaped(Move(b, e)) /\ Shaped(c)
  BY MoveShape
<1>2. (a.h + d) + e = a.h + (d + e) /\ (a.g + d) + e = a.g + (d + e)
  BY DEF Shaped
<1>0. b.h = a.h + d /\ b.g = a.g + d /\ d + e \in Int
  BY MoveShape
<1> HIDE DEF b
<1>3. /\ Move(b, e).h = c.h /\ Move(b, e).g = c.g
  <2>1. Move(b, e).h = b.h + e /\ Move(b, e).g = b.g + e
    BY <1>1, MoveShape
  <2>2. c.h = a.h + (d + e) /\ c.g = a.g + (d + e)
    BY <1>0, MoveShape
  <2> QED BY <1>0, <1>2, <2>1, <2>2
<1> USE DEF b
<1>4. /\ Move(b, e).sc = c.sc /\ Move(b, e).br = c.br /\ Move(b, e).co = c.co
      /\ Move(b, e).re = c.re /\ Move(b, e).depth = c.depth
  BY <1>1, MoveShape
<1> HIDE DEF b, c
<1>5. Move(b, e) = c
  BY <1>1, <1>3, <1>4, SamePoint
<1> QED BY <1>5 DEF b, c

LEMMA MoveSync ==
  ASSUME NEW f, NEW a, Shaped(a), Sync(f, a), NEW d \in Int, a.h + d >= Surplus(f)
  PROVE  Sync(f, Move(a, d))
BY MoveShape DEF Sync

LEMMA SurplusType ==
  ASSUME NEW f \in Programs
  PROVE  Surplus(f) \in Nat
<1>1. f.params \in Seq(Variable)
  BY ProgramsAssumption
<1> QED BY <1>1, SameSize DEF Surplus

\* Instructions.
LEMMA EmitMove ==
  ASSUME NEW f, NEW T, NEW t, t.do = "emit", t.op \notin {"out", "end"}, NEW a, Shaped(a), NEW d \in Int, Delta(t) = d,
         Fits(f, T, [op |-> t.op, n |-> t.n, vals |-> t.vals, h |-> a.h], a.g, a.g + d)
  PROVE  Step(f, T, t, a, Move(a, d))
<1> DEFINE b == Move(a, d)
<1>1. Shaped(b) /\ b.h = a.h + d /\ b.g = a.g + d
  BY MoveShape
<1>2. b = At(a, b.h, b.g)
  BY <1>1 DEF Move
<1> HIDE DEF b
<1>3. Step(f, T, t, a, b)
  BY <1>1, <1>2 DEF Step, Shaped
<1> QED BY <1>3 DEF b

LEMMA StepPush ==
  ASSUME NEW f, NEW T, NEW a, Shaped(a), Sync(f, a), NEW vals, IsSeq(vals)
  PROVE  Step(f, T, Push(vals), a, Move(a, Len(vals)))
<1>1. Len(vals) \in Nat /\ a.h \in Int
  BY IsSeqLen DEF Shaped
<1> DEFINE t == Push(vals)
<1>2. t.do = "emit" /\ t.op = "push" /\ t.n = 0 /\ t.vals = vals
  BY DEF Push, Emit
<1>3. Delta(t) = Len(vals)
  BY <1>2 DEF Delta
<1>4. Fits(f, T, [op |-> t.op, n |-> t.n, vals |-> t.vals, h |-> a.h], a.g, a.g + Len(vals))
  BY <1>1, <1>2 DEF Fits, Here, Sync
<1> HIDE DEF t
<1>5. Step(f, T, t, a, Move(a, Len(vals)))
  BY <1>1, <1>2, <1>3, <1>4, EmitMove
<1> QED BY <1>5 DEF t

LEMMA StepPop ==
  ASSUME NEW f, NEW T, NEW a, Shaped(a), Sync(f, a), NEW n \in Nat, a.h - n >= Surplus(f)
  PROVE  Step(f, T, Pop(n), a, Move(a, 0 - n))
<1>1. a.h \in Int /\ a.g + (0 - n) = a.g - n
  BY DEF Shaped
<1> DEFINE t == Pop(n)
<1>2. t.do = "emit" /\ t.op = "pop" /\ t.n = n /\ t.vals = <<>>
  BY DEF Pop, Emit
<1>3. Delta(t) = 0 - n
  BY <1>2 DEF Delta
<1>4. Fits(f, T, [op |-> t.op, n |-> t.n, vals |-> t.vals, h |-> a.h], a.g, a.g + (0 - n))
  BY <1>1, <1>2 DEF Fits, Here, Sync
<1> HIDE DEF t
<1>5. Step(f, T, t, a, Move(a, 0 - n))
  BY <1>1, <1>2, <1>3, <1>4, EmitMove
<1> QED BY <1>5 DEF t

LEMMA StepSwap ==
  ASSUME NEW f, NEW T, NEW a, Shaped(a), Sync(f, a), NEW n
  PROVE  Step(f, T, Emit("swap", n, <<>>), a, a)
<1>1. a.h \in Int /\ a.g + 0 = a.g
  BY DEF Shaped
<1> DEFINE t == Emit("swap", n, <<>>)
<1>2. t.do = "emit" /\ t.op = "swap" /\ t.n = n /\ t.vals = <<>>
  BY DEF Emit
<1>3. Delta(t) = 0
  BY <1>2 DEF Delta
<1>4. Fits(f, T, [op |-> t.op, n |-> t.n, vals |-> t.vals, h |-> a.h], a.g, a.g + 0)
  BY <1>1, <1>2 DEF Fits, Here, Sync
<1> HIDE DEF t
<1>5. Step(f, T, t, a, Move(a, 0))
  BY <1>1, <1>2, <1>3, <1>4, EmitMove
<1> QED BY <1>5, MoveZero DEF t

LEMMA StepDup ==
  ASSUME NEW f, NEW T, NEW a, Shaped(a), Sync(f, a), NEW n, NEW vals
  PROVE  Step(f, T, Emit("dup", n, vals), a, Move(a, 1))
<1>1. a.h \in Int
  BY DEF Shaped
<1> DEFINE t == Emit("dup", n, vals)
<1>2. t.do = "emit" /\ t.op = "dup" /\ t.n = n /\ t.vals = vals
  BY DEF Emit
<1>3. Delta(t) = 1
  BY <1>2 DEF Delta
<1>4. Fits(f, T, [op |-> t.op, n |-> t.n, vals |-> t.vals, h |-> a.h], a.g, a.g + 1)
  BY <1>1, <1>2 DEF Fits, Here, Sync
<1> HIDE DEF t
<1>5. Step(f, T, t, a, Move(a, 1))
  BY <1>1, <1>2, <1>3, <1>4, EmitMove
<1> QED BY <1>5 DEF t

LEMMA StepJumpI ==
  ASSUME NEW f, NEW T, NEW a, Shaped(a), Sync(f, a), NEW n \in DOMAIN T, T[n] = a.h - 1,
         a.h - 1 >= Surplus(f)
  PROVE  Step(f, T, JumpI(n), a, Move(a, -1))
<1>1. a.h \in Int /\ a.g + (-1) = a.g - 1
  BY DEF Shaped
<1> DEFINE t == JumpI(n)
<1>2. t.do = "emit" /\ t.op = "jumpi" /\ t.n = n /\ t.vals = <<>>
  BY DEF JumpI, Emit
<1>3. Delta(t) = -1
  BY <1>2 DEF Delta
<1>4. Fits(f, T, [op |-> t.op, n |-> t.n, vals |-> t.vals, h |-> a.h], a.g, a.g + (-1))
  BY <1>1, <1>2 DEF Fits, Here, Sync
<1> HIDE DEF t
<1>5. Step(f, T, t, a, Move(a, -1))
  BY <1>1, <1>2, <1>3, <1>4, EmitMove
<1> QED BY <1>5 DEF t

\* A tag is placed where the height is the one of its jumps.
LEMMA StepPlace ==
  ASSUME NEW f, NEW T, NEW a, Shaped(a), NEW n \in DOMAIN T, T[n] = a.g, a.g >= Surplus(f)
  PROVE  Step(f, T, Place(n), a, a)
<1>1. a.g \in Int /\ a.g + 0 = a.g
  BY DEF Shaped
<1> DEFINE t == Place(n)
<1>2. t.do = "emit" /\ t.op = "tag" /\ t.n = n /\ t.vals = <<>>
  BY DEF Place, Emit
<1>3. Delta(t) = 0
  BY <1>2 DEF Delta
<1>4. Fits(f, T, [op |-> t.op, n |-> t.n, vals |-> t.vals, h |-> a.h], a.g, a.g + 0)
  BY <1>1, <1>2 DEF Fits, Here, Sync
<1> HIDE DEF t
<1>5. Step(f, T, t, a, Move(a, 0))
  BY <1>1, <1>2, <1>3, <1>4, EmitMove
<1> QED BY <1>5, MoveZero DEF t

\* The code of a call that may fail: it leaves values only if it jumps.
LEMMA StepTryCall ==
  ASSUME NEW f, NEW T, NEW a, Shaped(a), Sync(f, a), NEW n \in DOMAIN T, NEW vals, IsSeq(vals),
         T[n] = a.h + Len(vals)
  PROVE  Step(f, T, Emit("trycall", n, vals), a, a)
<1>1. a.h \in Int /\ a.g + 0 = a.g
  BY DEF Shaped
<1> DEFINE t == Emit("trycall", n, vals)
<1>2. t.do = "emit" /\ t.op = "trycall" /\ t.n = n /\ t.vals = vals
  BY DEF Emit
<1>3. Delta(t) = 0
  BY <1>2 DEF Delta
<1>4. Fits(f, T, [op |-> t.op, n |-> t.n, vals |-> t.vals, h |-> a.h], a.g, a.g + 0)
  BY <1>1, <1>2 DEF Fits, Here, Sync
<1> HIDE DEF t
<1>5. Step(f, T, t, a, Move(a, 0))
  BY <1>1, <1>2, <1>3, <1>4, EmitMove
<1> QED BY <1>5, MoveZero DEF t

\* Behind a jump and a revert any height may be assumed.
LEMMA StepAway ==
  ASSUME NEW f, NEW T, NEW a, Shaped(a), Sync(f, a), NEW t, t.do = "emit",
         t.op = "revert" \/ (t.op = "jump" /\ t.n \in DOMAIN T /\ T[t.n] = a.h),
         NEW g \in Int
  PROVE  Step(f, T, t, a, At(a, a.h, g))
<1> DEFINE b == At(a, a.h, g)
<1>1. a.h \in Int /\ a.depth \in Int
  BY DEF Shaped
<1>3. b.h = a.h /\ b.g = g
  BY <1>1, AtShape
<1>2. b.h = a.h /\ b.g = g /\ b = At(a, b.h, b.g)
  <2>1. At(a, b.h, b.g) = At(a, a.h, g)
    BY <1>3
  <2> QED BY <1>3, <2>1
<1> HIDE DEF b
<1>4. Delta(t) = 0 /\ a.h + 0 = a.h
  BY <1>1 DEF Delta
<1>5. Fits(f, T, [op |-> t.op, n |-> t.n, vals |-> t.vals, h |-> a.h], a.g, b.g)
  <2> DEFINE c == [op |-> t.op, n |-> t.n, vals |-> t.vals, h |-> a.h]
  <2>1. c.op = t.op /\ c.n = t.n /\ c.h = a.h
    OBVIOUS
  <2> HIDE DEF c
  <2>2. Here(f, c, a.g)
    BY <1>1, <2>1 DEF Here, Sync
  <2>3. ASSUME t.op = "revert" PROVE Fits(f, T, c, a.g, b.g)
    BY <2>1, <2>2, <2>3 DEF Fits
  <2>4. ASSUME t.op = "jump", t.n \in DOMAIN T, T[t.n] = a.h PROVE Fits(f, T, c, a.g, b.g)
    <3>1. a.g = a.h
      BY DEF Sync
    <3> QED BY <2>1, <2>2, <2>4, <3>1 DEF Fits
  <2>5. Fits(f, T, c, a.g, b.g)
    BY <2>3, <2>4
  <2> QED BY <2>5 DEF c
<1>6. Step(f, T, t, a, b)
  BY <1>1, <1>2, <1>4, <1>5 DEF Step
<1> QED BY <1>6 DEF b

\* Statement s may be visited as far as the scopes are concerned.
Clear(a, s) ==
    /\ a.re # <<>> /\ a.depth >= -1
    /\ \A e \in a.sc : e.depth = a.depth => e.node \notin ScopesIn[s]

LEMMA ClearPart ==
  ASSUME NEW a, NEW s \in Statements, Clear(a, s), NEW c \in Parts(s)
  PROVE  Clear(a, c)
BY StatementsAssumption DEF Clear

LEMMA ClearSame ==
  ASSUME NEW a, NEW b, NEW s, Clear(a, s), b.re = a.re, b.sc = a.sc, b.depth = a.depth
  PROVE  Clear(b, s)
BY DEF Clear

\* A point at another height.
LEMMA MoveClear ==
  ASSUME NEW f, NEW a, Shaped(a), Sync(f, a), NEW d \in Int, a.h + d >= Surplus(f)
  PROVE  /\ Shaped(Move(a, d)) /\ Sync(f, Move(a, d)) /\ Move(a, d).h = a.h + d
         /\ \A s : Clear(a, s) => Clear(Move(a, d), s)
<1>1. /\ Shaped(Move(a, d)) /\ Move(a, d).h = a.h + d /\ Move(a, d).sc = a.sc
      /\ Move(a, d).re = a.re /\ Move(a, d).depth = a.depth
  BY MoveShape
<1>2. Sync(f, Move(a, d))
  BY MoveSync
<1>3. ASSUME NEW s, Clear(a, s) PROVE Clear(Move(a, d), s)
  BY <1>1, <1>3 DEF Clear
<1> QED BY <1>1, <1>2, <1>3

LEMMA StatementSizeType ==
  ASSUME NEW s \in Statements
  PROVE  StatementSize(s) \in Nat
<1>1. CASE s.kind = "declare"
  <2>1. s \in Statement
    BY StatementsAssumption
  <2>2. s.vars \in Seq(Variable)
    BY <1>1, <2>1 DEF Statement
  <2> QED BY <1>1, <2>2, SameSize DEF StatementSize
<1>2. CASE s.kind # "declare"
  BY <1>2 DEF StatementSize
<1> QED BY <1>1, <1>2

LEMMA StepVisit ==
  ASSUME NEW f, NEW T, NEW a, Shaped(a), Sync(f, a), NEW s \in Statements, Clear(a, s)
  PROVE  /\ Step(f, T, Visit(s), a, Move(a, StatementSize(s)))
         /\ s \in Single => Step(f, T, Visit(s), a, a)
<1>1. Visit(s).do = "visit" /\ Visit(s).s = s
  BY DEF Visit
<1>2. Step(f, T, Visit(s), a, Move(a, StatementSize(s)))
  BY <1>1 DEF Step, Clear
<1>3. s \in Single => StatementSize(s) = 0
  BY DEF Single, StatementSize
<1> QED BY <1>2, <1>3, MoveZero

LEMMA StepAdjust ==
  ASSUME NEW f, NEW T, NEW a, NEW n \in Int
  PROVE  Step(f, T, Adjust(n), a, At(a, a.h + n, a.g))
<1>1. Adjust(n).do = "adjust" /\ Adjust(n).n = n
  BY DEF Adjust
<1> QED BY <1>1 DEF Step

LEMMA StepCheck ==
  ASSUME NEW f, NEW T, NEW a, Sync(f, a)
  PROVE  Step(f, T, Check(a.h), a, a)
<1>1. Check(a.h).do = "check" /\ Check(a.h).h = a.h
  BY DEF Check
<1> QED BY <1>1 DEF Step

LEMMA StepVariable ==
  ASSUME NEW f, NEW T, NEW a, NEW x, NEW off
  PROVE  Step(f, T, AddVariable(x, off), a, a) /\ Step(f, T, RemoveVariable(x), a, a)
<1>1. AddVariable(x, off).do = "addVariable" /\ RemoveVariable(x).do = "removeVariable"
  BY DEF AddVariable, RemoveVariable
<1> QED BY <1>1 DEF Step

\* Tasks that move nothing.
LEMMA FlowStill ==
  ASSUME NEW f, NEW T, NEW a, NEW ts, IsSeq(ts), \A i \in 1..Len(ts) : Step(f, T, ts[i], a, a)
  PROVE  Flow(f, T, ts, a, a)
<1>1. Len(ts) \in Nat
  BY IsSeqLen
<1> DEFINE w == [k \in 1..(Len(ts) + 1) |-> a]
<1>2. \A k \in 1..(Len(ts) + 1) : w[k] = a
  OBVIOUS
<1> HIDE DEF w
<1>3. w[1] = a /\ w[Len(ts) + 1] = a
  BY <1>1, <1>2
<1>4. \A k \in 1..Len(ts) : w[k] = a /\ w[k + 1] = a
  BY <1>1, <1>2
<1> QED BY <1>3, <1>4 DEF Flow

LEMMA FlowAddOnStack ==
  ASSUME NEW f, NEW T, NEW a, NEW xs \in Seq(Variable)
  PROVE  Flow(f, T, AddOnStack(xs), a, a)
<1> DEFINE s == AddOnStack(xs)
<1>1. Len(xs) \in Nat /\ s = [i \in 1..Len(xs) |-> s[i]]
  BY LenProperties DEF AddOnStack
<1>2. IsSeq(s) /\ Len(s) = Len(xs)
  BY <1>1, MadeSeq
<1>3. \A i \in 1..Len(xs) : s[i] = AddVariable(xs[i], SizeOnStack(SubSeq(xs, i, Len(xs))))
  BY DEF AddOnStack
<1> HIDE DEF s
<1>4. \A i \in 1..Len(s) : Step(f, T, s[i], a, a)
  BY <1>2, <1>3, StepVariable
<1>5. Flow(f, T, s, a, a)
  BY <1>2, <1>4, FlowStill
<1> QED BY <1>5 DEF s

LEMMA FlowRemove ==
  ASSUME NEW f, NEW T, NEW a, NEW xs \in Seq(Variable)
  PROVE  Flow(f, T, [i \in 1..Len(xs) |-> RemoveVariable(xs[i])], a, a)
<1> DEFINE s == [i \in 1..Len(xs) |-> RemoveVariable(xs[i])]
<1>1. Len(xs) \in Nat /\ s = [i \in 1..Len(xs) |-> s[i]]
  BY LenProperties
<1>2. IsSeq(s) /\ Len(s) = Len(xs)
  BY <1>1, MadeSeq
<1>3. \A i \in 1..Len(xs) : s[i] = RemoveVariable(xs[i])
  OBVIOUS
<1> HIDE DEF s
<1>4. \A i \in 1..Len(s) : Step(f, T, s[i], a, a)
  BY <1>2, <1>3, StepVariable
<1>5. Flow(f, T, s, a, a)
  BY <1>2, <1>4, FlowStill
<1> QED BY <1>5 DEF s

\* Statements one after the other.
LEMMA FlowVisits ==
  ASSUME NEW f, NEW T, Surplus(f) \in Nat, NEW a, Shaped(a), Sync(f, a), NEW ss \in Seq(Statements),
         \A i \in 1..Len(ss) : Clear(a, ss[i])
  PROVE  \E d \in Nat : Flow(f, T, Visits(ss), a, Move(a, d))
<1> DEFINE n == Len(ss)
           Pre(k) == [i \in 1..k |-> Visit(ss[i])]
           S == {k \in 0..n : \E d \in Nat : Flow(f, T, Pre(k), a, Move(a, d))}
<1>1. n \in Nat /\ \A i \in 1..n : ss[i] \in Statements
  BY ElementOfSeq, LenProperties
<1>2. 0 \in S
  <2>1. IsSeq(Pre(0)) /\ Len(Pre(0)) = 0
    <3>1. Pre(0) = [i \in 1..0 |-> Pre(0)[i]]
      OBVIOUS
    <3> HIDE DEF Pre
    <3> QED BY <3>1, MadeSeq
  <2> HIDE DEF Pre
  <2>2. Pre(0) = <<>>
    BY <2>1, EmptyIsSeq
  <2>3. Flow(f, T, Pre(0), a, Move(a, 0))
    BY <2>2, FlowNone, MoveZero
  <2> QED BY <1>1, <2>3
<1>3. ASSUME NEW k \in 0..(n - 1), k \in S PROVE k + 1 \in S
  <2>1. PICK d \in Nat : Flow(f, T, Pre(k), a, Move(a, d))
    BY <1>3
  <2>2. k + 1 \in 1..n /\ k + 1 \in 0..n /\ k \in Nat
    BY <1>1
  <2> DEFINE s == ss[k + 1]
             e == StatementSize(s)
             b == Move(a, d)
  <2>3. s \in Statements /\ Clear(a, s) /\ e \in Nat
    BY <1>1, <2>2, StatementSizeType
  <2>4. Shaped(b) /\ Clear(b, s) /\ Sync(f, b)
    <3>1. a.h + d >= Surplus(f) /\ d \in Int
      BY DEF Sync, Shaped
    <3>2. Shaped(Move(a, d)) /\ Sync(f, Move(a, d)) /\ Clear(Move(a, d), s)
      BY <2>3, <3>1, MoveClear
    <3> QED BY <3>2
  <2>5. Step(f, T, Visit(s), b, Move(b, e))
    BY <2>3, <2>4, StepVisit
  <2>6. Move(b, e) = Move(a, d + e) /\ d + e \in Nat
    BY <2>3, MoveTwice
  <2>7. Flow(f, T, <<Visit(s)>>, b, Move(a, d + e))
    BY <2>5, <2>6, Chain1
  <2>8. Flow(f, T, Pre(k) \o <<Visit(s)>>, a, Move(a, d + e))
    BY <2>1, <2>7, FlowConcat
  <2>9. Pre(k) \o <<Visit(s)>> = Pre(k + 1)
    <3> DEFINE A == {Visit(ss[i]) : i \in 1..n}
    <3>1. Pre(k) \in Seq(A) /\ Len(Pre(k)) = k /\ <<Visit(s)>> \in Seq(A) /\ Pre(k + 1) \in Seq(A) /\ Len(Pre(k + 1)) = k + 1
      <4>1. Pre(k) \in [1..k -> A] /\ Pre(k + 1) \in [1..(k + 1) -> A] /\ Visit(s) \in A
        BY <1>1, <2>2
      <4> HIDE DEF A, Pre
      <4> QED BY <4>1, <2>2, SeqDef, LenProperties
    <3>2. \A i \in 1..k : Pre(k)[i] = Pre(k + 1)[i]
      BY <2>2
    <3>3. Pre(k + 1)[k + 1] = Visit(s)
      BY <2>2
    <3> HIDE DEF A, Pre, s
    <3> QED BY <2>2, <3>1, <3>2, <3>3
  <2> HIDE DEF Pre, e, b, s
  <2> QED BY <2>2, <2>6, <2>8, <2>9
<1> HIDE DEF S
<1>4. \A k \in 0..n : k \in S
  BY <1>1, <1>2, <1>3, UpTo
<1>5. n \in S
  BY <1>1, <1>4
<1>6. Pre(n) = Visits(ss)
  BY DEF Visits
<1> QED BY <1>5, <1>6 DEF S

LEMMA FlowSingles ==
  ASSUME NEW f, NEW T, NEW a, Shaped(a), Sync(f, a), NEW ss \in Seq(Single),
         \A i \in 1..Len(ss) : Clear(a, ss[i])
  PROVE  Flow(f, T, Visits(ss), a, a)
<1> DEFINE s == Visits(ss)
<1>1. Len(ss) \in Nat /\ s = [i \in 1..Len(ss) |-> s[i]]
  BY LenProperties DEF Visits
<1>2. IsSeq(s) /\ Len(s) = Len(ss)
  BY <1>1, MadeSeq
<1>3. \A i \in 1..Len(ss) : s[i] = Visit(ss[i]) /\ ss[i] \in Single /\ ss[i] \in Statements
  BY ElementOfSeq DEF Visits, Single
<1> HIDE DEF s
<1>4. \A i \in 1..Len(s) : Step(f, T, s[i], a, a)
  BY <1>2, <1>3, StepVisit
<1>5. Flow(f, T, s, a, a)
  BY <1>2, <1>4, FlowStill
<1> QED BY <1>5 DEF s

-----------------------------------------------------------------------------
(***************************************************************************)
(* Lists of tasks that several statements have in common.                  *)
(***************************************************************************)
\* Variables that are declared and given a value, one after the other.
LEMMA FlowInit ==
  ASSUME NEW f, NEW T, Surplus(f) \in Nat, NEW a, Shaped(a), Sync(f, a), NEW xs \in Seq(Variable), NEW val
  PROVE  Flow(f, T, FlattenSeq([i \in 1..Len(xs) |-> <<AddVariable(xs[i], 0), Push(SlotsOf(xs[i], val))>>]),
              a, Move(a, SizeOnStack(xs)))
<1> DEFINE n == Len(xs)
           q == [i \in 1..n |-> <<AddVariable(xs[i], 0), Push(SlotsOf(xs[i], val))>>]
<1>1. n \in Nat /\ \A i \in 1..n : xs[i] \in Variable
  BY ElementOfSeq, LenProperties
<1>2. IsSeq(q) /\ Len(q) = n
  <2>1. q = [i \in 1..n |-> q[i]]
    OBVIOUS
  <2> HIDE DEF q
  <2> QED BY <1>1, <2>1, MadeSeq
<1>3. \A i \in 1..n : q[i] = <<AddVariable(xs[i], 0), Push(SlotsOf(xs[i], val))>>
  OBVIOUS
<1> HIDE DEF q
<1>4. \A i \in 1..Len(q) : IsSeq(q[i])
  BY <1>2, <1>3, Short
<1>5. PICK F : /\ F[0] = <<>> /\ F[n] = FlattenSeq(q)
               /\ \A i \in 1..n : F[i] = F[i - 1] \o q[i]
  <2>1. \E F : /\ F[0] = <<>> /\ F[Len(q)] = FlattenSeq(q)
               /\ \A i \in 1..Len(q) : F[i] = F[i - 1] \o q[i]
    BY <1>2, <1>4, Flattened
  <2> QED BY <1>2, <2>1
<1>6. PICK p : /\ p[0] = 0 /\ p[n] = SizeOnStack(xs)
               /\ \A i \in 1..n : p[i] = p[i - 1] + xs[i].size
               /\ \A i \in 0..n : p[i] \in Nat
  BY SizesAddUp
<1> DEFINE S == {k \in 0..n : Flow(f, T, F[k], a, Move(a, p[k]))}
<1>7. 0 \in S
  <2>1. Flow(f, T, F[0], a, Move(a, p[0]))
    BY <1>5, <1>6, FlowNone, MoveZero
  <2> QED BY <1>1, <2>1
<1>8. ASSUME NEW k \in 0..(n - 1), k \in S PROVE k + 1 \in S
  <2>1. Flow(f, T, F[k], a, Move(a, p[k]))
    BY <1>8
  <2>2. k + 1 \in 1..n /\ k + 1 \in 0..n /\ k \in 0..n /\ (k + 1) - 1 = k
    BY <1>1
  <2> DEFINE x == xs[k + 1]
             b == Move(a, p[k])
  <2>3. x \in Variable /\ p[k] \in Nat /\ p[k + 1] = p[k] + x.size
    BY <1>1, <1>6, <2>2
  <2>4. IsSeq(SlotsOf(x, val)) /\ Len(SlotsOf(x, val)) = x.size /\ x.size \in Int
    BY <2>3, SlotsOfSize
  <2>5. Shaped(b) /\ Sync(f, b)
    <3>1. a.h + p[k] >= Surplus(f) /\ p[k] \in Int
      BY <2>3 DEF Sync, Shaped
    <3> QED BY <3>1, MoveClear
  <2>6. Step(f, T, Push(SlotsOf(x, val)), b, Move(b, x.size))
    <3>1. Step(f, T, Push(SlotsOf(x, val)), b, Move(b, Len(SlotsOf(x, val))))
      <4> HIDE DEF b, x
      <4> QED BY <2>4, <2>5, StepPush
    <3> QED BY <2>4, <3>1
  <2>7. Move(b, x.size) = Move(a, p[k + 1])
    <3>1. p[k] \in Int /\ p[k + 1] = p[k] + x.size
      BY <2>3
    <3> HIDE DEF x
    <3>2. Move(Move(a, p[k]), x.size) = Move(a, p[k] + x.size)
      BY <2>4, <3>1, MoveTwice
    <3> QED BY <3>1, <3>2
  <2>8. Step(f, T, AddVariable(x, 0), b, b)
    BY StepVariable
  <2>9. Flow(f, T, <<AddVariable(x, 0), Push(SlotsOf(x, val))>>, b, Move(a, p[k + 1]))
    <3>1. Flow(f, T, <<AddVariable(x, 0), Push(SlotsOf(x, val))>>, b, Move(b, x.size))
      <4> HIDE DEF b, x
      <4> QED BY <2>6, <2>8, Chain2
    <3> QED BY <2>7, <3>1
  <2>10. Flow(f, T, F[k + 1], a, Move(a, p[k + 1]))
    <3>1. F[k + 1] = F[k] \o q[k + 1] /\ q[k + 1] = <<AddVariable(x, 0), Push(SlotsOf(x, val))>>
      BY <1>3, <1>5, <2>2
    <3> HIDE DEF b, x
    <3>2. Flow(f, T, q[k + 1], b, Move(a, p[k + 1]))
      BY <2>9, <3>1
    <3>3. Flow(f, T, F[k], a, b)
      BY <2>1 DEF b
    <3>4. Flow(f, T, F[k] \o q[k + 1], a, Move(a, p[k + 1]))
      BY <3>2, <3>3, FlowConcat
    <3> QED BY <3>1, <3>4
  <2> QED BY <2>2, <2>10
<1> HIDE DEF S
<1>9. \A k \in 0..n : k \in S
  BY <1>1, <1>7, <1>8, UpTo
<1>10. n \in S
  BY <1>1, <1>9
<1>11. Flow(f, T, FlattenSeq(q), a, Move(a, SizeOnStack(xs)))
  BY <1>5, <1>6, <1>10 DEF S
<1> QED BY <1>11 DEF q

LEMMA StepAssign ==
  ASSUME NEW f, NEW T, NEW a, Sync(f, a), NEW x \in Variable, a.h - x.size >= Surplus(f)
  PROVE  Step(f, T, Assign(x), a, Move(a, 0 - x.size))
<1>1. Assign(x).do = "assign" /\ Assign(x).x = x
  BY DEF Assign
<1> QED BY <1>1 DEF Step

\* The values on the stack are moved to the variables, the last one first.
LEMMA FlowAssign ==
  ASSUME NEW f, NEW T, Surplus(f) \in Nat, NEW a, Shaped(a), Sync(f, a), NEW xs \in Seq(Variable)
  PROVE  Flow(f, T, AssignAll(xs), Move(a, SizeOnStack(xs)), a)
<1> DEFINE n == Len(xs)
           q == [i \in 1..n |-> Assign(xs[i])]
           s == AssignAll(xs)
<1>1. n \in Nat /\ \A i \in 1..n : xs[i] \in Variable
  BY ElementOfSeq, LenProperties
<1>2. Len(q) = n
  <2>1. q = [i \in 1..n |-> q[i]]
    OBVIOUS
  <2> HIDE DEF q
  <2> QED BY <1>1, <2>1, MadeSeq
<1>3. s = [i \in 1..n |-> q[(n - i) + 1]]
  BY <1>2 DEF AssignAll, Reverse
<1>4. \A k \in 1..n : s[k] = Assign(xs[(n - k) + 1])
  <2>1. \A k \in 1..n : (n - k) + 1 \in 1..n
    BY <1>1
  <2>2. \A k \in 1..n : s[k] = q[(n - k) + 1]
    BY <1>3
  <2> QED BY <2>1, <2>2
<1>5. IsSeq(s) /\ Len(s) = n
  <2>1. s = [i \in 1..n |-> s[i]]
    BY <1>3
  <2> HIDE DEF s
  <2> QED BY <1>1, <2>1, MadeSeq
<1> HIDE DEF q, s
<1>6. PICK p : /\ p[0] = 0 /\ p[n] = SizeOnStack(xs)
               /\ \A i \in 1..n : p[i] = p[i - 1] + xs[i].size
               /\ \A i \in 0..n : p[i] \in Nat
  BY SizesAddUp
<1> HIDE DEF n
<1> DEFINE w == [k \in 1..(n + 1) |-> Move(a, p[(n + 1) - k])]
<1>7. \A k \in 1..(n + 1) : w[k] = Move(a, p[(n + 1) - k])
  OBVIOUS
<1> HIDE DEF w
<1>8. w[1] = Move(a, SizeOnStack(xs)) /\ w[n + 1] = a
  <2>1. 1 \in 1..(n + 1) /\ n + 1 \in 1..(n + 1) /\ (n + 1) - 1 = n /\ (n + 1) - (n + 1) = 0
    BY <1>1
  <2>2. w[1] = Move(a, p[n]) /\ w[n + 1] = Move(a, p[0])
    BY <1>7, <2>1
  <2> QED BY <1>6, <2>2, MoveZero
<1>9. ASSUME NEW k \in 1..n PROVE Step(f, T, s[k], w[k], w[k + 1])
  <2> DEFINE j == (n - k) + 1
             x == xs[j]
  <2>1. /\ j \in 1..n /\ j \in 0..n /\ j - 1 \in 0..n /\ (n + 1) - k = j /\ (n + 1) - (k + 1) = j - 1
        /\ k \in 1..(n + 1) /\ k + 1 \in 1..(n + 1)
    BY <1>1
  <2> HIDE DEF j
  <2>2. x \in Variable /\ x.size \in 1..2
    BY <1>1, <2>1 DEF Variable
  <2>3. p[j] = p[j - 1] + x.size /\ p[j] \in Nat /\ p[j - 1] \in Nat
    BY <1>6, <2>1
  <2> DEFINE b == Move(a, p[j])
  <2> HIDE DEF x
  <2>4. a.h \in Int /\ a.h >= Surplus(f)
    BY DEF Shaped, Sync
  <2>5. Shaped(b) /\ Sync(f, b) /\ b.h = a.h + p[j]
    BY <2>3, <2>4, MoveClear
  <2>6. Step(f, T, Assign(x), b, Move(b, 0 - x.size))
    <3>1. b.h - x.size >= Surplus(f)
      BY <2>2, <2>3, <2>4, <2>5
    <3> HIDE DEF b
    <3> QED BY <2>2, <2>5, <3>1, StepAssign
  <2>7. Move(b, 0 - x.size) = Move(a, p[j - 1])
    <3> DEFINE e == 0 - x.size
    <3>1. p[j] + e = p[j - 1] /\ e \in Int /\ p[j] \in Int
      BY <2>2, <2>3
    <3> HIDE DEF e
    <3>2. Move(Move(a, p[j]), e) = Move(a, p[j] + e)
      BY <3>1, MoveTwice
    <3> QED BY <3>1, <3>2 DEF e
  <2>8. w[k] = b /\ w[k + 1] = Move(a, p[j - 1])
    BY <1>7, <2>1
  <2>9. s[k] = Assign(x)
    BY <1>4 DEF x, j
  <2> QED BY <2>6, <2>7, <2>8, <2>9
<1>10. Flow(f, T, s, Move(a, SizeOnStack(xs)), a)
  BY <1>5, <1>8, <1>9 DEF Flow
<1> QED BY <1>10 DEF s

\* A value for each variable is pushed and moved there.
LEMMA FlowStore ==
  ASSUME NEW f, NEW T, Surplus(f) \in Nat, NEW a, Shaped(a), Sync(f, a), NEW xs \in Seq(Variable), NEW val
  PROVE  Flow(f, T, <<Push(AllSlots(xs, val))>> \o AssignAll(xs), a, a)
<1>1. IsSeq(AllSlots(xs, val)) /\ Len(AllSlots(xs, val)) = SizeOnStack(xs)
  BY SameSize
<1>2. Step(f, T, Push(AllSlots(xs, val)), a, Move(a, SizeOnStack(xs)))
  <2>1. Step(f, T, Push(AllSlots(xs, val)), a, Move(a, Len(AllSlots(xs, val))))
    BY <1>1, StepPush
  <2> QED BY <1>1, <2>1
<1>3. Flow(f, T, <<Push(AllSlots(xs, val))>>, a, Move(a, SizeOnStack(xs)))
  BY <1>2, Chain1
<1>4. Flow(f, T, AssignAll(xs), Move(a, SizeOnStack(xs)), a)
  BY FlowAssign
<1> QED BY <1>3, <1>4, FlowConcat

LEMMA FlowClause ==
  ASSUME NEW f, NEW T, Surplus(f) \in Nat, NEW a, Shaped(a), Sync(f, a), NEW c \in Clauses,
         a.h - SizeOnStack(c.params) >= Surplus(f), Clear(a, c.block)
  PROVE  Flow(f, T, Clause(c), a, Move(a, 0 - SizeOnStack(c.params)))
<1> DEFINE n == SizeOnStack(c.params)
           t == [do |-> "closeClause", n |-> n]
<1>1. c.params \in Seq(Variable) /\ c.block \in Single /\ c.block \in Statements /\ n \in Nat
  <2>1. c.params \in Seq(Variable) /\ c.block \in Block
    BY DEF Clauses
  <2> QED BY <2>1, SameSize DEF Block, Single
<1>2. Flow(f, T, AddOnStack(c.params), a, a)
  BY <1>1, FlowAddOnStack
<1>3. Step(f, T, Visit(c.block), a, a)
  BY <1>1, StepVisit
<1>4. Step(f, T, t, a, Move(a, 0 - n))
  <2>1. t.do = "closeClause" /\ t.n = n
    OBVIOUS
  <2> HIDE DEF t
  <2> QED BY <1>1, <2>1 DEF Step
<1>5. Flow(f, T, <<Visit(c.block), t>>, a, Move(a, 0 - n))
  <2> HIDE DEF t, n
  <2> QED BY <1>3, <1>4, Chain2
<1>6. Flow(f, T, AddOnStack(c.params) \o <<Visit(c.block), t>>, a, Move(a, 0 - n))
  <2> HIDE DEF t, n
  <2> QED BY <1>2, <1>5, FlowConcat
<1> QED BY <1>6 DEF Clause

\* What stands in a list of tasks.
Has(ts, t) == \E i \in 1..Len(ts) : ts[i] = t

LEMMA HasLeft ==
  ASSUME NEW s, IsSeq(s), NEW u, IsSeq(u), NEW t, Has(s, t)
  PROVE  Has(s \o u, t)
<1>1. PICK i \in 1..Len(s) : s[i] = t
  BY DEF Has
<1>2. Len(s) \in Nat /\ Len(u) \in Nat
  BY IsSeqLen
<1>3. i \in 1..(Len(s) + Len(u)) /\ i <= Len(s)
  BY <1>2
<1>4. Len(s \o u) = Len(s) + Len(u) /\ (s \o u)[i] = s[i]
  BY <1>3, IsSeqConcat
<1> QED BY <1>1, <1>3, <1>4 DEF Has

LEMMA HasRight ==
  ASSUME NEW s, IsSeq(s), NEW u, IsSeq(u), NEW t, Has(u, t)
  PROVE  Has(s \o u, t)
<1>1. PICK i \in 1..Len(u) : u[i] = t
  BY DEF Has
<1>2. Len(s) \in Nat /\ Len(u) \in Nat
  BY IsSeqLen
<1> DEFINE j == Len(s) + i
<1>3. j \in 1..(Len(s) + Len(u)) /\ ~(j <= Len(s)) /\ j - Len(s) = i
  BY <1>2
<1> HIDE DEF j
<1>4. Len(s \o u) = Len(s) + Len(u) /\ (s \o u)[j] = u[j - Len(s)]
  BY <1>3, IsSeqConcat
<1> QED BY <1>1, <1>3, <1>4 DEF Has

\* A task that is not the first one stands in the rest.
LEMMA HasTail ==
  ASSUME NEW s, IsSeq(s), s # <<>>, NEW t, Has(s, t), t # Head(s)
  PROVE  Has(Tail(s), t)
<1>1. PICK i \in 1..Len(s) : s[i] = t
  BY DEF Has
<1>2. /\ Len(s) \in Nat /\ Len(Tail(s)) = Len(s) - 1 /\ Head(s) = s[1]
      /\ \A k \in 1..(Len(s) - 1) : Tail(s)[k] = s[k + 1]
  BY IsSeqLen, IsSeqTail
<1> DEFINE j == i - 1
<1>3. j \in 1..(Len(s) - 1) /\ j + 1 = i
  BY <1>1, <1>2
<1> HIDE DEF j
<1>4. Tail(s)[j] = t
  BY <1>1, <1>2, <1>3
<1> QED BY <1>2, <1>3, <1>4 DEF Has

LEMMA HasEither ==
  ASSUME NEW s, IsSeq(s), NEW u, IsSeq(u)
  PROVE  IsSeq(s \o u) /\ \A t : Has(s, t) \/ Has(u, t) => Has(s \o u, t)
<1>1. IsSeq(s \o u)
  BY IsSeqConcat
<1>2. ASSUME NEW t, Has(s, t) PROVE Has(s \o u, t)
  BY <1>2, HasLeft
<1>3. ASSUME NEW t, Has(u, t) PROVE Has(s \o u, t)
  BY <1>3, HasRight
<1> QED BY <1>1, <1>2, <1>3

LEMMA FlowSeq ==
  ASSUME NEW f, NEW T, NEW ts, NEW a, NEW b, Flow(f, T, ts, a, b)
  PROVE  IsSeq(ts)
BY DEF Flow

-----------------------------------------------------------------------------
(***************************************************************************)
(* Instructions at a distance d above point a.                             *)
(***************************************************************************)
LEMMA Above ==
  ASSUME NEW f, Surplus(f) \in Nat, NEW a, Shaped(a), Sync(f, a), NEW d \in Nat
  PROVE  /\ Shaped(Move(a, d)) /\ Sync(f, Move(a, d))
         /\ Move(a, d).h = a.h + d /\ Move(a, d).g = a.h + d /\ a.h + d >= Surplus(f)
         /\ \A s : Clear(a, s) => Clear(Move(a, d), s)
         /\ \A e \in Int : Move(Move(a, d), e) = Move(a, d + e)
<1>1. d \in Int /\ a.h \in Int /\ a.g = a.h /\ a.h + d >= Surplus(f)
  BY DEF Shaped, Sync
<1>2. /\ Shaped(Move(a, d)) /\ Sync(f, Move(a, d)) /\ Move(a, d).h = a.h + d
      /\ \A s : Clear(a, s) => Clear(Move(a, d), s)
  BY <1>1, MoveClear
<1>3. Move(a, d).g = a.h + d
  BY <1>1, <1>2 DEF Sync
<1>4. \A e \in Int : Move(Move(a, d), e) = Move(a, d + e)
  BY <1>1, MoveTwice
<1> QED BY <1>1, <1>2, <1>3, <1>4

LEMMA PushAbove ==
  ASSUME NEW f, NEW T, Surplus(f) \in Nat, NEW a, Shaped(a), Sync(f, a), NEW d \in Nat, NEW vals, IsSeq(vals)
  PROVE  Step(f, T, Push(vals), Move(a, d), Move(a, d + Len(vals)))
<1>1. Shaped(Move(a, d)) /\ Sync(f, Move(a, d)) /\ \A e \in Int : Move(Move(a, d), e) = Move(a, d + e)
  BY Above
<1>2. Len(vals) \in Int
  BY IsSeqLen
<1>3. Step(f, T, Push(vals), Move(a, d), Move(Move(a, d), Len(vals)))
  BY <1>1, StepPush
<1>4. Move(Move(a, d), Len(vals)) = Move(a, d + Len(vals))
  BY <1>1, <1>2
<1> QED BY <1>3, <1>4

LEMMA ConditionAbove ==
  ASSUME NEW f, NEW T, Surplus(f) \in Nat, NEW a, Shaped(a), Sync(f, a), NEW d \in Nat
  PROVE  Step(f, T, Condition, Move(a, d), Move(a, d + 1))
<1>1. IsSeq(<<Temp>>) /\ Len(<<Temp>>) = 1
  BY Short
<1>2. Step(f, T, Push(<<Temp>>), Move(a, d), Move(a, d + Len(<<Temp>>)))
  BY <1>1, PushAbove
<1> QED BY <1>1, <1>2 DEF Condition

LEMMA PopAbove ==
  ASSUME NEW f, NEW T, Surplus(f) \in Nat, NEW a, Shaped(a), Sync(f, a), NEW d \in Nat, NEW n \in Nat
  PROVE  Step(f, T, Pop(n), Move(a, d + n), Move(a, d))
<1> DEFINE b == Move(a, d + n)
           e == 0 - n
<1>0. d + n \in Nat
  OBVIOUS
<1>1. /\ Shaped(b) /\ Sync(f, b) /\ b.h = a.h + (d + n) /\ \A i \in Int : Move(b, i) = Move(a, (d + n) + i)
  BY <1>0, Above
<1>2. a.h + d >= Surplus(f) /\ a.h \in Int
  BY DEF Shaped, Sync
<1>3. b.h - n >= Surplus(f)
  BY <1>1, <1>2
<1>4. e \in Int /\ (d + n) + e = d
  OBVIOUS
<1>5. Step(f, T, Pop(n), b, Move(b, e))
  <2> HIDE DEF b
  <2> QED BY <1>1, <1>3, StepPop
<1> HIDE DEF b, e
<1>6. Move(b, e) = Move(a, d)
  BY <1>1, <1>4
<1> QED BY <1>5, <1>6 DEF b

LEMMA JumpIAbove ==
  ASSUME NEW f, NEW T, Surplus(f) \in Nat, NEW a, Shaped(a), Sync(f, a), NEW d \in Nat,
         NEW n \in DOMAIN T, T[n] = a.h + d
  PROVE  Step(f, T, JumpI(n), Move(a, d + 1), Move(a, d))
<1> DEFINE b == Move(a, d + 1)
<1>0. d + 1 \in Nat
  OBVIOUS
<1>1. /\ Shaped(b) /\ Sync(f, b) /\ b.h = a.h + (d + 1) /\ \A i \in Int : Move(b, i) = Move(a, (d + 1) + i)
  BY <1>0, Above
<1>2. a.h + d >= Surplus(f) /\ a.h \in Int
  BY DEF Shaped, Sync
<1>3. b.h - 1 >= Surplus(f) /\ T[n] = b.h - 1
  BY <1>1, <1>2
<1>4. -1 \in Int /\ (d + 1) + (-1) = d
  OBVIOUS
<1>5. Step(f, T, JumpI(n), b, Move(b, -1))
  <2> HIDE DEF b
  <2> QED BY <1>1, <1>3, StepJumpI
<1> HIDE DEF b
<1>6. Move(b, -1) = Move(a, d)
  BY <1>1, <1>4
<1> QED BY <1>5, <1>6 DEF b

LEMMA PlaceAbove ==
  ASSUME NEW f, NEW T, Surplus(f) \in Nat, NEW a, Shaped(a), Sync(f, a), NEW d \in Nat,
         NEW n \in DOMAIN T, T[n] = a.h + d
  PROVE  Step(f, T, Place(n), Move(a, d), Move(a, d))
<1>1. Shaped(Move(a, d)) /\ Move(a, d).g = a.h + d /\ a.h + d >= Surplus(f)
  BY Above
<1> QED BY <1>1, StepPlace

\* A jump, behind which the code is generated for another height.
LEMMA JumpAbove ==
  ASSUME NEW f, NEW T, Surplus(f) \in Nat, NEW a, Shaped(a), Sync(f, a), NEW d \in Nat, NEW e \in Nat,
         NEW n \in DOMAIN T, T[n] = a.h + d
  PROVE  LET b == At(a, a.h + d, a.h + e)
         IN /\ Step(f, T, Jump(n), Move(a, d), b)
            /\ Step(f, T, Adjust(e - d), b, Move(a, e))
            /\ \A m \in DOMAIN T : T[m] = a.h + e => Step(f, T, Place(m), b, b)
            /\ d = e => b = Move(a, e)
<1> DEFINE m == Move(a, d)
           b == At(a, a.h + d, a.h + e)
<1>1. /\ Shaped(m) /\ Sync(f, m) /\ m.h = a.h + d /\ a.h \in Int /\ a.h + d \in Int /\ a.h + e \in Int
  BY Above DEF Shaped
<1>2. m.sc = a.sc /\ m.br = a.br /\ m.co = a.co /\ m.re = a.re /\ m.depth = a.depth
  BY MoveShape
<1>3. /\ Shaped(b) /\ b.h = a.h + d /\ b.g = a.h + e
      /\ b.sc = a.sc /\ b.br = a.br /\ b.co = a.co /\ b.re = a.re /\ b.depth = a.depth
  BY <1>1, AtShape
<1>4. At(m, m.h, a.h + e) = b
  BY <1>1, <1>2 DEF At
<1>5. Step(f, T, Jump(n), m, b)
  <2>1. Jump(n).do = "emit" /\ Jump(n).op = "jump" /\ Jump(n).n = n
    BY DEF Jump, Emit
  <2> HIDE DEF m, b
  <2>2. Step(f, T, Jump(n), m, At(m, m.h, a.h + e))
    BY <1>1, <2>1, StepAway
  <2> QED BY <1>4, <2>2
<1>6. /\ Shaped(Move(a, e)) /\ Move(a, e).h = a.h + e /\ Move(a, e).g = a.h + e /\ a.h + e >= Surplus(f)
  BY Above
<1>7. Step(f, T, Adjust(e - d), b, Move(a, e))
  <2>1. e - d \in Int /\ (a.h + d) + (e - d) = a.h + e /\ a.g + e = a.h + e
    BY <1>1 DEF Sync
  <2>2. At(b, b.h + (e - d), b.g) = At(a, a.h + e, a.h + e)
    BY <1>3, <2>1 DEF At
  <2>3. Move(a, e) = At(a, a.h + e, a.h + e)
    BY <2>1 DEF Move
  <2> HIDE DEF b
  <2>4. Step(f, T, Adjust(e - d), b, At(b, b.h + (e - d), b.g))
    BY <2>1, StepAdjust
  <2> QED BY <2>2, <2>3, <2>4
<1>8. ASSUME NEW k \in DOMAIN T, T[k] = a.h + e PROVE Step(f, T, Place(k), b, b)
  <2> HIDE DEF b
  <2> QED BY <1>3, <1>6, <1>8, StepPlace
<1>9. ASSUME d = e PROVE b = Move(a, e)
  <2>1. a.g + e = a.h + e
    BY <1>1 DEF Sync
  <2> QED BY <1>9, <2>1 DEF Move
<1> QED BY <1>5, <1>7, <1>8, <1>9

LEMMA CheckHere ==
  ASSUME NEW f, NEW T, NEW a, Sync(f, a), NEW h, h = a.h
  PROVE  Step(f, T, Check(h), a, a)
BY StepCheck

-----------------------------------------------------------------------------
(***************************************************************************)
(* The clauses of a try statement.                                         *)
(***************************************************************************)
LEMMA DataClauseSize ==
  ASSUME NEW c \in DataClauses
  PROVE  c \in Clauses /\ c.params \in Seq(Variable) /\ SizeOnStack(c.params) = 1
<1>1. c \in Clauses /\ c.params \in Seq(Variable) /\ Len(c.params) = 1 /\ c.params[1].size = 1
  BY DEF DataClauses, Clauses
<1> DEFINE xs == c.params
<1>2. PICK p : /\ p[0] = 0 /\ p[Len(xs)] = SizeOnStack(xs)
               /\ \A i \in 1..Len(xs) : p[i] = p[i - 1] + xs[i].size
  BY <1>1, SizesAddUp
<1>3. p[1] = p[1 - 1] + 1 /\ 1 - 1 = 0
  BY <1>1, <1>2
<1> QED BY <1>1, <1>2, <1>3

LEMMA FlowDecoded ==
  ASSUME NEW f, NEW T, Surplus(f) \in Nat, NEW a, Shaped(a), Sync(f, a), NEW c \in DataClauses,
         Clear(a, c.block), NEW t1 \in DOMAIN T, NEW t2 \in DOMAIN T, NEW t3 \in DOMAIN T,
         T[t1] = a.h + 1, T[t2] = a.h, T[t3] = a.h
  PROVE  Flow(f, T, DecodedClause(c, t1, t2, t3), a, Move(a, 1)) /\ Has(DecodedClause(c, t1, t2, t3), Place(t1))
<1> DEFINE vals == AllSlots(c.params, "value")
           e == At(a, a.h + 0, a.h + 1)
<1>1. IsSeq(vals) /\ Len(vals) = 1 /\ c \in Clauses /\ SizeOnStack(c.params) = 1
  BY DataClauseSize, SameSize
<1>2. a.h \in Int /\ Move(a, 0) = a /\ 0 + 1 = 1 /\ 1 + 1 = 2 /\ T[t2] = a.h + 0 /\ T[t3] = a.h + 0 /\ 1 - 0 = 1
  BY MoveZero DEF Shaped
<1> HIDE DEF vals
<1>3. Step(f, T, Push(vals), a, Move(a, 1))
  BY <1>1, <1>2, PushAbove
<1>4. Step(f, T, Condition, Move(a, 1), Move(a, 2))
  BY <1>2, ConditionAbove
<1>5. Step(f, T, JumpI(t1), Move(a, 2), Move(a, 1))
  BY <1>2, JumpIAbove
<1>6. Step(f, T, Pop(1), Move(a, 1), a)
  BY <1>2, PopAbove
<1>7. /\ Step(f, T, Jump(t2), a, e) /\ Step(f, T, Adjust(1), e, Move(a, 1))
  <2>1. /\ Step(f, T, Jump(t2), Move(a, 0), e) /\ Step(f, T, Adjust(1 - 0), e, Move(a, 1))
    BY <1>2, JumpAbove
  <2> QED BY <1>2, <2>1
<1>8. /\ Step(f, T, Jump(t3), a, e)
  <2>1. /\ Step(f, T, Jump(t3), Move(a, 0), e)
    BY <1>2, JumpAbove
  <2> QED BY <1>2, <2>1
<1>9. Step(f, T, Place(t1), Move(a, 1), Move(a, 1))
  BY PlaceAbove
<1> HIDE DEF e
<1>10. Flow(f, T, <<Push(vals), Condition, JumpI(t1), Pop(1), Jump(t2), Adjust(1), Place(t1)>>, a, Move(a, 1))
  BY <1>3, <1>4, <1>5, <1>6, <1>7, <1>9, Chain7
<1>11. Flow(f, T, Clause(c), Move(a, 1), a)
  <2> DEFINE b == Move(a, 1)
             k == 0 - SizeOnStack(c.params)
  <2>1. Shaped(b) /\ Sync(f, b) /\ b.h = a.h + 1 /\ Clear(b, c.block) /\ Move(b, -1) = Move(a, 1 + (-1))
    BY Above
  <2>2. b.h - 1 >= Surplus(f) /\ 1 + (-1) = 0 /\ k = -1
    BY <1>1, <1>2, <2>1 DEF Sync
  <2> HIDE DEF b
  <2>3. Flow(f, T, Clause(c), b, Move(b, k))
    BY <1>1, <2>1, <2>2, FlowClause
  <2>4. Move(b, k) = a
    BY <1>2, <2>1, <2>2
  <2> QED BY <2>3, <2>4 DEF b
<1>12. Flow(f, T, <<Jump(t3), Adjust(1)>>, a, Move(a, 1))
  BY <1>7, <1>8, Chain2
<1> DEFINE p1 == <<Push(vals), Condition, JumpI(t1), Pop(1), Jump(t2), Adjust(1), Place(t1)>>
           p2 == Clause(c)
           p3 == <<Jump(t3), Adjust(1)>>
<1>13. DecodedClause(c, t1, t2, t3) = (p1 \o p2) \o p3
  BY DEF DecodedClause, vals
<1>0. Has(p1, Place(t1))
  BY DEF Has
<1> HIDE DEF p1, p2, p3
<1>14. Flow(f, T, p1 \o p2, a, a)
  BY <1>10, <1>11, FlowConcat DEF p1, p2
<1>15. Flow(f, T, (p1 \o p2) \o p3, a, Move(a, 1))
  BY <1>14, <1>12, FlowConcat DEF p3
<1>16. Has((p1 \o p2) \o p3, Place(t1))
  <2>1. IsSeq(p1) /\ IsSeq(p2) /\ IsSeq(p3)
    BY <1>10, <1>11, <1>12, FlowSeq DEF p1, p2, p3
  <2>2. IsSeq(p1 \o p2) /\ Has(p1 \o p2, Place(t1))
    BY <1>0, <2>1, HasEither
  <2> QED BY <2>1, <2>2, HasEither
<1> QED BY <1>13, <1>15, <1>16

\* What a try statement consists of.
LEMMA TryParts ==
  ASSUME NEW s \in Statements, s.kind = "try"
  PROVE  /\ s.returns \in Seq(Variable) /\ s.success \in Clauses /\ s.success.block \in Parts(s)
         /\ s.success.params \in {<<>>, s.returns}
         /\ s.error # <<>> => s.error[1] \in DataClauses /\ s.error[1].block \in Parts(s)
         /\ s.panic # <<>> => s.panic[1] \in DataClauses /\ s.panic[1].block \in Parts(s)
         /\ s.fallback # <<>> => s.fallback[1] \in Clauses /\ s.fallback[1].block \in Parts(s)
<1>1. s \in Statement /\ s.success.params \in {<<>>, s.returns}
  BY StatementsAssumption
<1>2. /\ s.returns \in Seq(Variable) /\ s.success \in Clauses /\ s.error \in Optional(DataClauses)
      /\ s.panic \in Optional(DataClauses) /\ s.fallback \in Optional(Clauses)
  BY <1>1 DEF Statement
<1>3. Parts(s) = {c.block : c \in {s.success} \cup ToSet(s.error) \cup ToSet(s.panic) \cup ToSet(s.fallback)}
  BY DEF Parts
<1>4. ASSUME NEW S, NEW q \in Optional(S), q # <<>> PROVE q[1] \in S /\ q[1] \in ToSet(q)
  <2>1. q \in Seq(S)
    BY DEF Optional
  <2>2. Len(q) \in Nat \ {0}
    BY <1>4, <2>1, EmptySeq, LenProperties
  <2>3. 1 \in DOMAIN q /\ 1 \in 1..Len(q)
    BY <2>1, <2>2, LenProperties
  <2> QED BY <2>1, <2>3, ElementOfSeq DEF ToSet
<1>5. s.error # <<>> => s.error[1] \in DataClauses /\ s.error[1] \in ToSet(s.error)
  BY <1>2, <1>4
<1>6. s.panic # <<>> => s.panic[1] \in DataClauses /\ s.panic[1] \in ToSet(s.panic)
  BY <1>2, <1>4
<1>7. s.fallback # <<>> => s.fallback[1] \in Clauses /\ s.fallback[1] \in ToSet(s.fallback)
  BY <1>2, <1>4
<1>8. \A c \in {s.success} \cup ToSet(s.error) \cup ToSet(s.panic) \cup ToSet(s.fallback) : c.block \in Parts(s)
  BY <1>3
<1> QED BY <1>1, <1>2, <1>5, <1>6, <1>7, <1>8

\* Whether the selector of the error data is on the stack.
SelectorSize(s) == IF s.error # <<>> \/ s.panic # <<>> THEN 1 ELSE 0

LEMMA FlowCatch ==
  ASSUME NEW f, NEW T, Surplus(f) \in Nat, NEW a, Shaped(a), Sync(f, a), NEW s \in Statements, s.kind = "try",
         Clear(a, s), NEW t3 \in DOMAIN T, NEW t4 \in DOMAIN T, NEW t5 \in DOMAIN T, NEW t6, NEW t7,
         T[t3] = a.h, T[t4] = a.h, T[t5] = a.h + SelectorSize(s),
         s.error # <<>> => t6 \in DOMAIN T /\ T[t6] = a.h + 1,
         s.panic # <<>> => t7 \in DOMAIN T /\ T[t7] = a.h + 1
  PROVE  /\ Flow(f, T, HandleCatch(s, t3, t4, t5, t6, t7), a, a)
         /\ \A t \in {t3, t4, t5} : Has(HandleCatch(s, t3, t4, t5, t6, t7), Place(t))
         /\ s.error # <<>> => Has(HandleCatch(s, t3, t4, t5, t6, t7), Place(t6))
         /\ s.panic # <<>> => Has(HandleCatch(s, t3, t4, t5, t6, t7), Place(t7))
<1> DEFINE k == SelectorSize(s)
           selector == s.error # <<>> \/ s.panic # <<>>
           b == Move(a, k)
           p1 == IF selector THEN <<Push(<<Temp>>)>> ELSE <<>>
           p2 == IF s.error = <<>> THEN <<>>
                   ELSE <<Condition, JumpI(t5), Pop(1)>> \o DecodedClause(s.error[1], t6, t4, t3)
           p3 == <<Place(t5)>>
           p4 == IF s.panic = <<>> THEN <<>>
                   ELSE <<Pop(1), Condition, JumpI(t4)>> \o DecodedClause(s.panic[1], t7, t4, t3)
           p5 == IF selector THEN <<Pop(1)>> ELSE <<>>
           p6 == <<Place(t4)>>
           p7 == IF s.fallback = <<>> THEN <<Emit("revert", 0, <<>>)>>
                   ELSE <<Push(AllSlots(s.fallback[1].params, "value"))>> \o Clause(s.fallback[1])
           p8 == <<Place(t3)>>
<1>1. HandleCatch(s, t3, t4, t5, t6, t7) = ((((((p1 \o p2) \o p3) \o p4) \o p5) \o p6) \o p7) \o p8
  BY DEF HandleCatch
<1>2. /\ a.h \in Int /\ Move(a, 0) = a /\ a.h + 0 = a.h /\ 0 + 1 = 1 /\ 1 + 1 = 2
  BY MoveZero DEF Shaped
<1>3. k \in {0, 1} /\ (selector => k = 1) /\ (~selector => k = 0)
  BY DEF SelectorSize
<1>4. Flow(f, T, p1, a, b)
  <2>1. CASE selector
    <3>1. Step(f, T, Push(<<Temp>>), a, Move(a, 1))
      <4>1. Step(f, T, Condition, Move(a, 0), Move(a, 0 + 1))
        BY ConditionAbove
      <4> QED BY <1>2, <4>1 DEF Condition
    <3>2. Flow(f, T, <<Push(<<Temp>>)>>, a, Move(a, 1))
      BY <3>1, Chain1
    <3> QED BY <1>3, <2>1, <3>2
  <2>2. CASE ~selector
    BY <1>2, <1>3, <2>2, FlowNone
  <2> QED BY <2>1, <2>2
<1>5. Flow(f, T, p2, b, b) /\ (s.error # <<>> => Has(p2, Place(t6)))
  <2>1. CASE s.error = <<>>
    BY <2>1, FlowNone
  <2>2. CASE s.error # <<>>
    <3> DEFINE c == s.error[1]
    <3>1. b = Move(a, 1) /\ T[t5] = a.h + 1
      BY <1>3, <2>2
    <3>2. c \in DataClauses /\ c.block \in Parts(s)
      BY <2>2, TryParts
    <3>3. Clear(a, c.block)
      BY <3>2, ClearPart
    <3>4. /\ Flow(f, T, DecodedClause(c, t6, t4, t3), a, Move(a, 1))
          /\ Has(DecodedClause(c, t6, t4, t3), Place(t6))
      <4> HIDE DEF c
      <4> QED BY <2>2, <3>2, <3>3, FlowDecoded
    <3>5. Step(f, T, Condition, Move(a, 1), Move(a, 2))
      BY <1>2, ConditionAbove
    <3>6. Step(f, T, JumpI(t5), Move(a, 2), Move(a, 1))
      BY <1>2, <3>1, JumpIAbove
    <3>7. Step(f, T, Pop(1), Move(a, 1), a)
      BY <1>2, PopAbove
    <3>8. Flow(f, T, <<Condition, JumpI(t5), Pop(1)>>, Move(a, 1), a)
      BY <3>5, <3>6, <3>7, Chain3
    <3>9. Flow(f, T, <<Condition, JumpI(t5), Pop(1)>> \o DecodedClause(c, t6, t4, t3), Move(a, 1), Move(a, 1))
      BY <3>4, <3>8, FlowConcat
    <3>10. Has(<<Condition, JumpI(t5), Pop(1)>> \o DecodedClause(c, t6, t4, t3), Place(t6))
      BY <3>4, <3>8, FlowSeq, HasRight
    <3> QED BY <2>2, <3>1, <3>9, <3>10
  <2> QED BY <2>1, <2>2
<1>6. Flow(f, T, p3, b, b)
  <2>1. k \in Nat /\ T[t5] = a.h + k
    BY <1>3
  <2> HIDE DEF k
  <2>2. Step(f, T, Place(t5), b, b)
    BY <2>1, PlaceAbove
  <2> HIDE DEF b
  <2> QED BY <2>2, Chain1
<1>7. Flow(f, T, p4, b, b) /\ (s.panic # <<>> => Has(p4, Place(t7)))
  <2>1. CASE s.panic = <<>>
    BY <2>1, FlowNone
  <2>2. CASE s.panic # <<>>
    <3> DEFINE c == s.panic[1]
    <3>1. b = Move(a, 1) /\ T[t4] = a.h + 0
      BY <1>2, <1>3, <2>2
    <3>2. c \in DataClauses /\ c.block \in Parts(s)
      BY <2>2, TryParts
    <3>3. Clear(a, c.block)
      BY <3>2, ClearPart
    <3>4. /\ Flow(f, T, DecodedClause(c, t7, t4, t3), a, Move(a, 1))
          /\ Has(DecodedClause(c, t7, t4, t3), Place(t7))
      <4> HIDE DEF c
      <4> QED BY <2>2, <3>2, <3>3, FlowDecoded
    <3>5. Step(f, T, Pop(1), Move(a, 1), a)
      BY <1>2, PopAbove
    <3>6. Step(f, T, Condition, a, Move(a, 1))
      BY <1>2, ConditionAbove
    <3>7. Step(f, T, JumpI(t4), Move(a, 1), a)
      <4>1. Step(f, T, JumpI(t4), Move(a, 0 + 1), Move(a, 0))
        BY <3>1, JumpIAbove
      <4> QED BY <1>2, <4>1
    <3>8. Flow(f, T, <<Pop(1), Condition, JumpI(t4)>>, Move(a, 1), a)
      BY <3>5, <3>6, <3>7, Chain3
    <3>9. Flow(f, T, <<Pop(1), Condition, JumpI(t4)>> \o DecodedClause(c, t7, t4, t3), Move(a, 1), Move(a, 1))
      BY <3>4, <3>8, FlowConcat
    <3>10. Has(<<Pop(1), Condition, JumpI(t4)>> \o DecodedClause(c, t7, t4, t3), Place(t7))
      BY <3>4, <3>8, FlowSeq, HasRight
    <3> QED BY <2>2, <3>1, <3>9, <3>10
  <2> QED BY <2>1, <2>2
<1>8. Flow(f, T, p5, b, a)
  <2>1. CASE selector
    <3>1. Step(f, T, Pop(1), Move(a, 1), a)
      BY <1>2, PopAbove
    <3>2. Flow(f, T, <<Pop(1)>>, Move(a, 1), a)
      BY <3>1, Chain1
    <3> QED BY <1>3, <2>1, <3>2
  <2>2. CASE ~selector
    BY <1>2, <1>3, <2>2, FlowNone
  <2> QED BY <2>1, <2>2
<1>9. Flow(f, T, p6, a, a) /\ Flow(f, T, p8, a, a)
  <2>1. a.g >= Surplus(f) /\ T[t4] = a.g /\ T[t3] = a.g
    BY DEF Sync
  <2>2. Step(f, T, Place(t4), a, a) /\ Step(f, T, Place(t3), a, a)
    BY <2>1, StepPlace
  <2> QED BY <2>2, Chain1
<1>10. Flow(f, T, p7, a, a)
  <2>1. CASE s.fallback = <<>>
    <3> DEFINE t == Emit("revert", 0, <<>>)
    <3>1. t.do = "emit" /\ (t.op = "revert" \/ (t.op = "jump" /\ t.n \in DOMAIN T /\ T[t.n] = a.h))
      BY DEF Emit
    <3> HIDE DEF t
    <3>2. \A g \in Int : Step(f, T, t, a, At(a, a.h, g))
      BY <3>1, StepAway
    <3>3. At(a, a.h, a.h) = a
      <4>1. a.h = a.g
        BY DEF Sync
      <4> QED BY <1>2, <4>1, AtShape, SamePoint
    <3>4. Flow(f, T, <<t>>, a, a)
      BY <1>2, <3>2, <3>3, Chain1
    <3> QED BY <2>1, <3>4 DEF t
  <2>2. CASE s.fallback # <<>>
    <3> DEFINE c == s.fallback[1]
               n == SizeOnStack(c.params)
               vals == AllSlots(c.params, "value")
               m == Move(a, n)
    <3>1. c \in Clauses /\ c.block \in Parts(s) /\ c.params \in Seq(Variable)
      BY <2>2, TryParts DEF Clauses
    <3>2. Clear(a, c.block)
      BY <3>1, ClearPart
    <3>3. n \in Nat /\ IsSeq(vals) /\ Len(vals) = n
      BY <3>1, SameSize
    <3>4. Flow(f, T, <<Push(vals)>>, a, m)
      <4>1. Step(f, T, Push(vals), a, Move(a, Len(vals)))
        BY <3>3, StepPush
      <4> QED BY <3>3, <4>1, Chain1
    <3>5. Flow(f, T, Clause(c), m, a)
      <4> DEFINE e == 0 - n
      <4>1. Shaped(m) /\ Sync(f, m) /\ m.h = a.h + n /\ Clear(m, c.block) /\ \A i \in Int : Move(m, i) = Move(a, n + i)
        <5>1. n \in Nat
          BY <3>3
        <5> HIDE DEF n, c
        <5>2. /\ Shaped(m) /\ Sync(f, m) /\ m.h = a.h + n /\ \A t : Clear(a, t) => Clear(m, t)
          BY <5>1, Above
        <5>3. \A i \in Int : Move(m, i) = Move(a, n + i)
          BY <5>1, Above
        <5> QED BY <3>2, <5>2, <5>3
      <4>2. m.h - n >= Surplus(f) /\ e \in Int /\ n + e = 0
        <5>1. n \in Nat /\ m.h = a.h + n /\ a.h >= Surplus(f)
          BY <3>3, <4>1 DEF Sync
        <5> HIDE DEF n, m
        <5> QED BY <1>2, <5>1
      <4>3. Flow(f, T, Clause(c), m, Move(m, e))
        <5> HIDE DEF m, c
        <5> QED BY <3>1, <4>1, <4>2, FlowClause
      <4> HIDE DEF m, e
      <4>4. Move(m, e) = a
        BY <1>2, <4>1, <4>2
      <4> QED BY <4>3, <4>4
    <3>6. Flow(f, T, <<Push(vals)>> \o Clause(c), a, a)
      BY <3>4, <3>5, FlowConcat
    <3> QED BY <2>2, <3>6
  <2> QED BY <2>1, <2>2
<1>0. Has(p3, Place(t5)) /\ Has(p6, Place(t4)) /\ Has(p8, Place(t3))
  BY DEF Has
<1> HIDE DEF p1, p2, p3, p4, p5, p6, p7, p8, b
<1>11. Flow(f, T, p1 \o p2, a, b)
  BY <1>4, <1>5, FlowConcat
<1>12. Flow(f, T, (p1 \o p2) \o p3, a, b)
  BY <1>6, <1>11, FlowConcat
<1>13. Flow(f, T, ((p1 \o p2) \o p3) \o p4, a, b)
  BY <1>7, <1>12, FlowConcat
<1>14. Flow(f, T, (((p1 \o p2) \o p3) \o p4) \o p5, a, a)
  BY <1>8, <1>13, FlowConcat
<1>15. Flow(f, T, ((((p1 \o p2) \o p3) \o p4) \o p5) \o p6, a, a)
  BY <1>9, <1>14, FlowConcat
<1>16. Flow(f, T, (((((p1 \o p2) \o p3) \o p4) \o p5) \o p6) \o p7, a, a)
  BY <1>10, <1>15, FlowConcat
<1>17. Flow(f, T, ((((((p1 \o p2) \o p3) \o p4) \o p5) \o p6) \o p7) \o p8, a, a)
  BY <1>9, <1>16, FlowConcat
<1>18. IsSeq(p1) /\ IsSeq(p2) /\ IsSeq(p3) /\ IsSeq(p4) /\ IsSeq(p5) /\ IsSeq(p6) /\ IsSeq(p7) /\ IsSeq(p8)
  BY <1>4, <1>5, <1>6, <1>7, <1>8, <1>9, <1>10, FlowSeq
<1> DEFINE q2 == p1 \o p2
           q3 == q2 \o p3
           q4 == q3 \o p4
           q5 == q4 \o p5
           q6 == q5 \o p6
           q7 == q6 \o p7
           q8 == q7 \o p8
<1>19. HandleCatch(s, t3, t4, t5, t6, t7) = q8 /\ Flow(f, T, q8, a, a)
  BY <1>1, <1>17
<1>20. IsSeq(q2) /\ \A t : Has(p2, t) => Has(q2, t)
  BY <1>18, HasEither
<1> HIDE DEF q2
<1>21. IsSeq(q3) /\ \A t : Has(q2, t) \/ Has(p3, t) => Has(q3, t)
  BY <1>18, <1>20, HasEither
<1> HIDE DEF q3
<1>22. IsSeq(q4) /\ \A t : Has(q3, t) \/ Has(p4, t) => Has(q4, t)
  BY <1>18, <1>21, HasEither
<1> HIDE DEF q4
<1>23. IsSeq(q5) /\ \A t : Has(q4, t) \/ Has(p5, t) => Has(q5, t)
  BY <1>18, <1>22, HasEither
<1> HIDE DEF q5
<1>24. IsSeq(q6) /\ \A t : Has(q5, t) \/ Has(p6, t) => Has(q6, t)
  BY <1>18, <1>23, HasEither
<1> HIDE DEF q6
<1>25. IsSeq(q7) /\ \A t : Has(q6, t) \/ Has(p7, t) => Has(q7, t)
  BY <1>18, <1>24, HasEither
<1> HIDE DEF q7
<1>26. \A t : Has(q7, t) \/ Has(p8, t) => Has(q8, t)
  BY <1>18, <1>25, HasEither
<1> HIDE DEF q8
<1>27. \A t : Has(p2, t) \/ Has(p3, t) \/ Has(p4, t) \/ Has(p6, t) \/ Has(p8, t) => Has(q8, t)
  BY <1>20, <1>21, <1>22, <1>23, <1>24, <1>25, <1>26
<1> QED BY <1>0, <1>5, <1>7, <1>19, <1>27

-----------------------------------------------------------------------------
(***************************************************************************)
(* The statements: the tasks that a visit becomes lead to the point where  *)
(* the visit leads.                                                        *)
(***************************************************************************)
LEMMA FrontAppend ==
  ASSUME NEW s, IsSeq(s), NEW e
  PROVE  Front(Append(s, e)) = s
<1> DEFINE A == {s[i] : i \in DOMAIN s} \cup {e}
<1>1. s \in Seq(A) /\ e \in A
  <2>1. s \in Seq({s[i] : i \in DOMAIN s}) /\ {s[i] : i \in DOMAIN s} \subseteq A
    BY DEF IsSeq
  <2> QED BY <2>1, SeqMonotonic
<1> HIDE DEF A
<1>2. Append(s, e) \in Seq(A) /\ Len(Append(s, e)) = Len(s) + 1 /\ Len(s) \in Nat
  BY <1>1, AppendProperties, LenProperties
<1>3. \A i \in 1..Len(s) : Append(s, e)[i] = s[i]
  BY <1>1, AppendProperties
<1>4. Front(Append(s, e)) = SubSeq(Append(s, e), 1, Len(s))
  BY <1>2 DEF Front
<1>5. /\ SubSeq(Append(s, e), 1, Len(s)) \in Seq(A) /\ Len(SubSeq(Append(s, e), 1, Len(s))) = Len(s)
      /\ \A i \in 1..Len(s) : SubSeq(Append(s, e), 1, Len(s))[i] = s[i]
  BY <1>1, <1>2, <1>3
<1> HIDE DEF Front
<1> QED BY <1>1, <1>4, <1>5, SeqEqual

\* What a scope encloses is visited at point Opened(a, id).
Opened(a, id) == WithScopes(a, a.sc \cup {[depth |-> a.depth, node |-> id, height |-> a.h]})

LEMMA FlowScope ==
  ASSUME NEW f, NEW T, Surplus(f) \in Nat, NEW a, Shaped(a), Sync(f, a), NEW id \in Node,
         \A e \in a.sc : ~(e.depth = a.depth /\ e.node = id)
  PROVE  LET b == Opened(a, id)
         IN /\ Shaped(b) /\ Sync(f, b) /\ b.h = a.h /\ b.br = a.br /\ b.co = a.co
            /\ Step(f, T, OpenScope(id), a, b)
            /\ \A d \in Nat : Step(f, T, CloseScope(id), Move(b, d), a)
            /\ \A s : Clear(a, s) /\ id \notin ScopesIn[s] => Clear(b, s)
<1> DEFINE e == [depth |-> a.depth, node |-> id, height |-> a.h]
           sc == a.sc \cup {e}
           b == Opened(a, id)
<1>0. a.h \in Int /\ a.g \in Int /\ a.depth \in Int /\ a.g = a.h /\ a.h >= Surplus(f)
  BY DEF Shaped, Sync
<1>1. /\ Shaped(b) /\ b.h = a.h /\ b.g = a.g /\ b.sc = sc /\ b.br = a.br /\ b.co = a.co /\ b.re = a.re
      /\ b.depth = a.depth
  BY <1>0, PointShaped DEF Opened, WithScopes
<1>2. Sync(f, b)
  BY <1>0, <1>1 DEF Sync
<1>3. Step(f, T, OpenScope(id), a, b)
  <2>1. OpenScope(id).do = "openScope" /\ OpenScope(id).node = id
    BY DEF OpenScope
  <2> QED BY <2>1 DEF Step, Opened
<1>4. e \notin a.sc /\ e \in sc /\ sc \ {e} = a.sc /\ e.depth = a.depth /\ e.node = id /\ e.height = a.h
  OBVIOUS
<1>5. \A x \in sc : x.depth = a.depth /\ x.node = id => x = e
  OBVIOUS
<1> HIDE DEF e, sc, b
<1>6. ASSUME NEW d \in Nat PROVE Step(f, T, CloseScope(id), Move(b, d), a)
  <2> DEFINE m == Move(b, d)
  <2>1. Shaped(m) /\ Sync(f, m)
    BY <1>1, <1>2, Above
  <2>2. m.sc = sc /\ m.br = a.br /\ m.co = a.co /\ m.re = a.re /\ m.depth = a.depth
    BY <1>1, MoveShape
  <2> HIDE DEF m
  <2>3. At(WithScopes(m, m.sc \ {e}), e.height, e.height) = a
    <3>1. At(WithScopes(m, m.sc \ {e}), e.height, e.height) = Point(a.h, a.g, a.sc, a.br, a.co, a.re, a.depth)
      BY <1>0, <1>4, <2>2 DEF At, WithScopes, Point
    <3>2. Point(a.h, a.g, a.sc, a.br, a.co, a.re, a.depth) = a
      BY DEF Point, Shaped
    <3> QED BY <3>1, <3>2
  <2>4. CloseScope(id).do = "closeScope" /\ CloseScope(id).node = id
    BY DEF CloseScope
  <2>5. \E y \in m.sc : /\ y.depth = m.depth /\ y.node = id
                        /\ \A x \in m.sc : x.depth = m.depth /\ x.node = id => x = y
                        /\ a = At(WithScopes(m, m.sc \ {y}), y.height, y.height)
    BY <1>4, <1>5, <2>2, <2>3
  <2>6. Step(f, T, CloseScope(id), m, a)
    BY <2>1, <2>4, <2>5 DEF Step
  <2> QED BY <2>6 DEF m
<1>7. ASSUME NEW s, Clear(a, s), id \notin ScopesIn[s] PROVE Clear(b, s)
  BY <1>1, <1>4, <1>7 DEF Clear, sc
<1> QED BY <1>1, <1>2, <1>3, <1>6, <1>7 DEF b

LEMMA FlowBlock ==
  ASSUME NEW f, NEW T, Surplus(f) \in Nat, NEW a, Shaped(a), Sync(f, a), NEW s \in Statements,
         s.kind = "block", Clear(a, s)
  PROVE  Flow(f, T, <<OpenScope(s.id)>> \o Visits(s.body) \o <<CloseScope(s.id)>>, a, a)
<1> DEFINE b == Opened(a, s.id)
<1>1. s.id \in Node /\ s.body \in Seq(Statements)
  <2>1. s \in Statement
    BY StatementsAssumption
  <2> QED BY <2>1 DEF Statement
<1>2. s.id \in ScopesIn[s] /\ \A c \in Parts(s) : s.id \notin ScopesIn[c]
  BY StatementsAssumption
<1>3. \A e \in a.sc : ~(e.depth = a.depth /\ e.node = s.id)
  BY <1>2 DEF Clear
<1>4. /\ Shaped(b) /\ Sync(f, b) /\ Step(f, T, OpenScope(s.id), a, b)
      /\ \A d \in Nat : Step(f, T, CloseScope(s.id), Move(b, d), a)
      /\ \A c : Clear(a, c) /\ s.id \notin ScopesIn[c] => Clear(b, c)
  BY <1>1, <1>3, FlowScope
<1> HIDE DEF b
<1>5. \A i \in 1..Len(s.body) : Clear(b, s.body[i])
  <2>1. Parts(s) = ToSet(s.body)
    BY DEF Parts
  <2>2. \A i \in 1..Len(s.body) : s.body[i] \in Parts(s)
    BY <1>1, <2>1, LenProperties DEF ToSet
  <2> QED BY <1>2, <1>4, <2>2, ClearPart
<1>6. PICK d \in Nat : Flow(f, T, Visits(s.body), b, Move(b, d))
  BY <1>1, <1>4, <1>5, FlowVisits
<1>7. Flow(f, T, <<OpenScope(s.id)>>, a, b) /\ Flow(f, T, <<CloseScope(s.id)>>, Move(b, d), a)
  BY <1>4, Chain1
<1>8. Flow(f, T, <<OpenScope(s.id)>> \o Visits(s.body), a, Move(b, d))
  BY <1>6, <1>7, FlowConcat
<1> QED BY <1>7, <1>8, FlowConcat

LEMMA FlowDeclare ==
  ASSUME NEW f, NEW T, Surplus(f) \in Nat, NEW a, Shaped(a), Sync(f, a), NEW s \in Statements, s.kind = "declare"
  PROVE  Flow(f, T, FlattenSeq([i \in 1..Len(s.vars) |-> InitialiseVariable(s.vars[i])])
                      \o (IF s.init THEN <<Push(AllSlots(s.vars, "value"))>> \o AssignAll(s.vars) ELSE <<>>)
                      \o <<Check(a.h + SizeOnStack(s.vars))>>, a, Move(a, StatementSize(s)))
<1> DEFINE n == SizeOnStack(s.vars)
           b == Move(a, n)
           p1 == FlattenSeq([i \in 1..Len(s.vars) |-> InitialiseVariable(s.vars[i])])
           p2 == IF s.init THEN <<Push(AllSlots(s.vars, "value"))>> \o AssignAll(s.vars) ELSE <<>>
           p3 == <<Check(a.h + n)>>
<1>1. s.vars \in Seq(Variable)
  <2>1. s \in Statement
    BY StatementsAssumption
  <2> QED BY <2>1 DEF Statement
<1>2. n \in Nat /\ StatementSize(s) = n
  BY <1>1, SameSize DEF StatementSize
<1>3. Flow(f, T, p1, a, b)
  BY <1>1, FlowInit DEF InitialiseVariable
<1>4. Shaped(b) /\ Sync(f, b) /\ b.h = a.h + n
  <2> HIDE DEF n
  <2> QED BY <1>2, Above
<1>5. Flow(f, T, p2, b, b)
  <2>1. CASE s.init
    <3>1. Flow(f, T, <<Push(AllSlots(s.vars, "value"))>> \o AssignAll(s.vars), b, b)
      <4> HIDE DEF b
      <4> QED BY <1>1, <1>4, FlowStore
    <3> QED BY <2>1, <3>1
  <2>2. CASE ~s.init
    BY <2>2, FlowNone
  <2> QED BY <2>1, <2>2
<1>6. Flow(f, T, p3, b, b)
  <2> HIDE DEF b, n
  <2>1. Step(f, T, Check(a.h + n), b, b)
    BY <1>4, CheckHere
  <2> QED BY <2>1, Chain1
<1> HIDE DEF p1, p2, p3, b
<1>7. Flow(f, T, p1 \o p2, a, b)
  BY <1>3, <1>5, FlowConcat
<1>8. Flow(f, T, (p1 \o p2) \o p3, a, b)
  BY <1>6, <1>7, FlowConcat
<1> QED BY <1>2, <1>8 DEF p1, p2, p3, b

LEMMA FlowEval ==
  ASSUME NEW f, NEW T, Surplus(f) \in Nat, NEW a, Shaped(a), Sync(f, a), NEW v
  PROVE  Flow(f, T, <<Push(<<v>>), Pop(1), Check(a.h)>>, a, a)
<1>0. Move(a, 0) = a /\ 0 + 1 = 1
  BY MoveZero
<1>1. IsSeq(<<v>>) /\ Len(<<v>>) = 1
  BY Short
<1>2. Step(f, T, Push(<<v>>), a, Move(a, 1))
  <2>1. Step(f, T, Push(<<v>>), a, Move(a, Len(<<v>>)))
    BY <1>1, StepPush
  <2> QED BY <1>1, <2>1
<1>3. Step(f, T, Pop(1), Move(a, 1), a)
  BY <1>0, PopAbove
<1>4. Step(f, T, Check(a.h), a, a)
  BY CheckHere
<1> QED BY <1>2, <1>3, <1>4, Chain3

LEMMA FlowUse ==
  ASSUME NEW f, NEW T, Surplus(f) \in Nat, NEW a, Shaped(a), Sync(f, a), NEW x \in Variable
  PROVE  Flow(f, T, <<[do |-> "read", x |-> x], Pop(x.size), Check(a.h)>>, a, a)
<1> DEFINE t == [do |-> "read", x |-> x]
<1>1. x.size \in Nat /\ Move(a, 0) = a /\ 0 + x.size = x.size
  BY MoveZero DEF Variable
<1>2. t.do = "read" /\ t.x = x
  OBVIOUS
<1> HIDE DEF t
<1>3. Step(f, T, t, a, Move(a, x.size))
  BY <1>2 DEF Step
<1>4. Step(f, T, Pop(x.size), Move(a, x.size), a)
  BY <1>1, PopAbove
<1>5. Step(f, T, Check(a.h), a, a)
  BY CheckHere
<1>6. Flow(f, T, <<t, Pop(x.size), Check(a.h)>>, a, a)
  BY <1>3, <1>4, <1>5, Chain3
<1> QED BY <1>6 DEF t

\* Conditions, jumps and tags without anything else on the stack.
LEMMA LevelSteps ==
  ASSUME NEW f, NEW T, Surplus(f) \in Nat, NEW a, Shaped(a), Sync(f, a), NEW t \in DOMAIN T, T[t] = a.h
  PROVE  /\ Step(f, T, Condition, a, Move(a, 1)) /\ Step(f, T, JumpI(t), Move(a, 1), a)
         /\ Step(f, T, Jump(t), a, a) /\ Step(f, T, Place(t), a, a)
<1>1. Move(a, 0) = a /\ a.h + 0 = a.h /\ 0 + 1 = 1
  BY MoveZero DEF Shaped
<1>2. Step(f, T, Condition, a, Move(a, 1))
  BY <1>1, ConditionAbove
<1>3. Step(f, T, JumpI(t), Move(a, 1), a)
  BY <1>1, JumpIAbove
<1>4. Step(f, T, Jump(t), a, a)
  <2> DEFINE b == At(a, a.h + 0, a.h + 0)
  <2>1. Step(f, T, Jump(t), Move(a, 0), b) /\ b = Move(a, 0)
    BY <1>1, JumpAbove
  <2> QED BY <1>1, <2>1
<1>5. Step(f, T, Place(t), a, a)
  BY <1>1, PlaceAbove
<1> QED BY <1>2, <1>3, <1>4, <1>5

LEMMA StepSingle ==
  ASSUME NEW f, NEW T, NEW a, Shaped(a), Sync(f, a), NEW s \in Single, Clear(a, s)
  PROVE  Step(f, T, Visit(s), a, a)
BY StepVisit DEF Single

IfTasks(s, h, t1, t2) ==
    <<Condition, JumpI(t1), Visit(s.then)>>
      \o (IF s.else = <<>> THEN <<Place(t1)>>
            ELSE <<Jump(t2), Place(t1)>> \o Visits(s.else) \o <<Place(t2)>>)
      \o <<Check(h)>>

LEMMA FlowIf ==
  ASSUME NEW f, NEW T, Surplus(f) \in Nat, NEW a, Shaped(a), Sync(f, a), NEW s \in Statements, s.kind = "if",
         Clear(a, s), NEW t1 \in DOMAIN T, T[t1] = a.h, NEW t2,
         s.else # <<>> => t2 \in DOMAIN T /\ T[t2] = a.h
  PROVE  /\ Flow(f, T, IfTasks(s, a.h, t1, t2), a, a)
         /\ Has(IfTasks(s, a.h, t1, t2), Place(t1))
         /\ s.else # <<>> => Has(IfTasks(s, a.h, t1, t2), Place(t2))
<1> DEFINE p1 == <<Condition, JumpI(t1), Visit(s.then)>>
           p2 == IF s.else = <<>> THEN <<Place(t1)>>
                   ELSE <<Jump(t2), Place(t1)>> \o Visits(s.else) \o <<Place(t2)>>
           p3 == <<Check(a.h)>>
<1>1. s.then \in Single /\ s.else \in Seq(Single)
  <2>1. s \in Statement
    BY StatementsAssumption
  <2> QED BY <2>1 DEF Statement, Optional
<1>2. Parts(s) = {s.then} \cup ToSet(s.else)
  BY DEF Parts
<1>3. Clear(a, s.then) /\ \A i \in 1..Len(s.else) : Clear(a, s.else[i])
  <2>1. \A i \in 1..Len(s.else) : s.else[i] \in Parts(s)
    BY <1>1, <1>2, LenProperties DEF ToSet
  <2> QED BY <1>2, <2>1, ClearPart
<1>4. /\ Step(f, T, Condition, a, Move(a, 1)) /\ Step(f, T, JumpI(t1), Move(a, 1), a)
      /\ Step(f, T, Place(t1), a, a)
  BY LevelSteps
<1>5. Flow(f, T, p1, a, a)
  <2>1. Step(f, T, Visit(s.then), a, a)
    BY <1>1, <1>3, StepSingle
  <2> QED BY <1>4, <2>1, Chain3
<1>6. Flow(f, T, p2, a, a)
  <2>1. CASE s.else = <<>>
    <3>1. Flow(f, T, <<Place(t1)>>, a, a)
      BY <1>4, Chain1
    <3> QED BY <2>1, <3>1
  <2>2. CASE s.else # <<>>
    <3>1. Step(f, T, Jump(t2), a, a) /\ Step(f, T, Place(t2), a, a)
      BY <2>2, LevelSteps
    <3>2. Flow(f, T, <<Jump(t2), Place(t1)>>, a, a)
      BY <1>4, <3>1, Chain2
    <3>3. Flow(f, T, Visits(s.else), a, a)
      BY <1>1, <1>3, FlowSingles
    <3>4. Flow(f, T, <<Place(t2)>>, a, a)
      BY <3>1, Chain1
    <3>5. Flow(f, T, <<Jump(t2), Place(t1)>> \o Visits(s.else), a, a)
      BY <3>2, <3>3, FlowConcat
    <3>6. Flow(f, T, <<Jump(t2), Place(t1)>> \o Visits(s.else) \o <<Place(t2)>>, a, a)
      BY <3>4, <3>5, FlowConcat
    <3> QED BY <2>2, <3>6
  <2> QED BY <2>1, <2>2
<1>7. Flow(f, T, p3, a, a)
  <2>1. Step(f, T, Check(a.h), a, a)
    BY CheckHere
  <2> QED BY <2>1, Chain1
<1>8. Has(p2, Place(t1)) /\ (s.else # <<>> => Has(p2, Place(t2)))
  <2>1. CASE s.else = <<>>
    BY <2>1 DEF Has
  <2>2. CASE s.else # <<>>
    <3> DEFINE q1 == <<Jump(t2), Place(t1)>>
               q2 == Visits(s.else)
               q3 == <<Place(t2)>>
    <3>1. Has(q1, Place(t1)) /\ Has(q3, Place(t2))
      BY DEF Has
    <3>2. IsSeq(q1) /\ IsSeq(q2) /\ IsSeq(q3)
      BY <1>1, <1>3, FlowSingles, FlowSeq, Short
    <3> HIDE DEF q1, q2, q3
    <3>3. IsSeq(q1 \o q2) /\ Has(q1 \o q2, Place(t1))
      BY <3>1, <3>2, HasEither
    <3>4. Has((q1 \o q2) \o q3, Place(t1)) /\ Has((q1 \o q2) \o q3, Place(t2))
      BY <3>1, <3>2, <3>3, HasEither
    <3> QED BY <2>2, <3>4 DEF q1, q2, q3
  <2> QED BY <2>1, <2>2
<1> HIDE DEF p1, p2, p3
<1>9. Flow(f, T, p1 \o p2, a, a)
  BY <1>5, <1>6, FlowConcat
<1>10. Flow(f, T, (p1 \o p2) \o p3, a, a)
  BY <1>7, <1>9, FlowConcat
<1>11. \A t : Has(p2, t) => Has((p1 \o p2) \o p3, t)
  <2>1. IsSeq(p1) /\ IsSeq(p2) /\ IsSeq(p3)
    BY <1>5, <1>6, <1>7, FlowSeq
  <2>2. IsSeq(p1 \o p2) /\ \A t : Has(p2, t) => Has(p1 \o p2, t)
    BY <2>1, HasEither
  <2> QED BY <2>1, <2>2, HasEither
<1>12. IfTasks(s, a.h, t1, t2) = (p1 \o p2) \o p3
  BY DEF IfTasks, p1, p2, p3
<1> QED BY <1>8, <1>10, <1>11, <1>12

\* What a loop encloses is visited at point InLoop(a, b, c).
InLoop(a, b, c) == WithLoops(a, Append(a.br, [tag |-> b, height |-> a.h]),
                                Append(a.co, [tag |-> c, height |-> a.h]))

LEMMA FlowLoop ==
  ASSUME NEW f, NEW T, Surplus(f) \in Nat, NEW a, Shaped(a), Sync(f, a), IsSeq(a.br), IsSeq(a.co),
         NEW b \in DOMAIN T, NEW c \in DOMAIN T, T[b] = a.h, T[c] = a.h
  PROVE  LET m == InLoop(a, b, c)
         IN /\ Shaped(m) /\ Sync(f, m) /\ m.h = a.h
            /\ Step(f, T, OpenLoop(b, c), a, m) /\ Step(f, T, CloseLoop, m, a)
            /\ \A s : Clear(a, s) => Clear(m, s)
<1> DEFINE m == InLoop(a, b, c)
           x == [tag |-> b, height |-> a.h]
           y == [tag |-> c, height |-> a.h]
<1>0. a.h \in Int /\ a.g \in Int /\ a.depth \in Int /\ a.g = a.h /\ a.h >= Surplus(f)
  BY DEF Shaped, Sync
<1>1. /\ Shaped(m) /\ m.h = a.h /\ m.g = a.g /\ m.sc = a.sc /\ m.br = Append(a.br, x) /\ m.co = Append(a.co, y)
      /\ m.re = a.re /\ m.depth = a.depth
  <2> DEFINE br == Append(a.br, x)
             co == Append(a.co, y)
  <2>1. m = Point(a.h, a.g, a.sc, br, co, a.re, a.depth)
    BY DEF InLoop, WithLoops
  <2> HIDE DEF m, x, y, br, co
  <2>2. m = Point(a.h, a.g, a.sc, br, co, a.re, a.depth) =>
          /\ Shaped(m) /\ m.h = a.h /\ m.g = a.g /\ m.sc = a.sc /\ m.br = br /\ m.co = co
          /\ m.re = a.re /\ m.depth = a.depth
    BY <1>0, PointShaped
  <2> QED BY <2>1, <2>2 DEF br, co
<1>2. Sync(f, m)
  BY <1>0, <1>1 DEF Sync
<1>3. Step(f, T, OpenLoop(b, c), a, m)
  <2>1. OpenLoop(b, c).do = "openLoop" /\ OpenLoop(b, c).b = b /\ OpenLoop(b, c).c = c
    BY DEF OpenLoop
  <2> QED BY <2>1 DEF Step, InLoop
<1> HIDE DEF m, x, y
<1>4. Step(f, T, CloseLoop, m, a)
  <2>1. Front(m.br) = a.br /\ Front(m.co) = a.co /\ m.br # <<>> /\ m.co # <<>>
    <3>1. Len(m.br) = Len(a.br) + 1 /\ Len(m.co) = Len(a.co) + 1 /\ Len(a.br) \in Nat /\ Len(a.co) \in Nat
      BY <1>1, IsSeqAppend, IsSeqLen
    <3>2. m.br # <<>> /\ m.co # <<>>
      BY <3>1, NoneIsSeq
    <3> QED BY <1>1, <3>2, FrontAppend
  <2>2. WithLoops(m, Front(m.br), Front(m.co)) = Point(a.h, a.g, a.sc, a.br, a.co, a.re, a.depth)
    BY <1>1, <2>1 DEF WithLoops
  <2>3. Point(a.h, a.g, a.sc, a.br, a.co, a.re, a.depth) = a
    BY DEF Point, Shaped
  <2>4. CloseLoop.do = "closeLoop"
    BY DEF CloseLoop
  <2> QED BY <1>2, <2>1, <2>2, <2>3, <2>4 DEF Step
<1>5. ASSUME NEW s, Clear(a, s) PROVE Clear(m, s)
  BY <1>1, <1>5 DEF Clear
<1> QED BY <1>1, <1>2, <1>3, <1>4, <1>5 DEF m

LEMMA FlowWhile ==
  ASSUME NEW f, NEW T, Surplus(f) \in Nat, NEW a, Shaped(a), Sync(f, a), IsSeq(a.br), IsSeq(a.co),
         NEW s \in Single, Clear(a, s),
         NEW t1 \in DOMAIN T, NEW t2 \in DOMAIN T, T[t1] = a.h, T[t2] = a.h
  PROVE  Flow(f, T, <<OpenLoop(t2, t1), Place(t1), Condition, JumpI(t2), Visit(s), Jump(t1), Place(t2),
                      CloseLoop, Check(a.h)>>, a, a)
<1> DEFINE m == InLoop(a, t2, t1)
<1>1. /\ Shaped(m) /\ Sync(f, m) /\ m.h = a.h /\ Clear(m, s)
      /\ Step(f, T, OpenLoop(t2, t1), a, m) /\ Step(f, T, CloseLoop, m, a)
  BY FlowLoop
<1> HIDE DEF m
<1>2. /\ Step(f, T, Condition, m, Move(m, 1)) /\ Step(f, T, JumpI(t2), Move(m, 1), m)
      /\ Step(f, T, Jump(t1), m, m) /\ Step(f, T, Place(t2), m, m) /\ Step(f, T, Place(t1), m, m)
  BY <1>1, LevelSteps
<1>3. Step(f, T, Visit(s), m, m)
  BY <1>1, StepSingle
<1>4. Step(f, T, Check(a.h), a, a)
  BY CheckHere
<1> QED BY <1>1, <1>2, <1>3, <1>4, Chain9

LEMMA FlowDoWhile ==
  ASSUME NEW f, NEW T, Surplus(f) \in Nat, NEW a, Shaped(a), Sync(f, a), IsSeq(a.br), IsSeq(a.co),
         NEW s \in Single, Clear(a, s),
         NEW t1 \in DOMAIN T, NEW t2 \in DOMAIN T, NEW t3 \in DOMAIN T, T[t1] = a.h, T[t2] = a.h, T[t3] = a.h
  PROVE  Flow(f, T, <<OpenLoop(t2, t3), Place(t1), Visit(s), Place(t3), Condition, JumpI(t1), Place(t2),
                      CloseLoop, Check(a.h)>>, a, a)
<1> DEFINE m == InLoop(a, t2, t3)
<1>1. /\ Shaped(m) /\ Sync(f, m) /\ m.h = a.h /\ Clear(m, s)
      /\ Step(f, T, OpenLoop(t2, t3), a, m) /\ Step(f, T, CloseLoop, m, a)
  BY FlowLoop
<1> HIDE DEF m
<1>2. /\ Step(f, T, Condition, m, Move(m, 1)) /\ Step(f, T, JumpI(t1), Move(m, 1), m)
      /\ Step(f, T, Place(t3), m, m) /\ Step(f, T, Place(t2), m, m) /\ Step(f, T, Place(t1), m, m)
  BY <1>1, LevelSteps
<1>3. Step(f, T, Visit(s), m, m)
  BY <1>1, StepSingle
<1>4. Step(f, T, Check(a.h), a, a)
  BY CheckHere
<1> QED BY <1>1, <1>2, <1>3, <1>4, Chain9

ForTasks(s, h, t1, t2, t3) ==
    <<OpenScope(s.id)>> \o Visits(s.init) \o <<OpenLoop(t2, t3), Place(t1)>>
      \o (IF s.cond THEN <<Condition, JumpI(t2)>> ELSE <<>>)
      \o <<Visit(s.body), Place(t3)>> \o Visits(s.next)
      \o <<Jump(t1), Place(t2), CloseLoop, CloseScope(s.id), Check(h)>>

LEMMA FlowFor ==
  ASSUME NEW f, NEW T, Surplus(f) \in Nat, NEW a, Shaped(a), Sync(f, a), IsSeq(a.br), IsSeq(a.co),
         NEW s \in Statements, s.kind = "for", Clear(a, s), NEW d \in Nat,
         Flow(f, T, Visits(s.init), Opened(a, s.id), Move(Opened(a, s.id), d)),
         NEW t1 \in DOMAIN T, NEW t2 \in DOMAIN T, NEW t3 \in DOMAIN T,
         T[t1] = a.h + d, T[t2] = a.h + d, T[t3] = a.h + d
  PROVE  /\ Flow(f, T, ForTasks(s, a.h, t1, t2, t3), a, a)
         /\ \A t \in {t1, t2, t3} : Has(ForTasks(s, a.h, t1, t2, t3), Place(t))
<1> DEFINE o == Opened(a, s.id)
           b == Move(o, d)
           m == InLoop(b, t2, t3)
           p1 == <<OpenScope(s.id)>>
           p2 == Visits(s.init)
           p3 == <<OpenLoop(t2, t3), Place(t1)>>
           p4 == IF s.cond THEN <<Condition, JumpI(t2)>> ELSE <<>>
           p5 == <<Visit(s.body), Place(t3)>>
           p6 == Visits(s.next)
           p7 == <<Jump(t1), Place(t2), CloseLoop, CloseScope(s.id), Check(a.h)>>
<1>1. s.id \in Node /\ s.body \in Single /\ s.next \in Seq(Single)
  <2>1. s \in Statement
    BY StatementsAssumption
  <2> QED BY <2>1 DEF Statement, Optional
<1>2. s.id \in ScopesIn[s] /\ \A c \in Parts(s) : s.id \notin ScopesIn[c]
  BY StatementsAssumption
<1>3. \A e \in a.sc : ~(e.depth = a.depth /\ e.node = s.id)
  BY <1>2 DEF Clear
<1>4. /\ Shaped(o) /\ Sync(f, o) /\ o.h = a.h /\ o.br = a.br /\ o.co = a.co
      /\ Step(f, T, OpenScope(s.id), a, o) /\ Step(f, T, CloseScope(s.id), b, a)
      /\ \A c : Clear(a, c) /\ s.id \notin ScopesIn[c] => Clear(o, c)
  BY <1>1, <1>3, FlowScope
<1> HIDE DEF o
<1>5. Clear(o, s.body) /\ \A i \in 1..Len(s.next) : Clear(o, s.next[i])
  <2>1. Parts(s) = ToSet(s.init) \cup {s.body} \cup ToSet(s.next)
    BY DEF Parts
  <2>2. s.body \in Parts(s) /\ \A i \in 1..Len(s.next) : s.next[i] \in Parts(s)
    BY <1>1, <2>1, LenProperties DEF ToSet
  <2> QED BY <1>2, <1>4, <2>2, ClearPart
<1>6. /\ Shaped(b) /\ Sync(f, b) /\ b.h = a.h + d /\ b.br = a.br /\ b.co = a.co
      /\ \A c : Clear(o, c) => Clear(b, c)
  <2>1. Shaped(b) /\ Sync(f, b) /\ b.h = o.h + d /\ \A c : Clear(o, c) => Clear(b, c)
    BY <1>4, Above
  <2>2. b.br = o.br /\ b.co = o.co
    BY <1>4, MoveShape
  <2> QED BY <1>4, <2>1, <2>2
<1> HIDE DEF b
<1>7. /\ Shaped(m) /\ Sync(f, m) /\ m.h = b.h
      /\ Step(f, T, OpenLoop(t2, t3), b, m) /\ Step(f, T, CloseLoop, m, b)
      /\ \A c : Clear(b, c) => Clear(m, c)
  BY <1>6, FlowLoop
<1> HIDE DEF m
<1>8. /\ Step(f, T, Condition, m, Move(m, 1)) /\ Step(f, T, JumpI(t2), Move(m, 1), m)
      /\ Step(f, T, Jump(t1), m, m) /\ Step(f, T, Place(t1), m, m)
      /\ Step(f, T, Place(t2), m, m) /\ Step(f, T, Place(t3), m, m)
  BY <1>6, <1>7, LevelSteps
<1>9. Flow(f, T, p1, a, o) /\ Flow(f, T, p2, o, b)
  BY <1>4, Chain1 DEF o, b
<1>10. Flow(f, T, p3, b, m)
  BY <1>7, <1>8, Chain2
<1>11. Flow(f, T, p4, m, m)
  <2>1. CASE s.cond
    <3>1. Flow(f, T, <<Condition, JumpI(t2)>>, m, m)
      BY <1>8, Chain2
    <3> QED BY <2>1, <3>1
  <2>2. CASE ~s.cond
    BY <2>2, FlowNone
  <2> QED BY <2>1, <2>2
<1>12. Flow(f, T, p5, m, m)
  <2>1. Clear(m, s.body)
    BY <1>5, <1>6, <1>7
  <2>2. Step(f, T, Visit(s.body), m, m)
    BY <1>1, <1>7, <2>1, StepSingle
  <2> QED BY <1>8, <2>2, Chain2
<1>13. Flow(f, T, p6, m, m)
  <2>1. \A i \in 1..Len(s.next) : Clear(m, s.next[i])
    BY <1>5, <1>6, <1>7
  <2> QED BY <1>1, <1>7, <2>1, FlowSingles
<1>14. Flow(f, T, p7, m, a)
  <2>1. Step(f, T, Check(a.h), a, a)
    BY CheckHere
  <2> QED BY <1>4, <1>7, <1>8, <2>1, Chain5
<1>0. Has(p3, Place(t1)) /\ Has(p5, Place(t3)) /\ Has(p7, Place(t2))
  BY DEF Has
<1> HIDE DEF p1, p2, p3, p4, p5, p6, p7
<1>15. Flow(f, T, p1 \o p2, a, b)
  BY <1>9, FlowConcat
<1>16. Flow(f, T, (p1 \o p2) \o p3, a, m)
  BY <1>10, <1>15, FlowConcat
<1>17. Flow(f, T, ((p1 \o p2) \o p3) \o p4, a, m)
  BY <1>11, <1>16, FlowConcat
<1>18. Flow(f, T, (((p1 \o p2) \o p3) \o p4) \o p5, a, m)
  BY <1>12, <1>17, FlowConcat
<1>19. Flow(f, T, ((((p1 \o p2) \o p3) \o p4) \o p5) \o p6, a, m)
  BY <1>13, <1>18, FlowConcat
<1>20. Flow(f, T, (((((p1 \o p2) \o p3) \o p4) \o p5) \o p6) \o p7, a, a)
  BY <1>14, <1>19, FlowConcat
<1>21. ForTasks(s, a.h, t1, t2, t3) = (((((p1 \o p2) \o p3) \o p4) \o p5) \o p6) \o p7
  BY DEF ForTasks, p1, p2, p3, p4, p5, p6, p7
<1>22. \A t \in {t1, t2, t3} : Has((((((p1 \o p2) \o p3) \o p4) \o p5) \o p6) \o p7, Place(t))
  <2>1. IsSeq(p3) /\ IsSeq(p4) /\ IsSeq(p5) /\ IsSeq(p6) /\ IsSeq(p7)
    BY <1>10, <1>11, <1>12, <1>13, <1>14, FlowSeq
  <2>2. IsSeq(p1 \o p2)
    BY <1>15, FlowSeq
  <2> DEFINE q2 == p1 \o p2
             q3 == q2 \o p3
             q4 == q3 \o p4
             q5 == q4 \o p5
             q6 == q5 \o p6
             q7 == q6 \o p7
  <2> HIDE DEF q2
  <2>3. IsSeq(q3) /\ Has(q3, Place(t1))
    BY <1>0, <2>1, <2>2, HasEither DEF q2
  <2> HIDE DEF q3
  <2>4. IsSeq(q4) /\ Has(q4, Place(t1))
    BY <2>1, <2>3, HasEither
  <2> HIDE DEF q4
  <2>5. IsSeq(q5) /\ Has(q5, Place(t1)) /\ Has(q5, Place(t3))
    BY <1>0, <2>1, <2>4, HasEither
  <2> HIDE DEF q5
  <2>6. IsSeq(q6) /\ Has(q6, Place(t1)) /\ Has(q6, Place(t3))
    BY <2>1, <2>5, HasEither
  <2> HIDE DEF q6
  <2>7. Has(q7, Place(t1)) /\ Has(q7, Place(t3)) /\ Has(q7, Place(t2))
    BY <1>0, <2>1, <2>6, HasEither
  <2> QED BY <2>7 DEF q2, q3, q4, q5, q6, q7
<1> QED BY <1>20, <1>21, <1>22

LEMMA FlowLeave ==
  ASSUME NEW f, NEW T, NEW a, Sync(f, a), NEW e \in Entries(f, T)
  PROVE  Flow(f, T, <<Leave(e)>>, a, a)
<1>1. Leave(e).do = "leave" /\ Leave(e).entry = e
  BY DEF Leave
<1>2. Step(f, T, Leave(e), a, a)
  BY <1>1 DEF Step
<1> QED BY <1>2, Chain1

LEMMA FlowReturn ==
  ASSUME NEW f \in Programs, NEW T, Surplus(f) \in Nat, NEW a, Shaped(a), Sync(f, a), NEW s, NEW e \in Entries(f, T)
  PROVE  Flow(f, T, (IF s.value THEN <<Push(AllSlots(f.returns, "value"))>> \o AssignAll(f.returns) ELSE <<>>)
                      \o <<Leave(e)>>, a, a)
<1> DEFINE p == IF s.value THEN <<Push(AllSlots(f.returns, "value"))>> \o AssignAll(f.returns) ELSE <<>>
<1>1. f.returns \in Seq(Variable)
  BY ProgramsAssumption
<1>2. Flow(f, T, p, a, a)
  <2>1. CASE s.value
    BY <1>1, <2>1, FlowStore
  <2>2. CASE ~s.value
    BY <2>2, FlowNone
  <2> QED BY <2>1, <2>2
<1>3. Flow(f, T, <<Leave(e)>>, a, a)
  BY FlowLeave
<1> HIDE DEF p
<1>4. Flow(f, T, p \o <<Leave(e)>>, a, a)
  BY <1>2, <1>3, FlowConcat
<1> QED BY <1>4 DEF p

LEMMA FlowPlaceholder ==
  ASSUME NEW f, NEW T, NEW a, Sync(f, a), a.depth >= -1
  PROVE  Flow(f, T, <<CodeBlock, Check(a.h)>>, a, a)
<1>1. CodeBlock.do = "codeBlock"
  BY DEF CodeBlock
<1>2. Step(f, T, CodeBlock, a, a)
  BY <1>1 DEF Step
<1>3. Step(f, T, Check(a.h), a, a)
  BY CheckHere
<1> QED BY <1>2, <1>3, Chain2

TryTasks(s, h, t1, t2, t3, t4, t5, t6, t7) ==
    <<Emit("trycall", t1, AllSlots(s.returns, "value"))>>
      \o HandleCatch(s, t3, t4, t5, t6, t7)
      \o <<Jump(t2), Place(t1), Adjust(SizeOnStack(s.returns))>>
      \o (IF s.success.params = <<>> THEN <<Pop(SizeOnStack(s.returns))>> ELSE <<>>)
      \o Clause(s.success)
      \o <<Place(t2), Check(h)>>

LEMMA FlowTry ==
  ASSUME NEW f, NEW T, Surplus(f) \in Nat, NEW a, Shaped(a), Sync(f, a), NEW s \in Statements, s.kind = "try",
         Clear(a, s), NEW t1 \in DOMAIN T, NEW t2 \in DOMAIN T, NEW t3 \in DOMAIN T, NEW t4 \in DOMAIN T,
         NEW t5 \in DOMAIN T, NEW t6, NEW t7,
         T[t1] = a.h + SizeOnStack(s.returns), T[t2] = a.h, T[t3] = a.h, T[t4] = a.h,
         T[t5] = a.h + SelectorSize(s),
         s.error # <<>> => t6 \in DOMAIN T /\ T[t6] = a.h + 1,
         s.panic # <<>> => t7 \in DOMAIN T /\ T[t7] = a.h + 1
  PROVE  LET ts == TryTasks(s, a.h, t1, t2, t3, t4, t5, t6, t7)
         IN /\ Flow(f, T, ts, a, a)
            /\ Has(ts, Place(t1)) /\ Has(ts, Place(t2)) /\ Has(ts, Place(t3)) /\ Has(ts, Place(t4))
            /\ Has(ts, Place(t5))
            /\ s.error # <<>> => Has(ts, Place(t6))
            /\ s.panic # <<>> => Has(ts, Place(t7))
<1> DEFINE n == SizeOnStack(s.returns)
           vals == AllSlots(s.returns, "value")
           c == s.success
           b == Move(a, n)
           p1 == <<Emit("trycall", t1, vals)>>
           p2 == HandleCatch(s, t3, t4, t5, t6, t7)
           p3 == <<Jump(t2), Place(t1), Adjust(n)>>
           p4 == IF c.params = <<>> THEN <<Pop(n)>> ELSE <<>>
           p5 == Clause(c)
           p6 == <<Place(t2), Check(a.h)>>
<1>1. /\ s.returns \in Seq(Variable) /\ c \in Clauses /\ c.block \in Parts(s) /\ c.params \in {<<>>, s.returns}
      /\ c.params \in Seq(Variable)
  BY TryParts DEF Clauses
<1>2. n \in Nat /\ IsSeq(vals) /\ Len(vals) = n
  BY <1>1, SameSize
<1>3. a.h \in Int /\ Move(a, 0) = a /\ a.h + 0 = a.h /\ Clear(a, c.block)
  BY <1>1, MoveZero, ClearPart DEF Shaped
<1>4. T[t1] = a.h + n
  OBVIOUS
<1> HIDE DEF n, vals, c
<1>5. Flow(f, T, p1, a, a)
  <2>1. Step(f, T, Emit("trycall", t1, vals), a, a)
    BY <1>2, <1>4, StepTryCall
  <2> QED BY <2>1, Chain1
<1>6. /\ Flow(f, T, p2, a, a)
      /\ \A t \in {t3, t4, t5} : Has(p2, Place(t))
      /\ s.error # <<>> => Has(p2, Place(t6))
      /\ s.panic # <<>> => Has(p2, Place(t7))
  BY FlowCatch
<1>7. Flow(f, T, p3, a, b)
  <2> DEFINE e == At(a, a.h + 0, a.h + n)
  <2>1. /\ Step(f, T, Jump(t2), Move(a, 0), e) /\ Step(f, T, Adjust(n - 0), e, Move(a, n))
        /\ Step(f, T, Place(t1), e, e)
    BY <1>2, <1>3, <1>4, JumpAbove
  <2>2. n - 0 = n
    BY <1>2
  <2> HIDE DEF e
  <2>3. Step(f, T, Jump(t2), a, e) /\ Step(f, T, Adjust(n), e, b) /\ Step(f, T, Place(t1), e, e)
    BY <1>3, <2>1, <2>2
  <2> QED BY <2>3, Chain3
<1>8. Flow(f, T, p4 \o p5, b, a)
  <2>1. CASE c.params = <<>>
    <3>1. Step(f, T, Pop(n), b, a)
      <4>1. Step(f, T, Pop(n), Move(a, 0 + n), Move(a, 0))
        BY <1>2, PopAbove
      <4>2. 0 + n = n
        BY <1>2
      <4> QED BY <1>3, <4>1, <4>2
    <3>2. Flow(f, T, <<Pop(n)>>, b, a)
      BY <3>1, Chain1
    <3>3. SizeOnStack(c.params) = 0
      <4>1. SizeOnStack(<<>>) = 0
        <5>1. \E p : p[0] = 0 /\ p[Len(<<>>)] = SizeOnStack(<<>>)
          <6>1. <<>> \in Seq(Variable)
            OBVIOUS
          <6> QED BY <6>1, SizesAddUp
        <5>2. Len(<<>>) = 0
          OBVIOUS
        <5> QED BY <5>1, <5>2
      <4> QED BY <2>1, <4>1
    <3>4. Flow(f, T, Clause(c), a, Move(a, 0 - SizeOnStack(c.params)))
      <4>1. a.h - SizeOnStack(c.params) >= Surplus(f)
        BY <1>3, <3>3 DEF Sync
      <4> QED BY <1>1, <1>3, <4>1, FlowClause
    <3>5. Move(a, 0 - SizeOnStack(c.params)) = a
      <4>1. 0 - SizeOnStack(c.params) = 0
        BY <3>3
      <4> QED BY <1>3, <4>1
    <3>6. Flow(f, T, <<Pop(n)>> \o Clause(c), b, a)
      BY <3>2, <3>4, <3>5, FlowConcat
    <3> QED BY <2>1, <3>6
  <2>2. CASE c.params # <<>>
    <3> DEFINE e == 0 - n
    <3>1. SizeOnStack(c.params) = n
      BY <1>1, <2>2 DEF n
    <3>2. Shaped(b) /\ Sync(f, b) /\ b.h = a.h + n /\ (\A t : Clear(a, t) => Clear(b, t))
      BY <1>2, Above
    <3>3. e \in Int /\ n + e = 0
      BY <1>2
    <3> HIDE DEF e
    <3>4. Move(b, e) = a
      <4>1. Move(b, e) = Move(a, n + e)
        BY <1>2, <3>3, Above
      <4> QED BY <1>3, <3>3, <4>1
    <3> HIDE DEF b
    <3>5. b.h - SizeOnStack(c.params) >= Surplus(f) /\ Clear(b, c.block)
      <4>1. b.h - n >= Surplus(f)
        BY <1>2, <1>3, <3>2 DEF Sync
      <4> QED BY <1>3, <3>1, <3>2, <4>1
    <3>6. Flow(f, T, Clause(c), b, Move(b, 0 - SizeOnStack(c.params)))
      BY <1>1, <3>2, <3>5, FlowClause
    <3>7. Flow(f, T, Clause(c), b, a)
      BY <3>1, <3>4, <3>6 DEF e
    <3>8. Flow(f, T, <<>> \o Clause(c), b, a)
      BY <3>7, FlowNone, FlowConcat
    <3> QED BY <2>2, <3>8
  <2> QED BY <2>1, <2>2
<1>9. Flow(f, T, p6, a, a)
  <2>1. Step(f, T, Place(t2), a, a) /\ Step(f, T, Check(a.h), a, a)
    BY LevelSteps, CheckHere
  <2> QED BY <2>1, Chain2
<1>0. Has(p3, Place(t1)) /\ Has(p6, Place(t2))
  BY DEF Has
<1> HIDE DEF p1, p2, p3, p4, p5, p6, b
<1>10. Flow(f, T, p1 \o p2, a, a)
  BY <1>5, <1>6, FlowConcat
<1>11. Flow(f, T, (p1 \o p2) \o p3, a, b)
  BY <1>7, <1>10, FlowConcat
<1>12. Flow(f, T, (p4 \o p5) \o p6, b, a)
  BY <1>8, <1>9, FlowConcat
<1>13. Flow(f, T, ((p1 \o p2) \o p3) \o ((p4 \o p5) \o p6), a, a)
  BY <1>11, <1>12, FlowConcat
<1> DEFINE q2 == p1 \o p2
           q3 == q2 \o p3
           r2 == p4 \o p5
           r3 == r2 \o p6
<1>14. IsSeq(p1) /\ IsSeq(p2) /\ IsSeq(p3) /\ IsSeq(r2) /\ IsSeq(p6) /\ IsSeq(q2) /\ IsSeq(q3) /\ IsSeq(r3)
  BY <1>5, <1>6, <1>7, <1>8, <1>9, <1>10, <1>11, <1>12, FlowSeq
<1>15. q3 \o r3 = ((((p1 \o p2) \o p3) \o p4) \o p5) \o p6
  <2>1. IsSeq(p4) /\ IsSeq(p5)
    <3>1. IsSeq(p4)
      BY Short DEF p4
    <3>2. IsSeq(p5)
      <4>1. IsSeq(AddOnStack(c.params))
        BY <1>1, FlowAddOnStack DEF Flow
      <4>2. IsSeq(<<Visit(c.block), [do |-> "closeClause", n |-> SizeOnStack(c.params)]>>)
        BY Short
      <4> QED BY <4>1, <4>2, IsSeqConcat DEF p5, Clause
    <3> QED BY <3>1, <3>2
  <2>2. IsSeq(q3) /\ IsSeq(p4 \o p5) /\ IsSeq(p6)
    BY <1>14
  <2> HIDE DEF q3
  <2>3. q3 \o ((p4 \o p5) \o p6) = (q3 \o (p4 \o p5)) \o p6
    BY <2>2, ConcatAssociates
  <2>4. q3 \o (p4 \o p5) = (q3 \o p4) \o p5
    BY <2>1, <2>2, ConcatAssociates
  <2> QED BY <2>3, <2>4 DEF q3
<1>16. TryTasks(s, a.h, t1, t2, t3, t4, t5, t6, t7) = q3 \o r3 /\ Flow(f, T, q3 \o r3, a, a)
  <2>1. TryTasks(s, a.h, t1, t2, t3, t4, t5, t6, t7) = ((((p1 \o p2) \o p3) \o p4) \o p5) \o p6
    BY DEF TryTasks, p1, p2, p3, p4, p5, p6, vals, n, c
  <2> QED BY <1>13, <1>15, <2>1
<1>17. \A t : Has(p2, t) => Has(q2, t)
  BY <1>14, HasEither
<1> HIDE DEF q2, r2
<1>18. \A t : Has(q2, t) \/ Has(p3, t) => Has(q3, t)
  BY <1>14, HasEither
<1>19. \A t : Has(p6, t) => Has(r3, t)
  BY <1>14, HasEither
<1> HIDE DEF q3, r3
<1>20. \A t : Has(q3, t) \/ Has(r3, t) => Has(q3 \o r3, t)
  BY <1>14, HasEither
<1>21. \A t : Has(p2, t) \/ Has(p3, t) \/ Has(p6, t) => Has(q3 \o r3, t)
  BY <1>17, <1>18, <1>19, <1>20
<1> QED BY <1>0, <1>6, <1>16, <1>21

-----------------------------------------------------------------------------
(***************************************************************************)
(* New tags.                                                               *)
(***************************************************************************)
Extends(U, T) == DOMAIN T \subseteq DOMAIN U /\ \A t \in DOMAIN T : U[t] = T[t]

LEMMA EntriesExtend ==
  ASSUME NEW f, NEW T, NEW U, Extends(U, T)
  PROVE  Entries(f, T) \subseteq Entries(f, U)
BY DEF Entries, Extends

LEMMA FitsExtend ==
  ASSUME NEW f, NEW T, NEW U, Extends(U, T), NEW c, NEW g, NEW k, Fits(f, T, c, g, k)
  PROVE  Fits(f, U, c, g, k)
BY DEF Fits, Extends, Here

LEMMA GoodExtends ==
  ASSUME NEW f, NEW T, NEW U, Extends(U, T), NEW a, Good(f, T, a)
  PROVE  Good(f, U, a)
<1>1. Seq(Entries(f, T)) \subseteq Seq(Entries(f, U))
  <2>1. ASSUME NEW q \in Seq(Entries(f, T)) PROVE q \in Seq(Entries(f, U))
    BY EntriesExtend, SeqMonotonic
  <2> QED BY <2>1
<1>2. a \in Points(f, T)
  BY DEF Good
<1>3. a \in Points(f, U)
  BY <1>1, <1>2 DEF Points
<1> QED BY <1>3 DEF Good

LEMMA StepExtends ==
  ASSUME NEW f, NEW T, NEW U, Extends(U, T), NEW t, NEW a, NEW b, Step(f, T, t, a, b)
  PROVE  Step(f, U, t, a, b)
<1>1. CASE t.do = "emit"
  <2> DEFINE c == [op |-> t.op, n |-> t.n, vals |-> t.vals, h |-> a.h]
  <2>1. Fits(f, T, c, a.g, b.g)
    BY <1>1 DEF Step
  <2> HIDE DEF c
  <2>2. Fits(f, U, c, a.g, b.g)
    BY <2>1, FitsExtend
  <2> QED BY <1>1, <2>2 DEF Step, c
<1>2. CASE t.do = "openLoop"
  BY <1>2 DEF Step, Extends
<1>3. CASE t.do = "openReturn"
  BY <1>3 DEF Step, Extends
<1>4. CASE t.do = "leave"
  BY <1>4, EntriesExtend DEF Step
<1>5. CASE t.do \notin {"emit", "openLoop", "openReturn", "leave"}
  BY <1>5 DEF Step
<1> QED BY <1>1, <1>2, <1>3, <1>4, <1>5

LEMMA FlowExtends ==
  ASSUME NEW f, NEW T, NEW U, Extends(U, T), NEW ts, NEW a, NEW b, Flow(f, T, ts, a, b)
  PROVE  Flow(f, U, ts, a, b)
<1>1. PICK w : /\ w[1] = a /\ w[Len(ts) + 1] = b
               /\ \A k \in 1..Len(ts) : Step(f, T, ts[k], w[k], w[k + 1])
  BY DEF Flow
<1>2. \A k \in 1..Len(ts) : Step(f, U, ts[k], w[k], w[k + 1])
  BY <1>1, StepExtends
<1> QED BY <1>1, <1>2 DEF Flow

-----------------------------------------------------------------------------
(***************************************************************************)
(* The inductive invariant.                                                *)
(*                                                                         *)
(* While there are tasks, the fields of the compiler describe a point from *)
(* which the tasks lead to the end of the code, and the code so far fits   *)
(* together with heights G up to there.  Once it is run, the height of the *)
(* stack is the one that G has for the next instruction.                   *)
(***************************************************************************)
Traced(f, T, c, G, g) ==
    /\ IsSeq(c) /\ G[Len(c) + 1] = g
    /\ \A i \in 1..Len(c) : Fits(f, T, c[i], G[i], G[i + 1])

TagIn(c, t) == \E i \in 1..Len(c) : c[i].op = "tag" /\ c[i].n = t

\* Once the frame is being removed the fields do not matter any more.
Matches(a) ==
    a.g >= 0 => /\ height = a.h /\ scopes = a.sc /\ depth = a.depth
                /\ breakTags = a.br /\ continueTags = a.co /\ returnTags = a.re

Compiling(T, a, z, G) ==
    /\ tags \in Nat /\ DOMAIN T \subseteq 1..tags
    /\ Good(fn, T, a) /\ Matches(a)
    /\ Flow(fn, T, todo, a, z) /\ z.g = Nowhere
    /\ Traced(fn, T, code, G, a.g)
    /\ \A t \in DOMAIN T : Has(todo, Place(t)) \/ TagIn(code, t)
    /\ ip = 1 /\ IsSeq(stack)
    /\ G[1] \in {Len(stack) + Surplus(fn), Unknown}

Executing(T, G) ==
    /\ Traced(fn, T, code, G, Nowhere)
    /\ \A t \in DOMAIN T : TagIn(code, t)
    /\ ip \in 1..(Len(code) + 1) /\ IsSeq(stack)
    /\ G[ip] \in {Len(stack) + Surplus(fn), Unknown}

HeightsFollowed ==
    /\ fn \in Programs
    /\ phase = "compile" => \E T, a, z, G : Compiling(T, a, z, G)
    /\ phase = "run" => \E T, G : Executing(T, G)

LEMMA PlaceHead ==
  ASSUME NEW ts, IsSeq(ts), ts # <<>>, Head(ts).do # "emit", NEW n, Has(ts, Place(n))
  PROVE  Has(Tail(ts), Place(n))
<1>1. Place(n).do = "emit"
  BY DEF Place, Emit
<1>2. Place(n) # Head(ts)
  BY <1>1
<1> QED BY <1>2, HasTail

\* A task other than an instruction is replaced by tasks ts.
LEMMA Replaced ==
  ASSUME NEW T, NEW a, NEW z, NEW G, Compiling(T, a, z, G), todo # <<>>, Head(todo).do # "emit",
         NEW b, Flow(fn, T, Tail(todo), b, z),
         NEW ts, todo' = ts \o Tail(todo), UNCHANGED <<fn, code, machineVars>>,
         NEW U, Extends(U, T), tags' \in Nat, DOMAIN U \subseteq 1..(tags'),
         \A t \in DOMAIN U \ DOMAIN T : Has(ts, Place(t)),
         NEW c, Flow(fn, U, ts, c, b), Good(fn, U, c), c.g = a.g, Matches(c)'
  PROVE  Compiling(U, c, z, G)'
<1>1. /\ Flow(fn, T, todo, a, z) /\ z.g = Nowhere
      /\ Traced(fn, T, code, G, a.g)
      /\ \A t \in DOMAIN T : Has(todo, Place(t)) \/ TagIn(code, t)
      /\ ip = 1 /\ IsSeq(stack)
      /\ G[1] \in {Len(stack) + Surplus(fn), Unknown}
  BY DEF Compiling
<1>2. fn' = fn /\ code' = code /\ ip' = ip /\ stack' = stack
  BY DEF machineVars
<1>3. Flow(fn, U, ts \o Tail(todo), c, z)
  <2>1. Flow(fn, U, Tail(todo), b, z)
    BY FlowExtends
  <2> QED BY <2>1, FlowConcat
<1>4. Traced(fn, U, code, G, c.g)
  BY <1>1, FitsExtend DEF Traced
<1>5. \A t \in DOMAIN U : Has(ts \o Tail(todo), Place(t)) \/ TagIn(code, t)
  <2>1. IsSeq(todo) /\ IsSeq(ts) /\ IsSeq(Tail(todo))
    BY <1>1, FlowSeq
  <2>2. ASSUME NEW t \in DOMAIN U, t \notin DOMAIN T PROVE Has(ts \o Tail(todo), Place(t))
    <3>1. Has(ts, Place(t))
      BY <2>2
    <3> QED BY <2>1, <3>1, HasLeft
  <2>3. ASSUME NEW t \in DOMAIN T, ~TagIn(code, t) PROVE Has(ts \o Tail(todo), Place(t))
    <3>1. Has(todo, Place(t))
      BY <1>1, <2>3
    <3>2. Has(Tail(todo), Place(t))
      BY <2>1, <3>1, PlaceHead
    <3> QED BY <2>1, <3>2, HasRight
  <2> QED BY <2>2, <2>3
<1> QED BY <1>1, <1>2, <1>3, <1>4, <1>5 DEF Compiling

LEMMA ExtendsSelf ==
  ASSUME NEW T
  PROVE  Extends(T, T)
BY DEF Extends

\* The same without new tags.
LEMMA ReplacedPlainly ==
  ASSUME NEW T, NEW a, NEW z, NEW G, Compiling(T, a, z, G), todo # <<>>, Head(todo).do # "emit",
         NEW b, Flow(fn, T, Tail(todo), b, z),
         NEW ts, todo' = ts \o Tail(todo), UNCHANGED <<fn, code, tags, machineVars>>,
         NEW c, Flow(fn, T, ts, c, b), Good(fn, T, c), c.g = a.g, Matches(c)'
  PROVE  Compiling(T, c, z, G)'
<1>1. tags' \in Nat /\ DOMAIN T \subseteq 1..(tags')
  BY DEF Compiling
<1> QED BY <1>1, ExtendsSelf, Replaced

\* Where a task stands, and where it leads.
LEMMA TakeTask ==
  ASSUME fn \in Programs, NEW T, NEW a, NEW z, NEW G, Compiling(T, a, z, G), todo # <<>>
  PROVE  /\ \E b : Step(fn, T, Head(todo), a, b) /\ Flow(fn, T, Tail(todo), b, z)
         /\ Surplus(fn) \in Nat /\ Shaped(a)
         /\ IsSeq(a.br) /\ IsSeq(a.co) /\ IsSeq(a.re)
         /\ Sync(fn, a) => /\ height = a.h /\ scopes = a.sc /\ depth = a.depth
                           /\ breakTags = a.br /\ continueTags = a.co /\ returnTags = a.re
<1>1. Flow(fn, T, todo, a, z) /\ Good(fn, T, a) /\ Matches(a)
  BY DEF Compiling
<1>2. \E b : Step(fn, T, Head(todo), a, b) /\ Flow(fn, T, Tail(todo), b, z)
  BY <1>1, FlowHead
<1>3. Surplus(fn) \in Nat /\ Shaped(a)
  BY <1>1, SurplusType, GoodShaped
<1>4. IsSeq(a.br) /\ IsSeq(a.co) /\ IsSeq(a.re)
  <2>1. a.br \in Seq(Entries(fn, T)) /\ a.co \in Seq(Entries(fn, T)) /\ a.re \in Seq(Entries(fn, T))
    BY <1>1 DEF Good, Points
  <2> QED BY <2>1, SeqIsSeq
<1>5. Sync(fn, a) => a.g >= 0
  BY <1>3 DEF Sync, Shaped
<1> QED BY <1>1, <1>2, <1>3, <1>4, <1>5 DEF Matches

\* The heights T with those of new tags D added, which are h or as given by H.
Adds(U, T, D, n) == Extends(U, T) /\ DOMAIN U \subseteq 1..n /\ DOMAIN U \ DOMAIN T = D
Heights(U, D, H) == \A t \in D : t \in DOMAIN U /\ U[t] = H[t]
AllAt(U, D, h) == \A t \in D : t \in DOMAIN U /\ U[t] = h

LEMMA NewTags ==
  ASSUME NEW T, NEW n \in Nat, DOMAIN T \subseteq 1..n, NEW m \in Nat, n <= m, NEW D, D \subseteq (n + 1)..m, NEW H
  PROVE  \E U : Adds(U, T, D, m) /\ Heights(U, D, H)
<1> DEFINE U == [t \in DOMAIN T \cup D |-> IF t \in DOMAIN T THEN T[t] ELSE H[t]]
<1>1. \A t \in D : t \notin DOMAIN T /\ t \in 1..m
  OBVIOUS
<1>2. DOMAIN T \subseteq 1..m
  OBVIOUS
<1>3. Adds(U, T, D, m)
  BY <1>1, <1>2 DEF Extends, Adds
<1>4. Heights(U, D, H)
  BY <1>1 DEF Heights
<1> HIDE DEF U
<1> QED BY <1>3, <1>4

LEMMA LevelTags ==
  ASSUME NEW T, NEW n \in Nat, DOMAIN T \subseteq 1..n, NEW m \in Nat, n <= m, NEW D, D \subseteq (n + 1)..m, NEW h
  PROVE  \E U : Adds(U, T, D, m) /\ AllAt(U, D, h)
<1> DEFINE U == [t \in DOMAIN T \cup D |-> IF t \in DOMAIN T THEN T[t] ELSE h]
<1>1. \A t \in D : t \notin DOMAIN T /\ t \in 1..m
  OBVIOUS
<1>2. DOMAIN T \subseteq 1..m
  OBVIOUS
<1>3. Adds(U, T, D, m)
  BY <1>1, <1>2 DEF Extends, Adds
<1>4. AllAt(U, D, h)
  BY <1>1 DEF AllAt
<1> HIDE DEF U
<1> QED BY <1>3, <1>4

-----------------------------------------------------------------------------
(***************************************************************************)
(* Visits of statements.                                                   *)
(***************************************************************************)
LEMMA VisitFacts ==
  ASSUME fn \in Programs, NEW T, NEW a, NEW z, NEW G, Compiling(T, a, z, G), NEW k, Visiting(k)
  PROVE  /\ todo # <<>> /\ Head(todo).do = "visit" /\ Stmt.kind = k /\ phase = "compile"
         /\ Stmt \in Statements /\ Sync(fn, a) /\ Clear(a, Stmt)
         /\ Flow(fn, T, Tail(todo), Move(a, StatementSize(Stmt)), z)
         /\ Surplus(fn) \in Nat /\ Shaped(a) /\ IsSeq(a.br) /\ IsSeq(a.co) /\ IsSeq(a.re)
         /\ height = a.h /\ breakTags = a.br /\ continueTags = a.co /\ returnTags = a.re
         /\ tags \in Nat /\ DOMAIN T \subseteq 1..tags
<1>1. todo # <<>> /\ Head(todo).do = "visit" /\ Stmt.kind = k /\ phase = "compile"
  BY DEF Visiting, Stmt
<1>2. PICK b : Step(fn, T, Head(todo), a, b) /\ Flow(fn, T, Tail(todo), b, z)
  BY <1>1, TakeTask
<1>3. Stmt \in Statements /\ Sync(fn, a) /\ Clear(a, Stmt) /\ b = Move(a, StatementSize(Stmt))
  BY <1>1, <1>2 DEF Step, Clear, Stmt
<1>4. /\ Surplus(fn) \in Nat /\ Shaped(a) /\ IsSeq(a.br) /\ IsSeq(a.co) /\ IsSeq(a.re)
      /\ height = a.h /\ breakTags = a.br /\ continueTags = a.co /\ returnTags = a.re
  BY <1>1, <1>3, TakeTask
<1> QED BY <1>1, <1>2, <1>3, <1>4 DEF Compiling

LEMMA Visited ==
  ASSUME fn \in Programs, NEW T, NEW a, NEW z, NEW G, Compiling(T, a, z, G), NEW k, Visiting(k),
         NEW ts, NEW n \in Nat, Becomes(ts, n), NEW U, NEW D, Adds(U, T, D, tags + n),
         \A t \in DOMAIN U \ DOMAIN T : Has(ts, Place(t)),
         Flow(fn, U, ts, a, Move(a, StatementSize(Stmt)))
  PROVE  Compiling(U, a, z, G)'
<1>1. /\ todo # <<>> /\ Head(todo).do = "visit" /\ Flow(fn, T, Tail(todo), Move(a, StatementSize(Stmt)), z)
      /\ tags \in Nat
  BY VisitFacts
<1>2. /\ todo' = ts \o Tail(todo) /\ tags' = tags + n
      /\ UNCHANGED <<fn, code, machineVars>>
      /\ UNCHANGED <<height, scopes, depth, breakTags, continueTags, returnTags>>
  BY DEF Becomes, tagStacks
<1>3. Matches(a)'
  BY <1>2 DEF Compiling, Matches
<1>4. Good(fn, U, a) /\ Extends(U, T)
  BY GoodExtends DEF Compiling, Adds
<1>5. tags' \in Nat /\ DOMAIN U \subseteq 1..(tags')
  BY <1>1, <1>2 DEF Adds
<1> DEFINE b == Move(a, StatementSize(Stmt))
<1> HIDE DEF b
<1>6. Flow(fn, T, Tail(todo), b, z) /\ Flow(fn, U, ts, a, b)
  BY <1>1 DEF b
<1>7. Head(todo).do # "emit"
  BY <1>1
<1> QED BY <1>1, <1>2, <1>3, <1>4, <1>5, <1>6, <1>7, Replaced

\* A statement other than a declaration leaves nothing on the stack.
LEMMA NoSize ==
  ASSUME NEW a, Shaped(a), NEW s, s.kind # "declare"
  PROVE  Move(a, StatementSize(s)) = a
BY MoveZero DEF StatementSize

\* Without new tags.
LEMMA VisitedPlainly ==
  ASSUME fn \in Programs, NEW T, NEW a, NEW z, NEW G, Compiling(T, a, z, G), NEW k, Visiting(k),
         NEW ts, Becomes(ts, 0), Flow(fn, T, ts, a, Move(a, StatementSize(Stmt)))
  PROVE  Compiling(T, a, z, G)'
<1>1. tags \in Nat /\ DOMAIN T \subseteq 1..tags /\ tags + 0 = tags
  BY VisitFacts
<1>2. Adds(T, T, {}, tags + 0)
  BY <1>1, ExtendsSelf DEF Adds
<1>3. \A t \in DOMAIN T \ DOMAIN T : Has(ts, Place(t))
  OBVIOUS
<1> QED BY <1>2, <1>3, Visited

LEMMA BlockVisited ==
  ASSUME fn \in Programs, NEW T, NEW a, NEW z, NEW G, Compiling(T, a, z, G), VisitBlock
  PROVE  \E U : Compiling(U, a, z, G)'
<1> DEFINE ts == <<OpenScope(Stmt.id)>> \o Visits(Stmt.body) \o <<CloseScope(Stmt.id)>>
<1>1. Visiting("block") /\ Becomes(ts, 0)
  BY DEF VisitBlock
<1>2. /\ Stmt \in Statements /\ Sync(fn, a) /\ Clear(a, Stmt) /\ Surplus(fn) \in Nat /\ Shaped(a)
      /\ Stmt.kind = "block"
  BY <1>1, VisitFacts
<1>3. Flow(fn, T, ts, a, a)
  BY <1>2, FlowBlock
<1> HIDE DEF ts
<1>4. Flow(fn, T, ts, a, Move(a, StatementSize(Stmt)))
  BY <1>2, <1>3, NoSize
<1> QED BY <1>1, <1>4, VisitedPlainly

LEMMA DeclareVisited ==
  ASSUME fn \in Programs, NEW T, NEW a, NEW z, NEW G, Compiling(T, a, z, G), VisitDeclare
  PROVE  \E U : Compiling(U, a, z, G)'
<1> DEFINE ts == FlattenSeq([i \in 1..Len(Stmt.vars) |-> InitialiseVariable(Stmt.vars[i])])
                   \o (IF Stmt.init THEN <<Push(AllSlots(Stmt.vars, "value"))>> \o AssignAll(Stmt.vars) ELSE <<>>)
                   \o <<Check(height + SizeOnStack(Stmt.vars))>>
<1>1. Visiting("declare") /\ Becomes(ts, 0)
  BY DEF VisitDeclare
<1>2. /\ Stmt \in Statements /\ Sync(fn, a) /\ Surplus(fn) \in Nat /\ Shaped(a)
      /\ Stmt.kind = "declare" /\ height = a.h
  BY <1>1, VisitFacts
<1>3. Flow(fn, T, ts, a, Move(a, StatementSize(Stmt)))
  BY <1>2, FlowDeclare
<1> HIDE DEF ts
<1> QED BY <1>1, <1>3, VisitedPlainly

LEMMA EvalVisited ==
  ASSUME fn \in Programs, NEW T, NEW a, NEW z, NEW G, Compiling(T, a, z, G), VisitEval \/ VisitUse
  PROVE  \E U : Compiling(U, a, z, G)'
<1>1. CASE VisitEval
  <2> DEFINE v == Slot(Stmt.mark, 1, "value")
             ts == <<Push(<<v>>), Pop(1), Check(height)>>
  <2>1. Visiting("eval") /\ Becomes(ts, 0)
    BY <1>1 DEF VisitEval
  <2>2. Sync(fn, a) /\ Surplus(fn) \in Nat /\ Shaped(a) /\ Stmt.kind = "eval" /\ height = a.h
    BY <2>1, VisitFacts
  <2>3. Flow(fn, T, ts, a, a)
    <3> HIDE DEF v
    <3> QED BY <2>2, FlowEval
  <2> HIDE DEF ts
  <2>4. Flow(fn, T, ts, a, Move(a, StatementSize(Stmt)))
    BY <2>2, <2>3, NoSize
  <2> QED BY <2>1, <2>4, VisitedPlainly
<1>2. CASE VisitUse
  <2> DEFINE ts == <<[do |-> "read", x |-> Stmt.var], Pop(Stmt.var.size), Check(height)>>
  <2>1. Visiting("use") /\ Becomes(ts, 0)
    BY <1>2 DEF VisitUse
  <2>2. /\ Sync(fn, a) /\ Surplus(fn) \in Nat /\ Shaped(a) /\ Stmt.kind = "use" /\ height = a.h
        /\ Stmt \in Statements
    BY <2>1, VisitFacts
  <2>3. Stmt.var \in Variable
    <3>1. Stmt \in Statement
      BY <2>2, StatementsAssumption
    <3> QED BY <2>2, <3>1 DEF Statement
  <2>4. Flow(fn, T, ts, a, a)
    BY <2>2, <2>3, FlowUse
  <2> HIDE DEF ts
  <2>5. Flow(fn, T, ts, a, Move(a, StatementSize(Stmt)))
    BY <2>2, <2>4, NoSize
  <2> QED BY <2>1, <2>5, VisitedPlainly
<1> QED BY <1>1, <1>2

LEMMA IfVisited ==
  ASSUME fn \in Programs, NEW T, NEW a, NEW z, NEW G, Compiling(T, a, z, G), VisitIf
  PROVE  \E U : Compiling(U, a, z, G)'
<1> DEFINE t1 == tags + 1
           t2 == tags + 2
           ts == IfTasks(Stmt, height, t1, t2)
           D == {t1} \cup (IF Stmt.else = <<>> THEN {} ELSE {t2})
<1>1. Visiting("if") /\ Becomes(ts, 2)
  BY DEF VisitIf, IfTasks, NewTag
<1>2. /\ Stmt \in Statements /\ Sync(fn, a) /\ Clear(a, Stmt) /\ Surplus(fn) \in Nat /\ Shaped(a)
      /\ Stmt.kind = "if" /\ height = a.h /\ tags \in Nat /\ DOMAIN T \subseteq 1..tags
  BY <1>1, VisitFacts
<1>3. D \subseteq (tags + 1)..(tags + 2)
  BY <1>2
<1>4. PICK U : Adds(U, T, D, tags + 2) /\ AllAt(U, D, a.h)
  <2>1. tags + 2 \in Nat /\ tags <= tags + 2
    BY <1>2
  <2> HIDE DEF D
  <2> QED BY <1>2, <1>3, <2>1, LevelTags
<1>5. t1 \in DOMAIN U /\ U[t1] = a.h /\ (Stmt.else # <<>> => t2 \in DOMAIN U /\ U[t2] = a.h)
  <2>1. t1 \in D /\ (Stmt.else # <<>> => t2 \in D)
    OBVIOUS
  <2> HIDE DEF D, t1, t2
  <2> QED BY <1>4, <2>1 DEF AllAt
<1> HIDE DEF t1, t2
<1>6. /\ Flow(fn, U, ts, a, a) /\ Has(ts, Place(t1)) /\ (Stmt.else # <<>> => Has(ts, Place(t2)))
  BY <1>2, <1>5, FlowIf
<1>7. \A t \in DOMAIN U \ DOMAIN T : Has(ts, Place(t))
  BY <1>4, <1>6 DEF Adds
<1> HIDE DEF ts, D
<1>8. Flow(fn, U, ts, a, Move(a, StatementSize(Stmt)))
  BY <1>2, <1>6, NoSize
<1> QED BY <1>1, <1>4, <1>7, <1>8, Visited

LEMMA WhileVisited ==
  ASSUME fn \in Programs, NEW T, NEW a, NEW z, NEW G, Compiling(T, a, z, G), VisitWhile
  PROVE  \E U : Compiling(U, a, z, G)'
<1> DEFINE t1 == tags + 1
           t2 == tags + 2
           ts == <<OpenLoop(t2, t1), Place(t1), Condition, JumpI(t2), Visit(Stmt.body), Jump(t1), Place(t2),
                   CloseLoop, Check(height)>>
           D == {t1, t2}
<1>1. Visiting("while") /\ Becomes(ts, 2)
  BY DEF VisitWhile, NewTag
<1>2. /\ Stmt \in Statements /\ Sync(fn, a) /\ Clear(a, Stmt) /\ Surplus(fn) \in Nat /\ Shaped(a)
      /\ Stmt.kind = "while" /\ height = a.h /\ tags \in Nat /\ DOMAIN T \subseteq 1..tags
      /\ IsSeq(a.br) /\ IsSeq(a.co)
  BY <1>1, VisitFacts
<1>3. D \subseteq (tags + 1)..(tags + 2)
  BY <1>2
<1>4. PICK U : Adds(U, T, D, tags + 2) /\ AllAt(U, D, a.h)
  <2>1. tags + 2 \in Nat /\ tags <= tags + 2
    BY <1>2
  <2> HIDE DEF D
  <2> QED BY <1>2, <1>3, <2>1, LevelTags
<1>5. t1 \in DOMAIN U /\ U[t1] = a.h /\ t2 \in DOMAIN U /\ U[t2] = a.h
  BY <1>4 DEF AllAt
<1> HIDE DEF t1, t2
<1>6. Stmt.body \in Single /\ Clear(a, Stmt.body)
  <2>1. Stmt \in Statement
    BY <1>2, StatementsAssumption
  <2>2. Stmt.body \in Parts(Stmt)
    BY <1>2 DEF Parts
  <2> QED BY <1>2, <2>1, <2>2, ClearPart DEF Statement
<1>7. Flow(fn, U, ts, a, a)
  BY <1>2, <1>5, <1>6, FlowWhile
<1>8. Has(ts, Place(t1)) /\ Has(ts, Place(t2))
  BY DEF Has
<1>9. \A t \in DOMAIN U \ DOMAIN T : Has(ts, Place(t))
  <2> HIDE DEF ts
  <2> QED BY <1>4, <1>8 DEF Adds
<1> HIDE DEF ts, D
<1>10. Flow(fn, U, ts, a, Move(a, StatementSize(Stmt)))
  BY <1>2, <1>7, NoSize
<1> QED BY <1>1, <1>4, <1>9, <1>10, Visited

LEMMA DoWhileVisited ==
  ASSUME fn \in Programs, NEW T, NEW a, NEW z, NEW G, Compiling(T, a, z, G), VisitDoWhile
  PROVE  \E U : Compiling(U, a, z, G)'
<1> DEFINE t1 == tags + 1
           t2 == tags + 2
           t3 == tags + 3
           ts == <<OpenLoop(t2, t3), Place(t1), Visit(Stmt.body), Place(t3), Condition, JumpI(t1), Place(t2),
                   CloseLoop, Check(height)>>
           D == {t1, t2, t3}
<1>1. Visiting("dowhile") /\ Becomes(ts, 3)
  BY DEF VisitDoWhile, NewTag
<1>2. /\ Stmt \in Statements /\ Sync(fn, a) /\ Clear(a, Stmt) /\ Surplus(fn) \in Nat /\ Shaped(a)
      /\ Stmt.kind = "dowhile" /\ height = a.h /\ tags \in Nat /\ DOMAIN T \subseteq 1..tags
      /\ IsSeq(a.br) /\ IsSeq(a.co)
  BY <1>1, VisitFacts
<1>3. D \subseteq (tags + 1)..(tags + 3)
  BY <1>2
<1>4. PICK U : Adds(U, T, D, tags + 3) /\ AllAt(U, D, a.h)
  <2>1. tags + 3 \in Nat /\ tags <= tags + 3
    BY <1>2
  <2> HIDE DEF D
  <2> QED BY <1>2, <1>3, <2>1, LevelTags
<1>5. t1 \in DOMAIN U /\ U[t1] = a.h /\ t2 \in DOMAIN U /\ U[t2] = a.h /\ t3 \in DOMAIN U /\ U[t3] = a.h
  BY <1>4 DEF AllAt
<1> HIDE DEF t1, t2, t3
<1>6. Stmt.body \in Single /\ Clear(a, Stmt.body)
  <2>1. Stmt \in Statement
    BY <1>2, StatementsAssumption
  <2>2. Stmt.body \in Parts(Stmt)
    BY <1>2 DEF Parts
  <2> QED BY <1>2, <2>1, <2>2, ClearPart DEF Statement
<1>7. Flow(fn, U, ts, a, a)
  BY <1>2, <1>5, <1>6, FlowDoWhile
<1>8. Has(ts, Place(t1)) /\ Has(ts, Place(t2)) /\ Has(ts, Place(t3))
  BY DEF Has
<1>9. \A t \in DOMAIN U \ DOMAIN T : Has(ts, Place(t))
  <2> HIDE DEF ts
  <2> QED BY <1>4, <1>8 DEF Adds
<1> HIDE DEF ts, D
<1>10. Flow(fn, U, ts, a, Move(a, StatementSize(Stmt)))
  BY <1>2, <1>7, NoSize
<1> QED BY <1>1, <1>4, <1>9, <1>10, Visited

LEMMA ForVisited ==
  ASSUME fn \in Programs, NEW T, NEW a, NEW z, NEW G, Compiling(T, a, z, G), VisitFor
  PROVE  \E U : Compiling(U, a, z, G)'
<1> DEFINE t1 == tags + 1
           t2 == tags + 2
           t3 == tags + 3
           ts == ForTasks(Stmt, height, t1, t2, t3)
           D == {t1, t2, t3}
           o == Opened(a, Stmt.id)
<1>1. Visiting("for") /\ Becomes(ts, 3)
  BY DEF VisitFor, NewTag, ForTasks
<1>2. /\ Stmt \in Statements /\ Sync(fn, a) /\ Clear(a, Stmt) /\ Surplus(fn) \in Nat /\ Shaped(a)
      /\ Stmt.kind = "for" /\ height = a.h /\ tags \in Nat /\ DOMAIN T \subseteq 1..tags
      /\ IsSeq(a.br) /\ IsSeq(a.co)
  BY <1>1, VisitFacts
<1>3. D \subseteq (tags + 1)..(tags + 3)
  BY <1>2
\* The variable declared by the statement decides about the height of the loop.
<1>4. PICK d \in Nat : Flow(fn, T, Visits(Stmt.init), o, Move(o, d))
  <2> DEFINE s == Stmt
  <2> HIDE DEF s
  <2>0. s \in Statements /\ s.kind = "for" /\ Clear(a, s)
    BY <1>2 DEF s
  <2>1. s \in Statement
    BY <2>0, StatementsAssumption
  <2>2. s.id \in Node /\ s.init \in Seq(Statements)
    BY <2>0, <2>1 DEF Statement, Optional
  <2>3. s.id \in ScopesIn[s] /\ \A c \in Parts(s) : s.id \notin ScopesIn[c]
    BY <2>0, StatementsAssumption
  <2>4. \A e \in a.sc : ~(e.depth = a.depth /\ e.node = s.id)
    BY <2>0, <2>3 DEF Clear
  <2> DEFINE b == Opened(a, s.id)
  <2>5. Shaped(b) /\ Sync(fn, b) /\ \A c : Clear(a, c) /\ s.id \notin ScopesIn[c] => Clear(b, c)
    BY <1>2, <2>2, <2>4, FlowScope
  <2>6. \A i \in 1..Len(s.init) : s.init[i] \in Parts(s)
    BY <2>0, <2>2, LenProperties DEF Parts, ToSet
  <2>7. \A i \in 1..Len(s.init) : Clear(b, s.init[i])
    BY <2>0, <2>3, <2>5, <2>6, ClearPart
  <2> HIDE DEF b
  <2>8. \E d \in Nat : Flow(fn, T, Visits(s.init), b, Move(b, d))
    BY <1>2, <2>2, <2>5, <2>7, FlowVisits
  <2> QED BY <2>8 DEF b, s
<1>5. PICK U : Adds(U, T, D, tags + 3) /\ AllAt(U, D, a.h + d)
  <2>1. tags + 3 \in Nat /\ tags <= tags + 3
    BY <1>2
  <2> HIDE DEF D
  <2> QED BY <1>2, <1>3, <2>1, LevelTags
<1>6. /\ t1 \in DOMAIN U /\ U[t1] = a.h + d /\ t2 \in DOMAIN U /\ U[t2] = a.h + d
      /\ t3 \in DOMAIN U /\ U[t3] = a.h + d
  BY <1>5 DEF AllAt
<1> HIDE DEF t1, t2, t3
<1>7. Flow(fn, U, Visits(Stmt.init), o, Move(o, d))
  BY <1>4, <1>5, FlowExtends DEF Adds
<1>8. Flow(fn, U, ts, a, a) /\ \A t \in {t1, t2, t3} : Has(ts, Place(t))
  BY <1>2, <1>6, <1>7, FlowFor
<1>9. \A t \in DOMAIN U \ DOMAIN T : Has(ts, Place(t))
  BY <1>5, <1>8 DEF Adds
<1> HIDE DEF ts, D
<1>10. Flow(fn, U, ts, a, Move(a, StatementSize(Stmt)))
  BY <1>2, <1>8, NoSize
<1> QED BY <1>1, <1>5, <1>9, <1>10, Visited

LEMMA LastIn ==
  ASSUME NEW S, NEW q \in Seq(S), q # <<>>
  PROVE  Last(q) \in S
<1>1. Len(q) \in 1..Len(q)
  BY EmptySeq, LenProperties
<1> QED BY <1>1, ElementOfSeq DEF Last

LEMMA LeaveVisited ==
  ASSUME fn \in Programs, NEW T, NEW a, NEW z, NEW G, Compiling(T, a, z, G),
         VisitBreak \/ VisitContinue \/ VisitReturn
  PROVE  \E U : Compiling(U, a, z, G)'
<1>0. a.br \in Seq(Entries(fn, T)) /\ a.co \in Seq(Entries(fn, T)) /\ a.re \in Seq(Entries(fn, T))
  BY DEF Compiling, Good, Points
<1>1. CASE VisitBreak
  <2>1. Visiting("break") /\ breakTags # <<>> /\ Becomes(<<Leave(Last(breakTags))>>, 0)
    BY <1>1 DEF VisitBreak
  <2>2. Sync(fn, a) /\ Shaped(a) /\ Stmt.kind = "break" /\ breakTags = a.br
    BY <2>1, VisitFacts
  <2>3. Last(breakTags) \in Entries(fn, T)
    BY <1>0, <2>1, <2>2, LastIn
  <2>4. Flow(fn, T, <<Leave(Last(breakTags))>>, a, Move(a, StatementSize(Stmt)))
    BY <2>2, <2>3, FlowLeave, NoSize
  <2> QED BY <2>1, <2>4, VisitedPlainly
<1>2. CASE VisitContinue
  <2>1. Visiting("continue") /\ continueTags # <<>> /\ Becomes(<<Leave(Last(continueTags))>>, 0)
    BY <1>2 DEF VisitContinue
  <2>2. Sync(fn, a) /\ Shaped(a) /\ Stmt.kind = "continue" /\ continueTags = a.co
    BY <2>1, VisitFacts
  <2>3. Last(continueTags) \in Entries(fn, T)
    BY <1>0, <2>1, <2>2, LastIn
  <2>4. Flow(fn, T, <<Leave(Last(continueTags))>>, a, Move(a, StatementSize(Stmt)))
    BY <2>2, <2>3, FlowLeave, NoSize
  <2> QED BY <2>1, <2>4, VisitedPlainly
<1>3. CASE VisitReturn
  <2> DEFINE ts == (IF Stmt.value THEN <<Push(AllSlots(fn.returns, "value"))>> \o AssignAll(fn.returns) ELSE <<>>)
                     \o <<Leave(Last(returnTags))>>
  <2>1. Visiting("return") /\ Becomes(ts, 0)
    BY <1>3 DEF VisitReturn
  <2>2. /\ Sync(fn, a) /\ Shaped(a) /\ Stmt.kind = "return" /\ returnTags = a.re /\ Clear(a, Stmt)
        /\ Surplus(fn) \in Nat
    BY <2>1, VisitFacts
  <2>3. Last(returnTags) \in Entries(fn, T)
    BY <1>0, <2>2, LastIn DEF Clear
  <2>4. Flow(fn, T, ts, a, a)
    BY <2>2, <2>3, FlowReturn
  <2> HIDE DEF ts
  <2>5. Flow(fn, T, ts, a, Move(a, StatementSize(Stmt)))
    BY <2>2, <2>4, NoSize
  <2> QED BY <2>1, <2>5, VisitedPlainly
<1> QED BY <1>1, <1>2, <1>3

LEMMA PlaceholderVisited ==
  ASSUME fn \in Programs, NEW T, NEW a, NEW z, NEW G, Compiling(T, a, z, G), VisitPlaceholder
  PROVE  \E U : Compiling(U, a, z, G)'
<1>1. Visiting("placeholder") /\ Becomes(<<CodeBlock, Check(height)>>, 0)
  BY DEF VisitPlaceholder
<1>2. Sync(fn, a) /\ Shaped(a) /\ Stmt.kind = "placeholder" /\ Clear(a, Stmt) /\ height = a.h
  BY <1>1, VisitFacts
<1>3. Flow(fn, T, <<CodeBlock, Check(height)>>, a, Move(a, StatementSize(Stmt)))
  BY <1>2, FlowPlaceholder, NoSize DEF Clear
<1> QED BY <1>1, <1>3, VisitedPlainly

LEMMA TryVisited ==
  ASSUME fn \in Programs, NEW T, NEW a, NEW z, NEW G, Compiling(T, a, z, G), VisitTry
  PROVE  \E U : Compiling(U, a, z, G)'
<1> DEFINE t1 == tags + 1
           t2 == tags + 2
           t3 == tags + 3
           t4 == tags + 4
           t5 == tags + 5
           t6 == tags + 6
           t7 == tags + 7
           s == Stmt
           ts == TryTasks(s, height, t1, t2, t3, t4, t5, t6, t7)
           D == {t1, t2, t3, t4, t5} \cup (IF s.error = <<>> THEN {} ELSE {t6})
                                     \cup (IF s.panic = <<>> THEN {} ELSE {t7})
           n == SizeOnStack(s.returns)
           k == SelectorSize(s)
           H == [t \in {t1, t2, t3, t4, t5, t6, t7} |->
                   IF t = t1 THEN a.h + n
                     ELSE IF t = t5 THEN a.h + k ELSE IF t = t6 \/ t = t7 THEN a.h + 1 ELSE a.h]
<1>1. Visiting("try") /\ Becomes(ts, 7)
  BY DEF VisitTry, NewTag, TryTasks
<1>2. /\ s \in Statements /\ Sync(fn, a) /\ Clear(a, s) /\ Surplus(fn) \in Nat /\ Shaped(a)
      /\ s.kind = "try" /\ height = a.h /\ tags \in Nat /\ DOMAIN T \subseteq 1..tags
  BY <1>1, VisitFacts
<1> HIDE DEF s
<1>3. D \subseteq (tags + 1)..(tags + 7)
  BY <1>2
<1>4. /\ H[t1] = a.h + n /\ H[t2] = a.h /\ H[t3] = a.h /\ H[t4] = a.h /\ H[t5] = a.h + k
      /\ H[t6] = a.h + 1 /\ H[t7] = a.h + 1
  <2> HIDE DEF n, k
  <2> QED BY <1>2
<1> HIDE DEF H
<1>5. PICK U : Adds(U, T, D, tags + 7) /\ Heights(U, D, H)
  <2>1. tags + 7 \in Nat /\ tags <= tags + 7
    BY <1>2
  <2> HIDE DEF D
  <2> QED BY <1>2, <1>3, <2>1, NewTags
<1>6. {t1, t2, t3, t4, t5} \subseteq D /\ (s.error # <<>> => t6 \in D) /\ (s.panic # <<>> => t7 \in D)
  OBVIOUS
<1>7. \A t \in D : \/ t \in {t1, t2, t3, t4, t5}
                   \/ s.error # <<>> /\ t = t6
                   \/ s.panic # <<>> /\ t = t7
  OBVIOUS
<1> HIDE DEF t1, t2, t3, t4, t5, t6, t7, D, n, k
<1>8. /\ \A t \in {t1, t2, t3, t4, t5} : t \in DOMAIN U /\ U[t] = H[t]
      /\ s.error # <<>> => t6 \in DOMAIN U /\ U[t6] = a.h + 1
      /\ s.panic # <<>> => t7 \in DOMAIN U /\ U[t7] = a.h + 1
  BY <1>4, <1>5, <1>6 DEF Heights
<1>9. /\ t1 \in DOMAIN U /\ t2 \in DOMAIN U /\ t3 \in DOMAIN U /\ t4 \in DOMAIN U /\ t5 \in DOMAIN U
      /\ U[t1] = a.h + n /\ U[t2] = a.h /\ U[t3] = a.h /\ U[t4] = a.h /\ U[t5] = a.h + k
  BY <1>4, <1>8
<1>10. /\ Flow(fn, U, ts, a, a)
       /\ \A t \in {t1, t2, t3, t4, t5} : Has(ts, Place(t))
       /\ s.error # <<>> => Has(ts, Place(t6))
       /\ s.panic # <<>> => Has(ts, Place(t7))
  <2> DEFINE us == TryTasks(s, a.h, t1, t2, t3, t4, t5, t6, t7)
  <2>1. U[t1] = a.h + SizeOnStack(s.returns) /\ U[t5] = a.h + SelectorSize(s)
    BY <1>9 DEF n, k
  <2>2. /\ Flow(fn, U, us, a, a)
        /\ Has(us, Place(t1)) /\ Has(us, Place(t2)) /\ Has(us, Place(t3)) /\ Has(us, Place(t4))
        /\ Has(us, Place(t5))
        /\ s.error # <<>> => Has(us, Place(t6))
        /\ s.panic # <<>> => Has(us, Place(t7))
    BY <1>2, <1>8, <1>9, <2>1, FlowTry
  <2>3. ts = us
    BY <1>2
  <2> HIDE DEF us, ts
  <2> QED BY <2>2, <2>3
<1> HIDE DEF ts
<1>11. \A t \in DOMAIN U \ DOMAIN T : Has(ts, Place(t))
  <2>1. DOMAIN U \ DOMAIN T = D
    BY <1>5 DEF Adds
  <2> QED BY <1>7, <1>10, <2>1
<1>12. Flow(fn, U, ts, a, Move(a, StatementSize(Stmt)))
  BY <1>2, <1>10, NoSize DEF s
<1> QED BY <1>1, <1>5, <1>11, <1>12, Visited DEF ts, s

LEMMA StatementVisited ==
  ASSUME fn \in Programs, NEW T, NEW a, NEW z, NEW G, Compiling(T, a, z, G), VisitStatement
  PROVE  \E U : Compiling(U, a, z, G)'
BY BlockVisited, DeclareVisited, EvalVisited, IfVisited, WhileVisited, DoWhileVisited, ForVisited,
   LeaveVisited, PlaceholderVisited, TryVisited DEF VisitStatement

-----------------------------------------------------------------------------
(***************************************************************************)
(* The other tasks, as long as they do not end the compilation.            *)
(***************************************************************************)
LEMMA TaskFacts ==
  ASSUME fn \in Programs, NEW T, NEW a, NEW z, NEW G, Compiling(T, a, z, G), NEW k, Task(k)
  PROVE  /\ todo # <<>> /\ Head(todo).do = k /\ It.do = k /\ phase = "compile" /\ It = Head(todo)
         /\ UNCHANGED <<fn, machineVars>>
         /\ \E b : Step(fn, T, It, a, b) /\ Flow(fn, T, Tail(todo), b, z)
         /\ Surplus(fn) \in Nat /\ Shaped(a)
         /\ IsSeq(a.br) /\ IsSeq(a.co) /\ IsSeq(a.re)
         /\ Sync(fn, a) => /\ height = a.h /\ scopes = a.sc /\ depth = a.depth
                           /\ breakTags = a.br /\ continueTags = a.co /\ returnTags = a.re
         /\ Good(fn, T, a) /\ tags \in Nat /\ DOMAIN T \subseteq 1..tags
<1>1. /\ todo # <<>> /\ Head(todo).do = k /\ It.do = k /\ phase = "compile" /\ It = Head(todo)
      /\ UNCHANGED <<fn, machineVars>>
  BY DEF Task, It
<1>2. \E b : Step(fn, T, It, a, b) /\ Flow(fn, T, Tail(todo), b, z)
  BY <1>1, TakeTask
<1>3. /\ Surplus(fn) \in Nat /\ Shaped(a)
      /\ IsSeq(a.br) /\ IsSeq(a.co) /\ IsSeq(a.re)
      /\ Sync(fn, a) => /\ height = a.h /\ scopes = a.sc /\ depth = a.depth
                        /\ breakTags = a.br /\ continueTags = a.co /\ returnTags = a.re
  BY <1>1, TakeTask
<1>4. Good(fn, T, a) /\ tags \in Nat /\ DOMAIN T \subseteq 1..tags
  BY DEF Compiling
<1> QED BY <1>1, <1>2, <1>3, <1>4

LEMMA GoodAt ==
  ASSUME NEW f, NEW T, NEW a, Good(f, T, a), NEW h \in Int, NEW g \in Int
  PROVE  Good(f, T, At(a, h, g))
<1>1. a \in Points(f, T) /\ \A e \in a.sc : e.depth <= a.depth /\ e.height >= Surplus(f)
  BY DEF Good
<1>2. /\ a.sc \in SUBSET ScopeRecords /\ a.br \in Seq(Entries(f, T)) /\ a.co \in Seq(Entries(f, T))
      /\ a.re \in Seq(Entries(f, T)) /\ a.depth \in Int
  BY <1>1 DEF Points
<1>3. At(a, h, g) \in Points(f, T)
  BY <1>2 DEF Points, At, Point
<1>4. At(a, h, g).sc = a.sc /\ At(a, h, g).depth = a.depth
  BY DEF At, Point
<1> QED BY <1>1, <1>3, <1>4 DEF Good

\* The list of tasks only gets shorter.
LEMMA Dropped ==
  ASSUME NEW T, NEW a, NEW z, NEW G, Compiling(T, a, z, G), todo # <<>>, Head(todo).do # "emit",
         NEW b, Flow(fn, T, Tail(todo), b, z),
         todo' = <<>> \o Tail(todo), UNCHANGED <<fn, code, tags, machineVars>>,
         Good(fn, T, b), b.g = a.g, Matches(b)'
  PROVE  Compiling(T, b, z, G)'
<1>1. Flow(fn, T, <<>>, b, b)
  BY FlowNone
<1> QED BY <1>1, ReplacedPlainly

LEMMA Emitted ==
  ASSUME fn \in Programs, NEW T, NEW a, NEW z, NEW G, Compiling(T, a, z, G), DoEmit, phase' = "compile"
  PROVE  \E b, H : Compiling(T, b, z, H)'
<1> DEFINE c == [op |-> It.op, n |-> It.n, vals |-> It.vals, h |-> height]
<1>1. Task("emit")
  BY DEF DoEmit
<1>2. /\ todo # <<>> /\ It.do = "emit" /\ phase = "compile" /\ It = Head(todo)
      /\ fn' = fn /\ stack' = stack /\ ip' = ip
      /\ \E b : Step(fn, T, It, a, b) /\ Flow(fn, T, Tail(todo), b, z)
      /\ Surplus(fn) \in Nat /\ Shaped(a) /\ Good(fn, T, a) /\ tags \in Nat /\ DOMAIN T \subseteq 1..tags
  BY <1>1, TaskFacts DEF machineVars
<1>3. /\ todo' = <<>> \o Tail(todo) /\ code' = Append(code, c) /\ height' = height + Delta(It)
      /\ UNCHANGED <<tags, breakTags, continueTags, returnTags, scopes, depth>>
  BY <1>2 DEF DoEmit, Ends, Then, tagStacks
<1>4. PICK b : Step(fn, T, It, a, b) /\ Flow(fn, T, Tail(todo), b, z)
  BY <1>2
<1>5. /\ Fits(fn, T, [op |-> It.op, n |-> It.n, vals |-> It.vals, h |-> a.h], a.g, b.g)
      /\ b.g \in Int /\ b.h \in Int /\ b = At(a, b.h, b.g)
      /\ IF It.op \in {"out", "end"} THEN b.g = Nowhere ELSE b.h = a.h + Delta(It)
  BY <1>2, <1>4 DEF Step
<1>6. It.op \notin {"out", "end"} => a.g >= 0
  <2>1. a.g \in Int
    BY <1>2 DEF Shaped
  <2> QED BY <1>2, <1>5, <2>1 DEF Fits, Here
<1>7. Matches(a)
  BY DEF Compiling
<1>8. Fits(fn, T, c, a.g, b.g)
  <2>1. CASE It.op \in {"out", "end"}
    BY <2>1 DEF Fits
  <2>2. CASE It.op \notin {"out", "end"}
    <3>1. height = a.h
      BY <1>6, <1>7, <2>2 DEF Matches
    <3> QED BY <1>5, <3>1
  <2> QED BY <2>1, <2>2
<1>9. /\ b.sc = a.sc /\ b.br = a.br /\ b.co = a.co /\ b.re = a.re /\ b.depth = a.depth
  BY <1>2, <1>5, AtShape
<1>10. Matches(b)'
  <2>1. CASE It.op \in {"out", "end"}
    BY <1>5, <2>1 DEF Matches, Nowhere
  <2>2. CASE It.op \notin {"out", "end"}
    BY <1>3, <1>5, <1>6, <1>7, <1>9, <2>2 DEF Matches
  <2> QED BY <2>1, <2>2
<1>11. Good(fn, T, b)
  BY <1>2, <1>5, GoodAt
<1>12. IsSeq(todo) /\ IsSeq(Tail(todo))
  BY <1>4, FlowSeq DEF Compiling
<1>13. todo' = Tail(todo)
  BY <1>3, <1>12, EmptyConcat
<1> DEFINE n == Len(code)
<1>14. /\ IsSeq(code) /\ G[n + 1] = a.g /\ n \in Nat
       /\ \A i \in 1..n : Fits(fn, T, code[i], G[i], G[i + 1])
  BY IsSeqLen DEF Compiling, Traced
<1>15. /\ IsSeq(code') /\ Len(code') = n + 1
       /\ \A i \in 1..(n + 1) : code'[i] = IF i <= n THEN code[i] ELSE c
  <2> HIDE DEF c
  <2> QED BY <1>3, <1>14, IsSeqAppend
<1> HIDE DEF c, n
<1>16. PICK H : H[n + 2] = b.g /\ \A i \in 1..(n + 1) : H[i] = G[i]
  <2> DEFINE L == [i \in 1..(n + 2) |-> IF i = n + 2 THEN b.g ELSE G[i]]
  <2>1. L[n + 2] = b.g /\ \A i \in 1..(n + 1) : L[i] = G[i]
    BY <1>14
  <2> HIDE DEF L
  <2> QED BY <2>1
<1>17. Traced(fn, T, code', H, b.g)
  <2>1. \A i \in 1..n : Fits(fn, T, code'[i], H[i], H[i + 1])
    <3>1. \A i \in 1..n : i \in 1..(n + 1) /\ i + 1 \in 1..(n + 1) /\ i <= n
      BY <1>14
    <3> QED BY <1>14, <1>15, <1>16, <3>1
  <2>2. Fits(fn, T, code'[n + 1], H[n + 1], H[(n + 1) + 1])
    <3>1. n + 1 \in 1..(n + 1) /\ ~(n + 1 <= n) /\ (n + 1) + 1 = n + 2
      BY <1>14
    <3> QED BY <1>8, <1>14, <1>15, <1>16, <3>1
  <2>3. \A i \in 1..(n + 1) : i \in 1..n \/ i = n + 1
    BY <1>14
  <2>4. (n + 1) + 1 = n + 2
    BY <1>14
  <2> QED BY <1>15, <1>16, <2>1, <2>2, <2>3, <2>4 DEF Traced
<1>18. ASSUME NEW t \in DOMAIN T PROVE Has(todo', Place(t)) \/ TagIn(code', t)
  <2>1. Has(todo, Place(t)) \/ TagIn(code, t)
    BY DEF Compiling
  <2>2. CASE TagIn(code, t)
    <3>1. PICK i \in 1..Len(code) : code[i].op = "tag" /\ code[i].n = t
      BY <2>2 DEF TagIn
    <3>2. i \in 1..(n + 1) /\ i <= n
      BY <1>14 DEF n
    <3> QED BY <1>15, <3>1, <3>2 DEF TagIn
  <2>3. CASE Has(todo, Place(t)) /\ Place(t) # It
    BY <1>2, <1>12, <1>13, <2>3, HasTail
  <2>4. CASE Place(t) = It
    <3>1. c.op = "tag" /\ c.n = t
      BY <2>4 DEF c, Place, Emit
    <3>2. n + 1 \in 1..(n + 1) /\ ~(n + 1 <= n)
      BY <1>14
    <3> QED BY <1>15, <3>1, <3>2 DEF TagIn
  <2> QED BY <2>1, <2>2, <2>3, <2>4
<1>19. H[1] \in {Len(stack) + Surplus(fn), Unknown}
  <2>1. H[1] = G[1]
    BY <1>14, <1>16
  <2> QED BY <2>1 DEF Compiling
<1>20. Compiling(T, b, z, H)'
  <2>1. ip = 1 /\ IsSeq(stack) /\ z.g = Nowhere
    BY DEF Compiling
  <2>2. tags' \in Nat /\ DOMAIN T \subseteq 1..(tags') /\ ip' = 1 /\ IsSeq(stack')
    BY <1>2, <1>3, <2>1
  <2>3. Good(fn', T, b) /\ Flow(fn', T, todo', b, z) /\ Traced(fn', T, code', H, b.g)
    BY <1>2, <1>4, <1>11, <1>13, <1>17
  <2>4. H[1] \in {Len(stack') + Surplus(fn'), Unknown}
    BY <1>2, <1>19
  <2> QED BY <1>10, <1>18, <2>1, <2>2, <2>3, <2>4 DEF Compiling
<1> QED BY <1>20

LEMMA Adjusted ==
  ASSUME fn \in Programs, NEW T, NEW a, NEW z, NEW G, Compiling(T, a, z, G), DoAdjust, phase' = "compile"
  PROVE  \E b, H : Compiling(T, b, z, H)'
<1>1. Task("adjust")
  BY DEF DoAdjust
<1>2. /\ todo # <<>> /\ It.do = "adjust" /\ Head(todo).do = "adjust" /\ phase = "compile"
      /\ UNCHANGED <<fn, machineVars>>
      /\ \E b : Step(fn, T, It, a, b) /\ Flow(fn, T, Tail(todo), b, z)
      /\ Shaped(a) /\ Good(fn, T, a)
  BY <1>1, TaskFacts
<1>3. /\ todo' = <<>> \o Tail(todo) /\ height' = height + It.n
      /\ UNCHANGED <<code, tags, breakTags, continueTags, returnTags, scopes, depth>>
  BY <1>2 DEF DoAdjust, Ends, Then, tagStacks
<1>4. PICK b : Step(fn, T, It, a, b) /\ Flow(fn, T, Tail(todo), b, z)
  BY <1>2
<1>5. It.n \in Int /\ b = At(a, a.h + It.n, a.g) /\ a.h + It.n \in Int /\ a.g \in Int
  BY <1>2, <1>4 DEF Step, Shaped
<1>6. Good(fn, T, b)
  BY <1>2, <1>5, GoodAt
<1>7. /\ b.h = a.h + It.n /\ b.g = a.g /\ b.sc = a.sc /\ b.br = a.br /\ b.co = a.co /\ b.re = a.re
      /\ b.depth = a.depth
  BY <1>2, <1>5, AtShape
<1>8. Matches(b)'
  BY <1>3, <1>7 DEF Compiling, Matches
<1>9. Compiling(T, b, z, G)'
  BY <1>2, <1>3, <1>4, <1>6, <1>7, <1>8, Dropped
<1> QED BY <1>9

LEMMA Checked ==
  ASSUME fn \in Programs, NEW T, NEW a, NEW z, NEW G, Compiling(T, a, z, G),
         DoCheck \/ DoAddVariable \/ DoRemoveVariable, phase' = "compile"
  PROVE  \E b, H : Compiling(T, b, z, H)'
<1>1. PICK k \in {"check", "addVariable", "removeVariable"} : Task(k)
  BY DEF DoCheck, DoAddVariable, DoRemoveVariable
<1>2. /\ todo # <<>> /\ It.do = k /\ Head(todo).do # "emit" /\ phase = "compile"
      /\ UNCHANGED <<fn, machineVars>>
      /\ \E b : Step(fn, T, It, a, b) /\ Flow(fn, T, Tail(todo), b, z)
      /\ Shaped(a) /\ Good(fn, T, a)
  BY <1>1, TaskFacts
<1>3. /\ todo' = <<>> \o Tail(todo)
      /\ UNCHANGED <<height, code, tags, breakTags, continueTags, returnTags, scopes, depth>>
  BY <1>2 DEF DoCheck, DoAddVariable, DoRemoveVariable, Ends, Then, tagStacks
<1>4. PICK b : Step(fn, T, It, a, b) /\ Flow(fn, T, Tail(todo), b, z)
  BY <1>2
<1>5. b = a
  BY <1>1, <1>2, <1>4 DEF Step
<1>6. Matches(a)'
  BY <1>3 DEF Compiling, Matches
<1>7. Compiling(T, a, z, G)'
  BY <1>2, <1>3, <1>4, <1>5, <1>6, Dropped
<1> QED BY <1>7

LEMMA ClauseClosed ==
  ASSUME fn \in Programs, NEW T, NEW a, NEW z, NEW G, Compiling(T, a, z, G), DoCloseClause, phase' = "compile"
  PROVE  \E b, H : Compiling(T, b, z, H)'
<1>1. Task("closeClause")
  BY DEF DoCloseClause
<1>2. /\ todo # <<>> /\ It.do = "closeClause" /\ Head(todo).do # "emit" /\ phase = "compile"
      /\ UNCHANGED <<fn, machineVars>>
      /\ \E b : Step(fn, T, It, a, b) /\ Flow(fn, T, Tail(todo), b, z)
      /\ Shaped(a) /\ Good(fn, T, a)
  BY <1>1, TaskFacts
<1>3. /\ todo' = <<Pop(It.n)>> \o Tail(todo)
      /\ UNCHANGED <<height, code, tags, breakTags, continueTags, returnTags, scopes, depth>>
  BY <1>2 DEF DoCloseClause, Ends, Then, tagStacks
<1>4. PICK b : Step(fn, T, It, a, b) /\ Flow(fn, T, Tail(todo), b, z)
  BY <1>2
<1>5. It.n \in Nat /\ a.h - It.n >= Surplus(fn) /\ b = Move(a, 0 - It.n) /\ Sync(fn, a)
  BY <1>2, <1>4 DEF Step
<1>6. Flow(fn, T, <<Pop(It.n)>>, a, b)
  BY <1>2, <1>5, StepPop, Chain1
<1>7. Matches(a)'
  BY <1>3 DEF Compiling, Matches
<1>8. Compiling(T, a, z, G)'
  BY <1>2, <1>3, <1>4, <1>6, <1>7, ReplacedPlainly
<1> QED BY <1>8

LEMMA ScopeOpened ==
  ASSUME fn \in Programs, NEW T, NEW a, NEW z, NEW G, Compiling(T, a, z, G), DoOpenScope, phase' = "compile"
  PROVE  \E b, H : Compiling(T, b, z, H)'
<1>1. Task("openScope")
  BY DEF DoOpenScope
<1>2. /\ todo # <<>> /\ It.do = "openScope" /\ Head(todo).do # "emit" /\ phase = "compile"
      /\ UNCHANGED <<fn, machineVars>>
      /\ \E b : Step(fn, T, It, a, b) /\ Flow(fn, T, Tail(todo), b, z)
      /\ Shaped(a) /\ Good(fn, T, a) /\ Surplus(fn) \in Nat
  BY <1>1, TaskFacts
<1> DEFINE e == [depth |-> a.depth, node |-> It.node, height |-> a.h]
           sc == a.sc \cup {e}
<1>4. PICK b : Step(fn, T, It, a, b) /\ Flow(fn, T, Tail(todo), b, z)
  BY <1>2
<1>5. /\ It.node \in Node /\ (\A x \in a.sc : ~(x.depth = a.depth /\ x.node = It.node))
      /\ b = WithScopes(a, sc) /\ Sync(fn, a)
  BY <1>2, <1>4 DEF Step
<1>6. /\ height = a.h /\ scopes = a.sc /\ depth = a.depth
      /\ breakTags = a.br /\ continueTags = a.co /\ returnTags = a.re
  BY <1>1, <1>5, TaskFacts
<1>7. /\ todo' = <<>> \o Tail(todo) /\ scopes' = sc
      /\ UNCHANGED <<height, code, tags, breakTags, continueTags, returnTags, depth>>
  <2>1. {s \in scopes : s.depth # depth \/ s.node # It.node} = a.sc
    BY <1>5, <1>6
  <2> QED BY <1>2, <1>6, <2>1 DEF DoOpenScope, Then, tagStacks
<1>8. a.h \in Int /\ a.g \in Int /\ a.depth \in Int /\ a.h >= Surplus(fn)
  BY <1>2, <1>5 DEF Shaped, Sync
<1>9. /\ b.h = a.h /\ b.g = a.g /\ b.sc = sc /\ b.br = a.br /\ b.co = a.co /\ b.re = a.re
      /\ b.depth = a.depth
  BY <1>5, <1>8, PointShaped DEF WithScopes
<1>10. Good(fn, T, b)
  <2>1. e \in ScopeRecords /\ e.depth = a.depth /\ e.height = a.h
    BY <1>5, <1>8 DEF ScopeRecords
  <2> HIDE DEF e
  <2>2. a \in Points(fn, T) /\ \A x \in a.sc : x.depth <= a.depth /\ x.height >= Surplus(fn)
    BY <1>2 DEF Good
  <2>3. /\ a.sc \in SUBSET ScopeRecords /\ a.br \in Seq(Entries(fn, T)) /\ a.co \in Seq(Entries(fn, T))
        /\ a.re \in Seq(Entries(fn, T))
    BY <2>2 DEF Points
  <2>4. sc \in SUBSET ScopeRecords /\ \A x \in sc : x.depth <= a.depth /\ x.height >= Surplus(fn)
    BY <1>8, <2>1, <2>2, <2>3
  <2> HIDE DEF sc
  <2>5. b \in Points(fn, T)
    BY <1>5, <1>8, <2>3, <2>4 DEF WithScopes, Point, Points
  <2> QED BY <1>9, <2>4, <2>5 DEF Good
<1>11. Matches(b)'
  BY <1>6, <1>7, <1>9 DEF Matches
<1>12. Compiling(T, b, z, G)'
  BY <1>2, <1>4, <1>7, <1>9, <1>10, <1>11, Dropped
<1> QED BY <1>12

LEMMA ScopeClosed ==
  ASSUME fn \in Programs, NEW T, NEW a, NEW z, NEW G, Compiling(T, a, z, G), DoCloseScope, phase' = "compile"
  PROVE  \E b, H : Compiling(T, b, z, H)'
<1>1. Task("closeScope")
  BY DEF DoCloseScope
<1>2. /\ todo # <<>> /\ It.do = "closeScope" /\ Head(todo).do # "emit" /\ phase = "compile"
      /\ UNCHANGED <<fn, machineVars>>
      /\ \E b : Step(fn, T, It, a, b) /\ Flow(fn, T, Tail(todo), b, z)
      /\ Shaped(a) /\ Good(fn, T, a) /\ Surplus(fn) \in Nat
  BY <1>1, TaskFacts
<1>4. PICK b : Step(fn, T, It, a, b) /\ Flow(fn, T, Tail(todo), b, z)
  BY <1>2
<1>5. PICK e \in a.sc : /\ e.depth = a.depth /\ e.node = It.node
                        /\ \A x \in a.sc : x.depth = a.depth /\ x.node = It.node => x = e
                        /\ b = At(WithScopes(a, a.sc \ {e}), e.height, e.height)
  BY <1>2, <1>4 DEF Step
<1>6. Sync(fn, a)
  BY <1>2, <1>4 DEF Step
<1>7. /\ height = a.h /\ scopes = a.sc /\ depth = a.depth
      /\ breakTags = a.br /\ continueTags = a.co /\ returnTags = a.re
  BY <1>1, <1>6, TaskFacts
<1> DEFINE found == {s \in scopes : s.depth = depth /\ s.node = It.node}
<1>8. found = {e}
  BY <1>5, <1>7
<1>9. (CHOOSE s \in found : TRUE) = e
  BY <1>8
<1>10. /\ todo' = <<Pop(height - e.height)>> \o Tail(todo) /\ scopes' = a.sc \ {e} /\ e.height <= height
       /\ UNCHANGED <<height, code, tags, breakTags, continueTags, returnTags, depth>>
  <2>1. ~(found = {} \/ ~NoVariableAbove \/ (\E s \in found : s.height > height))
    BY <1>2 DEF DoCloseScope, Ends
  <2>2. /\ Then(<<Pop(height - (CHOOSE s \in found : TRUE).height)>>)
        /\ scopes' = scopes \ found
        /\ UNCHANGED <<height, code, tags, tagStacks, depth>>
    BY <2>1 DEF DoCloseScope
  <2>3. ~(e.height > height)
    BY <1>8, <2>1
  <2>4. e.height \in Int /\ height \in Int
    BY <1>2, <1>5, <1>7 DEF Good, Points, ScopeRecords, Shaped
  <2> HIDE DEF found
  <2> QED BY <1>7, <1>8, <1>9, <2>2, <2>3, <2>4 DEF Then, tagStacks
<1> DEFINE c == WithScopes(a, a.sc \ {e})
           n == a.h - e.height
<1>11. a.h \in Int /\ a.g \in Int /\ a.depth \in Int /\ a.h >= Surplus(fn) /\ a.g = a.h
  BY <1>2, <1>6 DEF Shaped, Sync
<1>12. /\ Shaped(c) /\ c.h = a.h /\ c.g = a.g /\ c.sc = a.sc \ {e} /\ c.br = a.br /\ c.co = a.co /\ c.re = a.re
       /\ c.depth = a.depth
  BY <1>11, PointShaped DEF WithScopes
<1>13. Sync(fn, c)
  BY <1>11, <1>12 DEF Sync
<1>14. Good(fn, T, c)
  <2>1. a \in Points(fn, T) /\ \A x \in a.sc : x.depth <= a.depth /\ x.height >= Surplus(fn)
    BY <1>2 DEF Good
  <2>2. /\ a.sc \in SUBSET ScopeRecords /\ a.br \in Seq(Entries(fn, T)) /\ a.co \in Seq(Entries(fn, T))
        /\ a.re \in Seq(Entries(fn, T))
    BY <2>1 DEF Points
  <2> DEFINE sc == a.sc \ {e}
  <2>3. sc \in SUBSET ScopeRecords /\ \A x \in sc : x.depth <= a.depth /\ x.height >= Surplus(fn)
    BY <2>1, <2>2
  <2> HIDE DEF sc
  <2>4. Point(a.h, a.g, sc, a.br, a.co, a.re, a.depth) \in Points(fn, T)
    BY <1>11, <2>2, <2>3 DEF Point, Points
  <2>5. c \in Points(fn, T)
    BY <2>4 DEF WithScopes, sc
  <2> QED BY <1>12, <2>3, <2>5 DEF Good, sc
<1>15. e.height \in Int /\ e.height >= Surplus(fn)
  BY <1>2, <1>5 DEF Good, Points, ScopeRecords
<1>16. Flow(fn, T, <<Pop(height - e.height)>>, c, b)
  <2>1. n \in Nat /\ n = height - e.height /\ c.h - n >= Surplus(fn)
    BY <1>7, <1>10, <1>11, <1>12, <1>15
  <2>2. b = Move(c, 0 - n)
    <3>1. c.h + (0 - n) = e.height /\ c.g + (0 - n) = e.height
      BY <1>11, <1>12, <1>15
    <3> QED BY <1>5, <3>1 DEF Move
  <2> HIDE DEF c, n
  <2>3. Step(fn, T, Pop(n), c, b)
    BY <1>12, <1>13, <2>1, <2>2, StepPop
  <2> QED BY <2>1, <2>3, Chain1
<1>17. Matches(c)'
  BY <1>7, <1>10, <1>12 DEF Matches
<1> HIDE DEF c
<1>18. Compiling(T, c, z, G)'
  BY <1>2, <1>4, <1>10, <1>12, <1>14, <1>16, <1>17, ReplacedPlainly
<1> QED BY <1>18

LEMMA FrontIn ==
  ASSUME NEW S, NEW q \in Seq(S), q # <<>>
  PROVE  Front(q) \in Seq(S)
<1>1. Len(q) \in Nat /\ \A i \in 1..(Len(q) - 1) : q[i] \in S
  BY ElementOfSeq, LenProperties
<1>2. SubSeq(q, 1, Len(q) - 1) \in Seq(S)
  BY <1>1
<1> QED BY <1>2 DEF Front

\* Points with other stacks of tags.
LEMMA GoodStacks ==
  ASSUME NEW f, NEW T, NEW a, Good(f, T, a), NEW br \in Seq(Entries(f, T)), NEW co \in Seq(Entries(f, T)),
         NEW re \in Seq(Entries(f, T)), NEW b, b = Point(a.h, a.g, a.sc, br, co, re, a.depth)
  PROVE  /\ Good(f, T, b) /\ b.h = a.h /\ b.g = a.g /\ b.sc = a.sc /\ b.br = br /\ b.co = co /\ b.re = re
         /\ b.depth = a.depth
<1>1. a \in Points(f, T) /\ \A x \in a.sc : x.depth <= a.depth /\ x.height >= Surplus(f)
  BY DEF Good
<1>2. a.h \in Int /\ a.g \in Int /\ a.sc \in SUBSET ScopeRecords /\ a.depth \in Int
  BY <1>1 DEF Points
<1>3. b \in Points(f, T)
  BY <1>2 DEF Point, Points
<1>4. /\ b.h = a.h /\ b.g = a.g /\ b.sc = a.sc /\ b.br = br /\ b.co = co /\ b.re = re /\ b.depth = a.depth
  BY DEF Point
<1>5. Good(f, T, b)
  BY <1>1, <1>3, <1>4 DEF Good
<1> QED BY <1>4, <1>5

\* Where a new entry of a stack of tags belongs.
LEMMA EntryIn ==
  ASSUME NEW f, NEW T, NEW t \in DOMAIN T, NEW h \in Int, T[t] = h, h >= Surplus(f)
  PROVE  \A q \in Seq(Entries(f, T)) : Append(q, [tag |-> t, height |-> h]) \in Seq(Entries(f, T))
<1> DEFINE e == [tag |-> t, height |-> h]
<1>1. e \in Entries(f, T)
  BY DEF Entries
<1> HIDE DEF e
<1>2. \A q \in Seq(Entries(f, T)) : Append(q, e) \in Seq(Entries(f, T))
  BY <1>1, AppendProperties
<1> QED BY <1>2 DEF e

LEMMA StacksIn ==
  ASSUME NEW f, NEW T, NEW a, Good(f, T, a)
  PROVE  a.br \in Seq(Entries(f, T)) /\ a.co \in Seq(Entries(f, T)) /\ a.re \in Seq(Entries(f, T))
BY DEF Good, Points

LEMMA LoopOpened ==
  ASSUME fn \in Programs, NEW T, NEW a, NEW z, NEW G, Compiling(T, a, z, G), DoOpenLoop, phase' = "compile"
  PROVE  \E b, H : Compiling(T, b, z, H)'
<1>1. Task("openLoop")
  BY DEF DoOpenLoop
<1>2. /\ todo # <<>> /\ It.do = "openLoop" /\ Head(todo).do # "emit" /\ UNCHANGED <<fn, machineVars>>
      /\ \E b : Step(fn, T, It, a, b) /\ Flow(fn, T, Tail(todo), b, z)
      /\ Shaped(a) /\ Good(fn, T, a) /\ Surplus(fn) \in Nat
  BY <1>1, TaskFacts
<1> DEFINE br == Append(a.br, [tag |-> It.b, height |-> a.h])
           co == Append(a.co, [tag |-> It.c, height |-> a.h])
<1>3. PICK b : Step(fn, T, It, a, b) /\ Flow(fn, T, Tail(todo), b, z)
  BY <1>2
<1>4. /\ It.b \in DOMAIN T /\ It.c \in DOMAIN T /\ T[It.b] = a.h /\ T[It.c] = a.h
      /\ b = WithLoops(a, br, co) /\ Sync(fn, a)
  BY <1>2, <1>3 DEF Step
<1>5. /\ height = a.h /\ scopes = a.sc /\ depth = a.depth
      /\ breakTags = a.br /\ continueTags = a.co /\ returnTags = a.re
  BY <1>1, <1>4, TaskFacts
<1>6. /\ todo' = <<>> \o Tail(todo) /\ breakTags' = br /\ continueTags' = co
      /\ UNCHANGED <<height, code, tags, returnTags, scopes, depth>>
  BY <1>5 DEF DoOpenLoop, Then
<1>7. br \in Seq(Entries(fn, T)) /\ co \in Seq(Entries(fn, T)) /\ a.re \in Seq(Entries(fn, T))
  <2>1. a.h \in Int /\ a.h >= Surplus(fn)
    BY <1>2, <1>4 DEF Shaped, Sync
  <2> QED BY <1>2, <1>4, <2>1, StacksIn, EntryIn
<1> HIDE DEF br, co
<1>8. /\ Good(fn, T, b) /\ b.h = a.h /\ b.g = a.g /\ b.sc = a.sc /\ b.br = br /\ b.co = co /\ b.re = a.re
      /\ b.depth = a.depth
  BY <1>2, <1>4, <1>7, GoodStacks DEF WithLoops, WithReturns
<1>9. Matches(b)'
  BY <1>5, <1>6, <1>8 DEF Matches
<1>10. Compiling(T, b, z, G)'
  BY <1>2, <1>3, <1>6, <1>8, <1>9, Dropped
<1> QED BY <1>10

LEMMA LoopClosed ==
  ASSUME fn \in Programs, NEW T, NEW a, NEW z, NEW G, Compiling(T, a, z, G), DoCloseLoop, phase' = "compile"
  PROVE  \E b, H : Compiling(T, b, z, H)'
<1>1. Task("closeLoop")
  BY DEF DoCloseLoop
<1>2. /\ todo # <<>> /\ It.do = "closeLoop" /\ Head(todo).do # "emit" /\ UNCHANGED <<fn, machineVars>>
      /\ \E b : Step(fn, T, It, a, b) /\ Flow(fn, T, Tail(todo), b, z)
      /\ Shaped(a) /\ Good(fn, T, a) /\ Surplus(fn) \in Nat
  BY <1>1, TaskFacts
<1> DEFINE br == Front(a.br)
           co == Front(a.co)
<1>3. PICK b : Step(fn, T, It, a, b) /\ Flow(fn, T, Tail(todo), b, z)
  BY <1>2
<1>4. a.br # <<>> /\ a.co # <<>> /\ b = WithLoops(a, br, co) /\ Sync(fn, a)
  BY <1>2, <1>3 DEF Step
<1>5. /\ height = a.h /\ scopes = a.sc /\ depth = a.depth
      /\ breakTags = a.br /\ continueTags = a.co /\ returnTags = a.re
  BY <1>1, <1>4, TaskFacts
<1>6. /\ todo' = <<>> \o Tail(todo) /\ breakTags' = br /\ continueTags' = co
      /\ UNCHANGED <<height, code, tags, returnTags, scopes, depth>>
  BY <1>5 DEF DoCloseLoop, Then
<1>7. br \in Seq(Entries(fn, T)) /\ co \in Seq(Entries(fn, T)) /\ a.re \in Seq(Entries(fn, T))
  <2>1. a.br \in Seq(Entries(fn, T)) /\ a.co \in Seq(Entries(fn, T)) /\ a.re \in Seq(Entries(fn, T))
    BY <1>2, StacksIn
  <2> QED BY <1>4, <2>1, FrontIn
<1> HIDE DEF br, co
<1>8. /\ Good(fn, T, b) /\ b.h = a.h /\ b.g = a.g /\ b.sc = a.sc /\ b.br = br /\ b.co = co /\ b.re = a.re
      /\ b.depth = a.depth
  BY <1>2, <1>4, <1>7, GoodStacks DEF WithLoops, WithReturns
<1>9. Matches(b)'
  BY <1>5, <1>6, <1>8 DEF Matches
<1>10. Compiling(T, b, z, G)'
  BY <1>2, <1>3, <1>6, <1>8, <1>9, Dropped
<1> QED BY <1>10

LEMMA ReturnOpened ==
  ASSUME fn \in Programs, NEW T, NEW a, NEW z, NEW G, Compiling(T, a, z, G), DoOpenReturn, phase' = "compile"
  PROVE  \E b, H : Compiling(T, b, z, H)'
<1>1. Task("openReturn")
  BY DEF DoOpenReturn
<1>2. /\ todo # <<>> /\ It.do = "openReturn" /\ Head(todo).do # "emit" /\ UNCHANGED <<fn, machineVars>>
      /\ \E b : Step(fn, T, It, a, b) /\ Flow(fn, T, Tail(todo), b, z)
      /\ Shaped(a) /\ Good(fn, T, a) /\ Surplus(fn) \in Nat
  BY <1>1, TaskFacts
<1> DEFINE re == Append(a.re, [tag |-> It.t, height |-> a.h])
<1>3. PICK b : Step(fn, T, It, a, b) /\ Flow(fn, T, Tail(todo), b, z)
  BY <1>2
<1>4. It.t \in DOMAIN T /\ T[It.t] = a.h /\ b = WithReturns(a, re) /\ Sync(fn, a)
  BY <1>2, <1>3 DEF Step
<1>5. /\ height = a.h /\ scopes = a.sc /\ depth = a.depth
      /\ breakTags = a.br /\ continueTags = a.co /\ returnTags = a.re
  BY <1>1, <1>4, TaskFacts
<1>6. /\ todo' = <<>> \o Tail(todo) /\ returnTags' = re
      /\ UNCHANGED <<height, code, tags, breakTags, continueTags, scopes, depth>>
  BY <1>5 DEF DoOpenReturn, Then
<1>7. a.br \in Seq(Entries(fn, T)) /\ a.co \in Seq(Entries(fn, T)) /\ re \in Seq(Entries(fn, T))
  <2>1. a.h \in Int /\ a.h >= Surplus(fn)
    BY <1>2, <1>4 DEF Shaped, Sync
  <2> QED BY <1>2, <1>4, <2>1, StacksIn, EntryIn
<1> HIDE DEF re
<1>8. /\ Good(fn, T, b) /\ b.h = a.h /\ b.g = a.g /\ b.sc = a.sc /\ b.br = a.br /\ b.co = a.co /\ b.re = re
      /\ b.depth = a.depth
  BY <1>2, <1>4, <1>7, GoodStacks DEF WithLoops, WithReturns
<1>9. Matches(b)'
  BY <1>5, <1>6, <1>8 DEF Matches
<1>10. Compiling(T, b, z, G)'
  BY <1>2, <1>3, <1>6, <1>8, <1>9, Dropped
<1> QED BY <1>10

LEMMA ReturnClosed ==
  ASSUME fn \in Programs, NEW T, NEW a, NEW z, NEW G, Compiling(T, a, z, G), DoCloseReturn, phase' = "compile"
  PROVE  \E b, H : Compiling(T, b, z, H)'
<1>1. Task("closeReturn")
  BY DEF DoCloseReturn
<1>2. /\ todo # <<>> /\ It.do = "closeReturn" /\ Head(todo).do # "emit" /\ UNCHANGED <<fn, machineVars>>
      /\ \E b : Step(fn, T, It, a, b) /\ Flow(fn, T, Tail(todo), b, z)
      /\ Shaped(a) /\ Good(fn, T, a) /\ Surplus(fn) \in Nat
  BY <1>1, TaskFacts
<1> DEFINE re == Front(a.re)
<1>3. PICK b : Step(fn, T, It, a, b) /\ Flow(fn, T, Tail(todo), b, z)
  BY <1>2
<1>4. a.re # <<>> /\ b = WithReturns(a, re) /\ Sync(fn, a)
  BY <1>2, <1>3 DEF Step
<1>5. /\ height = a.h /\ scopes = a.sc /\ depth = a.depth
      /\ breakTags = a.br /\ continueTags = a.co /\ returnTags = a.re
  BY <1>1, <1>4, TaskFacts
<1>6. /\ todo' = <<>> \o Tail(todo) /\ returnTags' = re
      /\ UNCHANGED <<height, code, tags, breakTags, continueTags, scopes, depth>>
  BY <1>5 DEF DoCloseReturn, Then
<1>7. a.br \in Seq(Entries(fn, T)) /\ a.co \in Seq(Entries(fn, T)) /\ re \in Seq(Entries(fn, T))
  <2>1. a.br \in Seq(Entries(fn, T)) /\ a.co \in Seq(Entries(fn, T)) /\ a.re \in Seq(Entries(fn, T))
    BY <1>2, StacksIn
  <2> QED BY <1>4, <2>1, FrontIn
<1> HIDE DEF re
<1>8. /\ Good(fn, T, b) /\ b.h = a.h /\ b.g = a.g /\ b.sc = a.sc /\ b.br = a.br /\ b.co = a.co /\ b.re = re
      /\ b.depth = a.depth
  BY <1>2, <1>4, <1>7, GoodStacks DEF WithLoops, WithReturns
<1>9. Matches(b)'
  BY <1>5, <1>6, <1>8 DEF Matches
<1>10. Compiling(T, b, z, G)'
  BY <1>2, <1>3, <1>6, <1>8, <1>9, Dropped
<1> QED BY <1>10

\* The same point one level of modifiers further out.
LEMMA DepthLeft ==
  ASSUME fn \in Programs, NEW T, NEW a, NEW z, NEW G, Compiling(T, a, z, G), DoLeaveDepth, phase' = "compile"
  PROVE  \E b, H : Compiling(T, b, z, H)'
<1>1. Task("leaveDepth")
  BY DEF DoLeaveDepth
<1>2. /\ todo # <<>> /\ It.do = "leaveDepth" /\ Head(todo).do # "emit" /\ UNCHANGED <<fn, machineVars>>
      /\ \E b : Step(fn, T, It, a, b) /\ Flow(fn, T, Tail(todo), b, z)
      /\ Shaped(a) /\ Good(fn, T, a) /\ Surplus(fn) \in Nat
  BY <1>1, TaskFacts
<1>3. PICK b : Step(fn, T, It, a, b) /\ Flow(fn, T, Tail(todo), b, z)
  BY <1>2
<1>4. (\A e \in a.sc : e.depth < a.depth) /\ b = WithDepth(a, a.depth - 1) /\ Sync(fn, a)
  BY <1>2, <1>3 DEF Step
<1>5. /\ height = a.h /\ scopes = a.sc /\ depth = a.depth
      /\ breakTags = a.br /\ continueTags = a.co /\ returnTags = a.re
  BY <1>1, <1>4, TaskFacts
<1>6. /\ todo' = <<>> \o Tail(todo) /\ depth' = a.depth - 1
      /\ UNCHANGED <<height, code, tags, breakTags, continueTags, returnTags, scopes>>
  BY <1>5 DEF DoLeaveDepth, Then, tagStacks
<1>7. a.h \in Int /\ a.g \in Int /\ a.depth \in Int /\ a.depth - 1 \in Int
  BY <1>2 DEF Shaped
<1>8. /\ b.h = a.h /\ b.g = a.g /\ b.sc = a.sc /\ b.br = a.br /\ b.co = a.co /\ b.re = a.re
      /\ b.depth = a.depth - 1
  BY <1>4, <1>7, PointShaped DEF WithDepth
<1>9. Good(fn, T, b)
  <2>1. a \in Points(fn, T) /\ \A x \in a.sc : x.height >= Surplus(fn)
    BY <1>2 DEF Good
  <2>2. /\ a.sc \in SUBSET ScopeRecords /\ a.br \in Seq(Entries(fn, T)) /\ a.co \in Seq(Entries(fn, T))
        /\ a.re \in Seq(Entries(fn, T))
    BY <2>1 DEF Points
  <2>3. b \in Points(fn, T)
    BY <1>4, <1>7, <2>2 DEF WithDepth, Point, Points
  <2>4. \A x \in a.sc : x.depth \in Int
    BY <2>2 DEF ScopeRecords
  <2>5. \A x \in a.sc : x.depth <= a.depth - 1
    BY <1>4, <1>7, <2>4
  <2> QED BY <1>8, <2>1, <2>3, <2>5 DEF Good
<1>10. Matches(b)'
  BY <1>5, <1>6, <1>8 DEF Matches
<1>11. Compiling(T, b, z, G)'
  BY <1>2, <1>3, <1>6, <1>8, <1>9, <1>10, Dropped
<1> QED BY <1>11

\* A jump out of a loop or a body: behind it the height is the one before it.
LEMMA Left ==
  ASSUME fn \in Programs, NEW T, NEW a, NEW z, NEW G, Compiling(T, a, z, G), PopAndJump, phase' = "compile"
  PROVE  \E b, H : Compiling(T, b, z, H)'
<1>1. Task("leave")
  BY DEF PopAndJump
<1>2. /\ todo # <<>> /\ It.do = "leave" /\ Head(todo).do # "emit" /\ phase = "compile" /\ UNCHANGED <<fn, machineVars>>
      /\ \E b : Step(fn, T, It, a, b) /\ Flow(fn, T, Tail(todo), b, z)
      /\ Shaped(a) /\ Good(fn, T, a) /\ Surplus(fn) \in Nat
  BY <1>1, TaskFacts
<1>3. PICK b : Step(fn, T, It, a, b) /\ Flow(fn, T, Tail(todo), b, z)
  BY <1>2
<1>4. It.entry \in Entries(fn, T) /\ b = a /\ Sync(fn, a)
  BY <1>2, <1>3 DEF Step
<1>5. height = a.h
  BY <1>1, <1>4, TaskFacts
<1> DEFINE e == It.entry
           d == a.h - e.height
           ts == <<Pop(d), Jump(e.tag), Adjust(d)>>
<1>6. /\ todo' = ts \o Tail(todo) /\ ~(height < e.height)
      /\ UNCHANGED <<height, code, tags, breakTags, continueTags, returnTags, scopes, depth>>
  <2>1. ~(height < It.entry.height)
    BY <1>2 DEF PopAndJump, Ends
  <2> QED BY <1>5, <2>1 DEF PopAndJump, Then, tagStacks
<1>7. e.tag \in DOMAIN T /\ e.height \in Int /\ T[e.tag] = e.height /\ e.height >= Surplus(fn)
  BY <1>4 DEF Entries
<1> HIDE DEF e
<1>8. d \in Nat /\ a.h \in Int /\ a.h - d = e.height /\ a.h + (0 - d) = e.height /\ 0 - d \in Int /\ (0 - d) + d = 0
  BY <1>2, <1>5, <1>6, <1>7 DEF Shaped
<1> HIDE DEF d
<1> DEFINE p == Move(a, 0 - d)
           q == At(p, p.h + 0, p.h + d)
<1>9. Step(fn, T, Pop(d), a, p)
  BY <1>2, <1>4, <1>7, <1>8, StepPop
<1>10. Shaped(p) /\ Sync(fn, p) /\ p.h = e.height
  BY <1>2, <1>4, <1>7, <1>8, MoveClear
<1>11. Move(p, d) = a
  <2>1. d \in Int
    BY <1>8
  <2>2. Move(Move(a, 0 - d), d) = Move(a, (0 - d) + d)
    BY <1>2, <1>8, <2>1, MoveTwice
  <2> QED BY <1>2, <1>8, <2>2, MoveZero
<1> HIDE DEF p
<1>12. Step(fn, T, Jump(e.tag), p, q) /\ Step(fn, T, Adjust(d), q, a)
  <2>1. T[e.tag] = p.h + 0 /\ d - 0 = d /\ Move(p, 0) = p
    BY <1>7, <1>8, <1>10, MoveZero
  <2>2. Step(fn, T, Jump(e.tag), Move(p, 0), q) /\ Step(fn, T, Adjust(d - 0), q, Move(p, d))
    BY <1>2, <1>7, <1>8, <1>10, <2>1, JumpAbove
  <2> QED BY <1>11, <2>1, <2>2
<1> HIDE DEF q
<1>13. Flow(fn, T, ts, a, a)
  BY <1>9, <1>12, Chain3
<1> HIDE DEF ts
<1>14. Matches(a)'
  BY <1>6 DEF Compiling, Matches
<1>15. Compiling(T, a, z, G)'
  BY <1>2, <1>3, <1>4, <1>6, <1>13, <1>14, ReplacedPlainly
<1> QED BY <1>15

\* A value of k slots is moved to its variable, slot by slot.
LEMMA FlowMoveSlots ==
  ASSUME NEW f, NEW T, Surplus(f) \in Nat, NEW p, Shaped(p), Sync(f, p), NEW k \in Nat, NEW n
  PROVE  Flow(f, T, FlattenSeq([i \in 1..k |-> <<Emit("swap", n, <<>>), Pop(1)>>]), Move(p, k), p)
<1> DEFINE pair == <<Emit("swap", n, <<>>), Pop(1)>>
           q == [i \in 1..k |-> pair]
<1>1. IsSeq(pair)
  BY Short
<1> HIDE DEF pair
<1>2. q = [i \in 1..k |-> q[i]] /\ \A i \in 1..k : q[i] = pair
  OBVIOUS
<1> HIDE DEF q
<1>3. IsSeq(q) /\ Len(q) = k
  BY <1>2, MadeSeq
<1>4. PICK F : F[0] = <<>> /\ F[k] = FlattenSeq(q) /\ \A i \in 1..k : F[i] = F[i - 1] \o q[i]
  <2>1. \A i \in 1..Len(q) : IsSeq(q[i])
    BY <1>1, <1>2, <1>3
  <2>2. \E F : F[0] = <<>> /\ F[Len(q)] = FlattenSeq(q) /\ \A i \in 1..Len(q) : F[i] = F[i - 1] \o q[i]
    BY <1>3, <2>1, Flattened
  <2> QED BY <1>3, <2>2
<1> DEFINE S == {j \in 0..k : Flow(f, T, F[j], Move(p, k), Move(p, k - j))}
<1>5. 0 \in S
  <2>1. k - 0 = k /\ 0 \in 0..k
    OBVIOUS
  <2> QED BY <1>4, <2>1, FlowNone
<1>6. ASSUME NEW j \in 0..(k - 1), j \in S PROVE j + 1 \in S
  <2> DEFINE m == k - (j + 1)
             b == Move(p, m + 1)
  <2>1. j + 1 \in 1..k /\ j + 1 \in 0..k /\ (j + 1) - 1 = j /\ m \in Nat /\ m + 1 = k - j /\ m + 1 \in Nat
    OBVIOUS
  <2>2. Flow(f, T, F[j], Move(p, k), b)
    BY <1>6, <2>1
  <2>3. F[j + 1] = F[j] \o pair
    BY <1>2, <1>4, <2>1
  <2> HIDE DEF m
  <2>4. Shaped(b) /\ Sync(f, b)
    BY <2>1, Above
  <2> HIDE DEF b
  <2>5. Step(f, T, Emit("swap", n, <<>>), b, b)
    BY <2>4, StepSwap
  <2>6. Step(f, T, Pop(1), b, Move(p, m))
    BY <2>1, PopAbove DEF b
  <2>7. Flow(f, T, pair, b, Move(p, m))
    BY <2>5, <2>6, Chain2 DEF pair
  <2>8. Flow(f, T, F[j + 1], Move(p, k), Move(p, m))
    BY <2>2, <2>3, <2>7, FlowConcat
  <2> QED BY <2>1, <2>8 DEF m
<1> HIDE DEF S
<1>7. \A j \in 0..k : j \in S
  BY <1>5, <1>6, UpTo
<1>8. Flow(f, T, F[k], Move(p, k), Move(p, k - k))
  BY <1>7 DEF S
<1>9. k - k = 0
  OBVIOUS
<1> QED BY <1>4, <1>8, <1>9, MoveZero DEF q, pair

LEMMA Assigned ==
  ASSUME fn \in Programs, NEW T, NEW a, NEW z, NEW G, Compiling(T, a, z, G), MoveToStackVariable, phase' = "compile"
  PROVE  \E b, H : Compiling(T, b, z, H)'
<1>1. Task("assign")
  BY DEF MoveToStackVariable
<1>2. /\ todo # <<>> /\ It.do = "assign" /\ Head(todo).do # "emit" /\ phase = "compile" /\ UNCHANGED <<fn, machineVars>>
      /\ \E b : Step(fn, T, It, a, b) /\ Flow(fn, T, Tail(todo), b, z)
      /\ Shaped(a) /\ Good(fn, T, a) /\ Surplus(fn) \in Nat
  BY <1>1, TaskFacts
<1> DEFINE n == StackPosition(It.x) - It.x.size + 1
           k == It.x.size
           ts == FlattenSeq([i \in 1..k |-> <<Emit("swap", n, <<>>), Pop(1)>>])
<1>3. /\ todo' = ts \o Tail(todo)
      /\ UNCHANGED <<height, code, tags, breakTags, continueTags, returnTags, scopes, depth>>
  <2>1. ~(localVariables[It.x.name] = <<>> \/ StackPosition(It.x) < It.x.size) /\ ~(n > Reach)
    BY <1>2 DEF MoveToStackVariable, Ends
  <2> QED BY <2>1 DEF MoveToStackVariable, Then, tagStacks
<1>4. PICK b : Step(fn, T, It, a, b) /\ Flow(fn, T, Tail(todo), b, z)
  BY <1>2
<1>5. It.x \in Variable /\ a.h - k >= Surplus(fn) /\ b = Move(a, 0 - k) /\ Sync(fn, a)
  BY <1>2, <1>4 DEF Step
<1>6. k \in {1, 2}
  BY <1>5 DEF Variable
<1> HIDE DEF n, k
<1>7. k \in Nat /\ k \in Int /\ 0 - k \in Int /\ a.h \in Int /\ a.h + (0 - k) >= Surplus(fn) /\ (0 - k) + k = 0
  BY <1>2, <1>5, <1>6 DEF Shaped
<1>8. Shaped(b) /\ Sync(fn, b)
  BY <1>2, <1>5, <1>7, MoveClear
<1>9. Move(b, k) = a
  <2>1. Move(Move(a, 0 - k), k) = Move(a, (0 - k) + k)
    BY <1>2, <1>7, MoveTwice
  <2> QED BY <1>2, <1>5, <1>7, <2>1, MoveZero
<1>10. Flow(fn, T, ts, Move(b, k), b)
  BY <1>2, <1>7, <1>8, FlowMoveSlots
<1> HIDE DEF ts
<1>11. Matches(a)'
  BY <1>3 DEF Compiling, Matches
<1>12. Compiling(T, a, z, G)'
  BY <1>2, <1>3, <1>4, <1>9, <1>10, <1>11, ReplacedPlainly
<1> QED BY <1>12

\* The slots of a value are duplicated one after the other.
LEMMA FlowDups ==
  ASSUME NEW f, NEW T, Surplus(f) \in Nat, NEW a, Shaped(a), Sync(f, a), NEW k \in Nat, NEW n,
         NEW ts, IsSeq(ts), Len(ts) = k, \A i \in 1..k : \E v : ts[i] = Emit("dup", n, v)
  PROVE  Flow(f, T, ts, a, Move(a, k))
<1> DEFINE w == [i \in 1..(k + 1) |-> Move(a, i - 1)]
<1>1. \A i \in 1..(k + 1) : w[i] = Move(a, i - 1)
  OBVIOUS
<1> HIDE DEF w
<1>2. w[1] = a /\ w[k + 1] = Move(a, k)
  <2>1. 1 \in 1..(k + 1) /\ k + 1 \in 1..(k + 1) /\ 1 - 1 = 0 /\ (k + 1) - 1 = k
    OBVIOUS
  <2>2. w[1] = Move(a, 0) /\ w[k + 1] = Move(a, k)
    BY <1>1, <2>1
  <2> QED BY <2>2, MoveZero
<1>3. ASSUME NEW i \in 1..k PROVE Step(f, T, ts[i], w[i], w[i + 1])
  <2>1. PICK v : ts[i] = Emit("dup", n, v)
    OBVIOUS
  <2> DEFINE d == i - 1
  <2>2. d \in Nat /\ i \in 1..(k + 1) /\ i + 1 \in 1..(k + 1) /\ (i + 1) - 1 = d + 1
    OBVIOUS
  <2>3. w[i] = Move(a, d) /\ w[i + 1] = Move(a, d + 1)
    BY <1>1, <2>2
  <2> HIDE DEF d
  <2>4. Shaped(Move(a, d)) /\ Sync(f, Move(a, d)) /\ Move(Move(a, d), 1) = Move(a, d + 1)
    <3>1. Shaped(Move(a, d)) /\ Sync(f, Move(a, d))
      BY <2>2, Above
    <3>2. d \in Int /\ 1 \in Int
      BY <2>2
    <3>3. Move(Move(a, d), 1) = Move(a, d + 1)
      BY <3>2, MoveTwice
    <3> QED BY <3>1, <3>3
  <2>5. Step(f, T, Emit("dup", n, v), Move(a, d), Move(Move(a, d), 1))
    BY <2>4, StepDup
  <2> QED BY <2>1, <2>3, <2>4, <2>5
<1> QED BY <1>2, <1>3 DEF Flow

LEMMA Retrieved ==
  ASSUME fn \in Programs, NEW T, NEW a, NEW z, NEW G, Compiling(T, a, z, G), RetrieveValue, phase' = "compile"
  PROVE  \E b, H : Compiling(T, b, z, H)'
<1>1. Task("read")
  BY DEF RetrieveValue
<1>2. /\ todo # <<>> /\ It.do = "read" /\ Head(todo).do # "emit" /\ phase = "compile" /\ UNCHANGED <<fn, machineVars>>
      /\ \E b : Step(fn, T, It, a, b) /\ Flow(fn, T, Tail(todo), b, z)
      /\ Shaped(a) /\ Good(fn, T, a) /\ Surplus(fn) \in Nat
  BY <1>1, TaskFacts
<1> DEFINE n == StackPosition(It.x) + 1
           k == It.x.size
           ts == [i \in 1..k |-> Emit("dup", n, <<Declared(It.x)[i]>>)]
<1>3. /\ todo' = ts \o Tail(todo)
      /\ UNCHANGED <<height, code, tags, breakTags, continueTags, returnTags, scopes, depth>>
  <2>1. ~(localVariables[It.x.name] = <<>>) /\ ~(n > Reach)
    BY <1>2 DEF RetrieveValue, Ends
  <2> QED BY <2>1 DEF RetrieveValue, Then, tagStacks
<1>4. PICK b : Step(fn, T, It, a, b) /\ Flow(fn, T, Tail(todo), b, z)
  BY <1>2
<1>5. It.x \in Variable /\ b = Move(a, k) /\ Sync(fn, a)
  BY <1>2, <1>4 DEF Step
<1>6. k \in {1, 2}
  BY <1>5 DEF Variable
<1> HIDE DEF n, k
<1>7. ts = [i \in 1..k |-> ts[i]] /\ \A i \in 1..k : \E v : ts[i] = Emit("dup", n, v)
  OBVIOUS
<1> HIDE DEF ts
<1>8. k \in Nat /\ IsSeq(ts) /\ Len(ts) = k
  BY <1>6, <1>7, MadeSeq
<1>9. Flow(fn, T, ts, a, Move(a, k))
  BY <1>2, <1>5, <1>7, <1>8, FlowDups
<1>10. Matches(a)'
  BY <1>3 DEF Compiling, Matches
<1>11. Compiling(T, a, z, G)'
  BY <1>2, <1>3, <1>4, <1>5, <1>9, <1>10, ReplacedPlainly
<1> QED BY <1>11

\* A height that is not needed any more may be forgotten.
LEMMA FitsUnknown ==
  ASSUME NEW f, NEW T, NEW c, NEW g, NEW k, Fits(f, T, c, g, k)
  PROVE  Fits(f, T, c, g, Unknown)
BY DEF Fits

LEMMA TracedUnknown ==
  ASSUME NEW f, NEW T, NEW c, NEW G, NEW g, Traced(f, T, c, G, g)
  PROVE  \E H : Traced(f, T, c, H, Unknown) /\ H[1] \in {G[1], Unknown}
<1> DEFINE n == Len(c)
           H == [i \in 1..(n + 1) |-> IF i = n + 1 THEN Unknown ELSE G[i]]
<1>1. n \in Nat /\ IsSeq(c) /\ \A i \in 1..n : Fits(f, T, c[i], G[i], G[i + 1])
  BY IsSeqLen DEF Traced
<1> HIDE DEF n
<1>2. H[n + 1] = Unknown /\ \A i \in 1..n : H[i] = G[i]
  BY <1>1
<1>3. H[1] \in {G[1], Unknown}
  BY <1>1
<1> HIDE DEF H
<1>4. ASSUME NEW i \in 1..n PROVE Fits(f, T, c[i], H[i], H[i + 1])
  <2>1. CASE i = n
    <3>1. Fits(f, T, c[i], G[i], Unknown)
      BY <1>1, FitsUnknown
    <3> QED BY <1>2, <2>1, <3>1
  <2>2. CASE i # n
    <3>1. i + 1 \in 1..n
      BY <1>1, <2>2
    <3> QED BY <1>1, <1>2, <3>1
  <2> QED BY <2>1, <2>2
<1>5. Traced(f, T, c, H, Unknown)
  BY <1>1, <1>2, <1>4 DEF Traced, n
<1> QED BY <1>3, <1>5

LEMMA ExchangeLen ==
  ASSUME NEW s, IsSeq(s), NEW i, NEW j
  PROVE  IsSeq(Exchange(s, i, j)) /\ Len(Exchange(s, i, j)) = Len(s)
<1> DEFINE u == Exchange(s, i, j)
<1>1. Len(s) \in Nat /\ DOMAIN s = 1..Len(s) /\ s = [k \in 1..Len(s) |-> s[k]]
  BY IsSeqLen, LenProperties DEF IsSeq
<1>2. u = [k \in 1..Len(s) |-> u[k]]
  BY <1>1 DEF Exchange
<1> HIDE DEF u
<1>3. IsSeq(u) /\ Len(u) = Len(s)
  BY <1>1, <1>2, MadeSeq
<1> QED BY <1>3 DEF u

LEMMA FrontLen ==
  ASSUME NEW s, IsSeq(s), s # <<>>
  PROVE  IsSeq(Front(s)) /\ Len(Front(s)) = Len(s) - 1 /\ Len(s) \in Nat /\ Len(s) >= 1
<1>1. Len(s) \in Nat /\ Len(s) >= 1
  BY IsSeqLen, IsSeqTail
<1>2. /\ IsSeq(SubSeq(s, 1, Len(s) - 1)) /\ Len(SubSeq(s, 1, Len(s) - 1)) = Len(s) - 1
  <2>1. Len(s) - 1 \in Int /\ 1 \in Int
    BY <1>1
  <2> DEFINE n == Len(s) - 1
             u == SubSeq(s, 1, n)
  <2> HIDE DEF n
  <2>2. IsSeq(u) /\ Len(u) = IF 1 <= n THEN n - 1 + 1 ELSE 0
    BY <2>1, IsSeqSub DEF n
  <2> HIDE DEF u
  <2>0. n \in Nat
    BY <1>1 DEF n
  <2>3. IsSeq(u) /\ Len(u) = n
    <3>1. CASE 1 <= n
      BY <2>0, <2>2, <3>1
    <3>2. CASE ~(1 <= n)
      <4>1. n = 0
        BY <2>0, <3>2
      <4> QED BY <2>2, <3>2, <4>1
    <3> QED BY <3>1, <3>2
  <2> QED BY <2>3 DEF n, u
<1> QED BY <1>1, <1>2 DEF Front

LEMMA StepCleanup ==
  ASSUME NEW f, NEW T, NEW a, Sync(f, a), NEW layout, IsSeq(layout), Len(layout) <= a.h - Surplus(f),
         NEW b, b.h \in Int, b = At(a, b.h, Unknown)
  PROVE  Step(f, T, Cleanup(layout), a, b)
<1>1. Cleanup(layout).do = "cleanup" /\ Cleanup(layout).layout = layout
  BY DEF Cleanup
<1> QED BY <1>1 DEF Step

\* One round of the reshuffling.
LEMMA Reshuffled ==
  ASSUME fn \in Programs, NEW T, NEW a, NEW z, NEW G, Compiling(T, a, z, G), Reshuffle, phase' = "compile"
  PROVE  \E b, H : Compiling(T, b, z, H)'
<1> DEFINE layout == It.layout
           back == Last(layout)
<1>1. Task("cleanup")
  BY DEF Reshuffle
<1>2. /\ todo # <<>> /\ It.do = "cleanup" /\ Head(todo).do # "emit" /\ phase = "compile" /\ UNCHANGED <<fn, machineVars>>
      /\ \E b : Step(fn, T, It, a, b) /\ Flow(fn, T, Tail(todo), b, z)
      /\ Shaped(a) /\ Good(fn, T, a) /\ Surplus(fn) \in Nat
  BY <1>1, TaskFacts
<1>3. UNCHANGED <<height, code, tags, breakTags, continueTags, returnTags, scopes, depth>>
  BY <1>2 DEF Reshuffle, Ends, tagStacks
<1>4. PICK b : Step(fn, T, It, a, b) /\ Flow(fn, T, Tail(todo), b, z)
  BY <1>2
<1>5. /\ IsSeq(layout) /\ (Len(layout) <= a.h - Surplus(fn) \/ layout = <<1>>)
      /\ b.h \in Int /\ b = At(a, b.h, Unknown) /\ Sync(fn, a)
  BY <1>2, <1>4 DEF Step
<1>6. a.h \in Int /\ a.g \in Int /\ a.g = a.h /\ Unknown \in Int
  BY <1>2, <1>5 DEF Shaped, Sync, Unknown
<1>7. /\ b.g = Unknown /\ Shaped(b) /\ b.sc = a.sc /\ b.br = a.br /\ b.co = a.co /\ b.re = a.re /\ b.depth = a.depth
  <2> DEFINE h == b.h
  <2>1. h \in Int /\ b = At(a, h, Unknown)
    BY <1>5
  <2> HIDE DEF h
  <2>2. /\ Shaped(At(a, h, Unknown)) /\ At(a, h, Unknown).g = Unknown
        /\ At(a, h, Unknown).sc = a.sc /\ At(a, h, Unknown).br = a.br /\ At(a, h, Unknown).co = a.co
        /\ At(a, h, Unknown).re = a.re /\ At(a, h, Unknown).depth = a.depth
    BY <1>2, <1>6, <2>1, AtShape
  <2> QED BY <2>1, <2>2
<1>8. Matches(a)'
  BY <1>3 DEF Compiling, Matches
<1>9. CASE layout = <<>> \/ back = Len(layout)
  <2>1. todo' = <<>> \o Tail(todo)
    BY <1>2, <1>9 DEF Reshuffle, Ends, Then
  <2>2. /\ tags \in Nat /\ DOMAIN T \subseteq 1..tags /\ z.g = Nowhere /\ Traced(fn, T, code, G, a.g)
        /\ (\A t \in DOMAIN T : Has(todo, Place(t)) \/ TagIn(code, t))
        /\ ip = 1 /\ IsSeq(stack) /\ G[1] \in {Len(stack) + Surplus(fn), Unknown} /\ IsSeq(todo)
    BY FlowSeq DEF Compiling
  <2>3. PICK H : Traced(fn, T, code, H, Unknown) /\ H[1] \in {G[1], Unknown}
    BY <2>2, TracedUnknown
  <2>4. todo' = Tail(todo)
    BY <1>4, <2>1, FlowSeq, EmptyConcat
  <2>5. \A t \in DOMAIN T : Has(todo', Place(t)) \/ TagIn(code', t)
    BY <1>2, <1>3, <2>2, <2>4, PlaceHead
  <2>6. Good(fn, T, b)
    BY <1>2, <1>5, <1>6, GoodAt
  <2>7. Matches(b)'
    BY <1>7 DEF Matches, Unknown
  <2>8. fn' = fn /\ code' = code /\ tags' = tags /\ stack' = stack /\ ip' = ip
    BY <1>2, <1>3 DEF machineVars
  <2>9. Flow(fn, T, todo', b, z) /\ Traced(fn, T, code, H, b.g) /\ H[1] \in {Len(stack) + Surplus(fn), Unknown}
    BY <1>4, <1>7, <2>2, <2>3, <2>4
  <2>10. Compiling(T, b, z, H)'
    BY <2>2, <2>5, <2>6, <2>7, <2>8, <2>9 DEF Compiling
  <2> QED BY <2>10
<1>10. CASE layout # <<>> /\ back # Len(layout)
  <2>1. layout # <<1>>
    BY <1>10 DEF Last
  <2>2. Len(layout) <= a.h - Surplus(fn) /\ Len(layout) \in Nat /\ Len(layout) >= 1
    BY <1>5, <1>10, <2>1, FrontLen
  <2>3. CASE back = 0
    <3> DEFINE ts == <<Pop(1), Cleanup(Front(layout))>>
               p == Move(a, 0 - 1)
    <3>1. todo' = ts \o Tail(todo)
      BY <1>2, <1>10, <2>3 DEF Reshuffle, Ends, Then
    <3>2. Step(fn, T, Pop(1), a, p)
      <4>1. a.h - 1 >= Surplus(fn) /\ 1 \in Nat
        BY <1>2, <1>6, <2>2
      <4> QED BY <1>2, <1>5, <4>1, StepPop
    <3>3. Shaped(p) /\ Sync(fn, p) /\ p.h = a.h - 1
      <4>1. a.h + (0 - 1) >= Surplus(fn) /\ 0 - 1 \in Int /\ a.h + (0 - 1) = a.h - 1
        BY <1>2, <1>6, <2>2
      <4>2. Shaped(p) /\ Sync(fn, p) /\ p.h = a.h + (0 - 1)
        BY <1>2, <1>5, <4>1, MoveClear
      <4> QED BY <4>1, <4>2
    <3>4. p.sc = a.sc /\ p.br = a.br /\ p.co = a.co /\ p.re = a.re /\ p.depth = a.depth
      BY <1>2, MoveShape
    <3>5. b = At(p, b.h, Unknown)
      <4> HIDE DEF p
      <4> QED BY <1>5, <3>4 DEF At
    <3> HIDE DEF p
    <3>6. IsSeq(Front(layout)) /\ Len(Front(layout)) <= p.h - Surplus(fn)
      <4>1. IsSeq(Front(layout)) /\ Len(Front(layout)) = Len(layout) - 1
        <5> HIDE DEF layout
        <5> QED BY <1>5, <1>10, FrontLen
      <4> HIDE DEF layout
      <4> QED BY <1>2, <1>6, <2>2, <3>3, <4>1
    <3>7. Step(fn, T, Cleanup(Front(layout)), p, b)
      <4> HIDE DEF layout
      <4> QED BY <1>5, <3>3, <3>5, <3>6, StepCleanup
    <3>8. Flow(fn, T, ts, a, b)
      <4> HIDE DEF layout
      <4> QED BY <3>2, <3>7, Chain2
    <3> HIDE DEF ts
    <3>9. Compiling(T, a, z, G)'
      BY <1>2, <1>3, <1>4, <1>8, <3>1, <3>8, ReplacedPlainly
    <3> QED BY <3>9
  <2>4. CASE back # 0
    <3> DEFINE n == Len(layout) - back
               next == Exchange(layout, back, Len(layout))
               ts == <<Emit("swap", n, <<>>), Cleanup(next)>>
    <3>1. todo' = ts \o Tail(todo)
      BY <1>2, <1>10, <2>4 DEF Reshuffle, Ends, Then
    <3>2. IsSeq(next) /\ Len(next) = Len(layout)
      <4> HIDE DEF layout, back
      <4> QED BY <1>5, ExchangeLen
    <3> HIDE DEF layout, n, next
    <3>3. Step(fn, T, Emit("swap", n, <<>>), a, a)
      BY <1>2, <1>5, StepSwap
    <3>4. Step(fn, T, Cleanup(next), a, b)
      BY <1>5, <2>2, <3>2, StepCleanup
    <3>5. Flow(fn, T, ts, a, b)
      BY <3>3, <3>4, Chain2
    <3> HIDE DEF ts
    <3>6. Compiling(T, a, z, G)'
      BY <1>2, <1>3, <1>4, <1>8, <3>1, <3>5, ReplacedPlainly
    <3> QED BY <3>6
  <2> QED BY <2>3, <2>4
<1> QED BY <1>9, <1>10

LEMMA FinishDone ==
  ASSUME fn \in Programs, NEW T, NEW a, NEW z, NEW G, Compiling(T, a, z, G), DoFinish, phase' = "compile"
  PROVE  \E b, H : Compiling(T, b, z, H)'
<1>1. Task("finish")
  BY DEF DoFinish
<1>2. /\ todo # <<>> /\ It.do = "finish" /\ Head(todo).do # "emit" /\ phase = "compile" /\ UNCHANGED <<fn, machineVars>>
      /\ \E b : Step(fn, T, It, a, b) /\ Flow(fn, T, Tail(todo), b, z)
      /\ Shaped(a) /\ Good(fn, T, a)
  BY <1>1, TaskFacts
<1> DEFINE t == Emit(IF fn.kind = "function" THEN "out" ELSE "end", 0, <<>>)
           ts == <<t>>
<1>3. /\ todo' = ts \o Tail(todo)
      /\ UNCHANGED <<height, code, tags, breakTags, continueTags, returnTags, scopes, depth>>
  BY <1>2 DEF DoFinish, Ends, Then, tagStacks
<1>4. PICK b : Step(fn, T, It, a, b) /\ Flow(fn, T, Tail(todo), b, z)
  BY <1>2
<1>5. a.g = Unknown /\ b = At(a, a.h, Nowhere)
  BY <1>2, <1>4 DEF Step
<1>6. b.h = a.h /\ b.g = Nowhere /\ b.h \in Int /\ b.g \in Int
  <2>1. a.h \in Int /\ Nowhere \in Int
    BY <1>2 DEF Shaped, Nowhere
  <2> QED BY <1>2, <1>5, <2>1, AtShape
<1>7. t.do = "emit" /\ t.op \in {"out", "end"}
  BY DEF Emit
<1> HIDE DEF t
<1>8. Fits(fn, T, [op |-> t.op, n |-> t.n, vals |-> t.vals, h |-> a.h], a.g, b.g)
  BY <1>7 DEF Fits
<1>9. Step(fn, T, t, a, b)
  BY <1>5, <1>6, <1>7, <1>8 DEF Step
<1>10. Flow(fn, T, ts, a, b)
  BY <1>9, Chain1
<1> HIDE DEF ts
<1>11. Matches(a)'
  BY <1>3 DEF Compiling, Matches
<1>12. Compiling(T, a, z, G)'
  BY <1>2, <1>3, <1>4, <1>10, <1>11, ReplacedPlainly
<1> QED BY <1>12

\* The same point one level of modifiers further in.
LEMMA Deeper ==
  ASSUME NEW f, NEW T, NEW a, Good(f, T, a), Sync(f, a), a.depth >= -1, NEW c, c = WithDepth(a, a.depth + 1)
  PROVE  /\ Good(f, T, c) /\ Shaped(c) /\ Sync(f, c) /\ c.h = a.h /\ c.g = a.g /\ c.sc = a.sc /\ c.br = a.br
         /\ c.co = a.co /\ c.re = a.re /\ c.depth = a.depth + 1 /\ c.depth >= -1
         /\ Step(f, T, LeaveDepth, c, a) /\ Step(f, T, CodeBlock, c, c)
         /\ \A e \in c.sc : e.depth # c.depth
<1>1. a \in Points(f, T) /\ \A x \in a.sc : x.depth <= a.depth /\ x.height >= Surplus(f)
  BY DEF Good
<1>2. /\ a.h \in Int /\ a.g \in Int /\ a.sc \in SUBSET ScopeRecords /\ a.br \in Seq(Entries(f, T))
      /\ a.co \in Seq(Entries(f, T)) /\ a.re \in Seq(Entries(f, T)) /\ a.depth \in Int /\ a.depth + 1 \in Int
  BY <1>1 DEF Points
<1>3. /\ c.h = a.h /\ c.g = a.g /\ c.sc = a.sc /\ c.br = a.br /\ c.co = a.co /\ c.re = a.re
      /\ c.depth = a.depth + 1 /\ Shaped(c)
  BY <1>2, PointShaped DEF WithDepth
<1>4. c \in Points(f, T)
  BY <1>2 DEF WithDepth, Point, Points
<1>5. \A x \in a.sc : x.depth \in Int
  BY <1>2 DEF ScopeRecords
<1>6. \A x \in a.sc : x.depth < a.depth + 1 /\ x.depth <= a.depth + 1 /\ x.depth # a.depth + 1
  BY <1>1, <1>2, <1>5
<1>7. Good(f, T, c)
  BY <1>1, <1>3, <1>4, <1>6 DEF Good
<1>8. Sync(f, c) /\ c.depth >= -1
  BY <1>2, <1>3 DEF Sync
<1>9. WithDepth(c, c.depth - 1) = a
  <2>1. Shaped(a) /\ (a.depth + 1) - 1 = a.depth
    BY <1>2, GoodShaped
  <2>2. Point(a.h, a.g, a.sc, a.br, a.co, a.re, a.depth) = a
    BY <2>1 DEF Shaped, Point
  <2> QED BY <1>3, <2>1, <2>2 DEF WithDepth
<1>10. Step(f, T, LeaveDepth, c, a)
  <2>1. LeaveDepth.do = "leaveDepth"
    BY DEF LeaveDepth
  <2> QED BY <1>3, <1>6, <1>8, <1>9, <2>1 DEF Step
<1>11. Step(f, T, CodeBlock, c, c)
  <2>1. CodeBlock.do = "codeBlock"
    BY DEF CodeBlock
  <2> QED BY <1>8, <2>1 DEF Step
<1> QED BY <1>3, <1>6, <1>7, <1>8, <1>10, <1>11

\* A body between the tags that return statements need.
LEMMA FlowBody ==
  ASSUME NEW f, NEW T, Surplus(f) \in Nat, NEW c, Shaped(c), Sync(f, c), c.depth >= -1, IsSeq(c.re),
         \A e \in c.sc : e.depth # c.depth, NEW block \in Block, NEW n \in Nat,
         NEW t \in DOMAIN T, T[t] = c.h + n
  PROVE  Flow(f, T, <<OpenReturn(t), Visit(block), Place(t), CloseReturn, Pop(n)>>, Move(c, n), c)
<1> DEFINE m == Move(c, n)
           re == Append(c.re, [tag |-> t, height |-> m.h])
           r == WithReturns(m, re)
<1>1. Shaped(m) /\ Sync(f, m) /\ m.h = c.h + n /\ m.g = c.h + n /\ c.h + n >= Surplus(f)
  BY Above
<1>2. m.sc = c.sc /\ m.re = c.re /\ m.depth = c.depth
  BY MoveShape
<1> HIDE DEF m
<1>3. m.h \in Int /\ m.g \in Int /\ m.depth \in Int
  BY <1>1 DEF Shaped
<1>4. re # <<>> /\ Front(re) = c.re
  <2>1. Len(re) = Len(c.re) + 1 /\ Len(c.re) \in Nat
    BY IsSeqAppend, IsSeqLen
  <2>2. Front(re) = c.re
    BY FrontAppend
  <2>3. Len(re) # 0
    BY <2>1
  <2> QED BY <2>2, <2>3, NoneIsSeq
<1> HIDE DEF re
<1>5. /\ Shaped(r) /\ r.h = m.h /\ r.g = m.g /\ r.sc = m.sc /\ r.br = m.br /\ r.co = m.co /\ r.re = re /\ r.depth = m.depth
  BY <1>3, PointShaped DEF WithReturns
<1>6. WithReturns(r, Front(r.re)) = m
  <2>1. Point(m.h, m.g, m.sc, m.br, m.co, m.re, m.depth) = m
    BY <1>1 DEF Shaped, Point
  <2> HIDE DEF r
  <2> QED BY <1>2, <1>4, <1>5, <2>1 DEF WithReturns
<1>7. Step(f, T, OpenReturn(t), m, r)
  <2>1. OpenReturn(t).do = "openReturn" /\ OpenReturn(t).t = t
    BY DEF OpenReturn
  <2> QED BY <1>1, <1>2, <2>1 DEF Step, re
<1> HIDE DEF r
<1>8. Sync(f, r)
  BY <1>1, <1>5 DEF Sync
<1>9. Step(f, T, Visit(block), r, r)
  <2>1. block \in Single /\ block \in Statements
    BY DEF Block, Single
  <2>2. Clear(r, block)
    BY <1>2, <1>4, <1>5 DEF Clear
  <2> QED BY <1>5, <1>8, <2>1, <2>2, StepVisit
<1>10. Step(f, T, Place(t), r, r)
  BY <1>1, <1>5, StepPlace
<1>11. Step(f, T, CloseReturn, r, m)
  <2>1. CloseReturn.do = "closeReturn"
    BY DEF CloseReturn
  <2> QED BY <1>4, <1>5, <1>6, <1>8, <2>1 DEF Step
<1>12. Step(f, T, Pop(n), m, c)
  <2>1. 0 + n = n /\ 0 \in Nat
    OBVIOUS
  <2>2. Step(f, T, Pop(n), Move(c, 0 + n), Move(c, 0))
    BY <2>1, PopAbove
  <2> QED BY <2>1, <2>2, MoveZero DEF m
<1>13. Flow(f, T, <<OpenReturn(t), Visit(block), Place(t), CloseReturn, Pop(n)>>, m, c)
  BY <1>7, <1>9, <1>10, <1>11, <1>12, Chain5
<1> QED BY <1>13 DEF m

BodyTasks(params, block, t) ==
    FlattenSeq([i \in 1..Len(params) |-> <<AddVariable(params[i], 0), Push(SlotsOf(params[i], "value"))>>])
      \o <<OpenReturn(t), Visit(block), Place(t), CloseReturn, Pop(SizeOnStack(params))>>
      \o [i \in 1..Len(params) |-> RemoveVariable(params[i])]
      \o <<LeaveDepth>>

LEMMA FlowCode ==
  ASSUME NEW f, NEW T, Surplus(f) \in Nat, NEW c, Shaped(c), Sync(f, c), c.depth >= -1, IsSeq(c.re),
         \A e \in c.sc : e.depth # c.depth, NEW params \in Seq(Variable), NEW block \in Block,
         NEW t \in DOMAIN T, T[t] = c.h + SizeOnStack(params), NEW a, Step(f, T, LeaveDepth, c, a)
  PROVE  Flow(f, T, BodyTasks(params, block, t), c, a) /\ Has(BodyTasks(params, block, t), Place(t))
<1> DEFINE n == SizeOnStack(params)
           p1 == FlattenSeq([i \in 1..Len(params) |-> <<AddVariable(params[i], 0), Push(SlotsOf(params[i], "value"))>>])
           p2 == <<OpenReturn(t), Visit(block), Place(t), CloseReturn, Pop(n)>>
           p3 == [i \in 1..Len(params) |-> RemoveVariable(params[i])]
           p4 == <<LeaveDepth>>
<1>1. n \in Nat
  BY SameSize
<1>2. Flow(f, T, p1, c, Move(c, n))
  BY FlowInit
<1>3. Has(p2, Place(t))
  BY DEF Has
<1> HIDE DEF p1, n
<1>4. Flow(f, T, p2, Move(c, n), c)
  BY <1>1, FlowBody DEF n
<1>5. Flow(f, T, p3, c, c)
  BY FlowRemove
<1>6. Flow(f, T, p4, c, a)
  BY Chain1
<1>7. BodyTasks(params, block, t) = ((p1 \o p2) \o p3) \o p4
  BY DEF BodyTasks, p1, n
<1> HIDE DEF p2, p3, p4
<1>8. Flow(f, T, p1 \o p2, c, c)
  BY <1>2, <1>4, FlowConcat
<1>9. Flow(f, T, (p1 \o p2) \o p3, c, c)
  BY <1>5, <1>8, FlowConcat
<1>10. Flow(f, T, ((p1 \o p2) \o p3) \o p4, c, a)
  BY <1>6, <1>9, FlowConcat
<1>11. Has(((p1 \o p2) \o p3) \o p4, Place(t))
  <2>1. IsSeq(p1) /\ IsSeq(p2) /\ IsSeq(p3) /\ IsSeq(p4) /\ IsSeq(p1 \o p2) /\ IsSeq((p1 \o p2) \o p3)
    BY <1>2, <1>4, <1>5, <1>6, <1>8, <1>9, FlowSeq
  <2>2. Has(p1 \o p2, Place(t))
    BY <1>3, <2>1, HasRight
  <2>3. Has((p1 \o p2) \o p3, Place(t))
    BY <2>1, <2>2, HasLeft
  <2> QED BY <2>1, <2>3, HasLeft
<1> QED BY <1>7, <1>10, <1>11

\* The body of a modifier, or of the function once there are no more modifiers.
LEMMA CodeAppended ==
  ASSUME fn \in Programs, NEW T, NEW a, NEW z, NEW G, Compiling(T, a, z, G), AppendModifierOrFunctionCode,
         phase' = "compile"
  PROVE  \E U, b, H : Compiling(U, b, z, H)'
<1> DEFINE d == depth + 1
           isBody == d >= Len(fn.modifiers)
           m == fn.modifiers[d + 1]
           params == IF isBody THEN <<>> ELSE m.params
           block == IF isBody THEN fn.body ELSE m.body
           t == tags + 1
           c == WithDepth(a, a.depth + 1)
<1>1. Task("codeBlock")
  BY DEF AppendModifierOrFunctionCode
<1>2. /\ todo # <<>> /\ It.do = "codeBlock" /\ Head(todo).do # "emit" /\ phase = "compile" /\ UNCHANGED <<fn, machineVars>>
      /\ \E b : Step(fn, T, It, a, b) /\ Flow(fn, T, Tail(todo), b, z)
      /\ Shaped(a) /\ Good(fn, T, a) /\ Surplus(fn) \in Nat /\ tags \in Nat /\ DOMAIN T \subseteq 1..tags
      /\ IsSeq(a.re)
  BY <1>1, TaskFacts
<1>3. PICK b : Step(fn, T, It, a, b) /\ Flow(fn, T, Tail(todo), b, z)
  BY <1>2
<1>4. a.depth >= -1 /\ b = a /\ Sync(fn, a)
  BY <1>2, <1>3 DEF Step
<1>5. /\ height = a.h /\ scopes = a.sc /\ depth = a.depth
      /\ breakTags = a.br /\ continueTags = a.co /\ returnTags = a.re
  BY <1>1, <1>4, TaskFacts
<1>6. /\ depth' = a.depth + 1 /\ tags' = tags + 1
      /\ UNCHANGED <<height, code, breakTags, continueTags, returnTags, scopes>>
  BY <1>5 DEF AppendModifierOrFunctionCode, tagStacks
<1>7. todo' = (IF ~isBody /\ m.isBase THEN <<CodeBlock, LeaveDepth>> ELSE BodyTasks(params, block, t)) \o Tail(todo)
  BY DEF AppendModifierOrFunctionCode, BodyTasks, Then, NewTag
<1>8. \A V : Good(fn, V, a) =>
         /\ Good(fn, V, c) /\ Shaped(c) /\ Sync(fn, c) /\ c.h = a.h /\ c.g = a.g /\ c.sc = a.sc /\ c.br = a.br
         /\ c.co = a.co /\ c.re = a.re /\ c.depth = a.depth + 1 /\ c.depth >= -1
         /\ Step(fn, V, LeaveDepth, c, a) /\ Step(fn, V, CodeBlock, c, c)
         /\ \A e \in c.sc : e.depth # c.depth
  <2> HIDE DEF c
  <2> QED BY <1>4, Deeper DEF c
<1> HIDE DEF c
<1>9. Matches(c)'
  BY <1>2, <1>5, <1>6, <1>8 DEF Matches
<1>10. CASE ~isBody /\ m.isBase
  <2> DEFINE ts == <<CodeBlock, LeaveDepth>>
  <2>1. todo' = ts \o Tail(todo)
    BY <1>7, <1>10
  <2>2. Step(fn, T, LeaveDepth, c, a) /\ Step(fn, T, CodeBlock, c, c) /\ Good(fn, T, c) /\ c.g = a.g
    BY <1>2, <1>8
  <2>3. Flow(fn, T, ts, c, a)
    BY <2>2, Chain2
  <2> HIDE DEF ts
  <2>4. tags' \in Nat /\ DOMAIN T \subseteq 1..(tags')
    BY <1>2, <1>6
  <2>5. UNCHANGED <<fn, code, machineVars>> /\ Flow(fn, T, Tail(todo), a, z)
    BY <1>2, <1>3, <1>4, <1>6
  <2>6. Compiling(T, c, z, G)'
    BY <1>2, <1>9, <2>1, <2>2, <2>3, <2>4, <2>5, ExtendsSelf, Replaced
  <2> QED BY <2>6
<1>11. CASE ~(~isBody /\ m.isBase)
  <2> DEFINE ts == BodyTasks(params, block, t)
             h == a.h + SizeOnStack(params)
             D == {t}
  <2>1. todo' = ts \o Tail(todo)
    BY <1>7, <1>11
  <2>2. params \in Seq(Variable) /\ block \in Block
    <3>1. fn.body \in Block /\ fn.modifiers \in Seq([isBase : BOOLEAN, params : Seq(Variable), body : Block])
      BY ProgramsAssumption
    <3>2. CASE isBody
      BY <3>1, <3>2
    <3>3. CASE ~isBody
      <4>1. Len(fn.modifiers) \in Nat /\ depth \in Int /\ depth >= -1
        BY <1>2, <1>4, <1>5, <3>1, LenProperties DEF Shaped
      <4>2. d + 1 \in 1..Len(fn.modifiers)
        BY <3>3, <4>1
      <4>3. m \in [isBase : BOOLEAN, params : Seq(Variable), body : Block]
        BY <3>1, <4>2, ElementOfSeq
      <4> QED BY <3>3, <4>3
    <3> QED BY <3>2, <3>3
  <2> HIDE DEF d, isBody, m, params, block
  <2>3. D \subseteq (tags + 1)..(tags + 1) /\ tags + 1 \in Nat /\ tags <= tags + 1
    BY <1>2
  <2>4. PICK U : Adds(U, T, D, tags + 1) /\ AllAt(U, D, h)
    <3> HIDE DEF D, h
    <3> QED BY <1>2, <2>3, LevelTags
  <2>5. t \in DOMAIN U /\ U[t] = a.h + SizeOnStack(params)
    BY <2>4 DEF AllAt
  <2>6. Extends(U, T) /\ Good(fn, U, a)
    BY <1>2, <2>4, GoodExtends DEF Adds
  <2>7. /\ Good(fn, U, c) /\ Shaped(c) /\ Sync(fn, c) /\ c.h = a.h /\ c.g = a.g /\ c.re = a.re /\ c.depth >= -1
        /\ Step(fn, U, LeaveDepth, c, a) /\ \A e \in c.sc : e.depth # c.depth
    BY <1>8, <2>6
  <2> HIDE DEF t
  <2>8. Flow(fn, U, ts, c, a) /\ Has(ts, Place(t))
    BY <1>2, <2>2, <2>5, <2>7, FlowCode
  <2> HIDE DEF ts
  <2>9. \A u \in DOMAIN U \ DOMAIN T : Has(ts, Place(u))
    BY <2>4, <2>8 DEF Adds
  <2>10. tags' \in Nat /\ DOMAIN U \subseteq 1..(tags')
    BY <1>6, <2>3, <2>4 DEF Adds
  <2>11. UNCHANGED <<fn, code, machineVars>> /\ Flow(fn, T, Tail(todo), a, z)
    BY <1>2, <1>3, <1>4, <1>6
  <2>12. Compiling(U, c, z, G)'
    BY <1>2, <1>9, <2>1, <2>6, <2>7, <2>8, <2>9, <2>10, <2>11, Replaced
  <2> QED BY <2>12
<1> QED BY <1>10, <1>11

-----------------------------------------------------------------------------
(***************************************************************************)
(* A whole function.                                                       *)
(***************************************************************************)
\* At the beginning of the compilation.
Start(f) ==
    Point(IF f.kind \in {"constructor", "fallback"} THEN SizeOnStack(f.params) ELSE 0,
          Len(Entry(f)) + Surplus(f), {}, <<>>, <<>>, <<>>, -1)
FirstAdjustment(f) ==
    CASE f.kind = "constructor" -> 0
      [] f.kind = "fallback"    -> SizeOnStack(f.params)
      [] OTHER                  -> SizeOnStack(f.params) + 1

LEMMA NoSlots == SizeOnStack(<<>>) = 0
<1>1. <<>> \in Seq(Variable) /\ Len(<<>>) = 0
  OBVIOUS
<1>2. PICK p : p[0] = 0 /\ p[Len(<<>>)] = SizeOnStack(<<>>)
  BY <1>1, SizesAddUp
<1> QED BY <1>1, <1>2

\* The counter is adjusted to what is on the stack when the function is entered.
LEMMA Entered ==
  ASSUME NEW f \in Programs
  PROVE  LET h == Start(f).h + FirstAdjustment(f)
         IN /\ IsSeq(Entry(f)) /\ Start(f).h \in Int /\ FirstAdjustment(f) \in Int /\ h = Len(Entry(f)) + Surplus(f)
            /\ h \in Int /\ h >= Surplus(f)
            /\ IF f.kind = "receive" THEN SizeOnStack(f.params) = 0 /\ SizeOnStack(f.returns) = 0
               ELSE (IF f.kind = "function" THEN 1 ELSE 0) + SizeOnStack(f.params) = h - Surplus(f)
<1> DEFINE P == SizeOnStack(f.params)
           k == IF f.kind \in {"constructor", "fallback"} THEN P ELSE 0
<1>1. f.params \in Seq(Variable) /\ f.kind \in FunctionKinds
  BY ProgramsAssumption
<1>2. P \in Nat /\ IsSeq(AllSlots(f.params, "value")) /\ Len(AllSlots(f.params, "value")) = P
  BY <1>1, SameSize
<1>3. f.kind = "receive" => P = 0 /\ SizeOnStack(f.returns) = 0
  BY ProgramsAssumption, NoSlots
<1>4. IsSeq(Entry(f)) /\ Len(Entry(f)) = (IF f.kind = "function" THEN 1 ELSE 0) + P
  <2>1. IsSeq(<<ReturnAddress>>) /\ Len(<<ReturnAddress>>) = 1 /\ IsSeq(<<>>) /\ Len(<<>>) = 0
    BY Short
  <2> DEFINE u == AllSlots(f.params, "value")
  <2> HIDE DEF u
  <2>2. /\ IsSeq(<<ReturnAddress>> \o u) /\ Len(<<ReturnAddress>> \o u) = 1 + Len(u)
        /\ IsSeq(<<>> \o u) /\ Len(<<>> \o u) = 0 + Len(u)
    BY <1>2, <2>1, IsSeqConcat DEF u
  <2> QED BY <1>2, <2>2 DEF Entry, u
<1>5. Start(f).h = k
  BY DEF Start, Point
<1> HIDE DEF P
<1>6. CASE f.kind = "function"
  <2>1. k = 0 /\ FirstAdjustment(f) = P + 1 /\ Surplus(f) = 0 /\ Len(Entry(f)) = 1 + P
    BY <1>4, <1>6 DEF FirstAdjustment, Surplus, P
  <2> QED BY <1>2, <1>4, <1>5, <1>6, <2>1 DEF P
<1>7. CASE f.kind = "constructor"
  <2>1. k = P /\ FirstAdjustment(f) = 0 /\ Surplus(f) = 0 /\ Len(Entry(f)) = 0 + P
    BY <1>4, <1>7 DEF FirstAdjustment, Surplus, P
  <2> QED BY <1>2, <1>4, <1>5, <1>7, <2>1 DEF P
<1>8. CASE f.kind = "fallback"
  <2>1. k = P /\ FirstAdjustment(f) = P /\ Surplus(f) = P /\ Len(Entry(f)) = 0 + P
    BY <1>4, <1>8 DEF FirstAdjustment, Surplus, P
  <2> QED BY <1>2, <1>4, <1>5, <1>8, <2>1 DEF P
<1>9. CASE f.kind = "receive"
  <2>1. k = 0 /\ FirstAdjustment(f) = P + 1 /\ Surplus(f) = 1 /\ Len(Entry(f)) = 0 + P /\ P = 0
    BY <1>3, <1>4, <1>9 DEF FirstAdjustment, Surplus, P
  <2> QED BY <1>3, <1>4, <1>5, <1>9, <2>1 DEF P
<1> QED BY <1>1, <1>6, <1>7, <1>8, <1>9 DEF FunctionKinds

\* The layout that the reshuffling starts with.
LEMMA LayoutLen ==
  ASSUME NEW f \in Programs
  PROVE  /\ IsSeq(Layout(f))
         /\ f.kind \in {"function", "receive"} => Len(Layout(f)) = 1 + SizeOnStack(f.params) + SizeOnStack(f.returns)
         /\ f.kind \notin {"function", "receive"} => Len(Layout(f)) = SizeOnStack(f.params) + SizeOnStack(f.returns)
         /\ f.kind = "receive" => Layout(f) = <<1>>
<1> DEFINE P == SizeOnStack(f.params)
           R == SizeOnStack(f.returns)
           u == IF f.kind \in {"function", "receive"} THEN <<R + 1>> ELSE <<>>
           v == [i \in 1..P |-> 0]
           w == [i \in 1..R |-> i]
<1>1. f.params \in Seq(Variable) /\ f.returns \in Seq(Variable)
  BY ProgramsAssumption
<1>2. P \in Nat /\ R \in Nat
  BY <1>1, SameSize
<1>3. f.kind = "receive" => P = 0 /\ R = 0
  BY ProgramsAssumption, NoSlots
<1>4. IsSeq(u) /\ Len(u) = IF f.kind \in {"function", "receive"} THEN 1 ELSE 0
  <2>1. IsSeq(<<R + 1>>) /\ Len(<<R + 1>>) = 1 /\ IsSeq(<<>>) /\ Len(<<>>) = 0
    BY Short
  <2> QED BY <2>1
<1>5. Layout(f) = (u \o v) \o w
  BY DEF Layout
<1> HIDE DEF P, R
<1>6. v = [i \in 1..P |-> v[i]] /\ w = [i \in 1..R |-> w[i]]
  OBVIOUS
<1>7. f.kind = "receive" => u = <<R + 1>>
  OBVIOUS
<1> HIDE DEF u, v, w
<1>8. IsSeq(v) /\ Len(v) = P /\ IsSeq(w) /\ Len(w) = R
  BY <1>2, <1>6, MadeSeq
<1>9. IsSeq(u \o v) /\ Len(u \o v) = Len(u) + P
  BY <1>4, <1>8, IsSeqConcat
<1>10. IsSeq((u \o v) \o w) /\ Len((u \o v) \o w) = (Len(u) + P) + R
  BY <1>8, <1>9, IsSeqConcat
<1>11. f.kind = "receive" => Layout(f) = <<1>>
  <2> SUFFICES ASSUME f.kind = "receive" PROVE Layout(f) = <<1>>
    OBVIOUS
  <2>1. v = <<>> /\ w = <<>>
    BY <1>3, <1>8, EmptyIsSeq
  <2>2. u = <<0 + 1>> /\ 0 + 1 = 1
    BY <1>3, <1>7
  <2>3. (u \o <<>>) \o <<>> = u
    BY <1>4, EmptyConcat
  <2> QED BY <1>5, <2>1, <2>2, <2>3
<1>12. f.kind \in {"function", "receive"} => Len(Layout(f)) = 1 + P + R
  BY <1>2, <1>4, <1>5, <1>10
<1>13. f.kind \notin {"function", "receive"} => Len(Layout(f)) = P + R
  BY <1>2, <1>4, <1>5, <1>10
<1> QED BY <1>5, <1>10, <1>11, <1>12, <1>13 DEF P, R

LEMMA FlowFunction ==
  ASSUME NEW f \in Programs, NEW T
  PROVE  \E z : Flow(f, T, FunctionTasks(f), Start(f), z) /\ z.g = Nowhere
<1> DEFINE R == SizeOnStack(f.returns)
           xs == f.params \o f.returns
           o == Start(f)
           n == FirstAdjustment(f)
           h == o.h + n
           a == At(o, h, h)
           m == Move(a, R)
           b == At(m, m.h, Unknown)
           c == At(b, b.h + (0 - R), Unknown)
           z == At(c, c.h, Nowhere)
           p1 == <<Adjust(n)>>
           p2 == AddOnStack(f.params)
           p3 == FlattenSeq([i \in 1..Len(f.returns) |-> InitialiseVariable(f.returns[i])])
           p4 == <<CodeBlock, Cleanup(Layout(f))>>
           p5 == [i \in 1..Len(xs) |-> RemoveVariable(xs[i])]
           p6 == <<Adjust(0 - R), Finish>>
<1>1. f.params \in Seq(Variable) /\ f.returns \in Seq(Variable) /\ f.kind \in FunctionKinds
  BY ProgramsAssumption
<1>2. R \in Nat /\ Surplus(f) \in Nat
  BY <1>1, SameSize, SurplusType
<1>3. /\ IsSeq(Entry(f)) /\ o.h \in Int /\ n \in Int /\ h = Len(Entry(f)) + Surplus(f) /\ h \in Int /\ h >= Surplus(f)
      /\ IF f.kind = "receive" THEN SizeOnStack(f.params) = 0 /\ R = 0
         ELSE (IF f.kind = "function" THEN 1 ELSE 0) + SizeOnStack(f.params) = h - Surplus(f)
  BY Entered
<1>4. FunctionTasks(f) = ((((p1 \o p2) \o p3) \o p4) \o p5) \o p6
  BY DEF FunctionTasks, FirstAdjustment
<1>5. Shaped(o) /\ o.g = Len(Entry(f)) + Surplus(f) /\ o.depth = -1
  <2> DEFINE k == IF f.kind \in {"constructor", "fallback"} THEN SizeOnStack(f.params) ELSE 0
             g == Len(Entry(f)) + Surplus(f)
  <2>1. k \in Int /\ g \in Int /\ -1 \in Int
    <3>1. SizeOnStack(f.params) \in Nat
      BY <1>1, SameSize
    <3>2. Len(Entry(f)) \in Nat
      BY <1>3, IsSeqLen
    <3> QED BY <1>2, <3>1, <3>2
  <2>2. o = Point(k, g, {}, <<>>, <<>>, <<>>, -1)
    BY DEF Start
  <2> HIDE DEF k, o, g
  <2>3. Shaped(o) /\ o.g = g /\ o.depth = -1
    BY <2>1, <2>2, PointShaped
  <2> QED BY <2>3 DEF g
<1>6. Layout(f) = <<1>> \/ Len(Layout(f)) <= (h + R) - Surplus(f)
  <2>1. CASE f.kind = "receive"
    BY <2>1, LayoutLen
  <2>2. CASE f.kind = "function"
    <3>1. Len(Layout(f)) = 1 + SizeOnStack(f.params) + R /\ 1 + SizeOnStack(f.params) = h - Surplus(f)
      BY <1>3, <2>2, LayoutLen
    <3>2. SizeOnStack(f.params) \in Nat
      BY <1>1, SameSize
    <3> HIDE DEF R, h
    <3> QED BY <1>2, <1>3, <3>1, <3>2
  <2>3. CASE f.kind \notin {"receive", "function"}
    <3>1. Len(Layout(f)) = SizeOnStack(f.params) + R /\ 0 + SizeOnStack(f.params) = h - Surplus(f)
      BY <1>3, <2>3, LayoutLen
    <3>2. SizeOnStack(f.params) \in Nat
      BY <1>1, SameSize
    <3> HIDE DEF R, h
    <3> QED BY <1>2, <1>3, <3>1, <3>2
  <2> QED BY <2>1, <2>2, <2>3
<1> HIDE DEF o, n
<1>7. Step(f, T, Adjust(n), o, a)
  <2>1. o.g = h
    BY <1>3, <1>5
  <2>2. Step(f, T, Adjust(n), o, At(o, o.h + n, o.g))
    BY <1>3, StepAdjust
  <2> QED BY <2>1, <2>2
<1>8. Shaped(a) /\ a.h = h /\ a.g = h /\ a.depth = -1
  <2> HIDE DEF h
  <2> QED BY <1>3, <1>5, AtShape
<1>9. Sync(f, a)
  BY <1>3, <1>8 DEF Sync
<1> HIDE DEF a, h, R
<1>10. Flow(f, T, p1, o, a)
  BY <1>7, Chain1
<1>11. Flow(f, T, p2, a, a)
  BY <1>1, FlowAddOnStack
<1>12. Flow(f, T, p3, a, m)
  <2>1. p3 = FlattenSeq([i \in 1..Len(f.returns) |-> <<AddVariable(f.returns[i], 0), Push(SlotsOf(f.returns[i], "zero"))>>])
    BY DEF InitialiseVariable
  <2> HIDE DEF p3
  <2> QED BY <1>1, <1>2, <1>8, <1>9, <2>1, FlowInit DEF R
<1>13. Shaped(m) /\ Sync(f, m) /\ m.h = h + R /\ m.depth = -1
  <2>1. Shaped(m) /\ Sync(f, m) /\ m.h = a.h + R
    BY <1>2, <1>8, <1>9, Above
  <2>2. m.depth = a.depth
    <3>1. R \in Int
      BY <1>2
    <3> QED BY <1>8, <3>1, MoveShape
  <2> QED BY <1>8, <2>1, <2>2
<1> HIDE DEF m
<1>14. m.h \in Int /\ Unknown \in Int /\ Nowhere \in Int
  BY <1>13 DEF Shaped, Unknown, Nowhere
<1>15. Shaped(b) /\ b.h = m.h /\ b.g = Unknown
  BY <1>13, <1>14, AtShape
<1>16. Flow(f, T, p4, m, b)
  <2>1. CodeBlock.do = "codeBlock" /\ Cleanup(Layout(f)).do = "cleanup" /\ Cleanup(Layout(f)).layout = Layout(f)
    BY DEF CodeBlock, Cleanup
  <2>2. Step(f, T, CodeBlock, m, m)
    <3>1. m.depth >= -1
      BY <1>13
    <3> QED BY <1>13, <2>1, <3>1 DEF Step
  <2>3. b = At(m, b.h, Unknown) /\ b.h \in Int
    BY <1>14, <1>15
  <2>4. IsSeq(Layout(f)) /\ (Len(Layout(f)) <= m.h - Surplus(f) \/ Layout(f) = <<1>>)
    BY <1>6, <1>13, LayoutLen
  <2> HIDE DEF b
  <2>5. Step(f, T, Cleanup(Layout(f)), m, b)
    BY <1>13, <2>1, <2>3, <2>4 DEF Step
  <2> QED BY <2>2, <2>5, Chain2
<1> HIDE DEF b
<1>17. Flow(f, T, p5, b, b)
  <2>1. xs \in Seq(Variable)
    BY <1>1
  <2> HIDE DEF xs
  <2> QED BY <2>1, FlowRemove
<1>18. b.h \in Int /\ 0 - R \in Int /\ b.h + (0 - R) \in Int
  BY <1>2, <1>14, <1>15
<1>19. Step(f, T, Adjust(0 - R), b, c)
  <2>1. Step(f, T, Adjust(0 - R), b, At(b, b.h + (0 - R), b.g))
    BY <1>18, StepAdjust
  <2> QED BY <1>15, <2>1
<1>20. Shaped(c) /\ c.g = Unknown /\ c.h \in Int
  BY <1>14, <1>15, <1>18, AtShape
<1> HIDE DEF c
<1>21. z.g = Nowhere
  BY <1>14, <1>20, AtShape
<1>22. Step(f, T, Finish, c, z)
  <2>1. Finish.do = "finish"
    BY DEF Finish
  <2> HIDE DEF z
  <2>2. z = At(c, c.h, Nowhere)
    BY DEF z
  <2> QED BY <1>20, <2>1, <2>2 DEF Step
<1> HIDE DEF z
<1>23. Flow(f, T, p6, b, z)
  BY <1>19, <1>22, Chain2
<1> HIDE DEF p1, p2, p3, p4, p5, p6
<1>24. Flow(f, T, (p1 \o p2) \o p3, o, m)
  <2>1. Flow(f, T, p1 \o p2, o, a)
    BY <1>10, <1>11, FlowConcat
  <2> QED BY <1>12, <2>1, FlowConcat
<1>25. Flow(f, T, (((p1 \o p2) \o p3) \o p4) \o p5, o, b)
  <2>1. Flow(f, T, ((p1 \o p2) \o p3) \o p4, o, b)
    BY <1>16, <1>24, FlowConcat
  <2> QED BY <1>17, <2>1, FlowConcat
<1>26. Flow(f, T, ((((p1 \o p2) \o p3) \o p4) \o p5) \o p6, o, z)
  BY <1>23, <1>25, FlowConcat
<1> QED BY <1>4, <1>21, <1>26 DEF o

LEMMA Initially == Init => HeightsFollowed
<1> SUFFICES ASSUME Init PROVE HeightsFollowed
  OBVIOUS
<1> DEFINE T == [t \in {} |-> 0]
           a == Start(fn)
           g == Len(Entry(fn)) + Surplus(fn)
           k == IF fn.kind \in {"constructor", "fallback"} THEN SizeOnStack(fn.params) ELSE 0
           G == [i \in {1} |-> g]
<1>1. /\ fn \in Programs /\ phase = "compile" /\ todo = FunctionTasks(fn) /\ height = k /\ code = <<>> /\ tags = 0
      /\ breakTags = <<>> /\ continueTags = <<>> /\ returnTags = <<>> /\ scopes = {} /\ depth = -1
      /\ stack = Entry(fn) /\ ip = 1
  BY DEF Init
<1>2. DOMAIN T = {}
  OBVIOUS
<1>3. G[1] = g /\ G[0 + 1] = g
  OBVIOUS
<1>4. IsSeq(Entry(fn))
  BY <1>1, Entered
<1>5. k \in Int /\ g \in Int
  <2>1. SizeOnStack(fn.params) \in Nat
    BY <1>1, ProgramsAssumption, SameSize
  <2>2. Len(Entry(fn)) \in Nat /\ Surplus(fn) \in Nat
    BY <1>1, <1>4, IsSeqLen, SurplusType
  <2> QED BY <2>1, <2>2
<1>6. a = Point(k, g, {}, <<>>, <<>>, <<>>, -1)
  BY DEF Start
<1> HIDE DEF T, a, k, G
<1>7. a.h = k /\ a.g = g /\ a.sc = {} /\ a.br = <<>> /\ a.co = <<>> /\ a.re = <<>> /\ a.depth = -1
  BY <1>6 DEF Point
<1> HIDE DEF g
<1>8. Good(fn, T, a)
  <2>1. <<>> \in Seq(Entries(fn, T)) /\ {} \in SUBSET ScopeRecords /\ -1 \in Int
    OBVIOUS
  <2>2. a \in Points(fn, T)
    BY <1>5, <1>6, <2>1 DEF Point, Points
  <2> QED BY <1>7, <2>2 DEF Good
<1>9. Matches(a)
  BY <1>1, <1>7 DEF Matches
<1>10. PICK z : Flow(fn, T, FunctionTasks(fn), a, z) /\ z.g = Nowhere
  BY <1>1, FlowFunction DEF a
<1>11. Traced(fn, T, code, G, a.g)
  <2>1. IsSeq(<<>>) /\ Len(<<>>) = 0
    BY NoneIsSeq
  <2> QED BY <1>1, <1>3, <1>7, <2>1 DEF Traced
<1>12. G[1] \in {Len(stack) + Surplus(fn), Unknown}
  BY <1>1, <1>3 DEF g
<1>13. Compiling(T, a, z, G)
  BY <1>1, <1>2, <1>4, <1>8, <1>9, <1>10, <1>11, <1>12 DEF Compiling
<1> QED BY <1>1, <1>13 DEF HeightsFollowed

-----------------------------------------------------------------------------
(***************************************************************************)
(* The machine.                                                            *)
(***************************************************************************)
LEMMA Started ==
  ASSUME NEW T, NEW a, NEW z, NEW G, Compiling(T, a, z, G), StartRun
  PROVE  Executing(T, G)'
<1>1. todo = <<>> /\ UNCHANGED <<fn, code, stack, ip>>
  BY DEF StartRun, compilerVars, machineVars
<1>2. /\ Flow(fn, T, todo, a, z) /\ z.g = Nowhere /\ Traced(fn, T, code, G, a.g)
      /\ (\A t \in DOMAIN T : Has(todo, Place(t)) \/ TagIn(code, t))
      /\ ip = 1 /\ IsSeq(stack) /\ G[1] \in {Len(stack) + Surplus(fn), Unknown}
  BY DEF Compiling
<1>3. Len(todo) = 0
  BY <1>1, NoneIsSeq
<1>4. a = z
  <2>1. PICK w : w[1] = a /\ w[Len(todo) + 1] = z
    BY <1>2 DEF Flow
  <2> QED BY <1>3, <2>1
<1>5. \A t \in DOMAIN T : TagIn(code, t)
  BY <1>2, <1>3 DEF Has
<1>6. ip \in 1..(Len(code) + 1)
  <2>1. Len(code) \in Nat
    BY <1>2, IsSeqLen DEF Traced
  <2> QED BY <1>2, <2>1
<1>7. Executing(T, G)
  BY <1>2, <1>4, <1>5, <1>6 DEF Executing
<1> QED BY <1>1, <1>7 DEF Executing

\* What is known of the next instruction.
LEMMA NextInstruction ==
  ASSUME fn \in Programs, NEW T, NEW G, Executing(T, G)
  PROVE  /\ Surplus(fn) \in Nat /\ IsSeq(stack) /\ Len(stack) \in Nat /\ Len(code) \in Nat /\ ip \in 1..Len(code)
         /\ Fits(fn, T, code[ip], G[ip], G[ip + 1]) /\ ip + 1 \in 1..(Len(code) + 1)
         /\ code[ip].op \notin {"out", "end"} => G[ip] = Len(stack) + Surplus(fn)
         /\ code[ip].op \notin {"tag", "out", "end"} => code[ip].h = G[ip]
<1>1. /\ Traced(fn, T, code, G, Nowhere) /\ ip \in 1..(Len(code) + 1) /\ IsSeq(stack)
      /\ G[ip] \in {Len(stack) + Surplus(fn), Unknown}
  BY DEF Executing
<1>2. Surplus(fn) \in Nat /\ Len(stack) \in Nat /\ Len(code) \in Nat
  BY <1>1, SurplusType, IsSeqLen DEF Traced
<1>3. G[Len(code) + 1] = Nowhere /\ \A i \in 1..Len(code) : Fits(fn, T, code[i], G[i], G[i + 1])
  BY <1>1 DEF Traced
<1>4. G[ip] # Nowhere
  BY <1>1, <1>2 DEF Nowhere, Unknown
<1>5. ip \in 1..Len(code) /\ ip + 1 \in 1..(Len(code) + 1)
  BY <1>1, <1>2, <1>3, <1>4
<1>6. Fits(fn, T, code[ip], G[ip], G[ip + 1])
  BY <1>3, <1>5
<1>7. code[ip].op \notin {"out", "end"} => G[ip] \in Int /\ G[ip] >= Surplus(fn)
  BY <1>6 DEF Fits, Here
<1>8. code[ip].op \notin {"out", "end"} => G[ip] # Unknown
  BY <1>2, <1>7 DEF Unknown
<1>9. code[ip].op \notin {"tag", "out", "end"} => code[ip].h = G[ip]
  BY <1>6 DEF Fits, Here
<1> QED BY <1>1, <1>2, <1>5, <1>6, <1>8, <1>9

LEMMA TargetIn ==
  ASSUME fn \in Programs, NEW T, NEW G, Executing(T, G), NEW t \in DOMAIN T
  PROVE  Target(t) \in 1..(Len(code) + 1) /\ G[Target(t)] = T[t]
<1>1. TagIn(code, t) /\ Traced(fn, T, code, G, Nowhere)
  BY DEF Executing
<1>2. DOMAIN code = 1..Len(code) /\ Len(code) \in Nat
  BY <1>1, IsSeqLen DEF Traced
<1> DEFINE k == Target(t)
<1>3. k \in DOMAIN code /\ code[k].op = "tag" /\ code[k].n = t
  <2>1. \E i \in DOMAIN code : code[i].op = "tag" /\ code[i].n = t
    BY <1>1, <1>2 DEF TagIn
  <2> QED BY <2>1 DEF Target
<1> HIDE DEF k
<1>4. Fits(fn, T, code[k], G[k], G[k + 1])
  BY <1>1, <1>2, <1>3 DEF Traced
<1>5. T[t] = G[k]
  BY <1>3, <1>4 DEF Fits
<1>6. k \in 1..(Len(code) + 1)
  BY <1>2, <1>3
<1> QED BY <1>5, <1>6 DEF k

\* The machine goes on at i, where the height is that of its new stack.
LEMMA GoesOn ==
  ASSUME fn \in Programs, NEW T, NEW G, Executing(T, G), UNCHANGED <<fn, compilerVars>>,
         ip' \in 1..(Len(code) + 1), IsSeq(stack'), G[ip'] \in {Len(stack') + Surplus(fn), Unknown}
  PROVE  Executing(T, G)'
BY DEF Executing, compilerVars

LEMMA DropLen ==
  ASSUME IsSeq(stack), NEW n \in Nat, n <= Len(stack)
  PROVE  IsSeq(Drop(n)) /\ Len(Drop(n)) = Len(stack) - n
<1> DEFINE m == Len(stack) - n
           u == SubSeq(stack, 1, m)
<1>1. m \in Nat
  BY IsSeqLen
<1> HIDE DEF m
<1>2. IsSeq(u) /\ Len(u) = IF 1 <= m THEN m - 1 + 1 ELSE 0
  BY <1>1, IsSeqSub
<1> HIDE DEF u
<1>3. IsSeq(u) /\ Len(u) = m
  <2>1. CASE 1 <= m
    BY <1>1, <1>2, <2>1
  <2>2. CASE ~(1 <= m)
    <3>1. m = 0
      BY <1>1, <2>2
    <3> QED BY <1>2, <2>2, <3>1
  <2> QED BY <2>1, <2>2
<1> QED BY <1>3 DEF Drop, m, u

LEMMA PushRun ==
  ASSUME fn \in Programs, NEW T, NEW G, Executing(T, G), RunPush
  PROVE  Executing(T, G)'
<1> DEFINE vals == code[ip].vals
<1>1. code[ip].op = "push" /\ stack' = stack \o vals /\ ip' = ip + 1 /\ UNCHANGED <<fn, compilerVars>>
  BY DEF RunPush, Running
<1>2. /\ Surplus(fn) \in Nat /\ IsSeq(stack) /\ Len(stack) \in Nat /\ ip + 1 \in 1..(Len(code) + 1)
      /\ Fits(fn, T, code[ip], G[ip], G[ip + 1]) /\ G[ip] = Len(stack) + Surplus(fn)
  BY <1>1, NextInstruction
<1>3. IsSeq(vals) /\ G[ip + 1] \in {G[ip] + Len(vals), Unknown}
  BY <1>1, <1>2 DEF Fits
<1>4. IsSeq(stack') /\ Len(stack') = Len(stack) + Len(vals) /\ Len(vals) \in Nat
  BY <1>1, <1>2, <1>3, IsSeqConcat, IsSeqLen
<1>5. G[ip + 1] \in {Len(stack') + Surplus(fn), Unknown}
  BY <1>2, <1>3, <1>4
<1> QED BY <1>1, <1>2, <1>4, <1>5, GoesOn

LEMMA StackRun ==
  ASSUME fn \in Programs, NEW T, NEW G, Executing(T, G), RunStack
  PROVE  Executing(T, G)'
<1> DEFINE n == code[ip].n
           top == Len(stack)
<1>1. /\ ip' = ip + 1 /\ UNCHANGED <<fn, compilerVars>>
      /\ \/ code[ip].op = "pop" /\ stack' = Drop(n)
         \/ code[ip].op = "dup" /\ stack' = Append(stack, stack[top - n + 1])
         \/ code[ip].op = "swap" /\ stack' = Exchange(stack, top, top - n)
  BY DEF RunStack, Running
<1>2. /\ Surplus(fn) \in Nat /\ IsSeq(stack) /\ top \in Nat /\ ip + 1 \in 1..(Len(code) + 1)
      /\ Fits(fn, T, code[ip], G[ip], G[ip + 1]) /\ G[ip] = top + Surplus(fn)
  BY <1>1, NextInstruction
<1>3. IsSeq(stack') /\ G[ip + 1] \in {Len(stack') + Surplus(fn), Unknown}
  <2>1. CASE code[ip].op = "pop" /\ stack' = Drop(n)
    <3>1. n \in Nat /\ G[ip] - n >= Surplus(fn) /\ G[ip + 1] \in {G[ip] - n, Unknown}
      BY <1>2, <2>1 DEF Fits
    <3>2. n <= top
      BY <1>2, <3>1
    <3>3. IsSeq(stack') /\ Len(stack') = top - n
      <4> HIDE DEF n
      <4> QED BY <1>2, <2>1, <3>1, <3>2, DropLen
    <3> QED BY <1>2, <3>1, <3>3
  <2>2. CASE code[ip].op = "dup" /\ stack' = Append(stack, stack[top - n + 1])
    <3>1. G[ip + 1] \in {G[ip] + 1, Unknown}
      BY <1>2, <2>2 DEF Fits
    <3>2. IsSeq(stack') /\ Len(stack') = top + 1
      BY <1>2, <2>2, IsSeqAppend
    <3> QED BY <1>2, <3>1, <3>2
  <2>3. CASE code[ip].op = "swap" /\ stack' = Exchange(stack, top, top - n)
    <3>1. G[ip + 1] \in {G[ip], Unknown}
      BY <1>2, <2>3 DEF Fits
    <3>2. IsSeq(stack') /\ Len(stack') = top
      BY <1>2, <2>3, ExchangeLen
    <3> QED BY <1>2, <3>1, <3>2
  <2> QED BY <1>1, <2>1, <2>2, <2>3
<1> QED BY <1>1, <1>2, <1>3, GoesOn

LEMMA JumpRun ==
  ASSUME fn \in Programs, NEW T, NEW G, Executing(T, G), RunJump
  PROVE  Executing(T, G)'
<1> DEFINE n == code[ip].n
           vals == code[ip].vals
           i == ip + 1
<1>1. /\ UNCHANGED <<fn, compilerVars>>
      /\ \/ code[ip].op = "tag" /\ ip' = i /\ stack' = stack
         \/ code[ip].op = "jump" /\ ip' = Target(n) /\ stack' = stack
         \/ code[ip].op = "jumpi" /\ ip' \in {i, Target(n)} /\ stack' = Drop(1)
         \/ code[ip].op = "trycall" /\ ip' = i /\ stack' = stack
         \/ code[ip].op = "trycall" /\ ip' = Target(n) /\ stack' = stack \o vals
  BY DEF RunJump, Running
<1>2. /\ Surplus(fn) \in Nat /\ IsSeq(stack) /\ Len(stack) \in Nat /\ i \in 1..(Len(code) + 1)
      /\ Fits(fn, T, code[ip], G[ip], G[i]) /\ G[ip] = Len(stack) + Surplus(fn)
  BY <1>1, NextInstruction
<1>3. code[ip].op # "tag" => n \in DOMAIN T
  BY <1>1, <1>2 DEF Fits
<1>4. code[ip].op # "tag" => Target(n) \in 1..(Len(code) + 1) /\ G[Target(n)] = T[n]
  <2> HIDE DEF n
  <2> QED BY <1>3, TargetIn
<1>5. /\ ip' \in 1..(Len(code) + 1) /\ IsSeq(stack') /\ G[ip'] \in {Len(stack') + Surplus(fn), Unknown}
  <2>1. CASE code[ip].op = "tag"
    <3>1. G[i] \in {G[ip], Unknown} /\ ip' = i /\ stack' = stack
      BY <1>1, <1>2, <2>1 DEF Fits
    <3> QED BY <1>2, <3>1
  <2>2. CASE code[ip].op = "jump"
    <3>1. T[n] = G[ip] /\ ip' = Target(n) /\ stack' = stack
      BY <1>1, <1>2, <2>2 DEF Fits
    <3> QED BY <1>2, <1>4, <2>2, <3>1
  <2>3. CASE code[ip].op = "jumpi"
    <3>1. /\ T[n] = G[ip] - 1 /\ G[ip] - 1 >= Surplus(fn) /\ G[i] \in {G[ip] - 1, Unknown}
          /\ ip' \in {i, Target(n)} /\ stack' = Drop(1)
      BY <1>1, <1>2, <2>3 DEF Fits
    <3>2. 1 <= Len(stack)
      BY <1>2, <3>1
    <3>3. IsSeq(stack') /\ Len(stack') = Len(stack) - 1
      BY <1>2, <3>1, <3>2, DropLen
    <3>4. G[ip] - 1 = Len(stack') + Surplus(fn)
      BY <1>2, <3>3
    <3> QED BY <1>2, <1>4, <2>3, <3>1, <3>3, <3>4
  <2>4. CASE code[ip].op = "trycall"
    <3>1. IsSeq(vals) /\ T[n] = G[ip] + Len(vals) /\ G[i] \in {G[ip], Unknown}
      BY <1>2, <2>4 DEF Fits
    <3>2. CASE ip' = i /\ stack' = stack
      BY <1>2, <3>1, <3>2
    <3>3. CASE ip' = Target(n) /\ stack' = stack \o vals
      <4>1. IsSeq(stack') /\ Len(stack') = Len(stack) + Len(vals) /\ Len(vals) \in Nat
        BY <1>2, <3>1, <3>3, IsSeqConcat, IsSeqLen
      <4>2. T[n] = Len(stack') + Surplus(fn)
        BY <1>2, <3>1, <4>1
      <4> QED BY <1>4, <2>4, <3>3, <4>1, <4>2
    <3> QED BY <1>1, <2>4, <3>2, <3>3
  <2> QED BY <1>1, <2>1, <2>2, <2>3, <2>4
<1> QED BY <1>1, <1>5, GoesOn

-----------------------------------------------------------------------------
(***************************************************************************)
(* The invariant is inductive.                                             *)
(***************************************************************************)
LEMMA Compiled ==
  ASSUME fn \in Programs, NEW T, NEW a, NEW z, NEW G, Compiling(T, a, z, G), Compile, phase' = "compile"
  PROVE  \E U, b, H : Compiling(U, b, z, H)'
<1>1. CASE VisitStatement
  BY <1>1, StatementVisited
<1>2. CASE DoEmit
  BY <1>2, Emitted
<1>3. CASE DoAdjust
  BY <1>3, Adjusted
<1>4. CASE DoCheck \/ DoAddVariable \/ DoRemoveVariable
  BY <1>4, Checked
<1>5. CASE DoCloseClause
  BY <1>5, ClauseClosed
<1>6. CASE DoOpenScope
  BY <1>6, ScopeOpened
<1>7. CASE DoCloseScope
  BY <1>7, ScopeClosed
<1>8. CASE DoOpenLoop
  BY <1>8, LoopOpened
<1>9. CASE DoCloseLoop
  BY <1>9, LoopClosed
<1>10. CASE DoOpenReturn
  BY <1>10, ReturnOpened
<1>11. CASE DoCloseReturn
  BY <1>11, ReturnClosed
<1>12. CASE PopAndJump
  BY <1>12, Left
<1>13. CASE MoveToStackVariable
  BY <1>13, Assigned
<1>14. CASE RetrieveValue
  BY <1>14, Retrieved
<1>15. CASE AppendModifierOrFunctionCode
  BY <1>15, CodeAppended
<1>16. CASE DoLeaveDepth
  BY <1>16, DepthLeft
<1>17. CASE Reshuffle
  BY <1>17, Reshuffled
<1>18. CASE DoFinish
  BY <1>18, FinishDone
<1>19. CASE StartRun
  BY <1>19 DEF StartRun
<1> QED
  BY <1>1, <1>2, <1>3, <1>4, <1>5, <1>6, <1>7, <1>8, <1>9, <1>10, <1>11, <1>12, <1>13, <1>14, <1>15, <1>16,
     <1>17, <1>18, <1>19 DEF Compile

\* Only StartRun goes from the compiler to the machine.
LEMMA PhaseSteps ==
  ASSUME Compile
  PROVE  phase = "compile" /\ fn' = fn /\ (phase' = "run" => StartRun)
<1>1. CASE VisitStatement
  BY <1>1 DEF VisitStatement, Visiting, Becomes, VisitBlock, VisitDeclare, VisitEval, VisitUse, VisitIf, VisitWhile,
     VisitDoWhile, VisitFor, VisitBreak, VisitContinue, VisitReturn, VisitPlaceholder, VisitTry
<1>2. CASE DoEmit \/ DoAdjust \/ DoCheck \/ DoAddVariable \/ DoRemoveVariable
  BY <1>2 DEF DoEmit, DoAdjust, DoCheck, DoAddVariable, DoRemoveVariable, Task, Then, Ends
<1>3. CASE DoCloseClause \/ DoOpenScope \/ DoCloseScope \/ DoOpenLoop \/ DoCloseLoop \/ DoOpenReturn \/ DoCloseReturn
  BY <1>3 DEF DoCloseClause, DoOpenScope, DoCloseScope, DoOpenLoop, DoCloseLoop, DoOpenReturn, DoCloseReturn, Task,
     Then, Ends
<1>4. CASE PopAndJump \/ MoveToStackVariable \/ RetrieveValue
  BY <1>4 DEF PopAndJump, MoveToStackVariable, RetrieveValue, Task, Then, Ends
<1>5. CASE AppendModifierOrFunctionCode \/ DoLeaveDepth \/ Reshuffle \/ DoFinish
  BY <1>5 DEF AppendModifierOrFunctionCode, DoLeaveDepth, Reshuffle, DoFinish, Task, Then, Ends
<1>6. CASE StartRun
  BY <1>6 DEF StartRun
<1> QED BY <1>1, <1>2, <1>3, <1>4, <1>5, <1>6 DEF Compile

LEMMA Stepwise == HeightsFollowed /\ [Next]_vars => HeightsFollowed'
<1> SUFFICES ASSUME HeightsFollowed, [Next]_vars PROVE HeightsFollowed'
  OBVIOUS
<1>0. fn \in Programs
  BY DEF HeightsFollowed
<1>1. CASE Compile
  <2>1. phase = "compile" /\ fn' = fn /\ (phase' = "run" => StartRun)
    BY <1>1, PhaseSteps
  <2>2. PICK T, a, z, G : Compiling(T, a, z, G)
    BY <2>1 DEF HeightsFollowed
  <2>3. ASSUME phase' = "compile" PROVE \E U, b, H : Compiling(U, b, z, H)'
    BY <1>0, <1>1, <2>2, <2>3, Compiled
  <2>4. ASSUME phase' = "run" PROVE Executing(T, G)'
    BY <2>1, <2>2, <2>4, Started
  <2> QED BY <1>0, <2>1, <2>3, <2>4 DEF HeightsFollowed
<1>2. CASE Run
  <2>1. phase = "run" /\ fn' = fn
    BY <1>2 DEF Run, RunPush, RunStack, RunJump, RunEnd, Running
  <2>2. PICK T, G : Executing(T, G)
    BY <2>1 DEF HeightsFollowed
  <2>3. CASE RunPush \/ RunStack \/ RunJump
    <3>1. phase' = "run"
      BY <2>1, <2>3 DEF RunPush, RunStack, RunJump
    <3>2. Executing(T, G)'
      BY <1>0, <2>2, <2>3, PushRun, StackRun, JumpRun
    <3> QED BY <1>0, <2>1, <3>1, <3>2 DEF HeightsFollowed
  <2>4. CASE RunEnd
    <3>1. phase' \in {"returned", "reverted"}
      BY <2>4 DEF RunEnd
    <3> QED BY <1>0, <2>1, <3>1 DEF HeightsFollowed
  <2> QED BY <1>2, <2>3, <2>4 DEF Run
<1>3. CASE UNCHANGED vars
  <2>1. /\ UNCHANGED <<fn, phase, todo, height, code, tags, breakTags, continueTags, returnTags, scopes, depth, stack, ip>>
    BY <1>3 DEF vars, compilerVars, machineVars
  <2>2. ASSUME NEW T, NEW a, NEW z, NEW G, Compiling(T, a, z, G) PROVE Compiling(T, a, z, G)'
    BY <2>1, <2>2 DEF Compiling, Matches
  <2>3. ASSUME NEW T, NEW G, Executing(T, G) PROVE Executing(T, G)'
    BY <2>1, <2>3 DEF Executing
  <2> QED BY <2>1, <2>2, <2>3 DEF HeightsFollowed
<1>4. Compile \/ Run \/ UNCHANGED vars
  BY DEF Next, Finished
<1> QED BY <1>1, <1>2, <1>3, <1>4

LEMMA FollowedAgree == HeightsFollowed => HeightsAgree
<1> SUFFICES ASSUME HeightsFollowed, phase = "run", code[ip].op \notin {"tag", "out", "end"}
             PROVE  Len(stack) + Surplus(fn) = code[ip].h
  BY DEF HeightsAgree
<1>1. PICK T, G : Executing(T, G)
  BY DEF HeightsFollowed
<1>2. fn \in Programs
  BY DEF HeightsFollowed
<1> QED BY <1>1, <1>2, NextInstruction

\* The counter of the compiler is the height of the stack, for every function
\* and along every path through its code: loops, break, continue and return
\* from nested scopes, modifiers, try statements, and the adjustments that
\* ContractCompiler makes by hand around its jumps.
THEOREM CountedHeights == Spec => []HeightsAgree
<1>1. Init => HeightsFollowed
  BY Initially
<1>2. HeightsFollowed /\ [Next]_vars => HeightsFollowed'
  BY Stepwise
<1>3. HeightsFollowed => HeightsAgree
  BY FollowedAgree
<1> QED BY <1>1, <1>2, <1>3, PTL DEF Spec

\* What ContractCompiler counts on when it comes to the end of what it opened:
\* a statement has left the height as its StackHeightChecker found it, the
\* scope that popScopedVariables looks up is there, and there only once, and
\* no stack of jump targets is read or popped when it is empty.
Balanced ==
    phase = "compile" /\ todo # <<>> =>
        /\ It.do = "check" => It.h = height
        /\ It.do = "closeScope" => \E s \in scopes : \A x \in scopes :
                                     x = s <=> x.depth = depth /\ x.node = It.node
        /\ It.do = "closeLoop" => breakTags # <<>> /\ continueTags # <<>>
        /\ It.do \in {"visit", "closeReturn"} => returnTags # <<>>

LEMMA FollowedBalanced == HeightsFollowed => Balanced
<1> SUFFICES ASSUME HeightsFollowed, phase = "compile", todo # <<>> PROVE Balanced
  BY DEF Balanced
<1>1. PICK T, a, z, G : Compiling(T, a, z, G)
  BY DEF HeightsFollowed
<1>2. fn \in Programs
  BY DEF HeightsFollowed
<1>3. PICK b : Step(fn, T, It, a, b)
  BY <1>1, <1>2, TakeTask DEF It
<1>4. Sync(fn, a) => /\ height = a.h /\ scopes = a.sc /\ depth = a.depth
                     /\ breakTags = a.br /\ continueTags = a.co /\ returnTags = a.re
  BY <1>1, <1>2, TakeTask
<1>5. It.do \in {"check", "closeScope", "closeLoop", "visit", "closeReturn"} => Sync(fn, a)
  BY <1>3 DEF Step
<1>6. It.do = "check" => It.h = height
  BY <1>3, <1>4, <1>5 DEF Step
<1>7. ASSUME It.do = "closeScope"
      PROVE  \E s \in scopes : \A x \in scopes : x = s <=> x.depth = depth /\ x.node = It.node
  <2>1. PICK e \in a.sc : /\ e.depth = a.depth /\ e.node = It.node
                          /\ \A x \in a.sc : x.depth = a.depth /\ x.node = It.node => x = e
    BY <1>3, <1>7 DEF Step
  <2> QED BY <1>4, <1>5, <1>7, <2>1
<1>8. It.do = "closeLoop" => breakTags # <<>> /\ continueTags # <<>>
  BY <1>3, <1>4, <1>5 DEF Step
<1>9. It.do \in {"visit", "closeReturn"} => returnTags # <<>>
  BY <1>3, <1>4, <1>5 DEF Step
<1> QED BY <1>6, <1>7, <1>8, <1>9 DEF Balanced

\* Every scope, loop and modifier that ContractCompiler opens it closes in the
\* same state, for every function: a part of NeverAsserts.
THEOREM ScopesBalanced == Spec => []Balanced
<1>1. Init => HeightsFollowed
  BY Initially
<1>2. HeightsFollowed /\ [Next]_vars => HeightsFollowed'
  BY Stepwise
<1>3. HeightsFollowed => Balanced
  BY FollowedBalanced
<1> QED BY <1>1, <1>2, <1>3, PTL DEF Spec
=============================================================================
