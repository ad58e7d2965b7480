-------------------------- MODULE StatementGrammar --------------------------
(***************************************************************************)
(* What the parser should accept and build, said without a parser: simple  *)
(* statements as sets of sequences of tokens, closed under the rules of    *)
(* the grammar, and the trees that may stand for a sequence of tokens.     *)
(* Statements are over a few tokens, enough for names, types, members,     *)
(* indices, calls, tuples, operators and locations.                        *)
(***************************************************************************)
EXTENDS Parser

Between(s, open, close) == Len(s) >= 2 /\ s[1] = open /\ s[Len(s)] = close
Inner(s) == SubSeq(s, 2, Len(s) - 1)
Cuts(s, t) == {k \in DOMAIN s : s[k] = t}
Upto(s, k) == SubSeq(s, 1, k - 1)
Behind(s, k) == SubSeq(s, k + 1, Len(s))

RECURSIVE IsExpression(_)

\* Expressions with commas between them, and components that may be left out.
RECURSIVE IsList(_)
IsList(s) == IsExpression(s) \/ \E k \in Cuts(s, ",") : IsExpression(Upto(s, k)) /\ IsList(Behind(s, k))
RECURSIVE IsTuple(_)
IsTuple(s) ==
    s = <<>> \/ IsExpression(s)
    \/ \E k \in Cuts(s, ",") : (k = 1 \/ IsExpression(Upto(s, k))) /\ IsTuple(Behind(s, k))

RECURSIVE IsLeftHandSide(_)
IsLeftHandSide(s) ==
    \/ Len(s) = 1 /\ s[1] \in {"id", "uint", "num"}
    \/ Between(s, "(", ")") /\ IsTuple(Inner(s))
    \/ Between(s, "[", "]") /\ (Inner(s) = <<>> \/ IsList(Inner(s)))
    \/ Len(s) > 2 /\ s[Len(s)] = "id" /\ s[Len(s) - 1] = "." /\ IsLeftHandSide(SubSeq(s, 1, Len(s) - 2))
    \/ \E k \in 2..Len(s) - 1 :
          LET suffix == SubSeq(s, k, Len(s)) IN
          /\ \/ Between(suffix, "[", "]") /\ (Inner(suffix) = <<>> \/ IsExpression(Inner(suffix)))
             \/ Between(suffix, "(", ")") /\ (Inner(suffix) = <<>> \/ IsList(Inner(suffix)))
          /\ IsLeftHandSide(Upto(s, k))

RECURSIVE IsUnary(_)
IsUnary(s) == IsLeftHandSide(s) \/ (s # <<>> /\ s[1] = "-" /\ IsUnary(Tail(s)))
RECURSIVE IsBinary(_)
IsBinary(s) == IsUnary(s) \/ \E k \in Cuts(s, "-") : IsBinary(Upto(s, k)) /\ IsUnary(Behind(s, k))
IsExpression(s) == IsBinary(s) \/ \E k \in Cuts(s, "=") : IsBinary(Upto(s, k)) /\ IsExpression(Behind(s, k))

RECURSIVE IsType(_)
IsType(s) ==
    \/ s \in {<<"id">>, <<"uint">>}
    \/ Len(s) > 2 /\ \A i \in DOMAIN s : s[i] = (IF i % 2 = 1 THEN "id" ELSE ".") /\ Len(s) % 2 = 1
    \/ \E k \in 2..Len(s) - 1 :
          LET suffix == SubSeq(s, k, Len(s)) IN
          /\ Between(suffix, "[", "]") /\ (Inner(suffix) = <<>> \/ IsExpression(Inner(suffix)))
          /\ IsType(Upto(s, k))

IsVariable(s) ==
    \E k \in DOMAIN s : IsType(SubSeq(s, 1, k)) /\ Behind(s, k) \in {<<"id">>, <<"memory", "id">>}
RECURSIVE IsVariables(_)
IsVariables(s) ==
    s = <<>> \/ IsVariable(s)
    \/ \E k \in Cuts(s, ",") : (k = 1 \/ IsVariable(Upto(s, k))) /\ IsVariables(Behind(s, k))

\* A tuple at the start of a statement has a component.
StartsWithEmptyTuple(s) ==
    \E k \in DOMAIN s : s[1] = "(" /\ s[k] = ")" /\ \A i \in 2..k - 1 : s[i] = ","

IsSimpleStatement(s) ==
    \/ IsExpression(s) /\ ~StartsWithEmptyTuple(s)
    \/ IsVariable(s)
    \/ \E k \in Cuts(s, "=") :
          /\ IsExpression(Behind(s, k))
          /\ LET vs == Upto(s, k) IN
             \/ IsVariable(vs)
             \/ Between(vs, "(", ")") /\ IsVariables(Inner(vs)) /\ ~StartsWithEmptyTuple(vs)

-----------------------------------------------------------------------------
(***************************************************************************)
(* Trees.  How tightly the operator at the top of a tree binds; what the   *)
(* tree looks like when it is written down.                                *)
(***************************************************************************)
Binding(t) ==
    CASE t.kind \in {"assignment", "conditional"} -> 3
      [] t.kind = "binary" -> Precedence(t.op[1])
      [] t.kind \in {"prefix", "postfix"} -> 15
      [] OTHER -> 16

RECURSIVE IsTree(_)
IsTree(t) ==
    LET a == t.args  b(i) == Binding(a[i])  rightToLeft == t.op = <<"**">> IN
    /\ \A i \in DOMAIN a : IsTree(a[i])
    /\ CASE t.kind = "assignment" -> Len(a) = 2 /\ b(1) > 3
         [] t.kind = "conditional" -> Len(a) = 3 /\ b(1) > 3
         [] t.kind = "binary" ->
              /\ Len(a) = 2
              /\ IF rightToLeft THEN b(1) > Binding(t) /\ b(2) >= Binding(t)
                 ELSE b(1) >= Binding(t) /\ b(2) > Binding(t)
         [] t.kind = "prefix" -> Len(a) = 1 /\ b(1) >= 15
         [] t.kind = "postfix" -> Len(a) = 1 /\ b(1) > 15
         [] t.kind \in {"member", "index", "range", "call", "options"} -> b(1) > 15
         [] OTHER -> TRUE

RECURSIVE Written(_)
RECURSIVE Listed(_)
Listed(ts) ==
    CASE ts = <<>> -> <<>>
      [] Len(ts) = 1 -> Written(ts[1])
      [] OTHER -> Written(ts[1]) \o <<",">> \o Listed(Tail(ts))
Written(t) ==
    LET a == t.args  w(i) == Written(a[i])
        named == Len(a) > 1 /\ a[2].kind = "named"
    IN
    CASE t.kind \in {"leaf", "omitted"} -> t.op
      [] t.kind \in {"binary", "assignment"} -> w(1) \o t.op \o w(2)
      [] t.kind = "conditional" -> w(1) \o <<"?">> \o w(2) \o <<":">> \o w(3)
      [] t.kind = "prefix" -> t.op \o w(1)
      [] t.kind = "postfix" -> w(1) \o t.op
      [] t.kind = "tuple" -> <<"(">> \o Listed(a) \o <<")">>
      [] t.kind = "array" -> <<"[">> \o Listed(a) \o <<"]">>
      [] t.kind = "index" -> w(1) \o <<"[">> \o w(2) \o <<"]">>
      [] t.kind = "range" -> w(1) \o <<"[">> \o w(2) \o <<":">> \o w(3) \o <<"]">>
      [] t.kind = "member" -> w(1) \o <<".">> \o w(2)
      [] t.kind = "named" -> w(1) \o <<":">> \o w(2)
      [] t.kind = "options" -> w(1) \o <<"{">> \o Listed(Tail(a)) \o <<"}">>
      [] t.kind = "call" /\ named -> w(1) \o <<"(", "{">> \o Listed(Tail(a)) \o <<"}", ")">>
      [] t.kind = "call" /\ ~named -> w(1) \o <<"(">> \o Listed(Tail(a)) \o <<")">>

-----------------------------------------------------------------------------
Opening == <<"function", "id", "(", ")", "{">>
Closing == <<";", "}">>
StatementTokens == {"id", "uint", "num", ".", "[", "]", "(", ")", ",", "-", "=", "memory"}
InFunction(s) == Opening \o s \o Closing
StatementIn(source) == SubSeq(source, Len(Opening) + 1, Len(source) - Len(Closing))

\* A simple statement is accepted if and only if it is one: the decision between
\* declarations and expressions, made from two tokens or behind a path with indices, never
\* goes wrong, with and without recovery from errors.
AcceptsSimpleStatements ==
    LET source == sources[1]  s == StatementIn(source) IN
    stack = <<>> /\ Len(sources) = 1 /\ source = InFunction(s) /\ (\A i \in DOMAIN s : s[i] \in StatementTokens)
        => (errors = 0 <=> IsSimpleStatement(s))

\* The trees of a source without errors are the expressions that were written: printed, they
\* occur in the source, and no operator has an operand that binds less tightly than itself.
TreesAsWritten ==
    \A i \in DOMAIN results : results[i].ast /\ results[i].errors = 0 =>
        \A j \in DOMAIN results[i].trees :
            LET t == results[i].trees[j]  w == Written(t) IN
            /\ IsTree(t)
            /\ \E k \in 1..Len(sources[i]) - Len(w) + 1 : SubSeq(sources[i], k, k + Len(w) - 1) = w
=============================================================================
