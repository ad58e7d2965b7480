------------------------- MODULE MCFunctionCodegen -------------------------
(***************************************************************************)
(* Functions for FunctionCodegen: every way to leave a block (break,       *)
(* continue, return, to fall out of it) out of every statement that opens  *)
(* a scope, twice nested, with variables of one and of two slots on the    *)
(* stack, under modifiers with parameters, variables and two placeholders. *)
(***************************************************************************)
EXTENDS FunctionCodegen

Wide == <<"z1", "z2", "z3", "z4", "z5", "z6", "z7", "z8">>
MCVars == {"p", "q", "r", "s", "x", "y", "e", "u"} \cup ToSet(Wide)
MCMarks == {"m", "n", "o"}

Var(name, size, init) == [name |-> name, size |-> size, init |-> init]
P == Var("p", 1, TRUE)
Q == Var("q", 2, TRUE)
R == Var("r", 1, FALSE)
S == Var("s", 2, FALSE)
X == Var("x", 1, FALSE)
Y == Var("y", 2, TRUE)
E == Var("e", 1, TRUE)
U == Var("u", 1, TRUE)

block(id, body) == [kind |-> "block", id |-> id, body |-> body]
declare(x) == [kind |-> "declare", vars |-> <<x>>, init |-> x.init]
declareBoth(x, y) == [kind |-> "declare", vars |-> <<x, y>>, init |-> x.init]
eval(m) == [kind |-> "eval", mark |-> m]
use(x) == [kind |-> "use", var |-> x]
iff(a) == [kind |-> "if", then |-> a, else |-> <<>>]
ifelse(a, b) == [kind |-> "if", then |-> a, else |-> <<b>>]
while(a) == [kind |-> "while", body |-> a]
dowhile(a) == [kind |-> "dowhile", body |-> a]
for(id, init, cond, a, next) ==
    [kind |-> "for", id |-> id, init |-> init, cond |-> cond, body |-> a, next |-> next]
break == [kind |-> "break"]
continue == [kind |-> "continue"]
return(v) == [kind |-> "return", value |-> v]
placeholder == [kind |-> "placeholder"]
clause(xs, a) == [params |-> xs, block |-> a]
try(xs, success, error, panic, fallback) ==
    [kind |-> "try", returns |-> xs, success |-> success, error |-> error, panic |-> panic,
     fallback |-> fallback]

\* Ways to leave, guarded and not.
Leaving(inLoop) == {return(TRUE), return(FALSE)} \cup (IF inLoop THEN {break, continue} ELSE {})

\* A block with a variable and a leaving statement.
Inner(id, l) == block(id, <<declare(Y), iff(l), use(Y), l>>)
InnerElse(id, l) == block(id, <<declareBoth(Y, U), use(Y), use(U), ifelse(block("deep", <<declare(E), l>>), l), use(U)>>)

Catching(id, l) ==
    { try(<<Q>>, clause(<<>>, Inner(id, l)), <<>>, <<>>, <<>>),
      try(<<Q, E>>, clause(<<Q, E>>, block(id, <<use(Q), l>>)),
          <<clause(<<E>>, block("err", <<use(E), l>>))>>, <<>>, <<>>),
      try(<<>>, clause(<<>>, block(id, <<>>)),
          <<clause(<<E>>, block("err", <<use(E)>>))>>, <<clause(<<U>>, block("pan", <<l>>))>>,
          <<clause(<<E>>, block("any", <<declare(Y), l>>))>>),
      try(<<E>>, clause(<<E>>, block(id, <<l>>)),
          <<>>, <<clause(<<U>>, block("pan", <<use(U), l>>))>>, <<clause(<<>>, block("any", <<l>>))>>) }

Loops(id, a) ==
    { while(a), dowhile(a), for(id, <<declare(X)>>, TRUE, a, <<eval("n")>>),
      for(id, <<>>, FALSE, a, <<>>) }

\* Two levels of loops and try statements.
Bodies ==
    { block("body", <<declare(X), s, use(X)>>) :
        s \in UNION { Loops("loop", Inner("in", l)) \cup Loops("loop", InnerElse("in", l))
                        : l \in Leaving(TRUE) }
               \cup UNION { UNION { Loops("loop", block("in", <<declare(Y), t, use(Y)>>))
                              : t \in Catching("ok", l) } : l \in Leaving(TRUE) }
               \cup UNION { UNION { Loops("outer", w) : w \in Loops("loop", Inner("in", l)) }
                              : l \in {break, continue, return(TRUE)} }
               \cup UNION { Catching("ok", l) : l \in Leaving(FALSE) } }

Modifier(xs, body) == [isBase |-> FALSE, params |-> xs, body |-> block("mod", body)]
Base == [isBase |-> TRUE, params |-> <<>>, body |-> block("none", <<>>)]

Around == Modifier(<<P>>, <<declare(X), placeholder, use(X), eval("m")>>)
Twice == Modifier(<<>>, <<placeholder, declare(U), use(U), placeholder, eval("o")>>)
Early == Modifier(<<Q>>, <<iff(return(FALSE)), placeholder, use(Q)>>)

Make(kind, params, returns, modifiers, body) ==
    [kind |-> kind, params |-> params, returns |-> returns, modifiers |-> modifiers, body |-> body]

Short == block("body", <<use(P), declare(Y), iff(return(TRUE)), use(Y)>>)

\* k variables of two slots each, to get to the limit of the stack.
WideVars(k) == [i \in 1..k |-> Var(Wide[i], 2, TRUE)]
Deep(k, more) ==
    block("body", <<declare(X)>> \o [i \in 1..k |-> declare(WideVars(k)[i])] \o more
                    \o <<iff(return(TRUE)), use(X)>>)

MCPrograms ==
    { Make("function", <<>>, rs, <<>>, Deep(k, more)) :
        rs \in {<<>>, <<R>>, <<S>>}, k \in 6..8, more \in {<<>>, <<declare(U)>>} }
    \cup { Make("function", WideVars(k) \o ps, <<R>>, <<>>, block("body", <<>>)) :
        k \in {7, 8}, ps \in {<<>>, <<P>>} } \cup
    { Make("function", <<>>, <<R, S>>, <<>>, b) : b \in Bodies }
    \cup { Make("function", ps, rs, ms, Short) :
             ps \in {<<P>>, <<P, Q>>, <<Q, P>>}, rs \in {<<>>, <<R>>, <<S, R>>},
             ms \in {<<>>, <<Around>>, <<Around, Around>>, <<Twice, Around>>, <<Early>>,
                     <<Early, Twice>>} }
    \cup { Make("constructor", ps, <<>>, ms, Short) : ps \in {<<P>>, <<P, Q>>},
             ms \in {<<Base>>, <<Base, Around>>, <<Twice>>} }
    \cup { Make("fallback", <<Q>>, <<R>>, ms, block("body", <<declare(X), iff(return(TRUE)), use(X)>>)) :
             ms \in {<<>>, <<Twice>>} }
    \cup { Make("receive", <<>>, <<>>, ms, block("body", <<declare(X), iff(return(FALSE)), use(X)>>)) :
             ms \in {<<>>, <<Around, Twice>>} }

\* The statements of the programs.
RECURSIVE Within(_), Ids(_)
Within(s) == {s} \cup UNION {Within(c) : c \in Parts(s)}
Ids(s) == (IF s.kind \in {"block", "for"} THEN {s.id} ELSE {}) \cup UNION {Ids(c) : c \in Parts(s)}

MCStatements ==
    UNION {UNION {Within(b) : b \in {f.body} \cup {m.body : m \in ToSet(f.modifiers)}} : f \in MCPrograms}
MCScopesIn == [s \in MCStatements |-> Ids(s)]
=============================================================================
