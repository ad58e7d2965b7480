---------------------------- MODULE MCAssembler ----------------------------
(***************************************************************************)
(* Three assemblies: 3 is the creation code, 2 its runtime code and 1 the  *)
(* code of another contract that either of them creates.  The sizes lie    *)
(* around the limits of one and of two bytes.                              *)
(***************************************************************************)
EXTENDS Assembler

MCTags == {"t", "u"}
MCImmutables == {"v", "w", "x", "y", "z"}
MCLibraries == {<<"f", "L">>, <<"g", "L">>, <<"M">>}
MCAddresses == {<<"f", "L">>, <<"L">>, <<"M">>}

op(n) == [kind |-> "op", n |-> n]
tag(t) == [kind |-> "tag", of |-> t]
push(w) == [kind |-> "push", width |-> w]
pushTag(s, t) == [kind |-> "pushTag", sub |-> s, of |-> t]
pushSub(p) == [kind |-> "pushSub", path |-> p]
pushSubSize(p) == [kind |-> "pushSubSize", path |-> p]
programSize == [kind |-> "pushProgramSize"]
pushData(d) == [kind |-> "pushData", of |-> d]
library(l) == [kind |-> "pushLibrary", of |-> l]
immutable(v) == [kind |-> "pushImmutable", of |-> v]
assign(v) == [kind |-> "assignImmutable", of |-> v]
deployTime == [kind |-> "pushDeployTime"]

Make(i1, i2, i3, s2, s3, data, aux) ==
    [ items |-> <<i1, i2, i3>>,
      subs  |-> <<<<>>, s2, s3>>,
      paths |-> <<<<>>, <<>>, <<<<1, 1>>>>>>,
      data  |-> <<<<>>, data, <<>>>>,
      aux   |-> <<0, aux, 0>> ]

Small == 1..3
Edge == 246..256
Large == {5, 200, 65500}

\* Code with a loop and a use of a library.
Other(n) == <<pushTag(0, "t"), op(n), library(<<"g", "L">>), tag("t"), deployTime, push(0), push(2)>>

\* Runtime code that creates the other contract and reads an immutable.
Runtime(n, more) ==
    <<pushTag(0, "t"), op(n), tag("u"), pushSub(<<1>>), pushSubSize(<<1>>), library(<<"f", "L">>)>>
      \o more \o <<tag("t"), pushTag(0, "u")>>

\* Creation code that deploys the runtime code and refers to a tag in it.
Creation(n, more) ==
    <<op(n), pushTag(1, "u"), pushTag(0, "t"), tag("t"), programSize, pushSubSize(<<1>>), pushSub(<<1>>)>> \o more

Plain == { Make(Other(a), Runtime(b, <<>>), Creation(c, <<>>), <<1>>, <<2>>, <<>>, 43) :
             a \in Large, b \in Large, c \in Small \cup Edge }

\* The last tag at the limits of one and of two bytes, behind many references.
Limits ==
    { Make(<<pushTag(0, "t"), pushTag(0, "u"), pushTag(0, "u"), pushTag(0, "t"), tag("u"), op(a), tag("t")>>,
           Runtime(b, <<>>), Creation(3, <<>>), <<1>>, <<2>>, <<>>, 43) :
        a \in (240..258) \cup (65515..65535), b \in {5, 230} }

\* Data, once referred to twice and once not at all.
Data == { Make(Other(5), Runtime(a, <<pushData("d"), pushData("d")>>), Creation(c, <<>>), <<1>>, <<2>>,
               <<[name |-> "d", size |-> s], [name |-> "e", size |-> 40]>>, x) :
             a \in {5, 130, 140, 150, 160}, s \in {0, 30, 300}, c \in {3, 250}, x \in {0, 43} }

\* Immutables, read twice, read once or not, assigned or not.
Immutable ==
    { Make(Other(5), Runtime(a, r), Creation(c, w), <<1>>, <<2>>, <<>>, 0) :
        a \in {5, 300}, c \in {3, 200}, r \in {<<>>, <<immutable("v")>>, <<immutable("v"), immutable("w"), immutable("v")>>},
        w \in {<<>>, <<assign("v")>>, <<assign("v"), assign("w")>>, <<immutable("w")>>} }

\* Another contract created by both, through the runtime code and twice.
Nested ==
    { Make(Other(a), Runtime(b, <<library(<<"M">>)>>), Creation(c, more), <<1>>, s3, <<>>, 43) :
        a \in {5, 230}, b \in {5, 65300}, c \in {3, 245},
        s3 \in {<<2, 1>>}, more \in {<<pushSub(<<2>>)>>, <<pushSub(<<1, 1>>), pushSub(<<2>>)>>,
                                     <<pushSub(<<2>>), pushSub(<<2>>), library(<<"f", "L">>)>>} }

\* Assemblies that are wrong.
Faulty ==
    { Make(Other(5), Runtime(5, more), Creation(3, <<>>), <<1>>, <<2>>, <<>>, 0) :
        more \in {<<tag("t")>>, <<pushTag(1, "u")>>} }
    \cup { Make(<<immutable("v")>>, <<tag("u"), immutable("w")>>, Creation(3, more), <<>>, <<2, 1>>, <<>>, 0) :
        more \in {<<assign("v"), assign("w")>>} }

\* Assemblies that outgrow their estimate: by immutables that are assigned and
\* never read, by references wider than the tags, and by copies of one
\* subassembly or of a nested one.
Unread == <<assign("v"), assign("w"), assign("x"), assign("y"), assign("z")>>
Outgrowing ==
    { Make(<<op(5)>>, <<pushTag(0, "t"), op(n)>> \o Unread \o <<tag("t"), pushSub(<<1>>)>>,
           Creation(3, <<>>), <<1>>, <<2>>, <<>>, x) : n \in 230..246, x \in {0, 1, 43} }
    \cup { Make(<<op(65500)>>, <<pushTag(0, "t"), op(n), pushSub(<<1>>), pushSub(<<1>>), tag("t"), programSize>>,
               Creation(3, <<>>), <<1>>, <<2>>, <<>>, 0) : n \in 236..250 }
    \cup { Make(<<op(s)>>, <<op(5), pushSub(<<1>>)>>,
               <<op(3), pushSub(p), pushSub(<<1>>), pushSub(p), programSize>>, <<1>>, <<2>>, <<>>, 0) :
               s \in {5, 50, 100, 20000}, p \in {<<1>>, <<1, 1>>} }

MCPrograms == Plain \cup Limits \cup Data \cup Immutable \cup Nested \cup Faulty \cup Outgrowing
=============================================================================
