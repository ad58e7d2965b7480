-------------------------- MODULE AssemblerProofs --------------------------
(***************************************************************************)
(* For every set of assemblies: the copies of a subassembly are faithful   *)
(* and the link references are exactly the uses of libraries, before and   *)
(* after linking.                                                          *)
(*                                                                         *)
(* Both rest on the order of assemble: a subassembly is complete before    *)
(* something refers to it, the bytecode only grows at its end, and what is *)
(* filled in later are fields of the assembly itself.                      *)
(***************************************************************************)
EXTENDS Assembler, FiniteSetTheorems, TLAPS

-----------------------------------------------------------------------------
(***************************************************************************)
(* Objects.                                                                *)
(***************************************************************************)
IsField(f) ==
    /\ f = [pos |-> f.pos, len |-> f.len, node |-> f.node, is |-> f.is, val |-> f.val]
    /\ f.pos \in Nat \ {0} /\ f.len \in Nat /\ f.node \in Nat

IsCopy(c) == c = [pos |-> c.pos, is |-> c.is] /\ c.pos \in Nat

IsObject(o) ==
    /\ o = [size |-> o.size, fields |-> o.fields, jumpdests |-> o.jumpdests, copies |-> o.copies,
            links |-> o.links, immutables |-> o.immutables, linked |-> o.linked]
    /\ o.size \in Nat

\* The fields lie in the object and begin at different places, and the uses of
\* libraries are linked to.
Sound(o) ==
    /\ IsObject(o)
    /\ \A f \in o.fields : IsField(f) /\ f.pos + f.len <= o.size
    /\ \A f, g \in o.fields : f.pos = g.pos => f = g
    /\ \A c \in o.copies : IsCopy(c)
    /\ o.links = LibraryFields(o)
    /\ o.linked = {}
    /\ IsFiniteSet(o.immutables)

\* The object o of assembly n has fields of assemblies up to n, and faithful
\* copies of objects obj[m] that are complete, which is the case for m in D.
Good(o, n, obj, D) ==
    /\ Sound(o)
    /\ \A f \in o.fields : f.node <= n
    /\ \A c \in o.copies : c.is[1] = "sub" =>
          c.is[2] \in D /\ c.is[2] < n /\ Faithful(o, c.pos, obj[c.is[2]])

-----------------------------------------------------------------------------
(***************************************************************************)
(* The inductive invariant: an assembly is started when its subassemblies  *)
(* are complete, ...                                                       *)
(***************************************************************************)
Busy == {"items", "subs", "data"}

ControlInv ==
    /\ program \in Programs
    /\ done \subseteq Nodes /\ Closed(program, done)
    /\ item \in Nat \ {0}
    /\ bytesPerTag \in Nat /\ bytesPerDataRef \in Nat
    /\ step \in Busy => cur \in Nodes \ done /\ ToSet(Subs(cur)) \subseteq done

\* ... the objects are good, and a reference to a subassembly leads to one that
\* is complete, ...
Aims(o, n) == \A f \in o.fields : f.node = n /\ f.is[1] = "sub" =>
                 Target(program, n, f.is[2]) \in Below(program, n)
ObjectInv ==
    /\ DOMAIN object = Nodes
    /\ \A n \in Nodes : Good(object[n], n, object, done) /\ Aims(object[n], n)

\* ... and what is linked was used.
LinkInv ==
    step = "assembled" => \A n \in Nodes :
        IsObject(contracts[n]) /\ LinkedExactly(contracts[n], LibraryFields(object[n]))

AInv == ControlInv /\ ObjectInv /\ LinkInv

-----------------------------------------------------------------------------
\* The number of bytes is bounded, whatever it is the number of.
LEMMA BytesRequiredType ==
  ASSUME NEW v
  PROVE  BytesRequired(v) \in 0..3
<1>1. \E w \in 0..3 : (w < 3 => v < Base^w) /\ (w > 0 => ~(v < Base^(w - 1)))
  <2>1. CASE v < Base^0
    BY <2>1
  <2>2. CASE ~(v < Base^0) /\ v < Base^1
    BY <2>2
  <2>3. CASE ~(v < Base^1) /\ v < Base^2
    BY <2>3
  <2>4. CASE ~(v < Base^2)
    BY <2>4
  <2> QED BY <2>1, <2>2, <2>3, <2>4
<1> QED BY <1>1 DEF BytesRequired, MaxWidth

\* A field that is moved, ...
LEMMA ShiftField ==
  ASSUME NEW f, IsField(f), NEW by \in Nat
  PROVE  LET g == [f EXCEPT !.pos = @ + by]
         IN IsField(g) /\ g.pos = f.pos + by /\ g.len = f.len /\ g.node = f.node /\ g.is = f.is /\ g.val = f.val
BY DEF IsField

\* ... or filled in.
LEMMA FillField ==
  ASSUME NEW f, IsField(f), NEW v
  PROVE  LET g == [f EXCEPT !.val = v]
         IN IsField(g) /\ g.pos = f.pos /\ g.len = f.len /\ g.node = f.node /\ g.is = f.is
BY DEF IsField

\* Moving twice is moving by the sum.
LEMMA ShiftTwice ==
  ASSUME NEW S, \A f \in S : IsField(f), NEW a \in Nat, NEW b \in Nat
  PROVE  Shifted(Shifted(S, a), b) = Shifted(S, a + b)
<1> DEFINE sh(f, by) == [f EXCEPT !.pos = @ + by]
<1>1. ASSUME NEW f \in S PROVE sh(sh(f, a), b) = sh(f, a + b)
  <2>1. \A by \in Nat : sh(f, by) = [pos |-> f.pos + by, len |-> f.len, node |-> f.node, is |-> f.is, val |-> f.val]
    BY DEF IsField
  <2>2. f.pos \in Nat
    BY DEF IsField
  <2>3. \A p, by : sh([pos |-> p, len |-> f.len, node |-> f.node, is |-> f.is, val |-> f.val], by)
                     = [pos |-> p + by, len |-> f.len, node |-> f.node, is |-> f.is, val |-> f.val]
    OBVIOUS
  <2> HIDE DEF sh
  <2>4. sh(sh(f, a), b) = [pos |-> (f.pos + a) + b, len |-> f.len, node |-> f.node, is |-> f.is, val |-> f.val]
    BY <2>1, <2>3
  <2>5. sh(f, a + b) = [pos |-> f.pos + (a + b), len |-> f.len, node |-> f.node, is |-> f.is, val |-> f.val]
    BY <2>1
  <2>6. (f.pos + a) + b = f.pos + (a + b)
    BY <2>2
  <2> QED BY <2>4, <2>5, <2>6
<1>2. \A T, by : Shifted(T, by) = {sh(f, by) : f \in T}
  BY DEF Shifted
<1> HIDE DEF sh
<1>3. \A x : x \in Shifted(Shifted(S, a), b) <=> \E f \in S : x = sh(sh(f, a), b)
  BY <1>2
<1>4. \A x : x \in Shifted(S, a + b) <=> \E f \in S : x = sh(f, a + b)
  BY <1>2
<1>5. \A x : x \in Shifted(Shifted(S, a), b) <=> x \in Shifted(S, a + b)
  BY <1>1, <1>3, <1>4
<1> QED BY <1>5

\* An object that gets longer, with other copies than of subassemblies.
LEMMA GoodLonger ==
  ASSUME NEW o, NEW n, NEW obj, NEW D, Good(o, n, obj, D), \A m \in D : obj[m].size \in Nat,
         NEW q, IsObject(q), q.size >= o.size, q.fields = o.fields,
         q.links = o.links, q.linked = o.linked, q.immutables = o.immutables,
         \A c \in q.copies : c \in o.copies \/ (IsCopy(c) /\ c.is[1] # "sub")
  PROVE  Good(q, n, obj, D)
<1>1. Sound(o) /\ o.size \in Nat /\ q.size \in Nat
  BY DEF Good, Sound, IsObject
<1>2. Sound(q)
  <2>1. \A f \in q.fields : IsField(f) /\ f.pos + f.len <= q.size
    <3> SUFFICES ASSUME NEW f \in q.fields PROVE IsField(f) /\ f.pos + f.len <= q.size
      OBVIOUS
    <3>1. IsField(f) /\ f.pos + f.len <= o.size
      BY <1>1 DEF Sound
    <3> QED BY <1>1, <3>1 DEF IsField
  <2>2. LibraryFields(q) = LibraryFields(o)
    BY DEF LibraryFields
  <2> QED BY <1>1, <2>1, <2>2 DEF Sound
<1>3. ASSUME NEW c \in q.copies, c.is[1] = "sub"
      PROVE  c.is[2] \in D /\ c.is[2] < n /\ Faithful(q, c.pos, obj[c.is[2]])
  <2>1. c \in o.copies
    BY <1>3
  <2>2. c.is[2] \in D /\ c.is[2] < n /\ Faithful(o, c.pos, obj[c.is[2]])
    BY <1>3, <2>1 DEF Good
  <2>3. c.pos \in Nat /\ obj[c.is[2]].size \in Nat
    BY <1>1, <2>1, <2>2 DEF Sound, IsCopy
  <2> QED BY <1>1, <2>2, <2>3 DEF Faithful
<1> QED BY <1>2, <1>3 DEF Good

\* The uses of libraries in an object.
LEMMA LibraryUse ==
  ASSUME NEW o, NEW x
  PROVE  x \in LibraryFields(o) <=>
            \E f \in o.fields : f.is[1] = "library" /\ x = [pos |-> f.pos, of |-> f.is[2]]
BY DEF LibraryFields

\* A push instruction at the end.
LEMMA GoodField ==
  ASSUME NEW o, NEW n \in Nat, NEW obj, NEW D, Good(o, n, obj, D), \A m \in D : obj[m].size \in Nat,
         NEW f, IsField(f), f.pos = o.size + 1, f.node = n,
         NEW q, IsObject(q), q.size = o.size + 1 + f.len, q.fields = o.fields \cup {f},
         q.copies = o.copies, q.linked = o.linked, IsFiniteSet(q.immutables),
         q.links = o.links \cup (IF f.is[1] = "library" THEN {[pos |-> f.pos, of |-> f.is[2]]} ELSE {})
  PROVE  Good(q, n, obj, D)
<1>1. Sound(o) /\ o.size \in Nat /\ q.size \in Nat /\ f.len \in Nat
  BY DEF Good, Sound, IsObject, IsField
<1>2. \A g \in o.fields : IsField(g) /\ g.pos \in Nat /\ g.len \in Nat /\ g.pos + g.len <= o.size
  BY <1>1 DEF Sound, IsField
<1>3. Sound(q)
  <2>1. \A g \in q.fields : IsField(g) /\ g.pos + g.len <= q.size
    BY <1>1, <1>2
  <2>2. \A g \in o.fields : g.pos # f.pos
    BY <1>1, <1>2
  <2>3. \A g, h \in q.fields : g.pos = h.pos => g = h
    BY <1>1, <2>2 DEF Sound
  <2>4. LibraryFields(q) = q.links
    <3>1. LibraryFields(o) = o.links
      BY <1>1 DEF Sound
    <3> QED BY <3>1 DEF LibraryFields
  <2> QED BY <1>1, <2>1, <2>3, <2>4 DEF Sound
<1>4. \A g \in q.fields : g.node <= n
  BY DEF Good
<1>5. ASSUME NEW c \in q.copies, c.is[1] = "sub"
      PROVE  c.is[2] \in D /\ c.is[2] < n /\ Faithful(q, c.pos, obj[c.is[2]])
  <2>1. c.is[2] \in D /\ c.is[2] < n /\ Faithful(o, c.pos, obj[c.is[2]])
    BY <1>5 DEF Good
  <2>2. c.pos \in Nat /\ obj[c.is[2]].size \in Nat
    BY <1>1, <1>5, <2>1 DEF Sound, IsCopy
  <2>3. c.pos + obj[c.is[2]].size <= o.size
    BY <2>1 DEF Faithful
  <2>4. ~Overlaps(f, c.pos, obj[c.is[2]].size)
    BY <1>1, <2>2, <2>3 DEF Overlaps
  <2>5. {g \in q.fields : Overlaps(g, c.pos, obj[c.is[2]].size)} = {g \in o.fields : Overlaps(g, c.pos, obj[c.is[2]].size)}
    BY <2>4
  <2> QED BY <1>1, <2>1, <2>2, <2>3, <2>5 DEF Faithful
<1> QED BY <1>3, <1>4, <1>5 DEF Good

\* Fields of the assembly itself that are filled in.
Known(obj, D) == \A m \in D : /\ obj[m].size \in Nat /\ m \in Nat
                               /\ \A f \in obj[m].fields : IsField(f) /\ f.node <= m
OwnFields(F, o, n) == F \subseteq o.fields /\ \A f \in F : f.node = n
Filled(F, w) == {[f EXCEPT !.val = w[f]] : f \in F}
LEMMA GoodFilled ==
  ASSUME NEW o, NEW n \in Nat, NEW obj, NEW D, Good(o, n, obj, D),
         Known(obj, D),
         NEW F, OwnFields(F, o, n), NEW w,
         NEW q, IsObject(q), q.size = o.size,
         q.fields = (o.fields \ F) \cup Filled(F, w),
         q.copies = o.copies, q.links = o.links, q.linked = o.linked, q.immutables = o.immutables
  PROVE  /\ Good(q, n, obj, D)
         /\ \A g \in q.fields : \E f \in o.fields : g.node = f.node /\ g.is = f.is
<1> DEFINE fill(f) == [f EXCEPT !.val = w[f]]
<1>1. Sound(o) /\ o.size \in Nat
  BY DEF Good, Sound, IsObject
<1>0. F \subseteq o.fields /\ \A f \in F : f.node = n
  BY DEF OwnFields
<1>2. \A f \in o.fields : IsField(f) /\ f.pos \in Nat /\ f.len \in Nat /\ f.pos + f.len <= o.size /\ f.node \in Nat
  BY <1>1 DEF Sound, IsField
<1>3. ASSUME NEW f \in F
      PROVE  IsField(fill(f)) /\ fill(f).pos = f.pos /\ fill(f).len = f.len /\ fill(f).node = f.node /\ fill(f).is = f.is
  BY <1>0, <1>2, FillField
<1>4. q.fields = (o.fields \ F) \cup {fill(f) : f \in F}
  BY DEF Filled
<1> HIDE DEF fill
<1>5. ASSUME NEW g \in q.fields
      PROVE  \E f \in o.fields : /\ IsField(g) /\ g.pos = f.pos /\ g.len = f.len /\ g.node = f.node /\ g.is = f.is
                                 /\ g = IF f \in F THEN fill(f) ELSE f
  BY <1>0, <1>2, <1>3, <1>4
<1>6. Sound(q)
  <2>1. \A g \in q.fields : IsField(g) /\ g.pos + g.len <= q.size
    <3> SUFFICES ASSUME NEW g \in q.fields PROVE IsField(g) /\ g.pos + g.len <= q.size
      OBVIOUS
    <3>1. PICK f \in o.fields : IsField(g) /\ g.pos = f.pos /\ g.len = f.len
      BY <1>5
    <3> QED BY <1>2, <3>1
  <2>2. \A g, h \in q.fields : g.pos = h.pos => g = h
    <3> SUFFICES ASSUME NEW g \in q.fields, NEW h \in q.fields, g.pos = h.pos PROVE g = h
      OBVIOUS
    <3>1. PICK f \in o.fields : g.pos = f.pos /\ g = IF f \in F THEN fill(f) ELSE f
      BY <1>5
    <3>2. PICK e \in o.fields : h.pos = e.pos /\ h = IF e \in F THEN fill(e) ELSE e
      BY <1>5
    <3>3. e = f
      BY <1>1, <3>1, <3>2 DEF Sound
    <3> QED BY <3>1, <3>2, <3>3
  <2>3. LibraryFields(q) = LibraryFields(o)
    <3>1. \A f \in o.fields : \E g \in q.fields : g.pos = f.pos /\ g.is = f.is
      BY <1>0, <1>3, <1>4
    <3>2. \A g \in q.fields : \E f \in o.fields : g.pos = f.pos /\ g.is = f.is
      BY <1>5
    <3>3. ASSUME NEW x \in LibraryFields(q) PROVE x \in LibraryFields(o)
      <4>1. PICK g \in q.fields : g.is[1] = "library" /\ x = [pos |-> g.pos, of |-> g.is[2]]
        BY LibraryUse
      <4>2. PICK f \in o.fields : g.pos = f.pos /\ g.is = f.is
        BY <3>2
      <4> QED BY <4>1, <4>2, LibraryUse
    <3>4. ASSUME NEW x \in LibraryFields(o) PROVE x \in LibraryFields(q)
      <4>1. PICK f \in o.fields : f.is[1] = "library" /\ x = [pos |-> f.pos, of |-> f.is[2]]
        BY LibraryUse
      <4>2. PICK g \in q.fields : g.pos = f.pos /\ g.is = f.is
        BY <3>1
      <4> QED BY <4>1, <4>2, LibraryUse
    <3> QED BY <3>3, <3>4
  <2> QED BY <1>1, <2>1, <2>2, <2>3 DEF Sound
<1>7. \A g \in q.fields : g.node <= n
  BY <1>5 DEF Good
<1>8. ASSUME NEW c \in q.copies, c.is[1] = "sub"
      PROVE  c.is[2] \in D /\ c.is[2] < n /\ Faithful(q, c.pos, obj[c.is[2]])
  <2> DEFINE sub == obj[c.is[2]]
             in(g) == Overlaps(g, c.pos, sub.size)
  <2>1. c.is[2] \in D /\ c.is[2] < n /\ Faithful(o, c.pos, sub)
    BY <1>8 DEF Good
  <2>2. c.pos \in Nat /\ sub.size \in Nat /\ c.is[2] \in Nat
    BY <1>1, <1>8, <2>1 DEF Sound, IsCopy, Known
  <2>3. {g \in o.fields : in(g)} = Shifted(sub.fields, c.pos)
    BY <2>1 DEF Faithful
  <2>4. \A g \in Shifted(sub.fields, c.pos) : g.node # n
    <3> SUFFICES ASSUME NEW f \in sub.fields PROVE [f EXCEPT !.pos = @ + c.pos].node # n
      BY DEF Shifted
    <3>1. IsField(f) /\ f.node <= c.is[2] /\ f.node \in Nat
      BY <2>1 DEF IsField, Known
    <3>2. [f EXCEPT !.pos = @ + c.pos].node = f.node
      BY <2>2, <3>1, ShiftField
    <3> QED BY <2>1, <2>2, <3>1, <3>2
  <2>5. \A f \in F : ~in(f)
    BY <1>0, <2>3, <2>4
  <2>6. \A f \in F : ~in(fill(f))
    BY <1>3, <2>5 DEF Overlaps
  <2> HIDE DEF in
  <2>7. {g \in q.fields : in(g)} = {g \in o.fields : in(g)}
    BY <1>0, <1>4, <2>5, <2>6
  <2> QED BY <2>1, <2>3, <2>7 DEF Faithful, in
<1>9. \A g \in q.fields : \E f \in o.fields : g.node = f.node /\ g.is = f.is
  BY <1>5
<1> QED BY <1>6, <1>7, <1>8, <1>9 DEF Good

\* A copy of a complete subassembly at the end.
LEMMA GoodAppended ==
  ASSUME NEW o, NEW n \in Nat, NEW obj, NEW D, Good(o, n, obj, D),
         NEW m \in D, m \in Nat, m < n, Good(obj[m], m, obj, D),
         Known(obj, D),
         NEW q, IsObject(q), q.size = o.size + obj[m].size,
         q.fields = o.fields \cup Shifted(obj[m].fields, o.size),
         q.copies = o.copies \cup Shifted(obj[m].copies, o.size) \cup {[pos |-> o.size, is |-> <<"sub", m>>]},
         q.links = o.links \cup Shifted(obj[m].links, o.size),
         q.linked = o.linked, q.immutables = o.immutables
  PROVE  /\ Good(q, n, obj, D)
         /\ \A g \in q.fields : g \in o.fields \/ g.node < n
<1> DEFINE x == obj[m]
           sh(f) == [f EXCEPT !.pos = @ + o.size]
<1> USE DEF Known
<1>1. Sound(o) /\ o.size \in Nat /\ q.size \in Nat /\ Sound(x) /\ x.size \in Nat
  BY DEF Good, Sound, IsObject
<1>2. \A f \in o.fields : IsField(f) /\ f.pos \in Nat \ {0} /\ f.len \in Nat /\ f.pos + f.len <= o.size /\ f.node \in Nat
  BY <1>1 DEF Sound, IsField
<1>3. \A f \in x.fields : IsField(f) /\ f.pos \in Nat \ {0} /\ f.len \in Nat /\ f.pos + f.len <= x.size
                          /\ f.node \in Nat /\ f.node <= m
  BY <1>1 DEF Sound, IsField, Good
<1>4. ASSUME NEW f \in x.fields
      PROVE  IsField(sh(f)) /\ sh(f).pos = f.pos + o.size /\ sh(f).len = f.len /\ sh(f).node = f.node /\ sh(f).is = f.is
  BY <1>1, <1>3, ShiftField
<1>5. Shifted(x.fields, o.size) = {sh(f) : f \in x.fields}
  BY DEF Shifted
<1> HIDE DEF sh
<1>6. q.fields = o.fields \cup {sh(f) : f \in x.fields}
  BY <1>5
<1>7. Sound(q)
  <2>1. \A g \in q.fields : IsField(g) /\ g.pos + g.len <= q.size
    <3>1. ASSUME NEW f \in o.fields PROVE IsField(f) /\ f.pos + f.len <= q.size
      BY <1>1, <1>2
    <3>2. ASSUME NEW f \in x.fields PROVE IsField(sh(f)) /\ sh(f).pos + sh(f).len <= q.size
      BY <1>1, <1>3, <1>4
    <3> QED BY <1>6, <3>1, <3>2
  <2>2. ASSUME NEW f \in o.fields, NEW g \in x.fields PROVE f.pos # sh(g).pos
    BY <1>1, <1>2, <1>3, <1>4
  <2>3. ASSUME NEW f \in x.fields, NEW g \in x.fields, sh(f).pos = sh(g).pos PROVE f = g
    <3>1. f.pos = g.pos
      BY <1>1, <1>3, <1>4, <2>3
    <3> QED BY <1>1, <3>1 DEF Sound
  <2>4. \A g, h \in q.fields : g.pos = h.pos => g = h
    <3> SUFFICES ASSUME NEW g \in q.fields, NEW h \in q.fields, g.pos = h.pos PROVE g = h
      OBVIOUS
    <3>1. CASE g \in o.fields /\ h \in o.fields
      BY <1>1, <3>1 DEF Sound
    <3>2. CASE g \in o.fields /\ h \notin o.fields
      BY <1>6, <2>2, <3>2
    <3>3. CASE g \notin o.fields /\ h \in o.fields
      BY <1>6, <2>2, <3>3
    <3>4. CASE g \notin o.fields /\ h \notin o.fields
      <4>1. PICK e \in x.fields, f \in x.fields : g = sh(e) /\ h = sh(f)
        BY <1>6, <3>4
      <4> QED BY <2>3, <4>1
    <3> QED BY <3>1, <3>2, <3>3, <3>4
  <2>5. \A c \in q.copies : IsCopy(c)
    <3>1. ASSUME NEW c \in x.copies PROVE IsCopy([c EXCEPT !.pos = @ + o.size])
      <4>1. IsCopy(c)
        BY <1>1 DEF Sound
      <4> QED BY <1>1, <4>1 DEF IsCopy
    <3>2. \A c \in o.copies : IsCopy(c)
      BY <1>1 DEF Sound
    <3>3. IsCopy([pos |-> o.size, is |-> <<"sub", m>>])
      BY <1>1 DEF IsCopy
    <3> QED BY <3>1, <3>2, <3>3 DEF Shifted
  <2>6. LibraryFields(q) = q.links
    <3>1. o.links = LibraryFields(o) /\ x.links = LibraryFields(x)
      BY <1>1 DEF Sound
    <3> DEFINE use(f) == [pos |-> f.pos, of |-> f.is[2]]
               su(u) == [u EXCEPT !.pos = @ + o.size]
    <3>2. ASSUME NEW f \in x.fields PROVE su(use(f)) = [pos |-> sh(f).pos, of |-> sh(f).is[2]]
      BY <1>4
    <3>3. Shifted(x.links, o.size) = {su(u) : u \in LibraryFields(x)}
      BY <3>1 DEF Shifted
    <3>x. \A u : u \in LibraryFields(x) <=> \E f \in x.fields : f.is[1] = "library" /\ u = use(f)
      BY LibraryUse
    <3> HIDE DEF use, su
    <3>y. \A u : u \in Shifted(x.links, o.size) <=> \E f \in x.fields : f.is[1] = "library" /\ u = su(use(f))
      BY <3>3, <3>x
    <3>4. \A u : u \in Shifted(x.links, o.size) <=>
             \E f \in x.fields : f.is[1] = "library" /\ u = [pos |-> sh(f).pos, of |-> sh(f).is[2]]
      BY <3>2, <3>y
    <3>5. \A u : u \in LibraryFields(q) <=> u \in LibraryFields(o) \cup Shifted(x.links, o.size)
      <4>1. \A u : u \in LibraryFields(q) <=>
               \/ \E f \in o.fields : f.is[1] = "library" /\ u = [pos |-> f.pos, of |-> f.is[2]]
               \/ \E f \in x.fields : sh(f).is[1] = "library" /\ u = [pos |-> sh(f).pos, of |-> sh(f).is[2]]
        BY <1>6, LibraryUse
      <4> QED BY <1>4, <3>4, <4>1, LibraryUse
    <3> QED BY <3>1, <3>5
  <2> QED BY <1>1, <2>1, <2>4, <2>5, <2>6 DEF Sound
<1>8. \A g \in q.fields : g \in o.fields \/ g.node < n
  BY <1>3, <1>4, <1>6
<1>9. \A g \in q.fields : g.node <= n
  <2>1. \A g \in q.fields : g.node \in Nat
    BY <1>2, <1>3, <1>4, <1>6
  <2> QED BY <1>8, <2>1 DEF Good
\* A copy that was there before, ...
<1>10. ASSUME NEW c \in o.copies, c.is[1] = "sub"
       PROVE  c.is[2] \in D /\ c.is[2] < n /\ Faithful(q, c.pos, obj[c.is[2]])
  <2> DEFINE sub == obj[c.is[2]]
  <2>1. c.is[2] \in D /\ c.is[2] < n /\ Faithful(o, c.pos, sub)
    BY <1>10 DEF Good
  <2>2. c.pos \in Nat /\ sub.size \in Nat /\ c.pos + sub.size <= o.size
    BY <1>1, <1>10, <2>1 DEF Sound, IsCopy, Faithful
  <2>3. ASSUME NEW f \in x.fields PROVE ~Overlaps(sh(f), c.pos, sub.size)
    BY <1>1, <1>3, <1>4, <2>2 DEF Overlaps
  <2>4. {g \in q.fields : Overlaps(g, c.pos, sub.size)} = {g \in o.fields : Overlaps(g, c.pos, sub.size)}
    BY <1>6, <2>3
  <2>5. {g \in q.fields : Overlaps(g, c.pos, sub.size)} = Shifted(sub.fields, c.pos)
    BY <2>1, <2>4 DEF Faithful
  <2>6. c.pos + sub.size <= q.size
    BY <1>1, <2>2
  <2> QED BY <2>1, <2>5, <2>6 DEF Faithful
\* ... one within the new one, ...
<1>11. ASSUME NEW d \in x.copies, d.is[1] = "sub"
       PROVE  d.is[2] \in D /\ d.is[2] < n /\ Faithful(q, d.pos + o.size, obj[d.is[2]])
  <2> DEFINE sub == obj[d.is[2]]
  <2>1. d.is[2] \in D /\ d.is[2] < m /\ Faithful(x, d.pos, sub)
    BY <1>11 DEF Good
  <2>2. d.pos \in Nat /\ sub.size \in Nat /\ d.pos + sub.size <= x.size /\ \A f \in sub.fields : IsField(f)
    BY <1>1, <1>11, <2>1 DEF Sound, IsCopy, Faithful
  <2>3. ASSUME NEW f \in o.fields PROVE ~Overlaps(f, d.pos + o.size, sub.size)
    BY <1>1, <1>2, <2>2 DEF Overlaps
  <2>4. ASSUME NEW f \in x.fields
        PROVE  Overlaps(sh(f), d.pos + o.size, sub.size) <=> Overlaps(f, d.pos, sub.size)
    BY <1>1, <1>3, <1>4, <2>2 DEF Overlaps
  <2>5. {g \in q.fields : Overlaps(g, d.pos + o.size, sub.size)} = {sh(f) : f \in {h \in x.fields : Overlaps(h, d.pos, sub.size)}}
    BY <1>6, <2>3, <2>4
  <2>6. {sh(f) : f \in {h \in x.fields : Overlaps(h, d.pos, sub.size)}} = Shifted(Shifted(sub.fields, d.pos), o.size)
    BY <2>1 DEF Faithful, Shifted, sh
  <2>7. Shifted(Shifted(sub.fields, d.pos), o.size) = Shifted(sub.fields, d.pos + o.size)
    BY <1>1, <2>2, ShiftTwice
  <2>8. d.is[2] < n
    <3>1. d.is[2] \in Nat
      BY <2>1
    <3> QED BY <2>1, <3>1
  <2>9. (d.pos + o.size) + sub.size <= q.size
    BY <1>1, <2>2
  <2>10. {g \in q.fields : Overlaps(g, d.pos + o.size, sub.size)} = Shifted(sub.fields, d.pos + o.size)
    BY <2>5, <2>6, <2>7
  <2> QED BY <2>1, <2>8, <2>9, <2>10 DEF Faithful
\* ... and the new one.
<1>12. Faithful(q, o.size, x)
  <2>1. ASSUME NEW f \in o.fields PROVE ~Overlaps(f, o.size, x.size)
    BY <1>1, <1>2 DEF Overlaps
  <2>2. ASSUME NEW f \in x.fields PROVE Overlaps(sh(f), o.size, x.size)
    BY <1>1, <1>3, <1>4 DEF Overlaps
  <2>3. {g \in q.fields : Overlaps(g, o.size, x.size)} = {sh(f) : f \in x.fields}
    BY <1>6, <2>1, <2>2
  <2> QED BY <1>1, <1>5, <2>3 DEF Faithful
<1>13. ASSUME NEW c \in q.copies, c.is[1] = "sub"
       PROVE  c.is[2] \in D /\ c.is[2] < n /\ Faithful(q, c.pos, obj[c.is[2]])
  <2>1. CASE c \in o.copies
    BY <1>10, <1>13, <2>1
  <2>2. CASE c \in Shifted(x.copies, o.size)
    <3>1. PICK d \in x.copies : c = [d EXCEPT !.pos = @ + o.size]
      BY <2>2 DEF Shifted
    <3>2. IsCopy(d)
      BY <1>1 DEF Sound
    <3>3. c.pos = d.pos + o.size /\ c.is = d.is
      BY <3>1, <3>2 DEF IsCopy
    <3> QED BY <1>11, <1>13, <3>3
  <2>3. CASE c = [pos |-> o.size, is |-> <<"sub", m>>]
    BY <1>12, <2>3
  <2> QED BY <2>1, <2>2, <2>3
<1> QED BY <1>7, <1>8, <1>9, <1>13 DEF Good

-----------------------------------------------------------------------------
(***************************************************************************)
(* The assemblies.                                                         *)
(***************************************************************************)
\* What the programs are like.
LEMMA ProgramType ==
  ASSUME program \in Programs, NEW n \in Nodes
  PROVE  /\ Items(n) \in Seq(Item)
         /\ Subs(n) \in Seq(1..(n - 1))
         /\ program.data[n] \in Seq([name : STRING, size : Nat])
         /\ program.aux[n] \in Nat
         /\ \A i \in DOMAIN Items(n) :
               Items(n)[i].kind = "pushSub" => Target(program, n, Items(n)[i].path) \in Below(program, n)
BY ProgramsAssumption DEF Items, Subs

\* The subassemblies of an assembly have smaller numbers, ...
LEMMA SubsSmaller ==
  ASSUME program \in Programs, NEW n \in Nodes
  PROVE  ToSet(Subs(n)) \subseteq 1..(n - 1) /\ 1..(n - 1) \subseteq Nodes
<1>1. Subs(n) \in Seq(1..(n - 1)) /\ n \in Nat /\ n <= N /\ N \in Nat
  BY ProgramType, NAssumption DEF Nodes
<1>2. \A i \in DOMAIN Subs(n) : Subs(n)[i] \in 1..(n - 1)
  BY <1>1
<1> QED BY <1>1, <1>2 DEF ToSet, Nodes

\* ... and so has everything below; it is complete if they are.
LEMMA BelowSmaller ==
  ASSUME program \in Programs, NEW n \in Nodes, NEW m \in Below(program, n),
         NEW D \in SUBSET Nodes, Closed(program, D), ToSet(Subs(n)) \subseteq D
  PROVE  m \in Nodes /\ m \in D /\ m < n
<1>1. m \in Nodes /\ m \in D
  BY DEF Below, Subs
<1>2. ToSet(Subs(n)) \subseteq 1..(n - 1) /\ 1..(n - 1) \subseteq Nodes /\ n \in Nat
  BY SubsSmaller, NAssumption DEF Nodes
<1>3. Closed(program, 1..(n - 1))
  <2> SUFFICES ASSUME NEW k \in 1..(n - 1) PROVE ToSet(program.subs[k]) \subseteq 1..(n - 1)
    BY DEF Closed
  <2>1. k \in Nodes /\ k \in Nat /\ k < n
    BY <1>2
  <2>2. ToSet(Subs(k)) \subseteq 1..(k - 1)
    BY <2>1, SubsSmaller
  <2>3. 1..(k - 1) \subseteq 1..(n - 1)
    BY <1>2, <2>1
  <2> QED BY <2>2, <2>3 DEF Subs
<1>4. m \in 1..(n - 1)
  BY <1>2, <1>3 DEF Below, Subs
<1> QED BY <1>1, <1>2, <1>4

\* A finite set has finitely many images.
LEMMA ImageFinite ==
  ASSUME NEW S, IsFiniteSet(S), NEW f, DOMAIN f = S
  PROVE  IsFiniteSet({f[x] : x \in S})
<1> DEFINE T == {f[x] : x \in S}
           g == [x \in S |-> f[x]]
<1>1. g \in Surjection(S, T)
  BY DEF Surjection
<1> QED BY <1>1, FS_Surjection

\* The code that assigns immutables has a length.
LEMMA AssignBytesType ==
  ASSUME program \in Programs, cur \in Nodes, NEW v,
         \A m \in Nodes : IsFiniteSet(object[m].immutables)
  PROVE  AssignBytes(v) \in Nat
<1> DEFINE offsets == IF v \in immutablesOfSub
                        THEN UNION {OffsetsOf(m, v) : m \in ToSet(Subs(cur))} ELSE {}
           bytes(p) == {p} \X (1..(5 + BytesRequired(p)))
           all == UNION {bytes(p) : p \in offsets}
<1>1. IsFiniteSet(offsets)
  <2>1. \A m \in Nodes : IsFiniteSet(OffsetsOf(m, v))
    <3> SUFFICES ASSUME NEW m \in Nodes PROVE IsFiniteSet(OffsetsOf(m, v))
      OBVIOUS
    <3> DEFINE R == {x \in object[m].immutables : x.of = v}
               f == [r \in R |-> r.pos]
    <3>1. IsFiniteSet(R)
      BY FS_Subset
    <3>2. DOMAIN f = R /\ {f[r] : r \in R} = OffsetsOf(m, v)
      BY DEF OffsetsOf
    <3> HIDE DEF R, f
    <3>3. IsFiniteSet({f[r] : r \in R})
      BY <3>1, <3>2, ImageFinite
    <3> QED BY <3>2, <3>3
  <2>2. IsFiniteSet(ToSet(Subs(cur)))
    <3>1. ToSet(Subs(cur)) \subseteq 1..(cur - 1) /\ cur \in Int
      BY SubsSmaller, NAssumption DEF Nodes
    <3>2. IsFiniteSet(1..(cur - 1))
      BY <3>1, FS_Interval
    <3> QED BY <3>1, <3>2, FS_Subset
  <2>3. IsFiniteSet({OffsetsOf(m, v) : m \in ToSet(Subs(cur))})
    <3> DEFINE S == ToSet(Subs(cur))
               f == [m \in S |-> OffsetsOf(m, v)]
    <3>1. DOMAIN f = S /\ {f[m] : m \in S} = {OffsetsOf(m, v) : m \in S}
      OBVIOUS
    <3> HIDE DEF f
    <3>2. IsFiniteSet({f[m] : m \in S})
      BY <2>2, <3>1, ImageFinite
    <3> QED BY <3>1, <3>2
  <2>4. \A T \in {OffsetsOf(m, v) : m \in ToSet(Subs(cur))} : IsFiniteSet(T)
    BY <2>1, SubsSmaller
  <2>5. IsFiniteSet(UNION {OffsetsOf(m, v) : m \in ToSet(Subs(cur))})
    BY <2>3, <2>4, FS_UNION
  <2> QED BY <2>5, FS_EmptySet
<1> HIDE DEF offsets
<1>2. IsFiniteSet(all)
  <2>1. all \subseteq offsets \X (1..8)
    <3>1. \A p : 1..(5 + BytesRequired(p)) \subseteq 1..8
      BY BytesRequiredType
    <3> HIDE DEF bytes
    <3>2. ASSUME NEW p \in offsets PROVE bytes(p) \subseteq offsets \X (1..8)
      BY <3>1 DEF bytes
    <3> QED BY <3>2
  <2>2. IsFiniteSet(offsets \X (1..8))
    <3>1. IsFiniteSet(1..8)
      <4>1. \A a, b \in Int : IsFiniteSet(a..b)
        BY FS_Interval
      <4>2. 1 \in Int /\ 8 \in Int
        OBVIOUS
      <4> QED BY <4>1, <4>2
    <3> QED BY <1>1, <3>1, FS_Product
  <2> QED BY <2>1, <2>2, FS_Subset
<1>3. ASSUME offsets # {} PROVE Cardinality(all) \in Nat /\ Cardinality(all) >= 2
  <2>1. PICK p \in offsets : TRUE
    BY <1>3
  <2>2. <<p, 1>> \in all /\ <<p, 2>> \in all
    <3>1. 1 \in 1..(5 + BytesRequired(p)) /\ 2 \in 1..(5 + BytesRequired(p))
      BY BytesRequiredType
    <3>2. <<p, 1>> \in bytes(p) /\ <<p, 2>> \in bytes(p)
      BY <3>1
    <3> HIDE DEF bytes
    <3> QED BY <3>2
  <2> HIDE DEF all
  <2>3. Cardinality(all) \in Nat
    BY <1>2, FS_CardinalityType
  <2>4. Cardinality(all) # 0
    BY <1>2, <2>2, FS_EmptySet
  <2>5. Cardinality(all) # 1
    <3>1. ASSUME NEW x, all = {x} PROVE FALSE
      BY <2>2, <3>1
    <3> QED BY <1>2, <3>1, FS_Singleton
  <2> QED BY <2>3, <2>4, <2>5
<1>4. AssignBytes(v) = IF offsets = {} THEN 2 ELSE Cardinality(all) - 2
  BY DEF AssignBytes, offsets
<1> HIDE DEF all
<1> QED BY <1>3, <1>4

\* Other objects that are the same where it matters.
LEMMA GoodSame ==
  ASSUME NEW o, NEW n, NEW obj, NEW D, Good(o, n, obj, D), NEW obj2, NEW D2,
         D \subseteq D2, \A m \in D : obj2[m] = obj[m]
  PROVE  Good(o, n, obj2, D2)
BY DEF Good

\* The assembly under way and the complete ones.
LEMMA Current ==
  ASSUME AInv, step \in Busy
  PROVE  /\ cur \in Nodes /\ cur \in Nat /\ cur \notin done
         /\ Good(Obj, cur, object, done) /\ Aims(Obj, cur) /\ IsObject(Obj) /\ Sound(Obj)
         /\ \A m \in done : /\ m \in Nat /\ Good(object[m], m, object, done) /\ object[m].size \in Nat
                            /\ \A f \in object[m].fields : IsField(f) /\ f.node <= m
<1>1. Nodes \subseteq Nat
  BY DEF Nodes
<1>2. cur \in Nodes /\ cur \notin done /\ done \subseteq Nodes
  BY DEF AInv, ControlInv
<1>3. \A m \in Nodes : Good(object[m], m, object, done) /\ Aims(object[m], m)
  BY DEF AInv, ObjectInv
<1>4. \A m \in Nodes : object[m].size \in Nat /\ \A f \in object[m].fields : IsField(f) /\ f.node <= m
  BY <1>3 DEF Good, Sound, IsObject
<1> QED BY <1>1, <1>2, <1>3, <1>4 DEF Obj, Good, Sound

\* A step that replaces the object under way by a good one.
LEMMA GrowInv ==
  ASSUME AInv, step \in Busy, NEW q, Good(q, cur, object, done), Aims(q, cur),
         Grow(q), program' = program
  PROVE  /\ DOMAIN object' = Nodes
         /\ \A n \in Nodes : Good(object'[n], n, object', done) /\ Aims(object[n], n)'
<1>1. cur \in Nodes /\ cur \notin done /\ done \subseteq Nodes /\ DOMAIN object = Nodes
  BY DEF AInv, ControlInv, ObjectInv
<1>2. /\ DOMAIN object' = Nodes /\ object'[cur] = q
      /\ \A n \in Nodes : n # cur => object'[n] = object[n]
  BY <1>1 DEF Grow
<1>3. \A m \in done : object'[m] = object[m]
  BY <1>1, <1>2
<1>4. ASSUME NEW n \in Nodes PROVE Good(object'[n], n, object, done) /\ Aims(object'[n], n)
  BY <1>2 DEF AInv, ObjectInv
<1>5. \A n \in Nodes : Good(object'[n], n, object', done)
  BY <1>3, <1>4, GoodSame
<1>6. \A n \in Nodes : Aims(object[n], n)'
  <2>1. ASSUME NEW o, NEW n, Aims(o, n) PROVE Aims(o, n)'
    BY <2>1 DEF Aims
  <2> QED BY <1>4, <2>1
<1> QED BY <1>2, <1>5, <1>6

\* The invariant after such a step that leaves the other variables alone.
LEMMA GrowStep ==
  ASSUME AInv, step \in Busy, NEW q, Good(q, cur, object, done), Aims(q, cur), Grow(q),
         UNCHANGED <<program, done, cur, bytesPerTag, bytesPerDataRef>>,
         step' \in Busy, item' \in Nat \ {0}
  PROVE  AInv'
<1>1. ObjectInv'
  BY GrowInv DEF ObjectInv
<1>2. ControlInv'
  BY DEF AInv, ControlInv, Busy, Subs
<1>3. LinkInv'
  BY DEF LinkInv, Busy
<1> QED BY <1>1, <1>2, <1>3 DEF AInv

\* A step that fails leaves the objects as they are.
LEMMA FailStep ==
  ASSUME AInv, Fails, UNCHANGED <<program, done, cur, bytesPerTag, bytesPerDataRef>>
  PROVE  AInv'
<1>1. UNCHANGED <<program, done, cur, bytesPerTag, bytesPerDataRef, object, item>> /\ step' = "failed"
  BY DEF Fails
<1>2. ControlInv'
  BY <1>1 DEF AInv, ControlInv, Busy
<1>3. ObjectInv'
  BY <1>1 DEF AInv, ObjectInv, Aims
<1>4. LinkInv'
  BY <1>1 DEF LinkInv
<1> QED BY <1>2, <1>3, <1>4 DEF AInv

\* Only the size grows.
LEMMA LongerStep ==
  ASSUME AInv, step \in Busy, NEW q, IsObject(q), q.size >= Obj.size, q.fields = Obj.fields,
         q.links = Obj.links, q.linked = Obj.linked, q.immutables = Obj.immutables,
         \A c \in q.copies : c \in Obj.copies \/ (IsCopy(c) /\ c.is[1] # "sub")
  PROVE  Good(q, cur, object, done) /\ Aims(q, cur)
<1>1. Good(Obj, cur, object, done) /\ Aims(Obj, cur) /\ \A m \in done : object[m].size \in Nat
  BY Current
<1>2. Good(q, cur, object, done)
  BY <1>1, GoodLonger
<1> QED BY <1>1, <1>2 DEF Aims

\* The greater of two numbers is one of them.
LEMMA MaxOfTwo ==
  ASSUME NEW a \in Int, NEW b \in Int
  PROVE  Max({a, b}) \in {a, b}
<1>1. \E x \in {a, b} : \A y \in {a, b} : x >= y
  BY a >= b \/ b >= a
<1> QED BY <1>1 DEF Max

-----------------------------------------------------------------------------
(***************************************************************************)
(* The steps.                                                              *)
(***************************************************************************)
\* A reference is emitted: what Field and WithField make.
LEMMA FieldShape ==
  ASSUME IsObject(Obj), cur \in Nat, NEW len \in Nat, NEW is, NEW val
  PROVE  LET f == Field(len, is, val)
             w == WithField(f)
         IN /\ IsField(f) /\ f.pos = Obj.size + 1 /\ f.len = len /\ f.node = cur /\ f.is = is
            /\ IsObject(w) /\ w.size = Obj.size + 1 + len /\ w.fields = Obj.fields \cup {f}
            /\ w.copies = Obj.copies /\ w.links = Obj.links /\ w.linked = Obj.linked
            /\ w.immutables = Obj.immutables
<1> DEFINE o == Obj
<1>0. PICK f, w : f = Field(len, is, val) /\ w = WithField(f)
  OBVIOUS
<1>1. /\ f = [pos |-> o.size + 1, len |-> len, node |-> cur, is |-> is, val |-> val]
      /\ w = [o EXCEPT !.size = o.size + 1 + f.len, !.fields = o.fields \cup {f}]
  BY <1>0 DEF Field, WithField
<1>2. IsObject(o)
  OBVIOUS
<1> HIDE DEF o
<1>3. o.size \in Nat /\ o.size + 1 \in Nat \ {0} /\ o.size + 1 + len \in Nat
  BY <1>2 DEF IsObject
<1>4. IsField(f) /\ f.pos = o.size + 1 /\ f.len = len /\ f.node = cur /\ f.is = is
  BY <1>1, <1>3 DEF IsField
<1>5. /\ IsObject(w) /\ w.size = o.size + 1 + len /\ w.fields = o.fields \cup {f}
      /\ w.copies = o.copies /\ w.links = o.links /\ w.linked = o.linked
      /\ w.immutables = o.immutables
  BY <1>1, <1>2, <1>3, <1>4 DEF IsObject
<1> QED BY <1>0, <1>4, <1>5 DEF o

LEMMA EmitField ==
  ASSUME AInv, step \in Busy, NEW len \in Nat, NEW is, NEW val,
         is[1] = "sub" => Target(program, cur, is[2]) \in Below(program, cur),
         NEW q, IsObject(q),
         q.size = WithField(Field(len, is, val)).size, q.fields = WithField(Field(len, is, val)).fields,
         q.copies = Obj.copies, q.linked = Obj.linked, IsFiniteSet(q.immutables),
         q.links = Obj.links \cup (IF is[1] = "library" THEN {[pos |-> Obj.size + 1, of |-> is[2]]} ELSE {})
  PROVE  Good(q, cur, object, done) /\ Aims(q, cur)
<1> DEFINE f == Field(len, is, val)
<1>1. /\ cur \in Nat /\ IsObject(Obj) /\ Good(Obj, cur, object, done) /\ Aims(Obj, cur)
      /\ \A m \in done : object[m].size \in Nat
  BY Current
<1>2. /\ IsField(f) /\ f.pos = Obj.size + 1 /\ f.len = len /\ f.node = cur /\ f.is = is
      /\ q.size = Obj.size + 1 + f.len /\ q.fields = Obj.fields \cup {f}
  <2>1. f = Field(len, is, val) /\ q.size = WithField(f).size /\ q.fields = WithField(f).fields
    OBVIOUS
  <2>2. /\ IsField(f) /\ f.pos = Obj.size + 1 /\ f.len = len /\ f.node = cur /\ f.is = is
        /\ WithField(f).size = Obj.size + 1 + len /\ WithField(f).fields = Obj.fields \cup {f}
    BY <1>1, FieldShape
  <2> HIDE DEF f
  <2> QED BY <2>1, <2>2
<1> HIDE DEF f
<1>3. Good(q, cur, object, done)
  BY <1>1, <1>2, GoodField
<1>4. Aims(q, cur)
  BY <1>1, <1>2 DEF Aims
<1> QED BY <1>3, <1>4

\* The kinds of items, and those that only count.
LEMMA ItemKind ==
  ASSUME NEW i \in Item
  PROVE  /\ i.kind \in {"op", "tag", "push", "pushTag", "pushSub", "pushSubSize", "pushData", "pushLibrary",
                        "pushImmutable", "assignImmutable", "pushProgramSize", "pushDeployTime"}
         /\ i.kind \in {"op", "push", "pushDeployTime"} => ItemBytes(cur, i, 0) \in Nat
<1>1. i.kind \in {"op", "tag", "push", "pushTag", "pushSub", "pushSubSize", "pushData", "pushLibrary",
                  "pushImmutable", "assignImmutable", "pushProgramSize", "pushDeployTime"}
  BY DEF Item
<1>2. ASSUME i.kind = "op" PROVE ItemBytes(cur, i, 0) \in Nat
  <2>1. i.n \in Nat
    BY <1>2 DEF Item
  <2>2. ItemBytes(cur, i, 0) = i.n
    BY <1>2 DEF ItemBytes
  <2> QED BY <2>1, <2>2
<1>3. ASSUME i.kind = "push" PROVE ItemBytes(cur, i, 0) \in Nat
  <2>1. i.width \in Nat
    BY <1>3 DEF Item
  <2>2. ItemBytes(cur, i, 0) = 1 + Max({1, i.width})
    BY <1>3 DEF ItemBytes
  <2>3. Max({1, i.width}) \in {1, i.width}
    BY <2>1, MaxOfTwo
  <2> QED BY <2>1, <2>2, <2>3
<1>4. ASSUME i.kind = "pushDeployTime" PROVE ItemBytes(cur, i, 0) \in Nat
  <2>1. ItemBytes(cur, i, 0) = 1 + AddressBytes
    BY <1>4 DEF ItemBytes
  <2> QED BY <2>1 DEF AddressBytes
<1> QED BY <1>1, <1>2, <1>3, <1>4

\* A reference that is not linked and is no immutable.
LEMMA EmitPlainField ==
  ASSUME AInv, step \in Busy, NEW len \in Nat, NEW is, NEW val, is[1] # "library",
         is[1] = "sub" => Target(program, cur, is[2]) \in Below(program, cur)
  PROVE  Good(WithField(Field(len, is, val)), cur, object, done) /\ Aims(WithField(Field(len, is, val)), cur)
<1> DEFINE q == WithField(Field(len, is, val))
<1>1. IsObject(Obj) /\ cur \in Nat /\ IsFiniteSet(Obj.immutables)
  BY Current DEF Sound
<1>2. /\ IsObject(q) /\ q.copies = Obj.copies /\ q.links = Obj.links /\ q.linked = Obj.linked
      /\ q.immutables = Obj.immutables
  BY <1>1, FieldShape
<1>3. q = WithField(Field(len, is, val))
  OBVIOUS
<1> HIDE DEF q
<1>4. Good(q, cur, object, done) /\ Aims(q, cur)
  BY <1>1, <1>2, <1>3, EmitField
<1> QED BY <1>3, <1>4

LEMMA EmitReferenceGood ==
  ASSUME AInv, step \in Busy, NEW i \in Item, i.kind # "tag",
         i.kind = "pushSub" => Target(program, cur, i.path) \in Below(program, cur), EmitReference(i)
  PROVE  \E q : Grow(q) /\ Good(q, cur, object, done) /\ Aims(q, cur)
<1>1. /\ cur \in Nat /\ cur \in Nodes /\ IsObject(Obj) /\ Sound(Obj) /\ IsFiniteSet(Obj.immutables)
      /\ program \in Programs /\ bytesPerTag \in Nat /\ bytesPerDataRef \in Nat
  BY Current DEF Sound, AInv, ControlInv
<1>3. CASE i.kind = "pushTag"
  <2>1. Grow(WithField(Field(bytesPerTag, <<"tag", i.sub, i.of>>, Unset)))
    BY <1>3 DEF EmitReference
  <2> QED BY <1>1, <2>1, EmitPlainField
<1>4. CASE i.kind = "pushSub"
  <2>1. Grow(WithField(Field(bytesPerDataRef, <<"sub", i.path>>, Unset)))
    BY <1>4 DEF EmitReference
  <2> QED BY <1>1, <1>4, <2>1, EmitPlainField
<1>5. CASE i.kind = "pushData"
  <2>1. Grow(WithField(Field(bytesPerDataRef, <<"data", i.of>>, Unset)))
    BY <1>5 DEF EmitReference
  <2> QED BY <1>1, <2>1, EmitPlainField
<1>6. CASE i.kind = "pushProgramSize"
  <2>1. Grow(WithField(Field(bytesPerDataRef, <<"size">>, Unset)))
    BY <1>6 DEF EmitReference
  <2> QED BY <1>1, <2>1, EmitPlainField
<1>7. CASE i.kind = "pushSubSize"
  <2> DEFINE s == object[Target(program, cur, i.path)].size
             len == Max({1, BytesRequired(s)})
  <2>1. Grow(WithField(Field(len, <<"subSize", i.path>>, s)))
    BY <1>7 DEF EmitReference
  <2>2. len \in Nat
    BY BytesRequiredType, MaxOfTwo
  <2> HIDE DEF s, len
  <2> QED BY <2>1, <2>2, EmitPlainField
<1>8. CASE i.kind = "pushLibrary"
  <2> DEFINE w == WithField(Field(AddressBytes, <<"library", i.of>>, Unset))
             L == {[pos |-> Obj.size + 1, of |-> i.of]}
             q == [w EXCEPT !.links = @ \cup L]
  <2>1. Grow(q)
    BY <1>8 DEF EmitReference
  <2>2. /\ AddressBytes \in Nat
        /\ IsObject(w) /\ w.copies = Obj.copies /\ w.links = Obj.links /\ w.linked = Obj.linked
        /\ w.immutables = Obj.immutables
    <3>1. AddressBytes \in Nat
      BY DEF AddressBytes
    <3> QED BY <1>1, <3>1, FieldShape
  <2>3. /\ IsObject(q) /\ q.size = w.size /\ q.fields = w.fields
        /\ q.copies = Obj.copies /\ q.linked = Obj.linked /\ q.immutables = Obj.immutables
        /\ q.links = Obj.links \cup L
    <3> HIDE DEF w, L
    <3> QED BY <2>2 DEF IsObject
  <2> HIDE DEF q
  <2>4. Good(q, cur, object, done) /\ Aims(q, cur)
    <3> DEFINE is == <<"library", i.of>>
    <3>1. is[1] = "library" /\ is[2] = i.of
      OBVIOUS
    <3>2. w = WithField(Field(AddressBytes, is, Unset))
      OBVIOUS
    <3> HIDE DEF is, w
    <3> QED BY <1>1, <2>2, <2>3, <3>1, <3>2, EmitField
  <2> QED BY <2>1, <2>4
<1>9. CASE i.kind = "pushImmutable"
  <2> DEFINE w == WithField(Field(32, <<"immutable", i.of>>, Unset))
             r == [pos |-> Obj.size + 1, of |-> i.of]
             q == [w EXCEPT !.immutables = @ \cup {r}]
  <2>1. Grow(q)
    BY <1>9 DEF EmitReference
  <2>2. /\ IsObject(w) /\ w.copies = Obj.copies /\ w.links = Obj.links /\ w.linked = Obj.linked
        /\ w.immutables = Obj.immutables
    BY <1>1, FieldShape
  <2>3. /\ IsObject(q) /\ q.size = w.size /\ q.fields = w.fields
        /\ q.copies = Obj.copies /\ q.linked = Obj.linked /\ q.links = Obj.links
        /\ q.immutables = Obj.immutables \cup {r}
    <3> HIDE DEF w, r
    <3> QED BY <2>2 DEF IsObject
  <2>4. IsFiniteSet(q.immutables)
    <3>1. IsFiniteSet(Obj.immutables) /\ q.immutables = Obj.immutables \cup {r}
      BY <1>1, <2>3
    <3> HIDE DEF q, r
    <3>2. IsFiniteSet(Obj.immutables \cup {r})
      BY <3>1, FS_AddElement
    <3> QED BY <3>1, <3>2
  <2> HIDE DEF q
  <2>5. Good(q, cur, object, done) /\ Aims(q, cur)
    <3> DEFINE is == <<"immutable", i.of>>
    <3>1. is[1] = "immutable" /\ q.links = Obj.links \cup (IF is[1] = "library" THEN {[pos |-> Obj.size + 1, of |-> is[2]]} ELSE {})
      BY <2>3
    <3>2. w = WithField(Field(32, is, Unset)) /\ 32 \in Nat
      OBVIOUS
    <3> HIDE DEF is, w
    <3> QED BY <1>1, <2>2, <2>3, <2>4, <3>1, <3>2, EmitField
  <2> QED BY <2>1, <2>5
<1>10. CASE i.kind \in {"op", "push", "pushDeployTime", "assignImmutable"}
  <2> DEFINE k == IF i.kind = "assignImmutable" THEN AssignBytes(i.of) ELSE ItemBytes(cur, i, 0)
             q == [Obj EXCEPT !.size = @ + k]
  <2>1. Grow(q)
    BY <1>10 DEF EmitReference
  <2>2. k \in Nat
    <3>1. \A m \in Nodes : IsFiniteSet(object[m].immutables)
      BY DEF AInv, ObjectInv, Good, Sound
    <3> QED BY <1>1, <1>10, <3>1, ItemKind, AssignBytesType
  <2> HIDE DEF k
  <2>3. /\ IsObject(q) /\ q.size = Obj.size + k /\ q.fields = Obj.fields
        /\ q.copies = Obj.copies /\ q.linked = Obj.linked /\ q.links = Obj.links /\ q.immutables = Obj.immutables
    BY <1>1, <2>2 DEF IsObject
  <2>4. q.size >= Obj.size
    BY <1>1, <2>2, <2>3 DEF IsObject
  <2> HIDE DEF q
  <2>5. Good(q, cur, object, done) /\ Aims(q, cur)
    BY <2>3, <2>4, LongerStep
  <2> QED BY <2>1, <2>5
<1> QED BY <1>3, <1>4, <1>5, <1>6, <1>7, <1>8, <1>9, <1>10, ItemKind

\* A JUMPDEST.
Tagged(o, J) == [o EXCEPT !.size = @ + 1, !.jumpdests = @ \cup J]
LEMMA TaggedShape ==
  ASSUME NEW o, IsObject(o), NEW J, NEW q, q = Tagged(o, J)
  PROVE  /\ IsObject(q) /\ q.size >= o.size /\ q.fields = o.fields
         /\ q.copies = o.copies /\ q.linked = o.linked /\ q.links = o.links /\ q.immutables = o.immutables
<1>1. o.size \in Nat /\ o.size + 1 \in Nat /\ o.size + 1 >= o.size
  BY DEF IsObject
<1>2. q = [size |-> o.size + 1, fields |-> o.fields, jumpdests |-> o.jumpdests \cup J, copies |-> o.copies,
           links |-> o.links, immutables |-> o.immutables, linked |-> o.linked]
  BY DEF IsObject, Tagged
<1> QED BY <1>1, <1>2 DEF IsObject

LEMMA EmitTagGood ==
  ASSUME AInv, step \in Busy, NEW i, EmitTag(i)
  PROVE  \E q : Grow(q) /\ Good(q, cur, object, done) /\ Aims(q, cur)
<1> DEFINE J == {[pos |-> Obj.size, node |-> cur, tag |-> i.of]}
           q == Tagged(Obj, J)
<1>1. Grow(q) /\ q = Tagged(Obj, J)
  BY DEF EmitTag, Tagged
<1>2. IsObject(Obj)
  BY Current
<1> HIDE DEF J, q
<1>3. /\ IsObject(q) /\ q.size >= Obj.size /\ q.fields = Obj.fields
      /\ q.copies = Obj.copies /\ q.linked = Obj.linked /\ q.links = Obj.links /\ q.immutables = Obj.immutables
  BY <1>1, <1>2, TaggedShape
<1>4. Good(q, cur, object, done) /\ Aims(q, cur)
  BY <1>3, LongerStep
<1> QED BY <1>1, <1>4

LEMMA EmitItemInv == AInv /\ EmitItem => AInv'
<1> SUFFICES ASSUME AInv, EmitItem PROVE AInv'
  OBVIOUS
<1> DEFINE i == Items(cur)[item]
<1>1. /\ step = "items" /\ step \in Busy /\ item \in Nat \ {0} /\ item <= Len(Items(cur))
      /\ UNCHANGED <<program, done, cur, bytesPerTag, bytesPerDataRef>>
  BY DEF EmitItem, In, AInv, ControlInv, Busy
<1>2. program \in Programs /\ cur \in Nodes
  BY <1>1, Current DEF AInv, ControlInv
<1>3. item \in DOMAIN Items(cur) /\ i \in Item
  BY <1>1, <1>2, ProgramType
<1>4. i.kind = "pushSub" => Target(program, cur, i.path) \in Below(program, cur)
  BY <1>2, <1>3, ProgramType
<1>5. CASE Fails
  BY <1>1, <1>5, FailStep
<1>6. CASE (IF i.kind = "tag" THEN EmitTag(i) ELSE EmitReference(i)) /\ item' = item + 1 /\ step' = step
  <2> HIDE DEF i
  <2>1. PICK q : Grow(q) /\ Good(q, cur, object, done) /\ Aims(q, cur)
    BY <1>1, <1>3, <1>4, <1>6, EmitTagGood, EmitReferenceGood
  <2>2. item' \in Nat \ {0} /\ step' \in Busy
    BY <1>1, <1>6
  <2> QED BY <1>1, <2>1, <2>2, GrowStep
<1> QED BY <1>5, <1>6 DEF EmitItem


\* The end of the items: a stop instruction, if something follows.
LEMMA FinishItemsInv == AInv /\ FinishItems => AInv'
<1> SUFFICES ASSUME AInv, FinishItems PROVE AInv'
  OBVIOUS
<1> DEFINE o == Obj
           more == Subs(cur) # <<>> \/ program.data[cur] # <<>> \/ program.aux[cur] > 0
           q == [o EXCEPT !.size = @ + 1]
<1>1. /\ step \in Busy
      /\ UNCHANGED <<program, done, cur, bytesPerTag, bytesPerDataRef>>
  BY DEF FinishItems, In, Busy
<1>2. IsObject(o) /\ o = Obj /\ Good(o, cur, object, done) /\ Aims(o, cur)
  BY <1>1, Current
<1>3. CASE Fails
  BY <1>1, <1>3, FailStep
<1>4. CASE step' = "subs" /\ item' = 1 /\ Grow(IF more THEN q ELSE o)
  <2>0. q = [o EXCEPT !.size = @ + 1] /\ 1 \in Nat
    OBVIOUS
  <2> HIDE DEF o, more
  <2>1. /\ IsObject(q) /\ q.size >= o.size /\ q.fields = o.fields
        /\ q.copies = o.copies /\ q.linked = o.linked /\ q.links = o.links /\ q.immutables = o.immutables
    BY <1>2, <2>0 DEF IsObject
  <2> HIDE DEF q
  <2>2. Good(q, cur, object, done) /\ Aims(q, cur)
    BY <1>1, <1>2, <2>1, LongerStep
  <2>3. step' \in Busy /\ item' \in Nat \ {0}
    BY <1>4 DEF Busy
  <2>4. CASE more
    BY <1>1, <1>4, <2>2, <2>3, <2>4, GrowStep
  <2>5. CASE ~more
    BY <1>1, <1>2, <1>4, <2>3, <2>5, GrowStep
  <2> QED BY <2>4, <2>5
<1> QED BY <1>3, <1>4 DEF FinishItems

\* References that get their values.
LEMMA FilledStep ==
  ASSUME AInv, step \in Busy, NEW F, OwnFields(F, Obj, cur), NEW w,
         NEW q, IsObject(q), q.size = Obj.size, q.fields = (Obj.fields \ F) \cup Filled(F, w),
         q.copies = Obj.copies, q.links = Obj.links, q.linked = Obj.linked, q.immutables = Obj.immutables
  PROVE  Good(q, cur, object, done) /\ Aims(q, cur)
<1>1. /\ cur \in Nat /\ Good(Obj, cur, object, done) /\ Aims(Obj, cur)
      /\ Known(object, done)
  BY Current DEF Known
<1>2. /\ Good(q, cur, object, done)
      /\ \A g \in q.fields : \E f \in Obj.fields : g.node = f.node /\ g.is = f.is
  BY <1>1, GoodFilled
<1>3. Aims(q, cur)
  BY <1>1, <1>2 DEF Aims
<1> QED BY <1>2, <1>3

LEMMA FillInShape ==
  ASSUME NEW o, IsObject(o), NEW F, NEW v, NEW w, w = [f \in F |-> ToBigEndian(v, f.len)],
         NEW q, q = FillIn(o, F, v)
  PROVE  /\ IsObject(q) /\ q.size = o.size /\ q.fields = (o.fields \ F) \cup Filled(F, w)
         /\ q.copies = o.copies /\ q.links = o.links /\ q.linked = o.linked /\ q.immutables = o.immutables
<1>1. Filled(F, w) = {[f EXCEPT !.val = ToBigEndian(v, f.len)] : f \in F}
  BY DEF Filled
<1>2. q = [o EXCEPT !.fields = (o.fields \ F) \cup Filled(F, w)]
  BY <1>1 DEF FillIn
<1> QED BY <1>2 DEF IsObject

LEMMA FillInStep ==
  ASSUME AInv, step \in Busy, NEW F, OwnFields(F, Obj, cur), NEW v,
         NEW q, q = FillIn(Obj, F, v)
  PROVE  /\ Good(q, cur, object, done) /\ Aims(q, cur) /\ IsObject(q) /\ q.size = Obj.size
         /\ q.copies = Obj.copies /\ q.links = Obj.links /\ q.linked = Obj.linked /\ q.immutables = Obj.immutables
<1> DEFINE w == [f \in F |-> ToBigEndian(v, f.len)]
<1>1. IsObject(Obj)
  BY Current
<1>2. w = [f \in F |-> ToBigEndian(v, f.len)]
  OBVIOUS
<1> HIDE DEF w
<1>3. /\ IsObject(q) /\ q.size = Obj.size /\ q.fields = (Obj.fields \ F) \cup Filled(F, w)
      /\ q.copies = Obj.copies /\ q.links = Obj.links /\ q.linked = Obj.linked /\ q.immutables = Obj.immutables
  BY <1>1, <1>2, FillInShape
<1> QED BY <1>3, FilledStep

\* A copy of a subassembly.
Appended(o, x, c) == [AppendObject(o, x) EXCEPT !.copies = @ \cup {c}]
LEMMA AppendedShape ==
  ASSUME NEW o, IsObject(o), NEW x, x.size \in Nat, NEW c, NEW q, q = Appended(o, x, c)
  PROVE  /\ IsObject(q) /\ q.size = o.size + x.size
         /\ q.fields = o.fields \cup Shifted(x.fields, o.size)
         /\ q.copies = o.copies \cup Shifted(x.copies, o.size) \cup {c}
         /\ q.links = o.links \cup Shifted(x.links, o.size)
         /\ q.linked = o.linked /\ q.immutables = o.immutables
<1>1. o.size \in Nat /\ o.size + x.size \in Nat
  BY DEF IsObject
<1>2. PICK a : a = AppendObject(o, x)
  OBVIOUS
<1>3. a = [size |-> o.size + x.size, fields |-> o.fields \cup Shifted(x.fields, o.size),
           jumpdests |-> o.jumpdests \cup Shifted(x.jumpdests, o.size),
           copies |-> o.copies \cup Shifted(x.copies, o.size),
           links |-> o.links \cup Shifted(x.links, o.size),
           immutables |-> o.immutables, linked |-> o.linked]
  BY <1>2 DEF IsObject, AppendObject
<1>5. q = [a EXCEPT !.copies = @ \cup {c}]
  BY <1>2 DEF Appended
<1>4. q = [size |-> o.size + x.size, fields |-> o.fields \cup Shifted(x.fields, o.size),
           jumpdests |-> o.jumpdests \cup Shifted(x.jumpdests, o.size),
           copies |-> o.copies \cup Shifted(x.copies, o.size) \cup {c},
           links |-> o.links \cup Shifted(x.links, o.size),
           immutables |-> o.immutables, linked |-> o.linked]
  BY <1>3, <1>5
<1> QED BY <1>1, <1>4 DEF IsObject

LEMMA AppendedGood ==
  ASSUME NEW o, NEW n \in Nat, NEW obj, NEW D, Good(o, n, obj, D), Known(obj, D),
         NEW m \in D, m < n, Good(obj[m], m, obj, D),
         NEW c, c = [pos |-> o.size, is |-> <<"sub", m>>], NEW x, x = obj[m], NEW q, q = Appended(o, x, c)
  PROVE  /\ Good(q, n, obj, D)
         /\ \A g \in q.fields : g \in o.fields \/ g.node < n
<1>1. IsObject(o) /\ m \in Nat /\ x.size \in Nat
  BY DEF Good, Sound, Known
<1>2. /\ IsObject(q) /\ q.size = o.size + x.size
      /\ q.fields = o.fields \cup Shifted(x.fields, o.size)
      /\ q.copies = o.copies \cup Shifted(x.copies, o.size) \cup {c}
      /\ q.links = o.links \cup Shifted(x.links, o.size)
      /\ q.linked = o.linked /\ q.immutables = o.immutables
  BY <1>1, AppendedShape
<1> QED BY <1>1, <1>2, GoodAppended

LEMMA AppendSubInv == AInv /\ AppendSub => AInv'
<1> SUFFICES ASSUME AInv, AppendSub PROVE AInv'
  OBVIOUS
<1>1. /\ step \in Busy /\ step' = step /\ item' = item /\ item \in Nat \ {0}
      /\ UNCHANGED <<program, done, cur, bytesPerTag, bytesPerDataRef>>
  BY DEF AppendSub, In, Busy, AInv, ControlInv
<1>2. PICK f \in Waiting("sub") :
         Grow([AppendObject(FillIn(Obj, {f}, Obj.size), object[Target(program, cur, f.is[2])])
                 EXCEPT !.copies = @ \cup {CopyOf(<<"sub", Target(program, cur, f.is[2])>>)}])
  BY DEF AppendSub
<1> DEFINE m == Target(program, cur, f.is[2])
           o == FillIn(Obj, {f}, Obj.size)
           c == CopyOf(<<"sub", m>>)
           x == object[m]
           q == Appended(o, x, c)
<1>3. Grow(q) /\ o = FillIn(Obj, {f}, Obj.size) /\ q = Appended(o, x, c) /\ x = object[m]
  BY <1>2 DEF Appended
<1>4. f \in Obj.fields /\ f.node = cur /\ f.is[1] = "sub"
  BY DEF Waiting
<1>5. /\ cur \in Nodes /\ cur \in Nat /\ Aims(Obj, cur) /\ Known(object, done)
      /\ \A k \in done : Good(object[k], k, object, done)
  BY <1>1, Current DEF Known
<1>6. program \in Programs /\ done \subseteq Nodes /\ Closed(program, done) /\ ToSet(Subs(cur)) \subseteq done
  BY <1>1 DEF AInv, ControlInv
<1>7. m \in Below(program, cur)
  BY <1>4, <1>5 DEF Aims
<1>8. c = [pos |-> Obj.size, is |-> <<"sub", m>>]
  BY DEF CopyOf
<1> HIDE DEF m, o, c, q, x
<1>9. m \in done /\ m < cur
  BY <1>5, <1>6, <1>7, BelowSmaller
<1>10. m \in Nat /\ x.size \in Nat /\ Good(object[m], m, object, done)
  BY <1>3, <1>5, <1>9 DEF Known
<1>11. /\ Good(o, cur, object, done) /\ Aims(o, cur) /\ IsObject(o) /\ o.size = Obj.size
  <2>1. OwnFields({f}, Obj, cur)
    BY <1>4 DEF OwnFields
  <2> QED BY <1>1, <1>3, <2>1, FillInStep
<1>13. Good(q, cur, object, done) /\ \A g \in q.fields : g \in o.fields \/ g.node < cur
  <2>1. c = [pos |-> o.size, is |-> <<"sub", m>>]
    BY <1>8, <1>11
  <2> QED BY <1>3, <1>5, <1>9, <1>10, <1>11, <2>1, AppendedGood
<1>14. Aims(q, cur)
  BY <1>5, <1>11, <1>13 DEF Aims
<1> QED BY <1>1, <1>3, <1>13, <1>14, GrowStep

\* The references to tags.
LEMMA ResolveTagsInv == AInv /\ ResolveTags => AInv'
<1> SUFFICES ASSUME AInv, ResolveTags PROVE AInv'
  OBVIOUS
<1> DEFINE refs == Waiting("tag")
           w == [f \in refs |-> ToBigEndian(TagPosition(f), f.len)]
           F == (Obj.fields \ refs) \cup Filled(refs, w)
           q == [Obj EXCEPT !.fields = F]
<1>1. /\ step \in Busy /\ item \in Nat \ {0}
      /\ UNCHANGED <<program, done, cur, bytesPerTag, bytesPerDataRef>>
  BY DEF ResolveTags, In, Busy, AInv, ControlInv
<1>2. CASE Fails
  BY <1>1, <1>2, FailStep
<1>3. CASE /\ Grow([Obj EXCEPT !.fields = (@ \ refs) \cup
                       {[f EXCEPT !.val = ToBigEndian(TagPosition(f), f.len)] : f \in refs}])
           /\ step' = "data" /\ item' = item
  <2>1. Filled(refs, w) = {[f EXCEPT !.val = ToBigEndian(TagPosition(f), f.len)] : f \in refs}
    BY DEF Filled
  <2>2. Grow(q)
    BY <1>3, <2>1
  <2>3. OwnFields(refs, Obj, cur)
    BY DEF OwnFields, Waiting
  <2>4. F = (Obj.fields \ refs) \cup Filled(refs, w)
    OBVIOUS
  <2> HIDE DEF refs, w, F
  <2>5. IsObject(Obj)
    BY <1>1, Current
  <2>6. /\ IsObject(q) /\ q.size = Obj.size /\ q.fields = F
        /\ q.copies = Obj.copies /\ q.links = Obj.links /\ q.linked = Obj.linked /\ q.immutables = Obj.immutables
    BY <2>5 DEF IsObject
  <2> HIDE DEF q
  <2>7. Good(q, cur, object, done) /\ Aims(q, cur)
    BY <1>1, <2>3, <2>4, <2>6, FilledStep
  <2>8. step' \in Busy /\ item' \in Nat \ {0}
    BY <1>1, <1>3 DEF Busy
  <2> QED BY <1>1, <2>2, <2>7, <2>8, GrowStep
<1> QED BY <1>2, <1>3 DEF ResolveTags

\* The data: a copy of it, if something refers to it.
Extended(o, k, c) == [o EXCEPT !.size = @ + k, !.copies = @ \cup {c}]
LEMMA ExtendedGood ==
  ASSUME NEW o, NEW n, NEW obj, NEW D, Good(o, n, obj, D), Known(obj, D), NEW k \in Nat,
         NEW c, IsCopy(c), c.is[1] # "sub", NEW q, q = Extended(o, k, c)
  PROVE  Good(q, n, obj, D) /\ q.fields = o.fields
<1>1. IsObject(o) /\ o.size \in Nat /\ o.size + k \in Nat /\ o.size + k >= o.size
  BY DEF Good, Sound, IsObject
<1>2. q = [size |-> o.size + k, fields |-> o.fields, jumpdests |-> o.jumpdests,
           copies |-> o.copies \cup {c}, links |-> o.links, immutables |-> o.immutables, linked |-> o.linked]
  BY <1>1 DEF IsObject, Extended
<1>3. /\ IsObject(q) /\ q.size >= o.size /\ q.fields = o.fields /\ q.copies = o.copies \cup {c}
      /\ q.links = o.links /\ q.linked = o.linked /\ q.immutables = o.immutables
  BY <1>1, <1>2 DEF IsObject
<1>4. \A m \in D : obj[m].size \in Nat
  BY DEF Known
<1> QED BY <1>3, <1>4, GoodLonger

LEMMA AppendDataInv == AInv /\ AppendData => AInv'
<1> SUFFICES ASSUME AInv, AppendData PROVE AInv'
  OBVIOUS
<1> DEFINE d == program.data[cur][item]
           refs == {f \in Waiting("data") : f.is[2] = d.name}
           o == FillIn(Obj, refs, Obj.size)
           c == CopyOf(<<"data", d.name>>)
           q == Extended(o, d.size, c)
<1>1. /\ step \in Busy /\ step' \in Busy /\ item \in Nat \ {0} /\ item' = item + 1
      /\ UNCHANGED <<program, done, cur, bytesPerTag, bytesPerDataRef>>
  BY DEF AppendData, In, Busy, AInv, ControlInv
<1>2. item' \in Nat \ {0}
  BY <1>1
<1>3. CASE refs = {}
  <2>1. Grow(Obj)
    BY <1>3 DEF AppendData
  <2>2. Good(Obj, cur, object, done) /\ Aims(Obj, cur)
    BY <1>1, Current
  <2> QED BY <1>1, <1>2, <2>1, <2>2, GrowStep
<1>4. CASE refs # {}
  <2>1. Grow(q) /\ o = FillIn(Obj, refs, Obj.size) /\ q = Extended(o, d.size, c)
    BY <1>4 DEF AppendData, Extended
  <2>2. OwnFields(refs, Obj, cur)
    BY DEF OwnFields, Waiting
  <2>3. d.size \in Nat
    <3>1. program \in Programs /\ cur \in Nodes
      BY <1>1, Current DEF AInv, ControlInv
    <3>2. program.data[cur] \in Seq([name : STRING, size : Nat])
      BY <3>1, ProgramType
    <3>3. item \in DOMAIN program.data[cur]
      <4>1. item <= Len(program.data[cur])
        BY DEF AppendData
      <4>2. Len(program.data[cur]) \in Nat /\ DOMAIN program.data[cur] = 1..Len(program.data[cur])
        BY <3>2
      <4> QED BY <1>1, <4>1, <4>2
    <3>4. d \in [name : STRING, size : Nat]
      <4> DEFINE R == [name : STRING, size : Nat]
      <4>1. program.data[cur] \in Seq(R)
        BY <3>2
      <4> HIDE DEF R
      <4>2. d \in R
        BY <3>3, <4>1
      <4> QED BY <4>2 DEF R
    <3> HIDE DEF d
    <3> QED BY <3>4
  <2>4. IsCopy(c) /\ c.is[1] # "sub"
    <3>1. Obj.size \in Nat
      BY <1>1, Current DEF IsObject
    <3>2. c = [pos |-> Obj.size, is |-> <<"data", d.name>>]
      BY DEF CopyOf
    <3> HIDE DEF c, d
    <3> QED BY <3>1, <3>2 DEF IsCopy
  <2> HIDE DEF d, refs, o, c, q
  <2>5. Good(o, cur, object, done) /\ Aims(o, cur)
    BY <1>1, <2>1, <2>2, FillInStep
  <2>6. Known(object, done)
    BY <1>1, Current DEF Known
  <2>7. Good(q, cur, object, done) /\ q.fields = o.fields
    BY <2>1, <2>3, <2>4, <2>5, <2>6, ExtendedGood
  <2>8. Aims(q, cur)
    BY <2>5, <2>7 DEF Aims
  <2> QED BY <1>1, <1>2, <2>1, <2>7, <2>8, GrowStep
<1> QED BY <1>3, <1>4

\* The end of assemble.
Sized(o, s) == [o EXCEPT !.size = s]
LEMMA SizedGood ==
  ASSUME NEW o, NEW n, NEW obj, NEW D, Good(o, n, obj, D), Known(obj, D), NEW s \in Nat, s >= o.size,
         NEW q, q = Sized(o, s)
  PROVE  Good(q, n, obj, D) /\ q.fields = o.fields
<1>1. IsObject(o)
  BY DEF Good, Sound
<1>2. q = [size |-> s, fields |-> o.fields, jumpdests |-> o.jumpdests,
           copies |-> o.copies, links |-> o.links, immutables |-> o.immutables, linked |-> o.linked]
  BY <1>1 DEF IsObject, Sized
<1>3. /\ IsObject(q) /\ q.size >= o.size /\ q.fields = o.fields /\ q.copies = o.copies
      /\ q.links = o.links /\ q.linked = o.linked /\ q.immutables = o.immutables
  BY <1>2 DEF IsObject
<1>4. \A m \in D : obj[m].size \in Nat
  BY DEF Known
<1> QED BY <1>3, <1>4, GoodLonger

\* An object that is not linked yet.
LEMMA NothingLinked ==
  ASSUME NEW o, Sound(o)
  PROVE  LinkedExactly(o, LibraryFields(o))
<1>1. o.links = LibraryFields(o) /\ o.linked = {}
  BY DEF Sound
<1>2. \A u : LinkedFor(o, u) = {}
  BY <1>1 DEF LinkedFor
<1> QED BY <1>1, <1>2 DEF LinkedExactly

LEMMA FinishInv == AInv /\ Finish => AInv'
<1> SUFFICES ASSUME AInv, Finish PROVE AInv'
  OBVIOUS
<1> DEFINE size == Obj.size + program.aux[cur]
           refs == Waiting("size")
           o == FillIn(Obj, refs, size)
           q == Sized(o, size)
<1>1. /\ step \in Busy /\ UNCHANGED <<program, bytesPerTag, bytesPerDataRef, item>>
      /\ done' = done \cup {cur} /\ step' \in {"assembled", "idle"}
      /\ step' = "assembled" => contracts' = object'
  BY DEF Finish, In, Busy
<1>2. Grow(q) /\ o = FillIn(Obj, refs, size) /\ q = Sized(o, size)
  BY DEF Finish, Sized
<1>3. OwnFields(refs, Obj, cur)
  BY DEF OwnFields, Waiting
<1>4. size \in Nat /\ size >= Obj.size
  <2>1. Obj.size \in Nat
    BY <1>1, Current DEF IsObject
  <2>2. program.aux[cur] \in Nat
    BY <1>1, Current, ProgramType DEF AInv, ControlInv
  <2> QED BY <2>1, <2>2
<1> HIDE DEF size, refs, o, q
<1>5. Good(o, cur, object, done) /\ Aims(o, cur) /\ o.size = Obj.size
  BY <1>1, <1>2, <1>3, FillInStep
<1>6. Known(object, done)
  BY <1>1, Current DEF Known
<1>7. Good(q, cur, object, done) /\ q.fields = o.fields
  BY <1>2, <1>4, <1>5, <1>6, SizedGood
<1>8. Aims(q, cur)
  BY <1>5, <1>7 DEF Aims
<1>9. /\ DOMAIN object' = Nodes
      /\ \A n \in Nodes : Good(object'[n], n, object', done) /\ Aims(object[n], n)'
  BY <1>1, <1>2, <1>7, <1>8, GrowInv
<1>10. ObjectInv'
  <2>1. \A n \in Nodes : Good(object'[n], n, object', done')
    BY <1>1, <1>9, GoodSame
  <2> QED BY <1>9, <2>1 DEF ObjectInv
<1>11. ControlInv'
  <2>1. cur \in Nodes /\ done \subseteq Nodes /\ Closed(program, done) /\ ToSet(Subs(cur)) \subseteq done
    BY <1>1 DEF AInv, ControlInv
  <2>2. Closed(program', done')
    BY <1>1, <2>1 DEF Closed, Subs
  <2> QED BY <1>1, <2>1, <2>2 DEF AInv, ControlInv, Busy
<1>12. LinkInv'
  <2> SUFFICES ASSUME contracts' = object', NEW n \in Nodes
               PROVE  IsObject(object'[n]) /\ LinkedExactly(object'[n], LibraryFields(object'[n]))
    BY <1>1 DEF LinkInv
  <2>1. Sound(object'[n])
    BY <1>9 DEF Good
  <2> QED BY <2>1, NothingLinked DEF Sound
<1> QED BY <1>10, <1>11, <1>12 DEF AInv

\* The start of assemble.
LEMMA StartInv == AInv /\ Start => AInv'
<1> SUFFICES ASSUME AInv, Start PROVE AInv'
  OBVIOUS
<1>1. PICK n \in Nodes \ done :
         /\ ToSet(Subs(n)) \subseteq done /\ cur' = n /\ item' = 1
         /\ bytesPerTag' = BytesRequired(BytesRequiredForCode(n, SubTagSize(n)))
         /\ bytesPerDataRef' = BytesRequired(BytesRequiredForCode(n, SubTagSize(n)) + 1 + program.aux[n]
                + MapThenSumSet(LAMBDA k : object[Subs(n)[k]].size, DOMAIN Subs(n)))
         /\ step' \in {"failed", "items"}
         /\ UNCHANGED <<program, done, object, tagPositions, contracts>>
  BY DEF Start
<1>2. bytesPerTag' \in Nat /\ bytesPerDataRef' \in Nat
  BY <1>1, BytesRequiredType
<1>3. ControlInv'
  <2>1. program' \in Programs /\ done' \subseteq Nodes /\ Closed(program', done')
    BY <1>1 DEF AInv, ControlInv
  <2>2. item' \in Nat \ {0} /\ cur' \in Nodes \ done' /\ ToSet(Subs(cur))' \subseteq done'
    BY <1>1 DEF Subs
  <2> QED BY <1>2, <2>1, <2>2 DEF ControlInv
<1>4. ObjectInv'
  BY <1>1 DEF AInv, ObjectInv, Aims
<1>5. LinkInv'
  BY <1>1 DEF LinkInv
<1> QED BY <1>3, <1>4, <1>5 DEF AInv

\* Linking: what a reference is replaced by is an address for this use.
Entry(r, given) ==
    [pos |-> r.pos, by |-> CHOOSE a \in MatchLibrary(r.of, given) : TRUE, bytes |-> CopiedBytes]
LEMMA EntryFits ==
  ASSUME NEW r, NEW given, MatchLibrary(r.of, given) # {}
  PROVE  LET x == Entry(r, given)
         IN x.pos = r.pos /\ x.by \in {r.of, <<Last(r.of)>>}
<1> DEFINE by == CHOOSE a \in MatchLibrary(r.of, given) : TRUE
<1>1. by \in MatchLibrary(r.of, given)
  OBVIOUS
<1>2. MatchLibrary(r.of, given) \subseteq {r.of, <<Last(r.of)>>}
  BY DEF MatchLibrary, Last
<1>3. by \in {r.of, <<Last(r.of)>>}
  BY <1>1, <1>2
<1>4. Entry(r, given) = [pos |-> r.pos, by |-> by, bytes |-> CopiedBytes]
  BY DEF Entry
<1> HIDE DEF by
<1> QED BY <1>3, <1>4

\* Linking keeps the link references and the addresses filled in exact.
LEMMA LinkKeeps ==
  ASSUME NEW c, IsObject(c), NEW uses, LinkedExactly(c, uses), NEW given,
         \A u, v \in uses : u.pos = v.pos => u = v, NEW d, d = LinkObject(c, given)
  PROVE  IsObject(d) /\ LinkedExactly(d, uses)
<1> DEFINE found == {r \in c.links : MatchLibrary(r.of, given) # {}}
           old == {x \in c.linked : \A r \in found : r.pos # x.pos}
           new == {Entry(r, given) : r \in found}
<1>1. IsObject(d) /\ d.links = c.links \ found /\ d.linked = old \cup new
  <2>1. new = {[pos |-> r.pos, by |-> CHOOSE a \in MatchLibrary(r.of, given) : TRUE,
                bytes |-> CopiedBytes] : r \in found}
    BY DEF Entry
  <2>2. d = [c EXCEPT !.links = c.links \ found, !.linked = old \cup new]
    BY <2>1 DEF LinkObject
  <2> HIDE DEF found, old, new
  <2> QED BY <2>2 DEF IsObject
<1>2. found \subseteq c.links /\ c.links \subseteq uses
  BY DEF LinkedExactly
<1>3. \A r \in found : LET x == Entry(r, given)
                       IN x.pos = r.pos /\ x.by \in {r.of, <<Last(r.of)>>}
  BY EntryFits
<1>4. \A x : x \in old <=> x \in c.linked /\ \A r \in found : r.pos # x.pos
  OBVIOUS
<1>5. \A x : x \in new <=> \E r \in found : x = Entry(r, given)
  OBVIOUS
<1> HIDE DEF found, old, new
<1>6. ASSUME NEW u \in found PROVE Entry(u, given) \in LinkedFor(d, u)
  <2>1. Entry(u, given) \in d.linked
    BY <1>1, <1>5
  <2> QED BY <1>3, <2>1 DEF LinkedFor
<1>7. ASSUME NEW u \in uses, u \notin found PROVE LinkedFor(d, u) = LinkedFor(c, u)
  <2>1. \A r \in found : r.pos # u.pos
    BY <1>2, <1>7
  <2>2. \A x : x.pos = u.pos => (x \in d.linked <=> x \in c.linked)
    BY <1>1, <1>3, <1>4, <1>5, <2>1
  <2> QED BY <2>2 DEF LinkedFor
<1>8. \A u \in uses : u \in d.links <=> LinkedFor(d, u) = {}
  <2> SUFFICES ASSUME NEW u \in uses PROVE u \in d.links <=> LinkedFor(d, u) = {}
    OBVIOUS
  <2>1. CASE u \in found
    BY <1>1, <1>6, <2>1
  <2>2. CASE u \notin found
    BY <1>1, <1>7, <2>2 DEF LinkedExactly
  <2> QED BY <2>1, <2>2
<1>9. d.links \cup {u \in uses : LinkedFor(d, u) # {}} = uses
  BY <1>1, <1>2, <1>8
<1>10. d.linked = UNION {LinkedFor(d, u) : u \in uses}
  <2>1. ASSUME NEW x \in d.linked PROVE \E u \in uses : x \in LinkedFor(d, u)
    <3>1. CASE x \in new
      BY <1>2, <1>5, <1>6, <3>1
    <3>2. CASE x \in old
      <4>1. PICK u \in uses : x \in LinkedFor(c, u)
        BY <1>4, <3>2 DEF LinkedExactly
      <4>2. u \notin found
        BY <1>4, <3>2, <4>1 DEF LinkedFor
      <4> QED BY <1>7, <4>1, <4>2
    <3> QED BY <1>1, <3>1, <3>2
  <2>2. \A u : LinkedFor(d, u) \subseteq d.linked
    BY DEF LinkedFor
  <2> QED BY <2>1, <2>2
<1> QED BY <1>1, <1>8, <1>9, <1>10 DEF LinkedExactly

\* Different uses of libraries are at different places.
LEMMA UsesApart ==
  ASSUME NEW o, Sound(o), NEW u \in LibraryFields(o), NEW v \in LibraryFields(o), u.pos = v.pos
  PROVE  u = v
<1>1. PICK f \in o.fields : u = [pos |-> f.pos, of |-> f.is[2]]
  BY LibraryUse
<1>2. PICK g \in o.fields : v = [pos |-> g.pos, of |-> g.is[2]]
  BY LibraryUse
<1>3. f.pos = g.pos
  BY <1>1, <1>2
<1>4. f = g
  BY <1>3 DEF Sound
<1> QED BY <1>1, <1>2, <1>4

LEMMA LinkStepInv == AInv /\ Link => AInv'
<1> SUFFICES ASSUME AInv, Link PROVE AInv'
  OBVIOUS
<1>1. /\ step = "assembled"
      /\ UNCHANGED <<program, done, cur, step, item, bytesPerTag, bytesPerDataRef, object>>
  BY DEF Link
<1>2. PICK given : contracts' = [n \in Nodes |-> LinkObject(contracts[n], given)]
  BY DEF Link
<1>3. ControlInv' /\ ObjectInv'
  BY <1>1 DEF AInv, ControlInv, ObjectInv, Subs, Aims
<1>4. LinkInv'
  <2> SUFFICES ASSUME NEW n \in Nodes
               PROVE  IsObject(contracts'[n]) /\ LinkedExactly(contracts'[n], LibraryFields(object[n]))
    BY <1>1 DEF LinkInv
  <2>1. IsObject(contracts[n]) /\ LinkedExactly(contracts[n], LibraryFields(object[n]))
    BY <1>1 DEF AInv, LinkInv
  <2>2. Sound(object[n])
    BY DEF AInv, ObjectInv, Good
  <2>3. \A u, v \in LibraryFields(object[n]) : u.pos = v.pos => u = v
    BY <2>2, UsesApart
  <2>4. contracts'[n] = LinkObject(contracts[n], given)
    BY <1>2
  <2> QED BY <2>1, <2>3, <2>4, LinkKeeps
<1> QED BY <1>3, <1>4 DEF AInv

-----------------------------------------------------------------------------
(***************************************************************************)
(* The invariant and the results.                                          *)
(***************************************************************************)
LEMMA InitInv == Init => AInv
<1> SUFFICES ASSUME Init PROVE AInv
  OBVIOUS
<1>1. ControlInv
  BY DEF Init, ControlInv, Closed, Busy
<1>2. ObjectInv
  <2> SUFFICES ASSUME NEW n \in Nodes PROVE Good(EmptyObject, n, object, done) /\ Aims(EmptyObject, n)
    BY DEF Init, ObjectInv
  <2>1. IsObject(EmptyObject) /\ EmptyObject.fields = {} /\ EmptyObject.copies = {}
        /\ EmptyObject.links = {} /\ EmptyObject.linked = {} /\ EmptyObject.immutables = {}
    BY DEF EmptyObject, IsObject
  <2>2. LibraryFields(EmptyObject) = {}
    BY <2>1 DEF LibraryFields
  <2>3. Sound(EmptyObject)
    BY <2>1, <2>2, FS_EmptySet DEF Sound
  <2> QED BY <2>1, <2>3 DEF Good, Aims
<1>3. LinkInv
  BY DEF Init, LinkInv
<1> QED BY <1>1, <1>2, <1>3 DEF AInv

LEMMA NextInv == AInv /\ [Next]_vars => AInv'
<1> SUFFICES ASSUME AInv, [Next]_vars PROVE AInv'
  OBVIOUS
<1>1. CASE UNCHANGED vars
  BY <1>1 DEF AInv, ControlInv, ObjectInv, LinkInv, Aims, Subs, vars
<1>2. CASE Failed
  BY <1>1, <1>2 DEF Failed
<1> QED BY <1>1, <1>2, StartInv, EmitItemInv, FinishItemsInv, AppendSubInv, ResolveTagsInv, AppendDataInv,
           FinishInv, LinkStepInv DEF Next, Assemble

\* At every step of assemble and of link, the objects are good and the link
\* references are exact.
THEOREM ObjectsGood == Spec => []AInv
BY InitInv, NextInv, PTL DEF Spec

\* A copy of a subassembly in a complete object is this subassembly, field by
\* field: CopiesFaithful holds for every set of assemblies that assemble may
\* be given, however deep they are nested and however often they are shared.
THEOREM CopiesStayFaithful == Spec => []CopiesFaithful
<1>1. AInv => CopiesFaithful
  BY DEF AInv, ControlInv, ObjectInv, Good, CopiesFaithful
<1> QED BY <1>1, ObjectsGood, PTL

\* The link references of a complete object are exactly the uses of libraries
\* in it, and link, called with any addresses and any number of times, neither
\* loses one nor fills in anything else: LinksCoverUses.
THEOREM LinksExact == Spec => []LinksCoverUses
<1>1. AInv => LinksCoverUses
  BY DEF AInv, ControlInv, ObjectInv, LinkInv, Good, Sound, LinksCoverUses
<1> QED BY <1>1, ObjectsGood, PTL
=============================================================================
