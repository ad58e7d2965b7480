----------------------------- MODULE Assembler -----------------------------
(***************************************************************************)
(* Assembly::assemble and LinkerObject: from a list of assembly items to   *)
(* bytecode with references in it.                                         *)
(*                                                                         *)
(* The width of a reference is fixed before the positions it will hold are *)
(* known, from an estimate of the size of the code.  A reference is a      *)
(* field of the object, which has a position, a length and, once it is     *)
(* filled in, a value.  The other bytes only count.                        *)
(***************************************************************************)
EXTENDS Integers, Sequences, FiniteSets, FiniteSetsExt, SequencesExt

CONSTANTS
    N,            \* number of assemblies
    Tags,         \* tags of each assembly
    Immutables,   \* names of immutable variables
    Programs,     \* the assemblies that may be given to the assembler
    Libraries,    \* names in references to libraries: <<file, name>> or <<name>>
    Addresses     \* names that addresses are given for, of the same two forms

ASSUME NAssumption == N \in Nat \ {0}

Base == 256           \* values of a byte
AddressBytes == 21    \* Solidity++: addresses of 168 bits
CopiedBytes == 20     \* bytes that link copies
MaxId == 1000         \* numeric_limits<size_t>::max()

Nodes == 1..N
Unset == -1

(***************************************************************************)
(* Per assembly: the items, the subassemblies (an assembly may be a        *)
(* subassembly of several), the paths that have got an id, the data items  *)
(* in the order of their hashes and the size of the auxiliary data.        *)
(* The item "op" stands for n operations, "pushTag" refers to a tag of the *)
(* assembly itself (sub is 0) or of the subassembly with this index.       *)
(***************************************************************************)
Item == [kind : {"op"}, n : Nat]
          \cup [kind : {"tag"}, of : Tags]
          \cup [kind : {"push"}, width : Nat]
          \cup [kind : {"pushTag"}, sub : Nat, of : Tags]
          \cup [kind : {"pushSub", "pushSubSize"}, path : Seq(Nat)]
          \cup [kind : {"pushData"}, of : STRING]
          \cup [kind : {"pushLibrary"}, of : Libraries]
          \cup [kind : {"pushImmutable", "assignImmutable"}, of : Immutables]
          \cup [kind : {"pushProgramSize", "pushDeployTime"}]

\* subAssemblyById and decodeSubPath: the assembly at the end of a path of
\* indices.  It asserts that the path leads to a subassembly, at any depth.
Target(p, n, path) ==
    FoldLeft(LAMBDA m, k : p.subs[m][k], n, path)
Closed(p, S) == \A m \in S : ToSet(p.subs[m]) \subseteq S
Below(p, n) ==
    {m \in Nodes : \A S \in SUBSET Nodes : Closed(p, S) /\ ToSet(p.subs[n]) \subseteq S => m \in S}

ASSUME ProgramsAssumption ==
    \A p \in Programs : \A n \in Nodes :
        /\ p.items[n] \in Seq(Item)
        /\ p.subs[n] \in Seq(1..(n - 1))
        /\ p.data[n] \in Seq([name : STRING, size : Nat])
        /\ p.aux[n] \in Nat
        /\ \A i \in DOMAIN p.items[n] :
              p.items[n][i].kind = "pushSub" => Target(p, n, p.items[n][i].path) \in Below(p, n)

VARIABLES
    program,       \* the items of all assemblies
    done,          \* assemblies that are assembled
    cur,           \* the assembly that is being assembled, 0 if none
    step,          \* the part of assemble that is next
    item,          \* index of the next item or data item
    bytesPerTag, bytesPerDataRef,
    tagPositions,  \* m_tagPositionsInBytecode of every assembly
    immutablesOfSub,  \* immutables of the subassembly that are not assigned yet
    object,        \* m_assembledObject of every assembly
    contracts      \* copies of the objects, which get linked

vars == <<program, done, cur, step, item, bytesPerTag, bytesPerDataRef,
          tagPositions, immutablesOfSub, object, contracts>>

EmptyObject == [ size       |-> 0,
                 fields     |-> {},    \* references, filled in or not
                 jumpdests  |-> {},    \* where the tags are
                 copies     |-> {},    \* where subassemblies and data are
                 links      |-> {},    \* linkReferences
                 immutables |-> {},    \* immutableReferences
                 linked     |-> {} ]   \* uses of libraries that are filled in

Init ==
    /\ program \in Programs
    /\ done = {} /\ cur = 0 /\ step = "idle" /\ item = 1
    /\ bytesPerTag = 0 /\ bytesPerDataRef = 0
    /\ tagPositions = [n \in Nodes |-> [t \in Tags |-> Unset]]
    /\ immutablesOfSub = {}
    /\ object = [n \in Nodes |-> EmptyObject]
    /\ contracts = [n \in Nodes |-> EmptyObject]

-----------------------------------------------------------------------------
(***************************************************************************)
(* Sizes.                                                                  *)
(***************************************************************************)

MaxWidth == 3   \* code up to 16 MB, which AssemblyItem::bytesRequired takes for the worst case

\* util::bytesRequired
BytesRequired(v) ==
    CHOOSE w \in 0..MaxWidth : (w < MaxWidth => v < Base^w) /\ (w > 0 => ~(v < Base^(w - 1)))

\* toBigEndian into a field of len bytes
ToBigEndian(v, len) == v % Base^len

Items(n) == program.items[n]
Subs(n) == program.subs[n]
HasKind(n, kind) == \E i \in DOMAIN Items(n) : Items(n)[i].kind = kind

\* The subassembly with references to immutables, if there is one.
SubsWithImmutables(n) == {m \in ToSet(Subs(n)) : object[m].immutables # {}}
OffsetsOf(m, v) == {r.pos : r \in {x \in object[m].immutables : x.of = v}}
Occurrences(n, v) == MapThenSumSet(LAMBDA m : Cardinality(OffsetsOf(m, v)), SubsWithImmutables(n))

\* AssemblyItem::bytesRequired
ItemBytes(n, i, addressLength) ==
    CASE i.kind = "op" -> i.n
      [] i.kind = "tag" -> 1
      [] i.kind = "push" -> 1 + Max({1, i.width})
      [] i.kind \in {"pushSubSize", "pushProgramSize"} -> 1 + 4
      [] i.kind \in {"pushTag", "pushData", "pushSub"} -> 1 + addressLength
      [] i.kind \in {"pushLibrary", "pushDeployTime"} -> 1 + AddressBytes
      [] i.kind = "pushImmutable" -> 1 + 32
      [] i.kind = "assignImmutable" -> 1 + (3 + 32) * Occurrences(n, i.of)

\* Assembly::bytesRequired
CodeBytes(n, tagSize) ==
    1 + MapThenSumSet(LAMBDA d : program.data[n][d].size, DOMAIN program.data[n])
      + MapThenSumSet(LAMBDA i : ItemBytes(n, Items(n)[i], tagSize), DOMAIN Items(n))

\* Mutant: the code is measured once, with the width that is tried first.
EstimateOnce(n, subTagSize) == CodeBytes(n, subTagSize)

BytesRequiredForCode(n, subTagSize) ==
    LET tagSize == CHOOSE w \in subTagSize..(subTagSize + 3) :
                      /\ BytesRequired(CodeBytes(n, w)) <= w
                      /\ \A v \in subTagSize..(w - 1) : BytesRequired(CodeBytes(n, v)) > v
    IN CodeBytes(n, tagSize)

\* subTagSize in assemble: a position, although it is used as a width
SubTagSize(n) ==
    Max({1} \cup UNION {{tagPositions[m][t] : t \in Tags} : m \in ToSet(Subs(n))})

(***************************************************************************)
(* The parts of assemble.                                                  *)
(***************************************************************************)
Fails == step' = "failed" /\ UNCHANGED <<object, tagPositions, immutablesOfSub, item, contracts>>
In(s) == step = s /\ UNCHANGED <<program, bytesPerTag, bytesPerDataRef>>
Obj == object[cur]

\* What a part of assemble appends to the bytecode.
Grow(o) == object' = [object EXCEPT ![cur] = o]

\* Mutant: subassemblies do not count for the width of references to data.
StartWithoutSubs ==
    \E n \in Nodes \ done :
      LET subs == ToSet(Subs(n))
          forCode == BytesRequiredForCode(n, SubTagSize(n))
      IN /\ step = "idle"
         /\ subs \subseteq done
         /\ cur' = n /\ item' = 1
         /\ bytesPerTag' = BytesRequired(forCode)
         /\ bytesPerDataRef' = BytesRequired(forCode + 1 + program.aux[n])
         /\ immutablesOfSub' = UNION {{r.of : r \in object[m].immutables} : m \in subs}
         /\ step' = "items"
         /\ UNCHANGED <<program, done, object, tagPositions, contracts>>

\* Mutant: the subassemblies are not assembled first.
StartAnytime ==
    \E n \in Nodes \ done :
      LET subs == ToSet(Subs(n))
          forCode == BytesRequiredForCode(n, SubTagSize(n))
      IN /\ step = "idle"
         /\ cur' = n /\ item' = 1
         /\ bytesPerTag' = BytesRequired(forCode)
         /\ bytesPerDataRef' = 3
         /\ immutablesOfSub' = UNION {{r.of : r \in object[m].immutables} : m \in subs}
         /\ step' = "items"
         /\ UNCHANGED <<program, done, object, tagPositions, contracts>>

\* The part before the loop over the items.  assemble is called for the
\* subassemblies first; in which order does not matter, and a subassembly
\* that is shared is assembled once.
Start ==
    \E n \in Nodes \ done :
      LET subs == ToSet(Subs(n))
          forCode == BytesRequiredForCode(n, SubTagSize(n))
          withData == forCode + 1 + program.aux[n]
                        + MapThenSumSet(LAMBDA k : object[Subs(n)[k]].size, DOMAIN Subs(n))
      IN /\ step = "idle"
         /\ subs \subseteq done
         /\ cur' = n /\ item' = 1
         /\ bytesPerTag' = BytesRequired(forCode)
         /\ bytesPerDataRef' = BytesRequired(withData)
         /\ immutablesOfSub' = UNION {{r.of : r \in object[m].immutables} : m \in subs}
         /\ step' = IF \/ \E i, j \in DOMAIN Subs(n) :
                             i # j /\ {Subs(n)[i], Subs(n)[j]} \subseteq SubsWithImmutables(n)
                       \/ HasKind(n, "assignImmutable") /\ HasKind(n, "pushImmutable")
                      THEN "failed" ELSE "items"
         /\ UNCHANGED <<program, done, object, tagPositions, contracts>>

\* encodeSubPath: the number that stands for a path.
SubId(n, path) ==
    IF Len(path) = 1 THEN path[1] ELSE MaxId - (CHOOSE k \in DOMAIN program.paths[n] : program.paths[n][k] = path)

\* A field behind a push instruction at the end of the bytecode.
Field(len, is, val) ==
    [pos |-> Obj.size + 1, len |-> len, node |-> cur, is |-> is, val |-> val]
WithField(f) == [Obj EXCEPT !.size = @ + 1 + f.len, !.fields = @ \cup {f}]

\* The code of AssignImmutable: DUP2 DUP2 but for the last offset, PUSH ADD MSTORE
AssignBytes(v) ==
    LET offsets == IF v \in immutablesOfSub
                     THEN UNION {OffsetsOf(m, v) : m \in ToSet(Subs(cur))} ELSE {}
    IN IF offsets = {} THEN 2
       ELSE Cardinality(UNION {{p} \X (1..(5 + BytesRequired(p))) : p \in offsets}) - 2

\* One item of the loop.  Items of a kind not named here only count.
EmitReference(i) ==
    /\ Grow(CASE i.kind = "pushTag" -> WithField(Field(bytesPerTag, <<"tag", i.sub, i.of>>, Unset))
              [] i.kind = "pushSub" -> WithField(Field(bytesPerDataRef, <<"sub", i.path>>, Unset))
              [] i.kind = "pushData" -> WithField(Field(bytesPerDataRef, <<"data", i.of>>, Unset))
              [] i.kind = "pushProgramSize" -> WithField(Field(bytesPerDataRef, <<"size">>, Unset))
              [] i.kind = "pushSubSize" ->
                   LET s == object[Target(program, cur, i.path)].size
                   IN WithField(Field(Max({1, BytesRequired(s)}), <<"subSize", i.path>>, s))
              [] i.kind = "pushLibrary" ->
                   [WithField(Field(AddressBytes, <<"library", i.of>>, Unset)) EXCEPT
                       !.links = @ \cup {[pos |-> Obj.size + 1, of |-> i.of]}]
              [] i.kind = "pushImmutable" ->
                   [WithField(Field(32, <<"immutable", i.of>>, Unset)) EXCEPT
                       !.immutables = @ \cup {[pos |-> Obj.size + 1, of |-> i.of]}]
              [] OTHER -> [Obj EXCEPT !.size = @ + (IF i.kind = "assignImmutable" THEN AssignBytes(i.of)
                                                    ELSE ItemBytes(cur, i, 0))])
    /\ immutablesOfSub' = IF i.kind = "assignImmutable" THEN immutablesOfSub \ {i.of} ELSE immutablesOfSub
    /\ UNCHANGED tagPositions

EmitTag(i) ==
    /\ tagPositions' = [tagPositions EXCEPT ![cur][i.of] = Obj.size]
    /\ Grow([Obj EXCEPT !.size = @ + 1,
                        !.jumpdests = @ \cup {[pos |-> Obj.size, node |-> cur, tag |-> i.of]}])
    /\ UNCHANGED immutablesOfSub

EmitItem ==
    LET i == Items(cur)[item] IN
    /\ In("items")
    /\ item <= Len(Items(cur))
    /\ UNCHANGED <<done, cur>>
    /\ IF i.kind = "tag" /\ tagPositions[cur][i.of] # Unset THEN Fails
       ELSE /\ IF i.kind = "tag" THEN EmitTag(i) ELSE EmitReference(i)
            /\ item' = item + 1
            /\ UNCHANGED <<step, contracts>>

\* The part behind the loop: an immutable that is read must be assigned.
FinishItems ==
    /\ In("items")
    /\ item > Len(Items(cur))
    /\ UNCHANGED <<done, cur>>
    /\ IF immutablesOfSub # {} THEN Fails
       ELSE /\ step' = "subs"
            /\ item' = 1
            /\ Grow(IF Subs(cur) # <<>> \/ program.data[cur] # <<>> \/ program.aux[cur] > 0
                      THEN [Obj EXCEPT !.size = @ + 1] ELSE Obj)
            /\ UNCHANGED <<tagPositions, immutablesOfSub, contracts>>

\* LinkerObject::append
Shifted(S, by) == {[x EXCEPT !.pos = @ + by] : x \in S}

\* Mutant: the references are moved by the size after the append.
AppendObjectLate(o, x) ==
    [o EXCEPT !.size = @ + x.size,
              !.fields = @ \cup Shifted(x.fields, o.size),
              !.jumpdests = @ \cup Shifted(x.jumpdests, o.size),
              !.copies = @ \cup Shifted(x.copies, o.size),
              !.links = @ \cup Shifted(x.links, o.size + x.size)]

AppendObject(o, x) ==
    [o EXCEPT !.size = @ + x.size,
              !.fields = @ \cup Shifted(x.fields, o.size),
              !.jumpdests = @ \cup Shifted(x.jumpdests, o.size),
              !.copies = @ \cup Shifted(x.copies, o.size),
              !.links = @ \cup Shifted(x.links, o.size)]

\* Fields of this assembly that wait for a value, and a field filled in.
Waiting(kind) == {f \in Obj.fields : f.node = cur /\ f.is[1] = kind /\ f.val = Unset}
FillIn(o, F, v) == [o EXCEPT !.fields = (@ \ F) \cup {[f EXCEPT !.val = ToBigEndian(v, f.len)] : f \in F}]
CopyOf(is) == [pos |-> Obj.size, is |-> is]

\* One round of the loop over subRef, in the order of the ids: every PushSub
\* gets a copy of its own.
AppendSub ==
    /\ In("subs")
    /\ \E f \in Waiting("sub") :
      /\ \A g \in Waiting("sub") :
            \/ SubId(cur, f.is[2]) < SubId(cur, g.is[2])
            \/ SubId(cur, f.is[2]) = SubId(cur, g.is[2]) /\ f.pos <= g.pos
      /\ LET m == Target(program, cur, f.is[2])
             filled == FillIn(Obj, {f}, Obj.size)
         IN Grow([AppendObject(filled, object[m]) EXCEPT !.copies = @ \cup {CopyOf(<<"sub", m>>)}])
      /\ UNCHANGED <<done, cur, step, item, tagPositions, immutablesOfSub, contracts>>

\* The loop over tagRef.
TagPosition(f) ==
    LET asm == IF f.is[2] = 0 THEN cur ELSE Subs(cur)[f.is[2]] IN tagPositions[asm][f.is[3]]

ResolveTags ==
    LET refs == Waiting("tag") IN
    /\ In("subs")
    /\ Waiting("sub") = {}
    /\ UNCHANGED <<done, cur>>
    /\ IF \E f \in refs : TagPosition(f) = Unset \/ BytesRequired(TagPosition(f)) > bytesPerTag
         THEN Fails
         ELSE /\ Grow([Obj EXCEPT !.fields = (@ \ refs) \cup
                           {[f EXCEPT !.val = ToBigEndian(TagPosition(f), f.len)] : f \in refs}])
              /\ step' = "data"
              /\ UNCHANGED <<item, tagPositions, immutablesOfSub, contracts>>

\* One round of the loop over m_data: data without reference is left out.
AppendData ==
    LET d == program.data[cur][item]
        refs == {f \in Waiting("data") : f.is[2] = d.name}
    IN /\ In("data")
       /\ item <= Len(program.data[cur])
       /\ Grow(IF refs = {} THEN Obj
               ELSE [FillIn(Obj, refs, Obj.size) EXCEPT
                        !.size = @ + d.size, !.copies = @ \cup {CopyOf(<<"data", d.name>>)}])
       /\ item' = item + 1
       /\ UNCHANGED <<done, cur, step, tagPositions, immutablesOfSub, contracts>>

\* The end of assemble: the auxiliary data and the size of the program.  When
\* everything is assembled, CompilerStack takes copies of the objects.
Finish ==
    LET size == Obj.size + program.aux[cur]
        refs == Waiting("size")
    IN /\ In("data")
       /\ item > Len(program.data[cur])
       /\ Grow([FillIn(Obj, refs, size) EXCEPT !.size = size])
       /\ done' = done \cup {cur}
       /\ cur' = 0
       /\ step' = IF done' = Nodes THEN "assembled" ELSE "idle"
       /\ contracts' = IF done' = Nodes THEN object' ELSE contracts
       /\ UNCHANGED <<item, tagPositions, immutablesOfSub>>

\* LinkerObject::matchLibrary: the full name first, then what follows the colon
MatchLibrary(name, given) ==
    IF name \in given THEN {name}
    ELSE IF Len(name) = 2 /\ <<name[2]>> \in given THEN {<<name[2]>>}
    ELSE {}

\* LinkerObject::link
LinkObject(o, given) ==
    LET found == {r \in o.links : MatchLibrary(r.of, given) # {}}
    IN [o EXCEPT !.links = @ \ found,
                 !.linked = {x \in @ : \A r \in found : r.pos # x.pos}
                     \cup {[pos |-> r.pos, by |-> CHOOSE a \in MatchLibrary(r.of, given) : TRUE,
                            bytes |-> CopiedBytes] : r \in found}]

\* CompilerStack::link and callers that link what is left later.
Link ==
    \E given \in SUBSET Addresses :
       /\ step = "assembled"
       /\ contracts' = [n \in Nodes |-> LinkObject(contracts[n], given)]
       /\ UNCHANGED <<program, done, cur, step, item, bytesPerTag, bytesPerDataRef,
                      tagPositions, immutablesOfSub, object>>

Failed == step = "failed" /\ UNCHANGED vars

Assemble == Start \/ EmitItem \/ FinishItems \/ AppendSub \/ ResolveTags \/ AppendData \/ Finish

Next == Assemble \/ Link \/ Failed
Spec == Init /\ [][Next]_vars
-----------------------------------------------------------------------------
\* Type invariant.
TypeOK ==
    /\ program \in Programs
    /\ done \subseteq Nodes /\ cur \in 0..N
    /\ step \in {"idle", "items", "subs", "data", "assembled", "failed"}
    /\ bytesPerTag \in 0..3 /\ bytesPerDataRef \in 0..3
    /\ tagPositions \in [Nodes -> [Tags -> Int]]
    /\ immutablesOfSub \subseteq Immutables
    /\ \A n \in Nodes : /\ object[n].size \in Nat
                        /\ \A r \in object[n].links : r.of \in Libraries
                        /\ \A f \in object[n].fields : f.val \in -1..(Base^3 - 1)

\* The references of an assembly: its own fields, not those of the copies in it.
Own(n) == {f \in object[n].fields : f.node = n}

\* What the widths were chosen for: the first estimate of the code that fits
\* the width it assumes, and with it the object.  The items may outgrow it:
\* an immutable that nobody reads takes two bytes instead of one when it is
\* assigned, a reference to data may be wider than one to a tag, and a
\* subassembly is counted once although every reference appends a copy.
EstimatedCode(n) ==
    Min({CodeBytes(n, w) : w \in {v \in SubTagSize(n)..(SubTagSize(n) + 3) :
                                    BytesRequired(CodeBytes(n, v)) <= v}})
EstimatedObject(n) ==
    EstimatedCode(n) + 1 + program.aux[n]
      + MapThenSumSet(LAMBDA k : object[Subs(n)[k]].size, DOMAIN Subs(n))
EmittedCode(n) == Min({object[n].size} \cup {c.pos : c \in object[n].copies})

\* A reference that is filled in holds, in the bytes it has, exactly the
\* position of what it refers to: a JUMPDEST of that tag (relative to the start
\* of the assembly the tag belongs to), the first byte of a copy of the
\* subassembly or of the data, the size of the program or of the subassembly.
\* The widths were chosen before these positions were known.  An object larger
\* than it was estimated may have them cut off, which assemble does not notice.
Holds(n, f) ==
    CASE f.is[1] = "tag" ->
           LET m == IF f.is[2] = 0 THEN n ELSE Subs(n)[f.is[2]]
           IN [pos |-> f.val, node |-> m, tag |-> f.is[3]] \in object[m].jumpdests
      [] f.is[1] = "sub" -> [pos |-> f.val, is |-> <<"sub", Target(program, n, f.is[2])>>] \in object[n].copies
      [] f.is[1] = "data" -> [pos |-> f.val, is |-> <<"data", f.is[2]>>] \in object[n].copies
      [] f.is[1] = "size" -> f.val = object[n].size
      [] f.is[1] = "subSize" -> f.val = object[Target(program, n, f.is[2])].size
      [] OTHER -> TRUE

ReferencesExact ==
    \A n \in done : object[n].size <= EstimatedObject(n) => \A f \in Own(n) : Holds(n, f)

\* AssemblyItem::bytesRequired says it returns "an upper bound for the number of
\* bytes required by this item" if a tag takes the bytes it is told.  So all
\* items together stay within the sum, for the widths that were chosen.  The code
\* violates it, for immutables that nobody reads, for instance.
EstimateIsUpperBound ==
    step = "subs" => EmittedCode(cur) <= CodeBytes(cur, Max({bytesPerTag, bytesPerDataRef}))

\* Every use of a library in an object, in copies of subassemblies at any
\* depth too, has its link reference at the place where the address belongs,
\* and there are no others.  In the copies that are linked, in one go or
\* several, a use either keeps its reference or holds an address that was given
\* for it: nothing stays unlinked unnoticed and link writes nowhere else.  How
\* many bytes of the address are written is left to AddressesFilledIn.
LibraryFields(o) == {[pos |-> f.pos, of |-> f.is[2]] : f \in {g \in o.fields : g.is[1] = "library"}}
LinkedFor(c, u) == {x \in c.linked : x.pos = u.pos /\ x.by \in {u.of, <<Last(u.of)>>}}
LinkedExactly(c, uses) ==
    /\ \A u \in uses : u \in c.links <=> LinkedFor(c, u) = {}
    /\ c.links \cup {u \in uses : LinkedFor(c, u) # {}} = uses
    /\ c.linked = UNION {LinkedFor(c, u) : u \in uses}
LinksCoverUses ==
    \A n \in done :
       /\ object[n].links = LibraryFields(object[n])
       /\ step = "assembled" => LinkedExactly(contracts[n], LibraryFields(object[n]))

\* link "replaces" the references by the addresses of the libraries: a use that
\* lost its reference holds all the bytes that PUSH21 reads.  The code violates it:
\* link copies one byte less.
AddressesFilledIn ==
    \A n \in Nodes : \A x \in contracts[n].linked : x.bytes = AddressBytes

\* A copy of a subassembly is the object of this subassembly, byte by byte:
\* its references are those it was assembled with and stay relative to its
\* start, wherever and how often it is copied.  No push instruction reaches
\* into the copy from outside.
Overlaps(f, start, size) == f.pos - 1 < start + size /\ f.pos + f.len > start
Faithful(o, at, sub) ==
    /\ at + sub.size <= o.size
    /\ {f \in o.fields : Overlaps(f, at, sub.size)} = Shifted(sub.fields, at)
CopiesFaithful ==
    \A n \in done : \A c \in object[n].copies :
        c.is[1] = "sub" => Faithful(object[n], c.pos, object[c.is[2]])

\* assemble gives up for no other reason than an assembly that is wrong: a tag
\* that has two positions or is referred to and has none, immutables that are
\* read and not assigned, or assigned and read by one assembly, or read by two
\* subassemblies.  As long as the code stays within its estimate, the space
\* reserved for a tag suffices.
Placed(n, t) == {i \in DOMAIN Items(n) : Items(n)[i].kind = "tag" /\ Items(n)[i].of = t}
Reads(n) == {Items(n)[i].of : i \in {j \in DOMAIN Items(n) : Items(n)[j].kind = "pushImmutable"}}
Assigns(n) == {Items(n)[i].of : i \in {j \in DOMAIN Items(n) : Items(n)[j].kind = "assignImmutable"}}
Wrong(n) ==
    \/ \E t \in Tags : Cardinality(Placed(n, t)) > 1
    \/ \E i \in DOMAIN Items(n) : Items(n)[i].kind = "pushTag" /\
          Placed(IF Items(n)[i].sub = 0 THEN n ELSE Subs(n)[Items(n)[i].sub], Items(n)[i].of) = {}
    \/ Reads(n) # {} /\ Assigns(n) # {}
    \/ \E m \in ToSet(Subs(n)) : ~(Reads(m) \subseteq Assigns(n))
    \/ \E i, j \in DOMAIN Subs(n) : i # j /\ Reads(Subs(n)[i]) # {} /\ Reads(Subs(n)[j]) # {}
FailsOnlyForCause ==
    step = "failed" => Wrong(cur) \/ EmittedCode(cur) > EstimatedCode(cur)

=============================================================================
