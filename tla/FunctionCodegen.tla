-------------------------- MODULE FunctionCodegen --------------------------
(***************************************************************************)
(* Code generation of the statements of one function, with its modifiers,  *)
(* by ContractCompiler::visit, and the execution of the code generated.    *)
(*                                                                         *)
(* The compiler never sees the stack of the EVM: it keeps a counter, the   *)
(* deposit of the assembly (height here), and corrects it by hand around   *)
(* every jump.  The addresses of the local variables, the number of slots  *)
(* that break, continue and return remove, and the reshuffling at the end  *)
(* of the function all rest on this counter.  Here the code is run, with   *)
(* all branches possible, on a stack that knows what its slots hold.       *)
(*                                                                         *)
(* visit methods become lists of tasks that are carried out in order: a    *)
(* task emits an instruction, changes a field of the compiler or visits a  *)
(* nested statement.                                                       *)
(***************************************************************************)
EXTENDS Integers, Sequences, SequencesExt

CONSTANTS
    Vars,        \* names of local variables, parameters and return parameters
    Marks,       \* names of expression statements
    Statements,  \* the statements of the functions, nested ones too
    ScopesIn,    \* per statement the ids of the blocks and for loops in it
    Programs,    \* the functions that may be compiled
    Reach        \* how deep SWAP and DUP reach into the stack: 16

ASSUME ReachAssumption == Reach \in Nat \ {0}

(***************************************************************************)
(* A variable takes one or two slots and may have an initial value.  Of    *)
(* the clauses of a try statement there are one or none (<<>>); those of   *)
(* Error(string) and Panic(uint) take one slot, and the one for success    *)
(* takes all return values or none.                                        *)
(***************************************************************************)
Variable == [name : Vars, size : {1, 2}, init : BOOLEAN]
FunctionKinds == {"function", "constructor", "fallback", "receive"}
Optional(S) == {q \in Seq(S) : Len(q) <= 1}

Node == UNION {ScopesIn[s] : s \in Statements}
Block == {s \in Statements : s.kind = "block"}

\* Where a single statement stands, the syntax checker admits no declaration.
Single == {s \in Statements : s.kind # "declare"}
Clauses == [params : Seq(Variable), block : Block]
DataClauses == {c \in Clauses : Len(c.params) = 1 /\ c.params[1].size = 1}

Statement ==
    [kind : {"block"}, id : Node, body : Seq(Statements)]
      \cup [kind : {"declare"}, vars : Seq(Variable), init : BOOLEAN]
      \cup [kind : {"eval"}, mark : Marks]
      \cup [kind : {"use"}, var : Variable]
      \cup [kind : {"if"}, then : Single, else : Optional(Single)]
      \cup [kind : {"while", "dowhile"}, body : Single]
      \cup [kind : {"for"}, id : Node, init : Optional(Statements), cond : BOOLEAN, body : Single,
             next : Optional(Single)]
      \cup [kind : {"break", "continue", "placeholder"}]
      \cup [kind : {"return"}, value : BOOLEAN]
      \cup [kind : {"try"}, returns : Seq(Variable), success : Clauses, error : Optional(DataClauses),
             panic : Optional(DataClauses), fallback : Optional(Clauses)]

\* What stands directly in a statement.
Parts(s) ==
    CASE s.kind = "block" -> ToSet(s.body)
      [] s.kind = "if" -> {s.then} \cup ToSet(s.else)
      [] s.kind \in {"while", "dowhile"} -> {s.body}
      [] s.kind = "for" -> ToSet(s.init) \cup {s.body} \cup ToSet(s.next)
      [] s.kind = "try" ->
           {c.block : c \in {s.success} \cup ToSet(s.error) \cup ToSet(s.panic) \cup ToSet(s.fallback)}
      [] OTHER -> {}

\* No node of the syntax tree stands in itself.
ASSUME StatementsAssumption ==
    \A s \in Statements :
        /\ s \in Statement
        /\ \A c \in Parts(s) : ScopesIn[c] \subseteq ScopesIn[s]
        /\ s.kind \in {"block", "for"} => /\ s.id \in ScopesIn[s]
                                         /\ \A c \in Parts(s) : s.id \notin ScopesIn[c]
        /\ s.kind = "try" => s.success.params \in {<<>>, s.returns}

ASSUME ProgramsAssumption ==
    \A f \in Programs :
        /\ f.kind \in FunctionKinds
        /\ f.params \in Seq(Variable) /\ f.returns \in Seq(Variable)
        /\ f.kind = "receive" => f.params = <<>> /\ f.returns = <<>>
        /\ f.modifiers \in Seq([isBase : BOOLEAN, params : Seq(Variable), body : Block])
        /\ f.body \in Block

VARIABLES
    fn,            \* the function that is compiled
    phase,         \* compile, run, or how things ended
    todo,          \* tasks of the compiler
    height,        \* Assembly::deposit
    code,          \* the instructions emitted, each with the height before it
    tags,          \* number of tags created
    breakTags, continueTags, returnTags,   \* stacks of tags with heights
    scopes,        \* m_scopeStackHeight, a set of [depth, node, height]
    localVariables,  \* per variable the stack of its base offsets
    depth,         \* m_modifierDepth, -1 before the first block
    stack, ip,     \* the machine: what the slots hold, the next instruction
    executed       \* marks executed since entry

compilerVars == <<todo, height, code, tags, breakTags, continueTags, returnTags,
                  scopes, localVariables, depth>>
machineVars == <<stack, ip, executed>>
vars == <<fn, phase, compilerVars, machineVars>>

tagStacks == <<breakTags, continueTags, returnTags>>

-----------------------------------------------------------------------------
(***************************************************************************)
(* Slots.                                                                  *)
(***************************************************************************)
Slot(name, part, val) == [name |-> name, part |-> part, val |-> val]
Temp == Slot("temp", 1, "value")
ReturnAddress == Slot("return address", 1, "value")

\* The slots of variable x, the default value or the value it is given.
SlotsOf(x, val) == [i \in 1..x.size |-> Slot(x.name, i, val)]
Declared(x) == SlotsOf(x, IF x.init THEN "value" ELSE "zero")

AllSlots(xs, val) == FlattenSeq([i \in 1..Len(xs) |-> SlotsOf(xs[i], val)])

\* CompilerUtils::sizeOnStack
SizeOnStack(xs) == Len(AllSlots(xs, "zero"))

(***************************************************************************)
(* Tasks.                                                                  *)
(***************************************************************************)
Visit(s)         == [do |-> "visit", s |-> s]
Visits(ss)       == [i \in 1..Len(ss) |-> Visit(ss[i])]
Emit(op, n, vals) == [do |-> "emit", op |-> op, n |-> n, vals |-> vals]
Push(vals)       == Emit("push", 0, vals)    \* an expression that leaves vals
Pop(n)           == Emit("pop", n, <<>>)     \* popStackSlots
JumpI(t)         == Emit("jumpi", t, <<>>)   \* appendConditionalJumpTo
Jump(t)          == Emit("jump", t, <<>>)    \* appendJumpTo
Place(t)         == Emit("tag", t, <<>>)     \* operator<< of a tag
Condition        == Push(<<Temp>>)
Adjust(n)        == [do |-> "adjust", n |-> n]
AddVariable(x, off) == [do |-> "addVariable", x |-> x, off |-> off]
Assign(x)        == [do |-> "assign", x |-> x]
Check(h)         == [do |-> "check", h |-> h]
OpenScope(node)  == [do |-> "openScope", node |-> node]
CloseScope(node) == [do |-> "closeScope", node |-> node]
OpenLoop(b, c)   == [do |-> "openLoop", b |-> b, c |-> c]
CloseLoop        == [do |-> "closeLoop"]
OpenReturn(t)    == [do |-> "openReturn", t |-> t]
CloseReturn      == [do |-> "closeReturn"]
LeaveDepth       == [do |-> "leaveDepth"]
RemoveVariable(x) == [do |-> "removeVariable", x |-> x]
CodeBlock        == [do |-> "codeBlock"]
Cleanup(layout)  == [do |-> "cleanup", layout |-> layout]
Finish           == [do |-> "finish"]

\* Variables whose value is on the stack already: addVariable with the
\* distance of each from the top.
AddOnStack(xs) ==
    [i \in 1..Len(xs) |-> AddVariable(xs[i], SizeOnStack(SubSeq(xs, i, Len(xs))))]

\* appendStackVariableInitialisation
InitialiseVariable(x) == <<AddVariable(x, 0), Push(SlotsOf(x, "zero"))>>

\* Mutant: the values are moved to the variables in the order of these.
AssignInOrder(xs) == [i \in 1..Len(xs) |-> Assign(xs[i])]

\* The value on top of the stack is moved to the variables, last one first.
AssignAll(xs) == Reverse([i \in 1..Len(xs) |-> Assign(xs[i])])

\* visit(FunctionDefinition).  In the layout a slot to be discarded is 0 and
\* positions count from 1.
Layout(f) ==
    LET r == SizeOnStack(f.returns)
    IN (IF f.kind \in {"function", "receive"} THEN <<r + 1>> ELSE <<>>)
         \o [i \in 1..SizeOnStack(f.params) |-> 0]
         \o [i \in 1..r |-> i]

FunctionTasks(f) ==
    <<Adjust(CASE f.kind = "constructor" -> 0
               [] f.kind = "fallback"    -> SizeOnStack(f.params)
               [] OTHER                  -> SizeOnStack(f.params) + 1)>>
      \o AddOnStack(f.params)
      \o FlattenSeq([i \in 1..Len(f.returns) |-> InitialiseVariable(f.returns[i])])
      \o <<CodeBlock, Cleanup(Layout(f))>>
      \o [i \in 1..Len(f.params \o f.returns) |-> RemoveVariable((f.params \o f.returns)[i])]
      \o <<Adjust(0 - SizeOnStack(f.returns)), Finish>>

\* What is on the stack when the code is entered.  The arguments of constructor
\* and fallback are pushed, and counted, before these are visited.
Entry(f) == (IF f.kind = "function" THEN <<ReturnAddress>> ELSE <<>>) \o AllSlots(f.params, "value")

Init ==
    /\ fn \in Programs
    /\ phase = "compile"
    /\ todo = FunctionTasks(fn)
    /\ height = IF fn.kind \in {"constructor", "fallback"} THEN SizeOnStack(fn.params) ELSE 0
    /\ code = <<>>
    /\ tags = 0
    /\ breakTags = <<>> /\ continueTags = <<>> /\ returnTags = <<>>
    /\ scopes = {}
    /\ localVariables = [x \in Vars |-> <<>>]
    /\ depth = -1
    /\ stack = Entry(fn)
    /\ ip = 1
    /\ executed = {}

-----------------------------------------------------------------------------
(***************************************************************************)
(* The visit methods.                                                      *)
(***************************************************************************)
Visiting(kind) ==
    /\ phase = "compile"
    /\ todo # <<>>
    /\ Head(todo).do = "visit"
    /\ Head(todo).s.kind = kind

Stmt == Head(todo).s
NewTag(i) == tags + i

\* The visit is replaced by tasks, n tags having been created for them.
Becomes(tasks, n) ==
    /\ todo' = tasks \o Tail(todo)
    /\ tags' = tags + n
    /\ UNCHANGED <<fn, phase, height, code, tagStacks, scopes, localVariables, depth,
                   machineVars>>

\* visit(Block) and endVisit(Block)
VisitBlock ==
    /\ Visiting("block")
    /\ Becomes(<<OpenScope(Stmt.id)>> \o Visits(Stmt.body) \o <<CloseScope(Stmt.id)>>, 0)

\* visit(VariableDeclarationStatement)
VisitDeclare ==
    /\ Visiting("declare")
    /\ Becomes(FlattenSeq([i \in 1..Len(Stmt.vars) |-> InitialiseVariable(Stmt.vars[i])])
                 \o (IF Stmt.init THEN <<Push(AllSlots(Stmt.vars, "value"))>> \o AssignAll(Stmt.vars)
                                  ELSE <<>>)
                 \o <<Check(height + SizeOnStack(Stmt.vars))>>, 0)

\* visit(ExpressionStatement) and visit(EmitStatement)
VisitEval ==
    /\ Visiting("eval")
    /\ Becomes(<<Push(<<Slot(Stmt.mark, 1, "value")>>), Pop(1), Check(height)>>, 0)

\* An expression statement that reads a local variable.
VisitUse ==
    /\ Visiting("use")
    /\ Becomes(<<[do |-> "read", x |-> Stmt.var], Pop(Stmt.var.size), Check(height)>>, 0)

\* visit(IfStatement)
VisitIf ==
    /\ Visiting("if")
    /\ Becomes(<<Condition, JumpI(NewTag(1)), Visit(Stmt.then)>>
                 \o (IF Stmt.else = <<>> THEN <<Place(NewTag(1))>>
                       ELSE <<Jump(NewTag(2)), Place(NewTag(1))>> \o Visits(Stmt.else)
                               \o <<Place(NewTag(2))>>)
                 \o <<Check(height)>>, 2)

\* visit(WhileStatement)
VisitWhile ==
    LET loopStart == NewTag(1)
        loopEnd   == NewTag(2)
    IN /\ Visiting("while")
       /\ Becomes(<<OpenLoop(loopEnd, loopStart), Place(loopStart), Condition, JumpI(loopEnd),
                    Visit(Stmt.body), Jump(loopStart), Place(loopEnd), CloseLoop, Check(height)>>, 2)

VisitDoWhile ==
    LET loopStart == NewTag(1)
        loopEnd   == NewTag(2)
        condition == NewTag(3)
    IN /\ Visiting("dowhile")
       /\ Becomes(<<OpenLoop(loopEnd, condition), Place(loopStart), Visit(Stmt.body),
                    Place(condition), Condition, JumpI(loopStart), Place(loopEnd), CloseLoop,
                    Check(height)>>, 3)

\* Mutant: the height of the loop is taken before its variable is declared.
ForHeightBeforeInit ==
    LET loopStart == NewTag(1)
        loopEnd   == NewTag(2)
        loopNext  == NewTag(3)
    IN /\ Visiting("for")
       /\ Becomes(<<OpenScope(Stmt.id), OpenLoop(loopEnd, loopNext)>>
                    \o Visits(Stmt.init) \o <<Place(loopStart)>>
                    \o (IF Stmt.cond THEN <<Condition, JumpI(loopEnd)>> ELSE <<>>)
                    \o <<Visit(Stmt.body), Place(loopNext)>>
                    \o Visits(Stmt.next)
                    \o <<Jump(loopStart), Place(loopEnd), CloseLoop, CloseScope(Stmt.id),
                         Check(height)>>, 3)

\* visit(ForStatement)
VisitFor ==
    LET loopStart == NewTag(1)
        loopEnd   == NewTag(2)
        loopNext  == NewTag(3)
    IN /\ Visiting("for")
       /\ Becomes(<<OpenScope(Stmt.id)>>
                    \o Visits(Stmt.init)
                    \o <<OpenLoop(loopEnd, loopNext), Place(loopStart)>>
                    \o (IF Stmt.cond THEN <<Condition, JumpI(loopEnd)>> ELSE <<>>)
                    \o <<Visit(Stmt.body), Place(loopNext)>>
                    \o Visits(Stmt.next)
                    \o <<Jump(loopStart), Place(loopEnd), CloseLoop, CloseScope(Stmt.id),
                         Check(height)>>, 3)

\* popAndJump to the entry on top of a stack of tags
Leave(entry) == [do |-> "leave", entry |-> entry]

\* visit(Break) and visit(Continue): the syntax checker has seen to it that
\* there is a loop.
VisitBreak == Visiting("break") /\ breakTags # <<>> /\ Becomes(<<Leave(Last(breakTags))>>, 0)
VisitContinue ==
    Visiting("continue") /\ continueTags # <<>> /\ Becomes(<<Leave(Last(continueTags))>>, 0)

\* Mutant: return leaves the function and not the code of the modifier.
ReturnFromFunction ==
    /\ Visiting("return")
    /\ Becomes((IF Stmt.value THEN <<Push(AllSlots(fn.returns, "value"))>> \o AssignAll(fn.returns)
                              ELSE <<>>)
                 \o <<Leave(Head(returnTags))>>, 0)

\* visit(Return)
VisitReturn ==
    /\ Visiting("return")
    /\ Becomes((IF Stmt.value THEN <<Push(AllSlots(fn.returns, "value"))>> \o AssignAll(fn.returns)
                              ELSE <<>>)
                 \o <<Leave(Last(returnTags))>>, 0)

\* visit(PlaceholderStatement)
VisitPlaceholder == Visiting("placeholder") /\ Becomes(<<CodeBlock, Check(height)>>, 0)

\* visit(TryCatchClause): the parameters of the clause are on the stack.
Clause(c) ==
    AddOnStack(c.params) \o <<Visit(c.block), [do |-> "closeClause", n |-> SizeOnStack(c.params)]>>

\* What follows the decoding of the error data: the value and a success flag
\* are on the stack.
DecodedClause(c, decodeSuccess, fallbackTag, endTag) ==
    <<Push(AllSlots(c.params, "value")), Condition, JumpI(decodeSuccess), Pop(1), Jump(fallbackTag),
      Adjust(1), Place(decodeSuccess)>> \o Clause(c) \o <<Jump(endTag), Adjust(1)>>

\* handleCatch: the first task pushes the selector of the error data.
HandleCatch(s, endTag, fallbackTag, panicTag, success1, success2) ==
    LET selector == s.error # <<>> \/ s.panic # <<>> IN
    (IF selector THEN <<Push(<<Temp>>)>> ELSE <<>>)
      \o (IF s.error = <<>> THEN <<>>
            ELSE <<Condition, JumpI(panicTag), Pop(1)>>
                    \o DecodedClause(s.error[1], success1, fallbackTag, endTag))
      \o <<Place(panicTag)>>
      \o (IF s.panic = <<>> THEN <<>>
            ELSE <<Pop(1), Condition, JumpI(fallbackTag)>>
                    \o DecodedClause(s.panic[1], success2, fallbackTag, endTag))
      \o (IF selector THEN <<Pop(1)>> ELSE <<>>)
      \o <<Place(fallbackTag)>>
      \o (IF s.fallback = <<>> THEN <<Emit("revert", 0, <<>>)>>
            ELSE <<Push(AllSlots(s.fallback[1].params, "value"))>> \o Clause(s.fallback[1]))
      \o <<Place(endTag)>>

\* visit(TryStatement): the call and the jump on success are one instruction,
\* which leaves the return values only if it jumps.
VisitTry ==
    LET returnSize == SizeOnStack(Stmt.returns)
        successTag == NewTag(1)
        endTag     == NewTag(2)
    IN /\ Visiting("try")
       /\ Becomes(<<Emit("trycall", successTag, AllSlots(Stmt.returns, "value"))>>
                    \o HandleCatch(Stmt, NewTag(3), NewTag(4), NewTag(5), NewTag(6), NewTag(7))
                    \o <<Jump(endTag), Place(successTag), Adjust(returnSize)>>
                    \o (IF Stmt.success.params = <<>> THEN <<Pop(returnSize)>> ELSE <<>>)
                    \o Clause(Stmt.success)
                    \o <<Place(endTag), Check(height)>>, 7)

VisitStatement ==
    \/ VisitBlock \/ VisitDeclare \/ VisitEval \/ VisitUse \/ VisitIf \/ VisitWhile
    \/ VisitDoWhile \/ VisitFor \/ VisitBreak \/ VisitContinue \/ VisitReturn
    \/ VisitPlaceholder \/ VisitTry

-----------------------------------------------------------------------------
(***************************************************************************)
(* The other tasks.                                                        *)
(***************************************************************************)
Task(kind) ==
    /\ phase = "compile"
    /\ todo # <<>>
    /\ Head(todo).do = kind
    /\ UNCHANGED <<fn, machineVars>>

It == Head(todo)

\* An assertion of the compiler fails, or a variable is out of reach.
Ends(how) == phase' = how /\ UNCHANGED compilerVars

Then(tasks) == phase' = phase /\ todo' = tasks \o Tail(todo)

\* How an instruction changes the deposit.
Delta(i) == CASE i.op = "push"  -> Len(i.vals)
              [] i.op = "pop"   -> 0 - i.n
              [] i.op = "dup"   -> 1
              [] i.op = "jumpi" -> -1
              [] i.op = "out"   -> -1
              [] OTHER          -> 0

\* Assembly::append: a deposit that the last instruction made negative is noticed.
DoEmit ==
    /\ Task("emit")
    /\ IF height < 0 THEN Ends("assert")
       ELSE /\ Then(<<>>)
            /\ code' = Append(code, [op |-> It.op, n |-> It.n, vals |-> It.vals, h |-> height])
            /\ height' = height + Delta(It)
            /\ UNCHANGED <<tags, tagStacks, scopes, localVariables, depth>>

\* adjustStackOffset
DoAdjust ==
    /\ Task("adjust")
    /\ IF height + It.n < 0 THEN Ends("assert")
       ELSE /\ Then(<<>>)
            /\ height' = height + It.n
            /\ UNCHANGED <<code, tags, tagStacks, scopes, localVariables, depth>>

\* StackHeightChecker::check
DoCheck ==
    /\ Task("check")
    /\ IF height # It.h THEN Ends("assert")
       ELSE Then(<<>>) /\ UNCHANGED <<height, code, tags, tagStacks, scopes, localVariables, depth>>

\* addVariable
DoAddVariable ==
    /\ Task("addVariable")
    /\ IF height < It.off THEN Ends("assert")
       ELSE /\ Then(<<>>)
            /\ localVariables' = [localVariables EXCEPT ![It.x.name] = Append(@, height - It.off)]
            /\ UNCHANGED <<height, code, tags, tagStacks, scopes, depth>>

\* removeVariable
DoRemoveVariable ==
    /\ Task("removeVariable")
    /\ IF localVariables[It.x.name] = <<>> THEN Ends("assert")
       ELSE /\ Then(<<>>)
            /\ localVariables' = [localVariables EXCEPT ![It.x.name] = Front(@)]
            /\ UNCHANGED <<height, code, tags, tagStacks, scopes, depth>>

\* removeVariablesAboveStackHeight
RemoveVariablesAboveStackHeight(h) ==
    localVariables' = [x \in Vars |->
        IF localVariables[x] # <<>> /\ Last(localVariables[x]) >= h
          THEN Front(localVariables[x]) ELSE localVariables[x]]

NoVariableAbove == \A x \in Vars : localVariables[x] # <<>> => Last(localVariables[x]) <= height

\* The last lines of visit(TryCatchClause)
DoCloseClause ==
    /\ Task("closeClause")
    /\ IF ~NoVariableAbove THEN Ends("assert")
       ELSE /\ Then(<<Pop(It.n)>>)
            /\ RemoveVariablesAboveStackHeight(height - It.n)
            /\ UNCHANGED <<height, code, tags, tagStacks, scopes, depth>>

\* storeStackHeight
DoOpenScope ==
    /\ Task("openScope")
    /\ Then(<<>>)
    /\ scopes' = {s \in scopes : s.depth # depth \/ s.node # It.node}
                   \cup {[depth |-> depth, node |-> It.node, height |-> height]}
    /\ UNCHANGED <<height, code, tags, tagStacks, localVariables, depth>>

\* popScopedVariables
DoCloseScope ==
    LET found == {s \in scopes : s.depth = depth /\ s.node = It.node} IN
    /\ Task("closeScope")
    /\ IF found = {} \/ ~NoVariableAbove \/ (\E s \in found : s.height > height) THEN Ends("assert")
       ELSE LET s == CHOOSE s \in found : TRUE
            IN /\ Then(<<Pop(height - s.height)>>)
               /\ RemoveVariablesAboveStackHeight(s.height)
               /\ scopes' = scopes \ found
               /\ UNCHANGED <<height, code, tags, tagStacks, depth>>

\* m_breakTags and m_continueTags
DoOpenLoop ==
    /\ Task("openLoop")
    /\ Then(<<>>)
    /\ breakTags' = Append(breakTags, [tag |-> It.b, height |-> height])
    /\ continueTags' = Append(continueTags, [tag |-> It.c, height |-> height])
    /\ UNCHANGED <<height, code, tags, returnTags, scopes, localVariables, depth>>

DoCloseLoop ==
    /\ Task("closeLoop")
    /\ Then(<<>>)
    /\ breakTags' = Front(breakTags)
    /\ continueTags' = Front(continueTags)
    /\ UNCHANGED <<height, code, tags, returnTags, scopes, localVariables, depth>>

\* m_returnTags
DoOpenReturn ==
    /\ Task("openReturn")
    /\ Then(<<>>)
    /\ returnTags' = Append(returnTags, [tag |-> It.t, height |-> height])
    /\ UNCHANGED <<height, code, tags, breakTags, continueTags, scopes, localVariables, depth>>

DoCloseReturn ==
    /\ Task("closeReturn")
    /\ Then(<<>>)
    /\ returnTags' = Front(returnTags)
    /\ UNCHANGED <<height, code, tags, breakTags, continueTags, scopes, localVariables, depth>>

\* Mutant: the slots removed before the jump are not counted as there again.
PopAndJumpWithoutAdjust ==
    /\ Task("leave")
    /\ IF height < It.entry.height THEN Ends("assert")
       ELSE /\ Then(<<Pop(height - It.entry.height), Jump(It.entry.tag)>>)
            /\ UNCHANGED <<height, code, tags, tagStacks, scopes, localVariables, depth>>

\* popAndJump: the code behind the jump is generated for the height before it.
PopAndJump ==
    /\ Task("leave")
    /\ IF height < It.entry.height THEN Ends("assert")
       ELSE /\ Then(<<Pop(height - It.entry.height), Jump(It.entry.tag),
                      Adjust(height - It.entry.height)>>)
            /\ UNCHANGED <<height, code, tags, tagStacks, scopes, localVariables, depth>>

\* baseToCurrentStackOffset of baseStackOffsetOfVariable
StackPosition(x) == height - Last(localVariables[x.name]) - 1

\* moveToStackVariable: the last slot of the value first
MoveToStackVariable ==
    /\ Task("assign")
    /\ IF localVariables[It.x.name] = <<>> \/ StackPosition(It.x) < It.x.size THEN Ends("assert")
       ELSE LET n == StackPosition(It.x) - It.x.size + 1
            IN IF n > Reach THEN Ends("tooDeep")
               ELSE /\ Then(FlattenSeq([i \in 1..It.x.size |-> <<Emit("swap", n, <<>>), Pop(1)>>]))
                    /\ UNCHANGED <<height, code, tags, tagStacks, scopes, localVariables, depth>>

\* StackVariable::retrieveValue, outside of the repository: every slot is
\* duplicated from the same distance.
RetrieveValue ==
    /\ Task("read")
    /\ IF localVariables[It.x.name] = <<>> THEN Ends("assert")
       ELSE LET n == StackPosition(It.x) + 1
            IN IF n > Reach THEN Ends("tooDeep")
               ELSE /\ Then([i \in 1..It.x.size |-> Emit("dup", n, <<Declared(It.x)[i]>>)])
                    /\ UNCHANGED <<height, code, tags, tagStacks, scopes, localVariables, depth>>

\* appendModifierOrFunctionCode.  Base constructor specifiers among the
\* modifiers are skipped.
AppendModifierOrFunctionCode ==
    LET d       == depth + 1
        isBody  == d >= Len(fn.modifiers)
        m       == fn.modifiers[d + 1]
        params  == IF isBody THEN <<>> ELSE m.params
        block   == IF isBody THEN fn.body ELSE m.body
        returnTag == NewTag(1)
    IN /\ Task("codeBlock")
       /\ Then(IF ~isBody /\ m.isBase THEN <<CodeBlock, LeaveDepth>>
               ELSE FlattenSeq([i \in 1..Len(params) |->
                                   <<AddVariable(params[i], 0), Push(SlotsOf(params[i], "value"))>>])
                      \o <<OpenReturn(returnTag), Visit(block), Place(returnTag), CloseReturn,
                           Pop(SizeOnStack(params))>>
                      \o [i \in 1..Len(params) |-> RemoveVariable(params[i])]
                      \o <<LeaveDepth>>)
       /\ depth' = d
       /\ tags' = tags + 1
       /\ UNCHANGED <<height, code, tagStacks, scopes, localVariables>>

DoLeaveDepth ==
    /\ Task("leaveDepth")
    /\ Then(<<>>)
    /\ depth' = depth - 1
    /\ UNCHANGED <<height, code, tags, tagStacks, scopes, localVariables>>

\* One round of the loop that reshuffles the stack, with the test before it
\* and the assertion behind it.
Exchange(s, i, j) == [s EXCEPT ![i] = s[j], ![j] = s[i]]

\* Mutant: the swap is not recorded in the layout.
ReshuffleUnrecorded ==
    LET layout == It.layout
        back   == Last(layout)
    IN /\ Task("cleanup")
       /\ UNCHANGED <<height, code, tags, tagStacks, scopes, localVariables, depth>>
       /\ IF layout = <<>> \/ back = Len(layout) THEN Then(<<>>)
          ELSE IF back = 0 THEN Then(<<Pop(1), Cleanup(Front(layout))>>)
          ELSE Then(<<Cleanup(layout)>>)

\* Mutant: a slot to be discarded is dropped from the layout only.
ReshuffleWithoutPop ==
    LET layout == It.layout
        back   == Last(layout)
    IN /\ Task("cleanup")
       /\ UNCHANGED <<height, code, tags, tagStacks, scopes, localVariables, depth>>
       /\ IF layout = <<>> \/ back = Len(layout) THEN Then(<<>>)
          ELSE IF back = 0 THEN Then(<<Cleanup(Front(layout))>>)
          ELSE Then(<<Emit("swap", Len(layout) - back, <<>>),
                      Cleanup(Exchange(layout, back, Len(layout)))>>)

Reshuffle ==
    LET layout == It.layout
        back   == Last(layout)
    IN /\ Task("cleanup")
       /\ IF Len(layout) > Reach + 1 THEN Ends("tooDeep")
          ELSE IF layout = <<>> \/ back = Len(layout)
            THEN IF \A i \in 1..Len(layout) : layout[i] = i
                   THEN Then(<<>>) /\ UNCHANGED <<height, code, tags, tagStacks, scopes,
                                                  localVariables, depth>>
                   ELSE Ends("assert")
          ELSE /\ UNCHANGED <<height, code, tags, tagStacks, scopes, localVariables, depth>>
               /\ IF back = 0 THEN Then(<<Pop(1), Cleanup(Front(layout))>>)
                  ELSE Then(<<Emit("swap", Len(layout) - back, <<>>),
                              Cleanup(Exchange(layout, back, Len(layout)))>>)

\* The end of visit(FunctionDefinition): a constructor, fallback or receive
\* function is followed by other code instead of jumping out.
DoFinish ==
    /\ Task("finish")
    /\ IF fn.kind # "constructor" /\ \E x \in Vars : localVariables[x] # <<>> THEN Ends("assert")
       ELSE /\ Then(<<Emit(IF fn.kind = "function" THEN "out" ELSE "end", 0, <<>>)>>)
            /\ UNCHANGED <<height, code, tags, tagStacks, scopes, localVariables, depth>>

\* The code is complete and gets run.
StartRun ==
    /\ phase = "compile"
    /\ todo = <<>>
    /\ phase' = "run"
    /\ UNCHANGED <<fn, compilerVars, machineVars>>

Compile ==
    \/ VisitStatement \/ DoEmit \/ DoAdjust \/ DoCheck \/ DoAddVariable \/ DoRemoveVariable
    \/ DoCloseClause \/ DoOpenScope \/ DoCloseScope \/ DoOpenLoop \/ DoCloseLoop
    \/ DoOpenReturn \/ DoCloseReturn \/ PopAndJump \/ MoveToStackVariable \/ RetrieveValue
    \/ AppendModifierOrFunctionCode \/ DoLeaveDepth \/ Reshuffle \/ DoFinish \/ StartRun

-----------------------------------------------------------------------------
(***************************************************************************)
(* The machine, outside of the repository.  Conditions and calls have any  *)
(* outcome.                                                                *)
(***************************************************************************)
Running(op) == phase = "run" /\ code[ip].op = op /\ UNCHANGED <<fn, compilerVars>>
Target(t) == CHOOSE i \in DOMAIN code : code[i].op = "tag" /\ code[i].n = t
Drop(n) == SubSeq(stack, 1, Len(stack) - n)

RunPush ==
    /\ Running("push")
    /\ stack' = stack \o code[ip].vals
    /\ executed' = executed \cup {v.name : v \in {w \in ToSet(code[ip].vals) : w.name \in Marks}}
    /\ ip' = ip + 1
    /\ phase' = phase

RunStack ==
    LET n == code[ip].n
        top == Len(stack)
    IN /\ \/ Running("pop") /\ stack' = Drop(n)
          \/ Running("dup") /\ stack' = Append(stack, stack[top - n + 1])
          \/ Running("swap") /\ stack' = Exchange(stack, top, top - n)
       /\ ip' = ip + 1
       /\ UNCHANGED <<phase, executed>>

RunJump ==
    /\ \/ Running("tag") /\ ip' = ip + 1 /\ stack' = stack
       \/ Running("jump") /\ ip' = Target(code[ip].n) /\ stack' = stack
       \/ Running("jumpi") /\ ip' \in {ip + 1, Target(code[ip].n)} /\ stack' = Drop(1)
       \/ Running("trycall") /\ ip' = ip + 1 /\ stack' = stack
       \/ Running("trycall") /\ ip' = Target(code[ip].n) /\ stack' = stack \o code[ip].vals
    /\ UNCHANGED <<phase, executed>>

RunEnd ==
    /\ \/ Running("out") /\ phase' = "returned"
       \/ Running("end") /\ phase' = "returned"
       \/ Running("revert") /\ phase' = "reverted"
    /\ UNCHANGED machineVars

Run == RunPush \/ RunStack \/ RunJump \/ RunEnd

Ended == {"returned", "reverted", "assert", "tooDeep"}
Finished == phase \in Ended /\ UNCHANGED vars

Next == Compile \/ Run \/ Finished
Spec == Init /\ [][Next]_vars

\* The compiler takes its next task as long as there is one.
FairSpec == Spec /\ WF_vars(Compile)
-----------------------------------------------------------------------------
\* Type invariant.  The tasks are trees and are not described further.
TagStack == Seq([tag : Nat, height : Nat])
TypeOK ==
    /\ fn \in Programs
    /\ phase \in {"compile", "run"} \cup Ended
    /\ height \in Nat /\ tags \in Nat
    /\ breakTags \in TagStack /\ continueTags \in TagStack /\ returnTags \in TagStack
    /\ localVariables \in [Vars -> Seq(Nat)]
    /\ depth \in -1..Len(fn.modifiers)
    /\ ip \in 1..(Len(code) + 1)
    /\ executed \subseteq Marks

\* The height that the compiler counted is the height of the stack of the
\* machine, along every path through the code, up to a constant: a receive
\* function is compiled as if there was a return address, and the parameters
\* of a fallback function are counted twice.  (In front of a tag, and at the
\* end, the compiler is still to adjust its counter.)
Surplus(f) == CASE f.kind = "receive"  -> 1
                [] f.kind = "fallback" -> SizeOnStack(f.params)
                [] OTHER               -> 0
HeightsAgree ==
    phase = "run" /\ code[ip].op \notin {"tag", "out", "end"} =>
        Len(stack) + Surplus(fn) = code[ip].h

\* An access to a local variable finds the slots of this variable, and in them
\* the value it was given by its declaration, not the one it had before.
ReadsFindVariable ==
    phase = "run" /\ code[ip].op = "dup" => stack[Len(stack) - code[ip].n + 1] = code[ip].vals[1]

\* At the end of a function nothing is left of its frame: the stack holds the
\* return values in their order and, on top, the return address to jump to.
Contents(s) == [i \in 1..Len(s) |-> <<s[i].name, s[i].part>>]
FrameRemoved ==
    phase = "returned" =>
        Contents(stack) = Contents(AllSlots(fn.returns, "value")
                                     \o (IF fn.kind = "function" THEN <<ReturnAddress>> ELSE <<>>))

\* No assertion about the height of the stack or the local variables fails,
\* whatever jumps and nested scopes a function has.
NeverAsserts == phase # "assert"

\* A return statement leaves the body, or the modifier, that it stands in: the
\* code behind the placeholders that lead there is run before the function
\* ends.
Straight(m) == /\ \A s \in ToSet(m.body.body) : s.kind \in {"eval", "placeholder", "declare", "use"}
               /\ \E s \in ToSet(m.body.body) : s.kind = "placeholder"
ModifiersRunToTheEnd ==
    phase = "returned" /\ (\A m \in ToSet(fn.modifiers) : m.isBase \/ Straight(m)) =>
        \A m \in ToSet(fn.modifiers) : ~m.isBase =>
            \A s \in ToSet(m.body.body) : s.kind = "eval" => s.mark \in executed

\* The compiler gets to the end of every function.
CompilerTerminates == <>(phase # "compile")
=============================================================================
